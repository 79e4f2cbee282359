---------------------------- MODULE SignalData ----------------------------
(***************************************************************************)
(* The constants and the row types of the tables signals, signal_versions  *)
(* and signal_processing_failures (sql/schema/001_initial_schema.sql),     *)
(* shared by the abstract store (SignalStore) and by the handlers that     *)
(* implement it (SignalLoad).                                              *)
(*                                                                         *)
(* A signal is identified by the columns of its unique key, and so is its  *)
(* id: a correlation id is the Key of the signal it names.  Payloads,      *)
(* titles and error texts are left out; of a version only its number, its  *)
(* batch and its creation time are kept.                                   *)
(***************************************************************************)
EXTENDS Naturals, Sequences

CONSTANTS
  Accounts,     \* accounts that submit signals
  SignalTypes,  \* a signal type is a slug with its sem_ver
  LocalRefs,    \* sender-supplied local_ref values
  Isns,         \* information sharing networks
  BatchRefs,    \* sender-supplied batch_ref values
  Requests,     \* submissions: one POST each
  Withdrawals,  \* withdrawals: one PUT each
  Null          \* SQL NULL and Go nil

\* unique_signals_account_signal_type_local_ref: the ISN is not in the key.
Key == [account: Accounts, type: SignalTypes, ref: LocalRefs]

Signal == [isn: Isns, corr: Key, withdrawn: BOOLEAN]

Version == [number: Nat, batch: BatchRefs, at: Nat]

Failure == [account: Accounts, batch: BatchRefs, type: SignalTypes,
            ref: LocalRefs, at: Nat]

\* One element of the "signals" array of a request body.
Item == [ref: LocalRefs, corr: Key \union {Null}, valid: BOOLEAN]

\* A signal as its readers see it, with the number of its latest version.
Record == [isn: Isns, corr: Key, withdrawn: BOOLEAN, version: Nat \ {0}]

ASSUME NullAssumption ==
  /\ Null \notin Isns
  /\ Null \notin Key
  /\ Null \notin Signal \union Record
  /\ Null \notin Requests \union Withdrawals
=============================================================================
