---------------------------- MODULE SignalStore ----------------------------
(***************************************************************************)
(* What a sender and a reader may rely on: every signal is one versioned   *)
(* record that belongs to one ISN for ever.  Loading is atomic: it makes   *)
(* the first version of a new record, or the next version of the record    *)
(* that is there, and always leaves it active.  Only a withdrawal hides a  *)
(* signal, and only the deletion of its type removes it.                   *)
(*                                                                         *)
(* SignalLoad, in which a load is a transaction of four statements that    *)
(* interleaves with others, fails and is cut off, implements this module.  *)
(***************************************************************************)
EXTENDS SignalData

VARIABLE store   \* store[k] is Null or the Record of signal k

Init == store = [k \in Key |-> Null]

\* The first version of k.  If it is correlated to another signal, that
\* signal is in the same ISN (unless its type was deleted meanwhile).
Create(k, i, c) ==
  /\ store[k] = Null
  /\ c # k /\ store[c] # Null => store[c].isn = i
  /\ store' = [store EXCEPT ![k] =
        [isn |-> i, corr |-> c, withdrawn |-> FALSE, version |-> 1]]

\* The next version of k: exactly one more, never in another ISN.
Revise(k, c) ==
  /\ store[k] # Null
  /\ store' = [store EXCEPT ![k] =
        [isn |-> @.isn, corr |-> c, withdrawn |-> FALSE, version |-> @.version + 1]]

Withdraw(k) ==
  /\ store[k] # Null
  /\ store' = [store EXCEPT ![k].withdrawn = TRUE]

\* Deleting a signal type removes its signals with it.
Purge(t) ==
  store' = [k \in Key |-> IF k.type = t THEN Null ELSE store[k]]

\* A step changes the store (what leaves it alone is a stutter).
Next ==
  /\ store' # store
  /\ \/ \E k, c \in Key, i \in Isns : Create(k, i, c)
     \/ \E k, c \in Key : Revise(k, c)
     \/ \E k \in Key : Withdraw(k)
     \/ \E t \in SignalTypes : Purge(t)

Spec == Init /\ [][Next]_store
=============================================================================
