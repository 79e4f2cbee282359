------------------------------ MODULE MCReads ------------------------------
(***************************************************************************)
(* A small instance of SignalSearch: requests load the local_refs x and y, *)
(* and fail to, while y is withdrawn and somebody searches or asks for a   *)
(* batch report.                                                           *)
(***************************************************************************)
EXTENDS SignalSearch, TLC

CONSTANTS acme, alert, x, y, home, away, b1, b2

K(ref) == [account |-> acme, type |-> alert, ref |-> ref]

Plain(ref) == [ref |-> ref, corr |-> Null, valid |-> TRUE]
Bad(ref) == [ref |-> ref, corr |-> Null, valid |-> FALSE]
CorrelatedItem == [ref |-> y, corr |-> K(x), valid |-> TRUE]

Post(isn, batch, items) ==
  [kind |-> "isn", account |-> acme, type |-> alert, batch |-> batch,
   isn |-> isn, writable |-> {isn}, items |-> items]

\* A load, a load that partly fails and a load of a correlated signal.
LoadsOfBatch ==
  {Post(home, b1, <<Plain(x)>>), Post(away, b2, <<Bad(x), Plain(x)>>),
   Post(home, b1, <<CorrelatedItem>>)}
WithdrawY == {[account |-> acme, type |-> alert, ref |-> y, isn |-> home]}

Ask(caller, ref, withdrawn) ==
  [caller |-> caller, canRead |-> FALSE, isn |-> home, type |-> alert,
   account |-> Null, id |-> Null, ref |-> ref, dates |-> Null,
   withdrawn |-> withdrawn, correlated |-> TRUE, previous |-> TRUE]

\* A member and the public ask for x and what is correlated with it; one
\* search has no filter.
SearchX == {Ask(acme, x, FALSE), Ask(Null, x, TRUE), Ask(Null, Null, FALSE)}

Everywhere == {home, away} \X {alert}
None == {}
Symmetry == Permutations(Requests)
=============================================================================
