--------------------------- MODULE MCSignalLoad ---------------------------
(***************************************************************************)
(* Small instances of SignalLoad.  The account acme sends signals of type  *)
(* alert with local_refs x and y; home and away are ISNs.                  *)
(***************************************************************************)
EXTENDS SignalLoad, TLC

CONSTANTS acme, alert, x, y, home, away, b1, b2

K(ref) == [account |-> acme, type |-> alert, ref |-> ref]

Plain(ref) == [ref |-> ref, corr |-> Null, valid |-> TRUE]
Bad(ref) == [ref |-> ref, corr |-> Null, valid |-> FALSE]
Correlated(ref, to) == [ref |-> ref, corr |-> K(to), valid |-> TRUE]

Post(isn, batch, items) ==
  [kind |-> "isn", account |-> acme, type |-> alert, batch |-> batch,
   isn |-> isn, writable |-> {isn}, items |-> items]
Route(batch, writable, items) ==
  [kind |-> "router", account |-> acme, type |-> alert, batch |-> batch,
   isn |-> Null, writable |-> writable, items |-> items]

Symmetry == Permutations(Requests)

\* Two posts of the same local_refs, in one batch, with failures; x is
\* correlated with y if y has been loaded by then.
RaceSubmissions ==
  {Post(home, b1, <<Plain(x), Plain(y)>>),
   Post(home, b1, <<Bad(y), Correlated(x, y), Plain(x)>>)}

\* Posts that wait for one row, and have a failure to record.
WaitingSubmissions ==
  {Post(home, b1, <<Plain(x)>>), Post(home, b1, <<Bad(y), Plain(x)>>)}
StaleWithdraws ==
  {[account |-> acme, type |-> alert, ref |-> x, isn |-> i] : i \in {home, away}}
HomeOnly == {<<home, alert>>}
Everywhere == {home, away} \X {alert}

\* A sender uses one local_ref in two ISNs.
CrossedSubmissions ==
  {Post(away, b1, <<Plain(y)>>), Post(home, b1, <<Plain(x), Correlated(y, x)>>)}

\* The router, with rules that lead to home, to away or nowhere.
RouterSubmissions ==
  {Route(b1, {home, away}, <<Plain(x), Correlated(y, x)>>),
   Route(b1, {home}, <<Bad(x), Plain(y)>>),
   Route(b2, {home}, <<Correlated(y, x), Plain(x)>>)}
Anywhere == {home, away, Null}

LoadSubmissions == RaceSubmissions \union RouterSubmissions

None == {}
=============================================================================
