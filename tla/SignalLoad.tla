---------------------------- MODULE SignalLoad ----------------------------
(***************************************************************************)
(* The write side of the signal exchange: CreateSignals (a POST to one     *)
(* ISN), RouteSignals (a POST to the router, which finds the ISN of each   *)
(* signal), WithdrawSignal, and the configuration calls that race with     *)
(* them: disabling an ISN or a signal type, registering a type with an     *)
(* ISN and deleting a type.                                                *)
(*                                                                         *)
(* A request is a process.  It opens its batch, then loads its signals one *)
(* by one, each in a transaction of its own (BEGIN, validate correlation,  *)
(* upsert, insert version, COMMIT), then records the failures and answers. *)
(* PostgreSQL runs each statement at READ COMMITTED: a statement sees what *)
(* was committed when it began, so the upsert is two steps (its snapshot   *)
(* of isn and isn_signal_types, and the write, which waits for the row     *)
(* lock).  Rows written by a transaction are in req[r].row and             *)
(* req[r].number until COMMIT.  now() is the time of BEGIN.                *)
(***************************************************************************)
EXTENDS SignalData

CONSTANTS
  Submissions,   \* the requests that may be posted
  Withdraws,     \* the withdrawals that may be posted
  RouteTargets,  \* what the router cache may answer: ISNs, or Null (no match)
  Registered,    \* the pairs <<isn, type>> registered at the start
  MaxFaults,     \* bound on timeouts, crashes and failed statements
  MaxChanges     \* bound on configuration changes

Submission ==
  [kind: {"isn", "router"}, account: Accounts, type: SignalTypes,
   batch: BatchRefs, isn: Isns \union {Null},
   writable: SUBSET Isns,   \* where the claims allow writing this type
   items: Seq(Item)]

Withdrawal == [account: Accounts, type: SignalTypes, ref: LocalRefs, isn: Isns]

\* RequireAccessPermission("write") admits a post to an ISN only with claims
\* for it; an empty signals array is refused.
ASSUME InputAssumption ==
  /\ Submissions \subseteq Submission
  /\ \A s \in Submissions : /\ s.items # <<>>
                            /\ s.kind = "isn" => s.isn \in s.writable
  /\ Null \notin Submissions
  /\ Withdraws \subseteq Withdrawal
  /\ Null \notin Withdraws
  /\ RouteTargets \subseteq Isns \union {Null}
  /\ Registered \subseteq Isns \X SignalTypes
  /\ MaxFaults \in Nat
  /\ MaxChanges \in Nat

VARIABLES
  isns,      \* table isn: is_in_use and updated_at of each ISN
  isnTypes,  \* table isn_signal_types
  types,     \* table signal_types
  signals,   \* table signals: Null or the row of each Key
  versions,  \* table signal_versions: the rows of each Key
  batches,   \* table signal_batches: pairs <<account, batch_ref>>
  failures,  \* table signal_processing_failures
  lock,      \* who holds the row lock of each Key
  clock,     \* the database clock
  req,       \* the requests
  wd,        \* the withdrawals
  del,       \* the deletion of each signal type
  faults,    \* timeouts, crashes and failed statements so far
  changes    \* configuration changes so far

config == <<isns, isnTypes, types, del, changes>>
data   == <<signals, versions>>
vars   == <<isns, isnTypes, types, signals, versions, batches, failures,
            lock, clock, req, wd, del, faults, changes>>

-----------------------------------------------------------------------------
(* Requests *)

\* A resolvedSignal: an item with the ISN it is loaded into.
Resolved == [ref: LocalRefs, corr: Key \union {Null}, valid: BOOLEAN, isn: Isns]

\* What the response says of a stored signal.
Stored == [ref: LocalRefs, isn: Isns, number: Nat]

InTx     == {"correlate", "ids", "upsert", "version", "commit"}
Locked   == {"version", "commit"}
Finished == {"done", "error", "lost"}

Request ==
  [pc: {"idle", "batch", "resolve", "load", "log"} \union InTx \union Finished,
   sub: Submissions \union {Null},
   seen: BOOLEAN,             \* the batch existed when UpsertSignalBatch began
   inbox: Seq(Item),          \* signals to be validated or routed
   todo: Seq(Resolved),       \* signals still to be loaded; the head is current
   at: Nat,                   \* now() of the current transaction
   row: Signal \union {Null}, \* signals row it wrote
   number: Nat,               \* version_number it wrote
   stored: Seq(Stored),
   failed: Seq(LocalRefs),
   unroutable: Seq(LocalRefs),
   unlogged: Seq(LocalRefs),  \* failures still to be recorded
   expired: BOOLEAN]          \* r.Context() is cancelled

NewRequest ==
  [pc |-> "idle", sub |-> Null, seen |-> FALSE, inbox |-> <<>>, todo |-> <<>>,
   at |-> 0, row |-> Null, number |-> 0, stored |-> <<>>, failed |-> <<>>,
   unroutable |-> <<>>, unlogged |-> <<>>, expired |-> FALSE]

Answered == {"204", "404", "409", "500"}
WithdrawalState == [pc: {"idle", "check", "update"} \union Answered,
                    call: Withdraws \union {Null}]

KeyOf(call, ref) == [account |-> call.account, type |-> call.type, ref |-> ref]
Cur(r)    == Head(req[r].todo)
CurKey(r) == KeyOf(req[r].sub, Cur(r).ref)
BatchOf(r) == <<req[r].sub.account, req[r].sub.batch>>

Init ==
  /\ isns = [i \in Isns |-> [inUse |-> TRUE, updated |-> 0]]
  /\ isnTypes = [i \in Isns |-> [t \in SignalTypes |->
       [state |-> IF <<i, t>> \in Registered THEN "in_use" ELSE "absent",
        updated |-> 0]]]
  /\ types = SignalTypes
  /\ signals = [k \in Key |-> Null]
  /\ versions = [k \in Key |-> {}]
  /\ batches = {}
  /\ failures = {}
  /\ lock = [k \in Key |-> Null]
  /\ clock = 0
  /\ req = [r \in Requests |-> NewRequest]
  /\ wd = [w \in Withdrawals |-> [pc |-> "idle", call |-> Null]]
  /\ del = [t \in SignalTypes |-> "idle"]
  /\ faults = 0
  /\ changes = 0

-----------------------------------------------------------------------------
(* What the statements compute *)

\* The joins on isn and isn_signal_types with is_in_use = true.
InUseIsnOnly(i, t) == isns[i].inUse /\ isnTypes[i][t].state # "absent"
InUse(i, t) == isns[i].inUse /\ isnTypes[i][t].state = "in_use"

\* ValidateCorrelationID: the correlated signal is in the ISN of the request.
CorrelationValid(c, i) == signals[c] # Null /\ signals[c].isn = i

\* An upsert or an update of a row waits while another transaction holds it.
NotLocked(k) == TRUE
RowFree(k) == lock[k] = Null

\* INSERT INTO signals ... ON CONFLICT DO UPDATE.
UpsertMoves(k, s) ==
  [isn |-> s.isn, corr |-> IF s.corr = Null THEN k ELSE s.corr, withdrawn |-> FALSE]
Upserted(k, s) ==
  IF signals[k] = Null
  THEN [isn |-> s.isn, corr |-> IF s.corr = Null THEN k ELSE s.corr,
        withdrawn |-> FALSE]
  ELSE [signals[k] EXCEPT !.corr = IF s.corr = Null THEN @ ELSE s.corr,
                          !.withdrawn = FALSE]

\* MAX(version_number) of the versions of k, 0 if it has none.
Numbers(k) == {v.number : v \in versions[k]}
LatestNumber(k) ==
  IF versions[k] = {} THEN 0
  ELSE CHOOSE n \in Numbers(k) : \A m \in Numbers(k) : m <= n
NextNumberSkips(k) == LatestNumber(k) + 2
NextNumber(k) == LatestNumber(k) + 1

\* COMMIT and ROLLBACK release the row, and so does the server when the
\* connection of the transaction is closed.
UnlockNothing(r) == UNCHANGED lock
Unlock(r) == lock' = [k \in Key |-> IF lock[k] = r THEN Null ELSE lock[k]]

\* A database call succeeds, or fails: because the request timed out, or for
\* a reason of its own.
Works(r) == ~req[r].expired /\ UNCHANGED faults
Fails(r) ==
  \/ req[r].expired /\ UNCHANGED faults
  \/ ~req[r].expired /\ faults < MaxFaults /\ faults' = faults + 1

\* The current signal is listed in FailedSignals, or (Dropped) in no list.
Dropped(q)  == [q EXCEPT !.pc = "load", !.todo = Tail(@),
                         !.at = 0, !.row = Null, !.number = 0]
RejectedGoesOn(q) == [q EXCEPT !.todo = Tail(@), !.failed = Append(@, Head(q.todo).ref)]
Rejected(q) == [Dropped(q) EXCEPT !.failed = Append(@, Head(q.todo).ref)]

-----------------------------------------------------------------------------
(* Opening the batch *)

\* The post arrives; its first statement, UpsertSignalBatch, takes a snapshot.
Submit(r) ==
  /\ req[r].pc = "idle"
  /\ \E s \in Submissions :
       req' = [req EXCEPT ![r].pc = "batch", ![r].sub = s,
                          ![r].seen = <<s.account, s.batch>> \in batches]
  /\ UNCHANGED <<config, data, batches, failures, lock, clock, wd, faults>>

Accepted(q) == [q EXCEPT !.pc = "resolve", !.inbox = q.sub.items]

\* A batch that another request committed after the snapshot conflicts with
\* the insert and is not seen by the select: no row, and the request fails.
OpenBatch(r) ==
  /\ req[r].pc = "batch"
  /\ \/ /\ Works(r)
        /\ BatchOf(r) \in batches => req[r].seen
        /\ batches' = batches \union {BatchOf(r)}
        /\ req' = [req EXCEPT ![r] = Accepted(@)]
     \/ /\ \/ Works(r) /\ BatchOf(r) \in batches /\ ~req[r].seen
           \/ Fails(r)
        /\ req' = [req EXCEPT ![r].pc = "error"]
        /\ UNCHANGED batches
  /\ UNCHANGED <<config, data, failures, lock, clock, wd>>

-----------------------------------------------------------------------------
(* Before the first signal is loaded, CreateSignals validates every signal *)
(* and RouteSignals finds the ISN of every signal.                         *)

Target(item, i) ==
  [ref |-> item.ref, corr |-> item.corr, valid |-> item.valid, isn |-> i]

\* The signal at the head of inbox goes on to be loaded, or to a list of
\* the response.
Taken(q) == [q EXCEPT !.pc = IF Tail(q.inbox) = <<>> THEN "load" ELSE "resolve",
                      !.inbox = Tail(@)]
Validated(q) ==
  LET item == Head(q.inbox) IN
  IF item.valid
  THEN [Taken(q) EXCEPT !.todo = Append(@, Target(item, q.sub.isn))]
  ELSE [Taken(q) EXCEPT !.failed = Append(@, item.ref)]
RoutedTwice(q, i) ==
  IF i = Null
  THEN [Taken(q) EXCEPT !.unroutable = Append(@, Head(q.inbox).ref),
                        !.failed = Append(@, Head(q.inbox).ref)]
  ELSE [Taken(q) EXCEPT !.todo = Append(@, Target(Head(q.inbox), i))]
Routed(q, i) ==
  IF i = Null
  THEN [Taken(q) EXCEPT !.unroutable = Append(@, Head(q.inbox).ref)]
  ELSE [Taken(q) EXCEPT !.todo = Append(@, Target(Head(q.inbox), i))]

\* ValidateSignal uses the schemas in memory.
Validate(r) ==
  /\ req[r].pc = "resolve" /\ req[r].sub.kind = "isn"
  /\ req' = [req EXCEPT ![r] = Validated(@)]
  /\ UNCHANGED <<config, data, batches, failures, lock, clock, wd, faults>>

\* GetIsnBySignalID; an ISN that is not in use is not returned.
IsnOf(c) ==
  IF signals[c] # Null /\ isns[signals[c].isn].inUse THEN signals[c].isn ELSE Null

ResolveByCorrelation(r) ==
  LET c == Head(req[r].inbox).corr IN
  /\ req[r].pc = "resolve" /\ req[r].sub.kind = "router"
  /\ c # Null
  /\ \/ Works(r) /\ req' = [req EXCEPT ![r] = Routed(@, IsnOf(c))]
     \/ Fails(r) /\ req' = [req EXCEPT ![r].pc = "error"]
  /\ UNCHANGED <<config, data, batches, failures, lock, clock, wd>>

\* signalRouterCache.Resolve is a lookup in memory.
ResolveByRules(r) ==
  /\ req[r].pc = "resolve" /\ req[r].sub.kind = "router"
  /\ Head(req[r].inbox).corr = Null
  /\ \E i \in RouteTargets : req' = [req EXCEPT ![r] = Routed(@, i)]
  /\ UNCHANGED <<config, data, batches, failures, lock, clock, wd, faults>>

-----------------------------------------------------------------------------
(* Loading one signal *)

Admissible(r) == Cur(r).isn \in req[r].sub.writable /\ Cur(r).valid

\* RouteSignals checks claims and schema of a signal before its transaction.
RejectUnauthorised(r) ==
  /\ req[r].pc = "load" /\ req[r].todo # <<>>
  /\ ~Admissible(r)
  /\ req' = [req EXCEPT ![r] = Rejected(@)]
  /\ UNCHANGED <<config, data, batches, failures, lock, clock, wd, faults>>

\* CreateSignals validates the correlation id, RouteSignals relies on the
\* ISN it found for it.
FirstStatement(q) ==
  IF q.sub.kind = "isn" /\ Head(q.todo).corr # Null THEN "correlate" ELSE "ids"

BeginTx(r) ==
  /\ req[r].pc = "load" /\ req[r].todo # <<>>
  /\ Admissible(r)
  /\ \/ /\ Works(r)
        /\ clock' = clock + 1
        /\ req' = [req EXCEPT ![r].pc = FirstStatement(req[r]), ![r].at = clock + 1]
     \/ /\ Fails(r)
        /\ req' = [req EXCEPT ![r] = Rejected(@)]
        /\ UNCHANGED clock
  /\ UNCHANGED <<config, data, batches, failures, lock, wd>>

CheckCorrelation(r) ==
  /\ req[r].pc = "correlate"
  /\ \/ /\ Works(r)
        /\ CorrelationValid(Cur(r).corr, Cur(r).isn)
        /\ req' = [req EXCEPT ![r].pc = "ids"]
     \/ /\ \/ Works(r) /\ ~CorrelationValid(Cur(r).corr, Cur(r).isn)
           \/ Fails(r)
        /\ req' = [req EXCEPT ![r] = Rejected(@)]
  /\ UNCHANGED <<config, data, batches, failures, lock, clock, wd>>

\* The master record could not be created and the rollback worked, or (only
\* CreateSignals looks) the rollback failed too and the signal is forgotten.
MasterFails(r) ==
  /\ Fails(r)
  /\ \/ req' = [req EXCEPT ![r] = Rejected(@)]
     \/ req[r].sub.kind = "isn" /\ req' = [req EXCEPT ![r] = Dropped(@)]

\* The upsert begins: its CTE ids selects the ISN and the type if in use.
ReadIds(r) ==
  /\ req[r].pc = "ids"
  /\ \/ /\ Works(r)
        /\ InUse(Cur(r).isn, req[r].sub.type)
        /\ req' = [req EXCEPT ![r].pc = "upsert"]
     \/ /\ Works(r)
        /\ ~InUse(Cur(r).isn, req[r].sub.type)
        /\ req' = [req EXCEPT ![r] = Rejected(@)]
     \/ MasterFails(r)
  /\ UNCHANGED <<config, data, batches, failures, lock, clock, wd>>

\* The upsert writes: it waits for the row, then holds its lock until the
\* transaction ends.  A type deleted meanwhile violates the foreign key.
Upsert(r) ==
  /\ req[r].pc = "upsert"
  /\ \/ /\ Works(r) /\ RowFree(CurKey(r)) /\ req[r].sub.type \in types
        /\ lock' = [lock EXCEPT ![CurKey(r)] = r]
        /\ req' = [req EXCEPT ![r].pc = "version",
                              ![r].row = Upserted(CurKey(r), Cur(r))]
     \/ /\ Works(r) /\ RowFree(CurKey(r)) /\ req[r].sub.type \notin types
        /\ req' = [req EXCEPT ![r] = Rejected(@)]
        /\ UNCHANGED lock
     \/ MasterFails(r) /\ UNCHANGED lock
  /\ UNCHANGED <<config, data, batches, failures, clock, wd>>

InsertVersion(r) ==
  /\ req[r].pc = "version"
  /\ \/ /\ Works(r)
        /\ req' = [req EXCEPT ![r].pc = "commit", ![r].number = NextNumber(CurKey(r))]
        /\ UNCHANGED lock
     \/ /\ Fails(r)
        /\ req' = [req EXCEPT ![r] = Rejected(@)]
        /\ Unlock(r)
  /\ UNCHANGED <<config, data, batches, failures, clock, wd>>

\* The rows of the transaction become visible, together.
Apply(r) ==
  /\ signals' = [signals EXCEPT ![CurKey(r)] = req[r].row]
  /\ versions' = [versions EXCEPT ![CurKey(r)] =
       @ \union {[number |-> req[r].number, batch |-> req[r].sub.batch,
                  at |-> req[r].at]}]

\* What the response will say of the signal just committed.
StoredStale(q) == [ref |-> Head(q.todo).ref, isn |-> Head(q.todo).isn,
                   number |-> q.number + 1]
StoredOf(q) == [ref |-> Head(q.todo).ref, isn |-> Head(q.todo).isn,
                number |-> q.number]

Confirmed(q) == [Dropped(q) EXCEPT !.stored = Append(@, StoredOf(q))]

\* An error from COMMIT does not tell whether the transaction was applied.
Commit(r) ==
  /\ req[r].pc = "commit"
  /\ \/ /\ Works(r)
        /\ Apply(r)
        /\ req' = [req EXCEPT ![r] = Confirmed(@)]
     \/ /\ Fails(r)
        /\ Apply(r) \/ UNCHANGED data
        /\ req' = [req EXCEPT ![r] = Rejected(@)]
  /\ Unlock(r)
  /\ UNCHANGED <<config, batches, failures, clock, wd>>

-----------------------------------------------------------------------------
(* Recording the failures and answering *)

\* After the last signal, and not before, the failures are recorded.
Unlogged(q) == q.unroutable \o q.failed
FinishLoad(r) ==
  /\ req[r].pc = "load" /\ req[r].todo = <<>>
  /\ req' = [req EXCEPT ![r].pc = "log", ![r].unlogged = Unlogged(req[r])]
  /\ UNCHANGED <<config, data, batches, failures, lock, clock, wd, faults>>

\* Each failure is a statement of its own; if it fails that is only logged.
LoggedUntilItWorks(q, ok) == [q EXCEPT !.unlogged = IF ok THEN Tail(@) ELSE @]
Logged(q, ok) == [q EXCEPT !.unlogged = Tail(@)]
LogFailure(r) ==
  /\ req[r].pc = "log" /\ req[r].unlogged # <<>>
  /\ \/ /\ Works(r)
        /\ req' = [req EXCEPT ![r] = Logged(@, TRUE)]
        /\ clock' = clock + 1
        /\ failures' = failures \union
             {[account |-> req[r].sub.account, batch |-> req[r].sub.batch,
               type |-> req[r].sub.type, ref |-> Head(req[r].unlogged),
               at |-> clock + 1]}
     \/ /\ Fails(r)
        /\ req' = [req EXCEPT ![r] = Logged(@, FALSE)]
        /\ UNCHANGED <<clock, failures>>
  /\ UNCHANGED <<config, data, batches, lock, wd>>

Respond(r) ==
  /\ req[r].pc = "log" /\ req[r].unlogged = <<>>
  /\ req' = [req EXCEPT ![r].pc = "done"]
  /\ UNCHANGED <<config, data, batches, failures, lock, clock, wd, faults>>

\* The Timeout middleware cancels r.Context(): from here on every database
\* call of the request fails, yet the handler runs to its end and answers.
Expire(r) ==
  /\ req[r].pc \notin {"idle"} \union Finished
  /\ ~req[r].expired
  /\ faults < MaxFaults /\ faults' = faults + 1
  /\ req' = [req EXCEPT ![r].expired = TRUE]
  /\ UNCHANGED <<config, data, batches, failures, lock, clock, wd>>

\* The process dies: the server rolls its transaction back, nobody answers.
Crash(r) ==
  /\ req[r].pc \notin {"idle"} \union Finished
  /\ faults < MaxFaults /\ faults' = faults + 1
  /\ req' = [req EXCEPT ![r].pc = "lost"]
  /\ Unlock(r)
  /\ UNCHANGED <<config, data, batches, failures, clock, wd>>

-----------------------------------------------------------------------------
(* WithdrawSignal *)

WithdrawKey(w) == KeyOf(wd[w].call, wd[w].call.ref)

WithdrawRead(w) ==
  /\ wd[w].pc = "idle"
  /\ \E c \in Withdraws :
       LET row == signals[KeyOf(c, c.ref)] IN
       wd' = [wd EXCEPT ![w] =
         [call |-> c, pc |-> IF row = Null THEN "404"
                             ELSE IF row.withdrawn THEN "409" ELSE "check"]]
  /\ UNCHANGED <<config, data, batches, failures, lock, clock, req, faults>>

\* The update begins: its subselects find the ISN and the type if in use.
WithdrawIds(w) ==
  /\ wd[w].pc = "check"
  /\ wd' = [wd EXCEPT ![w].pc =
       IF InUse(wd[w].call.isn, wd[w].call.type) THEN "update" ELSE "404"]
  /\ UNCHANGED <<config, data, batches, failures, lock, clock, req, faults>>

\* The update writes: it waits for the row, and finds it only in its ISN.
WithdrawMatches(k, i) == signals[k] # Null /\ signals[k].isn = i
WithdrawUpdate(w) ==
  LET k == WithdrawKey(w) IN
  /\ wd[w].pc = "update"
  /\ RowFree(k)
  /\ \/ /\ WithdrawMatches(k, wd[w].call.isn)
        /\ signals' = [signals EXCEPT ![k].withdrawn = TRUE]
        /\ wd' = [wd EXCEPT ![w].pc = "204"]
     \/ /\ ~WithdrawMatches(k, wd[w].call.isn)
        /\ wd' = [wd EXCEPT ![w].pc = "404"]
        /\ UNCHANGED signals
  /\ UNCHANGED <<config, versions, batches, failures, lock, clock, req, faults>>

\* A statement fails and changes nothing.
WithdrawFails(w) ==
  /\ wd[w].pc \in {"check", "update"}
  /\ faults < MaxFaults /\ faults' = faults + 1
  /\ wd' = [wd EXCEPT ![w].pc = "500"]
  /\ UNCHANGED <<config, data, batches, failures, lock, clock, req>>

-----------------------------------------------------------------------------
(* Configuration *)

Change == changes < MaxChanges /\ changes' = changes + 1

\* UpdateIsn with is_in_use.
ToggleIsn(i) ==
  /\ Change
  /\ clock' = clock + 1
  /\ isns' = [isns EXCEPT ![i] = [inUse |-> ~@.inUse, updated |-> clock + 1]]
  /\ UNCHANGED <<isnTypes, types, del, data, batches, failures, lock, req, wd, faults>>

\* UpdateIsnSignalTypeStatus.
ToggleIsnType(i, t) ==
  /\ Change
  /\ isnTypes[i][t].state # "absent"
  /\ clock' = clock + 1
  /\ isnTypes' = [isnTypes EXCEPT ![i][t] =
       [state |-> IF @.state = "in_use" THEN "disabled" ELSE "in_use",
        updated |-> clock + 1]]
  /\ UNCHANGED <<isns, types, del, data, batches, failures, lock, req, wd, faults>>

\* AddSignalTypeToISN; a pair that is there is left as it is.
AddTypeToIsn(i, t) ==
  /\ Change
  /\ t \in types
  /\ isnTypes[i][t].state = "absent"
  /\ clock' = clock + 1
  /\ isnTypes' = [isnTypes EXCEPT ![i][t] =
       [state |-> "in_use", updated |-> clock + 1]]
  /\ UNCHANGED <<isns, types, del, data, batches, failures, lock, req, wd, faults>>

\* DeleteSignalType: first the check that no signal has the type ...
CheckTypeUnused(t) ==
  /\ Change
  /\ t \in types /\ del[t] = "idle"
  /\ \A k \in Key : k.type = t => signals[k] = Null
  /\ del' = [del EXCEPT ![t] = "checked"]
  /\ UNCHANGED <<isns, isnTypes, types, data, batches, failures, lock, clock,
                 req, wd, faults>>

\* ... then the delete, which waits for transactions that use the type and
\* cascades to its signals, their versions and its rows of isn_signal_types.
DeleteType(t) ==
  /\ del[t] = "checked"
  /\ \A k \in Key : k.type = t => RowFree(k)
  /\ del' = [del EXCEPT ![t] = "done"]
  /\ types' = types \ {t}
  /\ isnTypes' = [i \in Isns |-> [isnTypes[i] EXCEPT ![t].state = "absent"]]
  /\ signals' = [k \in Key |-> IF k.type = t THEN Null ELSE signals[k]]
  /\ versions' = [k \in Key |-> IF k.type = t THEN {} ELSE versions[k]]
  /\ UNCHANGED <<isns, changes, batches, failures, lock, clock, req, wd, faults>>

-----------------------------------------------------------------------------

\* The steps a running server takes for a request once it has arrived.
Progress(r) ==
  \/ OpenBatch(r) \/ Validate(r) \/ ResolveByCorrelation(r) \/ ResolveByRules(r)
  \/ RejectUnauthorised(r) \/ BeginTx(r) \/ CheckCorrelation(r)
  \/ ReadIds(r) \/ Upsert(r) \/ InsertVersion(r) \/ Commit(r)
  \/ FinishLoad(r) \/ LogFailure(r) \/ Respond(r)

WithdrawProgress(w) == WithdrawIds(w) \/ WithdrawUpdate(w)

Configure ==
  \/ \E i \in Isns : ToggleIsn(i)
  \/ \E i \in Isns, t \in SignalTypes : ToggleIsnType(i, t) \/ AddTypeToIsn(i, t)
  \/ \E t \in SignalTypes : CheckTypeUnused(t) \/ DeleteType(t)

\* Every call has been answered or lost.
AllAnswered ==
  /\ \A r \in Requests : req[r].pc \in Finished
  /\ \A w \in Withdrawals : wd[w].pc \in Answered
  /\ UNCHANGED vars

Next ==
  \/ \E r \in Requests : Submit(r) \/ Progress(r) \/ Expire(r) \/ Crash(r)
  \/ \E w \in Withdrawals : WithdrawRead(w) \/ WithdrawProgress(w) \/ WithdrawFails(w)
  \/ Configure
  \/ AllAnswered

Spec == Init /\ [][Next]_vars

\* The HTTP server runs each request in a goroutine of its own, and the
\* database grants a row lock to a waiter when it is released.
FairSpec ==
  /\ Spec
  /\ \A r \in Requests : WF_vars(Progress(r))
  /\ \A w \in Withdrawals : WF_vars(WithdrawProgress(w))

-----------------------------------------------------------------------------
(* Properties *)

\* Where a request stands determines what its variables hold.
Shape(q) ==
  /\ q.pc # "idle" => q.sub \in Submissions
  /\ q.pc = "resolve" => q.inbox # <<>>
  /\ q.pc \in InTx => q.todo # <<>>
  /\ q.pc \in Locked => q.row \in Signal

\* The type invariant.
TypeOK ==
  /\ isns \in [Isns -> [inUse: BOOLEAN, updated: Nat]]
  /\ isnTypes \in [Isns -> [SignalTypes ->
       [state: {"absent", "disabled", "in_use"}, updated: Nat]]]
  /\ types \subseteq SignalTypes
  /\ signals \in [Key -> Signal \union {Null}]
  /\ versions \in [Key -> SUBSET Version]
  /\ batches \subseteq Accounts \X BatchRefs
  /\ failures \subseteq Failure
  /\ lock \in [Key -> Requests \union {Null}]
  /\ clock \in Nat
  /\ req \in [Requests -> Request]
  /\ wd \in [Withdrawals -> WithdrawalState]
  /\ del \in [SignalTypes -> {"idle", "checked", "done"}]
  /\ faults \in 0..MaxFaults
  /\ changes \in 0..MaxChanges
  /\ \A r \in Requests : Shape(req[r])
  /\ \A k \in Key : LatestNumber(k) \in Nat

\* A request holds the lock of the row it has written, until its transaction
\* ends however it ends, and no other lock: no failure, timeout or crash
\* leaves a signal locked, and no two loads of a local_ref write at a time.
LocksHeld ==
  \A r \in Requests, k \in Key :
    lock[k] = r <=> req[r].pc \in Locked /\ k = CurKey(r)

\* The versions of a signal are numbered 1, 2, 3, ... without gaps or
\* repetitions, and a signals row is committed with its first version: no
\* interleaving of loads of one local_ref, and no failure, breaks this.
VersionsContiguous ==
  \A k \in Key :
    /\ signals[k] = Null <=> versions[k] = {}
    /\ Numbers(k) = 1..LatestNumber(k)
    /\ \A v, w \in versions[k] : v.number = w.number => v = w

\* The number a transaction is about to commit is the next one: the row lock
\* taken by the upsert keeps MAX(version_number) + 1 fresh until COMMIT, so
\* unique_signal_id_version_number never rejects a load.
NumberIsFresh ==
  \A r \in Requests :
    req[r].pc = "commit" => req[r].number = LatestNumber(CurKey(r)) + 1

\* Whatever the response says was stored is in the database, as a version of
\* that batch, whoever else submits, withdraws or fails (the deletion of the
\* type excepted).
StoredIsDurable ==
  \A r \in Requests : \A j \in DOMAIN req[r].stored :
    LET e == req[r].stored[j] IN
    \/ req[r].sub.type \notin types
    \/ \E v \in versions[KeyOf(req[r].sub, e.ref)] :
         v.number = e.number /\ v.batch = req[r].sub.batch

\* A stale access token is no use: a load that began after its ISN, or the
\* signal type on it, was disabled stores nothing through that ISN.
NothingStoredThroughDisabledIsn ==
  \A r \in Requests : \A j \in DOMAIN req[r].stored :
    LET e == req[r].stored[j]
        t == req[r].sub.type
    IN \A v \in versions[KeyOf(req[r].sub, e.ref)] : v.number = e.number =>
         /\ ~isns[e.isn].inUse => v.at < isns[e.isn].updated
         /\ isnTypes[e.isn][t].state = "disabled"
              => v.at < isnTypes[e.isn][t].updated

\* The counts of a response add up to the signals submitted, for the router
\* always.  A post to an ISN counts no signal twice, and forgets at most one for
\* each statement that failed before the request timed out (MasterFails); after
\* that nobody reads the answer.
Reported(r) ==
  Len(req[r].stored) + Len(req[r].failed) + Len(req[r].unroutable)
CountsAddUp ==
  \A r \in Requests : req[r].pc = "done" =>
    LET sent == Len(req[r].sub.items) IN
    /\ Reported(r) <= sent
    /\ req[r].sub.kind = "router" => Reported(r) = sent
    /\ ~req[r].expired => Reported(r) + faults >= sent

\* Every load and withdrawal is, to everyone else, one atomic step of the
\* versioned store: never another ISN, never a skipped version, reactivation
\* with every load, correlation to the same ISN when a signal is created.
Store == INSTANCE SignalStore WITH store <- [k \in Key |->
  IF signals[k] = Null THEN Null
  ELSE [isn |-> signals[k].isn, corr |-> signals[k].corr,
        withdrawn |-> signals[k].withdrawn, version |-> LatestNumber(k)]]
ImplementsStore == Store!Spec

\* Every request and every withdrawal that arrives is answered, or its
\* process dies: no request waits for a row for ever.
EveryCallAnswered ==
  /\ \A r \in Requests : req[r].pc = "batch" ~> req[r].pc \in Finished
  /\ \A w \in Withdrawals :
       wd[w].pc = "check" ~> wd[w].pc \in Answered

-----------------------------------------------------------------------------
(* What the documentation says and the code does not do *)

\* signals.go:414 "Signals can only be correlated within the same ISN."
CorrelationWithinIsn ==
  \A k \in Key :
    signals[k] # Null /\ signals[signals[k].corr] # Null
      => signals[signals[k].corr].isn = signals[k].isn

\* Deleting a signal type never deletes signals.
DeletedTypeHasNoSignals ==
  [][\A k \in Key : k.type \in types \ types' => signals[k] = Null]_vars
=============================================================================
