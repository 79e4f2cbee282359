---------------------- MODULE SignalLoadAnswers_proofs ----------------------
(***************************************************************************)
(* For every number of requests, signals, ISNs and faults: what the        *)
(* answers of SignalLoad say is true, and SignalLoad implements            *)
(* SignalStore.                                                            *)
(***************************************************************************)
EXTENDS SignalLoad_proofs

-----------------------------------------------------------------------------
(* The inductive invariant, on top of IInv *)

\* The database clock is ahead of all that it stamped, and what it stamped at
\* two moments is told apart.
Clocks ==
  /\ \A k \in Key : \A v \in versions[k] : v.at <= clock
  /\ \A r \in Requests : req[r].pc \in InTx => req[r].at <= clock
  /\ \A f \in failures : f.at <= clock /\ f.at > 0
  /\ \A f \in failures : \A r \in Requests :
       req[r].pc \in InTx => f.at # req[r].at
  /\ \A f \in failures : \A k \in Key : \A v \in versions[k] : f.at # v.at

\* A type that was deleted has no signals, and gets none: who has written a
\* row of the type holds its lock, for which the deletion waits.
Deleted ==
  /\ \A k \in Key : k.type \notin types => versions[k] = {}
  /\ \A r \in Requests : req[r].pc \in Locked => req[r].sub.type \in types

\* An ISN or a type that is disabled now was not when a transaction that is
\* past its look at them began.
OnTime(i, t, at) ==
  /\ ~isns[i].inUse => at < isns[i].updated
  /\ isnTypes[i][t].state = "disabled" => at < isnTypes[i][t].updated
Admitted == \A r \in Requests :
  req[r].pc \in {"upsert", "version", "commit"} =>
    OnTime(Cur(r).isn, req[r].sub.type, req[r].at)

\* The row to be committed is what the upsert would still make of the table.
RowKept == \A r \in Requests :
  req[r].pc \in Locked => req[r].row = Upserted(CurKey(r), Cur(r))

\* A correlated signal that was found in an ISN stays there, unless its type
\* is deleted.
Kept(c, i) == c # Null /\ c.type \in types => signals[c] # Null /\ signals[c].isn = i
CorrelationsKept == \A r \in Requests :
  /\ req[r].pc # "idle" /\ req[r].sub.kind = "router"
       => \A j \in 1..Len(req[r].todo) : Kept(req[r].todo[j].corr, req[r].todo[j].isn)
  /\ req[r].pc \in InTx \ {"correlate"} => Kept(Cur(r).corr, Cur(r).isn)

\* Every signal of the request is in one of its lists, but for those forgotten at
\* one failure each, n at most.
Total(inbox, todo, stored, failed, unroutable) ==
  Len(inbox) + Len(todo) + Len(stored) + Len(failed) + Len(unroutable)
Sum(q) == Total(q.inbox, q.todo, q.stored, q.failed, q.unroutable)
Accounted(q, n) ==
  /\ Sum(q) <= Len(q.sub.items)
  /\ q.sub.kind = "router" => Sum(q) = Len(q.sub.items)
  /\ ~q.expired => Sum(q) + n >= Len(q.sub.items)
Counted(q) ==
  /\ q.pc = "idle" => q.stored = <<>>
  /\ q.pc \in {"idle", "batch"} =>
       q.todo = <<>> /\ q.stored = <<>> /\ q.failed = <<>> /\ q.unroutable = <<>>
  /\ q.pc \in {"load"} \union InTx => q.inbox = <<>>
  /\ q.pc \in {"log", "done"} => q.inbox = <<>> /\ q.todo = <<>>
  /\ q.pc \in {"resolve", "load", "log", "done"} \union InTx => Accounted(q, faults)
AllCounted == \A r \in Requests : Counted(req[r])

AInv ==
  /\ Clocks /\ Deleted /\ Admitted /\ RowKept /\ CorrelationsKept
  /\ AllCounted /\ StoredIsDurable /\ NothingStoredThroughDisabledIsn

-----------------------------------------------------------------------------
(* What a step does to one request *)

RequestStep(r) == Submit(r) \/ Progress(r) \/ Expire(r) \/ Crash(r)

LEMMA OthersStay ==
  ASSUME Core, NEW r \in Requests, NEW s \in Requests, s # r, RequestStep(s)
  PROVE  req'[r] = req[r]
<1>1. req \in [Requests -> Request]
  BY DEF Core
<1>2. CASE Submit(s)
  BY <1>1, <1>2 DEF Submit
<1>3. CASE OpenBatch(s)
  BY <1>1, <1>3 DEF OpenBatch
<1>4. CASE Validate(s) \/ ResolveByCorrelation(s) \/ ResolveByRules(s)
  BY <1>1, <1>4 DEF Validate, ResolveByCorrelation, ResolveByRules
<1>5. CASE RejectUnauthorised(s) \/ BeginTx(s) \/ CheckCorrelation(s)
  BY <1>1, <1>5 DEF RejectUnauthorised, BeginTx, CheckCorrelation
<1>6. CASE ReadIds(s) \/ Upsert(s)
  BY <1>1, <1>6 DEF ReadIds, Upsert, MasterFails
<1>7. CASE InsertVersion(s) \/ Commit(s)
  BY <1>1, <1>7 DEF InsertVersion, Commit
<1>8. CASE FinishLoad(s) \/ LogFailure(s) \/ Respond(s)
  BY <1>1, <1>8 DEF FinishLoad, LogFailure, Respond
<1>9. CASE Expire(s) \/ Crash(s)
  BY <1>1, <1>9 DEF Expire, Crash
<1> QED
  BY <1>2, <1>3, <1>4, <1>5, <1>6, <1>7, <1>8, <1>9 DEF RequestStep, Progress

LEMMA RequestFrame ==
  ASSUME Core, [Next]_vars, NEW r \in Requests
  PROVE  req'[r] = req[r] \/ RequestStep(r)
<1>1. ASSUME NEW s \in Requests, RequestStep(s)
      PROVE  req'[r] = req[r] \/ RequestStep(r)
  BY <1>1, OthersStay
<1>2. ASSUME NEW w \in Withdrawals,
             WithdrawRead(w) \/ WithdrawProgress(w) \/ WithdrawFails(w)
      PROVE  UNCHANGED req
  BY <1>2 DEF WithdrawRead, WithdrawProgress, WithdrawIds, WithdrawUpdate, WithdrawFails
<1>3. CASE Configure
  BY <1>3 DEF Configure, ToggleIsn, ToggleIsnType, AddTypeToIsn, CheckTypeUnused, DeleteType
<1>4. CASE UNCHANGED vars
  BY <1>4 DEF vars
<1> QED
  BY <1>1, <1>2, <1>3, <1>4 DEF Next, AllAnswered, RequestStep

\* A request that is in a transaction after a step was there before it, or
\* began the transaction in it.
SameSignal(r) ==
  /\ req'[r].sub = req[r].sub /\ req'[r].todo = req[r].todo
  /\ CurKey(r)' = CurKey(r) /\ Cur(r)' = Cur(r)

TxStep(r) ==
  \/ /\ req[r].pc = "load" /\ req'[r].pc = FirstStatement(req[r])
     /\ req'[r].at = clock + 1 /\ clock' = clock + 1 /\ UNCHANGED failures
  \/ /\ req'[r].at = req[r].at
     /\ \/ req[r].pc = req'[r].pc /\ req'[r].row = req[r].row
        \/ /\ req[r].pc = "correlate" /\ req'[r].pc = "ids"
           /\ CorrelationValid(Cur(r).corr, Cur(r).isn)
        \/ /\ req[r].pc = "ids" /\ req'[r].pc = "upsert"
           /\ InUse(Cur(r).isn, req[r].sub.type)
        \/ /\ req[r].pc = "upsert" /\ req'[r].pc = "version"
           /\ RowFree(CurKey(r)) /\ req[r].sub.type \in types /\ UNCHANGED data
           /\ req'[r].row = Upserted(CurKey(r), Cur(r))
        \/ /\ req[r].pc = "version" /\ req'[r].pc = "commit"
           /\ req'[r].row = req[r].row

LEMMA InTxStep ==
  ASSUME Core, [Next]_vars, NEW r \in Requests, req'[r].pc \in InTx
  PROVE  SameSignal(r) /\ TxStep(r)
<1>1. req \in [Requests -> Request] /\ req[r] \in Request
  BY DEF Core
<1>2. ASSUME req'[r].sub = req[r].sub, req'[r].todo = req[r].todo
      PROVE  SameSignal(r)
  BY <1>2 DEF SameSignal, CurKey, Cur
<1>3. CASE req'[r] = req[r]
  BY <1>2, <1>3 DEF TxStep
<1>4. CASE Submit(r)
  BY <1>1, <1>4 DEF Submit, InTx, Request
<1>5. CASE OpenBatch(r)
  <2>1. CASE req' = [req EXCEPT ![r] = Accepted(req[r])]
    BY <1>1, <2>1 DEF Accepted, InTx, Request
  <2>2. CASE req' = [req EXCEPT ![r].pc = "error"]
    BY <1>1, <2>2 DEF InTx, Request
  <2> QED
    BY <1>5, <2>1, <2>2 DEF OpenBatch
<1>6. CASE Validate(r) \/ ResolveByCorrelation(r) \/ ResolveByRules(r)
  <2>1. req[r].inbox # <<>> /\ req[r].pc = "resolve"
    BY <1>6 DEF Core, Shape, Validate, ResolveByCorrelation, ResolveByRules
  <2>2. Taken(req[r]) \in Request /\ Taken(req[r]).pc \in {"load", "resolve"}
    BY <1>1, <2>1, TakenType
  <2>3. \A i : Routed(req[r], i).pc = Taken(req[r]).pc
    BY <2>2 DEF Routed, Request
  <2>4. Validated(req[r]).pc = Taken(req[r]).pc
    BY <2>2 DEF Validated, Request
  <2>5. req'[r].pc \notin InTx
    BY <1>1, <1>6, <2>2, <2>3, <2>4
       DEF Validate, ResolveByCorrelation, ResolveByRules, InTx, Request
  <2> QED
    BY <2>5
<1>7. ASSUME req[r].pc \in {"load"} \union InTx, req[r].todo # <<>>,
             req'[r] = Rejected(req[r]) \/ req'[r] = Dropped(req[r])
      PROVE  FALSE
  BY <1>1, <1>7, DroppedType DEF InTx
<1>9. CASE RejectUnauthorised(r)
  BY <1>1, <1>7, <1>9 DEF RejectUnauthorised
<1>10. CASE BeginTx(r)
  <2>1. CASE req' = [req EXCEPT ![r] = Rejected(req[r])]
    BY <1>1, <1>7, <1>10, <2>1 DEF BeginTx
  <2>2. CASE /\ clock' = clock + 1 /\ UNCHANGED failures
             /\ req' = [req EXCEPT ![r].pc = FirstStatement(req[r]), ![r].at = clock + 1]
    BY <1>1, <1>2, <1>10, <2>2 DEF BeginTx, TxStep, Request
  <2> QED
    BY <1>10, <2>1, <2>2 DEF BeginTx
<1>11. CASE CheckCorrelation(r)
  <2>1. req[r].pc = "correlate" /\ req[r].todo # <<>>
    BY <1>11 DEF CheckCorrelation, Core, Shape, InTx
  <2>2. CASE req' = [req EXCEPT ![r] = Rejected(req[r])]
    BY <1>1, <1>7, <2>1, <2>2 DEF InTx
  <2>3. CASE /\ req' = [req EXCEPT ![r].pc = "ids"]
             /\ CorrelationValid(Cur(r).corr, Cur(r).isn)
    BY <1>1, <1>2, <2>1, <2>3 DEF TxStep, Request
  <2> QED
    BY <1>11, <2>2, <2>3 DEF CheckCorrelation
<1>12. CASE ReadIds(r)
  <2>1. req[r].pc = "ids" /\ req[r].todo # <<>>
    BY <1>12 DEF ReadIds, Core, Shape, InTx
  <2>2. CASE \/ req' = [req EXCEPT ![r] = Rejected(req[r])]
             \/ req' = [req EXCEPT ![r] = Dropped(req[r])]
    BY <1>1, <1>7, <2>1, <2>2 DEF InTx
  <2>3. CASE /\ req' = [req EXCEPT ![r].pc = "upsert"]
             /\ InUse(Cur(r).isn, req[r].sub.type)
    BY <1>1, <1>2, <2>1, <2>3 DEF TxStep, Request
  <2> QED
    BY <1>12, <2>2, <2>3 DEF ReadIds, MasterFails
<1>13. CASE Upsert(r)
  <2>1. req[r].pc = "upsert" /\ req[r].todo # <<>>
    BY <1>13 DEF Upsert, Core, Shape, InTx
  <2>2. CASE \/ req' = [req EXCEPT ![r] = Rejected(req[r])]
             \/ req' = [req EXCEPT ![r] = Dropped(req[r])]
    BY <1>1, <1>7, <2>1, <2>2 DEF InTx
  <2>3. CASE /\ RowFree(CurKey(r)) /\ req[r].sub.type \in types /\ UNCHANGED data
             /\ req' = [req EXCEPT ![r].pc = "version",
                                   ![r].row = Upserted(CurKey(r), Cur(r))]
    BY <1>1, <1>2, <2>1, <2>3 DEF TxStep, Request
  <2> QED
    BY <1>13, <2>2, <2>3 DEF Upsert, MasterFails
<1>14. CASE InsertVersion(r)
  <2>1. req[r].pc = "version" /\ req[r].todo # <<>>
    BY <1>14 DEF InsertVersion, Core, Shape, InTx, Locked
  <2>2. CASE req' = [req EXCEPT ![r] = Rejected(req[r])]
    BY <1>1, <1>7, <2>1, <2>2 DEF InTx
  <2>3. CASE req' = [req EXCEPT ![r].pc = "commit", ![r].number = NextNumber(CurKey(r))]
    BY <1>1, <1>2, <2>1, <2>3 DEF TxStep, Request
  <2> QED
    BY <1>14, <2>2, <2>3 DEF InsertVersion
<1>15. CASE Commit(r)
  <2>1. req[r].pc = "commit" /\ req[r].todo # <<>>
    BY <1>15 DEF Commit, Core, Shape, InTx, Locked
  <2>2. Dropped(req[r]) \in Request /\ Dropped(req[r]).pc = "load"
    BY <1>1, <2>1, DroppedType
  <2>3. Confirmed(req[r]).pc = "load"
    BY <2>2 DEF Confirmed, Request
  <2> QED
    BY <1>1, <1>7, <1>15, <2>1, <2>3 DEF Commit, InTx
<1>16. CASE FinishLoad(r) \/ LogFailure(r) \/ Respond(r)
  <2>1. CASE req' = [req EXCEPT ![r].pc = "log", ![r].unlogged = Unlogged(req[r])]
    BY <1>1, <2>1 DEF InTx, Request
  <2>2. CASE req' = [req EXCEPT ![r].unlogged = Tail(@)] /\ req[r].pc = "log"
    BY <1>1, <2>2 DEF InTx, Request
  <2>3. CASE req' = [req EXCEPT ![r].pc = "done"]
    BY <1>1, <2>3 DEF InTx, Request
  <2> QED
    BY <1>16, <2>1, <2>2, <2>3 DEF FinishLoad, LogFailure, Logged, Respond
<1>17. CASE Crash(r)
  BY <1>1, <1>17 DEF Crash, InTx, Request
<1>18. CASE Expire(r)
  BY <1>1, <1>2, <1>18 DEF Expire, TxStep, Request
<1> QED
  BY RequestFrame, <1>3, <1>4, <1>5, <1>6, <1>9, <1>10, <1>11, <1>12, <1>13,
     <1>14, <1>15, <1>16, <1>17, <1>18 DEF RequestStep, Progress

-----------------------------------------------------------------------------
(* What a step does to the tables *)

\* Signals come from COMMIT, are changed by a withdrawal, and go with their
\* type.
LEMMA DataFrame ==
  ASSUME [Next]_vars
  PROVE  \/ UNCHANGED <<data, types>>
         \/ \E r \in Requests : Commit(r) /\ Apply(r)
         \/ \E w \in Withdrawals : WithdrawUpdate(w)
         \/ \E t \in SignalTypes : DeleteType(t)
<1>1. ASSUME NEW r \in Requests, RequestStep(r), ~Commit(r)
      PROVE  UNCHANGED <<data, types>>
  BY <1>1 DEF RequestStep, Progress, config, Submit, OpenBatch, Validate,
     ResolveByCorrelation, ResolveByRules, RejectUnauthorised, BeginTx,
     CheckCorrelation, ReadIds, Upsert, InsertVersion, FinishLoad, LogFailure,
     Respond, Expire, Crash
<1>2. ASSUME NEW r \in Requests, Commit(r)
      PROVE  Apply(r) \/ UNCHANGED <<data, types>>
  BY <1>2 DEF Commit, config
<1>3. ASSUME NEW w \in Withdrawals,
             WithdrawRead(w) \/ WithdrawIds(w) \/ WithdrawFails(w)
      PROVE  UNCHANGED <<data, types>>
  BY <1>3 DEF WithdrawRead, WithdrawIds, WithdrawFails, config
<1>4. ASSUME NEW i \in Isns, NEW t \in SignalTypes,
             ToggleIsn(i) \/ ToggleIsnType(i, t) \/ AddTypeToIsn(i, t)
      PROVE  UNCHANGED <<data, types>>
  BY <1>4 DEF ToggleIsn, ToggleIsnType, AddTypeToIsn
<1>5. ASSUME NEW i \in Isns, ToggleIsn(i)
      PROVE  UNCHANGED <<data, types>>
  BY <1>5 DEF ToggleIsn
<1>6. ASSUME NEW t \in SignalTypes, CheckTypeUnused(t)
      PROVE  UNCHANGED <<data, types>>
  BY <1>6 DEF CheckTypeUnused
<1>7. CASE UNCHANGED vars \/ AllAnswered
  BY <1>7 DEF vars, AllAnswered, data
<1> QED
  BY <1>1, <1>2, <1>3, <1>4, <1>5, <1>6, <1>7
     DEF Next, Configure, WithdrawProgress, RequestStep

\* The ISNs and their types change only by configuration.
LEMMA ConfigFrame ==
  ASSUME [Next]_vars
  PROVE  \/ UNCHANGED <<isns, isnTypes>>
         \/ \E i \in Isns : ToggleIsn(i)
         \/ \E i \in Isns, t \in SignalTypes : ToggleIsnType(i, t) \/ AddTypeToIsn(i, t)
         \/ \E t \in SignalTypes : DeleteType(t)
<1>1. ASSUME NEW r \in Requests, RequestStep(r)
      PROVE  UNCHANGED <<isns, isnTypes>>
  BY <1>1 DEF RequestStep, Progress, config, Submit, OpenBatch, Validate,
     ResolveByCorrelation, ResolveByRules, RejectUnauthorised, BeginTx,
     CheckCorrelation, ReadIds, Upsert, InsertVersion, Commit, FinishLoad, LogFailure,
     Respond, Expire, Crash
<1>2. ASSUME NEW w \in Withdrawals,
             WithdrawRead(w) \/ WithdrawProgress(w) \/ WithdrawFails(w)
      PROVE  UNCHANGED <<isns, isnTypes>>
  BY <1>2 DEF WithdrawRead, WithdrawProgress, WithdrawIds, WithdrawUpdate,
     WithdrawFails, config
<1>3. ASSUME NEW t \in SignalTypes, CheckTypeUnused(t)
      PROVE  UNCHANGED <<isns, isnTypes>>
  BY <1>3 DEF CheckTypeUnused
<1>4. CASE UNCHANGED vars \/ AllAnswered
  BY <1>4 DEF vars, AllAnswered
<1> QED
  BY <1>1, <1>2, <1>3, <1>4 DEF Next, Configure, RequestStep

\* The clock goes on, and a failure is stamped with a time of its own.
ClockStep ==
  /\ clock' \in {clock, clock + 1}
  /\ \/ UNCHANGED failures
     \/ /\ clock' = clock + 1
        /\ UNCHANGED <<versions, isns, isnTypes>>
        /\ \E f : failures' = failures \union {f} /\ f.at = clock + 1

LEMMA ClockFrame ==
  ASSUME [Next]_vars
  PROVE  ClockStep
<1>1. ASSUME NEW r \in Requests, LogFailure(r)
      PROVE  ClockStep
  <2>1. CASE UNCHANGED <<clock, failures>>
    BY <2>1 DEF ClockStep
  <2>2. CASE /\ clock' = clock + 1
             /\ failures' = failures \union
                  {[account |-> req[r].sub.account, batch |-> req[r].sub.batch,
                    type |-> req[r].sub.type, ref |-> Head(req[r].unlogged),
                    at |-> clock + 1]}
    BY <1>1, <2>2 DEF LogFailure, ClockStep, data, config
  <2> QED
    BY <1>1, <2>1, <2>2 DEF LogFailure
<1>2. ASSUME NEW r \in Requests, RequestStep(r), ~LogFailure(r)
      PROVE  UNCHANGED failures /\ clock' \in {clock, clock + 1}
  BY <1>2 DEF RequestStep, Progress, Submit, OpenBatch, Validate,
     ResolveByCorrelation, ResolveByRules, RejectUnauthorised, BeginTx,
     CheckCorrelation, ReadIds, Upsert, InsertVersion, Commit, FinishLoad,
     Respond, Expire, Crash
<1>3. ASSUME NEW w \in Withdrawals,
             WithdrawRead(w) \/ WithdrawProgress(w) \/ WithdrawFails(w)
      PROVE  UNCHANGED <<failures, clock>>
  BY <1>3 DEF WithdrawRead, WithdrawProgress, WithdrawIds, WithdrawUpdate, WithdrawFails
<1>4. CASE Configure
  BY <1>4 DEF Configure, ToggleIsn, ToggleIsnType, AddTypeToIsn, CheckTypeUnused,
     DeleteType, ClockStep
<1>5. CASE UNCHANGED vars \/ AllAnswered
  BY <1>5 DEF vars, AllAnswered, ClockStep
<1> QED
  BY <1>1, <1>2, <1>3, <1>4, <1>5 DEF Next, ClockStep, RequestStep

\* The signal of a request that is in a transaction.
LEMMA InTxSignal ==
  ASSUME Core, NEW r \in Requests, req[r].pc \in InTx
  PROVE  /\ req[r] \in Request /\ req[r].sub \in Submissions /\ req[r].todo # <<>>
         /\ Cur(r) \in Resolved /\ CurKey(r) \in Key
         /\ CurKey(r).type = req[r].sub.type
<1>1. req[r] \in Request /\ req[r].sub \in Submissions /\ req[r].todo # <<>>
  BY DEF Core, Shape, InTx
<1>2. Cur(r) \in Resolved
  BY <1>1 DEF Cur, Request
<1>3. CurKey(r) \in Key
  BY <1>1, <1>2, KeyType DEF CurKey, Resolved
<1> QED
  BY <1>1, <1>2, <1>3 DEF CurKey, KeyOf

\* While a request holds the lock of its row, only it changes the row.
LEMMA HeldRow ==
  ASSUME Tables, Core, [Next]_vars, NEW r \in Requests, req[r].pc \in Locked,
         ~(Commit(r) /\ Apply(r))
  PROVE  /\ signals'[CurKey(r)] = signals[CurKey(r)]
         /\ versions'[CurKey(r)] = versions[CurKey(r)]
<1>1. CurKey(r) \in Key
  BY InTxSignal DEF Locked, InTx
<1>2. lock[CurKey(r)] = r /\ ~RowFree(CurKey(r))
  BY <1>1, NullAssumption DEF Core, LocksHeld, RowFree
<1>3. CASE UNCHANGED <<data, types>>
  BY <1>3 DEF data
<1>4. ASSUME NEW s \in Requests, s # r, Commit(s), Apply(s)
      PROVE  CurKey(s) # CurKey(r) /\ CurKey(s) \in Key
  <2>1. req[s].pc \in Locked /\ req[s].pc \in InTx
    BY <1>4 DEF Commit, Locked, InTx
  <2>2. CurKey(s) \in Key
    BY <2>1, InTxSignal
  <2> QED
    BY <1>2, <1>4, <2>1, <2>2 DEF Core, LocksHeld
<1>5. ASSUME NEW s \in Requests, Commit(s), Apply(s)
      PROVE  signals'[CurKey(r)] = signals[CurKey(r)]
             /\ versions'[CurKey(r)] = versions[CurKey(r)]
  BY <1>1, <1>4, <1>5 DEF Apply, Tables
<1>6. ASSUME NEW w \in Withdrawals, WithdrawUpdate(w)
      PROVE  signals'[CurKey(r)] = signals[CurKey(r)]
             /\ versions'[CurKey(r)] = versions[CurKey(r)]
  BY <1>1, <1>2, <1>6 DEF WithdrawUpdate, Tables
<1>7. ASSUME NEW t \in SignalTypes, DeleteType(t)
      PROVE  CurKey(r).type # t /\ signals'[CurKey(r)] = signals[CurKey(r)]
             /\ versions'[CurKey(r)] = versions[CurKey(r)]
  BY <1>1, <1>2, <1>7 DEF DeleteType
<1> QED
  BY <1>3, <1>5, <1>6, <1>7, DataFrame

\* The version that a request adds.
Added(r) == [number |-> req[r].number, batch |-> req[r].sub.batch, at |-> req[r].at]

LEMMA Applied ==
  ASSUME Tables, Core, NEW r \in Requests, Commit(r), Apply(r)
  PROVE  /\ req[r].pc = "commit" /\ req[r].pc \in Locked /\ req[r].pc \in InTx
         /\ CurKey(r) \in Key /\ req[r].row \in Signal
         /\ \A k \in Key :
              /\ signals'[k] = IF k = CurKey(r) THEN req[r].row ELSE signals[k]
              /\ versions'[k] = IF k = CurKey(r) THEN versions[k] \union {Added(r)}
                                ELSE versions[k]
         /\ UNCHANGED <<config, types, failures, clock>>
<1>1. req[r].pc = "commit" /\ req[r].pc \in Locked /\ req[r].pc \in InTx
  BY DEF Commit, Locked, InTx
<1>2. CurKey(r) \in Key
  BY <1>1, InTxSignal
<1>3. req[r].row \in Signal
  BY <1>1 DEF Core, Shape
<1>4. UNCHANGED <<config, types, failures, clock>>
  BY DEF Commit, config
<1> QED
  BY <1>1, <1>2, <1>3, <1>4 DEF Apply, Added, Tables

\* A deletion of a type.
LEMMA Deletes ==
  ASSUME NEW t \in SignalTypes, DeleteType(t)
  PROVE  /\ \A k \in Key :
              /\ signals'[k] = IF k.type = t THEN Null ELSE signals[k]
              /\ versions'[k] = IF k.type = t THEN {} ELSE versions[k]
              /\ k.type = t => RowFree(k)
         /\ types' = types \ {t}
         /\ UNCHANGED <<req, clock, failures, isns>>
BY DEF DeleteType

LEMMA KeptStays ==
  ASSUME Tables, Core, RowKept, [Next]_vars,
         NEW c \in Key \union {Null}, NEW i, Kept(c, i)
  PROVE  Kept(c, i)'
<1> SUFFICES ASSUME c \in Key, c # Null, c.type \in types'
             PROVE  signals'[c] # Null /\ signals'[c].isn = i
  BY DEF Kept
<1>0. types' \subseteq types
  BY DataFrame, Deletes, Applied DEF WithdrawUpdate, config
<1>1. signals[c] # Null /\ signals[c].isn = i /\ signals[c] \in Signal
  BY <1>0 DEF Kept, Tables
<1>2. CASE UNCHANGED <<data, types>>
  BY <1>1, <1>2 DEF data
<1>3. ASSUME NEW r \in Requests, Commit(r), Apply(r)
      PROVE  signals'[c] # Null /\ signals'[c].isn = i
  <2>1. CASE c = CurKey(r)
    <3>1. signals'[c] = Upserted(c, Cur(r)) /\ signals'[c] \in Signal
      BY <1>3, <2>1, Applied DEF RowKept
    <3>2. Upserted(c, Cur(r)).isn = i
      BY <1>1 DEF Upserted, Signal
    <3> QED
      BY <3>1, <3>2, NullAssumption
  <2>2. CASE c # CurKey(r)
    BY <1>1, <1>3, <2>2, Applied
  <2> QED
    BY <2>1, <2>2
<1>4. ASSUME NEW w \in Withdrawals, WithdrawUpdate(w)
      PROVE  signals'[c] # Null /\ signals'[c].isn = i
  <2>1. CASE UNCHANGED signals
    BY <1>1, <2>1
  <2>2. CASE signals' = [signals EXCEPT ![WithdrawKey(w)].withdrawn = TRUE]
    <3>1. PICK s : s = [signals[c] EXCEPT !.withdrawn = TRUE]
      OBVIOUS
    <3>2. s \in Signal /\ s.isn = i
      BY <1>1, <3>1 DEF Signal
    <3>3. signals'[c] = s \/ signals'[c] = signals[c]
      BY <2>2, <3>1 DEF Tables
    <3> QED
      BY <1>1, <3>2, <3>3, NullAssumption
  <2> QED
    BY <1>4, <2>1, <2>2 DEF WithdrawUpdate
<1>5. ASSUME NEW t \in SignalTypes, DeleteType(t)
      PROVE  signals'[c] # Null /\ signals'[c].isn = i
  BY <1>1, <1>5, Deletes
<1> QED
  BY <1>2, <1>3, <1>4, <1>5, DataFrame

LEMMA OnTimeStays ==
  ASSUME Tables, [Next]_vars, NEW i \in Isns, NEW t \in SignalTypes,
         NEW at \in Nat, at <= clock, OnTime(i, t, at)
  PROVE  OnTime(i, t, at)'
<1>1. CASE UNCHANGED <<isns, isnTypes>>
  BY <1>1 DEF OnTime
<1>2. ASSUME NEW j \in Isns, ToggleIsn(j)
      PROVE  OnTime(i, t, at)'
  <2>1. UNCHANGED isnTypes
    BY <1>2 DEF ToggleIsn
  <2>2. i # j => isns'[i] = isns[i]
    BY <1>2 DEF ToggleIsn, Tables
  <2>3. i = j => isns'[i].updated = clock + 1
    BY <1>2 DEF ToggleIsn, Tables
  <2>4. at < clock + 1
    BY DEF Tables
  <2> QED
    BY <2>1, <2>2, <2>3, <2>4 DEF OnTime
<1>3. ASSUME NEW j \in Isns, NEW u \in SignalTypes,
             ToggleIsnType(j, u) \/ AddTypeToIsn(j, u)
      PROVE  OnTime(i, t, at)'
  <2>1. UNCHANGED isns
    BY <1>3 DEF ToggleIsnType, AddTypeToIsn
  <2>2. PICK s : isnTypes' = [isnTypes EXCEPT ![j][u] = [state |-> s, updated |-> clock + 1]]
    BY <1>3 DEF ToggleIsnType, AddTypeToIsn
  <2>3. PICK x : x = [state |-> s, updated |-> clock + 1]
    OBVIOUS
  <2>4. isnTypes' = [isnTypes EXCEPT ![j][u] = x] /\ x.updated = clock + 1
    BY <2>2, <2>3
  <2>5. isnTypes'[i][t] = x \/ isnTypes'[i][t] = isnTypes[i][t]
    BY <2>4 DEF Tables
  <2>6. at < clock + 1
    BY DEF Tables
  <2> QED
    BY <2>1, <2>4, <2>5, <2>6 DEF OnTime
<1>4. ASSUME NEW u \in SignalTypes, DeleteType(u)
      PROVE  OnTime(i, t, at)'
  <2>1. UNCHANGED isns
    BY <1>4 DEF DeleteType
  <2>2. isnTypes'[i] = [isnTypes[i] EXCEPT ![u].state = "absent"]
    BY <1>4 DEF DeleteType
  <2>3. isnTypes'[i][t].state = "disabled" => isnTypes'[i][t] = isnTypes[i][t]
    BY <2>2 DEF Tables
  <2> QED
    BY <2>1, <2>3 DEF OnTime
<1> QED
  BY <1>1, <1>2, <1>3, <1>4, ConfigFrame

-----------------------------------------------------------------------------
(* What a step does to the lists of a request *)

SameLists(q, p) ==
  /\ p.sub = q.sub /\ p.inbox = q.inbox /\ p.todo = q.todo
  /\ p.stored = q.stored /\ p.failed = q.failed /\ p.unroutable = q.unroutable

Loading == {"load"} \union InTx

\* Only pc, or what is not in a list, changes.
MovesOn(q, p) ==
  /\ SameLists(q, p)
  /\ q.expired => p.expired
  /\ \/ p.pc = q.pc
     \/ p.pc \in {"error", "lost"}
     \/ q.pc \in Loading /\ p.pc \in InTx
     \/ q.pc = "load" /\ q.todo = <<>> /\ p.pc = "log"
     \/ q.pc = "log" /\ p.pc = "done"

\* A list changes.
ListChange(r, q, p) ==
  \/ /\ q.pc = "idle" /\ p.pc = "batch" /\ p.expired = q.expired
     /\ p.inbox = q.inbox /\ p.todo = q.todo
     /\ p.stored = q.stored /\ p.failed = q.failed /\ p.unroutable = q.unroutable
  \/ q.pc = "batch" /\ p = Accepted(q)
  \/ q.pc = "resolve" /\ q.sub.kind = "isn" /\ p = Validated(q)
  \/ /\ q.pc = "resolve" /\ q.sub.kind = "router"
     /\ \E i \in Isns \union {Null} :
          /\ p = Routed(q, i)
          /\ i # Null => Kept(Head(q.inbox).corr, i)
  \/ q.pc \in Loading /\ q.todo # <<>> /\ p = Rejected(q)
  \/ /\ q.pc \in Loading /\ q.todo # <<>> /\ p = Dropped(q)
     /\ q.sub.kind = "isn" /\ (q.expired \/ faults' = faults + 1)
  \/ Commit(r) /\ Apply(r) /\ p = Confirmed(q)

LEMMA ListStep ==
  ASSUME Tables, Core, AllCounted, [Next]_vars, NEW r \in Requests
  PROVE  MovesOn(req[r], req'[r]) \/ ListChange(r, req[r], req'[r])
<1>1. req \in [Requests -> Request] /\ req[r] \in Request /\ faults \in Nat
  BY InputAssumption DEF Core, Tables
<1>t. req[r].pc \in InTx => req[r].todo # <<>>
  BY DEF Core, Shape
<1>2. CASE req'[r] = req[r]
  BY <1>2 DEF MovesOn, SameLists
<1>3. CASE Submit(r)
  <2>1. PICK s \in Submissions :
          req' = [req EXCEPT ![r].pc = "batch", ![r].sub = s,
                             ![r].seen = <<s.account, s.batch>> \in batches]
    BY <1>3 DEF Submit
  <2>2. PICK b : req' = [req EXCEPT ![r].pc = "batch", ![r].sub = s, ![r].seen = b]
    BY <2>1, Zenon
  <2>3. req[r].pc = "idle"
    BY <1>3 DEF Submit
  <2> QED
    BY <1>1, <2>2, <2>3 DEF ListChange, Request
<1>4. CASE OpenBatch(r)
  <2>1. CASE req' = [req EXCEPT ![r] = Accepted(req[r])]
    BY <1>1, <1>4, <2>1 DEF OpenBatch, ListChange
  <2>2. CASE req' = [req EXCEPT ![r].pc = "error"]
    BY <1>1, <2>2 DEF MovesOn, SameLists, Request
  <2> QED
    BY <1>4, <2>1, <2>2 DEF OpenBatch
<1>5. CASE Validate(r)
  BY <1>1, <1>5 DEF Validate, ListChange
<1>6. CASE ResolveByCorrelation(r)
  <2> DEFINE c == Head(req[r].inbox).corr
  <2>1. /\ req[r].pc = "resolve" /\ req[r].sub.kind = "router"
        /\ req[r].inbox # <<>> /\ c # Null
    BY <1>6 DEF ResolveByCorrelation, Core, Shape
  <2>2. c \in Key
    <3>1. Head(req[r].inbox) \in Item
      BY <1>1, <2>1, TakenType
    <3> QED
      BY <2>1, <3>1 DEF Item
  <2>3. CASE req' = [req EXCEPT ![r] = Routed(req[r], IsnOf(c))]
    <3>1. IsnOf(c) \in Isns \union {Null}
      BY <2>2 DEF IsnOf, Tables, Signal
    <3>2. IsnOf(c) # Null => Kept(c, IsnOf(c))
      BY <2>2 DEF IsnOf, Kept
    <3>3. req'[r] = Routed(req[r], IsnOf(c))
      BY <1>1, <2>3
    <3> QED
      BY <2>1, <3>1, <3>2, <3>3 DEF ListChange
  <2>4. CASE req' = [req EXCEPT ![r].pc = "error"]
    BY <1>1, <2>4 DEF MovesOn, SameLists, Request
  <2> QED
    BY <1>6, <2>3, <2>4 DEF ResolveByCorrelation
<1>7. CASE ResolveByRules(r)
  <2>1. PICK i \in RouteTargets : req' = [req EXCEPT ![r] = Routed(req[r], i)]
    BY <1>7 DEF ResolveByRules
  <2>2. i \in Isns \union {Null} /\ Kept(Head(req[r].inbox).corr, i)
    BY <1>7, InputAssumption DEF ResolveByRules, Kept
  <2>3. req'[r] = Routed(req[r], i)
    BY <1>1, <2>1
  <2> QED
    BY <1>7, <2>2, <2>3 DEF ListChange, ResolveByRules
<1>8. ASSUME req[r].pc \in Loading, req[r].todo # <<>>,
             req' = [req EXCEPT ![r] = Rejected(req[r])]
      PROVE  ListChange(r, req[r], req'[r])
  BY <1>1, <1>8 DEF ListChange
<1>9. ASSUME req[r].pc \in Loading, req[r].todo # <<>>, MasterFails(r)
      PROVE  ListChange(r, req[r], req'[r])
  <2>1. req[r].expired \/ faults' = faults + 1
    BY <1>9 DEF MasterFails, Fails
  <2>2. CASE req[r].sub.kind = "isn" /\ req' = [req EXCEPT ![r] = Dropped(req[r])]
    BY <1>1, <1>9, <2>1, <2>2 DEF ListChange
  <2> QED
    BY <1>8, <1>9, <2>2 DEF MasterFails
<1>10. ASSUME req[r].pc \in Loading, NEW p \in InTx, NEW a, NEW n, NEW w,
              \/ req' = [req EXCEPT ![r].pc = p]
              \/ req' = [req EXCEPT ![r].pc = p, ![r].at = a]
              \/ req' = [req EXCEPT ![r].pc = p, ![r].row = w]
              \/ req' = [req EXCEPT ![r].pc = p, ![r].number = n]
       PROVE  MovesOn(req[r], req'[r])
  <2>1. CASE req' = [req EXCEPT ![r].pc = p]
    <3>1. req'[r] = [req[r] EXCEPT !.pc = p]
      BY <1>1, <2>1
    <3> QED
      BY <1>1, <1>10, <3>1 DEF MovesOn, SameLists, Request
  <2>2. CASE req' = [req EXCEPT ![r].pc = p, ![r].at = a]
    <3>1. req'[r] = [req[r] EXCEPT !.pc = p, !.at = a]
      BY <1>1, <2>2
    <3> QED
      BY <1>1, <1>10, <3>1 DEF MovesOn, SameLists, Request
  <2>3. CASE req' = [req EXCEPT ![r].pc = p, ![r].row = w]
    <3>1. req'[r] = [req[r] EXCEPT !.pc = p, !.row = w]
      BY <1>1, <2>3
    <3> QED
      BY <1>1, <1>10, <3>1 DEF MovesOn, SameLists, Request
  <2>4. CASE req' = [req EXCEPT ![r].pc = p, ![r].number = n]
    <3>1. req'[r] = [req[r] EXCEPT !.pc = p, !.number = n]
      BY <1>1, <2>4
    <3> QED
      BY <1>1, <1>10, <3>1 DEF MovesOn, SameLists, Request
  <2> QED
    BY <1>10, <2>1, <2>2, <2>3, <2>4
<1>11. CASE RejectUnauthorised(r)
  BY <1>8, <1>11 DEF RejectUnauthorised, Loading
<1>12. CASE BeginTx(r)
  <2>1. FirstStatement(req[r]) \in InTx
    BY DEF FirstStatement, InTx
  <2> QED
    BY <1>8, <1>10, <1>12, <2>1 DEF BeginTx, Loading
<1>13. CASE CheckCorrelation(r)
  BY <1>t, <1>8, <1>10, <1>13 DEF CheckCorrelation, Loading, InTx
<1>14. CASE ReadIds(r)
  BY <1>t, <1>8, <1>9, <1>10, <1>14 DEF ReadIds, Loading, InTx
<1>15. CASE Upsert(r)
  BY <1>t, <1>8, <1>9, <1>10, <1>15 DEF Upsert, Loading, InTx
<1>16. CASE InsertVersion(r)
  BY <1>t, <1>8, <1>10, <1>16 DEF InsertVersion, Loading, InTx
<1>17. CASE Commit(r)
  <2>1. CASE Apply(r) /\ req' = [req EXCEPT ![r] = Confirmed(req[r])]
    BY <1>1, <1>17, <2>1 DEF ListChange
  <2> QED
    BY <1>t, <1>8, <1>17, <2>1 DEF Commit, Loading, InTx
<1>18. CASE FinishLoad(r)
  <2>1. PICK u : req' = [req EXCEPT ![r].pc = "log", ![r].unlogged = u]
    BY <1>18 DEF FinishLoad
  <2> QED
    BY <1>1, <1>18, <2>1 DEF FinishLoad, MovesOn, SameLists, Request
<1>19. CASE LogFailure(r)
  <2>1. PICK u : req' = [req EXCEPT ![r].unlogged = u]
    BY <1>19 DEF LogFailure, Logged
  <2> QED
    BY <1>1, <2>1 DEF MovesOn, SameLists, Request
<1>20. CASE Respond(r)
  BY <1>1, <1>20 DEF Respond, MovesOn, SameLists, Request
<1>21. CASE Expire(r)
  <2>1. req' = [req EXCEPT ![r].expired = TRUE]
    BY <1>21 DEF Expire
  <2> QED
    BY <1>1, <2>1 DEF MovesOn, SameLists, Request
<1>22. CASE Crash(r)
  BY <1>1, <1>22 DEF Crash, MovesOn, SameLists, Request
<1> QED
  BY RequestFrame, <1>2, <1>3, <1>4, <1>5, <1>6, <1>7, <1>11, <1>12, <1>13, <1>14,
     <1>15, <1>16, <1>17, <1>18, <1>19, <1>20, <1>21, <1>22 DEF RequestStep, Progress

LEMMA FaultsGrow ==
  ASSUME Tables, [Next]_vars
  PROVE  faults' \in Nat /\ faults \in Nat /\ faults' >= faults
<1>1. faults \in Nat
  BY InputAssumption DEF Tables
<1>2. ASSUME NEW r \in Requests, RequestStep(r)
      PROVE  faults' = faults \/ faults' = faults + 1
  BY <1>2 DEF RequestStep, Progress, config, Submit, OpenBatch, Validate,
     ResolveByCorrelation, ResolveByRules, RejectUnauthorised, BeginTx,
     CheckCorrelation, ReadIds, MasterFails, Upsert, InsertVersion, Commit,
     FinishLoad, LogFailure, Respond, Expire, Crash, Works, Fails
<1>3. ASSUME NEW w \in Withdrawals,
             WithdrawRead(w) \/ WithdrawProgress(w) \/ WithdrawFails(w)
      PROVE  faults' = faults \/ faults' = faults + 1
  <2>1. CASE WithdrawRead(w)
    BY <2>1 DEF WithdrawRead
  <2>2. CASE WithdrawIds(w)
    BY <2>2 DEF WithdrawIds
  <2>3. CASE WithdrawUpdate(w)
    BY <2>3 DEF WithdrawUpdate
  <2>4. CASE WithdrawFails(w)
    BY <2>4 DEF WithdrawFails
  <2> QED
    BY <1>3, <2>1, <2>2, <2>3, <2>4 DEF WithdrawProgress
<1>4. ASSUME Configure
      PROVE  faults' = faults
  <2>1. ASSUME NEW i \in Isns, NEW t \in SignalTypes,
               ToggleIsnType(i, t) \/ AddTypeToIsn(i, t)
        PROVE  faults' = faults
    BY <2>1 DEF ToggleIsnType, AddTypeToIsn
  <2>2. ASSUME NEW i \in Isns, ToggleIsn(i)
        PROVE  faults' = faults
    BY <2>2 DEF ToggleIsn
  <2>3. ASSUME NEW t \in SignalTypes, CheckTypeUnused(t)
        PROVE  faults' = faults
    BY <2>3 DEF CheckTypeUnused
  <2>4. ASSUME NEW t \in SignalTypes, DeleteType(t)
        PROVE  faults' = faults
    BY <2>4 DEF DeleteType
  <2> QED
    BY <1>4, <2>1, <2>2, <2>3, <2>4 DEF Configure
<1>5. ASSUME UNCHANGED vars \/ AllAnswered
      PROVE  faults' = faults
  BY <1>5 DEF vars, AllAnswered
<1> QED
  BY <1>1, <1>2, <1>3, <1>4, <1>5 DEF Next, RequestStep

-----------------------------------------------------------------------------
(* Lemmas on the lists *)

\* A signal that moves from one list to another stays counted.
LEMMA TotalStays ==
  ASSUME NEW i \in Seq(Item), NEW t \in Seq(Resolved), NEW s \in Seq(Stored),
         NEW f \in Seq(LocalRefs), NEW u \in Seq(LocalRefs)
  PROVE  /\ i # <<>> =>
              /\ \A x \in Resolved : Total(Tail(i), Append(t, x), s, f, u) = Total(i, t, s, f, u)
              /\ \A x \in LocalRefs : Total(Tail(i), t, s, Append(f, x), u) = Total(i, t, s, f, u)
              /\ \A x \in LocalRefs : Total(Tail(i), t, s, f, Append(u, x)) = Total(i, t, s, f, u)
         /\ t # <<>> =>
              /\ \A x \in Stored : Total(i, Tail(t), Append(s, x), f, u) = Total(i, t, s, f, u)
              /\ \A x \in LocalRefs : Total(i, Tail(t), s, Append(f, x), u) = Total(i, t, s, f, u)
              /\ Total(i, Tail(t), s, f, u) + 1 = Total(i, t, s, f, u)
         /\ Total(i, t, s, f, u) \in Nat
<1>1. i # <<>> => Len(Tail(i)) = Len(i) - 1
  OBVIOUS
<1>2. t # <<>> => Len(Tail(t)) = Len(t) - 1
  OBVIOUS
<1>3. \A x \in Resolved : Len(Append(t, x)) = Len(t) + 1
  OBVIOUS
<1>4. \A x \in LocalRefs : Len(Append(f, x)) = Len(f) + 1 /\ Len(Append(u, x)) = Len(u) + 1
  OBVIOUS
<1>5. \A x \in Stored : Len(Append(s, x)) = Len(s) + 1
  OBVIOUS
<1>6. Len(i) \in Nat /\ Len(t) \in Nat /\ Len(s) \in Nat /\ Len(f) \in Nat /\ Len(u) \in Nat
  OBVIOUS
<1>7. ASSUME i # <<>>, NEW x \in Resolved
      PROVE  Total(Tail(i), Append(t, x), s, f, u) = Total(i, t, s, f, u)
  BY <1>1, <1>3, <1>6, <1>7 DEF Total
<1>8. ASSUME i # <<>>, NEW x \in LocalRefs
      PROVE  Total(Tail(i), t, s, Append(f, x), u) = Total(i, t, s, f, u)
  BY <1>1, <1>4, <1>6, <1>8 DEF Total
<1>9. ASSUME i # <<>>, NEW x \in LocalRefs
      PROVE  Total(Tail(i), t, s, f, Append(u, x)) = Total(i, t, s, f, u)
  BY <1>1, <1>4, <1>6, <1>9 DEF Total
<1>10. ASSUME t # <<>>, NEW x \in Stored
       PROVE  Total(i, Tail(t), Append(s, x), f, u) = Total(i, t, s, f, u)
  BY <1>2, <1>5, <1>6, <1>10 DEF Total
<1>11. ASSUME t # <<>>, NEW x \in LocalRefs
       PROVE  Total(i, Tail(t), s, Append(f, x), u) = Total(i, t, s, f, u)
  BY <1>2, <1>4, <1>6, <1>11 DEF Total
<1>12. t # <<>> => Total(i, Tail(t), s, f, u) + 1 = Total(i, t, s, f, u)
  BY <1>2, <1>6 DEF Total
<1>13. Total(i, t, s, f, u) \in Nat
  BY <1>6 DEF Total
<1> QED
  BY <1>7, <1>8, <1>9, <1>10, <1>11, <1>12, <1>13

LEMMA TakenLists ==
  ASSUME NEW q \in Request, q.inbox # <<>>
  PROVE  LET d == Taken(q) IN
         /\ d \in Request /\ d.inbox = Tail(q.inbox)
         /\ d.pc \in {"load", "resolve"} /\ (d.pc = "load" => d.inbox = <<>>)
         /\ d.sub = q.sub /\ d.todo = q.todo /\ d.stored = q.stored
         /\ d.failed = q.failed /\ d.unroutable = q.unroutable
         /\ d.expired = q.expired
BY TakenType DEF Taken, Request

\* The signal at the head of todo is in no list any more ...
LEMMA DroppedLists ==
  ASSUME NEW q \in Request, q.todo # <<>>
  PROVE  LET d == Dropped(q) IN
         /\ d \in Request /\ d.pc = "load" /\ d.todo = Tail(q.todo)
         /\ d.sub = q.sub /\ d.inbox = q.inbox /\ d.stored = q.stored
         /\ d.failed = q.failed /\ d.unroutable = q.unroutable
         /\ d.expired = q.expired
BY DroppedType DEF Dropped, Request

\* ... or in failed ...
LEMMA RejectedLists ==
  ASSUME NEW q \in Request, q.todo # <<>>
  PROVE  LET d == Rejected(q) IN
         /\ d.pc = "load" /\ d.todo = Tail(q.todo)
         /\ d.failed = Append(q.failed, Head(q.todo).ref)
         /\ d.sub = q.sub /\ d.inbox = q.inbox /\ d.stored = q.stored
         /\ d.unroutable = q.unroutable /\ d.expired = q.expired
         /\ Head(q.todo).ref \in LocalRefs
<1> DEFINE d == Dropped(q)
<1>1. /\ d \in Request /\ d.pc = "load" /\ d.todo = Tail(q.todo)
      /\ d.sub = q.sub /\ d.inbox = q.inbox /\ d.stored = q.stored
      /\ d.failed = q.failed /\ d.unroutable = q.unroutable
      /\ d.expired = q.expired
  BY DroppedLists
<1>2. Head(q.todo).ref \in LocalRefs
  <2>1. Head(q.todo) \in Resolved
    BY DEF Request
  <2> QED
    BY <2>1 DEF Resolved
<1>3. Rejected(q) = [d EXCEPT !.failed = Append(d.failed, Head(q.todo).ref)]
  BY DEF Rejected
<1> HIDE DEF d
<1> QED
  BY <1>1, <1>2, <1>3 DEF Request

\* ... or in stored.
LEMMA ConfirmedLists ==
  ASSUME NEW q \in Request, q.todo # <<>>
  PROVE  LET d == Confirmed(q) IN
         /\ d.pc = "load" /\ d.todo = Tail(q.todo)
         /\ d.stored = Append(q.stored, StoredOf(q))
         /\ d.sub = q.sub /\ d.inbox = q.inbox /\ d.failed = q.failed
         /\ d.unroutable = q.unroutable /\ d.expired = q.expired
         /\ StoredOf(q) \in Stored
<1> DEFINE d == Dropped(q)
<1>1. /\ d \in Request /\ d.pc = "load" /\ d.todo = Tail(q.todo)
      /\ d.sub = q.sub /\ d.inbox = q.inbox /\ d.stored = q.stored
      /\ d.failed = q.failed /\ d.unroutable = q.unroutable
      /\ d.expired = q.expired
  BY DroppedLists
<1>2. StoredOf(q) \in Stored
  <2>1. Head(q.todo) \in Resolved /\ q.number \in Nat
    BY DEF Request
  <2> QED
    BY <2>1 DEF StoredOf, Stored, Resolved
<1>3. Confirmed(q) = [d EXCEPT !.stored = Append(d.stored, StoredOf(q))]
  BY DEF Confirmed
<1> HIDE DEF d
<1> QED
  BY <1>1, <1>2, <1>3 DEF Request

LEMMA ValidatedLists ==
  ASSUME NEW q \in Request, q.inbox # <<>>, q.sub \in Submissions, q.sub.kind = "isn"
  PROVE  LET d == Validated(q) IN
         /\ d.inbox = Tail(q.inbox)
         /\ \/ /\ \E x \in Resolved : d.todo = Append(q.todo, x)
               /\ d.failed = q.failed
            \/ /\ \E x \in LocalRefs : d.failed = Append(q.failed, x)
               /\ d.todo = q.todo
         /\ d.pc \in {"load", "resolve"} /\ (d.pc = "load" => d.inbox = <<>>)
         /\ d.sub = q.sub /\ d.stored = q.stored
         /\ d.unroutable = q.unroutable /\ d.expired = q.expired
<1> DEFINE d == Taken(q)
           item == Head(q.inbox)
<1>1. /\ d \in Request /\ d.inbox = Tail(q.inbox)
      /\ d.pc \in {"load", "resolve"} /\ (d.pc = "load" => d.inbox = <<>>)
      /\ d.sub = q.sub /\ d.todo = q.todo /\ d.stored = q.stored
      /\ d.failed = q.failed /\ d.unroutable = q.unroutable
      /\ d.expired = q.expired
  BY TakenLists
<1>2. item \in Item
  BY TakenType
<1>3. Target(item, q.sub.isn) \in Resolved
  BY <1>2, ItemTypes, TargetType
<1>4. item.ref \in LocalRefs
  BY <1>2 DEF Item
<1> HIDE DEF d
<1>5. CASE item.valid
  <2>1. Validated(q) = [d EXCEPT !.todo = Append(d.todo, Target(item, q.sub.isn))]
    BY <1>5 DEF Validated, d
  <2> QED
    BY <1>1, <1>3, <2>1 DEF Request
<1>6. CASE ~item.valid
  <2>1. Validated(q) = [d EXCEPT !.failed = Append(d.failed, item.ref)]
    BY <1>6 DEF Validated, d
  <2> QED
    BY <1>1, <1>4, <2>1 DEF Request
<1> QED
  BY <1>5, <1>6

LEMMA RoutedLists ==
  ASSUME NEW q \in Request, q.inbox # <<>>, NEW i \in Isns \union {Null}
  PROVE  LET d == Routed(q, i) IN
         /\ d.inbox = Tail(q.inbox)
         /\ \/ /\ i # Null /\ d.todo = Append(q.todo, Target(Head(q.inbox), i))
               /\ Target(Head(q.inbox), i) \in Resolved
               /\ d.unroutable = q.unroutable
            \/ /\ \E x \in LocalRefs : d.unroutable = Append(q.unroutable, x)
               /\ d.todo = q.todo
         /\ d.pc \in {"load", "resolve"} /\ (d.pc = "load" => d.inbox = <<>>)
         /\ d.sub = q.sub /\ d.stored = q.stored
         /\ d.failed = q.failed /\ d.expired = q.expired
<1> DEFINE d == Taken(q)
           item == Head(q.inbox)
<1>1. /\ d \in Request /\ d.inbox = Tail(q.inbox)
      /\ d.pc \in {"load", "resolve"} /\ (d.pc = "load" => d.inbox = <<>>)
      /\ d.sub = q.sub /\ d.todo = q.todo /\ d.stored = q.stored
      /\ d.failed = q.failed /\ d.unroutable = q.unroutable
      /\ d.expired = q.expired
  BY TakenLists
<1>2. item \in Item
  BY TakenType
<1>3. item.ref \in LocalRefs
  BY <1>2 DEF Item
<1> HIDE DEF d
<1>4. CASE i # Null
  <2>1. Routed(q, i) = [d EXCEPT !.todo = Append(d.todo, Target(item, i))]
    BY <1>4 DEF Routed, d
  <2>2. Target(item, i) \in Resolved
    BY <1>2, <1>4, TargetType
  <2> QED
    BY <1>1, <1>4, <2>1, <2>2 DEF Request
<1>5. CASE i = Null
  <2>1. Routed(q, i) = [d EXCEPT !.unroutable = Append(d.unroutable, item.ref)]
    BY <1>5 DEF Routed, d
  <2> QED
    BY <1>1, <1>3, <2>1 DEF Request
<1> QED
  BY <1>4, <1>5

-----------------------------------------------------------------------------
(* Every step preserves the invariant *)

LEMMA CountedStep ==
  ASSUME Tables, Core, AllCounted, [Next]_vars
  PROVE  AllCounted'
<1> SUFFICES ASSUME NEW r \in Requests
             PROVE  Counted(req[r])'
  BY DEF AllCounted
<1> DEFINE q == req[r]
           p == req'[r]
<1>1. /\ q \in Request /\ Shape(q) /\ Counted(q)
      /\ q.inbox \in Seq(Item) /\ q.todo \in Seq(Resolved) /\ q.stored \in Seq(Stored)
      /\ q.failed \in Seq(LocalRefs) /\ q.unroutable \in Seq(LocalRefs)
  BY DEF Core, AllCounted, Request
<1>2. /\ faults' \in Nat /\ faults \in Nat /\ faults' >= faults
  BY FaultsGrow
<1>3. MovesOn(q, p) \/ ListChange(r, q, p)
  BY ListStep
<1>4. q.pc # "idle" => q.sub \in Submissions
  BY <1>1 DEF Shape
<1>5. q.pc \in Loading /\ q.pc # "load" => q.todo # <<>>
  BY <1>1 DEF Shape, Loading
<1>i. q.pc \in Loading => q.inbox = <<>>
  BY <1>1 DEF Counted, Loading
<1> HIDE DEF q, p
<1>n. Sum(q) \in Nat /\ (q.pc # "idle" => Len(q.sub.items) \in Nat)
  <2>1. Sum(q) \in Nat
    BY <1>1, TotalStays DEF Sum
  <2>2. q.pc # "idle" => Len(q.sub.items) \in Nat
    BY <1>4, ItemTypes
  <2> QED
    BY <2>1, <2>2
<1>s. ASSUME q.pc # "idle", Sum(p) = Sum(q), p.sub = q.sub, q.expired => p.expired
      PROVE  Accounted(q, faults) => Accounted(p, faults')
  BY <1>2, <1>n, <1>s DEF Accounted
<1>6. CASE MovesOn(q, p)
  <2>1. SameLists(q, p)
    BY <1>6 DEF MovesOn
  <2>2. Sum(p) = Sum(q) /\ p.sub = q.sub /\ (q.expired => p.expired)
    BY <1>6, <2>1 DEF MovesOn, SameLists, Sum
  <2>3. q.pc # "idle" /\ Accounted(q, faults) => Accounted(p, faults')
    BY <1>s, <2>2
  <2> QED
    BY <1>1, <1>6, <2>1, <2>3
       DEF MovesOn, SameLists, Counted, Loading, InTx, p
<1>7. ASSUME q.pc \in {"resolve"} \union Loading, p.pc \in {"load", "resolve"},
             p.pc = "load" => p.inbox = <<>>,
             Accounted(q, faults) => Accounted(p, faults')
      PROVE  Counted(req[r])'
  BY <1>1, <1>7 DEF Counted, Loading, InTx, p
<1>8. CASE ListChange(r, q, p)
  <2>1. CASE /\ q.pc = "idle" /\ p.pc = "batch" /\ p.expired = q.expired
             /\ p.inbox = q.inbox /\ p.todo = q.todo
             /\ p.stored = q.stored /\ p.failed = q.failed /\ p.unroutable = q.unroutable
    BY <1>1, <2>1 DEF Counted, InTx, p
  <2>2. CASE q.pc = "batch" /\ p = Accepted(q)
    <3>1. /\ p.pc = "resolve" /\ p.inbox = q.sub.items /\ p.sub = q.sub
          /\ p.todo = <<>> /\ p.stored = <<>> /\ p.failed = <<>> /\ p.unroutable = <<>>
          /\ p.expired = q.expired
      BY <1>1, <2>2 DEF Accepted, Counted, Request
    <3>2. Len(q.sub.items) \in Nat
      BY <1>4, <2>2, ItemTypes
    <3>3. Sum(p) = Len(q.sub.items)
      BY <3>1, <3>2 DEF Sum, Total
    <3>4. Accounted(p, faults')
      BY <1>2, <3>1, <3>2, <3>3 DEF Accounted
    <3> QED
      BY <1>1, <3>1, <3>4 DEF Counted, InTx, p
  <2>3. CASE q.pc = "resolve" /\ q.sub.kind = "isn" /\ p = Validated(q)
    <3>1. q.inbox # <<>> /\ q.sub \in Submissions
      BY <1>1, <1>4, <2>3 DEF Shape
    <3>2. /\ p.inbox = Tail(q.inbox) /\ p.sub = q.sub /\ p.stored = q.stored
          /\ p.unroutable = q.unroutable
          /\ \/ /\ \E x \in Resolved : p.todo = Append(q.todo, x)
                /\ p.failed = q.failed
             \/ /\ \E x \in LocalRefs : p.failed = Append(q.failed, x)
                /\ p.todo = q.todo
      BY <1>1, <2>3, <3>1, ValidatedLists
    <3>3. Sum(p) = Sum(q)
      <4>1. CASE (\E x \in Resolved : p.todo = Append(q.todo, x)) /\ p.failed = q.failed
        BY <1>1, <3>1, <3>2, <4>1, TotalStays DEF Sum
      <4>2. CASE (\E x \in LocalRefs : p.failed = Append(q.failed, x)) /\ p.todo = q.todo
        BY <1>1, <3>1, <3>2, <4>2, TotalStays DEF Sum
      <4> QED
        BY <3>2, <4>1, <4>2
    <3>4. Accounted(q, faults) => Accounted(p, faults')
      BY <1>s, <1>1, <2>3, <3>1, <3>2, <3>3, ValidatedLists
    <3> QED
      BY <1>1, <1>7, <2>3, <3>1, <3>4, ValidatedLists
  <2>4. ASSUME q.pc = "resolve", NEW i \in Isns \union {Null}, p = Routed(q, i)
        PROVE  Counted(req[r])'
    <3>1. q.inbox # <<>>
      BY <1>1, <2>4 DEF Shape
    <3>2. /\ p.inbox = Tail(q.inbox) /\ p.sub = q.sub /\ p.stored = q.stored
          /\ p.failed = q.failed
          /\ \/ /\ \E x \in Resolved : p.todo = Append(q.todo, x)
                /\ p.unroutable = q.unroutable
             \/ /\ \E x \in LocalRefs : p.unroutable = Append(q.unroutable, x)
                /\ p.todo = q.todo
      BY <1>1, <2>4, <3>1, RoutedLists
    <3>3. Sum(p) = Sum(q)
      <4>1. CASE (\E x \in Resolved : p.todo = Append(q.todo, x)) /\ p.unroutable = q.unroutable
        BY <1>1, <3>1, <3>2, <4>1, TotalStays DEF Sum
      <4>2. CASE (\E x \in LocalRefs : p.unroutable = Append(q.unroutable, x)) /\ p.todo = q.todo
        BY <1>1, <3>1, <3>2, <4>2, TotalStays DEF Sum
      <4> QED
        BY <3>2, <4>1, <4>2
    <3>4. Accounted(q, faults) => Accounted(p, faults')
      BY <1>s, <1>1, <2>4, <3>1, <3>2, <3>3, RoutedLists
    <3> QED
      BY <1>1, <1>7, <2>4, <3>1, <3>4, RoutedLists
  <2>5. CASE q.pc \in Loading /\ q.todo # <<>> /\ p = Rejected(q)
    <3>1. /\ p.pc = "load" /\ p.todo = Tail(q.todo) /\ p.inbox = q.inbox
          /\ \E x \in LocalRefs : p.failed = Append(q.failed, x)
          /\ p.sub = q.sub /\ p.stored = q.stored /\ p.unroutable = q.unroutable
          /\ p.expired = q.expired
      BY <1>1, <2>5, RejectedLists
    <3>2. Sum(p) = Sum(q)
      BY <1>1, <2>5, <3>1, TotalStays DEF Sum
    <3>3. Accounted(q, faults) => Accounted(p, faults')
      BY <1>s, <2>5, <3>1, <3>2 DEF Loading, InTx
    <3> QED
      BY <1>i, <1>7, <2>5, <3>1, <3>3
  <2>6. CASE /\ q.pc \in Loading /\ q.todo # <<>>
             /\ q.sub.kind = "isn" /\ (q.expired \/ faults' = faults + 1)
             /\ p = Dropped(q)
    <3>1. /\ p.pc = "load" /\ p.todo = Tail(q.todo) /\ p.inbox = q.inbox
          /\ p.sub = q.sub /\ p.stored = q.stored /\ p.failed = q.failed
          /\ p.unroutable = q.unroutable /\ p.expired = q.expired
      BY <1>1, <2>6, DroppedLists
    <3>2. Sum(p) + 1 = Sum(q)
      BY <1>1, <2>6, <3>1, TotalStays DEF Sum
    <3>3. Sum(p) \in Nat /\ Len(q.sub.items) \in Nat
      <4>1. Tail(q.todo) \in Seq(Resolved)
        BY <1>1, <2>6
      <4>2. Sum(p) \in Nat
        BY <1>1, <3>1, <4>1, TotalStays DEF Sum
      <4> QED
        BY <1>n, <2>6, <4>2 DEF Loading, InTx
    <3>4. Accounted(q, faults) => Accounted(p, faults')
      BY <1>2, <1>n, <2>6, <3>1, <3>2, <3>3 DEF Accounted
    <3> QED
      BY <1>i, <1>7, <2>6, <3>1, <3>4
  <2>7. CASE Commit(r) /\ Apply(r) /\ p = Confirmed(q)
    <3>1. q.pc \in Loading /\ q.todo # <<>>
      BY <1>5, <2>7 DEF Commit, Loading, InTx, q
    <3>2. /\ p.pc = "load" /\ p.todo = Tail(q.todo) /\ p.inbox = q.inbox
          /\ \E x \in Stored : p.stored = Append(q.stored, x)
          /\ p.sub = q.sub /\ p.failed = q.failed /\ p.unroutable = q.unroutable
          /\ p.expired = q.expired
      BY <1>1, <2>7, <3>1, ConfirmedLists
    <3>3. Sum(p) = Sum(q)
      BY <1>1, <3>1, <3>2, TotalStays DEF Sum
    <3>4. Accounted(q, faults) => Accounted(p, faults')
      BY <1>s, <3>1, <3>2, <3>3 DEF Loading, InTx
    <3> QED
      BY <1>i, <1>7, <3>1, <3>2, <3>4
  <2> QED
    BY <1>8, <2>1, <2>2, <2>3, <2>4, <2>5, <2>6, <2>7 DEF ListChange
<1> QED
  BY <1>3, <1>6, <1>8

\* The stored list of a request, and the submission it answers.
LEMMA StoredStep ==
  ASSUME Tables, Core, AllCounted, [Next]_vars, NEW r \in Requests
  PROVE  \/ req'[r].stored = req[r].stored /\ req'[r].sub = req[r].sub
         \/ req'[r].stored = <<>>
         \/ /\ Commit(r) /\ Apply(r)
            /\ req'[r].stored = Append(req[r].stored, StoredOf(req[r]))
            /\ req'[r].sub = req[r].sub
<1> DEFINE q == req[r]
           p == req'[r]
<1>1. q \in Request /\ Shape(q) /\ Counted(q)
  BY DEF Core, AllCounted
<1>2. MovesOn(q, p) \/ ListChange(r, q, p)
  BY ListStep
<1>3. q.pc # "idle" => q.sub \in Submissions
  BY <1>1 DEF Shape
<1>4. Commit(r) => q.todo # <<>>
  BY <1>1 DEF Shape, Commit, InTx
<1> HIDE DEF q, p
<1>5. \/ p.stored = q.stored /\ p.sub = q.sub
      \/ p.stored = <<>>
      \/ /\ Commit(r) /\ Apply(r)
         /\ p.stored = Append(q.stored, StoredOf(q))
         /\ p.sub = q.sub
  <2>1. CASE MovesOn(q, p)
    BY <2>1 DEF MovesOn, SameLists
  <2>2. CASE ListChange(r, q, p)
    <3>1. CASE q.pc = "idle" /\ p.stored = q.stored
      BY <1>1, <3>1 DEF Counted
    <3>2. CASE q.pc = "batch" /\ p = Accepted(q)
      BY <1>1, <3>2 DEF Counted, Accepted, Request
    <3>3. CASE q.pc = "resolve" /\ q.sub.kind = "isn" /\ p = Validated(q)
      BY <1>1, <1>3, <3>3, ValidatedLists DEF Shape
    <3>4. ASSUME q.pc = "resolve", NEW i \in Isns \union {Null}, p = Routed(q, i)
          PROVE  p.stored = q.stored /\ p.sub = q.sub
      BY <1>1, <3>4, RoutedLists DEF Shape
    <3>5. CASE q.todo # <<>> /\ (p = Rejected(q) \/ p = Dropped(q))
      BY <1>1, <3>5, RejectedLists, DroppedLists
    <3>6. CASE Commit(r) /\ Apply(r) /\ p = Confirmed(q)
      BY <1>1, <1>4, <3>6, ConfirmedLists
    <3> QED
      BY <2>2, <3>1, <3>2, <3>3, <3>4, <3>5, <3>6 DEF ListChange
  <2> QED
    BY <1>2, <2>1, <2>2
<1> QED
  BY <1>5 DEF q, p

LEMMA ClocksStep ==
  ASSUME Tables, Core, Clocks, [Next]_vars
  PROVE  Clocks'
<1>1. clock \in Nat /\ clock' \in Nat /\ clock' >= clock
  BY ClockFrame DEF Tables, ClockStep
<1>2. ASSUME NEW k \in Key, NEW v \in versions'[k]
      PROVE  v \in versions[k] \/ \E r \in Requests :
               req[r].pc \in InTx /\ v.at = req[r].at /\ UNCHANGED failures
  <2>1. ASSUME NEW r \in Requests, Commit(r), Apply(r)
        PROVE  \/ v \in versions[k]
               \/ req[r].pc \in InTx /\ v.at = req[r].at /\ UNCHANGED failures
    <3>1. Added(r).at = req[r].at
      BY DEF Added
    <3>2. v \in versions[k] \/ v = Added(r)
      BY <2>1, Applied
    <3> QED
      BY <2>1, <3>1, <3>2, Applied
  <2>2. ASSUME NEW t \in SignalTypes, DeleteType(t)
        PROVE  v \in versions[k]
    BY <1>2, <2>2, Deletes
  <2> QED
    BY <1>2, <2>1, <2>2, DataFrame DEF data, WithdrawUpdate
<1>3. ASSUME NEW r \in Requests, req'[r].pc \in InTx
      PROVE  \/ req[r].pc \in InTx /\ req'[r].at = req[r].at
             \/ req'[r].at = clock + 1 /\ clock' = clock + 1 /\ UNCHANGED failures
  BY <1>3, InTxStep DEF TxStep, InTx
<1>4. ASSUME NEW f \in failures'
      PROVE  \/ f \in failures
             \/ f.at = clock + 1 /\ clock' = clock + 1 /\ UNCHANGED versions
  BY ClockFrame DEF ClockStep
<1>5. \A r \in Requests : req[r].at \in Nat
  BY DEF Core, Request
<1>6. \A k \in Key : \A v \in versions[k] : v.at \in Nat
  BY DEF Tables, Version
<1>7. \A f \in failures : f.at \in Nat
  BY DEF Tables, Failure
<1>8. \A k \in Key : \A v \in versions'[k] : v.at <= clock'
  BY <1>1, <1>2, <1>5, <1>6 DEF Clocks
<1>9. \A r \in Requests : req'[r].pc \in InTx => req'[r].at <= clock'
  BY <1>1, <1>3, <1>5 DEF Clocks
<1>10. \A f \in failures' : f.at <= clock' /\ f.at > 0
  BY <1>1, <1>4, <1>7 DEF Clocks
<1>11. \A f \in failures' : \A r \in Requests : req'[r].pc \in InTx => f.at # req'[r].at
  BY <1>1, <1>3, <1>4, <1>5, <1>7 DEF Clocks
<1>12. \A f \in failures' : \A k \in Key : \A v \in versions'[k] : f.at # v.at
  BY <1>1, <1>2, <1>4, <1>5, <1>6, <1>7 DEF Clocks
<1> QED
  BY <1>8, <1>9, <1>10, <1>11, <1>12 DEF Clocks

LEMMA DeletedStep ==
  ASSUME Tables, Core, Deleted, [Next]_vars
  PROVE  Deleted'
<1>1. ASSUME NEW k \in Key, k.type \notin types'
      PROVE  versions'[k] = {}
  <2>1. CASE UNCHANGED <<data, types>>
    BY <1>1, <2>1 DEF Deleted, data
  <2>2. ASSUME NEW r \in Requests, Commit(r), Apply(r)
        PROVE  versions'[k] = {}
    <3>1. CurKey(r).type \in types /\ types' = types
      BY <2>2, Applied, InTxSignal DEF Deleted
    <3> QED
      BY <1>1, <2>2, <3>1, Applied DEF Deleted
  <2>3. ASSUME NEW w \in Withdrawals, WithdrawUpdate(w)
        PROVE  versions'[k] = {}
    BY <1>1, <2>3 DEF Deleted, WithdrawUpdate, config
  <2>4. ASSUME NEW t \in SignalTypes, DeleteType(t)
        PROVE  versions'[k] = {}
    BY <1>1, <2>4, Deletes DEF Deleted
  <2> QED
    BY <2>1, <2>2, <2>3, <2>4, DataFrame
<1>2. ASSUME NEW r \in Requests, req'[r].pc \in Locked
      PROVE  req'[r].sub.type \in types'
  <2>1. /\ req'[r].sub = req[r].sub
        /\ req[r].sub.type \in types
    BY <1>2, InTxStep DEF SameSignal, TxStep, Deleted, Locked, InTx, FirstStatement
  <2>2. ASSUME NEW t \in SignalTypes, DeleteType(t)
        PROVE  req[r].sub.type # t
    <3>1. req' = req
      BY <2>2, Deletes
    <3>2. CurKey(r) \in Key /\ CurKey(r).type = req[r].sub.type /\ lock[CurKey(r)] = r
      BY <1>2, <3>1, InTxSignal DEF Core, LocksHeld, Locked, InTx
    <3> QED
      BY <2>2, <3>2, Deletes, NullAssumption DEF RowFree
  <2>3. types' = types \/ \E t \in SignalTypes : DeleteType(t)
    BY DataFrame, Applied DEF WithdrawUpdate, config
  <2> QED
    BY <2>1, <2>2, <2>3, Deletes
<1> QED
  BY <1>1, <1>2 DEF Deleted

LEMMA AdmittedStep ==
  ASSUME Tables, Core, Clocks, Admitted, [Next]_vars
  PROVE  Admitted'
<1> SUFFICES ASSUME NEW r \in Requests, req'[r].pc \in {"upsert", "version", "commit"}
             PROVE  OnTime(Cur(r).isn, req[r].sub.type, req[r].at)'
  BY DEF Admitted
<1>1. SameSignal(r) /\ TxStep(r)
  BY InTxStep DEF InTx
<1>2. /\ req[r].pc \in InTx /\ req'[r].at = req[r].at
      /\ OnTime(Cur(r).isn, req[r].sub.type, req[r].at)
  BY <1>1 DEF TxStep, Admitted, OnTime, InUse, InTx, FirstStatement
<1>3. PICK i \in Isns, t \in SignalTypes, at \in Nat :
        i = Cur(r).isn /\ t = req[r].sub.type /\ at = req[r].at
  BY <1>2, InTxSignal, ItemTypes DEF Resolved, Request
<1>4. OnTime(i, t, at)'
  BY <1>2, <1>3, OnTimeStays DEF Clocks
<1> QED
  BY <1>1, <1>2, <1>3, <1>4 DEF SameSignal, OnTime

LEMMA RowKeptStep ==
  ASSUME Tables, Core, RowKept, [Next]_vars
  PROVE  RowKept'
<1> SUFFICES ASSUME NEW r \in Requests, req'[r].pc \in Locked
             PROVE  req'[r].row = Upserted(CurKey(r), Cur(r))'
  BY DEF RowKept
<1>1. SameSignal(r) /\ TxStep(r)
  BY InTxStep DEF Locked, InTx
<1>2. req'[r].row = Upserted(CurKey(r), Cur(r))
  BY <1>1 DEF TxStep, RowKept, Locked, FirstStatement
<1>3. signals'[CurKey(r)] = signals[CurKey(r)]
  <2>1. CASE req[r].pc \in Locked
    <3>1. ~(Commit(r) /\ Apply(r))
      <4>1. ASSUME Commit(r) PROVE req'[r].pc = "load"
        <5>1. req[r] \in Request /\ req[r].todo # <<>>
          BY <2>1, InTxSignal DEF Locked, InTx
        <5> QED
          BY <4>1, <5>1, RejectedLists, ConfirmedLists DEF Commit, Core
      <4> QED
        BY <4>1 DEF Locked
    <3> QED
      BY <2>1, <3>1, HeldRow
  <2>2. CASE req[r].pc \notin Locked
    BY <1>1, <2>2 DEF TxStep, Locked, FirstStatement, data
  <2> QED
    BY <2>1, <2>2
<1> QED
  BY <1>1, <1>2, <1>3 DEF SameSignal, Upserted

LEMMA CoreStep ==
  ASSUME Tables, Core, [Next]_vars
  PROVE  Tables' /\ Core'
<1>1. IInv
  BY IInvIff
<1>2. IInv'
  BY <1>1, StepInv
<1>3. IInv' <=> (Tables /\ Core)'
  BY IInvIff, PTL
<1> QED
  BY <1>2, <1>3

LEMMA CorrelationsStep ==
  ASSUME Tables, Core, AllCounted, RowKept, CorrelationsKept, [Next]_vars
  PROVE  CorrelationsKept'
<1> DEFINE After(c, i) ==
             c # Null /\ c.type \in types' => signals'[c] # Null /\ signals'[c].isn = i
<1>1. ASSUME NEW x \in Resolved, Kept(x.corr, x.isn)
      PROVE  After(x.corr, x.isn)
  <2>1. PICK c \in Key \union {Null}, i \in {x.isn} : c = x.corr /\ i = x.isn
    BY DEF Resolved
  <2>2. Kept(c, i)'
    BY <1>1, <2>1, KeptStays
  <2> QED
    BY <2>1, <2>2 DEF Kept
<1>2. ASSUME NEW r \in Requests, req'[r].pc # "idle", req'[r].sub.kind = "router"
      PROVE  \A j \in 1..Len(req'[r].todo) :
               After(req'[r].todo[j].corr, req'[r].todo[j].isn)
  <2> DEFINE q == req[r]
             p == req'[r]
             Resolves(t) == \A j \in 1..Len(t) : Kept(t[j].corr, t[j].isn)
  <2>1. /\ q \in Request /\ Shape(q) /\ Counted(q)
        /\ q.todo \in Seq(Resolved) /\ q.inbox \in Seq(Item)
    BY DEF Core, AllCounted, Request
  <2>2. MovesOn(q, p) \/ ListChange(r, q, p)
    BY ListStep
  <2>3. q.pc # "idle" => q.sub \in Submissions
    BY <2>1 DEF Shape
  <2>4. Commit(r) => q.todo # <<>>
    BY <2>1 DEF Shape, Commit, InTx
  <2>5. q.pc # "idle" /\ q.sub.kind = "router" => Resolves(q.todo)
    BY DEF CorrelationsKept
  <2>6. p.pc # "idle" /\ p.sub.kind = "router"
    BY <1>2
  <2> HIDE DEF q, p, Resolves
  <2>7. Resolves(p.todo) /\ p.todo \in Seq(Resolved)
    <3>1. CASE p.todo = <<>>
      BY <3>1 DEF Resolves
    <3>2. CASE q.pc # "idle" /\ p.todo = q.todo /\ p.sub = q.sub
      BY <2>1, <2>5, <2>6, <3>2
    <3>3. CASE /\ q.pc # "idle" /\ q.todo # <<>> /\ p.todo = Tail(q.todo)
               /\ p.sub = q.sub
      <4>1. Resolves(q.todo)
        BY <2>5, <2>6, <3>3
      <4> QED
        BY <2>1, <3>3, <4>1 DEF Resolves
    <3>4. CASE MovesOn(q, p) /\ q.pc = "idle"
      BY <2>1, <3>1, <3>4 DEF MovesOn, SameLists, Counted
    <3>5. CASE MovesOn(q, p) /\ q.pc # "idle"
      BY <3>2, <3>5 DEF MovesOn, SameLists
    <3>6. CASE q.pc = "idle" /\ p.todo = q.todo
      BY <2>1, <3>1, <3>6 DEF Counted
    <3>7. CASE q.pc = "batch" /\ p = Accepted(q)
      BY <2>1, <3>2, <3>7 DEF Accepted, Request
    <3>8. CASE q.pc = "resolve" /\ q.sub.kind = "isn" /\ p = Validated(q)
      BY <2>1, <2>3, <2>6, <3>8, ValidatedLists DEF Shape
    <3>9. ASSUME q.pc = "resolve", q.sub.kind = "router",
                 NEW i \in Isns \union {Null}, p = Routed(q, i),
                 i # Null => Kept(Head(q.inbox).corr, i)
          PROVE  Resolves(p.todo) /\ p.todo \in Seq(Resolved)
      <4>1. q.inbox # <<>>
        BY <2>1, <3>9 DEF Shape
      <4>2. CASE p.todo = q.todo
        BY <2>1, <2>5, <3>9, <4>2
      <4>3. CASE /\ i # Null /\ p.todo = Append(q.todo, Target(Head(q.inbox), i))
                 /\ Target(Head(q.inbox), i) \in Resolved
        <5>1. PICK x \in Resolved : x = Target(Head(q.inbox), i)
          BY <4>3
        <5>2. Kept(x.corr, x.isn)
          BY <3>9, <4>3, <5>1 DEF Target
        <5>3. \A j \in 1..Len(p.todo) : p.todo[j] = IF j <= Len(q.todo) THEN q.todo[j] ELSE x
          BY <2>1, <4>3, <5>1
        <5>4. Resolves(q.todo)
          BY <2>5, <3>9
        <5>5. \A j \in 1..Len(p.todo) : Kept(p.todo[j].corr, p.todo[j].isn)
          BY <2>1, <5>2, <5>3, <5>4 DEF Resolves
        <5> QED
          BY <2>1, <4>3, <5>5 DEF Resolves
      <4> QED
        BY <2>1, <3>9, <4>1, <4>2, <4>3, RoutedLists
    <3>10. CASE /\ q.pc \in Loading /\ q.todo # <<>>
                /\ p = Rejected(q) \/ p = Dropped(q) \/ p = Confirmed(q)
      BY <2>1, <3>3, <3>10, RejectedLists, DroppedLists, ConfirmedLists
         DEF Loading, InTx
    <3>11. CASE Commit(r) /\ p = Confirmed(q)
      <4>1. q.pc \in Loading
        BY <3>11 DEF Commit, Loading, InTx, q
      <4> QED
        BY <2>4, <3>10, <3>11, <4>1
    <3> QED
      BY <2>2, <3>4, <3>5, <3>6, <3>7, <3>8, <3>9, <3>10, <3>11 DEF ListChange
  <2>8. \A j \in 1..Len(p.todo) : p.todo[j] \in Resolved /\ Kept(p.todo[j].corr, p.todo[j].isn)
    BY <2>7 DEF Resolves
  <2> QED
    BY <1>1, <2>8 DEF p
<1>3. ASSUME NEW r \in Requests, req'[r].pc \in InTx \ {"correlate"}
      PROVE  After(Cur(r)'.corr, Cur(r)'.isn)
  <2>1. SameSignal(r) /\ TxStep(r)
    BY <1>3, InTxStep
  <2>2. Cur(r) \in Resolved /\ Kept(Cur(r).corr, Cur(r).isn)
    <3>1. CASE req[r].pc \in InTx \ {"correlate"}
      BY <3>1, InTxSignal DEF CorrelationsKept
    <3>2. CASE req[r].pc = "correlate"
      BY <1>3, <2>1, <3>2, InTxSignal DEF TxStep, CorrelationValid, Kept, InTx
    <3>3. CASE req[r].pc = "load" /\ req'[r].pc = FirstStatement(req[r])
      <4>1. req'[r].todo # <<>>
        BY <1>3, CoreStep DEF Core, Shape, InTx
      <4>2. req[r].todo \in Seq(Resolved) /\ req[r].todo # <<>>
        BY <2>1, <4>1 DEF SameSignal, Core, Request
      <4>3. Cur(r) \in Resolved /\ Cur(r) = req[r].todo[1] /\ 1 \in 1..Len(req[r].todo)
        BY <4>2 DEF Cur
      <4>4. CASE req[r].sub.kind = "router"
        BY <3>3, <4>3, <4>4 DEF CorrelationsKept
      <4>5. CASE req[r].sub.kind # "router"
        <5>1. req[r].sub.kind = "isn"
          BY <3>3, <4>5, InputAssumption DEF Core, Shape, Submission
        <5>2. Cur(r).corr = Null
          BY <1>3, <3>3, <5>1 DEF FirstStatement, Cur
        <5> QED
          BY <4>3, <5>2 DEF Kept
      <4> QED
        BY <4>4, <4>5
    <3> QED
      BY <1>3, <2>1, <3>1, <3>2, <3>3 DEF TxStep, InTx
  <2>3. After(Cur(r).corr, Cur(r).isn)
    BY <1>1, <2>2
  <2> QED
    BY <2>1, <2>3 DEF SameSignal
<1> QED
  BY <1>2, <1>3 DEF CorrelationsKept, Kept

\* The numbers of the versions of a signal, before and after a COMMIT.
LEMMA NumberIsNew ==
  ASSUME Core, NEW r \in Requests, req[r].pc = "commit",
         NEW v \in versions[CurKey(r)]
  PROVE  v.number # req[r].number
<1>1. CurKey(r) \in Key
  BY InTxSignal DEF InTx
<1>2. PICK n \in Nat : Numbered(CurKey(r), n)
  BY <1>1 DEF Core, Contiguous
<1>3. req[r].number = n + 1
  BY <1>1, <1>2, LatestIs DEF Core, NumberIsFresh, Numbered
<1>4. v.number \in 1..n
  BY <1>2 DEF Numbered, Numbers
<1> QED
  BY <1>3, <1>4

\* What one entry of a stored list claims.
EntryKept(sub, e) ==
  \/ sub.type \notin types
  \/ \E v \in versions[KeyOf(sub, e.ref)] : v.number = e.number /\ v.batch = sub.batch
EntryOnTime(sub, e) ==
  \A v \in versions[KeyOf(sub, e.ref)] :
    v.number = e.number => OnTime(e.isn, sub.type, v.at)

LEMMA EntryKeptStays ==
  ASSUME Tables, Core, [Next]_vars, NEW s \in Submissions, NEW e \in Stored,
         EntryKept(s, e)
  PROVE  EntryKept(s, e)'
<1>1. KeyOf(s, e.ref) \in Key /\ KeyOf(s, e.ref).type = s.type
  BY KeyType DEF Stored, KeyOf
<1>2. CASE UNCHANGED <<data, types>>
  BY <1>2 DEF data, EntryKept
<1>3. ASSUME NEW r \in Requests, Commit(r), Apply(r)
      PROVE  EntryKept(s, e)'
  BY <1>1, <1>3, Applied DEF EntryKept
<1>4. ASSUME NEW w \in Withdrawals, WithdrawUpdate(w)
      PROVE  EntryKept(s, e)'
  BY <1>4 DEF WithdrawUpdate, config, EntryKept
<1>5. ASSUME NEW t \in SignalTypes, DeleteType(t)
      PROVE  EntryKept(s, e)'
  BY <1>1, <1>5, Deletes DEF EntryKept
<1> QED
  BY <1>2, <1>3, <1>4, <1>5, DataFrame

\* A COMMIT adds no version with a number that was already reported.
LEMMA EntryOnTimeStays ==
  ASSUME Tables, Core, Clocks, Deleted, [Next]_vars,
         NEW s \in Submissions, NEW e \in Stored,
         EntryKept(s, e), EntryOnTime(s, e)
  PROVE  EntryOnTime(s, e)'
<1> DEFINE k == KeyOf(s, e.ref)
<1>1. k \in Key /\ k.type = s.type /\ s.type \in SignalTypes /\ e.isn \in Isns
  BY KeyType, ItemTypes DEF Stored, KeyOf
<1> HIDE DEF k
<1>2. ASSUME NEW v \in versions'[k], v.number = e.number
      PROVE  v \in versions[k]
  <2>1. CASE UNCHANGED <<data, types>>
    BY <1>2, <2>1 DEF data
  <2>2. ASSUME NEW r \in Requests, Commit(r), Apply(r), CurKey(r) = k
        PROVE  v \in versions[k]
    <3>1. s.type \in types
      BY <1>1, <2>2, Applied, InTxSignal DEF Deleted
    <3>2. PICK w \in versions[k] : w.number = e.number
      BY <3>1 DEF EntryKept, k
    <3>3. v # Added(r)
      BY <1>2, <2>2, <3>2, NumberIsNew, Applied DEF Added
    <3> QED
      BY <1>1, <2>2, <3>3, Applied
  <2>3. ASSUME NEW r \in Requests, Commit(r), Apply(r), CurKey(r) # k
        PROVE  v \in versions[k]
    BY <1>1, <2>3, Applied
  <2>4. ASSUME NEW w \in Withdrawals, WithdrawUpdate(w)
        PROVE  v \in versions[k]
    BY <2>4 DEF WithdrawUpdate
  <2>5. ASSUME NEW t \in SignalTypes, DeleteType(t)
        PROVE  v \in versions[k]
    BY <1>1, <2>5, Deletes
  <2> QED
    BY <2>1, <2>2, <2>3, <2>4, <2>5, DataFrame
<1>3. ASSUME NEW v \in versions[k], v.number = e.number
      PROVE  OnTime(e.isn, s.type, v.at)'
  <2>1. PICK at \in Nat : at = v.at /\ at <= clock
    BY <1>1, <1>3 DEF Tables, Version, Clocks
  <2>2. PICK i \in Isns, t \in SignalTypes : i = e.isn /\ t = s.type
    BY <1>1
  <2>3. OnTime(i, t, at)
    BY <1>3, <2>1, <2>2 DEF EntryOnTime, k
  <2>4. OnTime(i, t, at)'
    BY <2>1, <2>3, OnTimeStays
  <2> QED
    BY <2>1, <2>2, <2>4
<1> QED
  BY <1>2, <1>3 DEF EntryOnTime, OnTime, k

\* The entry that a COMMIT adds to the stored list.
LEMMA NewEntry ==
  ASSUME Tables, Core, Clocks, Admitted, [Next]_vars,
         NEW r \in Requests, Commit(r), Apply(r),
         NEW s \in Submissions, s = req[r].sub,
         NEW e \in Stored, e = StoredOf(req[r])
  PROVE  EntryKept(s, e)' /\ EntryOnTime(s, e)'
<1>1. /\ req[r].pc = "commit" /\ req[r] \in Request
      /\ CurKey(r) \in Key /\ Cur(r) \in Resolved
  BY Applied, InTxSignal
<1>2. KeyOf(s, e.ref) = CurKey(r) /\ e.number = req[r].number /\ e.isn = Cur(r).isn
  BY DEF StoredOf, CurKey, Cur
<1>3. versions'[CurKey(r)] = versions[CurKey(r)] \union {Added(r)}
  BY <1>1, Applied
<1>4. PICK v : v = Added(r)
  OBVIOUS
<1>5. v.number = req[r].number /\ v.batch = s.batch /\ v.at = req[r].at
  BY <1>4 DEF Added
<1>6. EntryKept(s, e)'
  BY <1>2, <1>3, <1>4, <1>5 DEF EntryKept
<1>7. PICK i \in Isns, t \in SignalTypes, at \in Nat :
        i = e.isn /\ t = s.type /\ at = req[r].at
  BY <1>1, <1>2, ItemTypes DEF Resolved, Request
<1>8. OnTime(i, t, at) /\ at <= clock
  BY <1>1, <1>2, <1>7 DEF Admitted, Clocks, InTx
<1>9. OnTime(i, t, at)'
  BY <1>8, OnTimeStays
<1>10. \A w \in versions'[CurKey(r)] : w.number = e.number => w.at = at
  BY <1>1, <1>2, <1>3, <1>4, <1>5, <1>7, NumberIsNew
<1>11. EntryOnTime(s, e)'
  BY <1>2, <1>7, <1>9, <1>10 DEF EntryOnTime
<1> QED
  BY <1>6, <1>11

\* What the stored list of a request claims is true.
EntriesTrue(r) == \A j \in DOMAIN req[r].stored :
  EntryKept(req[r].sub, req[r].stored[j]) /\ EntryOnTime(req[r].sub, req[r].stored[j])

LEMMA EntriesTrueIff ==
  (\A r \in Requests : EntriesTrue(r)) <=> StoredIsDurable /\ NothingStoredThroughDisabledIsn
BY DEF EntriesTrue, EntryKept, EntryOnTime, OnTime, StoredIsDurable,
       NothingStoredThroughDisabledIsn

LEMMA EntriesStep ==
  ASSUME Tables, Core, Clocks, Deleted, Admitted, AllCounted, [Next]_vars,
         NEW r \in Requests, EntriesTrue(r)
  PROVE  EntriesTrue(r)'
<1>1. req[r] \in Request /\ req[r].stored \in Seq(Stored) /\ Shape(req[r])
  BY DEF Core, Request
<1>2. CASE req'[r].stored = <<>>
  BY <1>2 DEF EntriesTrue
<1>3. CASE req[r].stored = <<>> /\ req'[r].stored = req[r].stored
  BY <1>3 DEF EntriesTrue
<1>4. CASE /\ req[r].pc # "idle" /\ req'[r].sub = req[r].sub
           /\ \/ req'[r].stored = req[r].stored
              \/ /\ Commit(r) /\ Apply(r)
                 /\ req'[r].stored = Append(req[r].stored, StoredOf(req[r]))
  <2>1. PICK s \in Submissions : s = req[r].sub
    BY <1>1, <1>4 DEF Shape
  <2>2. ASSUME NEW j \in DOMAIN req[r].stored, NEW e \in Stored, e = req[r].stored[j]
        PROVE  EntryKept(s, e)' /\ EntryOnTime(s, e)'
    <3>1. EntryKept(s, e) /\ EntryOnTime(s, e)
      BY <2>1, <2>2 DEF EntriesTrue
    <3> QED
      BY <3>1, EntryKeptStays, EntryOnTimeStays
  <2>3. ASSUME NEW j \in DOMAIN req'[r].stored, NEW e, e = req'[r].stored[j]
        PROVE  EntryKept(s, e)' /\ EntryOnTime(s, e)'
    <3>1. CASE j \in DOMAIN req[r].stored /\ req'[r].stored[j] = req[r].stored[j]
      <4>1. e \in Stored
        BY <1>1, <2>3, <3>1
      <4> QED
        BY <2>2, <2>3, <3>1, <4>1
    <3>2. CASE Commit(r) /\ Apply(r) /\ req'[r].stored[j] = StoredOf(req[r])
      <4>1. e \in Stored
        BY <1>1, <2>3, <3>2, Applied, InTxSignal, ConfirmedLists
      <4> QED
        BY <2>1, <2>3, <3>2, <4>1, NewEntry
    <3>3. CASE req'[r].stored = req[r].stored
      BY <2>3, <3>1, <3>3
    <3>4. CASE /\ Commit(r) /\ Apply(r)
               /\ req'[r].stored = Append(req[r].stored, StoredOf(req[r]))
      <4>1. \/ j \in DOMAIN req[r].stored /\ req'[r].stored[j] = req[r].stored[j]
            \/ req'[r].stored[j] = StoredOf(req[r])
        BY <1>1, <2>3, <3>4
      <4> QED
        BY <3>1, <3>2, <3>4, <4>1
    <3> QED
      BY <1>4, <3>3, <3>4
  <2>4. ASSUME NEW j \in DOMAIN req'[r].stored
        PROVE  /\ EntryKept(req[r].sub, req[r].stored[j])'
               /\ EntryOnTime(req[r].sub, req[r].stored[j])'
    <3>1. PICK e : e = req'[r].stored[j]
      OBVIOUS
    <3>2. EntryKept(s, e)'
      BY <2>3, <3>1
    <3>3. EntryOnTime(s, e)'
      BY <2>3, <3>1
    <3>4. EntryKept(req[r].sub, req[r].stored[j])'
      BY <1>4, <2>1, <3>1, <3>2 DEF EntryKept
    <3>5. EntryOnTime(req[r].sub, req[r].stored[j])'
      BY <1>4, <2>1, <3>1, <3>3 DEF EntryOnTime, OnTime
    <3> QED
      BY <3>4, <3>5
  <2> QED
    BY <2>4 DEF EntriesTrue
<1> QED
  <2>1. req[r].pc = "idle" => req[r].stored = <<>>
    BY DEF AllCounted, Counted
  <2>2. Commit(r) => req[r].pc # "idle"
    BY DEF Commit
  <2> QED
    BY <1>2, <1>3, <1>4, <2>1, <2>2, StoredStep

-----------------------------------------------------------------------------
(* The theorems *)

LEMMA InitAnswers == Init => AInv
<1> SUFFICES ASSUME Init PROVE AInv
  OBVIOUS
<1>1. /\ \A r \in Requests : req[r] = NewRequest
      /\ versions = [k \in Key |-> {}] /\ failures = {} /\ types = SignalTypes
      /\ faults = 0
  BY DEF Init
<1>2. Clocks /\ Deleted /\ Admitted /\ RowKept /\ CorrelationsKept
  BY <1>1 DEF NewRequest, Clocks, Deleted, Admitted, RowKept, CorrelationsKept,
     InTx, Locked
<1>3. AllCounted
  BY <1>1 DEF NewRequest, AllCounted, Counted, InTx
<1>4. StoredIsDurable /\ NothingStoredThroughDisabledIsn
  BY <1>1 DEF NewRequest, StoredIsDurable, NothingStoredThroughDisabledIsn
<1> QED
  BY <1>2, <1>3, <1>4 DEF AInv

LEMMA StepAnswers == IInv /\ AInv /\ [Next]_vars => AInv'
<1> SUFFICES ASSUME Tables, Core, AInv, [Next]_vars
             PROVE  AInv'
  BY IInvIff
<1>1. Clocks' /\ Deleted' /\ Admitted' /\ RowKept' /\ CorrelationsKept' /\ AllCounted'
  BY ClocksStep, DeletedStep, AdmittedStep, RowKeptStep, CorrelationsStep, CountedStep
     DEF AInv
<1>2. \A r \in Requests : EntriesTrue(r)
  BY EntriesTrueIff DEF AInv
<1>3. \A r \in Requests : EntriesTrue(r)'
  BY <1>2, EntriesStep DEF AInv
<1>4. (\A r \in Requests : EntriesTrue(r))'
        <=> StoredIsDurable' /\ NothingStoredThroughDisabledIsn'
  BY EntriesTrueIff, PTL
<1> QED
  BY <1>1, <1>3, <1>4 DEF AInv

\* What a response says was stored is in the database, as a version of that
\* batch, whatever other requests, withdrawals, deletions and crashes do.
THEOREM StoredStays == Spec => []StoredIsDurable
<1>1. AInv => StoredIsDurable
  BY DEF AInv
<1> QED
  BY <1>1, InitInv, StepInv, InitAnswers, StepAnswers, PTL DEF Spec

\* A load that began after its ISN, or the type on it, was disabled stores
\* nothing, at whichever statement the configuration change overtook it.
THEOREM DisabledStoresNothing == Spec => []NothingStoredThroughDisabledIsn
<1>1. AInv => NothingStoredThroughDisabledIsn
  BY DEF AInv
<1> QED
  BY <1>1, InitInv, StepInv, InitAnswers, StepAnswers, PTL DEF Spec

\* The counts of the answer of a routed post add up to the signals posted,
\* whatever fails; those of a post to an ISN never exceed them, and fall short by
\* at most one for each failure before the time is up.
THEOREM CountsOfAnswers == Spec => []CountsAddUp
<1>1. IInv /\ AInv => CountsAddUp
  <2> SUFFICES ASSUME Core, AllCounted, NEW r \in Requests, req[r].pc = "done"
               PROVE  LET sent == Len(req[r].sub.items) IN
                      /\ Reported(r) <= sent
                      /\ req[r].sub.kind = "router" => Reported(r) = sent
                      /\ ~req[r].expired => Reported(r) + faults >= sent
    BY IInvIff DEF AInv, CountsAddUp
  <2>1. /\ Accounted(req[r], faults) /\ req[r].inbox = <<>> /\ req[r].todo = <<>>
        /\ req[r] \in Request
    BY DEF Core, AllCounted, Counted
  <2>2. Reported(r) = Sum(req[r])
    <3>1. PICK a, b, c : a = req[r].stored /\ b = req[r].failed /\ c = req[r].unroutable
      OBVIOUS
    <3>2. Len(a) \in Nat /\ Len(b) \in Nat /\ Len(c) \in Nat
      BY <2>1, <3>1 DEF Request
    <3>3. Total(<<>>, <<>>, a, b, c) = Len(a) + Len(b) + Len(c)
      BY <3>2 DEF Total
    <3> QED
      BY <2>1, <3>1, <3>3, Zenon DEF Sum, Reported
  <2> QED
    BY <2>1, <2>2 DEF Accounted
<1> QED
  BY <1>1, InitInv, StepInv, InitAnswers, StepAnswers, PTL DEF Spec

-----------------------------------------------------------------------------
(* SignalLoad implements SignalStore *)

\* The record of k in the abstract store.
RecordOf(k) ==
  IF signals[k] = Null THEN Null
  ELSE [isn |-> signals[k].isn, corr |-> signals[k].corr,
        withdrawn |-> signals[k].withdrawn, version |-> LatestNumber(k)]
Mapped == [k \in Key |-> RecordOf(k)]

\* LatestIs, in a form that holds of the next state as well.
LatestsAreLast == \A k \in Key, n \in Nat : Numbers(k) = 1..n => LatestNumber(k) = n
LEMMA LatestAlways == LatestsAreLast
BY LatestIs DEF LatestsAreLast

LEMMA Recorded ==
  ASSUME Tables, Core, NEW k \in Key
  PROVE  /\ Mapped[k] = Null <=> signals[k] = Null
         /\ signals[k] # Null =>
              /\ Mapped[k] \in Record
              /\ Mapped[k] = [isn |-> signals[k].isn, corr |-> signals[k].corr,
                    withdrawn |-> signals[k].withdrawn, version |-> LatestNumber(k)]
<1>1. CASE signals[k] = Null
  BY <1>1 DEF Mapped, RecordOf
<1>2. CASE signals[k] # Null
  <2>1. PICK n \in Nat : Numbered(k, n)
    BY DEF Core, Contiguous
  <2>2. LatestNumber(k) = n /\ n # 0
    BY <1>2, <2>1, LatestIs DEF Numbered, Numbers
  <2>3. signals[k] \in Signal
    BY <1>2 DEF Tables
  <2>4. [isn |-> signals[k].isn, corr |-> signals[k].corr,
         withdrawn |-> signals[k].withdrawn, version |-> n] \in Record
    BY <2>2, <2>3 DEF Signal, Record
  <2>5. Mapped[k] = [isn |-> signals[k].isn, corr |-> signals[k].corr,
         withdrawn |-> signals[k].withdrawn, version |-> n]
    BY <1>2, <2>2 DEF Mapped, RecordOf
  <2> QED
    BY <1>2, <2>2, <2>4, <2>5, NullAssumption
<1> QED
  BY <1>1, <1>2

\* What a withdrawal makes of a record.
LEMMA HiddenRecord ==
  ASSUME NEW i, NEW d, NEW b, NEW n, NEW m,
         m = [isn |-> i, corr |-> d, withdrawn |-> b, version |-> n]
  PROVE  [m EXCEPT !.withdrawn = TRUE]
           = [isn |-> i, corr |-> d, withdrawn |-> TRUE, version |-> n]
<1>1. PICK t : t = TRUE
  OBVIOUS
<1>2. [m EXCEPT !.withdrawn = t] = [isn |-> i, corr |-> d, withdrawn |-> t, version |-> n]
  OBVIOUS
<1> QED
  BY <1>1, <1>2, Zenon

\* The actions of the abstract store, in terms of Mapped.
LEMMA Creates ==
  ASSUME NEW k \in Key, NEW i \in Isns, NEW c \in Key, Mapped[k] = Null,
         c # k /\ Mapped[c] # Null => Mapped[c].isn = i,
         Mapped' = [Mapped EXCEPT ![k] =
           [isn |-> i, corr |-> c, withdrawn |-> FALSE, version |-> 1]]
  PROVE  Store!Next
<1>1. [isn |-> i, corr |-> c, withdrawn |-> FALSE, version |-> 1] \in Record
  BY DEF Record
<1>2. Mapped'[k] # Null
  BY <1>1, NullAssumption DEF Mapped
<1>3. Mapped' # Mapped
  BY <1>2
<1>4. Store!Create(k, i, c)
  BY DEF Store!Create, Mapped, RecordOf
<1> QED
  BY <1>3, <1>4 DEF Store!Next, Store!Key, Key, Mapped, RecordOf

LEMMA Revises ==
  ASSUME Tables, Core, NEW k \in Key, NEW c \in Key, NEW n \in Nat,
         signals[k] # Null, LatestNumber(k) = n,
         Mapped' = [Mapped EXCEPT ![k] =
           [isn |-> signals[k].isn, corr |-> c, withdrawn |-> FALSE, version |-> n + 1]]
  PROVE  Store!Next
<1>1. Mapped[k] = [isn |-> signals[k].isn, corr |-> signals[k].corr,
                    withdrawn |-> signals[k].withdrawn, version |-> n]
  BY Recorded
<1>2. Mapped[k] # Null
  BY Recorded
<1>3. Mapped' = [Mapped EXCEPT ![k] =
        [isn |-> @.isn, corr |-> c, withdrawn |-> FALSE, version |-> @.version + 1]]
  <2>1. Mapped[k].isn = signals[k].isn /\ Mapped[k].version = n
    BY <1>1
  <2> QED
    BY <2>1
<1>4. Mapped' # Mapped
  <2>1. Mapped'[k].version = n + 1 /\ Mapped[k].version = n
    BY <1>1 DEF Mapped
  <2> QED
    BY <2>1
<1>5. Store!Revise(k, c)
  BY <1>2, <1>3 DEF Store!Revise, Mapped, RecordOf
<1> QED
  BY <1>4, <1>5 DEF Store!Next, Store!Key, Key, Mapped, RecordOf

\* A COMMIT makes the first version of a new record, or the next one of the
\* record that is there.
LEMMA CommitImplements ==
  ASSUME Tables, Core, Deleted, RowKept, CorrelationsKept, [Next]_vars,
         NEW r \in Requests, Commit(r), Apply(r)
  PROVE  Store!Next
<1>1. /\ req[r].pc = "commit" /\ req[r].pc \in Locked
      /\ CurKey(r) \in Key /\ Cur(r) \in Resolved /\ req[r].row \in Signal
      /\ req[r].row = Upserted(CurKey(r), Cur(r))
  BY Applied, InTxSignal DEF RowKept
<1>2. PICK k \in Key : k = CurKey(r)
  BY <1>1
<1>3. PICK s \in Resolved : s = Cur(r)
  BY <1>1
<1>4. PICK n \in Nat : Numbered(k, n)
  BY DEF Core, Contiguous
<1>5. LatestNumber(k) = n /\ req[r].number = n + 1
  BY <1>1, <1>2, <1>4, LatestIs DEF Core, NumberIsFresh, Numbered
<1>6. /\ signals'[k] = Upserted(k, s) /\ signals'[k] \in Signal /\ signals'[k] # Null
      /\ versions'[k] = versions[k] \union {Added(r)}
      /\ \A j \in Key : j # k => signals'[j] = signals[j] /\ versions'[j] = versions[j]
  BY <1>1, <1>2, <1>3, Applied, NullAssumption
<1>7. Numbers(k)' = 1..(n + 1)
  <2>1. Added(r).number = n + 1
    BY <1>5 DEF Added
  <2>2. Numbers(k)' = Numbers(k) \union {n + 1}
    BY <1>6, <2>1 DEF Numbers
  <2> QED
    BY <1>4, <2>2 DEF Numbered
<1>8. LatestNumber(k)' = n + 1
  <2>1. LatestsAreLast'
    BY LatestAlways, PTL
  <2> QED
    BY <1>7, <2>1 DEF LatestsAreLast
<1>9. \A j \in Key : j # k => RecordOf(j)' = RecordOf(j)
  BY <1>6 DEF RecordOf, LatestNumber, Numbers
<1>10. RecordOf(k)' = [isn |-> signals'[k].isn, corr |-> signals'[k].corr,
                      withdrawn |-> signals'[k].withdrawn, version |-> n + 1]
  BY <1>6, <1>8 DEF RecordOf
<1>11. Mapped' = [Mapped EXCEPT ![k] =
          [isn |-> signals'[k].isn, corr |-> signals'[k].corr,
           withdrawn |-> signals'[k].withdrawn, version |-> n + 1]]
  BY <1>9, <1>10 DEF Mapped
<1>12. CASE signals[k] = Null
  <2>1. n = 0 /\ versions[k] = {}
    BY <1>4, <1>12 DEF Numbered, Numbers
  <2>2. signals'[k] = [isn |-> s.isn, corr |-> IF s.corr = Null THEN k ELSE s.corr,
                      withdrawn |-> FALSE]
    BY <1>6, <1>12 DEF Upserted
  <2>3. PICK i \in Isns, c \in Key :
          i = s.isn /\ c = IF s.corr = Null THEN k ELSE s.corr
    BY DEF Resolved
  <2>4. Mapped' = [Mapped EXCEPT ![k] =
          [isn |-> i, corr |-> c, withdrawn |-> FALSE, version |-> 1]]
    BY <1>11, <2>1, <2>2, <2>3
  <2>5. c # k /\ Mapped[c] # Null => Mapped[c].isn = i
    <3> SUFFICES ASSUME c # k, Mapped[c] # Null
                 PROVE  Mapped[c].isn = i
      OBVIOUS
    <3>1. signals[c] # Null /\ Mapped[c].isn = signals[c].isn
      <4>1. signals[c] # Null
        BY Recorded
      <4>2. Mapped[c] = [isn |-> signals[c].isn, corr |-> signals[c].corr,
              withdrawn |-> signals[c].withdrawn, version |-> LatestNumber(c)]
        BY <4>1, Recorded
      <4> QED
        BY <4>1, <4>2
    <3>2. versions[c] # {}
      BY <3>1 DEF Core, Contiguous, Numbered
    <3>3. c.type \in types
      BY <3>2 DEF Deleted
    <3>4. Kept(c, i)
      BY <1>1, <1>3, <2>3 DEF CorrelationsKept, InTx
    <3> QED
      BY <3>1, <3>3, <3>4, NullAssumption DEF Kept
  <2>6. Mapped[k] = Null
    BY <1>12, Recorded
  <2> QED
    BY <2>4, <2>5, <2>6, Creates
<1>13. CASE signals[k] # Null
  <2>1. signals[k] \in Signal
    BY <1>13 DEF Tables
  <2>2. PICK c \in Key : c = IF s.corr = Null THEN signals[k].corr ELSE s.corr
    BY <2>1 DEF Resolved, Signal
  <2>3. signals'[k].isn = signals[k].isn /\ signals'[k].corr = c
        /\ signals'[k].withdrawn = FALSE
    BY <1>6, <1>13, <2>1, <2>2 DEF Upserted, Signal
  <2>4. Mapped' = [Mapped EXCEPT ![k] =
          [isn |-> signals[k].isn, corr |-> c, withdrawn |-> FALSE, version |-> n + 1]]
    BY <1>11, <2>3
  <2> QED
    BY <1>5, <1>13, <2>4, Revises
<1> QED
  BY <1>12, <1>13

\* A withdrawal that finds its row hides it, and does nothing else.
LEMMA WithdrawImplements ==
  ASSUME Tables, Core, NEW w \in Withdrawals, WithdrawUpdate(w)
  PROVE  Store!Next \/ UNCHANGED Mapped
<1>1. PICK k : k = WithdrawKey(w)
  OBVIOUS
<1>2. CASE UNCHANGED signals
  BY <1>2 DEF WithdrawUpdate, Mapped, RecordOf, LatestNumber, Numbers
<1>3. CASE /\ WithdrawMatches(k, wd[w].call.isn)
           /\ signals' = [signals EXCEPT ![k].withdrawn = TRUE]
  <2>1. UNCHANGED versions
    BY DEF WithdrawUpdate
  <2>2. CASE k \notin Key
    <3>1. \A j \in Key : signals'[j] = signals[j]
      BY <1>3, <2>2 DEF Tables
    <3> QED
      BY <2>1, <3>1 DEF Mapped, RecordOf, LatestNumber, Numbers
  <2>3. CASE k \in Key
    <3>1. signals[k] # Null /\ signals[k] \in Signal
      BY <1>3, <2>3 DEF WithdrawMatches, Tables
    <3>2. signals'[k] = [signals[k] EXCEPT !.withdrawn = TRUE]
          /\ \A j \in Key : j # k => signals'[j] = signals[j]
      BY <1>3, <2>3 DEF Tables
    <3>3. signals'[k] \in Signal /\ signals'[k] # Null
      BY <3>1, <3>2, NullAssumption DEF Signal
    <3>4. \A j \in Key : LatestNumber(j)' = LatestNumber(j)
      BY <2>1 DEF LatestNumber, Numbers
    <3>5. \A j \in Key : j # k => RecordOf(j)' = RecordOf(j)
      BY <3>2, <3>4 DEF RecordOf
    <3>6. RecordOf(k)' = [isn |-> signals[k].isn, corr |-> signals[k].corr,
                          withdrawn |-> TRUE, version |-> LatestNumber(k)]
      <4>1. signals'[k].isn = signals[k].isn /\ signals'[k].corr = signals[k].corr
            /\ signals'[k].withdrawn = TRUE
        BY <3>1, <3>2 DEF Signal
      <4> QED
        BY <2>3, <3>3, <3>4, <4>1 DEF RecordOf
    <3>7. Mapped[k] # Null /\ Mapped[k] =
            [isn |-> signals[k].isn, corr |-> signals[k].corr,
             withdrawn |-> signals[k].withdrawn, version |-> LatestNumber(k)]
      BY <2>3, <3>1, Recorded
    <3>8. Mapped' = [Mapped EXCEPT ![k].withdrawn = TRUE]
      <4>1. Mapped' = [Mapped EXCEPT ![k] =
              [isn |-> signals[k].isn, corr |-> signals[k].corr,
               withdrawn |-> TRUE, version |-> LatestNumber(k)]]
        BY <3>5, <3>6 DEF Mapped
      <4>2. [Mapped[k] EXCEPT !.withdrawn = TRUE] =
              [isn |-> signals[k].isn, corr |-> signals[k].corr,
               withdrawn |-> TRUE, version |-> LatestNumber(k)]
        BY <3>7, HiddenRecord
      <4> QED
        BY <4>1, <4>2, Zenon
    <3>9. Store!Withdraw(k)
      BY <3>7, <3>8 DEF Store!Withdraw, Mapped, RecordOf
    <3> QED
      BY <2>3, <3>9 DEF Store!Next, Store!Key, Key, Mapped, RecordOf
  <2> QED
    BY <2>2, <2>3
<1> QED
  BY <1>1, <1>2, <1>3 DEF WithdrawUpdate

\* The deletion of a type removes its signals, and no others.
LEMMA DeleteImplements ==
  ASSUME Tables, Core, NEW t \in SignalTypes, DeleteType(t)
  PROVE  Store!Next \/ UNCHANGED Mapped
<1>1. signals' = [k \in Key |-> IF k.type = t THEN Null ELSE signals[k]]
      /\ versions' = [k \in Key |-> IF k.type = t THEN {} ELSE versions[k]]
  BY DEF DeleteType
<1>2. \A k \in Key : k.type = t => RecordOf(k)' = Null
  BY <1>1 DEF RecordOf
<1>3. \A k \in Key : k.type # t => RecordOf(k)' = RecordOf(k)
  BY <1>1 DEF RecordOf, LatestNumber, Numbers
<1>4. Mapped' = [k \in Key |-> IF k.type = t THEN Null ELSE Mapped[k]]
  BY <1>2, <1>3 DEF Mapped
<1>5. Store!Purge(t)
  BY <1>4 DEF Store!Purge, Store!Key, Key, Mapped, RecordOf
<1> QED
  BY <1>5 DEF Store!Next, Store!Key, Key, Mapped, RecordOf

LEMMA StoreStep ==
  ASSUME IInv, AInv, [Next]_vars
  PROVE  Store!Next \/ UNCHANGED Mapped
<1>1. Tables /\ Core /\ Deleted /\ RowKept /\ CorrelationsKept
  BY IInvIff DEF AInv
<1>2. CASE UNCHANGED data
  BY <1>2 DEF data, Mapped, RecordOf, LatestNumber, Numbers
<1>3. ASSUME NEW r \in Requests, Commit(r), Apply(r)
      PROVE  Store!Next
  BY <1>1, <1>3, CommitImplements
<1>4. ASSUME NEW w \in Withdrawals, WithdrawUpdate(w)
      PROVE  Store!Next \/ UNCHANGED Mapped
  BY <1>1, <1>4, WithdrawImplements
<1>5. ASSUME NEW t \in SignalTypes, DeleteType(t)
      PROVE  Store!Next \/ UNCHANGED Mapped
  BY <1>1, <1>5, DeleteImplements
<1> QED
  BY <1>1, <1>2, <1>3, <1>4, <1>5, DataFrame

\* SignalLoad implements the versioned store: every load and withdrawal is one
\* atomic step of it, or nothing.  A signal never changes its ISN, its version
\* goes up by exactly one with each load, a load makes it active again, a new
\* signal is correlated within its ISN, and only a deleted type takes signals
\* away.
THEOREM Implements == Spec => ImplementsStore
<1>1. Init => Store!Init
  BY DEF Init, Store!Init, Store!Key, Key
<1>2. IInv /\ AInv /\ [Next]_vars
        => [Store!Next]_[k \in Key |->
             IF signals[k] = Null THEN Null
             ELSE [isn |-> signals[k].isn, corr |-> signals[k].corr,
                   withdrawn |-> signals[k].withdrawn, version |-> LatestNumber(k)]]
  BY StoreStep DEF Mapped, RecordOf
<1> QED
  BY <1>1, <1>2, InitInv, StepInv, InitAnswers, StepAnswers, PTL
  DEF Spec, ImplementsStore, Store!Spec
=============================================================================
