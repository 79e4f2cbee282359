--------------------------- MODULE Service_proofs ---------------------------
(***************************************************************************)
(* For any requests, caches, modes and size of the pool: the types of      *)
(* Service, and that a graceful shutdown loses no request.                 *)
(***************************************************************************)
EXTENDS Service, TLAPS

-----------------------------------------------------------------------------
(* The inductive invariant *)

Early == {"configure", "ping", "load", "build"}
Late  == {"drain", "close", "closing", "exited"}

\* Where the process stands determines what its listener and its requests may
\* be at: no request without an open listener, none that is new to a handler
\* once the shutdown began, none in flight once the drain is over.
Stage ==
  /\ phase \in Early => listener = "none"
  /\ phase \in Late => listener # "open"
  /\ listener \in {"none", "starting", "failed"} => \A r \in Requests : At(r, "new")
  /\ phase \in {"close", "closing"} /\ end # "late" => Active = {}
  /\ \A r \in Requests : At(r, "lost") => phase = "exited" /\ end = "late"

IInv == TypeOK /\ Stage

-----------------------------------------------------------------------------
(* Initial states and types *)

\* A request before it arrives, and what it becomes when it does.
LEMMA NewIsRequest == NewRequest \in RequestState /\ NewRequest.at = "new"
<1>1. 0 \in 0..MaxCalls
  BY ServiceAssumption
<1> QED
  BY <1>1 DEF NewRequest, RequestState, Groups

LEMMA ArrivedIsRequest ==
  ASSUME NEW g \in Asked, NEW q \in Arrived(g)
  PROVE  q \in RequestState /\ q.at \in {"refused", "handler"}
<1>1. MaxCalls \in 0..MaxCalls /\ g \in Groups
  BY ServiceAssumption
<1>2. \/ q = [NewRequest EXCEPT !.at = "refused", !.group = g]
      \/ q = [NewRequest EXCEPT !.at = "handler", !.group = g, !.calls = MaxCalls]
  BY DEF Arrived
<1>3. CASE q = [NewRequest EXCEPT !.at = "refused", !.group = g]
  BY <1>1, <1>3, NewIsRequest DEF RequestState, InFlight
<1>4. CASE q = [NewRequest EXCEPT !.at = "handler", !.group = g, !.calls = MaxCalls]
  BY <1>1, <1>4, NewIsRequest DEF RequestState, InFlight
<1> QED
  BY <1>2, <1>3, <1>4

\* A handler that has calls left may make one.
LEMMA FewerCalls ==
  ASSUME NEW s \in RequestState, s.calls > 0
  PROVE  s.calls - 1 \in 0..MaxCalls
  BY ServiceAssumption DEF RequestState

LEMMA InitIInv == Init => IInv
<1> SUFFICES ASSUME Init PROVE IInv
  OBVIOUS
<1>1. \A r \in Requests : request[r] \in RequestState /\ request[r].at = "new"
  BY NewIsRequest DEF Init
<1>2. request \in [Requests -> RequestState]
  BY <1>1 DEF Init
<1>3. TypeOK
  BY <1>1, <1>2, ServiceAssumption DEF Init, TypeOK, Phases, At
<1>4. Stage
  BY <1>1 DEF Init, Stage, Early, Late, At
<1> QED
  BY <1>3, <1>4 DEF IInv

LEMMA TypeStep == TypeOK /\ [Next]_vars => TypeOK'
<1> SUFFICES ASSUME TypeOK, [Next]_vars PROVE TypeOK'
  OBVIOUS
<1> USE ServiceAssumption
<1>1. CASE UNCHANGED vars
  BY <1>1 DEF TypeOK, vars, process, At
<1>2. CASE Starting
  BY <1>2 DEF Starting, StartFails, Configure, Ping, LoadCache, StartServer, Listen,
              TypeOK, Phases, At
<1>3. CASE Stopping
  <2>1. CASE ListenFailed \/ BeginShutdown \/ Drained \/ DrainTimeout \/ ClosePool
    BY <2>1 DEF ListenFailed, BeginShutdown, Drained, DrainTimeout, ClosePool,
                ClosedFirst, TypeOK, Phases, At
  <2>2. CASE Exit
    <3>1. \A r \in Requests : ~At(r, "locked") /\ row # r
      BY <2>2 DEF Exit, Holders, TypeOK, At
    <3>2. \A r \in Requests : request'[r] \in RequestState /\ request'[r].at # "locked"
      BY <2>2, <3>1 DEF Exit, TypeOK, RequestState, Active, At
    <3>3. request' \in [Requests -> RequestState]
      BY <2>2, <3>2 DEF Exit
    <3> QED
      BY <2>2, <3>1, <3>2, <3>3 DEF Exit, TypeOK, Phases, At
  <2> QED
    BY <1>3, <2>1, <2>2 DEF Stopping
<1>4. ASSUME NEW c \in Caches, Polling(c) PROVE TypeOK'
  BY <1>4 DEF Polling, Tick, PollAcquire, PollQuery, PollStop, GivenBack, TypeOK,
              process, At
<1>5. ASSUME NEW r \in Requests, Arrive(r) PROVE TypeOK'
  <2>1. PICK g \in Asked : \E q \in Arrived(g) : Becomes(r, q)
    BY <1>5 DEF Arrive
  <2>2. PICK q \in Arrived(g) : Becomes(r, q)
    BY <2>1
  <2>3. q \in RequestState /\ q.at # "locked"
    BY <2>1, <2>2, ArrivedIsRequest
  <2> QED
    BY <1>5, <2>2, <2>3 DEF Arrive, Becomes, TypeOK, At, process
<1>6. ASSUME NEW r \in Requests, NEW q \in RequestState, Becomes(r, q),
             q.at = "locked" <=> At(r, "locked"),
             UNCHANGED <<process, poller, row>>
      PROVE  TypeOK'
  BY <1>6 DEF Becomes, TypeOK, At, process
<1>7. ASSUME NEW r \in Requests,
             DbCall(r) \/ Acquire(r) \/ Query(r) \/ QueryFails(r) \/ PageReply(r)
               \/ Answer(r) \/ Cancel(r)
      PROVE  TypeOK'
  <2> DEFINE s == request[r]
  <2>0. s \in RequestState
    BY DEF TypeOK
  <2>1. CASE DbCall(r)
    <3>1. [s EXCEPT !.at = "acquire", !.calls = @ - 1] \in RequestState
      BY <2>0, <2>1, FewerCalls DEF DbCall, RequestState, InFlight
    <3> QED
      BY <1>6, <2>0, <2>1, <3>1 DEF DbCall, At, RequestState
  <2>2. CASE Acquire(r) \/ Query(r) \/ QueryFails(r) \/ Answer(r)
    <3>1. PICK at \in {"query", "handler", "answered"} : Goes(r, at)
      BY <2>2 DEF Acquire, Query, QueryFails, Answer
    <3>2. [s EXCEPT !.at = at] \in RequestState
      BY <2>0 DEF RequestState, InFlight
    <3> QED
      BY <1>6, <2>0, <2>2, <3>1, <3>2
      DEF Acquire, Query, QueryFails, Answer, Goes, At, RequestState
  <2>3. CASE PageReply(r)
    <3>1. [s EXCEPT !.at = "handler", !.inner = Null] \in RequestState
      BY <2>0 DEF RequestState, InFlight
    <3> QED
      BY <1>6, <2>0, <2>3, <3>1 DEF PageReply, At, RequestState
  <2>4. CASE Cancel(r)
    <3>1. [s EXCEPT !.cancelled = TRUE] \in RequestState
      BY <2>0 DEF RequestState
    <3> QED
      BY <1>6, <2>0, <2>4, <3>1 DEF Cancel, At, RequestState
  <2> QED
    BY <1>7, <2>1, <2>2, <2>3, <2>4
<1>8. ASSUME NEW r \in Requests, Lock(r) \/ EndTx(r) PROVE TypeOK'
  <2>1. \A at \in {"locked", "handler"} : [request[r] EXCEPT !.at = at] \in RequestState
    BY DEF TypeOK, RequestState, InFlight
  <2>2. request' \in [Requests -> RequestState]
    BY <1>8, <2>1 DEF Lock, EndTx, Goes, Becomes, TypeOK
  <2>3. \A p \in Requests : row' = p <=> At(p, "locked")'
    BY <1>8 DEF Lock, EndTx, Ended, RowFree, Goes, Becomes, TypeOK, At, RequestState
  <2>4. row' \in Requests \union {Null}
    BY <1>8 DEF Lock, EndTx, Ended
  <2> QED
    BY <1>8, <2>2, <2>3, <2>4 DEF Lock, EndTx, TypeOK, process
<1>9. ASSUME NEW r \in Requests, PageCall(r) PROVE TypeOK'
  <2> DEFINE s == request[r]
  <2>0. s \in RequestState /\ s.calls > 0 /\ s.at = "handler"
    BY <1>9 DEF TypeOK, PageCall, At
  <2>1. CASE listener # "open"
    <3>1. [s EXCEPT !.calls = @ - 1] \in RequestState
      BY <2>0, FewerCalls DEF RequestState
    <3> QED
      BY <1>6, <1>9, <2>0, <2>1, <3>1 DEF PageCall, At, RequestState
  <2>2. CASE listener = "open"
    <3>1. PICK n \in Requests \ {r}, g \in Asked \ {"ui"} : \E q \in Arrived(g) :
             /\ At(n, "new")
             /\ request' = [request EXCEPT
                  ![r] = [request[r] EXCEPT !.at = "page", !.calls = @ - 1, !.inner = n],
                  ![n] = q]
      BY <1>9, <2>2 DEF PageCall
    <3>2. PICK q \in Arrived(g) :
             /\ At(n, "new")
             /\ request' = [request EXCEPT
                  ![r] = [request[r] EXCEPT !.at = "page", !.calls = @ - 1, !.inner = n],
                  ![n] = q]
      BY <3>1
    <3>3. q \in RequestState /\ q.at # "locked"
      BY <3>1, <3>2, ArrivedIsRequest
    <3>4. [s EXCEPT !.at = "page", !.calls = @ - 1, !.inner = n] \in RequestState
      BY <2>0, <3>1, FewerCalls DEF RequestState, InFlight
    <3> DEFINE paged == [s EXCEPT !.at = "page", !.calls = @ - 1, !.inner = n]
    <3>5. request' = [request EXCEPT ![r] = paged, ![n] = q]
      BY <3>2
    <3> HIDE DEF paged
    <3>6. \A p \in Requests :
             request'[p] = IF p = n THEN q ELSE IF p = r THEN paged ELSE request[p]
      BY <3>5 DEF TypeOK
    <3>7. \A p \in Requests : request'[p] \in RequestState
      BY <3>3, <3>4, <3>6 DEF TypeOK, paged
    <3>8. request' \in [Requests -> RequestState]
      BY <3>5, <3>7 DEF TypeOK
    <3>9. paged.at = "page"
      BY <2>0 DEF RequestState, paged
    <3>10. \A p \in Requests : At(p, "locked")' <=> At(p, "locked")
      BY <2>0, <3>2, <3>3, <3>6, <3>9 DEF At
    <3> QED
      BY <1>9, <3>8, <3>10 DEF PageCall, TypeOK, process
  <2> QED
    BY <2>1, <2>2
<1>10. ASSUME NEW r \in Requests, PageTimeout(r) PROVE TypeOK'
  <2> DEFINE n == request[r].inner
  <2>1. n \in Requests /\ request[r] \in RequestState /\ request[n] \in RequestState
    BY <1>10 DEF PageTimeout, Active, TypeOK
  <2>2. /\ [request[r] EXCEPT !.at = "handler", !.inner = Null] \in RequestState
        /\ [request[n] EXCEPT !.cancelled = TRUE] \in RequestState
        /\ [[request[r] EXCEPT !.at = "handler", !.inner = Null] EXCEPT !.cancelled = TRUE]
             \in RequestState
    BY <2>1 DEF RequestState, InFlight
  <2>3. request' \in [Requests -> RequestState]
    BY <1>10, <2>1, <2>2 DEF PageTimeout, TypeOK
  <2>4. \A p \in Requests : At(p, "locked")' <=> At(p, "locked")
    BY <1>10, <2>1 DEF PageTimeout, TypeOK, At, RequestState
  <2> QED
    BY <1>10, <2>3, <2>4 DEF PageTimeout, TypeOK, process
<1>11. CASE Signal
  BY <1>11 DEF Signal, TypeOK, Phases, At
<1> QED
  BY <1>1, <1>2, <1>3, <1>4, <1>5, <1>7, <1>8, <1>9, <1>10, <1>11
  DEF Next, Step, Handling

\* The type invariant of Service, for any requests, caches, modes and pool.
THEOREM Types == Spec => []TypeOK
<1>1. Init => TypeOK
  BY InitIInv DEF IInv
<1> QED
  BY <1>1, TypeStep, PTL DEF Spec

-----------------------------------------------------------------------------
(* Shutdown *)

\* A request that is in flight now has the state of a request, and none has
\* while all of them are new.
LEMMA NoneActive ==
  ASSUME \A r \in Requests : At(r, "new")
  PROVE  Active = {}
  BY DEF Active, At, InFlight

\* A step of one request in flight: the process stays where it is.
LEMMA RequestStage ==
  ASSUME IInv, NEW r \in Requests, r \in Active, UNCHANGED process,
         \A p \in Requests : /\ At(p, "lost")' => At(p, "lost")
                             /\ request'[p].at \in InFlight =>
                                  request[p].at \in InFlight \/ listener = "open"
  PROVE  Stage'
<1>1. ~(listener \in {"none", "starting", "failed"})
  BY DEF IInv, Stage, Active, At, InFlight
<1>2. ~(phase \in {"close", "closing"} /\ end # "late")
  BY DEF IInv, Stage
<1> QED
  BY <1>1, <1>2 DEF IInv, Stage, process, At, Early, Late

LEMMA StageStep == IInv /\ [Next]_vars => Stage'
<1> SUFFICES ASSUME IInv, [Next]_vars PROVE Stage'
  OBVIOUS
<1> USE DEF IInv
<1>1. CASE UNCHANGED vars
  BY <1>1 DEF vars, process, Stage, Active, At
<1>2. CASE Starting /\ phase # "exited"
  BY <1>2, NoneActive DEF Starting, StartFails, Configure, Ping, LoadCache, StartServer,
     Listen, Stage, Early, Late, At, Active
<1>3. CASE Stopping
  <2>1. CASE ListenFailed
    BY <2>1, NoneActive DEF ListenFailed, Stage, Early, Late, At, Active
  <2>2. CASE BeginShutdown \/ Drained \/ DrainTimeout \/ ClosePool
    BY <2>2 DEF BeginShutdown, Drained, DrainTimeout, ClosePool, ClosedFirst, Stage,
                Early, Late, At, Active
  <2>3. CASE Exit
    <3>1. \A r \in Requests : At(r, "lost")' => r \in Active
      BY <2>3 DEF Exit, Stage, At, TypeOK
    <3>2. (\A r \in Requests : At(r, "new")) => \A r \in Requests : At(r, "new")'
      BY <2>3, NoneActive DEF Exit, At, TypeOK
    <3>3. Active # {} => end = "late"
      BY <2>3 DEF Exit, Stage
    <3> QED
      BY <2>3, <3>1, <3>2, <3>3 DEF Exit, Stage, Early, Late
  <2> QED
    BY <1>3, <2>1, <2>2, <2>3 DEF Stopping
<1>4. ASSUME NEW c \in Caches, Polling(c) PROVE Stage'
  BY <1>4 DEF Polling, Tick, PollAcquire, PollQuery, PollStop, process, Stage, Active, At
<1>5. ASSUME NEW r \in Requests, Arrive(r) PROVE Stage'
  <2>1. PICK g \in Asked : \E q \in Arrived(g) : Becomes(r, q)
    BY <1>5 DEF Arrive
  <2>2. PICK q \in Arrived(g) : Becomes(r, q)
    BY <2>1
  <2>3. q.at # "lost"
    BY <2>1, <2>2, ArrivedIsRequest
  <2>4. \A p \in Requests : At(p, "lost")' => At(p, "lost")
    BY <2>2, <2>3 DEF Becomes, At, TypeOK
  <2>5. listener = "open" /\ phase \notin Late
    BY <1>5 DEF Arrive, Stage
  <2> QED
    BY <1>5, <2>4, <2>5 DEF Arrive, Stage, process, Early, Late
<1>6. ASSUME NEW r \in Requests, r \in Active, UNCHANGED process,
             NEW q, Becomes(r, q), q.at # "lost"
      PROVE  Stage'
  BY <1>6, RequestStage DEF Becomes, At, TypeOK, Active
<1>7. ASSUME NEW r \in Requests,
             DbCall(r) \/ Acquire(r) \/ Query(r) \/ QueryFails(r) \/ Lock(r)
               \/ EndTx(r) \/ PageReply(r) \/ Answer(r) \/ Cancel(r)
      PROVE  Stage'
  <2>1. request[r] \in RequestState
    BY DEF TypeOK
  <2>2. r \in Active /\ UNCHANGED process
    BY <1>7 DEF DbCall, Acquire, Query, QueryFails, Lock, EndTx, PageReply, Answer,
                Cancel, At, Active, InFlight
  <2>3. PICK q : Becomes(r, q) /\ q.at # "lost"
    <3>1. CASE Cancel(r)
      <4>1. [request[r] EXCEPT !.cancelled = TRUE].at # "lost"
        BY <2>1, <2>2 DEF Active, InFlight, RequestState
      <4> QED
        BY <3>1, <4>1 DEF Cancel
    <3>2. CASE ~Cancel(r)
      <4>1. /\ \A at \in {"query", "handler", "locked", "answered"} :
                 [request[r] EXCEPT !.at = at].at # "lost"
            /\ [request[r] EXCEPT !.at = "acquire", !.calls = @ - 1].at # "lost"
            /\ [request[r] EXCEPT !.at = "handler", !.inner = Null].at # "lost"
        BY <2>1 DEF RequestState
      <4> QED
        BY <1>7, <3>2, <4>1 DEF DbCall, Acquire, Query, QueryFails, Lock, EndTx,
           PageReply, Answer, Goes
    <3> QED
      BY <3>1, <3>2
  <2> QED
    BY <1>6, <2>2, <2>3
<1>8. ASSUME NEW r \in Requests, PageCall(r) PROVE Stage'
  <2> DEFINE s == request[r]
  <2>0. s \in RequestState /\ s.at = "handler" /\ r \in Active /\ UNCHANGED process
    BY <1>8 DEF TypeOK, PageCall, At, Active, InFlight
  <2>1. CASE listener # "open"
    <3>1. [s EXCEPT !.calls = @ - 1].at # "lost"
      BY <2>0 DEF RequestState
    <3> QED
      BY <1>6, <1>8, <2>0, <2>1, <3>1 DEF PageCall
  <2>2. CASE listener = "open"
    <3>1. PICK n \in Requests \ {r}, g \in Asked \ {"ui"} : \E q \in Arrived(g) :
             /\ At(n, "new")
             /\ request' = [request EXCEPT
                  ![r] = [request[r] EXCEPT !.at = "page", !.calls = @ - 1, !.inner = n],
                  ![n] = q]
      BY <1>8, <2>2 DEF PageCall
    <3>2. PICK q \in Arrived(g) :
             /\ At(n, "new")
             /\ request' = [request EXCEPT
                  ![r] = [request[r] EXCEPT !.at = "page", !.calls = @ - 1, !.inner = n],
                  ![n] = q]
      BY <3>1
    <3>3. q.at # "lost"
      BY <3>1, <3>2, ArrivedIsRequest
    <3>4. [s EXCEPT !.at = "page", !.calls = @ - 1, !.inner = n].at # "lost"
      BY <2>0 DEF RequestState
    <3> DEFINE paged == [s EXCEPT !.at = "page", !.calls = @ - 1, !.inner = n]
    <3>5. request' = [request EXCEPT ![r] = paged, ![n] = q]
      BY <3>2
    <3> HIDE DEF paged
    <3>6. \A p \in Requests :
             request'[p] = IF p = n THEN q ELSE IF p = r THEN paged ELSE request[p]
      BY <3>5 DEF TypeOK
    <3>7. \A p \in Requests : At(p, "lost")' => At(p, "lost")
      BY <3>3, <3>4, <3>6 DEF At, paged
    <3> QED
      BY <2>0, <2>2, <3>7, RequestStage
  <2> QED
    BY <2>1, <2>2
<1>9. ASSUME NEW r \in Requests, PageTimeout(r) PROVE Stage'
  <2> DEFINE n == request[r].inner
  <2>1. n \in Requests /\ n \in Active /\ r \in Active /\ UNCHANGED process
    BY <1>9 DEF PageTimeout, Active, At, InFlight
  <2>2. request[r] \in RequestState /\ request[n] \in RequestState
    BY <2>1 DEF TypeOK
  <2> DEFINE back == [request[r] EXCEPT !.at = "handler", !.inner = Null]
             late == [request[n] EXCEPT !.cancelled = TRUE]
  <2>3. \A p \in Requests : \/ p \notin {r, n} /\ request'[p] = request[p]
                            \/ p = r /\ request'[p] = back
                            \/ p = n /\ request'[p] \in {late, [back EXCEPT !.cancelled = TRUE]}
    BY <1>9, <2>1 DEF PageTimeout, TypeOK
  <2>4. /\ back.at = "handler" /\ late.at = request[n].at
        /\ [back EXCEPT !.cancelled = TRUE].at = "handler"
    BY <2>2 DEF RequestState
  <2>5. \A p \in Requests : /\ At(p, "lost")' => At(p, "lost")
                            /\ request'[p].at \in InFlight => request[p].at \in InFlight
    BY <2>1, <2>3, <2>4 DEF At, Active
  <2> QED
    BY <2>1, <2>5, RequestStage
<1>10. CASE Signal
  BY <1>10 DEF Signal, Stage, Early, Late, At, Active
<1> QED
  BY <1>1, <1>2, <1>3, <1>4, <1>5, <1>7, <1>8, <1>9, <1>10
  DEF Next, Step, Handling

\* For any requests, caches, modes and size of the pool: a request is lost only
\* in a shutdown that ServerShutdownTimeout ended.
THEOREM NoRequestLost == Spec => []LosesNoRequest
<1>1. IInv /\ [Next]_vars => IInv'
  BY TypeStep, StageStep DEF IInv
<1>2. IInv => LosesNoRequest
  BY DEF IInv, Stage, LosesNoRequest
<1> QED
  BY InitIInv, <1>1, <1>2, PTL DEF Spec
=============================================================================
