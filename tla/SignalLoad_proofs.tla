------------------------- MODULE SignalLoad_proofs -------------------------
(***************************************************************************)
(* For every number of requests, withdrawals, signals, ISNs and faults:    *)
(* the types of SignalLoad, the exclusion by row locks, and what follows   *)
(* from it for the version numbers.                                        *)
(***************************************************************************)
EXTENDS SignalLoad, TLAPS

-----------------------------------------------------------------------------
(* The inductive invariant *)

\* A version number is fresh because the row lock excludes other writers, so
\* the locks belong to the invariant.
IInv == TypeOK /\ LocksHeld /\ VersionsContiguous /\ NumberIsFresh

-----------------------------------------------------------------------------
(* Lemmas on requests *)

LEMMA ItemTypes ==
  ASSUME NEW s \in Submissions
  PROVE  /\ s.items \in Seq(Item) /\ s.items # <<>>
         /\ s.type \in SignalTypes /\ s.account \in Accounts
         /\ s.batch \in BatchRefs
         /\ s.kind = "isn" => s.isn \in Isns
BY InputAssumption DEF Submission

LEMMA KeyType ==
  ASSUME NEW s \in Submissions, NEW f \in LocalRefs
  PROVE  KeyOf(s, f) \in Key
BY ItemTypes DEF KeyOf, Key

\* The signal that a request works on, inside its transaction.
LEMMA Current ==
  ASSUME TypeOK, NEW r \in Requests, Shape(req[r]),
         req[r].pc # "idle", req[r].todo # <<>>
  PROVE  /\ req[r] \in Request
         /\ req[r].sub \in Submissions
         /\ Cur(r) \in Resolved
         /\ CurKey(r) \in Key
<1>1. req[r] \in Request
  BY DEF TypeOK
<1>2. req[r].sub \in Submissions
  BY DEF Shape
<1>3. req[r].todo \in Seq(Resolved)
  BY <1>1 DEF Request
<1>4. Cur(r) \in Resolved
  BY <1>3 DEF Cur
<1>5. CurKey(r) \in Key
  BY <1>2, <1>4, KeyType DEF CurKey, Resolved
<1> QED
  BY <1>1, <1>2, <1>4, <1>5

LEMMA DroppedType ==
  ASSUME NEW q \in Request, q.todo # <<>>
  PROVE  /\ Dropped(q) \in Request
         /\ Rejected(q) \in Request
         /\ Rejected(q).pc = "load" /\ Dropped(q).pc = "load"
         /\ Rejected(q).sub = q.sub /\ Dropped(q).sub = q.sub
<1>1. q.todo \in Seq(Resolved)
  BY DEF Request
<1>2. Tail(q.todo) \in Seq(Resolved) /\ Head(q.todo) \in Resolved
  BY <1>1
<1>3. Dropped(q) \in Request
  BY <1>2 DEF Dropped, Request
<1>4. Head(q.todo).ref \in LocalRefs
  BY <1>2 DEF Resolved
<1>5. Rejected(q) \in Request
  <2> DEFINE d == Dropped(q)
  <2>1. d \in Request
    BY <1>3
  <2> HIDE DEF d
  <2>2. Append(d.failed, Head(q.todo).ref) \in Seq(LocalRefs)
    BY <2>1, <1>4 DEF Request
  <2>3. [d EXCEPT !.failed = Append(d.failed, Head(q.todo).ref)] \in Request
    BY <2>1, <2>2 DEF Request
  <2> QED
    BY <2>3 DEF d, Rejected
<1>6. Rejected(q).pc = "load" /\ Dropped(q).pc = "load"
      /\ Rejected(q).sub = q.sub /\ Dropped(q).sub = q.sub
  BY DEF Rejected, Dropped, Request
<1> QED
  BY <1>3, <1>5, <1>6

LEMMA TakenType ==
  ASSUME NEW q \in Request, q.inbox # <<>>
  PROVE  /\ Taken(q) \in Request
         /\ Taken(q).pc \in {"load", "resolve"}
         /\ Taken(q).pc = "resolve" => Taken(q).inbox # <<>>
         /\ Taken(q).sub = q.sub
         /\ Head(q.inbox) \in Item
<1>1. q.inbox \in Seq(Item)
  BY DEF Request
<1>2. Tail(q.inbox) \in Seq(Item) /\ Head(q.inbox) \in Item
  BY <1>1
<1> QED
  BY <1>2 DEF Taken, Request

LEMMA TargetType ==
  ASSUME NEW item \in Item, NEW i \in Isns
  PROVE  Target(item, i) \in Resolved
BY DEF Target, Item, Resolved

LEMMA ValidatedType ==
  ASSUME NEW q \in Request, q.inbox # <<>>, q.sub \in Submissions,
         q.sub.kind = "isn"
  PROVE  Validated(q) \in Request /\ Shape(Validated(q))
<1> DEFINE d == Taken(q)
<1>1. /\ d \in Request
      /\ d.pc \in {"load", "resolve"}
      /\ d.pc = "resolve" => d.inbox # <<>>
      /\ d.sub = q.sub
      /\ Head(q.inbox) \in Item
  BY TakenType
<1>2. Head(q.inbox).ref \in LocalRefs
  BY <1>1 DEF Item
<1>3. Target(Head(q.inbox), q.sub.isn) \in Resolved
  BY <1>1, ItemTypes, TargetType
<1> HIDE DEF d
<1>4. Append(d.todo, Target(Head(q.inbox), q.sub.isn)) \in Seq(Resolved)
  BY <1>1, <1>3 DEF Request
<1>5. Append(d.failed, Head(q.inbox).ref) \in Seq(LocalRefs)
  BY <1>1, <1>2 DEF Request
<1>6. CASE Head(q.inbox).valid
  <2>1. Validated(q) = [d EXCEPT !.todo = Append(d.todo, Target(Head(q.inbox), q.sub.isn))]
    BY <1>6 DEF Validated, d
  <2> QED
    BY <2>1, <1>1, <1>4 DEF Request, Shape, InTx, Locked
<1>7. CASE ~Head(q.inbox).valid
  <2>1. Validated(q) = [d EXCEPT !.failed = Append(d.failed, Head(q.inbox).ref)]
    BY <1>7 DEF Validated, d
  <2> QED
    BY <2>1, <1>1, <1>5 DEF Request, Shape, InTx, Locked
<1> QED
  BY <1>6, <1>7

LEMMA RoutedType ==
  ASSUME NEW q \in Request, q.inbox # <<>>, q.sub \in Submissions,
         NEW i \in Isns \union {Null}
  PROVE  Routed(q, i) \in Request /\ Shape(Routed(q, i))
<1> DEFINE d == Taken(q)
<1>1. /\ d \in Request
      /\ d.pc \in {"load", "resolve"}
      /\ d.pc = "resolve" => d.inbox # <<>>
      /\ d.sub = q.sub
      /\ Head(q.inbox) \in Item
  BY TakenType
<1>2. Head(q.inbox).ref \in LocalRefs
  BY <1>1 DEF Item
<1> HIDE DEF d
<1>3. CASE i = Null
  <2>1. Routed(q, i) = [d EXCEPT !.unroutable = Append(d.unroutable, Head(q.inbox).ref)]
    BY <1>3, <1>1 DEF Routed, d, Taken, Request
  <2>2. Append(d.unroutable, Head(q.inbox).ref) \in Seq(LocalRefs)
    BY <1>1, <1>2 DEF Request
  <2> QED
    BY <2>1, <2>2, <1>1 DEF Request, Shape, InTx, Locked
<1>4. CASE i # Null
  <2>1. Routed(q, i) = [d EXCEPT !.todo = Append(d.todo, Target(Head(q.inbox), i))]
    BY <1>4 DEF Routed, d
  <2>2. Target(Head(q.inbox), i) \in Resolved
    BY <1>1, <1>4, TargetType
  <2>3. Append(d.todo, Target(Head(q.inbox), i)) \in Seq(Resolved)
    BY <1>1, <2>2 DEF Request
  <2> QED
    BY <2>1, <2>3, <1>1 DEF Request, Shape, InTx, Locked
<1> QED
  BY <1>3, <1>4

-----------------------------------------------------------------------------
(* Lemmas on version numbers *)

\* The version numbers of k are 1..n.
Numbered(k, n) ==
  /\ Numbers(k) = 1..n
  /\ signals[k] = Null <=> versions[k] = {}
  /\ \A v, w \in versions[k] : v.number = w.number => v = w

Contiguous == \A k \in Key : \E n \in Nat : Numbered(k, n)

LEMMA LatestIs ==
  ASSUME NEW k \in Key, NEW n \in Nat, Numbers(k) = 1..n
  PROVE  LatestNumber(k) = n
<1>1. CASE versions[k] = {}
  <2>1. Numbers(k) = {}
    BY <1>1 DEF Numbers
  <2>2. n = 0
    BY <2>1
  <2> QED
    BY <1>1, <2>2 DEF LatestNumber
<1>2. CASE versions[k] # {}
  <2>1. Numbers(k) # {}
    BY <1>2 DEF Numbers
  <2>2. n \in Numbers(k) /\ \A m \in Numbers(k) : m <= n
    BY <2>1
  <2>3. \A l \in Numbers(k) : (\A m \in Numbers(k) : m <= l) => l = n
    BY <2>2
  <2> QED
    BY <1>2, <2>2, <2>3 DEF LatestNumber
<1> QED
  BY <1>1, <1>2

LEMMA ContiguousIff ==
  Contiguous <=> VersionsContiguous /\ \A k \in Key : LatestNumber(k) \in Nat
<1>1. ASSUME Contiguous, NEW k \in Key
      PROVE  LatestNumber(k) \in Nat /\ Numbered(k, LatestNumber(k))
  <2>1. PICK n \in Nat : Numbered(k, n)
    BY <1>1 DEF Contiguous
  <2>2. LatestNumber(k) = n
    BY <2>1, LatestIs DEF Numbered
  <2> QED
    BY <2>1, <2>2
<1>2. ASSUME VersionsContiguous, NEW k \in Key, LatestNumber(k) \in Nat
      PROVE  Numbered(k, LatestNumber(k))
  BY <1>2 DEF VersionsContiguous, Numbered
<1> QED
  BY <1>1, <1>2 DEF Contiguous, VersionsContiguous, Numbered

-----------------------------------------------------------------------------
(* Steps of one request *)

\* What the invariant says of requests, locks and versions.
Core ==
  /\ req \in [Requests -> Request]
  /\ \A r \in Requests : Shape(req[r])
  /\ LocksHeld
  /\ Contiguous
  /\ NumberIsFresh

\* A request that holds no lock, before or after the step.
LEMMA Unlocked ==
  ASSUME Core, NEW r \in Requests, NEW q \in Request, Shape(q),
         req' = [req EXCEPT ![r] = q],
         req[r].pc \notin Locked, q.pc \notin Locked,
         UNCHANGED <<data, lock>>
  PROVE  Core'
<1>1. req' \in [Requests -> Request]
  BY DEF Core
<1>2. \A s \in Requests : req'[s] = IF s = r THEN q ELSE req[s]
  BY DEF Core
<1>3. \A s \in Requests : Shape(req'[s])
  BY <1>2 DEF Core
<1>4. LocksHeld'
  BY <1>2 DEF Core, LocksHeld, CurKey, Cur
<1>5. Contiguous'
  BY DEF Core, Contiguous, Numbered, Numbers, data
<1>6. NumberIsFresh'
  BY <1>2 DEF Core, NumberIsFresh, CurKey, Cur, LatestNumber, Numbers, data, Locked
<1> QED
  BY <1>1, <1>3, <1>4, <1>5, <1>6 DEF Core

\* Cancelling the context of a request.
LEMMA Expired ==
  ASSUME Core, NEW r \in Requests, req[r].pc # "idle",
         req' = [req EXCEPT ![r].expired = TRUE],
         UNCHANGED <<data, lock>>
  PROVE  Core'
<1> DEFINE q == [req[r] EXCEPT !.expired = TRUE]
<1>1. /\ q \in Request
      /\ q.pc = req[r].pc /\ q.sub = req[r].sub /\ q.inbox = req[r].inbox
      /\ q.todo = req[r].todo /\ q.row = req[r].row /\ q.number = req[r].number
  BY DEF Core, Request
<1>2. req' = [req EXCEPT ![r] = q]
  OBVIOUS
<1> HIDE DEF q
<1>3. \A s \in Requests : req'[s] = IF s = r THEN q ELSE req[s]
  BY <1>2 DEF Core
<1>4. req' \in [Requests -> Request]
  BY <1>1, <1>2 DEF Core
<1>5. \A s \in Requests : Shape(req'[s])
  BY <1>1, <1>3 DEF Core, Shape
<1>6. LocksHeld'
  BY <1>1, <1>3 DEF Core, LocksHeld, CurKey, Cur
<1>7. Contiguous'
  BY DEF Core, Contiguous, Numbered, Numbers, data
<1>8. /\ \A s \in Requests : CurKey(s)' = CurKey(s)
      /\ \A k : LatestNumber(k)' = LatestNumber(k)
  BY <1>1, <1>3 DEF CurKey, Cur, LatestNumber, Numbers, data
<1>9. NumberIsFresh'
  BY <1>1, <1>3, <1>8 DEF Core, NumberIsFresh
<1> QED
  BY <1>4, <1>5, <1>6, <1>7, <1>9 DEF Core

\* The end of a transaction that changes nothing.
LEMMA RolledBack ==
  ASSUME Core, NEW r \in Requests, NEW q \in Request, Shape(q),
         req' = [req EXCEPT ![r] = q], q.pc \notin Locked,
         Unlock(r), UNCHANGED data
  PROVE  Core'
<1>1. req' \in [Requests -> Request]
  BY DEF Core
<1>2. \A s \in Requests : req'[s] = IF s = r THEN q ELSE req[s]
  BY DEF Core
<1>3. \A s \in Requests : Shape(req'[s])
  BY <1>2 DEF Core
<1>4. LocksHeld'
  BY <1>2, NullAssumption DEF Core, LocksHeld, CurKey, Cur, Unlock
<1>5. Contiguous'
  BY DEF Core, Contiguous, Numbered, Numbers, data
<1>6. NumberIsFresh'
  BY <1>2 DEF Core, NumberIsFresh, CurKey, Cur, LatestNumber, Numbers, data, Locked
<1> QED
  BY <1>1, <1>3, <1>4, <1>5, <1>6 DEF Core

\* The upsert takes the lock of a row that nobody holds.
LEMMA LockTaken ==
  ASSUME Core, NEW r \in Requests, NEW q \in Request, Shape(q),
         req' = [req EXCEPT ![r] = q],
         req[r].pc \notin Locked, q.pc = "version",
         q.sub = req[r].sub, q.todo = req[r].todo, CurKey(r) \in Key,
         lock \in [Key -> Requests \union {Null}],
         RowFree(CurKey(r)),
         lock' = [lock EXCEPT ![CurKey(r)] = r],
         UNCHANGED data
  PROVE  Core'
<1>1. req' \in [Requests -> Request]
  BY DEF Core
<1>2. \A s \in Requests : req'[s] = IF s = r THEN q ELSE req[s]
  BY DEF Core
<1>3. \A s \in Requests : Shape(req'[s])
  BY <1>2 DEF Core
<1>4. LocksHeld'
  <2> SUFFICES ASSUME NEW s \in Requests, NEW k \in Key
               PROVE  lock'[k] = s <=> req'[s].pc \in Locked /\ k = CurKey(s)'
    BY DEF LocksHeld
  <2>1. CurKey(s)' = CurKey(s)
    BY <1>2 DEF CurKey, Cur
  <2>2. lock[CurKey(r)] # s
    BY NullAssumption DEF RowFree
  <2>3. lock[k] = s <=> req[s].pc \in Locked /\ k = CurKey(s)
    BY DEF Core, LocksHeld
  <2>4. lock'[k] = IF k = CurKey(r) THEN r ELSE lock[k]
    OBVIOUS
  <2>5. CASE s = r
    BY <2>1, <2>2, <2>3, <2>4, <2>5, <1>2 DEF Locked
  <2>6. CASE s # r
    BY <2>1, <2>2, <2>3, <2>4, <2>6, <1>2
  <2> QED
    BY <2>5, <2>6
<1>5. Contiguous'
  BY DEF Core, Contiguous, Numbered, Numbers, data
<1>6. NumberIsFresh'
  BY <1>2 DEF Core, NumberIsFresh, CurKey, Cur, LatestNumber, Numbers, data
<1> QED
  BY <1>1, <1>3, <1>4, <1>5, <1>6 DEF Core

\* The version gets its number.
LEMMA NumberTaken ==
  ASSUME Core, NEW r \in Requests, NEW q \in Request, Shape(q),
         req' = [req EXCEPT ![r] = q],
         req[r].pc = "version", q.pc = "commit",
         q.sub = req[r].sub, q.todo = req[r].todo,
         q.number = LatestNumber(CurKey(r)) + 1,
         UNCHANGED <<data, lock>>
  PROVE  Core'
<1>1. req' \in [Requests -> Request]
  BY DEF Core
<1>2. \A s \in Requests : req'[s] = IF s = r THEN q ELSE req[s]
  BY DEF Core
<1>3. \A s \in Requests : Shape(req'[s])
  BY <1>2 DEF Core
<1>4. \A s \in Requests : CurKey(s)' = CurKey(s)
  BY <1>2 DEF CurKey, Cur
<1>5. LocksHeld'
  BY <1>2, <1>4 DEF Core, LocksHeld, Locked
<1>6. Contiguous'
  BY DEF Core, Contiguous, Numbered, Numbers, data
<1>7. \A k : LatestNumber(k)' = LatestNumber(k)
  BY DEF LatestNumber, Numbers, data
<1>8. NumberIsFresh'
  BY <1>2, <1>4, <1>7 DEF Core, NumberIsFresh
<1> QED
  BY <1>1, <1>3, <1>5, <1>6, <1>8 DEF Core

\* COMMIT adds one version, whose number is fresh, to the row that is locked.
LEMMA Committed ==
  ASSUME Core, NEW r \in Requests, NEW q \in Request, Shape(q),
         req' = [req EXCEPT ![r] = q], q.pc = "load",
         req[r].pc = "commit", CurKey(r) \in Key,
         signals \in [Key -> Signal \union {Null}],
         versions \in [Key -> SUBSET Version],
         Apply(r), Unlock(r)
  PROVE  Core'
<1>a. PICK k0 \in Key : k0 = CurKey(r)
  OBVIOUS
<1>b. PICK v0 : v0 = [number |-> req[r].number, batch |-> req[r].sub.batch,
                      at |-> req[r].at]
  OBVIOUS
<1>1. req' \in [Requests -> Request]
  BY DEF Core
<1>2. \A s \in Requests : req'[s] = IF s = r THEN q ELSE req[s]
  BY DEF Core
<1>3. \A s \in Requests : Shape(req'[s])
  BY <1>2 DEF Core
<1>4. LocksHeld'
  BY <1>2, NullAssumption DEF Core, LocksHeld, CurKey, Cur, Unlock, Locked
<1>5. /\ \A k \in Key : versions'[k] = IF k = k0 THEN versions[k] \union {v0}
                                     ELSE versions[k]
      /\ \A k \in Key : signals'[k] = IF k = k0 THEN req[r].row ELSE signals[k]
  BY <1>a, <1>b DEF Apply
<1>6. req[r].row # Null
  BY NullAssumption DEF Core, Shape, Locked
<1>7. PICK n \in Nat : Numbered(k0, n)
  BY DEF Core, Contiguous
<1>8. v0.number = n + 1
  BY <1>7, <1>a, <1>b, LatestIs DEF Core, NumberIsFresh, Numbered
<1>9. Numbered(k0, n + 1)'
  <2>1. versions'[k0] = versions[k0] \union {v0}
    BY <1>5
  <2>2. Numbers(k0)' = Numbers(k0) \union {n + 1}
    BY <1>8, <2>1 DEF Numbers
  <2>3. Numbers(k0)' = 1..(n + 1)
    BY <1>7, <2>2 DEF Numbered
  <2>4. \A v \in versions[k0] : v.number # v0.number
    BY <1>7, <1>8 DEF Numbered, Numbers
  <2>5. \A v, w \in versions'[k0] : v.number = w.number => v = w
    BY <1>7, <2>1, <2>4 DEF Numbered
  <2>6. signals'[k0] # Null /\ versions'[k0] # {}
    BY <1>5, <1>6
  <2> QED
    BY <2>3, <2>5, <2>6 DEF Numbered
<1>10. Contiguous'
  <2> SUFFICES ASSUME NEW k \in Key, k # k0
               PROVE  \E m \in Nat : Numbered(k, m)'
    BY <1>9 DEF Contiguous
  <2>1. PICK m \in Nat : Numbered(k, m)
    BY DEF Core, Contiguous
  <2> QED
    BY <1>5, <2>1 DEF Numbered, Numbers
<1>11. NumberIsFresh'
  <2> SUFFICES ASSUME NEW s \in Requests, s # r, req[s].pc = "commit"
               PROVE  req[s].number = LatestNumber(CurKey(s))' + 1
    BY <1>2 DEF NumberIsFresh
  <2>1. CurKey(s)' = CurKey(s)
    BY <1>2 DEF CurKey, Cur
  <2>2. CurKey(s) # k0
    BY <1>a DEF Core, LocksHeld, Locked
  <2>3. versions'[CurKey(s)] = versions[CurKey(s)]
    BY <2>2, <1>a DEF Apply
  <2>4. LatestNumber(CurKey(s))' = LatestNumber(CurKey(s))
    BY <2>1, <2>3 DEF LatestNumber, Numbers
  <2> QED
    BY <2>4 DEF Core, NumberIsFresh
<1> QED
  BY <1>1, <1>3, <1>4, <1>10, <1>11 DEF Core

-----------------------------------------------------------------------------
(* The invariant, in the two parts that the steps treat apart *)

Tables ==
  /\ isns \in [Isns -> [inUse: BOOLEAN, updated: Nat]]
  /\ isnTypes \in [Isns -> [SignalTypes ->
       [state: {"absent", "disabled", "in_use"}, updated: Nat]]]
  /\ types \subseteq SignalTypes
  /\ signals \in [Key -> Signal \union {Null}]
  /\ versions \in [Key -> SUBSET Version]
  /\ batches \subseteq Accounts \X BatchRefs
  /\ failures \subseteq Failure
  /\ lock \in [Key -> Requests \union {Null}]
  /\ clock \in Nat
  /\ wd \in [Withdrawals -> WithdrawalState]
  /\ del \in [SignalTypes -> {"idle", "checked", "done"}]
  /\ faults \in 0..MaxFaults
  /\ changes \in 0..MaxChanges

LEMMA IInvIff == IInv <=> Tables /\ Core
BY ContiguousIff DEF IInv, TypeOK, Tables, Core

LEMMA InitInv == Init => IInv
<1> SUFFICES ASSUME Init PROVE Tables /\ Core
  BY IInvIff
<1>1. Tables
  BY InputAssumption, NullAssumption DEF Init, Tables, WithdrawalState
<1>2. req \in [Requests -> Request]
  BY DEF Init, NewRequest, Request, InTx, Finished
<1>3. \A r \in Requests : req[r].pc = "idle"
  BY DEF Init, NewRequest
<1>4. \A r \in Requests : Shape(req[r])
  BY <1>3 DEF Shape, InTx, Locked
<1>5. LocksHeld
  BY <1>3, NullAssumption DEF Init, LocksHeld, Locked
<1>6. Contiguous
  BY DEF Init, Contiguous, Numbered, Numbers
<1>7. NumberIsFresh
  BY <1>3 DEF NumberIsFresh
<1> QED
  BY <1>1, <1>2, <1>4, <1>5, <1>6, <1>7 DEF Core

-----------------------------------------------------------------------------
(* Every step preserves the invariant *)

LEMMA SubmitStep ==
  ASSUME Tables, Core, NEW r \in Requests, Submit(r)
  PROVE  Tables' /\ Core'
<1>1. PICK s \in Submissions :
        req' = [req EXCEPT ![r].pc = "batch", ![r].sub = s,
                           ![r].seen = <<s.account, s.batch>> \in batches]
  BY DEF Submit
<1>2. PICK b \in BOOLEAN : b <=> <<s.account, s.batch>> \in batches
  <2>1. CASE <<s.account, s.batch>> \in batches
    <3> WITNESS TRUE \in BOOLEAN
    <3> QED
      BY <2>1
  <2>2. CASE <<s.account, s.batch>> \notin batches
    <3> WITNESS FALSE \in BOOLEAN
    <3> QED
      BY <2>2
  <2> QED
    BY <2>1, <2>2
<1>3. req' = [req EXCEPT ![r].pc = "batch", ![r].sub = s, ![r].seen = b]
  BY <1>1, <1>2, Zenon
<1> DEFINE q == [req[r] EXCEPT !.pc = "batch", !.sub = s, !.seen = b]
<1>4. req[r] \in Request
  BY DEF Core
<1>5. q \in Request /\ Shape(q) /\ q.pc \notin Locked
  BY <1>4 DEF Request, Shape, InTx, Locked
<1>6. req' = [req EXCEPT ![r] = q]
  BY <1>3
<1>7. req[r].pc \notin Locked /\ UNCHANGED <<data, lock>>
  BY DEF Submit, Locked
<1>8. Core'
  <2> HIDE DEF q
  <2> QED
    BY <1>5, <1>6, <1>7, Unlocked
<1>9. Tables'
  BY DEF Submit, Tables, config, data
<1> QED
  BY <1>8, <1>9

\* A signal that is rejected, or dropped, outside a lock.
LEMMA RejectStep ==
  ASSUME Core, NEW r \in Requests, req[r].pc \in {"load"} \union InTx,
         req[r].pc \notin Locked, req[r].todo # <<>>,
         \/ req' = [req EXCEPT ![r] = Rejected(req[r])]
         \/ req' = [req EXCEPT ![r] = Dropped(req[r])],
         UNCHANGED <<data, lock>>
  PROVE  Core'
<1>1. req[r] \in Request /\ req[r].sub \in Submissions
  BY DEF Core, Shape, InTx
<1>2. PICK q : (q = Rejected(req[r]) \/ q = Dropped(req[r]))
               /\ req' = [req EXCEPT ![r] = q]
  OBVIOUS
<1>3. q \in Request /\ q.pc = "load" /\ q.sub = req[r].sub
  BY <1>1, <1>2, DroppedType
<1>4. Shape(q) /\ q.pc \notin Locked
  BY <1>1, <1>3 DEF Shape, InTx, Locked
<1> QED
  BY <1>2, <1>3, <1>4, Unlocked

\* A signal that is rejected inside a lock, which is released.
LEMMA RollbackStep ==
  ASSUME Core, NEW r \in Requests, req[r].pc \in Locked,
         req' = [req EXCEPT ![r] = Rejected(req[r])],
         Unlock(r), UNCHANGED data
  PROVE  Core'
<1>1. req[r] \in Request /\ req[r].sub \in Submissions /\ req[r].todo # <<>>
  BY DEF Core, Shape, InTx, Locked
<1>2. PICK q : q = Rejected(req[r])
  OBVIOUS
<1>3. q \in Request /\ q.pc = "load" /\ q.sub = req[r].sub
  BY <1>1, <1>2, DroppedType
<1>4. Shape(q) /\ q.pc \notin Locked
  BY <1>1, <1>3 DEF Shape, InTx, Locked
<1> QED
  BY <1>2, <1>3, <1>4, RolledBack

LEMMA FaultsType ==
  ASSUME Tables, NEW r \in Requests, Works(r) \/ Fails(r) \/ UNCHANGED faults
  PROVE  faults' \in 0..MaxFaults
BY InputAssumption DEF Tables, Works, Fails

\* The tables after a step of a request.
LEMMA RequestTables ==
  ASSUME Tables, UNCHANGED <<config, data, wd>>,
         batches' \subseteq Accounts \X BatchRefs,
         failures' \subseteq Failure,
         lock' \in [Key -> Requests \union {Null}],
         clock' \in Nat, faults' \in 0..MaxFaults
  PROVE  Tables'
BY DEF Tables, config, data

LEMMA UnlockType ==
  ASSUME Tables, NEW r \in Requests, Unlock(r)
  PROVE  lock' \in [Key -> Requests \union {Null}]
BY DEF Tables, Unlock

\* Only pc changes, and the request holds no lock.
LEMMA MoveStep ==
  ASSUME Core, NEW r \in Requests,
         NEW p \in {"correlate", "ids", "upsert", "error", "done", "lost"},
         NEW t \in Nat,
         req' = [req EXCEPT ![r].pc = p, ![r].at = t]
           \/ req' = [req EXCEPT ![r].pc = p],
         req[r].pc \notin Locked, req[r].pc # "idle",
         p \in InTx => req[r].todo # <<>>,
         UNCHANGED <<data, lock>>
  PROVE  Core'
<1>1. req[r] \in Request /\ req[r].sub \in Submissions
  BY DEF Core, Shape
<1>2. PICK q : /\ q = [req[r] EXCEPT !.pc = p, !.at = t]
                    \/ q = [req[r] EXCEPT !.pc = p]
               /\ req' = [req EXCEPT ![r] = q]
  OBVIOUS
<1>3. /\ q \in Request /\ q.pc = p
      /\ q.sub = req[r].sub /\ q.todo = req[r].todo
  BY <1>1, <1>2 DEF Request, InTx, Finished
<1>4. Shape(q) /\ q.pc \notin Locked
  BY <1>1, <1>3 DEF Shape, Locked
<1> QED
  BY <1>2, <1>3, <1>4, Unlocked

LEMMA OpenBatchStep ==
  ASSUME Tables, Core, NEW r \in Requests, OpenBatch(r)
  PROVE  Tables' /\ Core'
<1>1. /\ req[r].pc = "batch" /\ req[r].pc \notin Locked /\ req[r].pc # "idle"
      /\ UNCHANGED <<data, lock>>
  BY DEF OpenBatch, Locked
<1>2. req[r] \in Request /\ req[r].sub \in Submissions
  BY <1>1 DEF Core, Shape
<1>3. BatchOf(r) \in Accounts \X BatchRefs
  BY <1>2, ItemTypes DEF BatchOf
<1>4. Tables'
  <2>1. Works(r) \/ Fails(r)
    BY DEF OpenBatch
  <2>2. faults' \in 0..MaxFaults
    BY <2>1, FaultsType
  <2>3. batches' \subseteq Accounts \X BatchRefs
    BY <1>3 DEF OpenBatch, Tables
  <2> QED
    BY <2>2, <2>3, RequestTables DEF OpenBatch, Tables
<1>5. CASE req' = [req EXCEPT ![r] = Accepted(req[r])]
  <2>1. PICK q : q = Accepted(req[r])
    OBVIOUS
  <2>2. req[r].sub.items \in Seq(Item) /\ req[r].sub.items # <<>>
    BY <1>2, ItemTypes
  <2>3. q \in Request /\ Shape(q) /\ q.pc \notin Locked
    BY <1>2, <2>1, <2>2 DEF Accepted, Request, Shape, InTx, Locked
  <2> QED
    BY <1>1, <1>4, <1>5, <2>1, <2>3, Unlocked
<1>6. CASE req' = [req EXCEPT ![r].pc = "error"]
  BY <1>1, <1>4, <1>6, MoveStep DEF InTx
<1> QED
  BY <1>5, <1>6 DEF OpenBatch

LEMMA ResolveStep ==
  ASSUME Tables, Core, NEW r \in Requests,
         Validate(r) \/ ResolveByCorrelation(r) \/ ResolveByRules(r)
  PROVE  Tables' /\ Core'
<1>1. /\ req[r].pc = "resolve" /\ req[r].pc \notin Locked /\ req[r].pc # "idle"
      /\ UNCHANGED <<data, lock>>
  BY DEF Validate, ResolveByCorrelation, ResolveByRules, Locked
<1>2. /\ req[r] \in Request /\ req[r].sub \in Submissions
      /\ req[r].inbox # <<>>
  BY <1>1 DEF Core, Shape
<1>3. Tables'
  <2>1. Works(r) \/ Fails(r) \/ UNCHANGED faults
    BY DEF Validate, ResolveByCorrelation, ResolveByRules
  <2>2. faults' \in 0..MaxFaults
    BY <2>1, FaultsType
  <2> QED
    BY <2>2, RequestTables
    DEF Validate, ResolveByCorrelation, ResolveByRules, Tables
<1>4. CASE Validate(r)
  <2>1. PICK q : q = Validated(req[r])
    OBVIOUS
  <2>2. q \in Request /\ Shape(q)
    BY <1>2, <1>4, <2>1, ValidatedType DEF Validate
  <2>3. q.pc \notin Locked
    BY <1>2, <2>1, TakenType DEF Validated, Request, Locked
  <2> QED
    BY <1>1, <1>3, <1>4, <2>1, <2>2, <2>3, Unlocked DEF Validate
<1>5. ASSUME NEW i \in Isns \union {Null},
             req' = [req EXCEPT ![r] = Routed(req[r], i)]
      PROVE  Core'
  <2>1. PICK q : q = Routed(req[r], i)
    OBVIOUS
  <2>2. q \in Request /\ Shape(q)
    BY <1>2, <2>1, RoutedType
  <2>3. q.pc \notin Locked
    BY <1>2, <2>1, TakenType DEF Routed, Request, Locked
  <2> QED
    BY <1>1, <1>5, <2>1, <2>2, <2>3, Unlocked
<1>6. CASE ResolveByCorrelation(r)
  <2>1. CASE req' = [req EXCEPT ![r] = Routed(req[r], IsnOf(Head(req[r].inbox).corr))]
    <3>1. Head(req[r].inbox) \in Item
      BY <1>2 DEF Request
    <3>2. Head(req[r].inbox).corr \in Key
      BY <1>6, <3>1 DEF Item, ResolveByCorrelation
    <3>3. IsnOf(Head(req[r].inbox).corr) \in Isns \union {Null}
      BY <3>2 DEF IsnOf, Tables, Signal
    <3> QED
      BY <1>3, <1>5, <2>1, <3>3
  <2>2. CASE req' = [req EXCEPT ![r].pc = "error"]
    BY <1>1, <1>3, <2>2, MoveStep DEF InTx
  <2> QED
    BY <1>6, <2>1, <2>2 DEF ResolveByCorrelation
<1>7. CASE ResolveByRules(r)
  <2>1. PICK i \in RouteTargets : req' = [req EXCEPT ![r] = Routed(req[r], i)]
    BY <1>7 DEF ResolveByRules
  <2> QED
    BY <1>3, <1>5, <2>1, InputAssumption
<1> QED
  BY <1>4, <1>6, <1>7

\* The steps before the row is locked.
LEMMA EarlyStep ==
  ASSUME Tables, Core, NEW r \in Requests,
         RejectUnauthorised(r) \/ BeginTx(r) \/ CheckCorrelation(r) \/ ReadIds(r)
  PROVE  Tables' /\ Core'
<1>1. /\ req[r].pc \in {"load", "correlate", "ids"}
      /\ UNCHANGED <<config, data, batches, failures, lock, wd>>
      /\ UNCHANGED clock \/ clock' = clock + 1
      /\ Works(r) \/ Fails(r) \/ UNCHANGED faults
  BY DEF RejectUnauthorised, BeginTx, CheckCorrelation, ReadIds, MasterFails
<1>2. /\ req[r].pc \notin Locked /\ req[r].pc # "idle"
      /\ req[r].pc \in {"load"} \union InTx
      /\ req[r].todo # <<>>
  BY <1>1 DEF Core, Shape, InTx, Locked, RejectUnauthorised, BeginTx,
              CheckCorrelation, ReadIds
<1>3. Tables'
  <2>1. faults' \in 0..MaxFaults
    BY <1>1, FaultsType
  <2> QED
    BY <1>1, <2>1, RequestTables DEF Tables
<1>4. ASSUME \/ req' = [req EXCEPT ![r] = Rejected(req[r])]
             \/ req' = [req EXCEPT ![r] = Dropped(req[r])]
      PROVE  Core'
  BY <1>1, <1>2, <1>4, RejectStep
<1>5. ASSUME NEW p \in {"correlate", "ids", "upsert"}, NEW t \in Nat,
             req' = [req EXCEPT ![r].pc = p, ![r].at = t]
               \/ req' = [req EXCEPT ![r].pc = p]
      PROVE  Core'
  BY <1>1, <1>2, <1>5, MoveStep
<1>6. CASE RejectUnauthorised(r)
  BY <1>3, <1>4, <1>6 DEF RejectUnauthorised
<1>7. CASE BeginTx(r)
  <2>1. CASE req' = [req EXCEPT ![r].pc = FirstStatement(req[r]), ![r].at = clock + 1]
    <3>1. FirstStatement(req[r]) \in {"correlate", "ids", "upsert"}
      BY DEF FirstStatement
    <3>2. clock + 1 \in Nat
      BY DEF Tables
    <3> QED
      BY <1>3, <1>5, <2>1, <3>1, <3>2
  <2>2. CASE req' = [req EXCEPT ![r] = Rejected(req[r])]
    BY <1>3, <1>4, <2>2
  <2> QED
    BY <1>7, <2>1, <2>2 DEF BeginTx
<1>8. CASE CheckCorrelation(r)
  <2>1. CASE req' = [req EXCEPT ![r].pc = "ids"]
    BY <1>3, <1>5, <2>1
  <2>2. CASE req' = [req EXCEPT ![r] = Rejected(req[r])]
    BY <1>3, <1>4, <2>2
  <2> QED
    BY <1>8, <2>1, <2>2 DEF CheckCorrelation
<1>9. CASE ReadIds(r)
  <2>1. CASE req' = [req EXCEPT ![r].pc = "upsert"]
    BY <1>3, <1>5, <2>1
  <2>2. CASE \/ req' = [req EXCEPT ![r] = Rejected(req[r])]
             \/ req' = [req EXCEPT ![r] = Dropped(req[r])]
    BY <1>3, <1>4, <2>2
  <2> QED
    BY <1>9, <2>1, <2>2 DEF ReadIds, MasterFails
<1> QED
  BY <1>6, <1>7, <1>8, <1>9

LEMMA UpsertedType ==
  ASSUME Tables, NEW k \in Key, NEW s \in Resolved
  PROVE  Upserted(k, s) \in Signal
<1>1. s.isn \in Isns /\ s.corr \in Key \union {Null}
  BY DEF Resolved
<1>2. CASE signals[k] = Null
  BY <1>1, <1>2 DEF Upserted, Signal
<1>3. CASE signals[k] # Null
  <2>1. signals[k] \in Signal
    BY <1>3 DEF Tables
  <2> QED
    BY <1>1, <1>3, <2>1 DEF Upserted, Signal
<1> QED
  BY <1>2, <1>3

LEMMA UpsertStep ==
  ASSUME Tables, Core, NEW r \in Requests, Upsert(r)
  PROVE  Tables' /\ Core'
<1>1. /\ req[r].pc = "upsert" /\ req[r].pc \notin Locked
      /\ req[r].pc \in {"load"} \union InTx
      /\ req[r] \in Request /\ req[r].sub \in Submissions
      /\ req[r].todo # <<>>
  BY DEF Upsert, Core, Shape, InTx, Locked
<1>2. /\ UNCHANGED <<config, data, batches, failures, clock, wd>>
      /\ Works(r) \/ Fails(r)
  BY DEF Upsert, MasterFails
<1>3. faults' \in 0..MaxFaults
  BY <1>2, FaultsType
<1>4. Cur(r) \in Resolved
  BY <1>1 DEF Request, Cur
<1>5. CurKey(r) \in Key
  BY <1>1, <1>4, KeyType DEF CurKey, Resolved
<1>6. CASE /\ RowFree(CurKey(r))
           /\ lock' = [lock EXCEPT ![CurKey(r)] = r]
           /\ req' = [req EXCEPT ![r].pc = "version",
                                 ![r].row = Upserted(CurKey(r), Cur(r))]
  <2>1. lock' \in [Key -> Requests \union {Null}]
    BY <1>5, <1>6 DEF Tables
  <2>2. Tables'
    BY <1>2, <1>3, <2>1, RequestTables DEF Tables
  <2>3. PICK s \in Signal : s = Upserted(CurKey(r), Cur(r))
    BY <1>4, <1>5, UpsertedType
  <2>4. PICK q : q = [req[r] EXCEPT !.pc = "version", !.row = s]
    OBVIOUS
  <2>5. /\ q \in Request /\ q.pc = "version" /\ q.row = s
        /\ q.sub = req[r].sub /\ q.todo = req[r].todo
    BY <1>1, <2>4 DEF Request, InTx
  <2>6. Shape(q)
    BY <1>1, <2>5 DEF Shape
  <2>7. req' = [req EXCEPT ![r] = q]
    BY <1>6, <2>3, <2>4
  <2>8. Core'
    BY <1>1, <1>2, <1>5, <1>6, <2>5, <2>6, <2>7, LockTaken DEF Tables
  <2> QED
    BY <2>2, <2>8
<1>7. CASE /\ UNCHANGED lock
           /\ \/ req' = [req EXCEPT ![r] = Rejected(req[r])]
              \/ req' = [req EXCEPT ![r] = Dropped(req[r])]
  <2>1. Tables'
    BY <1>2, <1>3, <1>7, RequestTables DEF Tables
  <2>2. Core'
    BY <1>1, <1>2, <1>7, RejectStep
  <2> QED
    BY <2>1, <2>2
<1> QED
  BY <1>6, <1>7 DEF Upsert, MasterFails

LEMMA InsertVersionStep ==
  ASSUME Tables, Core, NEW r \in Requests, InsertVersion(r)
  PROVE  Tables' /\ Core'
<1>1. /\ req[r].pc = "version" /\ req[r].pc \in Locked
      /\ req[r] \in Request /\ req[r].sub \in Submissions
      /\ req[r].todo # <<>> /\ req[r].row \in Signal
  BY DEF InsertVersion, Core, Shape, InTx, Locked
<1>2. /\ UNCHANGED <<config, data, batches, failures, clock, wd>>
      /\ Works(r) \/ Fails(r)
  BY DEF InsertVersion
<1>3. faults' \in 0..MaxFaults
  BY <1>2, FaultsType
<1>4. CASE /\ UNCHANGED lock
           /\ req' = [req EXCEPT ![r].pc = "commit",
                                 ![r].number = NextNumber(CurKey(r))]
  <2>1. Tables'
    BY <1>2, <1>3, <1>4, RequestTables DEF Tables
  <2>2. Cur(r) \in Resolved
    BY <1>1 DEF Request, Cur
  <2>3. CurKey(r) \in Key
    BY <1>1, <2>2, KeyType DEF CurKey, Resolved
  <2>4. LatestNumber(CurKey(r)) \in Nat
    BY <2>3, ContiguousIff DEF Core
  <2>5. PICK n \in Nat : n = LatestNumber(CurKey(r)) + 1
    BY <2>4
  <2>6. PICK q : q = [req[r] EXCEPT !.pc = "commit", !.number = n]
    OBVIOUS
  <2>7. /\ q \in Request /\ q.pc = "commit" /\ q.number = n /\ q.row = req[r].row
        /\ q.sub = req[r].sub /\ q.todo = req[r].todo
    BY <1>1, <2>6 DEF Request, InTx
  <2>8. Shape(q)
    BY <1>1, <2>7 DEF Shape
  <2>9. req' = [req EXCEPT ![r] = q]
    BY <1>4, <2>5, <2>6 DEF NextNumber
  <2>10. Core'
    BY <1>1, <1>2, <1>4, <2>5, <2>7, <2>8, <2>9, NumberTaken
  <2> QED
    BY <2>1, <2>10
<1>5. CASE Unlock(r) /\ req' = [req EXCEPT ![r] = Rejected(req[r])]
  <2>1. Tables'
    BY <1>2, <1>3, <1>5, UnlockType, RequestTables DEF Tables
  <2>2. Core'
    BY <1>1, <1>2, <1>5, RollbackStep
  <2> QED
    BY <2>1, <2>2
<1> QED
  BY <1>4, <1>5 DEF InsertVersion

LEMMA CommitStep ==
  ASSUME Tables, Core, NEW r \in Requests, Commit(r)
  PROVE  Tables' /\ Core'
<1>1. /\ req[r].pc = "commit" /\ req[r].pc \in Locked
      /\ req[r] \in Request /\ req[r].sub \in Submissions
      /\ req[r].todo # <<>> /\ req[r].row \in Signal
  BY DEF Commit, Core, Shape, InTx, Locked
<1>2. /\ UNCHANGED <<config, batches, failures, clock, wd>>
      /\ Works(r) \/ Fails(r)
      /\ Apply(r) \/ UNCHANGED data
      /\ Unlock(r)
  BY DEF Commit
<1>3. Cur(r) \in Resolved
  BY <1>1 DEF Request, Cur
<1>4. CurKey(r) \in Key
  BY <1>1, <1>3, KeyType DEF CurKey, Resolved
<1>5. /\ signals' \in [Key -> Signal \union {Null}]
      /\ versions' \in [Key -> SUBSET Version]
  <2>1. [number |-> req[r].number, batch |-> req[r].sub.batch, at |-> req[r].at]
          \in Version
    BY <1>1, ItemTypes DEF Request, Version
  <2> QED
    <3>1. CASE UNCHANGED data
      BY <3>1 DEF Tables, data
    <3>2. CASE Apply(r)
      <4>1. signals' \in [Key -> Signal \union {Null}]
        BY <1>1, <3>2 DEF Apply, Tables
      <4>2. PICK v \in Version : v = [number |-> req[r].number,
              batch |-> req[r].sub.batch, at |-> req[r].at]
        BY <2>1
      <4>3. versions' = [versions EXCEPT ![CurKey(r)] = @ \union {v}]
        BY <3>2, <4>2 DEF Apply
      <4>4. versions' \in [Key -> SUBSET Version]
        BY <4>3 DEF Tables
      <4> QED
        BY <4>1, <4>4
    <3> QED
      BY <1>2, <3>1, <3>2
<1>6. Tables'
  <2>1. faults' \in 0..MaxFaults
    BY <1>2, FaultsType
  <2> QED
    BY <1>2, <1>5, <2>1, UnlockType DEF Tables, config
<1>7. PICK q : /\ q = Rejected(req[r]) \/ q = Confirmed(req[r])
               /\ req' = [req EXCEPT ![r] = q]
  BY DEF Commit
<1>8. q \in Request /\ q.pc = "load" /\ q.sub = req[r].sub
  <2>1. CASE q = Rejected(req[r])
    BY <1>1, <2>1, DroppedType
  <2>2. CASE q = Confirmed(req[r])
    <3>1. PICK d : d = Dropped(req[r])
      OBVIOUS
    <3>2. d \in Request /\ d.pc = "load" /\ d.sub = req[r].sub
      BY <1>1, <3>1, DroppedType
    <3>3. StoredOf(req[r]) \in Stored
      BY <1>1, <1>3 DEF StoredOf, Stored, Resolved, Request, Cur
    <3>4. Append(d.stored, StoredOf(req[r])) \in Seq(Stored)
      BY <3>2, <3>3 DEF Request
    <3>5. q = [d EXCEPT !.stored = Append(d.stored, StoredOf(req[r]))]
      BY <2>2, <3>1 DEF Confirmed
    <3> QED
      BY <3>2, <3>4, <3>5 DEF Request
  <2> QED
    BY <1>7, <2>1, <2>2
<1>9. Shape(q) /\ q.pc \notin Locked
  BY <1>1, <1>8 DEF Shape, InTx, Locked
<1>10. CASE Apply(r)
  <2>1. Core'
    BY <1>1, <1>2, <1>4, <1>7, <1>8, <1>9, <1>10, Committed DEF Tables
  <2> QED
    BY <1>6, <2>1
<1>11. CASE UNCHANGED data
  <2>1. Core'
    BY <1>2, <1>7, <1>8, <1>9, <1>11, RolledBack
  <2> QED
    BY <1>6, <2>1
<1> QED
  BY <1>2, <1>10, <1>11

LEMMA AnswerStep ==
  ASSUME Tables, Core, NEW r \in Requests,
         FinishLoad(r) \/ LogFailure(r) \/ Respond(r)
  PROVE  Tables' /\ Core'
<1>1. /\ req[r].pc \in {"load", "log"}
      /\ UNCHANGED <<config, data, batches, lock, wd>>
  BY DEF FinishLoad, LogFailure, Respond
<1>2. /\ req[r].pc # "idle" /\ req[r].pc \notin Locked
      /\ UNCHANGED <<data, lock>>
  BY <1>1 DEF Locked
<1>3. req[r] \in Request /\ req[r].sub \in Submissions
  BY <1>2 DEF Core, Shape
<1>4. CASE FinishLoad(r)
  <2>1. PICK q : q = [req[r] EXCEPT !.pc = "log", !.unlogged = Unlogged(req[r])]
    OBVIOUS
  <2>2. Unlogged(req[r]) \in Seq(LocalRefs)
    BY <1>3 DEF Unlogged, Request
  <2>3. q \in Request /\ Shape(q) /\ q.pc \notin Locked
    BY <1>3, <2>1, <2>2 DEF Request, Shape, InTx, Locked
  <2>4. req' = [req EXCEPT ![r] = q]
    BY <1>4, <2>1 DEF FinishLoad
  <2>5. Core'
    BY <1>2, <2>3, <2>4, Unlocked
  <2> QED
    BY <1>4, <2>5, RequestTables DEF FinishLoad, Tables
<1>5. CASE LogFailure(r)
  <2>1. PICK q : q = [req[r] EXCEPT !.unlogged = Tail(@)]
    OBVIOUS
  <2>2. /\ req[r].unlogged \in Seq(LocalRefs) /\ req[r].unlogged # <<>>
        /\ req[r].pc = "log"
    BY <1>3, <1>5 DEF Request, LogFailure
  <2>3. Tail(req[r].unlogged) \in Seq(LocalRefs) /\ Head(req[r].unlogged) \in LocalRefs
    BY <2>2
  <2>4. q \in Request /\ Shape(q) /\ q.pc \notin Locked
    BY <1>3, <2>1, <2>2, <2>3 DEF Request, Shape, InTx, Locked
  <2>5. req' = [req EXCEPT ![r] = q]
    BY <1>5, <2>1 DEF LogFailure, Logged
  <2>6. Core'
    BY <1>2, <2>4, <2>5, Unlocked
  <2>7. clock' \in Nat /\ failures' \subseteq Failure
    <3>1. clock \in Nat /\ clock + 1 \in Nat
      BY DEF Tables
    <3>2. [account |-> req[r].sub.account, batch |-> req[r].sub.batch,
           type |-> req[r].sub.type, ref |-> Head(req[r].unlogged),
           at |-> clock + 1] \in Failure
      BY <1>3, <2>3, <3>1, ItemTypes DEF Failure
    <3> QED
      BY <1>5, <3>1, <3>2 DEF LogFailure, Tables
  <2>8. faults' \in 0..MaxFaults
    BY <1>5, FaultsType DEF LogFailure
  <2>9. Tables'
    BY <1>1, <2>7, <2>8, RequestTables DEF Tables
  <2> QED
    BY <2>6, <2>9
<1>6. CASE Respond(r)
  <2>1. Core'
    BY <1>2, <1>6, MoveStep DEF Respond, InTx
  <2> QED
    BY <1>6, <2>1, RequestTables DEF Respond, Tables
<1> QED
  BY <1>4, <1>5, <1>6

LEMMA FaultStep ==
  ASSUME Tables, Core, NEW r \in Requests, Expire(r) \/ Crash(r)
  PROVE  Tables' /\ Core'
<1>1. /\ UNCHANGED <<config, data, batches, failures, clock, wd>>
      /\ faults < MaxFaults /\ faults' = faults + 1
      /\ req[r].pc # "idle"
      /\ UNCHANGED lock \/ Unlock(r)
  BY DEF Expire, Crash
<1>2. faults' \in 0..MaxFaults
  BY <1>1, InputAssumption DEF Tables
<1>3. Tables'
  BY <1>1, <1>2, UnlockType, RequestTables DEF Tables
<1>4. CASE Expire(r)
  BY <1>1, <1>3, <1>4, Expired DEF Expire
<1>5. CASE Crash(r)
  <2>1. PICK q : q = [req[r] EXCEPT !.pc = "lost"]
    OBVIOUS
  <2>2. req[r] \in Request /\ req[r].sub \in Submissions
    BY <1>1 DEF Core, Shape
  <2>3. q \in Request /\ Shape(q) /\ q.pc \notin Locked
    BY <2>1, <2>2 DEF Request, Shape, InTx, Locked, Finished
  <2>4. req' = [req EXCEPT ![r] = q]
    BY <1>5, <2>1 DEF Crash
  <2>5. Core'
    BY <1>1, <1>5, <2>3, <2>4, RolledBack DEF Crash
  <2> QED
    BY <1>3, <2>5
<1> QED
  BY <1>4, <1>5

\* Steps that leave requests, locks and signals alone.
LEMMA CoreUnchanged ==
  ASSUME Core, UNCHANGED <<req, lock, versions>>,
         \A k \in Key : signals'[k] = Null <=> signals[k] = Null
  PROVE  Core'
<1>1. /\ \A r : CurKey(r)' = CurKey(r)
      /\ \A k : LatestNumber(k)' = LatestNumber(k)
  BY DEF CurKey, Cur, LatestNumber, Numbers
<1>2. LocksHeld' /\ NumberIsFresh'
  BY <1>1 DEF Core, LocksHeld, NumberIsFresh
<1>3. Contiguous'
  BY DEF Core, Contiguous, Numbered, Numbers
<1>4. \A r \in Requests : Shape(req'[r])
  BY DEF Core
<1> QED
  BY <1>2, <1>3, <1>4 DEF Core

LEMMA WithdrawKeyType ==
  ASSUME NEW c \in Withdraws
  PROVE  KeyOf(c, c.ref) \in Key
BY InputAssumption DEF KeyOf, Key, Withdrawal

LEMMA WithdrawStep ==
  ASSUME Tables, Core, NEW w \in Withdrawals,
         WithdrawRead(w) \/ WithdrawProgress(w) \/ WithdrawFails(w)
  PROVE  Tables' /\ Core'
<1>1. UNCHANGED <<config, versions, batches, failures, lock, clock, req>>
  BY DEF WithdrawRead, WithdrawProgress, WithdrawIds, WithdrawUpdate,
         WithdrawFails, data
<1>2. wd[w] \in WithdrawalState
  BY DEF Tables
<1>3. CASE WithdrawRead(w)
  <2>1. UNCHANGED <<signals, faults>>
    BY <1>3 DEF WithdrawRead, data
  <2>2. PICK c \in Withdraws, p \in {"404", "409", "check"} :
          wd' = [wd EXCEPT ![w] = [call |-> c, pc |-> p]]
    BY <1>3 DEF WithdrawRead
  <2>3. wd' \in [Withdrawals -> WithdrawalState]
    BY <2>2 DEF Tables, WithdrawalState, Answered
  <2>4. Tables'
    BY <1>1, <2>1, <2>3 DEF Tables, config
  <2> QED
    BY <1>1, <2>1, <2>4, CoreUnchanged
<1>4. CASE WithdrawIds(w)
  <2>1. UNCHANGED <<signals, faults>>
    BY <1>4 DEF WithdrawIds, data
  <2>2. PICK p \in {"update", "404"} : wd' = [wd EXCEPT ![w].pc = p]
    BY <1>4 DEF WithdrawIds
  <2>3. wd' \in [Withdrawals -> WithdrawalState]
    BY <1>2, <2>2 DEF Tables, WithdrawalState, Answered
  <2>4. Tables'
    BY <1>1, <2>1, <2>3 DEF Tables, config
  <2> QED
    BY <1>1, <2>1, <2>4, CoreUnchanged
<1>5. CASE WithdrawUpdate(w)
  <2>1. PICK p \in {"204", "404"} : wd' = [wd EXCEPT ![w].pc = p]
    BY <1>5 DEF WithdrawUpdate
  <2>2. wd' \in [Withdrawals -> WithdrawalState]
    BY <1>2, <2>1 DEF Tables, WithdrawalState, Answered
  <2>3. PICK k : /\ signals' = [signals EXCEPT ![k].withdrawn = TRUE]
                    \/ UNCHANGED signals
                 /\ signals[k] # Null \/ UNCHANGED signals
    BY <1>5 DEF WithdrawUpdate, WithdrawMatches
  <2>4. /\ signals' \in [Key -> Signal \union {Null}]
        /\ \A j \in Key : signals'[j] = Null <=> signals[j] = Null
    <3>1. CASE UNCHANGED signals
      BY <3>1 DEF Tables
    <3>2. CASE k \notin Key /\ signals' = [signals EXCEPT ![k].withdrawn = TRUE]
      BY <3>2 DEF Tables
    <3>3. CASE /\ k \in Key /\ signals[k] # Null
               /\ signals' = [signals EXCEPT ![k].withdrawn = TRUE]
      <4>1. signals[k] \in Signal
        BY <3>3 DEF Tables
      <4>2. [signals[k] EXCEPT !.withdrawn = TRUE] \in Signal
        BY <4>1 DEF Signal
      <4>3. PICK s \in Signal : s = [signals[k] EXCEPT !.withdrawn = TRUE]
        BY <4>2
      <4>4. signals' = [signals EXCEPT ![k] = s]
        BY <3>3, <4>3
      <4> QED
        BY <3>3, <4>4, NullAssumption DEF Tables
    <3> QED
      BY <2>3, <3>1, <3>2, <3>3
  <2>5. UNCHANGED faults
    BY <1>5 DEF WithdrawUpdate
  <2>6. Tables'
    BY <1>1, <2>2, <2>4, <2>5 DEF Tables, config
  <2> QED
    BY <1>1, <2>4, <2>6, CoreUnchanged
<1>6. CASE WithdrawFails(w)
  <2>1. wd' \in [Withdrawals -> WithdrawalState]
    BY <1>2, <1>6 DEF WithdrawFails, Tables, WithdrawalState, Answered
  <2>2. faults' \in 0..MaxFaults
    BY <1>6, InputAssumption DEF WithdrawFails, Tables
  <2>3. UNCHANGED signals
    BY <1>6 DEF WithdrawFails, data
  <2>4. Tables'
    BY <1>1, <2>1, <2>2, <2>3 DEF Tables, config
  <2> QED
    BY <1>1, <2>3, <2>4, CoreUnchanged
<1> QED
  BY <1>3, <1>4, <1>5, <1>6 DEF WithdrawProgress

\* Deleting a type waits for the rows it cascades to, so the request that is
\* about to commit a number does not lose the versions before it.
LEMMA DeleteTypeStep ==
  ASSUME Tables, Core, NEW t \in SignalTypes, DeleteType(t)
  PROVE  Tables' /\ Core'
<1>1. UNCHANGED <<isns, changes, batches, failures, lock, clock, req, wd, faults>>
  BY DEF DeleteType
<1>2. isnTypes' \in [Isns -> [SignalTypes ->
         [state: {"absent", "disabled", "in_use"}, updated: Nat]]]
  <2> DEFINE Row == [state: {"absent", "disabled", "in_use"}, updated: Nat]
  <2>1. ASSUME NEW i \in Isns
        PROVE  [isnTypes[i] EXCEPT ![t].state = "absent"] \in [SignalTypes -> Row]
    <3>1. isnTypes[i] \in [SignalTypes -> Row]
      BY DEF Tables
    <3>2. PICK x \in Row : x = [isnTypes[i][t] EXCEPT !.state = "absent"]
      BY <3>1
    <3> HIDE DEF Row
    <3>3. [isnTypes[i] EXCEPT ![t] = x] \in [SignalTypes -> Row]
      BY <3>1
    <3> QED
      BY <3>2, <3>3
  <2> QED
    BY <2>1 DEF DeleteType
<1>3. /\ signals' \in [Key -> Signal \union {Null}]
      /\ versions' \in [Key -> SUBSET Version]
      /\ types' \subseteq SignalTypes
      /\ del' \in [SignalTypes -> {"idle", "checked", "done"}]
  BY DEF DeleteType, Tables
<1>4. Tables'
  BY <1>1, <1>2, <1>3 DEF Tables
<1>5. \A k \in Key : IF k.type = t THEN signals'[k] = Null /\ versions'[k] = {}
                    ELSE signals'[k] = signals[k] /\ versions'[k] = versions[k]
  BY DEF DeleteType
<1>6. Contiguous'
  <2> SUFFICES ASSUME NEW k \in Key
               PROVE  \E n \in Nat : Numbered(k, n)'
    BY DEF Contiguous
  <2>1. CASE k.type = t
    <3>1. Numbered(k, 0)'
      BY <1>5, <2>1 DEF Numbered, Numbers
    <3> QED
      BY <3>1
  <2>2. CASE k.type # t
    BY <1>5, <2>2 DEF Core, Contiguous, Numbered, Numbers
  <2> QED
    BY <2>1, <2>2
<1>7. NumberIsFresh'
  <2> SUFFICES ASSUME NEW r \in Requests, req[r].pc = "commit"
               PROVE  req[r].number = LatestNumber(CurKey(r))' + 1
    BY <1>1 DEF NumberIsFresh
  <2>1. req[r].todo \in Seq(Resolved) /\ req[r].todo # <<>>
        /\ req[r].sub \in Submissions
    BY DEF Core, Shape, InTx, Request
  <2>2. Cur(r) \in Resolved
    BY <2>1 DEF Cur
  <2>3. PICK k \in Key : k = CurKey(r)
    BY <2>1, <2>2, KeyType DEF CurKey, Resolved
  <2>4. lock[k] = r
    BY <2>3 DEF Core, LocksHeld, Locked
  <2>5. k.type # t
    BY <2>4, NullAssumption DEF DeleteType, RowFree
  <2>6. versions'[k] = versions[k]
    BY <1>5, <2>5
  <2>7. CurKey(r)' = k
    BY <1>1, <2>3 DEF CurKey, Cur
  <2>8. LatestNumber(k)' = LatestNumber(k)
    BY <2>6 DEF LatestNumber, Numbers
  <2> QED
    BY <2>3, <2>7, <2>8 DEF Core, NumberIsFresh
<1>8. LocksHeld'
  BY <1>1 DEF Core, LocksHeld, CurKey, Cur
<1>9. Core'
  BY <1>1, <1>6, <1>7, <1>8 DEF Core
<1> QED
  BY <1>4, <1>9

LEMMA ConfigureStep ==
  ASSUME Tables, Core, Configure
  PROVE  Tables' /\ Core'
<1>1. ASSUME NEW t \in SignalTypes, DeleteType(t)
      PROVE  Tables' /\ Core'
  BY <1>1, DeleteTypeStep
<1>2. ASSUME Change
      PROVE  changes' \in 0..MaxChanges
  BY <1>2, InputAssumption DEF Change, Tables
<1>3. clock + 1 \in Nat
  BY DEF Tables
<1>4. ASSUME NEW i \in Isns, ToggleIsn(i)
      PROVE  Tables' /\ Core'
  <2>1. isns' \in [Isns -> [inUse: BOOLEAN, updated: Nat]]
    BY <1>3, <1>4 DEF ToggleIsn, Tables
  <2>2. Tables'
    BY <1>2, <1>3, <1>4, <2>1 DEF ToggleIsn, Tables, data
  <2>3. UNCHANGED <<req, lock, versions, signals>>
    BY <1>4 DEF ToggleIsn, data
  <2> QED
    BY <2>2, <2>3, CoreUnchanged
<1>5. ASSUME NEW i \in Isns, NEW t \in SignalTypes,
             ToggleIsnType(i, t) \/ AddTypeToIsn(i, t)
      PROVE  Tables' /\ Core'
  <2>1. PICK s \in {"disabled", "in_use"} :
          isnTypes' = [isnTypes EXCEPT ![i][t] = [state |-> s, updated |-> clock + 1]]
    BY <1>5 DEF ToggleIsnType, AddTypeToIsn
  <2>2. isnTypes' \in [Isns -> [SignalTypes ->
           [state: {"absent", "disabled", "in_use"}, updated: Nat]]]
    BY <1>3, <2>1 DEF Tables
  <2>3. Tables'
    BY <1>2, <1>3, <1>5, <2>2 DEF ToggleIsnType, AddTypeToIsn, Tables, data
  <2>4. UNCHANGED <<req, lock, versions, signals>>
    BY <1>5 DEF ToggleIsnType, AddTypeToIsn, data
  <2> QED
    BY <2>3, <2>4, CoreUnchanged
<1>6. ASSUME NEW t \in SignalTypes, CheckTypeUnused(t)
      PROVE  Tables' /\ Core'
  <2>1. del' \in [SignalTypes -> {"idle", "checked", "done"}]
    BY <1>6 DEF CheckTypeUnused, Tables
  <2>2. Tables'
    BY <1>2, <1>6, <2>1 DEF CheckTypeUnused, Tables, data
  <2>3. UNCHANGED <<req, lock, versions, signals>>
    BY <1>6 DEF CheckTypeUnused, data
  <2> QED
    BY <2>2, <2>3, CoreUnchanged
<1> QED
  BY <1>1, <1>4, <1>5, <1>6 DEF Configure

LEMMA StepInv == IInv /\ [Next]_vars => IInv'
<1> SUFFICES ASSUME Tables, Core, [Next]_vars
             PROVE  Tables' /\ Core'
  <2>1. IInv' <=> (Tables /\ Core)'
    BY IInvIff, PTL
  <2> QED
    BY <2>1, IInvIff
<1>1. ASSUME NEW r \in Requests, Submit(r) \/ Progress(r) \/ Expire(r) \/ Crash(r)
      PROVE  Tables' /\ Core'
  BY <1>1, SubmitStep, OpenBatchStep, ResolveStep, EarlyStep, UpsertStep,
     InsertVersionStep, CommitStep, AnswerStep, FaultStep DEF Progress
<1>2. ASSUME NEW w \in Withdrawals,
             WithdrawRead(w) \/ WithdrawProgress(w) \/ WithdrawFails(w)
      PROVE  Tables' /\ Core'
  BY <1>2, WithdrawStep
<1>3. CASE Configure
  BY <1>3, ConfigureStep
<1>4. CASE UNCHANGED vars
  <2>1. Tables'
    BY <1>4 DEF vars, Tables
  <2>2. UNCHANGED <<req, lock, versions, signals>>
    BY <1>4 DEF vars
  <2> QED
    BY <2>1, <2>2, CoreUnchanged
<1>5. CASE AllAnswered
  BY <1>4, <1>5 DEF AllAnswered
<1> QED
  BY <1>1, <1>2, <1>3, <1>4, <1>5 DEF Next

-----------------------------------------------------------------------------
(* The theorems *)

\* Every variable keeps its type, and a request in a transaction has the
\* signal it works on.
THEOREM TypeCorrect == Spec => []TypeOK
<1>1. IInv => TypeOK
  BY DEF IInv
<1> QED
  BY <1>1, InitInv, StepInv, PTL DEF Spec

\* However requests fail, expire or crash, exactly the transactions that have
\* written a row hold its lock.
THEOREM LocksAreHeld == Spec => []LocksHeld
<1>1. IInv => LocksHeld
  BY DEF IInv
<1> QED
  BY <1>1, InitInv, StepInv, PTL DEF Spec

\* The version that a transaction is about to commit is the next one.
THEOREM NumbersAreFresh == Spec => []NumberIsFresh
<1>1. IInv => NumberIsFresh
  BY DEF IInv
<1> QED
  BY <1>1, InitInv, StepInv, PTL DEF Spec

\* The versions of every signal are numbered 1, 2, 3, ...
THEOREM NumbersAreContiguous == Spec => []VersionsContiguous
<1>1. IInv => VersionsContiguous
  BY DEF IInv
<1> QED
  BY <1>1, InitInv, StepInv, PTL DEF Spec
=============================================================================
