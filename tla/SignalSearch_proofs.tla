------------------------- MODULE SignalSearch_proofs -------------------------
(***************************************************************************)
(* For every number of requests, searches and reports: what a batch report *)
(* and the answer of a search say, while loads, withdrawals, deletions and *)
(* configuration changes run between their queries.                        *)
(***************************************************************************)
EXTENDS SignalSearch, SignalLoadAnswers_proofs

-----------------------------------------------------------------------------
(* The inductive invariant *)

ReportState ==
  [pc: {"idle", "next", "loaded", "failed", "done"},
   todo: SUBSET (Accounts \X BatchRefs),
   account: Accounts \union {Null}, batch: BatchRefs \union {Null},
   start: Nat, known: [Key -> Nat], stored: SUBSET Key, failed: SUBSET Key]

FoundRow == [key: Key, isn: Isns, corr: Key, number: Nat]
SearchState ==
  [pc: {"idle", "refused", "find", "correlate", "previous", "done", "error"},
   ask: Searches \union {Null},
   found: SUBSET FoundRow, correlated: SUBSET FoundRow,
   previous: SUBSET [key: Key, number: Nat],
   start: Nat, known: [Key -> Nat], hidden: SUBSET Key]

ReadTypes == report \in ReportState /\ search \in SearchState

\* Reads begin in the past, and the latest version of a signal has not gone
\* back since, unless its type was deleted.
NotBefore(start, known) ==
  /\ start <= clock
  /\ \A k \in Key : k.type \in types => known[k] <= LatestNumber(k)
Begins ==
  /\ NotBefore(report.start, report.known)
  /\ NotBefore(search.start, search.known)
  /\ report.pc = "idle" => report.stored = {} /\ report.failed = {}
  /\ report.pc = "loaded" => report.failed = {}
  /\ search.pc \in {"idle", "refused", "find"} => search.found = {} /\ search.correlated = {}
  /\ search.pc = "correlate" => search.correlated = {}

\* A signal that a search must not show is still not to be shown, unless a
\* load or an administrator brought it back since the search began.
BroughtBack(k) ==
  \/ LatestNumber(k) > search.known[k]
  \/ isns[signals[k].isn].updated > search.start
  \/ isnTypes[signals[k].isn][k.type].updated > search.start
StillHidden ==
  search.pc \in {"find", "correlate"} =>
    \A k \in search.hidden : k \in Hidden(search.ask) \/ BroughtBack(k)

\* The rows found are not ahead of the table.
FoundBehind ==
  \A row \in search.found :
    row.key.type \in types => row.number <= LatestNumber(row.key)

RInv ==
  /\ ReadTypes /\ Begins /\ StillHidden /\ FoundBehind
  /\ StoredHasNoOldFailure /\ ListedOnce
  /\ NothingHiddenIsShown /\ HistoryHasNoGaps

-----------------------------------------------------------------------------
(* What a step of the writers does to one signal *)

\* A step leaves the versions of k, or adds the next one, or the type of k is
\* deleted.
SignalStep(k) ==
  \/ /\ versions'[k] = versions[k] /\ LatestNumber(k)' = LatestNumber(k)
     /\ \/ signals'[k] = signals[k]
        \/ /\ signals[k] # Null
           /\ signals'[k] = [signals[k] EXCEPT !.withdrawn = TRUE]
  \/ /\ LatestNumber(k)' = LatestNumber(k) + 1
     /\ \E v : /\ v.number = LatestNumber(k) + 1
               /\ versions'[k] = versions[k] \union {v}
  \/ k.type \notin types' /\ signals'[k] = Null /\ versions'[k] = {}

LEMMA SameVersions ==
  ASSUME NEW k, versions'[k] = versions[k]
  PROVE  LatestNumber(k)' = LatestNumber(k)
BY DEF LatestNumber, Numbers

LEMMA SignalSteps ==
  ASSUME Tables, Core, AInv, [Next]_vars, NEW k \in Key
  PROVE  SignalStep(k) /\ types' \subseteq types
<1>1. CASE UNCHANGED <<data, types>>
  BY <1>1 DEF SignalStep, data, LatestNumber, Numbers
<1>2. ASSUME NEW r \in Requests, Commit(r), Apply(r)
      PROVE  SignalStep(k) /\ types' \subseteq types
  <2>1. /\ CurKey(r) \in Key /\ req[r].pc = "commit" /\ UNCHANGED types
        /\ versions'[CurKey(r)] = versions[CurKey(r)] \union {Added(r)}
        /\ \A j \in Key : j # CurKey(r)
             => signals'[j] = signals[j] /\ versions'[j] = versions[j]
    BY <1>2, Applied
  <2>2. CASE k # CurKey(r)
    BY <2>1, <2>2, SameVersions DEF SignalStep
  <2>3. CASE k = CurKey(r)
    <3>1. PICK n \in Nat : Numbered(k, n)
      BY DEF Core, Contiguous
    <3>2. LatestNumber(k) = n /\ req[r].number = n + 1
      BY <2>1, <2>3, <3>1, LatestIs DEF Core, NumberIsFresh, Numbered
    <3>3. Numbers(k)' = 1..(n + 1)
      <4>1. Numbers(k)' = Numbers(k) \union {n + 1}
        <5>1. Added(r).number = n + 1
          BY <3>2 DEF Added
        <5> QED
          BY <2>1, <2>3, <5>1 DEF Numbers
      <4> QED
        BY <3>1, <4>1 DEF Numbered
    <3>4. LatestNumber(k)' = n + 1
      <4>1. LatestsAreLast'
        BY LatestAlways, PTL
      <4> QED
        BY <3>3, <4>1 DEF LatestsAreLast
    <3>5. PICK v : v = Added(r)
      OBVIOUS
    <3>6. v.number = n + 1
      BY <3>2, <3>5 DEF Added
    <3> QED
      BY <2>1, <2>3, <3>2, <3>4, <3>5, <3>6 DEF SignalStep
  <2> QED
    BY <2>2, <2>3
<1>3. ASSUME NEW w \in Withdrawals, WithdrawUpdate(w)
      PROVE  SignalStep(k) /\ types' \subseteq types
  <2>1. UNCHANGED <<versions, types>>
    BY <1>3 DEF WithdrawUpdate, config
  <2>2. LatestNumber(k)' = LatestNumber(k)
    BY <2>1 DEF LatestNumber, Numbers
  <2>3. \/ signals'[k] = signals[k]
        \/ /\ signals[k] # Null
           /\ signals'[k] = [signals[k] EXCEPT !.withdrawn = TRUE]
    BY <1>3 DEF WithdrawUpdate, WithdrawMatches, Tables
  <2> QED
    BY <2>1, <2>2, <2>3 DEF SignalStep
<1>4. ASSUME NEW t \in SignalTypes, DeleteType(t)
      PROVE  SignalStep(k) /\ types' \subseteq types
  <2>1. CASE k.type = t
    BY <1>4, <2>1, Deletes DEF SignalStep
  <2>2. CASE k.type # t
    BY <1>4, <2>2, Deletes, SameVersions DEF SignalStep
  <2> QED
    BY <1>4, <2>1, <2>2, Deletes
<1> QED
  BY <1>1, <1>2, <1>3, <1>4, DataFrame

LEMMA LatestInNat ==
  ASSUME Core, NEW k \in Key
  PROVE  /\ LatestNumber(k) \in Nat
         /\ Numbers(k) = 1..LatestNumber(k)
         /\ signals[k] = Null <=> versions[k] = {}
BY ContiguousIff DEF Core, VersionsContiguous

\* An ISN, and a type on it, is left as it is or stamped with the time; or the
\* type is deleted.
LEMMA ConfigStamped ==
  ASSUME Tables, [Next]_vars, NEW i \in Isns, NEW t \in SignalTypes
  PROVE  /\ isns'[i] = isns[i] \/ isns'[i].updated = clock + 1
         /\ \/ isnTypes'[i][t] = isnTypes[i][t]
            \/ isnTypes'[i][t].updated = clock + 1
            \/ t \notin types' /\ isnTypes'[i][t].updated = isnTypes[i][t].updated
<1>1. ASSUME NEW j \in Isns, ToggleIsn(j)
      PROVE  /\ isns'[i] = isns[i] \/ isns'[i].updated = clock + 1
             /\ isnTypes'[i][t] = isnTypes[i][t]
  BY <1>1 DEF ToggleIsn, Tables
<1>2. ASSUME NEW j \in Isns, NEW u \in SignalTypes,
             ToggleIsnType(j, u) \/ AddTypeToIsn(j, u)
      PROVE  /\ isns'[i] = isns[i]
             /\ isnTypes'[i][t] = isnTypes[i][t] \/ isnTypes'[i][t].updated = clock + 1
  <2>1. isns'[i] = isns[i]
    BY <1>2 DEF ToggleIsnType, AddTypeToIsn
  <2>2. PICK st : isnTypes' = [isnTypes EXCEPT ![j][u] =
                      [state |-> st, updated |-> clock + 1]]
    BY <1>2 DEF ToggleIsnType, AddTypeToIsn
  <2>3. isnTypes \in [Isns -> [SignalTypes ->
          [state: {"absent", "disabled", "in_use"}, updated: Nat]]]
    BY DEF Tables
  <2> QED
    BY <2>1, <2>2, <2>3
<1>3. ASSUME NEW u \in SignalTypes, DeleteType(u)
      PROVE  /\ isns'[i] = isns[i]
             /\ \/ isnTypes'[i][t] = isnTypes[i][t]
                \/ t \notin types' /\ isnTypes'[i][t].updated = isnTypes[i][t].updated
  BY <1>3 DEF DeleteType, Tables
<1>4. CASE UNCHANGED <<isns, isnTypes>>
  BY <1>4
<1> QED
  BY <1>1, <1>2, <1>3, <1>4, ConfigFrame

-----------------------------------------------------------------------------
(* Steps of the writers *)

LEMMA NotBeforeStays ==
  ASSUME Tables, Core, AInv, [Next]_vars,
         NEW start \in Nat, NEW known \in [Key -> Nat], NotBefore(start, known)
  PROVE  NotBefore(start, known)'
<1>1. start <= clock'
  BY ClockFrame DEF ClockStep, NotBefore, Tables
<1>2. ASSUME NEW k \in Key, k.type \in types'
      PROVE  known[k] <= LatestNumber(k)'
  <2>1. known[k] <= LatestNumber(k) /\ LatestNumber(k) \in Nat /\ known[k] \in Nat
    BY <1>2, SignalSteps, LatestInNat DEF NotBefore
  <2>2. LatestNumber(k)' \in {LatestNumber(k), LatestNumber(k) + 1}
    <3>1. SignalStep(k)
      BY SignalSteps
    <3> QED
      BY <1>2, <3>1 DEF SignalStep
  <2> QED
    BY <2>1, <2>2
<1> QED
  BY <1>1, <1>2 DEF NotBefore

\* The failures of a batch only grow, with later ones.
LEMMA FailuresGrow ==
  ASSUME [Next]_vars, NEW k, NEW b
  PROVE  /\ FailuresOf(k, b) \subseteq FailuresOf(k, b)'
         /\ \A f \in FailuresOf(k, b)' \ FailuresOf(k, b) : f.at = clock + 1
BY ClockFrame DEF ClockStep, FailuresOf

LEMMA StoredReportStays ==
  ASSUME Tables, Core, AInv, ReadTypes, Begins, StoredHasNoOldFailure, [Next]_vars,
         UNCHANGED <<report, search>>
  PROVE  StoredHasNoOldFailure'
<1> SUFFICES ASSUME NEW k \in report.stored, k.type \in types',
                    NEW f \in FailuresOf(k, report.batch)', f.at <= report.start
             PROVE  \E v \in versions'[k] : v.at > f.at
  BY DEF StoredHasNoOldFailure, FailuresOf
<1>1. k \in Key /\ report.start \in Nat /\ report.start <= clock /\ clock \in Nat
  BY DEF ReadTypes, ReportState, Begins, NotBefore, Tables
<1>2. f \in FailuresOf(k, report.batch)
  BY <1>1, FailuresGrow
<1>3. SignalStep(k) /\ types' \subseteq types
  BY <1>1, SignalSteps
<1>4. PICK v \in versions[k] : v.at > f.at
  BY <1>2, <1>3 DEF StoredHasNoOldFailure
<1> QED
  BY <1>3, <1>4 DEF SignalStep

LEMMA FailedReportStays ==
  ASSUME Tables, Core, AInv, ReadTypes, Begins, ListedOnce, [Next]_vars,
         UNCHANGED <<report, search>>
  PROVE  ListedOnce'
<1> SUFFICES ASSUME NEW k \in report.stored \intersect report.failed, k.type \in types'
             PROVE  \E f \in FailuresOf(k, report.batch)' : f.at > report.start
  BY DEF ListedOnce, FailuresOf
<1>1. k \in Key
  BY DEF ReadTypes, ReportState
<1>2. k.type \in types
  BY <1>1, SignalSteps
<1> QED
  BY <1>2, FailuresGrow DEF ListedOnce

LEMMA HiddenStays ==
  ASSUME Tables, Core, AInv, AInv', ReadTypes, Begins, [Next]_vars, UNCHANGED search,
         NEW k \in Key, k \in Hidden(search.ask) \/ BroughtBack(k)
  PROVE  k \in Hidden(search.ask)' \/ BroughtBack(k)'
<1>1. /\ search.known[k] \in Nat /\ search.start \in Nat /\ clock \in Nat
      /\ search.start <= clock
      /\ k.type \in types => search.known[k] <= LatestNumber(k)
      /\ k.type \in SignalTypes
  BY DEF ReadTypes, SearchState, Begins, NotBefore, Tables, Key
<1>2. SignalStep(k)
  BY SignalSteps
<1>3. /\ LatestNumber(k) \in Nat
      /\ signals[k] = Null <=> versions[k] = {}
  BY LatestInNat
<1>4. /\ k.type \notin types => versions[k] = {}
      /\ k.type \notin types' => versions'[k] = {}
  BY DEF AInv, Deleted
<1>5. CASE signals'[k] = Null
  BY <1>5 DEF Hidden
<1>6. CASE LatestNumber(k)' = LatestNumber(k) + 1 /\ versions'[k] # {}
  <2>1. types' \subseteq types
    BY SignalSteps
  <2>2. k.type \in types
    BY <1>4, <1>6, <2>1
  <2>3. LatestNumber(k)' > search.known[k]
    BY <1>1, <1>3, <1>6, <2>2
  <2> QED
    BY <2>3 DEF BroughtBack
<1>7. CASE /\ signals'[k] # Null
           /\ versions'[k] = versions[k] /\ LatestNumber(k)' = LatestNumber(k)
           /\ \/ signals'[k] = signals[k]
              \/ /\ signals[k] # Null
                 /\ signals'[k] = [signals[k] EXCEPT !.withdrawn = TRUE]
  <2>1. signals[k] # Null /\ signals[k] \in Signal
    BY <1>7 DEF Tables
  <2>2. PICK i \in Isns : i = signals[k].isn
    BY <2>1 DEF Signal
  <2>3. signals'[k].isn = i /\ (signals[k].withdrawn => signals'[k].withdrawn)
    BY <1>7, <2>1, <2>2 DEF Signal
  <2>4. k.type \in types'
    BY <1>3, <1>4, <1>7, <2>1
  <2>5. /\ isns'[i] = isns[i] \/ isns'[i].updated = clock + 1
        /\ \/ isnTypes'[i][k.type] = isnTypes[i][k.type]
           \/ isnTypes'[i][k.type].updated = clock + 1
    BY <1>1, <2>4, ConfigStamped
  <2>6. CASE isns'[i].updated = clock + 1 \/ isnTypes'[i][k.type].updated = clock + 1
    <3>1. clock + 1 > search.start
      BY <1>1
    <3> QED
      BY <2>3, <2>6, <3>1 DEF BroughtBack
  <2>7. CASE isns'[i] = isns[i] /\ isnTypes'[i][k.type] = isnTypes[i][k.type]
    <3>1. CASE BroughtBack(k)
      BY <1>7, <2>2, <2>3, <2>7, <3>1 DEF BroughtBack
    <3>2. CASE k \in Hidden(search.ask)
      <4>1. \/ signals[k].withdrawn /\ ~search.ask.withdrawn
            \/ ~isns[i].inUse
            \/ isnTypes[i][k.type].state # "in_use"
        BY <2>1, <2>2, <3>2 DEF Hidden
      <4> QED
        BY <2>3, <2>7, <4>1 DEF Hidden
    <3> QED
      BY <3>1, <3>2
  <2> QED
    BY <2>5, <2>6, <2>7
<1>8. versions[k] \union versions'[k] # {} \/ versions'[k] = {}
  OBVIOUS
<1>9. ASSUME NEW v, versions'[k] = versions[k] \union {v}
      PROVE  versions'[k] # {}
  BY <1>9
<1> QED
  BY <1>2, <1>5, <1>6, <1>7, <1>9 DEF SignalStep

LEMMA FoundStays ==
  ASSUME Tables, Core, AInv, ReadTypes, FoundBehind, [Next]_vars, UNCHANGED search
  PROVE  FoundBehind'
<1> SUFFICES ASSUME NEW row \in search.found, row.key.type \in types'
             PROVE  row.number <= LatestNumber(row.key)'
  BY DEF FoundBehind
<1>1. PICK k \in Key : k = row.key
  BY DEF ReadTypes, SearchState, FoundRow
<1>2. row.number \in Nat
  BY DEF ReadTypes, SearchState, FoundRow
<1>3. SignalStep(k) /\ types' \subseteq types
  BY SignalSteps
<1>4. row.number <= LatestNumber(k) /\ LatestNumber(k) \in Nat
  BY <1>1, <1>3, LatestInNat DEF FoundBehind
<1>5. LatestNumber(k)' \in {LatestNumber(k), LatestNumber(k) + 1}
  BY <1>1, <1>3 DEF SignalStep
<1>6. row.number <= LatestNumber(k)'
  BY <1>2, <1>4, <1>5
<1> QED
  BY <1>1, <1>6

LEMMA ShownStays ==
  ASSUME Tables, ReadTypes, Begins, NothingHiddenIsShown, [Next]_vars, UNCHANGED search
  PROVE  NothingHiddenIsShown'
<1> SUFFICES ASSUME NEW row \in Answer, row.key \in search.hidden
             PROVE  \/ row.number > search.known[row.key]
                    \/ isns'[row.isn].updated > search.start
                    \/ isnTypes'[row.isn][row.key.type].updated > search.start
  BY DEF NothingHiddenIsShown, Answer
<1>1. row \in FoundRow
  BY DEF Answer, ReadTypes, SearchState
<1>2. row.isn \in Isns /\ row.key.type \in SignalTypes
  BY <1>1 DEF FoundRow, Key
<1>3. /\ isns'[row.isn].updated \in {isns[row.isn].updated, clock + 1}
      /\ isnTypes'[row.isn][row.key.type].updated
           \in {isnTypes[row.isn][row.key.type].updated, clock + 1}
  BY <1>2, ConfigStamped
<1>4. clock + 1 > search.start
  BY DEF ReadTypes, SearchState, Begins, NotBefore, Tables
<1>5. \/ row.number > search.known[row.key]
      \/ isns[row.isn].updated > search.start
      \/ isnTypes[row.isn][row.key.type].updated > search.start
  BY DEF NothingHiddenIsShown, Answer
<1> QED
  BY <1>3, <1>4, <1>5

\* Every step of a request, a withdrawal or an administrator.
LEMMA WriterStep ==
  ASSUME Tables, Core, AInv, AInv', RInv, [Next]_vars, UNCHANGED <<report, search>>
  PROVE  RInv'
<1>1. ReadTypes'
  BY DEF RInv, ReadTypes
<1>2. Begins'
  <2>1. NotBefore(report.start, report.known)' /\ NotBefore(search.start, search.known)'
    <3>1. /\ report.start \in Nat /\ report.known \in [Key -> Nat]
          /\ search.start \in Nat /\ search.known \in [Key -> Nat]
          /\ NotBefore(report.start, report.known) /\ NotBefore(search.start, search.known)
      BY DEF RInv, ReadTypes, ReportState, SearchState, Begins
    <3>2. PICK a, b : a = report.start /\ b = report.known
      OBVIOUS
    <3>3. PICK c, d : c = search.start /\ d = search.known
      OBVIOUS
    <3>4. NotBefore(a, b)' /\ NotBefore(c, d)'
      BY <3>1, <3>2, <3>3, NotBeforeStays
    <3> QED
      BY <3>2, <3>3, <3>4 DEF NotBefore
  <2> QED
    BY <2>1 DEF RInv, Begins
<1>3. StillHidden'
  <2> SUFFICES ASSUME search.pc \in {"find", "correlate"}, NEW k \in search.hidden
               PROVE  k \in Hidden(search.ask)' \/ BroughtBack(k)'
    BY DEF StillHidden, Hidden
  <2>1. k \in Key
    BY DEF RInv, ReadTypes, SearchState
  <2> QED
    BY <2>1, HiddenStays DEF RInv, StillHidden
<1>4. FoundBehind'
  BY FoundStays DEF RInv
<1>5. StoredHasNoOldFailure' /\ ListedOnce'
  BY StoredReportStays, FailedReportStays DEF RInv
<1>6. NothingHiddenIsShown'
  BY ShownStays DEF RInv
<1>7. HistoryHasNoGaps'
  <2>1. types' \subseteq types
    BY DataFrame, Applied, Deletes DEF WithdrawUpdate, config
  <2> QED
    BY <2>1 DEF RInv, HistoryHasNoGaps
<1> QED
  BY <1>1, <1>2, <1>3, <1>4, <1>5, <1>6, <1>7 DEF RInv

-----------------------------------------------------------------------------
(* Steps of a batch report *)

\* A report begins: nothing is in it, and it begins now.
LEMMA ReportBegins ==
  ASSUME Tables, Core, RInv, report.pc = "idle",
         NEW found \in SUBSET batches, Reporting(found), UNCHANGED vars
  PROVE  /\ report' \in ReportState /\ NotBefore(report.start, report.known)'
         /\ report'.pc # "idle" /\ report'.stored = {} /\ report'.failed = {}
<1>1. report \in ReportState /\ report.stored = {} /\ report.failed = {}
  BY DEF RInv, ReadTypes, Begins
<1>2. \A k \in Key : LatestNumber(k) \in Nat
  BY LatestInNat
<1>3. PICK known : known = [k \in Key |-> LatestNumber(k)]
  OBVIOUS
<1>4. known \in [Key -> Nat] /\ clock \in Nat /\ found \subseteq Accounts \X BatchRefs
  BY <1>2, <1>3 DEF Tables
<1>5. PICK pc : pc = IF found = {} THEN "done" ELSE "next"
  OBVIOUS
<1>6. report' = [report EXCEPT !.pc = pc, !.todo = found, !.start = clock, !.known = known]
  BY <1>3, <1>5 DEF Reporting
<1>7. report' \in ReportState
  BY <1>1, <1>4, <1>5, <1>6 DEF ReportState
<1>8. /\ report'.start = clock /\ report'.known = known /\ report'.pc = pc
      /\ report'.stored = {} /\ report'.failed = {}
  BY <1>1, <1>6 DEF ReportState
<1>9. \A k \in Key : known[k] <= LatestNumber(k)'
  <2>1. \A k \in Key : LatestNumber(k)' = LatestNumber(k)
    BY DEF vars, LatestNumber, Numbers
  <2> QED
    BY <1>2, <1>3, <2>1
<1> QED
  BY <1>4, <1>5, <1>7, <1>8, <1>9 DEF NotBefore, vars

\* The signals counted as stored have no failure without a later version.
LEMMA CountStep ==
  ASSUME Tables, Core, AInv, RInv, CountLoaded, UNCHANGED vars
  PROVE  /\ report' \in ReportState
         /\ StoredHasNoOldFailure' /\ ListedOnce'
         /\ report'.pc # "idle" /\ (report'.pc = "loaded" => report'.failed = {})
         /\ NotBefore(report.start, report.known)'
<1>1. PICK a, b : a = report.account /\ b = report.batch
  OBVIOUS
<1>2. report \in ReportState /\ report.pc = "loaded"
      /\ report' = [report EXCEPT !.pc = "failed", !.stored = Loaded(a, b)]
      /\ Loaded(a, b) \subseteq Key
  BY <1>1 DEF RInv, ReadTypes, CountLoaded, Loaded
<1>3. /\ report' \in ReportState /\ report'.pc = "failed" /\ report'.stored = Loaded(a, b)
      /\ report'.batch = b /\ report'.failed = report.failed
      /\ report'.start = report.start /\ report'.known = report.known
  BY <1>1, <1>2 DEF ReportState
<1>4. StoredHasNoOldFailure'
  <2> SUFFICES ASSUME NEW k \in Loaded(a, b), NEW f \in FailuresOf(k, b)
               PROVE  \E v \in versions[k] : v.at > f.at
    BY <1>3 DEF StoredHasNoOldFailure, FailuresOf, vars
  <2>1. PICK v \in versions[k] : f.at <= v.at
    BY DEF Loaded, Latest
  <2>2. k \in Key /\ f \in failures
    BY DEF Loaded, FailuresOf
  <2>3. f.at # v.at
    BY <2>1, <2>2 DEF AInv, Clocks
  <2>4. f.at \in Nat /\ v.at \in Nat
    BY <2>1, <2>2 DEF Tables, Failure, Version
  <2> QED
    BY <2>1, <2>3, <2>4
<1>5. ListedOnce'
  BY <1>2, <1>3 DEF RInv, Begins, ListedOnce
<1>6. NotBefore(report.start, report.known)'
  BY <1>3 DEF RInv, Begins, NotBefore, LatestNumber, Numbers, vars
<1> QED
  BY <1>3, <1>4, <1>5, <1>6

LEMMA ListStepOfReport ==
  ASSUME Tables, Core, AInv, RInv, ListFailed, UNCHANGED vars
  PROVE  /\ report' \in ReportState
         /\ StoredHasNoOldFailure' /\ ListedOnce'
         /\ report'.pc # "idle" /\ (report'.pc = "loaded" => report'.failed = {})
         /\ NotBefore(report.start, report.known)'
<1>1. PICK a, b, pc : /\ a = report.account /\ b = report.batch
                      /\ pc = IF report.todo = {} THEN "done" ELSE "next"
  OBVIOUS
<1>2. report \in ReportState
      /\ report' = [report EXCEPT !.pc = pc, !.failed = Unresolved(a, b)]
      /\ Unresolved(a, b) \subseteq Key
  BY <1>1 DEF RInv, ReadTypes, ListFailed, Unresolved
<1>3. /\ report' \in ReportState /\ report'.pc = pc /\ report'.failed = Unresolved(a, b)
      /\ report'.batch = b /\ report'.stored = report.stored
      /\ report'.start = report.start /\ report'.known = report.known
  BY <1>1, <1>2 DEF ReportState
<1>4. StoredHasNoOldFailure'
  BY <1>1, <1>3 DEF RInv, StoredHasNoOldFailure, FailuresOf, vars
<1>5. ListedOnce'
  <2> SUFFICES ASSUME NEW k \in report.stored \intersect Unresolved(a, b), k.type \in types
               PROVE  \E f \in FailuresOf(k, b) : f.at > report.start
    BY <1>3 DEF ListedOnce, FailuresOf, vars
  <2>1. PICK f \in FailuresOf(k, b) : \A v \in versions[k] : v.at <= f.at
    BY DEF Unresolved
  <2>2. ~(f.at <= report.start)
    <3> SUFFICES ASSUME f.at <= report.start PROVE FALSE
      OBVIOUS
    <3>1. PICK v \in versions[k] : v.at > f.at
      BY <1>1, <2>1 DEF RInv, StoredHasNoOldFailure
    <3>2. k \in Key /\ f \in failures
      BY DEF Unresolved, FailuresOf
    <3>3. f.at \in Nat /\ v.at \in Nat
      BY <3>1, <3>2 DEF Tables, Failure, Version
    <3> QED
      BY <2>1, <3>1, <3>3
  <2>3. f \in failures /\ f.at \in Nat /\ report.start \in Nat
    BY <1>2, <2>1 DEF Tables, Failure, FailuresOf, ReportState
  <2> QED
    BY <2>1, <2>2, <2>3
<1>6. NotBefore(report.start, report.known)'
  BY <1>3 DEF RInv, Begins, NotBefore, LatestNumber, Numbers, vars
<1> QED
  BY <1>1, <1>3, <1>4, <1>5, <1>6

LEMMA ReportSteps ==
  ASSUME Tables, Core, AInv, RInv, ReportStep, UNCHANGED <<vars, search>>
  PROVE  /\ report' \in ReportState
         /\ StoredHasNoOldFailure' /\ ListedOnce'
         /\ report'.pc # "idle" /\ (report'.pc = "loaded" => report'.failed = {})
         /\ NotBefore(report.start, report.known)'
<1>1. ASSUME NEW found \in SUBSET batches, report.pc = "idle", Reporting(found)
      PROVE  /\ report' \in ReportState
             /\ StoredHasNoOldFailure' /\ ListedOnce'
             /\ report'.pc # "idle" /\ (report'.pc = "loaded" => report'.failed = {})
             /\ NotBefore(report.start, report.known)'
  BY <1>1, ReportBegins DEF StoredHasNoOldFailure, ListedOnce
<1>2. CASE FindBatch \/ SearchBatches
  BY <1>1, <1>2 DEF FindBatch, SearchBatches
<1>3. CASE NextBatch
  <2>1. PICK p \in report.todo :
          report' = [report EXCEPT !.pc = "loaded", !.todo = @ \ {p},
                                   !.account = p[1], !.batch = p[2],
                                   !.stored = {}, !.failed = {}]
    BY <1>3 DEF NextBatch
  <2>2. report \in ReportState /\ p \in Accounts \X BatchRefs
    BY DEF RInv, ReadTypes, ReportState
  <2>3. PICK todo : todo = report.todo \ {p}
    OBVIOUS
  <2>4. PICK a \in Accounts, b \in BatchRefs : a = p[1] /\ b = p[2]
    BY <2>2
  <2>5. report' = [report EXCEPT !.pc = "loaded", !.todo = todo, !.account = a,
                                 !.batch = b, !.stored = {}, !.failed = {}]
    BY <2>1, <2>3, <2>4
  <2>6. todo \in SUBSET (Accounts \X BatchRefs)
    BY <2>2, <2>3 DEF ReportState
  <2>7. /\ report' \in ReportState /\ report'.pc = "loaded"
        /\ report'.stored = {} /\ report'.failed = {}
        /\ report'.start = report.start /\ report'.known = report.known
    BY <2>2, <2>5, <2>6 DEF ReportState
  <2>8. NotBefore(report.start, report.known)'
    BY <2>7 DEF RInv, Begins, NotBefore, LatestNumber, Numbers, vars
  <2> QED
    BY <2>7, <2>8 DEF StoredHasNoOldFailure, ListedOnce
<1>4. CASE CountLoaded
  BY <1>4, CountStep
<1>5. CASE ListFailed
  BY <1>5, ListStepOfReport
<1> QED
  BY <1>2, <1>3, <1>4, <1>5 DEF ReportStep

LEMMA ReportKeepsInv ==
  ASSUME Tables, Core, AInv, RInv, ReportStep, UNCHANGED <<vars, search>>
  PROVE  RInv'
<1>1. /\ report' \in ReportState
      /\ StoredHasNoOldFailure' /\ ListedOnce'
      /\ report'.pc # "idle" /\ (report'.pc = "loaded" => report'.failed = {})
      /\ NotBefore(report.start, report.known)'
  BY ReportSteps
<1>2. ReadTypes' /\ Begins'
  BY <1>1 DEF RInv, ReadTypes, Begins, NotBefore, LatestNumber, Numbers, vars
<1>3. StillHidden'
  BY DEF RInv, StillHidden, BroughtBack, Hidden, LatestNumber, Numbers, vars
<1>4. FoundBehind'
  BY DEF RInv, FoundBehind, LatestNumber, Numbers, vars
<1>5. NothingHiddenIsShown' /\ HistoryHasNoGaps'
  BY DEF RInv, NothingHiddenIsShown, HistoryHasNoGaps, Answer, vars
<1> QED
  BY <1>1, <1>2, <1>3, <1>4, <1>5 DEF RInv

-----------------------------------------------------------------------------
(* Steps of a search *)

\* What the invariant says of the search alone.
SearchInv ==
  /\ search \in SearchState
  /\ NotBefore(search.start, search.known)
  /\ search.pc \in {"idle", "refused", "find"} => search.found = {} /\ search.correlated = {}
  /\ search.pc = "correlate" => search.correlated = {}
  /\ StillHidden /\ FoundBehind
  /\ NothingHiddenIsShown /\ HistoryHasNoGaps

\* A row that a query makes of a signal it may show.
LEMMA RowShown ==
  ASSUME Tables, Core, SearchInv, search.pc \in {"find", "correlate"},
         NEW k \in Key, Visible(k, search.ask)
  PROVE  /\ Row(k) \in FoundRow /\ Row(k).key = k /\ Row(k).number = LatestNumber(k)
         /\ k \in search.hidden =>
              \/ LatestNumber(k) > search.known[k]
              \/ isns[Row(k).isn].updated > search.start
              \/ isnTypes[Row(k).isn][k.type].updated > search.start
<1>1. signals[k] # Null /\ signals[k] \in Signal /\ LatestNumber(k) \in Nat
  BY LatestInNat DEF Visible, Tables
<1>2. Row(k) \in FoundRow /\ Row(k).key = k /\ Row(k).number = LatestNumber(k)
      /\ Row(k).isn = signals[k].isn
  BY <1>1 DEF Row, FoundRow, Signal
<1>3. k \notin Hidden(search.ask)
  BY DEF Visible, Hidden, InUse
<1> QED
  BY <1>2, <1>3 DEF SearchInv, StillHidden, BroughtBack

LEMMA StartStep ==
  ASSUME Tables, Core, SearchInv, StartSearch, UNCHANGED vars
  PROVE  SearchInv'
<1>1. \A k \in Key : LatestNumber(k) \in Nat /\ LatestNumber(k)' = LatestNumber(k)
  <2>1. versions' = versions
    BY DEF vars
  <2>2. \A k \in Key : LatestNumber(k)' = LatestNumber(k)
    BY <2>1 DEF LatestNumber, Numbers
  <2> QED
    BY <2>2, LatestInNat
<1>2. PICK s \in Searches, pc \in {"find", "refused"}, hidden \in {Hidden(t) : t \in Searches},
              known \in {[k \in Key |-> LatestNumber(k)]} :
        /\ search' = [search EXCEPT !.pc = pc, !.ask = s, !.start = clock,
                                    !.known = known, !.hidden = hidden]
        /\ known = [k \in Key |-> LatestNumber(k)] /\ hidden = Hidden(s)
  BY DEF StartSearch
<1>3. clock \in Nat /\ known \in [Key -> Nat] /\ hidden \in SUBSET Key
  BY <1>2, <1>1 DEF Tables, Hidden
<1>4. search \in SearchState /\ search.found = {} /\ search.correlated = {}
  BY DEF SearchInv, StartSearch
<1>5. /\ search' \in SearchState /\ search'.pc = pc /\ search'.ask = s
      /\ search'.start = clock /\ search'.known = known /\ search'.hidden = hidden
      /\ search'.found = {} /\ search'.correlated = {}
  BY <1>2, <1>3, <1>4 DEF SearchState
<1>6. NotBefore(search.start, search.known)'
  BY <1>2, <1>1, <1>3, <1>5 DEF NotBefore, vars
<1>7. StillHidden'
  <2>1. Hidden(search.ask)' = Hidden(s)
    BY <1>5 DEF Hidden, vars
  <2> QED
    BY <1>2, <1>5, <2>1 DEF StillHidden
<1>8. FoundBehind' /\ NothingHiddenIsShown' /\ HistoryHasNoGaps'
  BY <1>2, <1>5 DEF FoundBehind, NothingHiddenIsShown, HistoryHasNoGaps, Answer
<1> QED
  BY <1>2, <1>5, <1>6, <1>7, <1>8 DEF SearchInv

LEMMA FindStep ==
  ASSUME Tables, Core, SearchInv, FindSignals, UNCHANGED vars
  PROVE  SearchInv'
<1>1. PICK s, rows : s = search.ask /\ rows = Permitted(s, Found(s))
  OBVIOUS
<1>2. search.pc = "find" /\ search' = [search EXCEPT !.pc = "correlate", !.found = rows]
  BY <1>1 DEF FindSignals
<1>3. \A row \in rows : \E k \in Key : Visible(k, s) /\ row = Row(k)
  BY <1>1 DEF Permitted, Found
<1>4. rows \subseteq FoundRow
  BY <1>1, <1>2, <1>3, RowShown
<1>5. search \in SearchState /\ search.correlated = {}
  BY <1>2 DEF SearchInv
<1>6. /\ search' \in SearchState /\ search'.pc = "correlate" /\ search'.ask = s
      /\ search'.found = rows /\ search'.correlated = {}
      /\ search'.start = search.start /\ search'.known = search.known
      /\ search'.hidden = search.hidden
  BY <1>1, <1>2, <1>4, <1>5 DEF SearchState
<1>7. \A k \in Key : LatestNumber(k) \in Nat /\ LatestNumber(k)' = LatestNumber(k)
  <2>1. \A k \in Key : LatestNumber(k)' = LatestNumber(k)
    BY DEF vars, LatestNumber, Numbers
  <2> QED
    BY <2>1, LatestInNat
<1>8. NotBefore(search.start, search.known)'
  BY <1>6, <1>7 DEF SearchInv, NotBefore, vars
<1>9. StillHidden'
  <2>1. Hidden(search.ask)' = Hidden(search.ask)
    BY <1>1, <1>6 DEF Hidden, vars
  <2>2. \A k \in Key : BroughtBack(k)' = BroughtBack(k)
    BY <1>6, <1>7 DEF BroughtBack, vars
  <2>3. search.hidden \subseteq Key
    BY <1>5 DEF SearchState
  <2> QED
    BY <1>2, <1>6, <2>1, <2>2, <2>3 DEF SearchInv, StillHidden
<1>10. FoundBehind'
  <2> SUFFICES ASSUME NEW row \in rows
               PROVE  row.number <= LatestNumber(row.key)'
    BY <1>6 DEF FoundBehind
  <2>1. PICK k \in Key : row = Row(k) /\ row.key = k /\ row.number = LatestNumber(k)
    BY <1>1, <1>2, <1>3, RowShown
  <2>2. LatestNumber(k) <= LatestNumber(k)
    BY <1>7
  <2> QED
    BY <1>7, <2>1, <2>2
<1>11. NothingHiddenIsShown'
  <2> SUFFICES ASSUME NEW row \in rows, row.key \in search.hidden
               PROVE  \/ row.number > search.known[row.key]
                      \/ isns[row.isn].updated > search.start
                      \/ isnTypes[row.isn][row.key.type].updated > search.start
    BY <1>6 DEF NothingHiddenIsShown, Answer, vars
  <2> QED
    BY <1>1, <1>2, <1>3, RowShown
<1>12. HistoryHasNoGaps'
  BY <1>6 DEF HistoryHasNoGaps
<1> QED
  BY <1>6, <1>8, <1>9, <1>10, <1>11, <1>12 DEF SearchInv

LEMMA CorrelateStep ==
  ASSUME Tables, Core, SearchInv, AddCorrelated, UNCHANGED vars
  PROVE  SearchInv'
<1>1. PICK s, rows :
        /\ s = search.ask
        /\ rows = IF s.correlated THEN CorrelatedTo(Ids(search.found), s) ELSE {}
  OBVIOUS
<1>2. search.pc = "correlate"
      /\ search' = [search EXCEPT !.pc = "previous", !.correlated = rows]
  BY <1>1 DEF AddCorrelated
<1>3. \A row \in rows : \E k \in Key : Visible(k, s) /\ row = Row(k)
  BY <1>1 DEF CorrelatedTo
<1>4. rows \subseteq FoundRow
  BY <1>1, <1>2, <1>3, RowShown
<1>5. search \in SearchState
  BY DEF SearchInv
<1>6. /\ search' \in SearchState /\ search'.pc = "previous" /\ search'.ask = s
      /\ search'.found = search.found /\ search'.correlated = rows
      /\ search'.start = search.start /\ search'.known = search.known
      /\ search'.hidden = search.hidden
  BY <1>1, <1>2, <1>4, <1>5 DEF SearchState
<1>7. \A k \in Key : LatestNumber(k)' = LatestNumber(k)
  BY DEF vars, LatestNumber, Numbers
<1>8. NotBefore(search.start, search.known)'
  BY <1>6, <1>7 DEF SearchInv, NotBefore, vars
<1>9. StillHidden' /\ HistoryHasNoGaps'
  BY <1>6 DEF StillHidden, HistoryHasNoGaps
<1>10. FoundBehind'
  BY <1>6 DEF SearchInv, FoundBehind, LatestNumber, Numbers, vars
<1>11. NothingHiddenIsShown'
  <2> SUFFICES ASSUME NEW row \in search.found \union rows, row.key \in search.hidden
               PROVE  \/ row.number > search.known[row.key]
                      \/ isns[row.isn].updated > search.start
                      \/ isnTypes[row.isn][row.key.type].updated > search.start
    BY <1>6 DEF NothingHiddenIsShown, Answer, vars
  <2>1. CASE row \in search.found
    BY <2>1 DEF SearchInv, NothingHiddenIsShown, Answer
  <2>2. CASE row \in rows
    BY <1>1, <1>2, <1>3, <2>2, RowShown
  <2> QED
    BY <2>1, <2>2
<1> QED
  BY <1>6, <1>8, <1>9, <1>10, <1>11 DEF SearchInv

LEMMA PreviousStep ==
  ASSUME Tables, Core, SearchInv, AddPrevious, UNCHANGED vars
  PROVE  SearchInv'
<1>1. PICK s, ids, prev :
        /\ s = search.ask /\ ids = Ids(search.found)
        /\ prev = IF s.previous THEN PreviousOf(ids) ELSE {}
  OBVIOUS
<1>2. search.pc = "previous"
      /\ search' = [search EXCEPT !.pc = "done", !.previous = prev]
  BY <1>1 DEF AddPrevious
<1>3. search \in SearchState /\ ids \subseteq Key
  BY <1>1 DEF SearchInv, SearchState, FoundRow, Ids
<1>4. prev \subseteq [key: Key, number: Nat]
  <2> SUFFICES ASSUME NEW p \in PreviousOf(ids)
               PROVE  p \in [key: Key, number: Nat]
    BY <1>1
  <2>1. PICK k \in ids, n \in {p.number} : n \in Numbers(k) /\ p = [key |-> k, number |-> n]
    BY DEF PreviousOf
  <2>2. n \in Nat
    BY <1>3, <2>1, LatestInNat
  <2> QED
    BY <1>3, <2>1, <2>2
<1>5. /\ search' \in SearchState /\ search'.pc = "done" /\ search'.ask = s
      /\ search'.found = search.found /\ search'.correlated = search.correlated
      /\ search'.previous = prev /\ search'.start = search.start
      /\ search'.known = search.known /\ search'.hidden = search.hidden
  BY <1>1, <1>2, <1>3, <1>4 DEF SearchState
<1>6. \A k \in Key : LatestNumber(k)' = LatestNumber(k)
  BY DEF vars, LatestNumber, Numbers
<1>7. NotBefore(search.start, search.known)'
  BY <1>5, <1>6 DEF SearchInv, NotBefore, vars
<1>8. StillHidden' /\ FoundBehind' /\ NothingHiddenIsShown'
  BY <1>5 DEF SearchInv, StillHidden, FoundBehind, NothingHiddenIsShown, Answer,
     LatestNumber, Numbers, vars
<1>9. HistoryHasNoGaps'
  <2> SUFFICES ASSUME s.previous, NEW row \in search.found, row.key.type \in types,
                      NEW n \in 1..(row.number - 1)
               PROVE  [key |-> row.key, number |-> n] \in prev
    BY <1>5 DEF HistoryHasNoGaps, vars
  <2>1. PICK k \in Key : k = row.key /\ k \in ids
    BY <1>1, <1>3 DEF SearchState, FoundRow, Ids
  <2>2. row.number \in Nat /\ row.number <= LatestNumber(k)
    BY <1>3, <2>1 DEF SearchInv, FoundBehind, SearchState, FoundRow
  <2>3. LatestNumber(k) \in Nat /\ Numbers(k) = 1..LatestNumber(k)
    BY LatestInNat
  <2>4. n \in Numbers(k) \ {LatestNumber(k)}
    BY <2>2, <2>3
  <2> QED
    BY <1>1, <2>1, <2>4 DEF PreviousOf
<1> QED
  BY <1>5, <1>7, <1>8, <1>9 DEF SearchInv

LEMMA FailStep ==
  ASSUME Tables, Core, SearchInv, SearchFails, UNCHANGED vars
  PROVE  SearchInv'
<1>1. search \in SearchState
      /\ search' = [search EXCEPT !.pc = "error", !.found = {}, !.correlated = {}]
  BY DEF SearchInv, SearchFails
<1>2. /\ search' \in SearchState /\ search'.pc = "error"
      /\ search'.found = {} /\ search'.correlated = {}
      /\ search'.start = search.start /\ search'.known = search.known
  BY <1>1 DEF SearchState
<1>3. \A k \in Key : LatestNumber(k)' = LatestNumber(k)
  BY DEF vars, LatestNumber, Numbers
<1>4. NotBefore(search.start, search.known)'
  BY <1>2, <1>3 DEF SearchInv, NotBefore, vars
<1> QED
  BY <1>2, <1>4 DEF SearchInv, StillHidden, FoundBehind, NothingHiddenIsShown,
     HistoryHasNoGaps, Answer

LEMMA SearchKeepsInv ==
  ASSUME Tables, Core, RInv, SearchStep, UNCHANGED <<vars, report>>
  PROVE  RInv'
<1>1. SearchInv'
  <2>1. SearchInv
    BY DEF RInv, SearchInv, ReadTypes, Begins
  <2>2. UNCHANGED vars
    OBVIOUS
  <2> QED
    BY <2>1, <2>2, StartStep, FindStep, CorrelateStep, PreviousStep, FailStep DEF SearchStep
<1>2. NotBefore(report.start, report.known)'
  BY DEF RInv, Begins, NotBefore, LatestNumber, Numbers, vars
<1>3. StoredHasNoOldFailure' /\ ListedOnce'
  BY DEF RInv, StoredHasNoOldFailure, ListedOnce, FailuresOf, vars
<1> QED
  BY <1>1, <1>2, <1>3 DEF RInv, SearchInv, ReadTypes, Begins

-----------------------------------------------------------------------------
(* The theorems *)

LEMMA InitReads == SearchInit => RInv
<1> SUFFICES ASSUME SearchInit
             PROVE  RInv
  OBVIOUS
<1>1. PICK known : known = [k \in Key |-> 0]
  OBVIOUS
<1>2. known \in [Key -> Nat]
  BY <1>1
<1>3. /\ report = [pc |-> "idle", todo |-> {}, account |-> Null, batch |-> Null,
                   start |-> 0, known |-> known, stored |-> {}, failed |-> {}]
      /\ search = [pc |-> "idle", ask |-> Null, found |-> {}, correlated |-> {},
                   previous |-> {}, start |-> 0, known |-> known, hidden |-> {}]
  BY <1>1 DEF SearchInit, ReportInit
<1>4. ReadTypes
  BY <1>2, <1>3 DEF ReadTypes, ReportState, SearchState
<1>5. clock = 0 /\ \A k \in Key : LatestNumber(k) = 0
  BY DEF SearchInit, ReportInit, Init, LatestNumber
<1>6. Begins
  BY <1>1, <1>3, <1>5 DEF Begins, NotBefore
<1> QED
  BY <1>3, <1>4, <1>6 DEF RInv, StillHidden, FoundBehind, StoredHasNoOldFailure,
     ListedOnce, NothingHiddenIsShown, HistoryHasNoGaps, Answer

\* A reader changes nothing that the writers use.
LEMMA StepWriters == [ReadNext]_<<vars, report, search>> => [Next]_vars
BY DEF ReadNext

LEMMA StepReads ==
  /\ IInv /\ AInv /\ AInv' /\ RInv /\ [ReadNext]_<<vars, report, search>>
  => RInv'
<1> SUFFICES ASSUME Tables, Core, AInv, AInv', RInv, [ReadNext]_<<vars, report, search>>
             PROVE  RInv'
  BY IInvIff
<1>1. CASE Next /\ UNCHANGED <<report, search>>
  BY <1>1, WriterStep
<1>2. CASE ReportStep /\ UNCHANGED <<vars, search>>
  BY <1>2, ReportKeepsInv
<1>3. CASE SearchStep /\ UNCHANGED <<vars, report>>
  BY <1>3, SearchKeepsInv
<1>4. CASE UNCHANGED <<vars, report, search>>
  BY <1>4, WriterStep
<1> QED
  BY <1>1, <1>2, <1>3, <1>4 DEF ReadNext

LEMMA ReadsKeepInv == ReadSpec => [](IInv /\ AInv /\ RInv)
<1>1. SearchInit => Init
  BY DEF SearchInit, ReportInit
<1> QED
  BY <1>1, InitInv, InitAnswers, InitReads, StepWriters, StepInv, StepAnswers, StepReads, PTL
  DEF ReadSpec

\* A batch report counts no signal as stored that has an earlier failure in
\* the batch and no later version, whatever is loaded, fails, is withdrawn or
\* deleted between its queries.
THEOREM StoredCountIsRight == ReadSpec => []StoredHasNoOldFailure
BY ReadsKeepInv, PTL DEF RInv

\* A batch report has a signal in both of its lists only if it failed after the
\* report began, whatever is loaded between the queries.
THEOREM FailedIsListedOnce == ReadSpec => []ListedOnce
BY ReadsKeepInv, PTL DEF RInv

\* A search shows nothing that was hidden when it began, unless a load or an
\* administrator brought it back meanwhile.
THEOREM HiddenIsNotShown == ReadSpec => []NothingHiddenIsShown
BY ReadsKeepInv, PTL DEF RInv

\* The history of a signal in the answer of a search has every earlier version.
THEOREM HistoryIsComplete == ReadSpec => []HistoryHasNoGaps
BY ReadsKeepInv, PTL DEF RInv

\* Readers do not disturb the store: with them, the loads and withdrawals still
\* are atomic steps of it.
THEOREM ReadsImplement == ReadSpec => ImplementsStore
<1>1. SearchInit => Init
  BY DEF SearchInit, ReportInit
<1>2. ReadSpec => Spec
  BY <1>1, StepWriters, PTL DEF ReadSpec, Spec
<1> QED
  BY <1>2, Implements
=============================================================================
