---------------------------- MODULE BatchStatus ----------------------------
(***************************************************************************)
(* GetSignalBatchStatus and SearchBatches, which read the tables that      *)
(* SignalLoad writes: they find the batch, or the batches, then count the  *)
(* signals stored in each and list its failures that no later load has put *)
(* right.  The queries are not in a transaction, so loads run between them. *)
(***************************************************************************)
EXTENDS SignalLoad

VARIABLE report
  \* the report that is being made: where it stands (pc), the batches still
  \* to be reported (todo), the account and the batch it is at, the signals in
  \* its stored_count (stored) and in its unresolved_failures (failed); start
  \* and known are the time and the latest versions when the report began

-----------------------------------------------------------------------------
(* The queries *)

\* The rows of latest_signal_versions; the highest number is the latest,
\* whatever created_at says.
Latest(k) == {v \in versions[k] : v.number = LatestNumber(k)}

FailuresOf(k, b) ==
  {f \in failures : /\ f.batch = b /\ f.account = k.account
                    /\ f.type = k.type /\ f.ref = k.ref}

\* GetLoadedSignalsSummaryByBatchID: the signals whose latest version is of
\* this batch, less those with a later failure in it.
LoadedWithFailures(a, b) ==
  {k \in Key : k.account = a /\ \E v \in Latest(k) : v.batch = b}
Loaded(a, b) ==
  {k \in Key : /\ k.account = a
               /\ \E v \in Latest(k) :
                    v.batch = b /\ \A f \in FailuresOf(k, b) : f.at <= v.at}

\* GetFailedSignalsByBatchID: the failures with no later version.  The join
\* with signals leaves out what was never loaded.
Unresolved(a, b) ==
  {k \in Key : /\ k.account = a
               /\ signals[k] # Null
               /\ \E f \in FailuresOf(k, b) : \A v \in versions[k] : v.at <= f.at}

-----------------------------------------------------------------------------
(* The handler *)

ReportInit ==
  /\ Init
  /\ report = [pc |-> "idle", todo |-> {}, account |-> Null, batch |-> Null,
               start |-> 0, known |-> [k \in Key |-> 0],
               stored |-> {}, failed |-> {}]

\* A report on the batches found.  (start and known are for the properties:
\* the handlers do not keep them.)
Reporting(found) ==
  report' = [report EXCEPT !.pc = IF found = {} THEN "done" ELSE "next",
                           !.todo = found, !.start = clock,
                           !.known = [k \in Key |-> LatestNumber(k)]]

\* GetSignalBatchStatus: a batch that does not exist is answered with 404.
FindBatch ==
  /\ report.pc = "idle"
  /\ \E b \in batches : Reporting({b})

\* The batches with created_at in a range, of the caller or, for a site admin,
\* of every account.
SearchBatches ==
  /\ report.pc = "idle"
  /\ \E a \in Accounts, admin \in BOOLEAN, found \in SUBSET batches :
       /\ admin \/ \A b \in found : b[1] = a
       /\ Reporting(found)

\* getBatchStatusDetails of one batch after the other.
NextBatch ==
  /\ report.pc = "next"
  /\ \E b \in report.todo :
       report' = [report EXCEPT !.pc = "loaded", !.todo = @ \ {b},
                                !.account = b[1], !.batch = b[2],
                                !.stored = {}, !.failed = {}]

CountLoaded ==
  /\ report.pc = "loaded"
  /\ report' = [report EXCEPT !.pc = "failed",
                              !.stored = Loaded(report.account, report.batch)]

ListFailed ==
  /\ report.pc = "failed"
  /\ report' = [report EXCEPT !.pc = IF report.todo = {} THEN "done" ELSE "next",
                              !.failed = Unresolved(report.account, report.batch)]

ReportStep == FindBatch \/ SearchBatches \/ NextBatch \/ CountLoaded \/ ListFailed

-----------------------------------------------------------------------------
(* Properties *)

\* A failure that was recorded before the report began keeps its signal out
\* of the stored count, unless a load begun after the failure has succeeded
\* (or the type has been deleted, with its signals).
StoredHasNoOldFailure ==
  \A k \in report.stored : k.type \in types =>
    \A f \in FailuresOf(k, report.batch) :
      f.at <= report.start => \E v \in versions[k] : v.at > f.at

\* A signal is in both lists of a report only if it failed while the report was
\* being made: the queries run one after the other, and what is loaded between
\* them never makes a failure from before the report count both ways.
ListedOnce ==
  \A k \in report.stored \intersect report.failed : k.type \in types =>
    \E f \in FailuresOf(k, report.batch) : f.at > report.start
=============================================================================
