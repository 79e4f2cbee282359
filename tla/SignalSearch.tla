---------------------------- MODULE SignalSearch ----------------------------
(***************************************************************************)
(* SearchPublicSignals and SearchPrivateSignals, which read the tables     *)
(* that SignalLoad writes, and with BatchStatus the read side of the       *)
(* signal exchange.  A search reads the latest version of the signals that *)
(* match, then the signals correlated with them, then their earlier        *)
(* versions: three queries outside a transaction, with loads, withdrawals  *)
(* and configuration changes between them.  Titles, contents and e-mail    *)
(* addresses are left out of the answer.                                   *)
(***************************************************************************)
EXTENDS BatchStatus

CONSTANTS
  Searches,   \* the searches that may be made
  Published,  \* the pairs <<isn, type>> in the cache of public ISNs
  MaxReads    \* bound on the searches and batch reports begun

Search ==
  [caller: Accounts \union {Null},   \* Null: a search of a public ISN
   canRead: BOOLEAN,                 \* the read right in the claims
   isn: Isns, type: SignalTypes,
   account: Accounts \union {Null},  \* account_id
   id: Key \union {Null},            \* signal_id
   ref: LocalRefs \union {Null},     \* local_ref
   dates: (Nat \X Nat) \union {Null},  \* start_date and end_date
   withdrawn: BOOLEAN, correlated: BOOLEAN, previous: BOOLEAN]  \* include_...

ASSUME SearchAssumption ==
  /\ Searches \subseteq Search
  /\ Null \notin Searches /\ Null \notin Accounts \union LocalRefs
  /\ Null \notin Nat \X Nat
  /\ Published \subseteq Isns \X SignalTypes
  /\ MaxReads \in Nat

VARIABLE search
  \* the search that is being made: where it stands (pc), what it asks (ask),
  \* the rows found, the correlated rows and the previous versions; start,
  \* known and hidden are the time, the latest versions and the signals that
  \* a search must not show, when it began

\* A SearchSignal.
Row(k) == [key |-> k, isn |-> signals[k].isn, corr |-> signals[k].corr,
           number |-> LatestNumber(k)]

-----------------------------------------------------------------------------
(* The queries *)

\* The joins of both queries on rows that are in use, and the withdrawn ones.
VisibleWithdrawn(k, s) ==
  signals[k] # Null /\ InUse(signals[k].isn, k.type)
Visible(k, s) ==
  /\ signals[k] # Null
  /\ InUse(signals[k].isn, k.type)
  /\ s.withdrawn \/ ~signals[k].withdrawn

\* GetSignalsWithOptionalFilters.
Matches(k, s) ==
  /\ signals[k].isn = s.isn /\ k.type = s.type
  /\ s.account # Null => k.account = s.account
  /\ s.id # Null => k = s.id
  /\ s.ref # Null => k.ref = s.ref
  /\ s.dates # Null => \A v \in Latest(k) : s.dates[1] <= v.at /\ v.at <= s.dates[2]
Found(s) == {Row(k) : k \in {j \in Key : Visible(j, s) /\ Matches(j, s)}}

\* An account with the write right only is left with its own signals.
Permitted(s, rows) ==
  IF s.caller = Null \/ s.canRead THEN rows
  ELSE {row \in rows : row.key.account = s.caller}

Ids(rows) == {row.key : row \in rows}

\* GetSignalsByCorrelationIDs: of every account, and of every ISN.
CorrelatedTo(ids, s) ==
  {Row(k) : k \in {j \in Key : /\ Visible(j, s)
                               /\ signals[j].corr \in ids /\ signals[j].corr # j}}

\* GetPreviousSignalVersions: all but the one that is now the latest.
PreviousByTime(ids) ==
  UNION {{[key |-> k, number |-> v.number] :
            v \in {u \in versions[k] : \E w \in versions[k] : u.at < w.at}} : k \in ids}
PreviousOf(ids) ==
  UNION {{[key |-> k, number |-> n] : n \in Numbers(k) \ {LatestNumber(k)}} : k \in ids}

-----------------------------------------------------------------------------
(* The handlers *)

SearchInit ==
  /\ ReportInit
  /\ search = [pc |-> "idle", ask |-> Null, found |-> {}, correlated |-> {},
               previous |-> {}, start |-> 0, known |-> [k \in Key |-> 0],
               hidden |-> {}]

\* validateSearchParams, for dates that come both or not at all.
Valid(s) == s.account # Null \/ s.id # Null \/ s.ref # Null \/ s.dates # Null

\* publicIsnCache.HasSignalType, for a search of a public ISN.  The claims of
\* a member were checked by RequireIsnMembership.
Listed(s) == s.caller = Null => <<s.isn, s.type>> \in Published

Begun == (IF report.pc = "idle" THEN 0 ELSE 1) + (IF search.pc = "idle" THEN 0 ELSE 1)

\* What a search that begins now must not show (used by the properties only).
Hidden(s) ==
  {k \in Key : signals[k] # Null =>
     \/ signals[k].withdrawn /\ ~s.withdrawn
     \/ ~isns[signals[k].isn].inUse
     \/ isnTypes[signals[k].isn][k.type].state # "in_use"}

StartSearch ==
  /\ search.pc = "idle" /\ Begun < MaxReads
  /\ \E s \in Searches :
       search' = [search EXCEPT !.pc = IF Listed(s) /\ Valid(s) THEN "find" ELSE "refused",
                                !.ask = s, !.start = clock,
                                !.known = [k \in Key |-> LatestNumber(k)],
                                !.hidden = Hidden(s)]

FindSignals ==
  /\ search.pc = "find"
  /\ search' = [search EXCEPT !.pc = "correlate",
                              !.found = Permitted(search.ask, Found(search.ask))]

AddCorrelated ==
  /\ search.pc = "correlate"
  /\ search' = [search EXCEPT !.pc = "previous",
       !.correlated = IF search.ask.correlated
                      THEN CorrelatedTo(Ids(search.found), search.ask) ELSE {}]

AddPrevious ==
  /\ search.pc = "previous"
  /\ search' = [search EXCEPT !.pc = "done",
       !.previous = IF search.ask.previous
                    THEN PreviousOf(Ids(search.found)) ELSE {}]

\* A query fails, and nothing of the answer is sent.
SearchFails ==
  /\ search.pc \in {"find", "correlate", "previous"}
  /\ search' = [search EXCEPT !.pc = "error", !.found = {}, !.correlated = {}]

SearchStep == StartSearch \/ FindSignals \/ AddCorrelated \/ AddPrevious \/ SearchFails

ReadNext ==
  \/ Next /\ UNCHANGED <<report, search>>
  \/ ReportStep /\ (report.pc = "idle" => Begun < MaxReads) /\ UNCHANGED <<vars, search>>
  \/ SearchStep /\ UNCHANGED <<vars, report>>

ReadSpec == SearchInit /\ [][ReadNext]_<<vars, report, search>>

-----------------------------------------------------------------------------
(* Properties *)

Answer == search.found \union search.correlated

\* Whatever runs between the queries, a signal that a search must not show
\* (withdrawn, or of an ISN or a type not in use, when the search began) is in
\* no list of the answer, unless a load or an administrator brought it back
\* while the search ran.
NothingHiddenIsShown ==
  \A row \in Answer : row.key \in search.hidden =>
    \/ row.number > search.known[row.key]
    \/ isns[row.isn].updated > search.start
    \/ isnTypes[row.isn][row.key.type].updated > search.start

\* signals.go:182 "the history of a signal": with include_previous_versions no
\* version up to the one shown is missing, even if loads that overtook one
\* another left created_at in another order than version_number.
HistoryHasNoGaps ==
  search.pc = "done" /\ search.ask.previous =>
    \A row \in search.found : row.key.type \in types =>
      \A n \in 1..(row.number - 1) :
        [key |-> row.key, number |-> n] \in search.previous

=============================================================================
