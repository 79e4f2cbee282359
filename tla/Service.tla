------------------------------ MODULE Service ------------------------------
(***************************************************************************)
(* The life of one signalsd process (cmd/signalsd/main.go, server.go): it  *)
(* starts in a service mode, loads its caches, serves requests while three *)
(* pollers reload the caches, and after a signal closes the listener,      *)
(* waits for the requests in flight, and closes the connection pool.       *)
(*                                                                         *)
(* What a handler does is SignalLoad's and the other modules' matter: here *)
(* it makes database calls, each a transaction or a single statement that  *)
(* needs one connection of the pool and, if it writes, the lock of a row.  *)
(* In mode "all" a page of the UI calls the API of its own process.        *)
(***************************************************************************)
EXTENDS Naturals, FiniteSets, Sequences

CONSTANTS
  Requests,        \* the requests that may arrive, those of the UI included
  Modes,           \* the modes a process may be started in
  Asked,           \* the groups of routes that requests ask for
  Caches,          \* the caches: schemas, public ISNs, router
  MaxConnections,  \* DB_MAX_CONNECTIONS
  MaxCalls,        \* bound on the calls a handler makes
  Null             \* no request

\* The arguments that runSubcmd accepts.
ValidServiceModes == {"all", "api", "admin", "signals", "signals-read", "signals-write"}

Groups == {"common", "admin", "read", "write", "docs", "ui"}

ASSUME ServiceAssumption ==
  /\ Modes \subseteq ValidServiceModes
  /\ Asked \subseteq Groups
  /\ Caches # {} /\ Caches \intersect Requests = {}
  /\ MaxConnections \in Nat \ {0}
  /\ MaxCalls \in Nat
  /\ Null \notin Requests

VARIABLES
  mode,       \* the service mode
  phase,      \* where run and Server.Start stand
  loaded,     \* the caches that were loaded at the start
  listener,   \* the goroutine of ListenAndServe
  signalled,  \* SIGINT or SIGTERM was received: ctx is cancelled
  end,        \* how the process came to its end
  closed,     \* pool.Close was called
  poller,     \* the polling goroutine of each cache
  request,    \* the requests
  row         \* the request that holds the lock of the row, or Null

process == <<mode, phase, loaded, listener, signalled, end, closed>>
vars == <<process, poller, request, row>>

Phases == {"configure", "ping", "load", "build", "serve", "drain", "close",
           "closing", "exited"}

-----------------------------------------------------------------------------
(* Routes *)

\* NewServer registers these; its switch has a mode "isnadmin" and no "admin".
RegisteredFor(m) ==
  {"common"} \union
  IF m = "all" THEN {"admin", "read", "write", "docs", "ui"}
  ELSE IF m = "api" THEN {"admin", "read", "write", "docs"}
  ELSE IF m = "isnadmin" THEN {"admin", "docs"}
  ELSE IF m = "signals" THEN {"read", "write"}
  ELSE IF m = "signals-read" THEN {"read"}
  ELSE IF m = "signals-write" THEN {"write"}
  ELSE {}

Writes(group) == group \in {"admin", "write"}

-----------------------------------------------------------------------------
(* Requests and connections *)

InFlight == {"handler", "acquire", "query", "locked", "page"}

RequestState ==
  [at: InFlight \union {"new", "refused", "answered", "lost"},
   group: Groups,             \* the routes it asks for
   calls: 0..MaxCalls,        \* the calls its handler may still make
   cancelled: BOOLEAN,        \* r.Context() is cancelled
   inner: Requests \union {Null}]  \* the API request a page waits for

NewRequest == [at |-> "new", group |-> "common", calls |-> 0, cancelled |-> FALSE,
               inner |-> Null]

Active == {r \in Requests : request[r].at \in InFlight}

\* Who has a connection of the pool.
Holders == {r \in Requests : request[r].at \in {"query", "locked"}}
           \union {c \in Caches : poller[c] = "query"}
FreeConnection == Cardinality(Holders) < MaxConnections

At(r, at) == request[r].at = at
Becomes(r, q) == request' = [request EXCEPT ![r] = q]
Goes(r, at) == Becomes(r, [request[r] EXCEPT !.at = at])

Init ==
  /\ mode \in Modes
  /\ phase = "configure"
  /\ loaded = {}
  /\ listener = "none"
  /\ signalled = FALSE
  /\ end = "none"
  /\ closed = FALSE
  /\ poller = [c \in Caches |-> "none"]
  /\ request = [r \in Requests |-> NewRequest]
  /\ row = Null

-----------------------------------------------------------------------------
(* Starting *)

\* os.Exit: an error before the server is built ends the process.
StartFails ==
  /\ phase \in {"configure", "ping", "load"}
  /\ phase' = "exited" /\ end' = "failed"
  /\ UNCHANGED <<mode, loaded, listener, signalled, closed, poller, request, row>>

\* NewServerConfig and validateConfig.
Configure ==
  /\ phase = "configure"
  /\ phase' = "ping"
  /\ UNCHANGED <<mode, loaded, listener, signalled, end, closed, poller, request, row>>

Ping ==
  /\ phase = "ping"
  /\ phase' = "load"
  /\ UNCHANGED <<mode, loaded, listener, signalled, end, closed, poller, request, row>>

\* The caches are loaded one after the other.
LoadCache ==
  /\ phase = "load"
  /\ \E c \in Caches \ loaded : loaded' = loaded \union {c}
  /\ phase' = IF loaded' = Caches THEN "build" ELSE "load"
  /\ UNCHANGED <<mode, listener, signalled, end, closed, poller, request, row>>

\* NewServer, NotifyContext, and Start up to the go statements.
StartServer ==
  /\ phase = "build"
  /\ phase' = "serve"
  /\ listener' = "starting"
  /\ poller' = [c \in Caches |-> "ticking"]
  /\ UNCHANGED <<mode, loaded, signalled, end, closed, request, row>>

\* ListenAndServe: the address may be taken; after Shutdown it returns at once.
Listen ==
  /\ listener = "starting"
  /\ \/ phase = "serve" /\ listener' \in {"open", "failed"}
     \/ phase # "serve" /\ listener' = "closed"
  /\ UNCHANGED <<mode, phase, loaded, signalled, end, closed, poller, request, row>>

-----------------------------------------------------------------------------
(* Stopping *)

\* Before NotifyContext a signal kills the process.
Signal ==
  /\ ~signalled /\ phase # "exited"
  /\ signalled' = TRUE
  /\ IF phase \in {"configure", "ping", "load", "build"}
     THEN phase' = "exited" /\ end' = "killed"
     ELSE UNCHANGED <<phase, end>>
  /\ UNCHANGED <<mode, loaded, listener, closed, poller, request, row>>

\* Server.Start takes the error of the listener; run closes the database.
ListenFailed ==
  /\ phase = "serve" /\ listener = "failed"
  /\ phase' = "close" /\ end' = "failed"
  /\ UNCHANGED <<mode, loaded, listener, signalled, closed, poller, request, row>>

\* httpServer.Shutdown closes the listener before it waits.
ClosedLater == listener
ClosedFirst == IF listener = "open" THEN "closed" ELSE listener
BeginShutdown ==
  /\ phase = "serve" /\ signalled
  /\ phase' = "drain"
  /\ listener' = ClosedFirst
  /\ UNCHANGED <<mode, loaded, signalled, end, closed, poller, request, row>>

Drained ==
  /\ phase = "drain" /\ Active = {}
  /\ phase' = "close" /\ end' = "drained"
  /\ UNCHANGED <<mode, loaded, listener, signalled, closed, poller, request, row>>

\* ServerShutdownTimeout.
DrainTimeout ==
  /\ phase = "drain" /\ Active # {}
  /\ phase' = "close" /\ end' = "late"
  /\ UNCHANGED <<mode, loaded, listener, signalled, closed, poller, request, row>>

\* DatabaseShutdown: the pool gives out no more connections ...
ClosePool ==
  /\ phase = "close"
  /\ phase' = "closing" /\ closed' = TRUE
  /\ UNCHANGED <<mode, loaded, listener, signalled, end, poller, request, row>>

\* ... and Close returns when it has all of them back.  Then run returns, and
\* the goroutines that are left end with the process.
Exit ==
  /\ phase = "closing" /\ Holders = {}
  /\ phase' = "exited"
  /\ request' = [r \in Requests |->
       IF r \in Active THEN [request[r] EXCEPT !.at = "lost"] ELSE request[r]]
  /\ poller' = [c \in Caches |-> "stopped"]
  /\ UNCHANGED <<mode, loaded, listener, signalled, end, closed, row>>

-----------------------------------------------------------------------------
(* Polling *)

\* With its context cancelled a Load fails at once, which changes nothing.
Tick(c) ==
  /\ poller[c] = "ticking" /\ ~signalled
  /\ poller' = [poller EXCEPT ![c] = "acquire"]
  /\ UNCHANGED <<process, request, row>>

PollAcquire(c) ==
  /\ poller[c] = "acquire"
  /\ \/ ~signalled /\ ~closed /\ FreeConnection /\ poller' = [poller EXCEPT ![c] = "query"]
     \/ (signalled \/ closed) /\ poller' = [poller EXCEPT ![c] = "ticking"]
  /\ UNCHANGED <<process, request, row>>

\* The rows were read, or the query failed: the connection is given back.
HeldWhenCancelled == IF signalled THEN "query" ELSE "ticking"
GivenBack == "ticking"
PollQuery(c) ==
  /\ poller[c] = "query"
  /\ poller' = [poller EXCEPT ![c] = GivenBack]
  /\ UNCHANGED <<process, request, row>>

PollStop(c) ==
  /\ poller[c] = "ticking" /\ signalled
  /\ poller' = [poller EXCEPT ![c] = "stopped"]
  /\ UNCHANGED <<process, request, row>>

-----------------------------------------------------------------------------
(* Requests *)

\* RateLimit may refuse a request, and the router does if its group is not
\* registered; else its handler starts.
Arrived(group) ==
  {[NewRequest EXCEPT !.at = "refused", !.group = group]} \union
  IF group \notin RegisteredFor(mode) THEN {}
  ELSE {[NewRequest EXCEPT !.at = "handler", !.group = group, !.calls = MaxCalls]}

Arrive(r) ==
  /\ listener = "open" /\ phase # "exited"
  /\ At(r, "new")
  /\ \E g \in Asked : \E q \in Arrived(g) : Becomes(r, q)
  /\ UNCHANGED <<process, poller, row>>

\* The handler makes a call of the database ...
DbCall(r) ==
  /\ At(r, "handler") /\ request[r].calls > 0
  /\ request[r].group \notin {"docs", "ui"}
  /\ Becomes(r, [request[r] EXCEPT !.at = "acquire", !.calls = @ - 1])
  /\ UNCHANGED <<process, poller, row>>

\* ... for which it waits for a connection, unless its time is over.
Acquire(r) ==
  /\ At(r, "acquire")
  /\ \/ ~request[r].cancelled /\ ~closed /\ FreeConnection /\ Goes(r, "query")
     \/ (request[r].cancelled \/ closed) /\ Goes(r, "handler")
  /\ UNCHANGED <<process, poller, row>>

\* A call that only reads ends, and so does one that is cancelled.
Query(r) ==
  /\ At(r, "query")
  /\ request[r].cancelled \/ ~Writes(request[r].group)
  /\ Goes(r, "handler")
  /\ UNCHANGED <<process, poller, row>>

\* A statement fails and the transaction is rolled back.
QueryFails(r) ==
  /\ At(r, "query") /\ Writes(request[r].group)
  /\ Goes(r, "handler")
  /\ UNCHANGED <<process, poller, row>>

\* A write waits for the lock of the row.  All the statements of a transaction
\* run on the connection it began with (queries.WithTx).
RowFreeElsewhere(r) == row = Null /\ FreeConnection
RowFree(r) == row = Null
Lock(r) ==
  /\ At(r, "query") /\ Writes(request[r].group) /\ ~request[r].cancelled
  /\ RowFree(r)
  /\ row' = r
  /\ Goes(r, "locked")
  /\ UNCHANGED <<process, poller>>

\* COMMIT or ROLLBACK, or the connection is closed with a cancelled context.
CommittedOnly(r) == IF request[r].cancelled THEN r ELSE Null
Ended(r) == Null
EndTx(r) ==
  /\ At(r, "locked")
  /\ row' = Ended(r)
  /\ Goes(r, "handler")
  /\ UNCHANGED <<process, poller>>

\* A page calls the API of its own process; after Shutdown it is refused.
PageCall(r) ==
  /\ At(r, "handler") /\ request[r].calls > 0 /\ request[r].group = "ui"
  /\ \/ /\ listener = "open"
        /\ \E n \in Requests \ {r}, g \in Asked \ {"ui"} : \E q \in Arrived(g) :
             /\ At(n, "new")
             /\ request' = [request EXCEPT
                  ![r] = [request[r] EXCEPT !.at = "page", !.calls = @ - 1, !.inner = n],
                  ![n] = q]
     \/ /\ listener # "open"
        /\ Becomes(r, [request[r] EXCEPT !.calls = @ - 1])
  /\ UNCHANGED <<process, poller, row>>

PageReply(r) ==
  /\ At(r, "page") /\ request[r].inner \notin Active
  /\ Becomes(r, [request[r] EXCEPT !.at = "handler", !.inner = Null])
  /\ UNCHANGED <<process, poller, row>>

\* The client of the UI gives up after 10 seconds and closes the connection,
\* which cancels the inner request.
PageTimeout(r) ==
  LET n == request[r].inner IN
  /\ At(r, "page") /\ n \in Active
  /\ request' = [request EXCEPT
       ![r] = [request[r] EXCEPT !.at = "handler", !.inner = Null],
       ![n] = [request[n] EXCEPT !.cancelled = TRUE]]
  /\ UNCHANGED <<process, poller, row>>

Answer(r) ==
  /\ At(r, "handler")
  /\ Goes(r, "answered")
  /\ UNCHANGED <<process, poller, row>>

\* The Timeout middleware, or a client that closes its connection.
Cancel(r) ==
  /\ r \in Active /\ ~request[r].cancelled
  /\ Becomes(r, [request[r] EXCEPT !.cancelled = TRUE])
  /\ UNCHANGED <<process, poller, row>>

-----------------------------------------------------------------------------

Starting == StartFails \/ Configure \/ Ping \/ LoadCache \/ StartServer \/ Listen
Stopping == ListenFailed \/ BeginShutdown \/ Drained \/ DrainTimeout \/ ClosePool \/ Exit
Polling(c) == Tick(c) \/ PollAcquire(c) \/ PollQuery(c) \/ PollStop(c)
Handling(r) ==
  \/ DbCall(r) \/ Query(r) \/ Lock(r) \/ EndTx(r)
  \/ PageCall(r) \/ PageReply(r) \/ Answer(r)

Step ==
  \/ Starting \/ Stopping
  \/ \E c \in Caches : Polling(c)
  \/ \E r \in Requests : Arrive(r) \/ Handling(r) \/ Acquire(r) \/ QueryFails(r)
                         \/ PageTimeout(r) \/ Cancel(r)

\* Only an operating process takes steps.
Next == phase # "exited" /\ (Step \/ Signal)

Spec == Init /\ [][Next]_vars

\* Goroutines run; the pool serves those that wait in order (strong fairness,
\* as the pollers can take a connection again and again).  No request relies
\* on being cancelled.
Fairness ==
  /\ WF_vars(phase # "exited" /\ Stopping)
  /\ WF_vars(phase # "exited" /\ Listen)
  /\ \A c \in Caches : WF_vars(phase # "exited" /\ (PollAcquire(c) \/ PollQuery(c)))
  /\ \A r \in Requests : /\ WF_vars(phase # "exited" /\ Handling(r))
                         /\ SF_vars(phase # "exited" /\ Acquire(r))
FairSpec == Spec /\ Fairness

-----------------------------------------------------------------------------
(* Properties *)

\* The type invariant.
TypeOK ==
  /\ mode \in Modes
  /\ phase \in Phases
  /\ loaded \subseteq Caches
  /\ listener \in {"none", "starting", "open", "failed", "closed"}
  /\ signalled \in BOOLEAN /\ closed \in BOOLEAN
  /\ end \in {"none", "failed", "killed", "drained", "late"}
  /\ poller \in [Caches -> {"none", "ticking", "acquire", "query", "stopped"}]
  /\ request \in [Requests -> RequestState]
  /\ row \in Requests \union {Null}
  /\ \A r \in Requests : row = r <=> At(r, "locked")

\* A graceful shutdown loses no request: one that was accepted is cut off by
\* the end of the process only if ServerShutdownTimeout passed first, although
\* pages call the API of the process that is shutting down.
LosesNoRequest == \A r \in Requests : At(r, "lost") => end = "late"

\* Every request is answered, unless the process ends before, even if no
\* timeout helps: the writers that wait for a row and hold the last connections
\* do not keep out the one that has the row, nor do the pollers.
RequestsAnswered == \A r \in Requests : r \in Active ~> r \notin Active

\* A signal ends the process, whatever its requests and its pollers are at:
\* pool.Close waits for connections that are all given back.
StopsWhenSignalled == signalled ~> phase = "exited"
=============================================================================
