# A formal model of signalsd

signalsd is an HTTP service over PostgreSQL with which the members of
information sharing networks (ISNs) exchange *signals*: versioned JSON records
that a sender identifies by a `local_ref` of its own. This directory holds TLA+
specifications of its core, configurations that check them with TLC, and proofs
checked by TLAPS. Paths below are relative to `src/app/`.

## 1. The system: components, state, operations, hazards

Everything that matters is a row in PostgreSQL. A handler is a goroutine that
runs a sequence of SQL statements, some inside a transaction, most not; any
number of handlers, in any number of service instances, run at a time, at the
default isolation level READ COMMITTED. Each instance keeps three caches of
database state in memory. There are no queues and no messages between
components: they interact through the tables, the claims in an access token and
the caches. The hard behaviours follow from that: the interleaving of
statements, what a statement that waits for a row lock sees afterwards, the
cancelling of a request by the timeout middleware between two statements, the
death of the process, the COMMIT whose acknowledgement is lost, claims and
caches that are out of date.

| component | state | operations | what is hard | what makes it correct |
|---|---|---|---|---|
| Signal loading and withdrawal (`handlers/signals.go`, `signal_router.go`, `queries/signals.sql`) | `signals`, `signal_versions`, `signal_batches`, `signal_processing_failures` | CreateSignals, RouteSignals, WithdrawSignal | several loads of one `local_ref`; a request is many transactions; timeouts and lost commits in the middle; configuration changes under way; router and direct posts to different ISNs share one key | version numbers 1, 2, 3, ...; an answered version exists; a load is atomic for everyone else; the counts in the answer add up; no row stays locked; a disabled ISN or type takes nothing new |
| Batch status report (`signal_batches.go`) | reads the same tables | GetSignalBatchStatus, SearchBatches | three queries outside a transaction; `created_at` is the beginning of a transaction, not its commit | a signal counted as stored has no failure from before; none is listed both ways but for what fails meanwhile |
| Signal search (`signals.go`) | reads the same tables | SearchPublicSignals, SearchPrivateSignals | three queries: signals, correlated signals, previous versions | only ISNs the caller may read; one coherent version history |
| ISN and signal type configuration (`isn.go`, `signal_types.go`, `isn_accounts.go`) | `isn`, `signal_types`, `isn_signal_types`, `isn_accounts` | create, update, transfer, new schema version, delete, register with an ISN, permissions | read-modify-write without a lock; check then delete; version numbers compared as text | no update is lost; a used type is not deleted; one owner |
| Access control (`auth/auth.go`, `middleware.go`, `permissions.go`) | claims in an access token (30 minutes) | CreateAccessToken, the Require... middlewares | the claims are read by several queries, and are old when used | a role or permission that was taken away is gone after the token's life |
| Credentials and sessions (`login.go`, `tokens.go`, `service_accounts.go`, `admin.go`, `users.go`) | `refresh_tokens`, `client_secrets`, `one_time_client_secrets`, `password_reset_tokens`, `accounts.is_active`, the password | log in, refresh, log out, token, rotate, revoke, reissue, set up, disable, enable, change and reset a password | revocations overlap insertions; single-use links read twice; half of a handler executed | a disabled account gets no token; a dead credential gets none; links work once; issuing a credential ends the earlier ones |
| Registration and roles (`users.go`, `service_accounts.go`) | `users`, `accounts` | register, grant and revoke roles, disable, enable | the role of the caller is in a token that may be old; two admins act on each other | a change is made by one who is, or just was, allowed to; the last site admin is not lost to a member |
| Router rules and cache (`router/cache.go`, `signal_routing.go`) | `signal_routing_configs`, `isn_routes`, a cache in each instance | Load, Resolve, poll, update, delete | a poll and a reload install results out of order; a type is deleted while its rules are replaced | the first rule that matches decides; caches come to agree with the tables |
| Schema and public-ISN caches (`schemas/cache.go`, `publicisns/cache.go`) | copies in memory | Load, poll, lookups | as above; one schema that does not compile fails the whole load | as above |
| Server (`server/server.go`, `cmd/signalsd/main.go`) | the process, its listener, pollers and connection pool | start, routes per mode, timeout, shutdown | requests wait for rows with a connection in hand; pages call the API of the process that shuts down; `pool.Close` waits | every request is answered; shutdown loses none and ends |
| Web UI (`ui/`) | two cookies in the browser | login, refresh on expiry, logout, some fifty pages and actions that call the API | tabs share the cookies and their answers overtake each other; role checks in two places | what is offered is accepted; what is said was done; who is disabled is out |

Components interact by calls as well where the UI is concerned: a page is a
request that makes requests of the API, of the same process in mode `all`.

Templates, logging, headers, size limits and the seeding tool have no state of
their own and are left out. `PROJECT.json` lists every component with its
status, and under `hazards` each hard behaviour at its line with the properties
that cover it.

## 2. Modules

| module | what it is |
|---|---|
| `SignalData` | constants and row types shared by the next two |
| `SignalStore` | **abstract**: a store of versioned records; create, revise, withdraw, purge, each atomic |
| `SignalLoad` | the loading and withdrawal handlers, statement by statement, with the configuration calls they race with |
| `MCSignalLoad` | small instances for TLC: the posts, withdrawals and routes that may occur |
| `SignalLoad_proofs` | types, row locks and version numbers, proved |
| `SignalLoadAnswers_proofs` | what answers say, what is disabled, and that `SignalLoad` implements `SignalStore`, proved |
| `BatchStatus` | GetSignalBatchStatus and SearchBatches running beside SignalLoad |
| `SignalSearch`, `MCReads` | the two searches beside SignalLoad; with `BatchStatus` the read side |
| `SignalSearch_proofs` | reports and searches beside any number of loads, proved |
| `Credentials`, `MCCredentials` | every handler that issues, checks or ends a credential |
| `Credentials_proofs` | types and all six promises of `Credentials`, proved |
| `Administration`, `MCAdministration` | registration, roles, ISNs, owners, permissions, and the claims of access tokens |
| `Administration_proofs` | types, who may change what, the last site admin, the claims, proved |
| `Registry`, `MCRegistry` | signal types and versions, routing configurations, and the three caches of each instance |
| `Registry_proofs` | types, configurations, first-match routing, version numbers, deletion, proved |
| `WebClient` | which routes each client function of the UI calls, and the status it expects |
| `WebPages` | the pages: who may ask for each, the calls it makes, the options it offers |
| `WebUi`, `MCWebUi` | a browser with several requests open, the UI, and the API behind it (composes the two above) |
| `WebUi_proofs` | types, that what is offered is accepted, that answers are true, proved |
| `Service`, `MCService` | one process: start, modes, pollers, pool, requests, shutdown |
| `Service_proofs` | types, and that a graceful shutdown loses no request, proved |

`BatchStatus` extends `SignalLoad` and `SignalSearch` extends `BatchStatus`: their
next-state relation is SignalLoad's beside the reader's steps.

### SignalLoad

A request is a process with a program counter. Its states are the places
between two statements:

| `pc` | code | actions |
|---|---|---|
| `batch` | UpsertSignalBatch | `Submit` takes the statement's snapshot, `OpenBatch` its effect |
| `resolve` | the first loop: schema validation (CreateSignals), routing (RouteSignals) | `Validate`, `ResolveByCorrelation`, `ResolveByRules` |
| `load` | the top of the second loop | `RejectUnauthorised`, `BeginTx`, `FinishLoad` |
| `correlate` | ValidateCorrelationID | `CheckCorrelation` |
| `ids`, `upsert` | CreateSignal / CreateOrUpdateSignalWithCorrelationID: its CTE over `isn` and `isn_signal_types`, then its `ON CONFLICT DO UPDATE` | `ReadIds`, `Upsert` |
| `version` | CreateSignalVersion | `InsertVersion` |
| `commit` | `tx.Commit` | `Commit` |
| `log` | CreateSignalProcessingFailureDetail for each failure, then the response | `LogFailure`, `Respond` |

The upsert is two actions because PostgreSQL evaluates its joins on the
statement's snapshot, then may wait for the row lock. What a transaction wrote
is held in the request (`row`, `number`) until `Commit` applies it. Every call
of the database may fail; after `Expire` (the Timeout middleware has cancelled
`r.Context()`) every one does, rollbacks included, while the handler runs on.
When a rollback or a commit fails pgx closes the connection and the server
rolls back, so that the lock is released in each case. An error from `Commit`
leaves it open whether the transaction was applied. `Crash` is the death of the
process, seen from one request. The answer of `CreateSignals` that forgets a
signal whose rollback failed is a choice in `MasterFails`.

WithdrawSignal reads the signal, then updates it in an autocommitted statement
(again a snapshot and a write). The configuration calls are one action each;
DeleteSignalType is two, its check and its delete, as in the code.

A correlation id is modelled as the key of the signal it names. Payloads,
titles and texts are left out. JSON Schema validation is a library: its verdict
is part of the item (`valid`). The router cache may answer any of
`RouteTargets`. The ISNs the claims allow writing are an input (`writable`).

### Credentials

A handler is a *program*: a tuple of statement names (`Login`, `Refresh`,
`Rotate`, ...), and there is one action per kind of statement. `Transactions` names
the handlers that run in one; in those, effects are kept in the call until
`commit` and the rows written are locked. Revoking is two statements, `select`
(what the UPDATE's snapshot holds) and `revoke` (after waiting for row locks, it
rechecks the condition), which is how READ COMMITTED lets a credential that was
inserted meanwhile escape. `refresh_tokens` and `client_secrets` have the same
columns for this purpose and are one table `creds`; a setup link
(`one_time_client_secrets`) is named by the secret it carries, because that
secret becomes the client secret, and its uniqueness is what stops a second use.
Times are counted in calls begun. A credential may expire at any moment. A rotation
ends the old secret at once: that is what the UPDATE does, whatever it is called.

The model starts where registration ends: users have a password, a service
account has one setup link or (used or expired) none. A call presents a random value that exists
(others are refused by the first query). A refresh token or a link names its account. A
client secret does not: the account is that of the `client_id`, any one, and the secret
is looked up by its hash alone, so that `Begin` chooses the two independently. The
access tokens of administrators who disable, enable or reissue are taken to be valid.

### BatchStatus and SignalSearch

A search is `find`, `correlate`, `previous`, a report `next`, `loaded`, `failed`:
one action per query, between which SignalLoad takes any steps. The filters of
the query are fields of `ask`; the rows carry the version number shown. What
only the properties need (`start`, `known`, `hidden`) is kept when a search
begins and read by no query. Date ranges of a batch search are any set of
batches. The two lists of a report are two queries with different conditions, both on
`created_at`, so that loads between them could show in one and not in the other:
`ListedOnce` says that they contradict each other only about what fails meanwhile.

### Administration

`Begin` is the middleware: it takes the claims of the caller's latest token and
checks `AllowedRoles`. Then each handler runs its queries one by one (`Now`, `Check`,
`ReadIsn`), and its writing statement uses what it read, stale or not.
CreateAccessToken is the longest: account, ISNs, types, grants, each a query,
collected in `draft`. `written` is the time of the last write, so that
`ClaimsMatchPolicy` can ask that a token asked for after it decides as the
tables do (`Policy`), whatever overlapped. Times are numbers of calls; the tokens there
are at the start were asked for by call 1, after the tables were written, so that
they count as fresh.

### Registry

`Rows` says what a load of a cache makes of the tables, `Read` and `Install` are
its two ends, and loads may overlap (`loading`). `Resolve`, `MatchesResult` and
`MatchesString` are the matching of rules; `Declared` is the reference they are compared
with for every content of a signal. Version numbers are triples, and `TextRank`
orders them as text does. A process may crash and load its caches again. The reload
at the end of a deletion may fail (`ReloadFails`): that is only logged, the deletion is
answered as done, and the rule stays in force until the next poll.

### WebClient, WebPages, WebUi

The UI keeps nothing but cookies. A request carries those the browser had when
it was sent, is refreshed on the way (`RequireAuth`, `CheckSession`, `Mint`,
`Rotate`), and its answer sets the new ones whenever it is received. The role
checks of pages are the groups of `WebPages`, those of the API are `Verdict`: the middleware's, and
the handlers' own 403 (no role of one's own, no reset link for another admin). A form names an
ISN and a user among those it lists (`IsnOptions`, `UserOptions`); the form for reset links lists
every user. Every page is a sequence of API calls that stops at the first unexpected
status. A call that the API lets in may change something and answer, change something and
answer 500 (handlers that commit one statement after the other), change something and lose the
answer, or change nothing and answer 400, 404 or 500. The alert of `WebPages` also stands for the
empty 200 of the correlated signals and the bare 500 of the option lists. `ActionsAccepted` is
about the step in which the API refuses, not about the alert that follows: the owner who
lost the ISN may have it back before the alert is shown.

### Service

Requests and pollers share the connection pool; a request that writes waits for
the lock of one row with a connection in hand. Mode, phase and listener follow
`run` and `Server.Start`; `Signal` before `NotifyContext` kills the process.
`PageCall` is the UI calling the API over HTTP: a request of its own, with the
client's timeout (`PageTimeout`) that cancels it.

## 3. Runs

| run | specification and bounds | properties | shows |
|---|---|---|---|
| `loads` | 2 requests, direct or routed, with the same `local_ref`s twice, invalid ones and correlations; rules that lead to either ISN or nowhere; 1 fault; 1 change | `TypeOK`, `LocksHeld`, `VersionsContiguous`, `NumberIsFresh`, `StoredIsDurable`, `CountsAddUp`, `NothingStoredThroughDisabledIsn` | concurrent loads of the same signals, any failure anywhere; the answer accounts for every signal but for what a failure explains; stale routes and claims store nothing through what was disabled |
| `answered` | `FairSpec`, 2 requests and 1 withdrawal on one row; 1 fault | `EveryCallAnswered` | nobody waits for ever |
| `reads` | 2 requests to 2 ISNs with failures and correlation, 1 withdrawal, 1 change, 1 search or report | `StoredHasNoOldFailure`, `ListedOnce`, `NothingHiddenIsShown`, `HistoryHasNoGaps`, `ImplementsStore` | readers between the steps of loads; SignalLoad implements `SignalStore` |
| `credentials` | 1 user, 2 service accounts, 3 calls of any kind, 2 at a time, 3 random values, 2 passwords | `TypeOK`, `DisabledAccountGetsNoToken`, `DeadCredentialGetsNoToken`, `OldPasswordGetsNoToken`, `EarlierCredentialsEnd`, `SetupLinkUsedOnce` | what was ended stays ended |
| `administration` | 2 people, 1 service account, 1 ISN, 3 calls after the one before the start, 2 at a time, from an empty site or with a site admin | `TypeOK`, `ClaimsMatchPolicy`, `ChangesByAdmins`, `OnlyOwnersChange`, `SiteAdminRemains` | roles, ownership and claims under concurrent changes |
| `registry` | 1 slug, 3 schemas, 2 routing configurations, 1 instance, 3 calls, 2 at a time, 1 failed load or crash | `TypeOK`, `ConfigsOfTypes`, `RoutedAsDeclared`, `NewVersionIsGreatest`, `DeletedNotCached`, `CachesCatchUp` | types, rules and caches |
| `web_ui` | any page in one tab, or two tabs; 2 users, 1 ISN, 1 change, 1 lost answer | `TypeOK`, `ActionsAccepted`, `AnswerIsTrue`, `DisabledUserIsOut` | the UI against the API |
| `service` | 2 requests of 2 calls each, 2 connections, 2 pollers, modes `all` and `signals-write` | `TypeOK`, `LosesNoRequest`, `RequestsAnswered`, `StopsWhenSignalled` | start, pool and shutdown; a request waits for the row with one connection while another has it with the other |
| `crossed_correlation` | violated | `CorrelationWithinIsn` | one `local_ref` used in two ISNs gives a correlation across ISNs |
| `type_deleted` | violated | `DeletedTypeHasNoSignals` | a signal loaded between check and delete disappears with its type |
| `session_survives` | violated | `DisabledUserHasNoSession` | a login overlapping the disabling leaves a valid refresh token |
| `logout_undone` | violated | `LoggedOutStaysOut` | the answer to a page that refreshed arrives after the logout and logs the browser in |

The last four are disagreements between the code and what it says of itself,
quoted in `PROJECT.json` under `findings`. `DisabledAccountGetsNoToken` shows that the
session that survives a disabling is of no use until the account is enabled.

Other disagreements that the models contain but no run is spent on, because one
request shows them, a retry mends them, or a run above has the same cause:

- two first loads of one `batch_ref` at a time: the second is answered 500
  (`sql/queries/signal_batches.sql:6`; `OpenBatch`);
- two posts of one reset link both change the password (`handlers/users.go:758`),
  against "can only be used once" (`handlers/admin.go:608`);
- the secret that a rotation replaces is refused at once
  (`sql/queries/service_accounts.sql:60`), against "remains valid for 5 minutes"
  (`handlers/tokens.go:239`); `EarlierCredentialsEnd` says nothing of rotations;
- a revocation of "**all** client secrets" (`handlers/tokens.go:148`) misses the one that
  an overlapping rotation commits; `EarlierCredentialsEnd` is about those from before;
- an account all of whose secrets are revoked still gets tokens with a good secret of
  another account (`auth/middleware.go:248`), against "prevents any further token
  requests" (`handlers/tokens.go:148`); `DeadCredentialGetsNoToken` is about the secret;
- a signal is listed as failed although it was loaded after the failure, if that load
  began before it (`sql/queries/signal_batches.sql:85`), against "has not been successfully
  resubmitted subsequently" (`handlers/signal_batches.go:69`); and it is in neither list
  if the latest version began before the failure and an earlier version after it
  (`sql/queries/signal_batches.sql:57`);
- a direct post whose upsert and rollback both fail names the signal nowhere
  (`handlers/signals.go:619`), against the sum in `handlers/signals.go:130`;
  `CountsAddUp` bounds what is forgotten;
- two first registrations at once both become site admin (`handlers/users.go:124`);
- RevokeUserIsnAdminRole accepts site admins only and makes them members
  (`handlers/users.go:378`);
- GetSignalRoutingConfig may answer with a configuration and none of its rules
  (`handlers/signal_routing.go:82`, two queries);
- mode `admin` is valid and registers no admin route (`server/config/config.go:115`,
  `server/server.go:101`), and the batch routes are behind a middleware that
  wants an ISN in the path (`server/server.go:380`);
- the page that lists signal types lets ISN admins in, the API refuses them the
  list (`ui/server/signal_types.go:363`, `server/server.go:334`); `ActionsAccepted` is
  about changes for this reason;
- the form for reset links lists every user (`ui/server/users.go:101`), the API refuses
  an ISN admin all but members (`handlers/admin.go:672`): an exemption of `ActionsAccepted`;
- a reload that fails after a routing configuration was deleted is only logged, the
  answer is 204 and the rule stays until the next poll (`handlers/signal_routing.go:329`);
- ReissueServiceAccountCredentials and GeneratePasswordResetLink may answer 500 after
  they have ended the earlier credentials or links (`handlers/service_accounts.go:272`,
  `handlers/admin.go:677`): an exemption of `AnswerIsTrue`;
- a search by an account with the write right alone shows correlated signals of
  others (`CorrelatedTo` has no account; `handlers/signals.go:957` says own only);
- the previous versions of a search may include the version it shows as the
  latest, if a load committed in between (`HistoryHasNoGaps` allows it).

**Bounds and why they are enough.** `MaxFaults` bounds timeouts, crashes and
failed statements: the hazards here need one at a bad place, and after a
timeout all later statements fail anyway. `MaxChanges` bounds configuration
changes in the same way. Two requests suffice for every pairwise race on a row,
because a lock has one holder and others only wait. Two `local_ref`s are what a
correlation needs, two ISNs what a crossing needs. `MaxCalls = 3` lets a call create what a second uses
while a third ends it; two service accounts are what it takes to present the secret of
one for the other. In `administration` three calls are a change of a
role by one admin while another acts on a token that is older. In `registry`
the version before the first of two digits is among the starts, and two
configurations with opposite rules meet. `service` has two connections, so that one request
can wait for the row with one while the other, in its transaction, has the other and
the two pollers want both; with one connection nobody could wait for a row. `MaxReads = 1`: a read changes
nothing, so two of them do not meet. Symmetry is used only in
runs whose properties are not about liveness, over requests, calls, people and random values, which
no definition tells apart.

**Fairness.** `answered`: weak fairness of the steps of each
request and withdrawal that has arrived. The HTTP server runs each request in a
goroutine of its own, PostgreSQL grants a row lock to a waiter when its holder
ends, and a statement that a lock blocks is not enabled. `registry`: each cache is
read and installed again and again, as its ticker runs until the process ends.
`web_ui`: what is begun ends, as client and server have timeouts, and an access
token expires after 30 minutes (the cookie's MaxAge). Refresh tokens do not
expire there, which only makes a session last longer. `service`: goroutines run (weak
fairness), and the pool serves those who wait in order, so that `Acquire` is strongly
fair although pollers take connections again and again; neither a timeout nor a
client that goes away is counted on. Nothing is assumed of the arrival of calls, of faults, of
expiry elsewhere or of configuration changes; `DisabledUserIsOut` and `CachesCatchUp` say what
follows when those stop, by `<>[]` in the first and by the bounds on calls in
the second.

## 4. Proofs

The theorems hold for any sets of accounts, types, ISNs, requests, calls and
tokens and any bounds, under the assumptions the modules name: `Null` is none of
the rows, ISNs, statements or numbers it stands in for, inputs are of their types, bounds are
natural numbers, a routing request has finitely many rules. TLC evaluates each assumption in
the runs. Every safety property of the passing runs is the `property` of a theorem
(`PROJECT.json`, `theorems`). Each proof has the same layout: an invariant that is
inductive, one lemma per action or handler that it is preserved, and the theorems from it.

*SignalLoad_proofs*: `TypeCorrect`, `LocksAreHeld`, `NumbersAreFresh`,
`NumbersAreContiguous`. `VersionsContiguous` is not inductive alone. `Commit` adds the version
number that `InsertVersion` computed earlier, so one needs `NumberIsFresh`: the
number is still the next one. That is kept only because nobody else commits to
the row meanwhile, so one needs `LocksHeld`: a request past its upsert holds
the lock, and a lock has one holder. That in turn needs `TypeOK` with `Shape`,
which ties a request's program counter to what it has fetched. Their
conjunction `IInv` is inductive, and the proof has one lemma per group of
actions. The deletion of a type is harmless because it waits for the locks.

*SignalLoadAnswers_proofs*: `StoredStays`, `DisabledStoresNothing`, `CountsOfAnswers`,
`Implements`. On top of `IInv`, `AInv` says what a request that is between two statements
still knows: the clock is ahead of every stamp (`Clocks`); the ISN and the type it is
loading into, if they are disabled now, were disabled after its transaction began
(`Admitted`); the row it holds is still what the upsert would make of the table
(`RowKept`, from the lock); a correlated signal that was found stays in its ISN unless its
type is deleted (`CorrelationsKept`); a deleted type has no signals and gets none
(`Deleted`); every signal sent is in exactly one list, or was forgotten at a failure
(`AllCounted`). `RequestFrame` reduces
"what can happen to request r" to the steps of r itself.

The refinement: `Mapped` builds the store's records from the tables (`RecordOf`: the row and
its last version). `Commit` maps to Create or Revise (`RowKept` and `NumberIsFresh` are what
makes it the right one), the withdrawing update to Withdraw, the deletion of a type to Purge,
and every other step, each failure and each lost commit included, to a stutter or to one of these
(`StoreStep`). It is the step that `BatchStatus` and `SignalSearch` need as well:
`ReadsImplement`.

*SignalSearch_proofs*: `StoredCountIsRight`, `FailedIsListedOnce`, `HiddenIsNotShown`,
`HistoryIsComplete`, `ReadsImplement`. The invariant `RInv` relates what a read saw first to the tables
when it reads again: versions only grow since it began, unless their type is deleted (`Begins`, `NotBefore`);
what was hidden is still hidden or was brought back by a load or an administrator
(`StillHidden`); the rows found are not ahead of the table (`FoundBehind`). `SignalStep` says
all that a writer's step can do to one signal, so that the readers' invariants do not look into the
handlers again. Histories need that no version is missing below the one shown:
`VersionsContiguous`.

*Credentials_proofs*: `CredentialTypes`, `DisabledGetsNoToken`, `DeadGetsNoToken`,
`OldPasswordIsDead`, `EarlierAreEnded`, `SetupLinkIsUsedOnce`. The invariant
adds to the types `Fit` (the statements a call still has to run are among those
of its handler, and the call holds what they use: a new password for `set`, an
existing token for `logout`) and `Barred` (a call for a token that is past `mint`,
which is CreateAccessToken, began before its account was last disabled, if it is
disabled). `Barred` is needed because the account may be disabled after `mint` and before
the answer. `ProgramType`, `StatementOps` and `TokensAreMinted` say what is needed of the
programs; `CallStep` shows once for all statements that a step of one call
keeps all calls fit and barred.
The other four need `UInv`. Per call: its statements are in an order that selects before it revokes and
commits last (`Tidy`); the credential or password it gave was good when it was looked at, or
was ended after the call began (`Presented`, `Authentic`); of the credentials older than the call,
those alive are what it has selected, then what its transaction has marked, then
none (`Ending`). Nothing in it ties a secret to the account it is presented for. For links: a random value is in one place only (`Unique`), and a setup call
past its insertion holds the secret of its link, which no other call can hold (`Linked`).

*Administration_proofs*: `AdministrationTypes`, `FreshClaimsAreTrue`, `AdminsMakeChanges`,
`OwnersMakeChanges`, `LastSiteAdminStays`. A token, and a call let in with it, has a role that its account
has still or had when the token was asked for (`TokensOK`, `Entitled`); a call past its look at an
ISN is a site admin's, the owner's, or the ISN was transferred since (`Owning`); a service
account is never an admin. `ClaimsMatchPolicy` needs `Current`: if nothing was written since
the token was asked for, each of the drafts read so far equals its table; `PermIsPolicy` then
compares the permission computed from them with `Policy`.

*Registry_proofs*: `RegistryTypes`, `ConfigsHaveTypes`, `FirstMatchRoutes`,
`NewVersionsAreGreatest`, `DeletedIsForgotten`. Ids are given once (`TypesOK`, `Grows`), hence a
configuration that was deleted is in no table and no load read after it (`Gone`), although a new one of the
same type may be, and an installed reload ends the call without it (a failed one is the
exemption); a registration is above all types with an id below the one it saw as the next
(`Above`), by `LatestIsLatest` and `NextIsAbove` on the text ranks of numbers below ten.
`FirstMatchRoutes` is about every set of rules at once: the sequence `Ordered` exists
and is increasing (`OrderedExists`, by counting the rules up to each), so that the first
hit in it is the hit with the least number (`TablesRoute`).

*WebUi_proofs*: `WebUiTypes`, `OffersAreAccepted`, `AnswersAreTrue`. First, without the state:
for each page of `WebPages`, every call it may make is one that reads, one open to all, or one the API
grants to each role the page's group lets in (`PublicGroup` ... `SiteAdminGroup`), and expects
the one status the API answers with (`Calls`). Together with the ISNs a form lists this gives
`PageAllowed`: a page that lets the user in makes no call the API forbids, with the ISN and
the user chosen among those it lists. Then the invariant:
claims in a token are genuine, with an ISN to administer for admins only (`Genuine`); a
request about to call has calls that are `Allowed` to its claims and its ISN (`Ready`); it went
past no change that was not made, and one was made unknown only if its answer was lost or
was 500 (`Honest`). What is left of a refusal is the owner that lost the ISN and the reset
link for another admin.

*Service_proofs*: `Types`, `NoRequestLost`. That a request is lost only after the
shutdown timed out needs to know what a stage allows (`Stage`): no request is
past `new` before the listener opens, none can arrive or be made by a page
once the shutdown began, and none is in flight between an orderly drain and the
exit. `RequestStage` says once for all requests that a step of one in flight keeps this.

**Only model-checked.** Liveness under fairness, which is out of the reach of the
prover: `EveryCallAnswered`, `CachesCatchUp`, `DisabledUserIsOut`, `RequestsAnswered` and
`StopsWhenSignalled`; and the four violations.

**Model-checking and proving corrected the model** where they disagreed: `ActionsAccepted` was a
state invariant that one more change of owner breaks; the order of rules was a
recursion over a finite set and is now the sequence `Ordered`, defined by what it must be.
Comparison with the source did so elsewhere: `Begin` of `Credentials` took the account from the
secret, a reload that fails was a failed deletion, a failed call of the UI had never changed
anything, and the handlers' own 403 was missing. With each corrected, a property had to say
more exactly what the code promises, and its theorem was proved again.

**Not modelled.** A panic in a handler; malformed bodies, which change nothing;
the deletion of ISNs (there is none); a second life of a deleted type; the
grouping of a batch report by ISN and type; the removal of all data in a
development environment (ResetEnv); details, titles, readme links and email
addresses; CORS, headers and size limits; the reading of
a map in the caches without their lock, whose outcome is the old or the new
map; what templates render. A polling client that searches by date can miss a
signal whose load began in its last range and committed after it:
`created_at` is in the model, a client is not.

## 5. Plan

All components with state are modelled, and all their safety properties that runs check are
proved. What is left:

1. The router cache of `Registry` under the router handler of `SignalLoad`, in
   place of the free choice of `RouteTargets`, which is wider.
2. Lemmas towards liveness that the prover can do: that what blocks a step is held by a
   request whose own step is not blocked (no circular waiting), as invariants of
   `SignalLoad` and `Service`.

The project keeps to a dozen runs; runs that ask about the same instance are one.
