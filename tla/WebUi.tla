------------------------------- MODULE WebUi -------------------------------
(***************************************************************************)
(* Sessions in the web UI: a browser that keeps two cookies, the requests  *)
(* it has open (tabs, and the parts of a page), and the API behind them.   *)
(*                                                                         *)
(* The UI keeps nothing.  A request carries the cookies the browser had    *)
(* when it sent it; an access token that is missing or expired is          *)
(* refreshed on the way, and the answer sets the new cookies, in whatever  *)
(* order the answers arrive.  The API rotates refresh tokens: a user has   *)
(* one that is live (module Credentials has the races within a rotation).  *)
(***************************************************************************)
EXTENDS WebPages, FiniteSets

CONSTANTS
  Users,
  Isns,
  Members,     \* pairs of a user and an ISN it was granted
  Starts,      \* roles and owners there may be at the start
  Requests,    \* requests that may be open at a time
  Tabs,        \* what they may be for: the pages of each, none if it is not used
  MaxChanges,  \* bound on changes of accounts, roles and owners
  MaxLost,     \* bound on lost answers
  Null

Roles == {"siteadmin", "isnadmin", "member"}

ASSUME MembersAssumption == Members \subseteq Users \X Isns
ASSUME StartsAssumption == \A s \in Starts :
  s.role \in [Users -> Roles] /\ s.owner \in [Isns -> Users]
ASSUME TabsAssumption == Tabs \subseteq [Requests -> SUBSET Pages]
ASSUME BoundAssumption == MaxChanges \in Nat /\ MaxLost \in Nat
ASSUME NullAssumption == Null \notin Isns

VARIABLES
  account,  \* status and role of each user
  owner,    \* of each ISN
  cookies,  \* of the browser
  request,  \* the requests, Null if not open
  pagesOf,  \* one of Tabs
  changes, lost

vars == <<account, owner, cookies, request, pagesOf, changes, lost>>
database == <<account, owner, pagesOf, changes>>

\* An access token is its claims; one that has expired is none in a cookie.  Of
\* the refresh tokens of a user one is live, so they need no identity.
Claims == [user: Users, role: Roles, perms: SUBSET Isns, administers: SUBSET Isns]
RefreshTokens == [user: Users, live: BOOLEAN]
Kinds == {"public", "page", "login", "logout"}
Steps == {"auth", "session", "mint", "rotate", "gate", "call", "revoke", "reply"}
Request ==
  [kind: Kinds, at: Steps,
   access: Claims \union {Null}, expired: BOOLEAN,  \* its tokens, and whether
   refresh: RefreshTokens \union {Null},            \* the answer sets them
   new: BOOLEAN,
   user: Users \union {Null},    \* who logs in, or the one chosen in the form
   isn: Isns \union {Null},      \* chosen in the form
   calls: Seq([route: Client!Routes, ok: SUBSET Nat]),  \* those to be made still
   off: SUBSET {"skipped", "unknown"},  \* a change the handler went past and the API
                                        \* did not make, and the other way round
   status: {0, 200, 201, 204, 400, 401, 403, 404, 500},  \* of the last call, 0 if it was lost
   answer: {Null, "page", "alert", "login", "denied"}]

NewRequest(kind, at, access, refresh) ==
  [kind |-> kind, at |-> at, access |-> access, expired |-> FALSE, refresh |-> refresh,
   new |-> FALSE, user |-> Null, isn |-> Null, calls |-> <<>>,
   off |-> {}, status |-> 200, answer |-> Null]
NoCookies == [access |-> Null, refresh |-> Null]

At(r, s) == request[r] # Null /\ request[r].at = s
Set(r, q) == request' = [request EXCEPT ![r] = q]
\* The answer, with the cookies it sets if any were issued.
Answered(q, a) ==
  IF q.new THEN [q EXCEPT !.at = "reply", !.answer = a]
  ELSE [NewRequest(q.kind, "reply", Null, Null) EXCEPT !.answer = a]
Answer(r, a) == Set(r, Answered(request[r], a))

Init ==
  /\ \E s \in Starts :
       /\ account = [u \in Users |-> [active |-> TRUE, role |-> s.role[u]]]
       /\ owner = s.owner
  /\ cookies = NoCookies
  /\ request = [r \in Requests |-> Null]
  /\ pagesOf \in Tabs
  /\ changes = 0 /\ lost = 0

-----------------------------------------------------------------------------
(* The browser *)

Send(r) ==
  /\ request[r] = Null /\ pagesOf[r] # {}
  /\ \/ /\ pagesOf[r] \ DOMAIN PublicPages # {}
        /\ Set(r, NewRequest("page", "auth", cookies.access, cookies.refresh))
     \/ /\ pagesOf[r] \intersect DOMAIN PublicPages # {}
        /\ Set(r, NewRequest("public", "gate", Null, Null))
     \/ \E u \in Users : Set(r, [NewRequest("login", "session", Null, Null) EXCEPT !.user = u])
     \/ Set(r, NewRequest("logout", "revoke", Null, cookies.refresh))
  /\ UNCHANGED <<database, cookies, lost>>

\* Login and RequireAuth set both cookies, Logout clears them.
SetAuthCookies(q) ==
  [access |-> IF q.expired THEN Null ELSE q.access, refresh |-> q.refresh]
ClearAuthCookies == NoCookies
Receive(r) ==
  /\ At(r, "reply")
  /\ cookies' = IF request[r].kind = "logout" THEN ClearAuthCookies
                ELSE IF request[r].new THEN SetAuthCookies(request[r])
                ELSE cookies
  /\ Set(r, Null)
  /\ UNCHANGED <<database, lost>>

\* The browser is gone before the answer is there.
Abandon(r) ==
  /\ At(r, "reply") /\ lost < MaxLost
  /\ lost' = lost + 1 /\ Set(r, Null)
  /\ UNCHANGED <<database, cookies>>

\* After 30 minutes, which MaxAge tells the browser.
ExpireCookie ==
  /\ cookies.access # Null
  /\ cookies' = [cookies EXCEPT !.access = Null]
  /\ UNCHANGED <<database, request, lost>>
ExpireToken(r) ==
  /\ request[r] # Null /\ request[r].access # Null /\ ~request[r].expired
  /\ Set(r, [request[r] EXCEPT !.expired = TRUE])
  /\ UNCHANGED <<database, cookies, lost>>

-----------------------------------------------------------------------------
(* Authentication *)

CheckAccessTokenStatus(q) ==
  IF q.access = Null THEN "TokenMissing"
  ELSE IF q.expired THEN "TokenExpired" ELSE "TokenValid"

RequireAuth(r) ==
  LET q == request[r] IN
  /\ At(r, "auth")
  /\ IF CheckAccessTokenStatus(q) = "TokenValid"
     THEN Set(r, [q EXCEPT !.at = "gate", !.refresh = Null])
     ELSE IF q.refresh = Null THEN Answer(r, "login")
     ELSE Set(r, [NewRequest("page", "session", Null, q.refresh) EXCEPT !.user = q.refresh.user])
  /\ UNCHANGED <<database, cookies, lost>>

\* What ends the issue of tokens: the alert of Login, or the way to it.
Failed(r) == Answer(r, IF request[r].kind = "login" THEN "alert" ELSE "login")

\* POST /oauth/token wants a refresh token that is live, POST /api/auth/login an
\* account that is active and its password, which may be wrong.
CheckSession(r) ==
  LET q == request[r] IN
  /\ At(r, "session")
  /\ \/ /\ IF q.kind = "login" THEN account[q.user].active ELSE q.refresh.live
        /\ Set(r, [q EXCEPT !.at = "mint", !.refresh = Null])
     \/ (q.kind # "login" => ~q.refresh.live) /\ Failed(r)
  /\ UNCHANGED <<database, cookies, lost>>

ClaimsNow(u) ==
  LET role == account[u].role
      owned == IF role = "siteadmin" THEN Isns
               ELSE IF role = "isnadmin" THEN {i \in Isns : owner[i] = u} ELSE {} IN
  [user |-> u, role |-> role, administers |-> owned,
   perms |-> IF role = "siteadmin" THEN Isns
             ELSE owned \union {i \in Isns : <<u, i>> \in Members}]

\* CreateAccessToken, for an account that is active.
MayMintAnyway(u) == TRUE
MayMint(u) == account[u].active
Mint(r) ==
  LET q == request[r] IN
  /\ At(r, "mint")
  /\ IF MayMint(q.user)
     THEN Set(r, [q EXCEPT !.at = "rotate", !.access = ClaimsNow(q.user)])
     ELSE Failed(r)
  /\ UNCHANGED <<database, cookies, lost>>

\* The refresh tokens of the user there are end.
EndedToken(u, t) == IF t # Null /\ t.user = u THEN [t EXCEPT !.live = FALSE] ELSE t
EndedIn(q, u) == IF q = Null THEN Null ELSE [q EXCEPT !.refresh = EndedToken(u, @)]
\* ... and request r goes on as q.
EndThen(u, r, q) ==
  /\ cookies' = [cookies EXCEPT !.refresh = EndedToken(u, @)]
  /\ request' = [s \in Requests |-> IF s = r THEN q ELSE EndedIn(request[s], u)]

\* The tokens in the answer of the API, and how the UI goes on with them.
Issued(q) == [q EXCEPT !.user = Null, !.new = TRUE,
                       !.refresh = [user |-> q.user, live |-> TRUE]]
Login(q) == Answered(Issued(q), "page")
RefreshToken(q) == [Issued(q) EXCEPT !.at = "gate"]

\* RotateRefreshToken.  The answer of the API may be lost: the token is live,
\* and nobody has it.
Rotate(r) ==
  LET q == request[r] IN
  /\ At(r, "rotate")
  /\ \/ /\ EndThen(q.user, r, IF q.kind = "login" THEN Login(q) ELSE RefreshToken(q))
        /\ UNCHANGED lost
     \/ /\ lost < MaxLost /\ lost' = lost + 1
        /\ EndThen(q.user, r, Answered(q, IF q.kind = "login" THEN "alert" ELSE "login"))
  /\ UNCHANGED database

\* POST /oauth/revoke ends a token that is live.  That it fails, or its answer
\* is lost, is only logged.
RevokeToken(r, t, bye) ==
  LET live == t # Null /\ t.live IN
  \/ live /\ EndThen(t.user, r, bye) /\ UNCHANGED lost
  \/ ~live /\ Set(r, bye) /\ UNCHANGED <<cookies, lost>>
  \/ live /\ lost < MaxLost /\ lost' = lost + 1 /\ Set(r, bye) /\ UNCHANGED cookies
Logout(r) ==
  /\ At(r, "revoke")
  /\ RevokeToken(r, request[r].refresh, Answered(request[r], "login"))
  /\ UNCHANGED database

-----------------------------------------------------------------------------
(* A page *)

\* What the form of a page asks for, if its calls need it: one of the ISNs, and
\* one of the users, it lists.  With none to choose it is not sent on.
IsnNeeded(calls) == \E k \in DOMAIN calls :
  calls[k].route \in Client!OwnerRoutes \union Client!MemberRoutes
Chosen(page, claims, calls) ==
  IF IsnNeeded(calls) THEN IsnOptions(page, claims) ELSE {Null}

Changing == Client!StatusRoutes \union Client!RoleRoutes \union {"TransferIsnOwnership"}
UserNeeded(calls) == \E k \in DOMAIN calls :
  calls[k].route \in Changing \union {"GeneratePasswordResetLink"}
\* All users but the one who asks; for a reset link all.
UserOptions(page, claims) ==
  Users \ (IF page = "GeneratePasswordResetLink" THEN {} ELSE {claims.user})
ChosenUser(page, claims, calls) ==
  IF UserNeeded(calls) THEN UserOptions(page, claims) ELSE {Null}

OpenToCall(r, calls, i, v) ==
  Set(r, [request[r] EXCEPT !.at = "call", !.isn = i, !.user = v, !.calls = calls])
Open(r, calls, i, v) ==
  IF calls = <<>> THEN Set(r, [request[r] EXCEPT !.at = "reply", !.answer = "page"])
  ELSE Set(r, [request[r] EXCEPT !.at = "call", !.isn = i, !.user = v, !.calls = calls])
\* To the dashboard with claims, to the login without; it is a public page, so
\* nothing puts claims there.
HomePage(r) == Answer(r, IF request[r].access = Null THEN "login" ELSE "page")
Gate(r) ==
  LET claims == request[r].access IN
  /\ At(r, "gate")
  /\ \E page \in pagesOf[r] :
       /\ (page \in DOMAIN PublicPages) = (request[r].kind = "public")
       /\ IF page = "HomePage" THEN HomePage(r)
          ELSE IF ~Admits(page, claims) THEN Answer(r, "denied")
          ELSE \E calls \in CallsOf(page) :
                 LET isns == Chosen(page, claims, calls)
                     users == ChosenUser(page, claims, calls) IN
                 IF isns = {} \/ users = {} THEN Answer(r, "alert")
                 ELSE \E i \in isns, v \in users : Open(r, calls, i, v)
  /\ UNCHANGED <<database, cookies, lost>>

\* What the middleware of the API and the handler say of the token.  Nobody
\* changes its own role, and ISN admins give reset links to members only.
Verdict(r, route) ==
  LET q == request[r] IN
  IF route \in Client!OpenRoutes THEN 200
  ELSE IF q.expired THEN 401
  ELSE IF \/ q.access.role \notin Client!AllowedRoles(route)
          \/ route \in Client!MemberRoutes /\ q.isn \notin q.access.perms
          \/ route \in Client!OwnerRoutes /\ q.access.role = "isnadmin"
             /\ (q.isn = Null \/ owner[q.isn] # q.access.user)
          \/ route \in Client!RoleRoutes /\ q.user = q.access.user
          \/ route = "GeneratePasswordResetLink" /\ q.access.role = "isnadmin"
             /\ account[q.user].role # "member"
       THEN 403
  ELSE 200

\* The changes of accounts, roles and owners: of user v, or to v.
Change(route, v) ==
  \/ /\ route \in Client!StatusRoutes
     /\ account' = [account EXCEPT ![v].active = (route = "EnableAccount")]
     /\ UNCHANGED owner
  \/ /\ route \in Client!RoleRoutes
     /\ account[v].role \in (IF route = "GrantUserIsnAdminRole" THEN {"member", "siteadmin"}
                             ELSE IF route = "GrantUserSiteAdminRole"
                             THEN {"member", "isnadmin"} ELSE {"siteadmin"})
     /\ account' = [account EXCEPT ![v].role =
          IF route = "GrantUserIsnAdminRole" THEN "isnadmin"
          ELSE IF route = "GrantUserSiteAdminRole" THEN "siteadmin" ELSE "member"]
     /\ UNCHANGED owner
  \/ /\ route = "TransferIsnOwnership" /\ account[v].role # "member" /\ account[v].active
     /\ \E i \in Isns : owner[i] # v /\ owner' = [owner EXCEPT ![i] = v]
     /\ UNCHANGED account

Effect(route, v) ==
  IF route \in Changing
  THEN changes < MaxChanges /\ changes' = changes + 1 /\ Change(route, v)
       /\ UNCHANGED pagesOf
  ELSE UNCHANGED database

Elsewhere ==
  /\ \E route \in Changing, v \in Users : Effect(route, v)
  /\ UNCHANGED <<cookies, request, lost>>

\* The status the handler gets for its next call, 0 if it gets no answer, and
\* whether it goes on.
Told(r, status, done) ==
  LET q == request[r]
      on == status \in Head(q.calls).ok
      reads == Head(q.calls).route \in Client!Reads
      left == IF on THEN Tail(q.calls) ELSE q.calls IN
  Set(r, [q EXCEPT !.status = status, !.calls = left,
            !.off = @ \union (IF on /\ ~done /\ ~reads THEN {"skipped"} ELSE {})
                      \union (IF ~on /\ done /\ ~reads THEN {"unknown"} ELSE {}),
            !.isn = IF left = <<>> THEN Null ELSE @,
            !.user = IF left = <<>> THEN Null ELSE @,
            !.at = IF on /\ left # <<>> THEN "call" ELSE "reply",
            !.answer = IF ~on THEN "alert" ELSE IF left = <<>> THEN "page" ELSE Null])

\* Allowed is not done: what the form says may be wrong (400), or not there (404),
\* or a statement of the handler fails (500).  Then its earlier ones may have
\* been committed (a reset link deletes the earlier links of the user first, new
\* credentials the old ones), or the COMMIT was, whose answer was lost.
Call(r) ==
  LET route == Head(request[r].calls).route IN
  /\ At(r, "call")
  /\ \/ /\ Verdict(r, route) = 200
        /\ Effect(route, request[r].user)
        /\ \/ Told(r, Client!StatusOf(route), TRUE) /\ UNCHANGED lost
           \/ Told(r, 500, TRUE) /\ UNCHANGED lost
           \/ lost < MaxLost /\ lost' = lost + 1 /\ Told(r, 0, TRUE)
     \/ /\ Verdict(r, route) = 200 /\ UNCHANGED <<database, lost>>
        /\ \E status \in {400, 404, 500} : Told(r, status, FALSE)
     \/ /\ Verdict(r, route) # 200 /\ UNCHANGED <<database, lost>>
        /\ Told(r, Verdict(r, route), FALSE)
  /\ UNCHANGED cookies

Step(r) ==
  \/ RequireAuth(r) \/ CheckSession(r) \/ Mint(r) \/ Rotate(r) \/ Logout(r)
  \/ Gate(r) \/ Call(r) \/ Receive(r)

Next ==
  \/ \E r \in Requests : Send(r) \/ Step(r) \/ Abandon(r)
  \/ ExpireCookie \/ (\E r \in Requests : ExpireToken(r))
  \/ Elsewhere

Spec == Init /\ [][Next]_vars

\* What is begun ends (clients and server have timeouts), and access tokens expire.
Fairness ==
  /\ \A r \in Requests : WF_vars(Step(r))
  /\ WF_vars(ExpireCookie)
FairSpec == Spec /\ Fairness

-----------------------------------------------------------------------------
(* Correctness *)

\* The variables have the values their declarations say.
TypeOK ==
  /\ account \in [Users -> [active: BOOLEAN, role: Roles]]
  /\ owner \in [Isns -> Users]
  /\ cookies \in [access: Claims \union {Null}, refresh: RefreshTokens \union {Null}]
  /\ \A r \in Requests : request[r] # Null =>
       /\ DOMAIN request[r] = DOMAIN NewRequest("page", "auth", Null, Null)
       /\ request[r].access \in Claims \union {Null}
       /\ request[r].refresh \in RefreshTokens \union {Null}
       /\ request[r].kind \in Kinds /\ request[r].at \in Steps
       /\ At(r, "call") => request[r].calls # <<>>
  /\ pagesOf \in Tabs
  /\ changes \in 0..MaxChanges /\ lost \in 0..MaxLost

\* What the UI lets a user do the API does not forbid: the two sets of role
\* checks, of pages and of routes, and the ISNs and users a form lists agree.
\* Refused is only an owner that lost the ISN since its token was issued, and an
\* ISN admin that asks for a link to reset the password of another admin: that
\* form lists all users (ui/server/users.go:101), the API (admin.go:672) wants a
\* member.
ActionsAccepted ==
  [][\A r \in Requests : LET q == request[r] route == Head(q.calls).route IN
       Call(r) /\ request'[r].status = 403 /\ route \notin Client!Reads
       => \/ /\ route \in Client!OwnerRoutes
             /\ q.isn \in q.access.administers /\ owner[q.isn] # q.access.user
          \/ /\ route = "GeneratePasswordResetLink"
             /\ q.access.role = "isnadmin" /\ account[q.user].role # "member"]_vars

\* An alert for a call that failed.
Alert(r) == At(r, "reply") /\ request[r].answer = "alert" /\ request[r].calls # <<>>

\* The answer of a page is true: success says that the API did every call, and
\* an alert that the call that failed was not done, unless the API failed at it
\* half way (500) or its answer was lost.
AnswerIsTrue ==
  \A r \in Requests : At(r, "reply") =>
    /\ request[r].answer = "page" => "skipped" \notin request[r].off
    /\ Alert(r) /\ request[r].status \notin {0, 500} => "unknown" \notin request[r].off

\* A user whose account stays disabled is out of the UI in the end: no request
\* is answered with its claims, as they are in the access token of a cookie.
Serves(u) == \E r \in Requests :
  /\ At(r, "gate") \/ At(r, "call") \/ (At(r, "reply") /\ request[r].answer = "page")
  /\ request[r].access # Null /\ request[r].access.user = u
DisabledUserIsOut ==
  \A u \in Users : <>[](~account[u].active) => <>[](~Serves(u))

\* tokens.go: after a logout "the user must log in again to obtain a new one".
\* A browser without cookies gets some from the answer of a login only.
LoggedOutStaysOut ==
  [][(cookies.refresh = Null /\ cookies'.refresh # Null)
       => \E r \in Requests : At(r, "reply") /\ request[r].kind = "login"
                              /\ request'[r] = Null]_vars
=============================================================================
