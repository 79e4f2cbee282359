--------------------------- MODULE Administration ---------------------------
(***************************************************************************)
(* Who may do what: registration, roles, ISNs and their owners, the signal *)
(* types and the accounts of an ISN, and the access tokens whose claims    *)
(* carry all that for up to 30 minutes.                                    *)
(*                                                                         *)
(* A call is authorised by the claims of its token (middleware), then runs *)
(* the queries of its handler one by one; what it has read may be stale    *)
(* when it writes.  A transaction here has one writing statement that      *)
(* others can see, so it is that statement.  An account has one token at a *)
(* time, the latest; one that expires is one that is not used any more.    *)
(* Times are counted in calls begun.                                       *)
(***************************************************************************)
EXTENDS Naturals, FiniteSets

CONSTANTS
  People,     \* users, by email address
  Services,   \* service accounts, by organisation and contact
  Isns,       \* ISNs, by slug
  Types,      \* the signal types of the site
  Calls,      \* calls served at a time
  MaxCalls,   \* bound on calls: the number of the last
  Permits,    \* the sets of rights that are granted
  Null

Accounts == People \union Services

Roles == {"siteadmin", "isnadmin", "member"}
Rights == {"read", "write"}

ASSUME ConstantAssumption ==
  People \intersect Services = {} /\ MaxCalls \in Nat /\ Permits \subseteq SUBSET Rights
ASSUME NullAssumption ==
  Null \notin Accounts \union Isns \union Types \union Roles

VARIABLES
  accounts,   \* tables accounts and users; since: the last change of role or status
  isns,       \* table isn; since: the last change of owner
  types,      \* table isn_signal_types
  grants,     \* table isn_accounts
  token,      \* the access token each account holds
  written,    \* when a table was written last
  begun,      \* the number of the call begun last
  call        \* the calls

tables == <<accounts, isns, types, grants>>
vars == <<tables, token, written, begun, call>>

\* A role of Null is an account, an owner of Null an ISN, not created yet.
AccountRow == [role: Roles \union {Null}, active: BOOLEAN, since: Nat]
IsnRow == [owner: People \union {Null}, inUse: BOOLEAN, since: Nat]
Perm == [rights: SUBSET (Rights \union {"administer"}), inUse: BOOLEAN,
         types: SUBSET Types]
Claims == [role: Roles, asked: Nat, perms: [Isns -> Perm \union {Null}]]

ASSUME PermAssumption == Null \notin Perm

Exists(a) == accounts[a].role # Null
Created(i) == isns[i].owner # Null

-----------------------------------------------------------------------------
(* The claims of an access token *)

\* The types of an ISN in use; none is when the ISN is not.
UsableTypes(status, inUse) == {t \in Types : status[t] = "on" /\ inUse}

\* What account a with role r may do in the ISN: row as stored, status of its
\* types, granted the row of isn_accounts.
AnyAdminOwns(a, r, row) == r \in {"siteadmin", "isnadmin"}
Administers(a, r, row) == r = "siteadmin" \/ (r = "isnadmin" /\ row.owner = a)
PermOf(a, r, row, status, granted) ==
  LET perm(rights) == [rights |-> rights, inUse |-> row.inUse,
                       types |-> UsableTypes(status, row.inUse)] IN
  IF Administers(a, r, row) THEN perm(Rights \union {"administer"})
  ELSE IF r # "siteadmin" /\ granted # Null THEN perm(granted)
  ELSE Null

\* The checks of the middleware: an ISN in use, a right on it, a type in use.
MayUse(claims, rights, i, t) ==
  LET perm == claims.perms[i] IN
  perm # Null /\ perm.inUse /\ perm.rights \intersect rights # {} /\ t \in perm.types

-----------------------------------------------------------------------------
(* Calls *)

RoleOps == {"grantIsnAdmin", "revokeIsnAdmin", "grantSiteAdmin", "revokeSiteAdmin"}
OwnerOps == {"updateIsn", "addType", "typeStatus", "permit", "listAccounts"}
AdminOps == {"createIsn", "service", "disable", "enable", "listUsers",
             "listServices"} \union OwnerOps
SiteOps == {"transfer"} \union RoleOps
Ops == {"register", "token"} \union AdminOps \union SiteOps

\* The roles of each route.
AllowedRoles(op) ==
  IF op \in SiteOps THEN {"siteadmin"}
  ELSE IF op \in AdminOps THEN {"siteadmin", "isnadmin"} ELSE Roles

Draft == [isns: [Isns -> IsnRow], types: [Isns -> [Types -> {"absent", "on", "off"}]],
          typed: SUBSET Isns, grants: [Isns -> (SUBSET Rights) \union {Null}]]
NoDraft ==
  [isns |-> [i \in Isns |-> [owner |-> Null, inUse |-> FALSE, since |-> 0]],
   types |-> [i \in Isns |-> [t \in Types |-> "absent"]],
   typed |-> {}, grants |-> [i \in Isns |-> Null]]

Statements == {"unique", "first", "account", "isns", "types", "grants", "target",
               "isn", "other", "effect"}
ASSUME StatementAssumption == Null \notin Statements \union Ops

Call ==
  [op: Ops \union {Null},
   pc: Statements \union {Null},
   caller: Accounts \union {Null},
   role: Roles \union {Null},      \* of the claims the call came with,
   asked: Nat,                     \* and when they were asked for
   start: Nat,
   target: Accounts \union {Null},
   isn: Isns \union {Null},
   arg: SUBSET (Rights \union Types),
   flag: BOOLEAN \union {Null},    \* is_in_use, if the request has it
   found: Roles \union {Null},     \* the role read from the database
   draft: Draft]                   \* what was read for a new token

NoCall ==
  [op |-> Null, pc |-> Null, caller |-> Null, role |-> Null,
   asked |-> 0, start |-> 0, target |-> Null, isn |-> Null, arg |-> {},
   flag |-> Null, found |-> Null, draft |-> NoDraft]

Running(c) == call[c].pc # Null

Moved(q, s) == [q EXCEPT !.pc = s]
Set(c, q) == call' = [call EXCEPT ![c] = q]

\* A statement that only reads: on to statement s if cond holds, else refuse.
Check(c, cond, s) ==
  /\ Set(c, IF cond THEN Moved(call[c], s) ELSE NoCall)
  /\ UNCHANGED <<tables, token, written, begun>>

\* The first statement of each handler.
FirstOf(op) ==
  IF op \in {"register", "service", "createIsn"} THEN "unique"
  ELSE IF op = "token" THEN "account"
  ELSE IF op \in RoleOps THEN "target"
  ELSE IF op \in {"disable", "enable", "listUsers", "listServices"} THEN "effect"
  ELSE "isn"

\* RequireRole.
AnyRole(claims, op) == TRUE
HasRole(claims, op) == claims.role \in AllowedRoles(op)

\* RequireValidAccessToken and RequireRole let the call through.
Arrive(c, op, a, target, i, arg, flag) ==
  /\ token[a] # Null /\ HasRole(token[a], op)
  /\ Set(c, [NoCall EXCEPT !.op = op, !.pc = FirstOf(op),
                           !.caller = a, !.role = token[a].role,
                           !.asked = token[a].asked, !.start = begun + 1,
                           !.target = target, !.isn = i, !.arg = arg, !.flag = flag])

\* Register and token come without an access token.
ArriveOpen(c, op, a) ==
  Set(c, [NoCall EXCEPT !.op = op, !.pc = FirstOf(op),
                        !.start = begun + 1, !.target = a])

Begin(c) ==
  /\ ~Running(c)
  /\ begun < MaxCalls /\ begun' = begun + 1
  /\ \/ \E p \in People : ArriveOpen(c, "register", p)
     \/ \E a \in Accounts : Exists(a) /\ ArriveOpen(c, "token", a)
     \/ \E a \in Accounts, s \in Services : Arrive(c, "service", a, s, Null, {}, Null)
     \/ \E a \in Accounts, op \in {"listUsers", "listServices"} :
          Arrive(c, op, a, Null, Null, {}, Null)
     \/ \E a, b \in Accounts, op \in RoleOps \union {"disable", "enable"} :
          Exists(b) /\ Arrive(c, op, a, b, Null, {}, Null)
     \/ \E a \in Accounts, i \in Isns :
          \/ \E f \in BOOLEAN : Arrive(c, "createIsn", a, Null, i, {}, f)
          \/ \E f \in BOOLEAN \union {Null} : Arrive(c, "updateIsn", a, Null, i, {}, f)
          \/ \E b \in Accounts : Exists(b) /\ Arrive(c, "transfer", a, b, i, {}, Null)
          \/ \E b \in Accounts, arg \in Permits :
               Exists(b) /\ Arrive(c, "permit", a, b, i, arg, Null)
          \/ \E t \in Types : Arrive(c, "addType", a, Null, i, {t}, Null)
          \/ \E t \in Types, f \in BOOLEAN : Arrive(c, "typeStatus", a, Null, i, {t}, f)
          \/ Arrive(c, "listAccounts", a, Null, i, {}, Null)
  /\ UNCHANGED <<tables, token, written>>

\* The tokens there are were asked for after the tables were written.
Init ==
  /\ \/ accounts = [a \in Accounts |-> [role |-> Null, active |-> FALSE, since |-> 0]]
     \/ /\ accounts \in [Accounts -> [role: Roles, active: {TRUE}, since: {0}]]
        /\ \A s \in Services : accounts[s].role = "member"
        /\ \E p \in People : accounts[p].role = "siteadmin"
  /\ isns \in [Isns -> [owner: {p \in People : Exists(p)} \union {Null},
                        inUse: {TRUE}, since: {0}]]
  /\ types = [i \in Isns |-> [t \in Types |-> IF Created(i) THEN "on" ELSE "absent"]]
  /\ grants = [i \in Isns |-> [a \in Accounts |->
                 IF Created(i) /\ a \in Services THEN {"write"} ELSE Null]]
  /\ token = [a \in Accounts |->
                IF Exists(a)
                THEN [role |-> accounts[a].role, asked |-> 1,
                      perms |-> [i \in Isns |->
                        IF ~Created(i) THEN Null
                        ELSE PermOf(a, accounts[a].role, isns[i], types[i], grants[i][a])]]
                ELSE Null]
  /\ written = 0 /\ begun = 1
  /\ call = [c \in Calls |-> NoCall]

-----------------------------------------------------------------------------
(* Accounts and roles *)

Unchanging == UNCHANGED <<tables, token, written, begun>>
Now(c, op, s) == call[c].op = op /\ call[c].pc = s

\* The last statement is done; it wrote, or only read.
Done(c) == Set(c, NoCall) /\ written' = begun /\ UNCHANGED <<token, begun>>
Answer(c) == Set(c, NoCall) /\ Unchanging
Refuse(c) == Set(c, NoCall) /\ Unchanging

\* The unique index lets one of two registrations of an address through.
Insert(c, role) ==
  IF Exists(call[c].target) THEN Refuse(c)
  ELSE /\ accounts' = [accounts EXCEPT ![call[c].target] =
              [role |-> role, active |-> TRUE, since |-> begun]]
       /\ Done(c) /\ UNCHANGED <<isns, types, grants>>

\* IsFirstUser counts the users that are committed.
IsFirstUser == \A p \in People : ~Exists(p)
RegisterUser(c) ==
  \/ Now(c, "register", "unique") /\ Check(c, ~Exists(call[c].target), "first")
  \/ /\ Now(c, "register", "first")
     /\ Set(c, [Moved(call[c], "effect") EXCEPT
                  !.found = IF IsFirstUser THEN "siteadmin" ELSE "member"])
     /\ Unchanging
  \/ Now(c, "register", "effect") /\ Insert(c, call[c].found)

RegisterServiceAccount(c) ==
  \/ Now(c, "service", "unique") /\ Check(c, ~Exists(call[c].target), "effect")
  \/ Now(c, "service", "effect") /\ Insert(c, "member")

\* A role operation: a user other than the caller, whose role is one of from.
SelfAllowed(c) == TRUE
NotSelf(c) == call[c].target # call[c].caller
ChangeRole(c, op, from, to) ==
  LET a == call[c].target IN
  \/ /\ Now(c, op, "target")
     /\ Check(c, NotSelf(c) /\ a \in People /\ accounts[a].role \in from, "effect")
  \/ /\ Now(c, op, "effect")
     /\ accounts' = [accounts EXCEPT ![a] =
                       [role |-> to, active |-> @.active, since |-> begun]]
     /\ Done(c) /\ UNCHANGED <<isns, types, grants>>

GrantUserIsnAdminRole(c) ==
  ChangeRole(c, "grantIsnAdmin", {"member", "siteadmin"}, "isnadmin")
RevokeUserIsnAdminRole(c) == ChangeRole(c, "revokeIsnAdmin", {"siteadmin"}, "member")
GrantUserSiteAdminRole(c) ==
  ChangeRole(c, "grantSiteAdmin", {"member", "isnadmin"}, "siteadmin")
RevokeUserSiteAdminRole(c) == ChangeRole(c, "revokeSiteAdmin", {"siteadmin"}, "member")

\* The row is updated without a look at it: it may be the caller's own, or
\* the last site admin's.  The rest of DisableAccount is in Credentials.
SetActive(c, op, active) ==
  /\ Now(c, op, "effect")
  /\ accounts' = [accounts EXCEPT ![call[c].target] =
                    [role |-> @.role, active |-> active, since |-> begun]]
  /\ Done(c) /\ UNCHANGED <<isns, types, grants>>
DisableAccount(c) == SetActive(c, "disable", FALSE)
EnableAccount(c) == SetActive(c, "enable", TRUE)

GetUsers(c) == Now(c, "listUsers", "effect") /\ Answer(c)
GetServiceAccounts(c) == Now(c, "listServices", "effect") /\ Answer(c)

-----------------------------------------------------------------------------
(* ISNs *)

CreateIsn(c) ==
  LET i == call[c].isn IN
  \/ Now(c, "createIsn", "unique") /\ Check(c, ~Created(i), "effect")
  \/ /\ Now(c, "createIsn", "effect")
     /\ IF Created(i) THEN Refuse(c)
        ELSE /\ isns' = [isns EXCEPT ![i] = [owner |-> call[c].caller,
                                             inUse |-> call[c].flag, since |-> begun]]
             /\ Done(c) /\ UNCHANGED <<accounts, types, grants>>

\* The ISN is there and, for an ISN admin, its own.
NobodyElseOwns(c) == FALSE
OwnedByOther(c) == call[c].role = "isnadmin" /\ isns[call[c].isn].owner # call[c].caller
ReadIsn(c, op, then) ==
  LET i == call[c].isn IN
  /\ Now(c, op, "isn")
  /\ IF Created(i) /\ (op \in OwnerOps => ~OwnedByOther(c))
     THEN Set(c, [Moved(call[c], then) EXCEPT !.draft.isns[i] = isns[i]])
     ELSE Set(c, NoCall)
  /\ Unchanging

\* A request without is_in_use (it has another field) writes back the flag
\* that was read.
FlagAsSent(q) == q.flag
FlagOf(q) == IF q.flag # Null THEN q.flag ELSE q.draft.isns[q.isn].inUse
UpdateIsn(c) ==
  LET q == call[c] IN
  \/ ReadIsn(c, "updateIsn", "effect")
  \/ /\ Now(c, "updateIsn", "effect")
     /\ isns' = [isns EXCEPT ![q.isn] =
                   [owner |-> @.owner, inUse |-> FlagOf(q), since |-> @.since]]
     /\ Done(c) /\ UNCHANGED <<accounts, types, grants>>

\* To another user that is an admin and active.
TransferIsnOwnership(c) ==
  LET q == call[c] a == accounts[q.target] IN
  \/ ReadIsn(c, "transfer", "other")
  \/ /\ Now(c, "transfer", "other")
     /\ Check(c, /\ q.target \in People /\ a.role # "member" /\ a.active
                 /\ q.draft.isns[q.isn].owner # q.target, "effect")
  \/ /\ Now(c, "transfer", "effect")
     /\ isns' = [isns EXCEPT ![q.isn] =
                   [owner |-> q.target, inUse |-> @.inUse, since |-> begun]]
     /\ Done(c) /\ UNCHANGED <<accounts, types, grants>>

UpdateIsnAccountPermission(c) ==
  LET q == call[c] IN
  \/ ReadIsn(c, "permit", "other")
  \/ Now(c, "permit", "other") /\ Check(c, NotSelf(c), "effect")
  \/ /\ Now(c, "permit", "effect")
     /\ grants' = [grants EXCEPT ![q.isn] = [@ EXCEPT ![q.target] = q.arg]]
     /\ Done(c) /\ UNCHANGED <<accounts, isns, types>>

GetIsnAccounts(c) ==
  \/ ReadIsn(c, "listAccounts", "effect")
  \/ Now(c, "listAccounts", "effect") /\ Answer(c)

\* A type that is there already is left as it is.
AddSignalTypeToISN(c) ==
  LET q == call[c] IN
  \/ ReadIsn(c, "addType", "effect")
  \/ /\ Now(c, "addType", "effect")
     /\ types' = [types EXCEPT ![q.isn] =
          [t \in Types |-> IF t \in q.arg /\ @[t] = "absent" THEN "on" ELSE @[t]]]
     /\ Done(c) /\ UNCHANGED <<accounts, isns, grants>>

UpdateIsnSignalTypeStatus(c) ==
  LET q == call[c] IN
  \/ ReadIsn(c, "typeStatus", "effect")
  \/ /\ Now(c, "typeStatus", "effect")
     /\ IF \E t \in q.arg : types[q.isn][t] = "absent" THEN Refuse(c)
        ELSE /\ types' = [types EXCEPT ![q.isn] =
                  [t \in Types |-> IF t \notin q.arg THEN @[t]
                                   ELSE IF q.flag = TRUE THEN "on" ELSE "off"]]
             /\ Done(c) /\ UNCHANGED <<accounts, isns, grants>>

-----------------------------------------------------------------------------
(* CreateAccessToken *)

IsActive(a) == accounts[a].active
ReadAccount(c) ==
  LET a == call[c].target IN
  /\ Now(c, "token", "account")
  /\ Set(c, IF IsActive(a) THEN [Moved(call[c], "isns") EXCEPT !.found = accounts[a].role]
            ELSE NoCall)
  /\ Unchanging

ReadIsns(c) ==
  /\ Now(c, "token", "isns")
  /\ Set(c, [Moved(call[c], "types") EXCEPT !.draft.isns = isns])
  /\ Unchanging

\* The types of one ISN after another.
Listed(q) == {i \in Isns : q.draft.isns[i].owner # Null}
ReadTypes(c) ==
  LET q == call[c] left == Listed(q) \ q.draft.typed IN
  /\ Now(c, "token", "types")
  /\ IF left = {} THEN Set(c, Moved(q, "grants"))
     ELSE \E i \in left : Set(c, [q EXCEPT !.draft.types[i] = types[i],
                                           !.draft.typed = @ \union {i}])
  /\ Unchanging

\* A grant in an ISN that was not listed yet ends the call (a nil pointer).
ReadGrants(c) ==
  LET q == call[c] granted == [i \in Isns |-> grants[i][q.target]] IN
  /\ Now(c, "token", "grants")
  /\ Set(c, IF q.found # "siteadmin" /\ \E i \in Isns \ Listed(q) : granted[i] # Null
            THEN NoCall
            ELSE [Moved(q, "effect") EXCEPT !.draft.grants = granted])
  /\ Unchanging

ClaimsOf(q) ==
  [role |-> q.found, asked |-> q.start,
   perms |-> [i \in Isns |->
     IF i \notin Listed(q) THEN Null
     ELSE PermOf(q.target, q.found, q.draft.isns[i], q.draft.types[i], q.draft.grants[i])]]
CreateAccessToken(c) ==
  \/ ReadAccount(c) \/ ReadIsns(c) \/ ReadTypes(c) \/ ReadGrants(c)
  \/ /\ Now(c, "token", "effect")
     /\ token' = [token EXCEPT ![call[c].target] = ClaimsOf(call[c])]
     /\ Set(c, NoCall)
     /\ UNCHANGED <<tables, written, begun>>

-----------------------------------------------------------------------------

\* A query fails, the request times out or the process dies.
Fail(c) == Running(c) /\ Refuse(c)

Quiet == begun = MaxCalls /\ (\A c \in Calls : ~Running(c)) /\ UNCHANGED vars

Serve(c) ==
  \/ RegisterUser(c) \/ RegisterServiceAccount(c)
  \/ GrantUserIsnAdminRole(c) \/ RevokeUserIsnAdminRole(c)
  \/ GrantUserSiteAdminRole(c) \/ RevokeUserSiteAdminRole(c)
  \/ DisableAccount(c) \/ EnableAccount(c) \/ GetUsers(c) \/ GetServiceAccounts(c)
  \/ CreateIsn(c) \/ UpdateIsn(c) \/ TransferIsnOwnership(c)
  \/ UpdateIsnAccountPermission(c) \/ GetIsnAccounts(c)
  \/ AddSignalTypeToISN(c) \/ UpdateIsnSignalTypeStatus(c) \/ CreateAccessToken(c)

Next == (\E c \in Calls : Begin(c) \/ Serve(c) \/ Fail(c)) \/ Quiet

Spec == Init /\ [][Next]_vars

-----------------------------------------------------------------------------
(* Properties *)

\* The type invariant.
TypeOK ==
  /\ accounts \in [Accounts -> AccountRow]
  /\ isns \in [Isns -> IsnRow]
  /\ types \in [Isns -> [Types -> {"absent", "on", "off"}]]
  /\ grants \in [Isns -> [Accounts -> (SUBSET Rights) \union {Null}]]
  /\ token \in [Accounts -> Claims \union {Null}]
  /\ written \in Nat
  /\ begun \in Nat
  /\ call \in [Calls -> Call]

\* Call c makes its change, or gives its answer, in this step.
Acts(c) == call[c].pc = "effect" /\ Serve(c)

\* Whatever an admin endpoint does or shows, it does for an account that has the role
\* it asks for and is active, or was and had when its token was asked for: a
\* demotion or a disabling ends with the token (auth.go:204 names 30 minutes).
ChangesByAdmins ==
  [][\A c \in Calls : Acts(c) /\ call[c].op \in AdminOps \union SiteOps =>
       LET a == accounts[call[c].caller] IN
       \/ a.role \in AllowedRoles(call[c].op) /\ a.active
       \/ a.since >= call[c].asked]_vars

\* users.go:253 ISN admins "can't change ISNs they don't own": one that is not
\* the owner changes nothing, and sees no account, of an ISN, whatever token
\* it has, unless the ISN was transferred while its call ran.
OnlyOwnersChange ==
  [][\A c \in Calls : Acts(c) /\ call[c].op \in OwnerOps =>
       \/ call[c].role = "siteadmin"
       \/ isns[call[c].isn].owner = call[c].caller
       \/ isns[call[c].isn].since >= call[c].start]_vars

\* The site loses its last site admin only to an account that is itself one
\* no more, and was when its token was asked for.
SiteAdmins == {p \in People : accounts[p].role = "siteadmin"}
SiteAdminRemains ==
  [][SiteAdmins # {} /\ SiteAdmins' = {} =>
       \E c \in Calls : /\ Acts(c)
                        /\ accounts[call[c].caller].role # "siteadmin"
                        /\ accounts[call[c].caller].since >= call[c].asked]_vars

\* What an account may do to signals of type t in ISN i, from the tables.
Policy(a, rights, i, t) ==
  /\ accounts[a].active /\ isns[i].inUse /\ types[i][t] = "on"
  /\ \/ accounts[a].role = "siteadmin"
     \/ accounts[a].role = "isnadmin" /\ isns[i].owner = a
     \/ grants[i][a] # Null /\ grants[i][a] \intersect rights # {}

\* A token decides as the tables do, if they have not changed since it was
\* asked for.
ClaimsMatchPolicy ==
  \A a \in Accounts : token[a] # Null /\ written < token[a].asked =>
    \A i \in Isns, t \in Types, rights \in {{"read"}, {"write"}, Rights} :
      Created(i) => (MayUse(token[a], rights, i, t) <=> Policy(a, rights, i, t))
=============================================================================
