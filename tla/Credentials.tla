---------------------------- MODULE Credentials ----------------------------
(***************************************************************************)
(* How an account gets access tokens and how that is stopped: log in,      *)
(* refresh and log out (users), set up, token, rotate, revoke and reissue  *)
(* (service accounts), disable and enable, and the two ways of changing a  *)
(* password.                                                               *)
(*                                                                         *)
(* A call is a process that runs the statements of its handler one by one  *)
(* (the programs below), each an action.  Outside a transaction the effect *)
(* of a statement is committed at once.  In one (Transactions) it is kept  *)
(* in the call until "commit", and the rows it wrote stay locked.          *)
(* Random tokens and secrets are never repeated (unused holds those not    *)
(* generated yet); a setup link is named by the secret it carries.  Times  *)
(* are counted in calls begun.                                             *)
(***************************************************************************)
EXTENDS Naturals, Sequences

CONSTANTS
  Users,      \* accounts with a password and refresh tokens
  Services,   \* accounts with client secrets
  Passwords,
  Tokens,     \* random values: refresh tokens, client secrets, reset tokens
  Calls,      \* calls served at a time
  MaxCalls,   \* bound on calls
  Null

Accounts == Users \union Services

ASSUME AccountAssumption ==
  /\ Users \intersect Services = {}
  /\ Null \notin Accounts \union Tokens \union Passwords
  /\ MaxCalls \in Nat

VARIABLES
  accounts,   \* table accounts: is_active, and when the account was disabled last
  users,      \* table users: the password, and when it was changed last
  creds,      \* tables refresh_tokens and client_secrets, which are alike
  links,      \* table one_time_client_secrets: the account of each setup link
  resets,     \* table password_reset_tokens: the user of each reset link
  unused,     \* the random values not generated yet
  begun,      \* calls begun so far
  call        \* the calls

tables == <<accounts, users, creds, links, resets, unused>>
vars == <<accounts, users, creds, links, resets, unused, begun, call>>

\* expired and revoked are 0 (not yet) or the time.
Credential == [account: Accounts, issued: Nat, expired: Nat, revoked: Nat]

ASSUME NullAssumption == Null \notin Credential

-----------------------------------------------------------------------------
(* The handlers, as the statements they run *)

Login   == <<"password", "active", "mint", "select", "revoke", "insert">>
Refresh == <<"session", "mint", "select", "revoke", "insert">>
Logout  == <<"session", "logout">>
Token   == <<"active", "secret", "mint">>
Revoke  == <<"active", "secret", "select", "revoke">>
Rotate  == <<"active", "secret", "select", "revoke", "insert", "commit">>
Reissue == <<"select", "revoke", "unlink", "link">>
Setup   == <<"opened", "select", "revoke", "insert", "unlink", "commit">>
Disable(a) ==
  IF a \in Services THEN <<"suspend", "select", "revoke", "unlink", "commit">>
  ELSE <<"suspend", "select", "revoke", "commit">>
Enable  == <<"enable">>
Change  == <<"password", "set">>
Forgot  == <<"clear", "offer">>
Reset   == <<"offered", "set", "clear", "commit">>

Program(op, a) ==
  [login   |-> Login,   refresh |-> Refresh,    logout |-> Logout,
   token   |-> Token,   revoke  |-> Revoke,     rotate |-> Rotate,
   reissue |-> Reissue, setup   |-> Setup,      disable |-> Disable(a),
   enable  |-> Enable,  change  |-> Change,     forgot |-> Forgot,
   reset   |-> Reset][op]

Transactions == {"rotate", "setup", "disable", "reset"}

-----------------------------------------------------------------------------
(* Calls *)

Statements == {"password", "active", "session", "secret", "mint", "select",
               "revoke", "insert", "logout", "unlink", "link", "opened",
               "suspend", "enable", "set", "clear", "offer", "offered", "commit"}
Ops == {"login", "refresh", "logout", "token", "revoke", "rotate", "reissue",
        "setup", "disable", "enable", "change", "forgot", "reset"}

Call ==
  [status: {"idle", "running", "ok", "failed"},
   op: Ops \union {Null},
   todo: Seq(Statements),         \* what it has still to do
   account: Accounts \union {Null},
   token: Tokens \union {Null},   \* the token, secret or link presented
   given: Passwords \union {Null},\* the password presented
   chosen: Passwords \union {Null},\* the new password
   start: Nat,
   found: SUBSET Tokens,          \* credentials a revocation has selected
   marked: SUBSET Tokens,         \* credentials its transaction has revoked
   fresh: Tokens \union {Null},   \* the credential its transaction has inserted
   gone: SUBSET Tokens]           \* links its transaction has deleted

NewCall(status, op, todo, a, t, p, n, start) ==
  [status |-> status, op |-> op, todo |-> todo, account |-> a,
   token |-> t, given |-> p, chosen |-> n, start |-> start,
   found |-> {}, marked |-> {}, fresh |-> Null, gone |-> {}]

NoCall == NewCall("idle", Null, <<>>, Null, Null, Null, Null, 0)

Running(c) == call[c].status = "running"
At(c, s)   == Running(c) /\ Head(call[c].todo) = s
InTx(c)    == call[c].op \in Transactions
\* c has executed statement s and not ended.
Past(c, s) == Running(c) /\ \A i \in DOMAIN call[c].todo : call[c].todo[i] # s

Ended(q, status) == [q EXCEPT !.status = status, !.todo = <<>>, !.found = {},
                              !.marked = {}, !.fresh = Null, !.gone = {}]
AdvancedOnly(q) == [q EXCEPT !.todo = Tail(@)]
Advanced(q) ==
  IF Len(q.todo) = 1 THEN Ended(q, "ok") ELSE [q EXCEPT !.todo = Tail(@)]

Go(c)     == call' = [call EXCEPT ![c] = Advanced(@)]
Refuse(c) == call' = [call EXCEPT ![c] = Ended(@, "failed")]

\* A statement that only reads: go on if cond holds, else refuse.
Check(c, cond) ==
  /\ IF cond THEN Go(c) ELSE Refuse(c)
  /\ UNCHANGED <<tables, begun>>

Row(a) == [account |-> a, issued |-> begun, expired |-> 0, revoked |-> 0]

\* A service account has the setup link of its registration, or no link.
Init ==
  /\ accounts = [a \in Accounts |-> [active |-> TRUE, disabled |-> 0]]
  /\ users \in [Users -> [password: Passwords, changed: {0}]]
  /\ creds = [t \in Tokens |-> Null]
  /\ links \in [Tokens -> Services \union {Null}]
  /\ \A t, u \in Tokens : links[t] = links[u] /\ links[t] # Null => t = u
  /\ resets = [t \in Tokens |-> Null]
  /\ unused = {t \in Tokens : links[t] = Null}
  /\ begun = 0
  /\ call = [c \in Calls |-> NoCall]

\* What a caller can present: its credentials, links it was sent, a password.
\* A refresh token names its account.  A client secret does not: the account is
\* that of the client_id, and the secret is looked up by its hash alone.
Held(t, owners) == creds[t] # Null /\ creds[t].account \in owners
Arrive(c, op, a, t, p, n) ==
  call' = [call EXCEPT ![c] =
             NewCall("running", op, Program(op, a), a, t, p, n, begun + 1)]

Begin(c) ==
  /\ ~Running(c)
  /\ begun < MaxCalls /\ begun' = begun + 1
  /\ \/ \E u \in Users, p \in Passwords : Arrive(c, "login", u, Null, p, Null)
     \/ \E t \in Tokens, op \in {"refresh", "logout"} :
          Held(t, Users) /\ Arrive(c, op, creds[t].account, t, Null, Null)
     \/ \E s \in Services, t \in Tokens, op \in {"token", "revoke", "rotate"} :
          Held(t, Services) /\ Arrive(c, op, s, t, Null, Null)
     \/ \E s \in Services : Arrive(c, "reissue", s, Null, Null, Null)
     \/ \E t \in Tokens : links[t] # Null /\ Arrive(c, "setup", links[t], t, Null, Null)
     \/ \E a \in Accounts, op \in {"disable", "enable"} :
          Arrive(c, op, a, Null, Null, Null)
     \/ \E u \in Users, p, n \in Passwords : Arrive(c, "change", u, Null, p, n)
     \/ \E u \in Users : Arrive(c, "forgot", u, Null, Null, Null)
     \/ \E t \in Tokens, n \in Passwords :
          resets[t] # Null /\ Arrive(c, "reset", resets[t], t, Null, n)
  /\ UNCHANGED tables

-----------------------------------------------------------------------------
(* Authentication *)

PasswordIgnored(c) == call[c].account \in Users
PasswordMatches(c) == users[call[c].account].password = call[c].given
CheckPassword(c) == At(c, "password") /\ Check(c, PasswordMatches(c))

IsActive(a) == accounts[a].active
CheckActive(c) == At(c, "active") /\ Check(c, IsActive(call[c].account))

\* GetValidRefreshTokenByHashedToken, GetValidClientSecretByHashedSecret.
Unrevoked(t) == creds[t] # Null /\ creds[t].revoked = 0
ValidUnrevokedOnly(t) == Unrevoked(t)
Valid(t) == Unrevoked(t) /\ creds[t].expired = 0

CheckSession(c) == At(c, "session") /\ Check(c, Valid(call[c].token))

\* To rotate a secret, an expired one will do.
CheckSecret(c) ==
  /\ At(c, "secret")
  /\ Check(c, IF call[c].op = "rotate" THEN Unrevoked(call[c].token)
              ELSE Valid(call[c].token))

\* CreateAccessToken looks at the account once more.
MintUnchecked(a) == TRUE
MayMint(a) == accounts[a].active
Mint(c) == At(c, "mint") /\ Check(c, MayMint(call[c].account))

-----------------------------------------------------------------------------
(* Credentials *)

\* A revocation selects the rows of the account that its statement sees ...
OnlyPresented(c) == {t \in Tokens : t = call[c].token}
OpenOf(c) == {t \in Tokens : Unrevoked(t) /\ creds[t].account = call[c].account}
Select(c) ==
  /\ At(c, "select")
  /\ call' = [call EXCEPT ![c] = [Advanced(@) EXCEPT !.found = OpenOf(c)]]
  /\ UNCHANGED <<tables, begun>>

RevokedIn(table, revoked) ==
  [t \in Tokens |-> IF t \in revoked THEN [table[t] EXCEPT !.revoked = begun]
                    ELSE table[t]]
Unlocked(c, rows) == \A d \in Calls \ {c} : call[d].marked \intersect rows = {}

\* ... then waits for the locks on them and revokes those still not revoked.
RevokeAll(c) ==
  LET rows == {t \in call[c].found : Unrevoked(t)} IN
  /\ At(c, "revoke")
  /\ Unlocked(c, call[c].found)
  /\ IF InTx(c)
     THEN /\ call' = [call EXCEPT ![c] = [Advanced(@) EXCEPT !.marked = rows]]
          /\ UNCHANGED creds
     ELSE Go(c) /\ creds' = RevokedIn(creds, rows)
  /\ UNCHANGED <<accounts, users, links, resets, unused, begun>>

\* InsertRefreshToken of a login or a refresh, CreateClientSecret of a rotation.
InsertNew(c) ==
  /\ At(c, "insert") /\ call[c].op # "setup"
  /\ \E t \in unused :
       /\ unused' = unused \ {t}
       /\ IF InTx(c)
          THEN /\ call' = [call EXCEPT ![c] = [Advanced(@) EXCEPT !.fresh = t]]
               /\ UNCHANGED creds
          ELSE Go(c) /\ creds' = [creds EXCEPT ![t] = Row(call[c].account)]
  /\ UNCHANGED <<accounts, users, links, resets, begun>>

\* CreateClientSecret of a setup: the secret of the link.  It is the primary
\* key: it waits for another setup of the link, and the second one fails.
KeyIgnored(t) == TRUE
KeyFree(t) == creds[t] = Null
InsertLinked(c) ==
  LET t == call[c].token IN
  /\ At(c, "insert") /\ call[c].op = "setup"
  /\ \A d \in Calls : call[d].fresh # t
  /\ IF KeyFree(t)
     THEN call' = [call EXCEPT ![c] = [Advanced(@) EXCEPT !.fresh = t]]
     ELSE Refuse(c)
  /\ UNCHANGED <<tables, begun>>

\* RevokeRefreshToken.
EndSession(c) ==
  /\ At(c, "logout")
  /\ Unlocked(c, {call[c].token})
  /\ creds' = RevokedIn(creds, {call[c].token})
  /\ Go(c)
  /\ UNCHANGED <<accounts, users, links, resets, unused, begun>>

-----------------------------------------------------------------------------
(* Setup links *)

ReadLink(c) == At(c, "opened") /\ Check(c, links[call[c].token] # Null)

\* A setup deletes its link, a reissue and a disabling those of the account.
LinksOf(c) ==
  {t \in Tokens : links[t] = call[c].account /\ (call[c].op = "setup" => t = call[c].token)}
Unlink(c) ==
  /\ At(c, "unlink")
  /\ \A d \in Calls \ {c} : call[d].gone \intersect LinksOf(c) = {}
  /\ IF InTx(c)
     THEN /\ call' = [call EXCEPT ![c] = [Advanced(@) EXCEPT !.gone = LinksOf(c)]]
          /\ UNCHANGED links
     ELSE /\ Go(c)
          /\ links' = [t \in Tokens |-> IF t \in LinksOf(c) THEN Null ELSE links[t]]
  /\ UNCHANGED <<accounts, users, creds, resets, unused, begun>>

CreateLink(c) ==
  /\ At(c, "link")
  /\ \E t \in unused : /\ unused' = unused \ {t}
                       /\ links' = [links EXCEPT ![t] = call[c].account]
  /\ Go(c)
  /\ UNCHANGED <<accounts, users, creds, resets, begun>>

-----------------------------------------------------------------------------
(* Accounts and passwords *)

\* The accounts row, or the users row, is locked by another call.
RowLocked(c, op, s) ==
  \E d \in Calls \ {c} :
    call[d].account = call[c].account /\ call[d].op = op /\ Past(d, s)

Suspend(c) ==
  /\ At(c, "suspend") /\ ~RowLocked(c, "disable", "suspend")
  /\ Go(c)
  /\ UNCHANGED <<tables, begun>>

EnableAccount(c) ==
  /\ At(c, "enable") /\ ~RowLocked(c, "disable", "suspend")
  /\ accounts' = [accounts EXCEPT ![call[c].account].active = TRUE]
  /\ Go(c)
  /\ UNCHANGED <<users, creds, links, resets, unused, begun>>

Chosen(c) == [password |-> call[c].chosen, changed |-> begun]
UpdatePassword(c) ==
  /\ At(c, "set") /\ ~RowLocked(c, "reset", "set")
  /\ users' = IF InTx(c) THEN users ELSE [users EXCEPT ![call[c].account] = Chosen(c)]
  /\ Go(c)
  /\ UNCHANGED <<accounts, creds, links, resets, unused, begun>>

ReadReset(c) == At(c, "offered") /\ Check(c, resets[call[c].token] # Null)

\* A reset deletes the link it used, a new link the earlier ones of the user.
ResetsOf(c) ==
  IF call[c].op = "reset" THEN {call[c].token} \intersect {t \in Tokens : resets[t] # Null}
  ELSE {t \in Tokens : resets[t] = call[c].account}
DeleteResets(c) ==
  /\ At(c, "clear")
  /\ \A d \in Calls \ {c} : call[d].gone \intersect ResetsOf(c) = {}
  /\ IF InTx(c)
     THEN /\ call' = [call EXCEPT ![c] = [Advanced(@) EXCEPT !.gone = ResetsOf(c)]]
          /\ UNCHANGED resets
     ELSE /\ Go(c)
          /\ resets' = [t \in Tokens |-> IF t \in ResetsOf(c) THEN Null ELSE resets[t]]
  /\ UNCHANGED <<accounts, users, creds, links, unused, begun>>

CreateReset(c) ==
  /\ At(c, "offer")
  /\ \E t \in unused : /\ unused' = unused \ {t}
                       /\ resets' = [resets EXCEPT ![t] = call[c].account]
  /\ Go(c)
  /\ UNCHANGED <<accounts, users, creds, links, begun>>

-----------------------------------------------------------------------------
(* The end of a transaction, failures and time *)

Remaining(table, c) == [t \in Tokens |-> IF t \in call[c].gone THEN Null ELSE table[t]]

\* An error from COMMIT does not tell whether the transaction was applied.
Commit(c) ==
  LET q == call[c] IN
  /\ At(c, "commit")
  /\ creds' = [t \in Tokens |-> IF t = q.fresh THEN Row(q.account)
                               ELSE RevokedIn(creds, q.marked)[t]]
  /\ links' = Remaining(links, c)
  /\ resets' = Remaining(resets, c)
  /\ accounts' = IF q.op # "disable" THEN accounts
                 ELSE [accounts EXCEPT ![q.account] = [active |-> FALSE, disabled |-> begun]]
  /\ users' = IF q.op # "reset" THEN users
              ELSE [users EXCEPT ![q.account] = Chosen(c)]
  /\ Go(c) \/ Refuse(c)
  /\ UNCHANGED <<unused, begun>>

\* A statement fails, the request times out or the process dies: what was
\* committed stays, a transaction is rolled back.
Fail(c) == Running(c) /\ Refuse(c) /\ UNCHANGED <<tables, begun>>

\* A credential, or a link, passes its expires_at.
Expire(t) ==
  /\ Unrevoked(t) /\ creds[t].expired = 0
  /\ creds' = [creds EXCEPT ![t].expired = begun]
  /\ UNCHANGED <<accounts, users, links, resets, unused, begun, call>>

ExpireLink(t) ==
  /\ links[t] # Null \/ resets[t] # Null
  /\ links' = [links EXCEPT ![t] = Null]
  /\ resets' = [resets EXCEPT ![t] = Null]
  /\ UNCHANGED <<accounts, users, creds, unused, begun, call>>

Quiet == begun = MaxCalls /\ (\A c \in Calls : ~Running(c)) /\ UNCHANGED vars

Step(c) ==
  \/ CheckPassword(c) \/ CheckActive(c) \/ CheckSession(c) \/ CheckSecret(c)
  \/ Mint(c) \/ Select(c) \/ RevokeAll(c) \/ InsertNew(c) \/ InsertLinked(c)
  \/ EndSession(c) \/ ReadLink(c) \/ Unlink(c) \/ CreateLink(c)
  \/ Suspend(c) \/ EnableAccount(c) \/ UpdatePassword(c)
  \/ ReadReset(c) \/ DeleteResets(c) \/ CreateReset(c) \/ Commit(c)

Next ==
  \/ \E c \in Calls : Begin(c) \/ Step(c) \/ Fail(c)
  \/ \E t \in Tokens : Expire(t) \/ ExpireLink(t)
  \/ Quiet

Spec == Init /\ [][Next]_vars

-----------------------------------------------------------------------------
(* Properties *)

\* The type invariant.
TypeOK ==
  /\ accounts \in [Accounts -> [active: BOOLEAN, disabled: Nat]]
  /\ users \in [Users -> [password: Passwords, changed: Nat]]
  /\ creds \in [Tokens -> Credential \union {Null}]
  /\ links \in [Tokens -> Services \union {Null}]
  /\ resets \in [Tokens -> Users \union {Null}]
  /\ unused \subseteq Tokens
  /\ begun \in 0..MaxCalls
  /\ call \in [Calls -> Call]
  /\ \A c \in Calls : Running(c) => call[c].todo # <<>>

\* The call was answered with an access token.
GotToken(c) == call[c].status = "ok" /\ call[c].op \in {"login", "refresh", "token"}

\* Disabling an account locks it out: no call that begins afterwards gets an
\* access token for it, whatever survived of its credentials, until it is
\* enabled again.
DisabledAccountGetsNoToken ==
  \A c \in Calls : GotToken(c) =>
    LET a == accounts[call[c].account] IN ~a.active => call[c].start <= a.disabled

\* A credential that was revoked or has expired gets no access token in any
\* call that begins afterwards, however the revoking call was interleaved, for
\* whichever account it is presented.
DeadCredentialGetsNoToken ==
  \A c \in Calls : GotToken(c) /\ call[c].token # Null =>
    LET cred == creds[call[c].token] IN
    /\ cred.revoked # 0 => call[c].start <= cred.revoked
    /\ cred.expired # 0 => call[c].start <= cred.expired

\* After a password was changed, by either way, the old one logs nobody in.
OldPasswordGetsNoToken ==
  \A c \in Calls : GotToken(c) /\ call[c].op = "login" =>
    LET u == users[call[c].account] IN
    u.password # call[c].given => call[c].start <= u.changed

\* The call has revoked what it found: outside a transaction for good, whatever
\* becomes of the call, in one when it was committed.
HasRevoked(c) ==
  \/ call[c].status = "ok"
  \/ call[c].op \notin Transactions /\ Past(c, "revoke")

\* A login, a refresh, a reissue, a setup, a revocation and a disabling each end
\* every credential the account had when they began, also if what follows the
\* revocation fails.  (Nothing is said of a rotation: tokens.go:239 gives the old
\* secret five minutes more, the statement ends it at once.)
EarlierCredentialsEnd ==
  \A c \in Calls :
    /\ HasRevoked(c)
    /\ call[c].op \in {"login", "refresh", "revoke", "reissue", "setup", "disable"}
    => \A t \in Tokens :
         creds[t] # Null /\ creds[t].account = call[c].account
           /\ creds[t].issued < call[c].start
         => creds[t].revoked # 0

\* A setup link shows its secret once, even to two readers at a time.
SetupLinkUsedOnce ==
  \A c, d \in Calls :
    /\ call[c].status = "ok" /\ call[c].op = "setup"
    /\ call[d].status = "ok" /\ call[d].op = "setup"
    /\ c # d
    => call[c].token # call[d].token

-----------------------------------------------------------------------------
(* What the documentation says and the code does not do *)

\* admin.go:155 disabling an account "Revokes all refresh tokens (web users)".
DisabledUserHasNoSession ==
  \A t \in Tokens : creds[t] # Null /\ creds[t].account \in Users =>
    accounts[creds[t].account].active \/ ~Valid(t)
=============================================================================
