------------------------- MODULE Credentials_proofs -------------------------
(***************************************************************************)
(* For any accounts, calls and credentials: the types of Credentials, that *)
(* a disabled account gets no access token, that a dead credential and an  *)
(* old password are of no use, that a call that ends the credentials of an *)
(* account ends all that are older than itself, and that a setup link      *)
(* works once.                                                             *)
(***************************************************************************)
EXTENDS Credentials, SequenceTheorems, TLAPS

-----------------------------------------------------------------------------
(* The inductive invariant *)

All(todo)  == {todo[i] : i \in 1..Len(todo)}
Rest(todo) == {todo[i] : i \in 2..Len(todo)}

\* A running call is inside the program of its operation, and has what the
\* remaining statements use.
Fit(q) ==
  /\ q.status = "ok" => q.todo = <<>>
  /\ q.status = "running" =>
    /\ q.op \in Ops /\ q.account \in Accounts
    /\ q.todo # <<>>
    /\ All(q.todo) \subseteq All(Program(q.op, q.account))
    /\ q.op \in {"change", "reset"} => q.chosen \in Passwords
    /\ q.op \in {"login", "change", "forgot", "reset"} => q.account \in Users
    /\ q.op = "reissue" => q.account \in Services
    /\ q.op \in {"logout", "setup"} => q.token \in Tokens
    /\ q.op = "logout" => creds[q.token] # Null
    /\ \A t \in q.found \union q.marked : creds[t] # Null

\* A call that is past CreateAccessToken, for an account that is disabled
\* now, began before that.
Barred(q) ==
  /\ q.start <= begun
  /\ (/\ q.status \in {"running", "ok"}
      /\ q.op \in {"login", "refresh", "token"}
      /\ "mint" \notin All(q.todo))
     => (/\ q.account \in Accounts
         /\ ~accounts[q.account].active => q.start <= accounts[q.account].disabled)

TablesOK ==
  /\ accounts \in [Accounts -> [active: BOOLEAN, disabled: Nat]]
  /\ users \in [Users -> [password: Passwords, changed: Nat]]
  /\ creds \in [Tokens -> Credential \union {Null}]
  /\ links \in [Tokens -> Services \union {Null}]
  /\ resets \in [Tokens -> Users \union {Null}]
  /\ unused \subseteq Tokens
  /\ begun \in 0..MaxCalls

CallsOK ==
  /\ call \in [Calls -> Call]
  /\ \A c \in Calls : Fit(call[c]) /\ Barred(call[c])

IInv == TypeOK /\ \A c \in Calls : Fit(call[c]) /\ Barred(call[c])

-----------------------------------------------------------------------------
(* Programs *)

LEMMA ProgramType ==
  ASSUME NEW op \in Ops, NEW a
  PROVE  /\ Program(op, a) \in Seq(Statements)
         /\ Program(op, a) # <<>>
<1>1. CASE op = "login"
  <2>1. Program(op, a) = Login
    BY <1>1 DEF Program
  <2>2. Login \in Seq(Statements) /\ Login # <<>>
    BY DEF Login, Statements
  <2> QED
    BY <2>1, <2>2
<1>2. CASE op = "refresh"
  <2>1. Program(op, a) = Refresh
    BY <1>2 DEF Program
  <2>2. Refresh \in Seq(Statements) /\ Refresh # <<>>
    BY DEF Refresh, Statements
  <2> QED
    BY <2>1, <2>2
<1>3. CASE op = "logout"
  <2>1. Program(op, a) = Logout
    BY <1>3 DEF Program
  <2>2. Logout \in Seq(Statements) /\ Logout # <<>>
    BY DEF Logout, Statements
  <2> QED
    BY <2>1, <2>2
<1>4. CASE op = "token"
  <2>1. Program(op, a) = Token
    BY <1>4 DEF Program
  <2>2. Token \in Seq(Statements) /\ Token # <<>>
    BY DEF Token, Statements
  <2> QED
    BY <2>1, <2>2
<1>5. CASE op = "revoke"
  <2>1. Program(op, a) = Revoke
    BY <1>5 DEF Program
  <2>2. Revoke \in Seq(Statements) /\ Revoke # <<>>
    BY DEF Revoke, Statements
  <2> QED
    BY <2>1, <2>2
<1>6. CASE op = "rotate"
  <2>1. Program(op, a) = Rotate
    BY <1>6 DEF Program
  <2>2. Rotate \in Seq(Statements) /\ Rotate # <<>>
    BY DEF Rotate, Statements
  <2> QED
    BY <2>1, <2>2
<1>7. CASE op = "reissue"
  <2>1. Program(op, a) = Reissue
    BY <1>7 DEF Program
  <2>2. Reissue \in Seq(Statements) /\ Reissue # <<>>
    BY DEF Reissue, Statements
  <2> QED
    BY <2>1, <2>2
<1>8. CASE op = "setup"
  <2>1. Program(op, a) = Setup
    BY <1>8 DEF Program
  <2>2. Setup \in Seq(Statements) /\ Setup # <<>>
    BY DEF Setup, Statements
  <2> QED
    BY <2>1, <2>2
<1>9. CASE op = "disable"
  <2>1. Program(op, a) = Disable(a)
    BY <1>9 DEF Program
  <2>2. CASE a \in Services
    BY <2>1, <2>2 DEF Disable, Statements
  <2>3. CASE a \notin Services
    BY <2>1, <2>3 DEF Disable, Statements
  <2> QED
    BY <2>2, <2>3
<1>10. CASE op = "enable"
  <2>1. Program(op, a) = Enable
    BY <1>10 DEF Program
  <2>2. Enable \in Seq(Statements) /\ Enable # <<>>
    BY DEF Enable, Statements
  <2> QED
    BY <2>1, <2>2
<1>11. CASE op = "change"
  <2>1. Program(op, a) = Change
    BY <1>11 DEF Program
  <2>2. Change \in Seq(Statements) /\ Change # <<>>
    BY DEF Change, Statements
  <2> QED
    BY <2>1, <2>2
<1>12. CASE op = "forgot"
  <2>1. Program(op, a) = Forgot
    BY <1>12 DEF Program
  <2>2. Forgot \in Seq(Statements) /\ Forgot # <<>>
    BY DEF Forgot, Statements
  <2> QED
    BY <2>1, <2>2
<1>13. CASE op = "reset"
  <2>1. Program(op, a) = Reset
    BY <1>13 DEF Program
  <2>2. Reset \in Seq(Statements) /\ Reset # <<>>
    BY DEF Reset, Statements
  <2> QED
    BY <2>1, <2>2
<1> QED
  BY <1>1, <1>2, <1>3, <1>4, <1>5, <1>6, <1>7, <1>8, <1>9, <1>10, <1>11, <1>12, <1>13 DEF Ops

\* Which operations run a statement.
LEMMA StatementOps ==
  ASSUME NEW op \in Ops, NEW a, NEW s \in All(Program(op, a))
  PROVE  /\ s = "link" => op = "reissue"
         /\ s = "offer" => op = "forgot"
         /\ s = "set" => op \in {"change", "reset"}
         /\ s = "logout" => op = "logout"
         /\ s = "enable" => op = "enable"
<1>1. CASE op = "login"
  <2>1. Program(op, a) = Login
    BY <1>1 DEF Program
  <2> QED
    BY <1>1, <2>1 DEF All, Login
<1>2. CASE op = "refresh"
  <2>1. Program(op, a) = Refresh
    BY <1>2 DEF Program
  <2> QED
    BY <1>2, <2>1 DEF All, Refresh
<1>3. CASE op = "logout"
  <2>1. Program(op, a) = Logout
    BY <1>3 DEF Program
  <2> QED
    BY <1>3, <2>1 DEF All, Logout
<1>4. CASE op = "token"
  <2>1. Program(op, a) = Token
    BY <1>4 DEF Program
  <2> QED
    BY <1>4, <2>1 DEF All, Token
<1>5. CASE op = "revoke"
  <2>1. Program(op, a) = Revoke
    BY <1>5 DEF Program
  <2> QED
    BY <1>5, <2>1 DEF All, Revoke
<1>6. CASE op = "rotate"
  <2>1. Program(op, a) = Rotate
    BY <1>6 DEF Program
  <2> QED
    BY <1>6, <2>1 DEF All, Rotate
<1>7. CASE op = "reissue"
  <2>1. Program(op, a) = Reissue
    BY <1>7 DEF Program
  <2> QED
    BY <1>7, <2>1 DEF All, Reissue
<1>8. CASE op = "setup"
  <2>1. Program(op, a) = Setup
    BY <1>8 DEF Program
  <2> QED
    BY <1>8, <2>1 DEF All, Setup
<1>9. CASE op = "disable"
  <2>1. Program(op, a) = Disable(a)
    BY <1>9 DEF Program
  <2> QED
    BY <1>9, <2>1 DEF All, Disable
<1>10. CASE op = "enable"
  <2>1. Program(op, a) = Enable
    BY <1>10 DEF Program
  <2> QED
    BY <1>10, <2>1 DEF All, Enable
<1>11. CASE op = "change"
  <2>1. Program(op, a) = Change
    BY <1>11 DEF Program
  <2> QED
    BY <1>11, <2>1 DEF All, Change
<1>12. CASE op = "forgot"
  <2>1. Program(op, a) = Forgot
    BY <1>12 DEF Program
  <2> QED
    BY <1>12, <2>1 DEF All, Forgot
<1>13. CASE op = "reset"
  <2>1. Program(op, a) = Reset
    BY <1>13 DEF Program
  <2> QED
    BY <1>13, <2>1 DEF All, Reset
<1> QED
  BY <1>1, <1>2, <1>3, <1>4, <1>5, <1>6, <1>7, <1>8, <1>9, <1>10, <1>11, <1>12, <1>13 DEF Ops

\* Every operation that yields an access token runs CreateAccessToken.
LEMMA TokensAreMinted ==
  ASSUME NEW op \in {"login", "refresh", "token"}, NEW a
  PROVE  "mint" \in All(Program(op, a))
<1>1. CASE op = "login"
  <2>1. Len(Login) = 6 /\ Login[3] = "mint"
    BY DEF Login
  <2> QED
    BY <1>1, <2>1 DEF All, Program
<1>2. CASE op = "refresh"
  <2>1. Len(Refresh) = 5 /\ Refresh[2] = "mint"
    BY DEF Refresh
  <2> QED
    BY <1>2, <2>1 DEF All, Program
<1>3. CASE op = "token"
  <2>1. Len(Token) = 3 /\ Token[3] = "mint"
    BY DEF Token
  <2> QED
    BY <1>3, <2>1 DEF All, Program
<1> QED
  BY <1>1, <1>2, <1>3

-----------------------------------------------------------------------------
(* Steps of one call *)

\* q is what call p becomes by a statement.
Follows(q, p) ==
  /\ q \in Call
  /\ q.op = p.op /\ q.account = p.account /\ q.token = p.token
  /\ q.chosen = p.chosen /\ q.given = p.given /\ q.start = p.start
  /\ q.status \in {"running", "ok", "failed"}
  /\ q.status = "running" => q.todo # <<>>
  /\ q.status = "ok" => q.todo = <<>>
  /\ All(q.todo) \subseteq Rest(p.todo)
  /\ q.status # "failed" => Rest(p.todo) \subseteq All(q.todo)

LEMMA EndedFollows ==
  ASSUME NEW p \in Call
  PROVE  /\ Follows(Ended(p, "failed"), p)
         /\ Ended(p, "failed").status = "failed"
         /\ Ended(p, "failed").found = {} /\ Ended(p, "failed").marked = {}
<1>1. Ended(p, "failed") \in Call
  BY EmptySeq DEF Ended, Call
<1>2. All(<<>>) = {}
  BY DEF All
<1> QED
  BY <1>1, <1>2 DEF Ended, Call, Follows

LEMMA LongIsNotEmpty ==
  ASSUME NEW s \in Seq(Statements), Len(s) # 0
  PROVE  s # <<>>
<1> SUFFICES ASSUME s = <<>> PROVE FALSE
  OBVIOUS
<1>1. Len(s) = Len(<<>>)
  OBVIOUS
<1> QED
  BY <1>1, EmptySeq

LEMMA AdvancedFollows ==
  ASSUME NEW p \in Call, p.status = "running", p.todo # <<>>
  PROVE  /\ Follows(Advanced(p), p)
         /\ Advanced(p).found \subseteq p.found
         /\ Advanced(p).marked \subseteq p.marked
<1>1. p.todo \in Seq(Statements) /\ Len(p.todo) \in Nat /\ Len(p.todo) > 0
  BY DEF Call
<1>2. CASE Len(p.todo) = 1
  <2>1. Advanced(p) = Ended(p, "ok")
    BY <1>2 DEF Advanced
  <2>2. Ended(p, "ok") \in Call
    BY EmptySeq DEF Ended, Call
  <2>3. All(<<>>) = {} /\ Rest(p.todo) = {}
    BY <1>2 DEF All, Rest
  <2> QED
    BY <2>1, <2>2, <2>3 DEF Ended, Call, Follows
<1>3. CASE Len(p.todo) # 1
  <2>1. Advanced(p) = [p EXCEPT !.todo = Tail(p.todo)]
    BY <1>3 DEF Advanced
  <2>2. /\ Tail(p.todo) \in Seq(Statements)
        /\ Len(Tail(p.todo)) = Len(p.todo) - 1
        /\ \A i \in 1..Len(Tail(p.todo)) : Tail(p.todo)[i] = p.todo[i + 1]
    BY <1>1
  <2>3. Tail(p.todo) # <<>>
    <3>1. Len(Tail(p.todo)) # 0
      BY <1>1, <1>3, <2>2
    <3> QED
      BY <2>2, <3>1, LongIsNotEmpty
  <2>4. All(Tail(p.todo)) \subseteq Rest(p.todo)
    BY <1>1, <2>2 DEF All, Rest
  <2>5. Rest(p.todo) \subseteq All(Tail(p.todo))
    <3> SUFFICES ASSUME NEW i \in 2..Len(p.todo)
                 PROVE  p.todo[i] \in All(Tail(p.todo))
      BY DEF Rest
    <3>1. i - 1 \in 1..Len(Tail(p.todo)) /\ Tail(p.todo)[i - 1] = p.todo[i]
      BY <1>1, <2>2
    <3> QED
      BY <3>1 DEF All
  <2> QED
    BY <2>1, <2>2, <2>3, <2>4, <2>5 DEF Call, Follows
<1> QED
  BY <1>2, <1>3

\* Statement q of call c may be taken: what the rest of the proof needs of it.
Moves(c, q) ==
  /\ Follows(q, call[c])
  /\ call' = [call EXCEPT ![c] = q]
  /\ q.status = "running" => \A t \in q.found \union q.marked : creds[t] # Null
  /\ Head(call[c].todo) = "mint" /\ q.status # "failed" =>
       accounts[call[c].account].active

LEMMA GoMoves ==
  ASSUME IInv, NEW c \in Calls, Running(c), Go(c),
         Head(call[c].todo) # "mint" \/ accounts[call[c].account].active
  PROVE  \E q : Moves(c, q)
<1>1. call[c] \in Call /\ call[c].status = "running" /\ call[c].todo # <<>>
  BY DEF IInv, TypeOK, Running
<1>2. Moves(c, Advanced(call[c]))
  BY <1>1, AdvancedFollows DEF IInv, Fit, Go, Moves
<1> QED
  BY <1>2

LEMMA RefuseMoves ==
  ASSUME IInv, NEW c \in Calls, Running(c), Refuse(c)
  PROVE  \E q : Moves(c, q)
<1>1. call[c] \in Call
  BY DEF IInv, TypeOK
<1>2. Moves(c, Ended(call[c], "failed"))
  BY <1>1, EndedFollows DEF Refuse, Moves
<1> QED
  BY <1>2

\* Advancing and remembering something on the way.
LEMMA ChangedFollows ==
  ASSUME NEW p \in Call, NEW q, Follows(q, p), NEW rows \in SUBSET Tokens,
         NEW t \in Tokens \union {Null}
  PROVE  /\ Follows([q EXCEPT !.found = rows], p)
         /\ Follows([q EXCEPT !.marked = rows], p)
         /\ Follows([q EXCEPT !.gone = rows], p)
         /\ Follows([q EXCEPT !.fresh = t], p)
<1>1. q \in Call
  BY DEF Follows
<1>2. Follows([q EXCEPT !.found = rows], p)
  <2>1. [q EXCEPT !.found = rows] \in Call
    BY <1>1 DEF Call
  <2> QED
    BY <1>1, <2>1 DEF Follows, Call
<1>3. Follows([q EXCEPT !.marked = rows], p)
  <2>1. [q EXCEPT !.marked = rows] \in Call
    BY <1>1 DEF Call
  <2> QED
    BY <1>1, <2>1 DEF Follows, Call
<1>4. Follows([q EXCEPT !.gone = rows], p)
  <2>1. [q EXCEPT !.gone = rows] \in Call
    BY <1>1 DEF Call
  <2> QED
    BY <1>1, <2>1 DEF Follows, Call
<1>5. Follows([q EXCEPT !.fresh = t], p)
  <2>1. [q EXCEPT !.fresh = t] \in Call
    BY <1>1 DEF Call
  <2> QED
    BY <1>1, <2>1 DEF Follows, Call
<1> QED
  BY <1>2, <1>3, <1>4, <1>5

LEMMA TypeSplit == IInv <=> TablesOK /\ CallsOK
  BY DEF IInv, TypeOK, TablesOK, CallsOK, Fit, Running

\* A step of one call keeps every call fit and barred, if no credential is
\* forgotten and no account is disabled with an earlier time than now.
LEMMA CallStep ==
  ASSUME IInv, NEW c \in Calls, Running(c), NEW q, Moves(c, q),
         begun' = begun,
         \A t \in Tokens : creds[t] # Null => creds'[t] # Null,
         \A a \in Accounts :
           \/ accounts'[a] = accounts[a]
           \/ accounts'[a].active
           \/ accounts'[a].disabled = begun
  PROVE  CallsOK'
<1>1. /\ call[c] \in Call /\ call[c].status = "running"
      /\ q \in Call
      /\ call' \in [Calls -> Call]
      /\ call'[c] = q
      /\ \A d \in Calls : d # c => call'[d] = call[d]
      /\ call \in [Calls -> Call]
      /\ begun \in Nat
  BY AccountAssumption DEF IInv, TypeOK, Running, Moves, Follows
<1>2. \A d \in Calls : call[d].found \subseteq Tokens /\ call[d].marked \subseteq Tokens
                       /\ call[d].start \in Nat
  BY <1>1 DEF Call
<1>3. \A d \in Calls : d # c => Fit(call[d])' /\ Barred(call[d])'
  <2> SUFFICES ASSUME NEW d \in Calls, d # c
               PROVE  Fit(call[d])' /\ Barred(call[d])'
    OBVIOUS
  <2>1. Fit(call[d])'
    BY <1>1, <1>2 DEF IInv, Fit
  <2>2. Barred(call[d])'
    BY <1>1, <1>2 DEF IInv, Barred
  <2> QED
    BY <2>1, <2>2
<1>4. Fit(call[c])'
  <2>1. Fit(call[c])
    BY DEF IInv
  <2>2. Rest(call[c].todo) \subseteq All(call[c].todo)
    BY DEF Rest, All
  <2>3. q.found \subseteq Tokens /\ q.marked \subseteq Tokens
    BY <1>1 DEF Call
  <2>4. /\ q.status = "running" => \A t \in q.found \union q.marked : creds'[t] # Null
        /\ q.op = "logout" => creds'[q.token] # Null
    BY <1>1, <2>1, <2>3 DEF Moves, Follows, Fit
  <2>5. /\ q.op = call[c].op /\ q.account = call[c].account /\ q.token = call[c].token
        /\ q.chosen = call[c].chosen
        /\ q.status = "running" => q.todo # <<>>
        /\ q.status = "ok" => q.todo = <<>>
        /\ All(q.todo) \subseteq Rest(call[c].todo)
    BY DEF Moves, Follows
  <2> QED
    BY <1>1, <2>1, <2>2, <2>4, <2>5 DEF Fit
<1>5. Barred(call[c])'
  <2>1. Barred(call[c]) /\ call[c].account \in Accounts
    BY <1>1 DEF IInv, Fit
  <2>2. "mint" \in All(call[c].todo) =>
          "mint" \in Rest(call[c].todo) \/ Head(call[c].todo) = "mint"
    <3>1. call[c].todo \in Seq(Statements)
      BY <1>1 DEF Call
    <3> QED
      BY <3>1 DEF All, Rest
  <2>3. /\ q.op = call[c].op /\ q.account = call[c].account /\ q.start = call[c].start
        /\ q.status # "failed" => Rest(call[c].todo) \subseteq All(q.todo)
        /\ Head(call[c].todo) = "mint" /\ q.status # "failed" =>
             accounts[call[c].account].active
    BY DEF Moves, Follows
  <2>4. q.start \in Nat /\ q.start <= begun
    BY <1>2, <2>1, <2>3 DEF Barred
  <2> QED
    BY <1>1, <2>1, <2>2, <2>3, <2>4 DEF Barred
<1> QED
  BY <1>1, <1>3, <1>4, <1>5 DEF CallsOK

-----------------------------------------------------------------------------
(* Every action preserves the invariant *)

\* A statement that changes no table.
LEMMA QuietStep ==
  ASSUME IInv, NEW c \in Calls, Running(c), NEW q, Moves(c, q), UNCHANGED <<tables, begun>>
  PROVE  IInv'
<1>1. CallsOK'
  BY CallStep DEF tables
<1>2. TablesOK'
  BY TypeSplit DEF TablesOK, tables
<1> QED
  BY <1>1, <1>2, TypeSplit, PTL

LEMMA CheckStep ==
  ASSUME IInv, NEW c \in Calls, Running(c), NEW cond, Check(c, cond),
         Head(call[c].todo) = "mint" /\ cond => accounts[call[c].account].active
  PROVE  IInv'
<1>1. CASE cond
  <2>1. PICK q : Moves(c, q)
    BY <1>1, GoMoves DEF Check
  <2> QED
    BY <2>1, QuietStep DEF Check
<1>2. CASE ~cond
  <2>1. PICK q : Moves(c, q)
    BY <1>2, RefuseMoves DEF Check
  <2> QED
    BY <2>1, QuietStep DEF Check
<1> QED
  BY <1>1, <1>2

LEMMA RevokedType ==
  ASSUME TablesOK, NEW S, \A t \in S : creds[t] # Null
  PROVE  /\ RevokedIn(creds, S) \in [Tokens -> Credential \union {Null}]
         /\ \A t \in Tokens : creds[t] # Null => RevokedIn(creds, S)[t] # Null
<1>1. begun \in Nat
  BY AccountAssumption DEF TablesOK
<1>2. \A t \in Tokens : creds[t] # Null => [creds[t] EXCEPT !.revoked = begun] \in Credential
  BY <1>1 DEF TablesOK, Credential
<1>3. \A t \in Tokens : creds[t] # Null => RevokedIn(creds, S)[t] \in Credential
  BY <1>2 DEF TablesOK, RevokedIn
<1>4. \A t \in Tokens : creds[t] = Null => RevokedIn(creds, S)[t] = Null
  BY DEF RevokedIn
<1> QED
  BY <1>3, <1>4, NullAssumption DEF RevokedIn

LEMMA RowType ==
  ASSUME TablesOK, NEW a \in Accounts
  PROVE  Row(a) \in Credential /\ Row(a) # Null
<1>1. begun \in Nat
  BY AccountAssumption DEF TablesOK
<1> QED
  BY <1>1, NullAssumption DEF Row, Credential

\* What a running call has.
LEMMA RunningFits ==
  ASSUME IInv, NEW c \in Calls, NEW s, At(c, s)
  PROVE  /\ Running(c) /\ call[c] \in Call /\ Fit(call[c])
         /\ Head(call[c].todo) = s
         /\ call[c].op \in Ops /\ call[c].account \in Accounts
         /\ s \in All(Program(call[c].op, call[c].account))
<1>1. /\ Running(c) /\ call[c] \in Call /\ Fit(call[c]) /\ Head(call[c].todo) = s
      /\ call[c].todo \in Seq(Statements) /\ call[c].todo # <<>>
  BY DEF At, IInv, TypeOK, Running, Fit, Call
<1>2. Len(call[c].todo) \in Nat \ {0}
  BY <1>1, EmptySeq
<1>3. s \in All(call[c].todo)
  BY <1>1, <1>2 DEF All
<1> QED
  BY <1>1, <1>3 DEF Fit, Running

\* Going on with something remembered in the call.
LEMMA RememberMoves ==
  ASSUME IInv, NEW c \in Calls, Running(c), Head(call[c].todo) # "mint",
         NEW rows \in SUBSET Tokens, \A t \in rows : creds[t] # Null,
         NEW gone \in SUBSET Tokens, NEW t0 \in Tokens \union {Null}
  PROVE  /\ call' = [call EXCEPT ![c] = [Advanced(@) EXCEPT !.found = rows]]
              => \E q : Moves(c, q)
         /\ call' = [call EXCEPT ![c] = [Advanced(@) EXCEPT !.marked = rows]]
              => \E q : Moves(c, q)
         /\ call' = [call EXCEPT ![c] = [Advanced(@) EXCEPT !.gone = gone]]
              => \E q : Moves(c, q)
         /\ call' = [call EXCEPT ![c] = [Advanced(@) EXCEPT !.fresh = t0]]
              => \E q : Moves(c, q)
<1>1. call[c] \in Call /\ call[c].status = "running" /\ call[c].todo # <<>>
      /\ \A t \in call[c].found \union call[c].marked : creds[t] # Null
  BY DEF IInv, TypeOK, Running, Fit
<1>2. PICK p : p = Advanced(call[c])
  OBVIOUS
<1>3. /\ Follows(p, call[c]) /\ p \in Call
      /\ \A t \in p.found \union p.marked : creds[t] # Null
  BY <1>1, <1>2, AdvancedFollows DEF Follows
<1>4. ASSUME call' = [call EXCEPT ![c] = [Advanced(@) EXCEPT !.found = rows]]
      PROVE  Moves(c, [p EXCEPT !.found = rows])
  <2>1. Follows([p EXCEPT !.found = rows], call[c])
    BY <1>1, <1>3, ChangedFollows
  <2>2. [p EXCEPT !.found = rows].found = rows /\ [p EXCEPT !.found = rows].marked = p.marked
    BY <1>3 DEF Call
  <2> QED
    BY <1>2, <1>3, <1>4, <2>1, <2>2 DEF Moves
<1>5. ASSUME call' = [call EXCEPT ![c] = [Advanced(@) EXCEPT !.marked = rows]]
      PROVE  Moves(c, [p EXCEPT !.marked = rows])
  <2>1. Follows([p EXCEPT !.marked = rows], call[c])
    BY <1>1, <1>3, ChangedFollows
  <2>2. [p EXCEPT !.marked = rows].marked = rows /\ [p EXCEPT !.marked = rows].found = p.found
    BY <1>3 DEF Call
  <2> QED
    BY <1>2, <1>3, <1>5, <2>1, <2>2 DEF Moves
<1>6. ASSUME call' = [call EXCEPT ![c] = [Advanced(@) EXCEPT !.gone = gone]]
      PROVE  Moves(c, [p EXCEPT !.gone = gone])
  <2>1. Follows([p EXCEPT !.gone = gone], call[c])
    BY <1>1, <1>3, ChangedFollows
  <2>2. [p EXCEPT !.gone = gone].marked = p.marked /\ [p EXCEPT !.gone = gone].found = p.found
    BY <1>3 DEF Call
  <2> QED
    BY <1>2, <1>3, <1>6, <2>1, <2>2 DEF Moves
<1>7. ASSUME call' = [call EXCEPT ![c] = [Advanced(@) EXCEPT !.fresh = t0]]
      PROVE  Moves(c, [p EXCEPT !.fresh = t0])
  <2>1. Follows([p EXCEPT !.fresh = t0], call[c])
    BY <1>1, <1>3, ChangedFollows
  <2>2. [p EXCEPT !.fresh = t0].marked = p.marked /\ [p EXCEPT !.fresh = t0].found = p.found
    BY <1>3 DEF Call
  <2> QED
    BY <1>2, <1>3, <1>7, <2>1, <2>2 DEF Moves
<1> QED
  BY <1>4, <1>5, <1>6, <1>7

\* What a call remembers nothing of.
LEMMA Nothing ==
  {} \in SUBSET Tokens /\ (\A t \in {} : creds[t] # Null) /\ Null \in Tokens \union {Null}
OBVIOUS

LEMMA ChecksPreserve ==
  ASSUME IInv, NEW c \in Calls,
         \/ CheckPassword(c) \/ CheckActive(c) \/ CheckSession(c)
         \/ CheckSecret(c) \/ Mint(c) \/ ReadLink(c) \/ ReadReset(c)
  PROVE  IInv'
<1>1. CASE CheckPassword(c)
  BY <1>1, CheckStep DEF CheckPassword, At
<1>2. CASE CheckActive(c)
  BY <1>2, CheckStep DEF CheckActive, At
<1>3. CASE CheckSession(c)
  BY <1>3, CheckStep DEF CheckSession, At
<1>4. CASE CheckSecret(c)
  BY <1>4, CheckStep DEF CheckSecret, At
<1>5. CASE Mint(c)
  BY <1>5, CheckStep DEF Mint, MayMint, At
<1>6. CASE ReadLink(c)
  BY <1>6, CheckStep DEF ReadLink, At
<1>7. CASE ReadReset(c)
  BY <1>7, CheckStep DEF ReadReset, At
<1> QED
  BY <1>1, <1>2, <1>3, <1>4, <1>5, <1>6, <1>7

LEMMA SelectPreserves ==
  ASSUME IInv, NEW c \in Calls, Select(c)
  PROVE  IInv'
<1>1. At(c, "select")
  BY DEF Select
<1>2. OpenOf(c) \in SUBSET Tokens /\ \A t \in OpenOf(c) : creds[t] # Null
  BY DEF OpenOf, Unrevoked
<1>3. PICK q : Moves(c, q)
  <2>1. Running(c) /\ Head(call[c].todo) = "select"
    BY <1>1, RunningFits
  <2>2. call' = [call EXCEPT ![c] = [Advanced(@) EXCEPT !.found = OpenOf(c)]]
    BY DEF Select
  <2> QED
    BY <1>2, <2>1, <2>2, Nothing, RememberMoves
<1> QED
  BY <1>1, <1>3, QuietStep, RunningFits DEF Select

LEMMA RevokeAllPreserves ==
  ASSUME IInv, NEW c \in Calls, RevokeAll(c)
  PROVE  IInv'
<1>1. At(c, "revoke") /\ TablesOK
  BY TypeSplit DEF RevokeAll
<1>2. Running(c) /\ Head(call[c].todo) = "revoke" /\ call[c] \in Call
  BY <1>1, RunningFits
<1>3. PICK rows : rows = {t \in call[c].found : Unrevoked(t)}
  OBVIOUS
<1>4. rows \in SUBSET Tokens /\ \A t \in rows : creds[t] # Null
  BY <1>2, <1>3 DEF Unrevoked, Call
<1>5. CASE InTx(c)
  <2>1. call' = [call EXCEPT ![c] = [Advanced(@) EXCEPT !.marked = rows]]
        /\ UNCHANGED <<tables, begun>>
    BY <1>3, <1>5 DEF RevokeAll, tables
  <2>2. PICK q : Moves(c, q)
    BY <1>2, <1>4, <2>1, RememberMoves
  <2> QED
    BY <1>2, <2>1, <2>2, QuietStep
<1>6. CASE ~InTx(c)
  <2>1. Go(c) /\ creds' = RevokedIn(creds, rows)
        /\ UNCHANGED <<accounts, users, links, resets, unused, begun>>
    BY <1>3, <1>6 DEF RevokeAll
  <2>2. PICK q : Moves(c, q)
    BY <1>2, <2>1, GoMoves
  <2>3. /\ creds' \in [Tokens -> Credential \union {Null}]
        /\ \A t \in Tokens : creds[t] # Null => creds'[t] # Null
    BY <1>1, <1>4, <2>1, RevokedType
  <2>4. CallsOK'
    BY <1>2, <2>1, <2>2, <2>3, CallStep
  <2>5. TablesOK'
    BY <1>1, <2>1, <2>3 DEF TablesOK
  <2> QED
    BY <2>4, <2>5, TypeSplit, PTL
<1> QED
  BY <1>5, <1>6

LEMMA InsertNewPreserves ==
  ASSUME IInv, NEW c \in Calls, InsertNew(c)
  PROVE  IInv'
<1>1. At(c, "insert") /\ TablesOK
  BY TypeSplit DEF InsertNew
<1>2. Running(c) /\ Head(call[c].todo) = "insert" /\ call[c].account \in Accounts
  BY <1>1, RunningFits
<1>3. PICK t \in unused :
        /\ unused' = unused \ {t}
        /\ IF InTx(c)
           THEN /\ call' = [call EXCEPT ![c] = [Advanced(@) EXCEPT !.fresh = t]]
                /\ UNCHANGED creds
           ELSE Go(c) /\ creds' = [creds EXCEPT ![t] = Row(call[c].account)]
  BY DEF InsertNew
<1>4. t \in Tokens /\ UNCHANGED <<accounts, users, links, resets, begun>>
  BY <1>1 DEF TablesOK, InsertNew
<1>5. CASE InTx(c)
  <2>1. PICK q : Moves(c, q)
    <3>1. call' = [call EXCEPT ![c] = [Advanced(@) EXCEPT !.fresh = t]]
      BY <1>3, <1>5
    <3> QED
      BY <1>2, <1>4, <3>1, Nothing, RememberMoves
  <2>2. CallsOK'
    BY <1>2, <1>3, <1>4, <1>5, <2>1, CallStep
  <2>3. TablesOK'
    BY <1>1, <1>3, <1>4, <1>5 DEF TablesOK
  <2> QED
    BY <2>2, <2>3, TypeSplit, PTL
<1>6. CASE ~InTx(c)
  <2>1. PICK q : Moves(c, q)
    BY <1>2, <1>3, <1>6, GoMoves
  <2>2. /\ creds' \in [Tokens -> Credential \union {Null}]
        /\ \A u \in Tokens : creds[u] # Null => creds'[u] # Null
    BY <1>1, <1>2, <1>3, <1>4, <1>6, RowType DEF TablesOK
  <2>3. CallsOK'
    BY <1>2, <1>4, <2>1, <2>2, CallStep
  <2>4. TablesOK'
    BY <1>1, <1>3, <1>4, <2>2 DEF TablesOK
  <2> QED
    BY <2>3, <2>4, TypeSplit, PTL
<1> QED
  BY <1>5, <1>6

LEMMA InsertLinkedPreserves ==
  ASSUME IInv, NEW c \in Calls, InsertLinked(c)
  PROVE  IInv'
<1>1. At(c, "insert") /\ UNCHANGED <<tables, begun>>
  BY DEF InsertLinked
<1>2. Running(c) /\ Head(call[c].todo) = "insert" /\ call[c].token \in Tokens \union {Null}
  BY <1>1, RunningFits DEF Call
<1>3. PICK q : Moves(c, q)
  <2>1. CASE KeyFree(call[c].token)
    <3>1. call' = [call EXCEPT ![c] = [Advanced(@) EXCEPT !.fresh = call[c].token]]
      BY <2>1 DEF InsertLinked
    <3> QED
      BY <1>2, <3>1, Nothing, RememberMoves
  <2>2. CASE ~KeyFree(call[c].token)
    BY <1>2, <2>2, RefuseMoves DEF InsertLinked
  <2> QED
    BY <2>1, <2>2
<1> QED
  BY <1>1, <1>2, <1>3, QuietStep

LEMMA EndSessionPreserves ==
  ASSUME IInv, NEW c \in Calls, EndSession(c)
  PROVE  IInv'
<1>1. At(c, "logout") /\ TablesOK /\ Go(c)
      /\ creds' = RevokedIn(creds, {call[c].token})
      /\ UNCHANGED <<accounts, users, links, resets, unused, begun>>
  BY TypeSplit DEF EndSession
<1>2. Running(c) /\ Head(call[c].todo) = "logout" /\ call[c].op = "logout"
      /\ Fit(call[c])
  BY <1>1, RunningFits, StatementOps
<1>3. creds[call[c].token] # Null
  BY <1>2 DEF Fit, Running
<1>4. PICK q : Moves(c, q)
  BY <1>1, <1>2, GoMoves
<1>5. /\ creds' \in [Tokens -> Credential \union {Null}]
      /\ \A t \in Tokens : creds[t] # Null => creds'[t] # Null
  BY <1>1, <1>3, RevokedType
<1>6. CallsOK'
  BY <1>1, <1>2, <1>4, <1>5, CallStep
<1>7. TablesOK'
  BY <1>1, <1>5 DEF TablesOK
<1> QED
  BY <1>6, <1>7, TypeSplit, PTL

LEMMA UnlinkPreserves ==
  ASSUME IInv, NEW c \in Calls, Unlink(c)
  PROVE  IInv'
<1>1. At(c, "unlink") /\ TablesOK
      /\ UNCHANGED <<accounts, users, creds, resets, unused, begun>>
  BY TypeSplit DEF Unlink
<1>2. Running(c) /\ Head(call[c].todo) = "unlink"
  BY <1>1, RunningFits
<1>3. LinksOf(c) \in SUBSET Tokens
  BY DEF LinksOf
<1>4. PICK q : Moves(c, q)
  <2>1. CASE InTx(c)
    BY <1>2, <1>3, <2>1, RememberMoves DEF Unlink
  <2>2. CASE ~InTx(c)
    BY <1>2, <2>2, GoMoves DEF Unlink
  <2> QED
    BY <2>1, <2>2
<1>5. links' \in [Tokens -> Services \union {Null}]
  BY <1>1 DEF Unlink, TablesOK
<1>6. CallsOK'
  BY <1>1, <1>2, <1>4, CallStep
<1>7. TablesOK'
  BY <1>1, <1>5 DEF TablesOK
<1> QED
  BY <1>6, <1>7, TypeSplit, PTL

LEMMA DeleteResetsPreserves ==
  ASSUME IInv, NEW c \in Calls, DeleteResets(c)
  PROVE  IInv'
<1>1. At(c, "clear") /\ TablesOK
      /\ UNCHANGED <<accounts, users, creds, links, unused, begun>>
  BY TypeSplit DEF DeleteResets
<1>2. Running(c) /\ Head(call[c].todo) = "clear" /\ call[c] \in Call
  BY <1>1, RunningFits
<1>3. ResetsOf(c) \in SUBSET Tokens
  BY DEF ResetsOf
<1>4. PICK q : Moves(c, q)
  <2>1. CASE InTx(c)
    BY <1>2, <1>3, <2>1, RememberMoves DEF DeleteResets
  <2>2. CASE ~InTx(c)
    BY <1>2, <2>2, GoMoves DEF DeleteResets
  <2> QED
    BY <2>1, <2>2
<1>5. resets' \in [Tokens -> Users \union {Null}]
  BY <1>1 DEF DeleteResets, TablesOK
<1>6. CallsOK'
  BY <1>1, <1>2, <1>4, CallStep
<1>7. TablesOK'
  BY <1>1, <1>5 DEF TablesOK
<1> QED
  BY <1>6, <1>7, TypeSplit, PTL

LEMMA CreatesPreserve ==
  ASSUME IInv, NEW c \in Calls, CreateLink(c) \/ CreateReset(c)
  PROVE  IInv'
<1>1. CASE CreateLink(c)
  <2>1. At(c, "link") /\ TablesOK /\ Go(c)
        /\ UNCHANGED <<accounts, users, creds, resets, begun>>
    BY <1>1, TypeSplit DEF CreateLink
  <2>2. Running(c) /\ Head(call[c].todo) = "link" /\ call[c].op = "reissue" /\ Fit(call[c])
    BY <2>1, RunningFits, StatementOps
  <2>3. call[c].account \in Services
    BY <2>2 DEF Fit, Running
  <2>4. PICK q : Moves(c, q)
    BY <2>1, <2>2, GoMoves
  <2>5. CallsOK'
    BY <2>1, <2>2, <2>4, CallStep
  <2>6. TablesOK'
    BY <1>1, <2>1, <2>3 DEF TablesOK, CreateLink
  <2> QED
    BY <2>5, <2>6, TypeSplit, PTL
<1>2. CASE CreateReset(c)
  <2>1. At(c, "offer") /\ TablesOK /\ Go(c)
        /\ UNCHANGED <<accounts, users, creds, links, begun>>
    BY <1>2, TypeSplit DEF CreateReset
  <2>2. Running(c) /\ Head(call[c].todo) = "offer" /\ call[c].op = "forgot" /\ Fit(call[c])
    BY <2>1, RunningFits, StatementOps
  <2>3. call[c].account \in Users
    BY <2>2 DEF Fit, Running
  <2>4. PICK q : Moves(c, q)
    BY <2>1, <2>2, GoMoves
  <2>5. CallsOK'
    BY <2>1, <2>2, <2>4, CallStep
  <2>6. TablesOK'
    BY <1>2, <2>1, <2>3 DEF TablesOK, CreateReset
  <2> QED
    BY <2>5, <2>6, TypeSplit, PTL
<1> QED
  BY <1>1, <1>2

LEMMA AccountsPreserve ==
  ASSUME IInv, NEW c \in Calls, Suspend(c) \/ EnableAccount(c) \/ UpdatePassword(c)
  PROVE  IInv'
<1>1. CASE Suspend(c)
  <2>1. At(c, "suspend") /\ Go(c) /\ UNCHANGED <<tables, begun>>
    BY <1>1 DEF Suspend
  <2>2. Running(c) /\ Head(call[c].todo) = "suspend"
    BY <2>1, RunningFits
  <2> QED
    BY <2>1, <2>2, GoMoves, QuietStep
<1>2. CASE EnableAccount(c)
  <2>1. At(c, "enable") /\ TablesOK /\ Go(c)
        /\ accounts' = [accounts EXCEPT ![call[c].account].active = TRUE]
        /\ UNCHANGED <<users, creds, links, resets, unused, begun>>
    BY <1>2, TypeSplit DEF EnableAccount
  <2>2. Running(c) /\ Head(call[c].todo) = "enable" /\ call[c].account \in Accounts
    BY <2>1, RunningFits
  <2>3. PICK q : Moves(c, q)
    BY <2>1, <2>2, GoMoves
  <2>4. /\ accounts' \in [Accounts -> [active: BOOLEAN, disabled: Nat]]
        /\ \A a \in Accounts : accounts'[a] = accounts[a] \/ accounts'[a].active
    BY <2>1, <2>2 DEF TablesOK
  <2>5. CallsOK'
    BY <2>1, <2>2, <2>3, <2>4, CallStep
  <2>6. TablesOK'
    BY <2>1, <2>4 DEF TablesOK
  <2> QED
    BY <2>5, <2>6, TypeSplit, PTL
<1>3. CASE UpdatePassword(c)
  <2>1. At(c, "set") /\ TablesOK /\ Go(c)
        /\ UNCHANGED <<accounts, creds, links, resets, unused, begun>>
    BY <1>3, TypeSplit DEF UpdatePassword
  <2>2. Running(c) /\ Head(call[c].todo) = "set" /\ call[c].op \in {"change", "reset"}
        /\ Fit(call[c])
    BY <2>1, RunningFits, StatementOps
  <2>3. Chosen(c) \in [password: Passwords, changed: Nat]
    BY <2>1, <2>2, AccountAssumption DEF Chosen, Fit, Running, TablesOK
  <2>4. PICK q : Moves(c, q)
    BY <2>1, <2>2, GoMoves
  <2>5. CallsOK'
    BY <2>1, <2>2, <2>4, CallStep
  <2>6. TablesOK'
    BY <1>3, <2>1, <2>3 DEF TablesOK, UpdatePassword
  <2> QED
    BY <2>5, <2>6, TypeSplit, PTL
<1> QED
  BY <1>1, <1>2, <1>3

LEMMA CommitPreserves ==
  ASSUME IInv, NEW c \in Calls, Commit(c)
  PROVE  IInv'
<1>1. At(c, "commit") /\ TablesOK /\ (Go(c) \/ Refuse(c)) /\ UNCHANGED <<unused, begun>>
  BY TypeSplit DEF Commit
<1>2. /\ Running(c) /\ Head(call[c].todo) = "commit" /\ Fit(call[c])
      /\ call[c] \in Call /\ call[c].account \in Accounts
  BY <1>1, RunningFits
<1>3. PICK q : Moves(c, q)
  BY <1>1, <1>2, GoMoves, RefuseMoves
<1>4. begun \in Nat
  BY <1>1, AccountAssumption DEF TablesOK
<1>5. /\ creds' \in [Tokens -> Credential \union {Null}]
      /\ \A t \in Tokens : creds[t] # Null => creds'[t] # Null
  <2>1. \A t \in call[c].marked : creds[t] # Null
    BY <1>2 DEF Fit, Running
  <2>2. /\ RevokedIn(creds, call[c].marked) \in [Tokens -> Credential \union {Null}]
        /\ \A t \in Tokens : creds[t] # Null => RevokedIn(creds, call[c].marked)[t] # Null
    BY <1>1, <2>1, RevokedType
  <2>3. Row(call[c].account) \in Credential /\ Row(call[c].account) # Null
    BY <1>1, <1>2, RowType
  <2>4. creds' = [t \in Tokens |-> IF t = call[c].fresh THEN Row(call[c].account)
                                   ELSE RevokedIn(creds, call[c].marked)[t]]
    BY DEF Commit
  <2> QED
    BY <2>2, <2>3, <2>4
<1>6. /\ accounts' \in [Accounts -> [active: BOOLEAN, disabled: Nat]]
      /\ \A a \in Accounts : accounts'[a] = accounts[a] \/ accounts'[a].disabled = begun
  BY <1>1, <1>2, <1>4 DEF TablesOK, Commit
<1>7. users' \in [Users -> [password: Passwords, changed: Nat]]
  <2>1. CASE call[c].op = "reset"
    <3>1. Chosen(c) \in [password: Passwords, changed: Nat]
      BY <1>2, <1>4, <2>1 DEF Chosen, Fit, Running
    <3> QED
      BY <1>1, <2>1, <3>1 DEF TablesOK, Commit
  <2>2. CASE call[c].op # "reset"
    BY <1>1, <2>2 DEF TablesOK, Commit
  <2> QED
    BY <2>1, <2>2
<1>8. /\ links' \in [Tokens -> Services \union {Null}]
      /\ resets' \in [Tokens -> Users \union {Null}]
  BY <1>1 DEF TablesOK, Commit, Remaining
<1>9. CallsOK'
  BY <1>1, <1>2, <1>3, <1>5, <1>6, CallStep
<1>10. TablesOK'
  BY <1>1, <1>5, <1>6, <1>7, <1>8 DEF TablesOK
<1> QED
  BY <1>9, <1>10, TypeSplit, PTL

\* A new call is fit: it has its whole program before it.
LEMMA ArriveStep ==
  ASSUME IInv, NEW c \in Calls, NEW op \in Ops, NEW a \in Accounts,
         NEW t \in Tokens \union {Null}, NEW p \in Passwords \union {Null},
         NEW n \in Passwords \union {Null},
         Arrive(c, op, a, t, p, n), begun' = begun + 1, begun < MaxCalls,
         UNCHANGED tables,
         op \in {"change", "reset"} => n \in Passwords,
         op \in {"login", "change", "forgot", "reset"} => a \in Users,
         op = "reissue" => a \in Services,
         op \in {"logout", "setup"} => t \in Tokens,
         op = "logout" => creds[t] # Null
  PROVE  IInv'
<1>1. /\ TablesOK /\ begun \in Nat /\ begun' \in 0..MaxCalls
      /\ call \in [Calls -> Call]
  BY TypeSplit, AccountAssumption DEF TablesOK, CallsOK
<1>2. PICK todo : todo = Program(op, a)
  OBVIOUS
<1>3. todo \in Seq(Statements) /\ todo # <<>>
  BY <1>2, ProgramType
<1>4. PICK q : q = [status |-> "running", op |-> op, todo |-> todo, account |-> a,
                    token |-> t, given |-> p, chosen |-> n, start |-> begun + 1,
                    found |-> {}, marked |-> {}, fresh |-> Null, gone |-> {}]
  OBVIOUS
<1>5. q \in Call
  BY <1>1, <1>3, <1>4 DEF Call
<1>6. call' = [call EXCEPT ![c] = q]
  BY <1>2, <1>4 DEF Arrive, NewCall
<1>7. call' \in [Calls -> Call] /\ call'[c] = q /\ \A d \in Calls : d # c => call'[d] = call[d]
  BY <1>1, <1>5, <1>6
<1>8. op \in {"login", "refresh", "token"} => "mint" \in All(todo)
  BY <1>2, TokensAreMinted
<1>9. \A d \in Calls : Fit(call[d])' /\ Barred(call[d])'
  <2> SUFFICES ASSUME NEW d \in Calls
               PROVE  Fit(call[d])' /\ Barred(call[d])'
    OBVIOUS
  <2>1. CASE d = c
    <3>1. Fit(call[c])'
      BY <1>2, <1>3, <1>4, <1>7 DEF Fit, tables
    <3>2. Barred(call[c])'
      BY <1>1, <1>4, <1>7, <1>8 DEF Barred
    <3> QED
      BY <2>1, <3>1, <3>2
  <2>2. CASE d # c
    <3>1. Fit(call[d]) /\ Barred(call[d]) /\ call[d].start \in Nat
      BY <1>1 DEF IInv, Call
    <3>2. Fit(call[d])'
      BY <1>7, <2>2, <3>1 DEF Fit, tables
    <3>3. Barred(call[d])'
      BY <1>1, <1>7, <2>2, <3>1 DEF Barred, tables
    <3> QED
      BY <3>2, <3>3
  <2> QED
    BY <2>1, <2>2
<1>10. CallsOK'
  BY <1>7, <1>9 DEF CallsOK
<1>11. TablesOK'
  BY <1>1 DEF TablesOK, tables
<1> QED
  BY <1>10, <1>11, TypeSplit, PTL

LEMMA BeginPreserves ==
  ASSUME IInv, NEW c \in Calls, Begin(c)
  PROVE  IInv'
<1>1. TablesOK /\ begun' = begun + 1 /\ begun < MaxCalls /\ UNCHANGED tables
  BY TypeSplit DEF Begin
<1>2. Null \in Tokens \union {Null} /\ Null \in Passwords \union {Null}
  OBVIOUS
<1>3. CASE \E u \in Users, p \in Passwords : Arrive(c, "login", u, Null, p, Null)
  <2>1. PICK u \in Users, p \in Passwords : Arrive(c, "login", u, Null, p, Null)
    BY <1>3
  <2>2. "login" \in Ops /\ u \in Accounts
    BY DEF Ops, Accounts
  <2> QED
    BY <1>1, <1>2, <2>1, <2>2, ArriveStep
<1>4. CASE \E t \in Tokens, op \in {"refresh", "logout"} :
             Held(t, Users) /\ Arrive(c, op, creds[t].account, t, Null, Null)
  <2>1. PICK t \in Tokens, op \in {"refresh", "logout"} :
             Held(t, Users) /\ Arrive(c, op, creds[t].account, t, Null, Null)
    BY <1>4
  <2>2. /\ op \in Ops \ {"login", "token", "setup"}
        /\ creds[t].account \in Accounts /\ creds[t] # Null
    BY <2>1 DEF Ops, Held, Accounts
  <2> QED
    BY <1>1, <1>2, <2>1, <2>2, ArriveStep
<1>4a. CASE \E s \in Services, t \in Tokens, op \in {"token", "revoke", "rotate"} :
             Held(t, Services) /\ Arrive(c, op, s, t, Null, Null)
  <2>1. PICK s \in Services, t \in Tokens, op \in {"token", "revoke", "rotate"} :
             Held(t, Services) /\ Arrive(c, op, s, t, Null, Null)
    BY <1>4a
  <2>2. /\ op \in Ops \ {"login", "refresh", "setup"}
        /\ s \in Accounts /\ creds[t] # Null
    BY <2>1 DEF Ops, Held, Accounts
  <2> QED
    BY <1>1, <1>2, <2>1, <2>2, ArriveStep
<1>5. CASE \E s \in Services : Arrive(c, "reissue", s, Null, Null, Null)
  <2>1. PICK s \in Services : Arrive(c, "reissue", s, Null, Null, Null)
    BY <1>5
  <2>2. "reissue" \in Ops /\ s \in Accounts
    BY DEF Ops, Accounts
  <2> QED
    BY <1>1, <1>2, <2>1, <2>2, ArriveStep
<1>6. CASE \E t \in Tokens : links[t] # Null /\ Arrive(c, "setup", links[t], t, Null, Null)
  <2>1. PICK t \in Tokens : links[t] # Null /\ Arrive(c, "setup", links[t], t, Null, Null)
    BY <1>6
  <2>2. "setup" \in Ops /\ links[t] \in Accounts
    BY <1>1, <2>1 DEF Ops, Accounts, TablesOK
  <2> QED
    BY <1>1, <1>2, <2>1, <2>2, ArriveStep
<1>7. CASE \E a \in Accounts, op \in {"disable", "enable"} :
             Arrive(c, op, a, Null, Null, Null)
  <2>1. PICK a \in Accounts, op \in {"disable", "enable"} :
             Arrive(c, op, a, Null, Null, Null)
    BY <1>7
  <2>2. op \in Ops
    BY DEF Ops
  <2> QED
    BY <1>1, <1>2, <2>1, <2>2, ArriveStep
<1>8. CASE \E u \in Users, p, n \in Passwords : Arrive(c, "change", u, Null, p, n)
  <2>1. PICK u \in Users, p \in Passwords, n \in Passwords : Arrive(c, "change", u, Null, p, n)
    BY <1>8
  <2>2. "change" \in Ops /\ u \in Accounts
    BY DEF Ops, Accounts
  <2> QED
    BY <1>1, <1>2, <2>1, <2>2, ArriveStep
<1>9. CASE \E u \in Users : Arrive(c, "forgot", u, Null, Null, Null)
  <2>1. PICK u \in Users : Arrive(c, "forgot", u, Null, Null, Null)
    BY <1>9
  <2>2. "forgot" \in Ops /\ u \in Accounts
    BY DEF Ops, Accounts
  <2> QED
    BY <1>1, <1>2, <2>1, <2>2, ArriveStep
<1>10. CASE \E t \in Tokens, n \in Passwords :
             resets[t] # Null /\ Arrive(c, "reset", resets[t], t, Null, n)
  <2>1. PICK t \in Tokens, n \in Passwords :
             resets[t] # Null /\ Arrive(c, "reset", resets[t], t, Null, n)
    BY <1>10
  <2>2. "reset" \in Ops /\ resets[t] \in Users /\ resets[t] \in Accounts
    BY <1>1, <2>1 DEF Ops, Accounts, TablesOK
  <2> QED
    BY <1>1, <1>2, <2>1, <2>2, ArriveStep
<1> QED
  BY <1>3, <1>4, <1>4a, <1>5, <1>6, <1>7, <1>8, <1>9, <1>10 DEF Begin

LEMMA FailPreserves ==
  ASSUME IInv, NEW c \in Calls, Fail(c)
  PROVE  IInv'
<1>1. PICK q : Moves(c, q)
  BY RefuseMoves DEF Fail
<1> QED
  BY <1>1, QuietStep DEF Fail

LEMMA ExpirePreserves ==
  ASSUME IInv, NEW t \in Tokens, Expire(t) \/ ExpireLink(t)
  PROVE  IInv'
<1>1. TablesOK /\ CallsOK /\ begun \in Nat
  BY TypeSplit, AccountAssumption DEF TablesOK
<1>2. UNCHANGED <<accounts, users, unused, begun, call>>
  BY DEF Expire, ExpireLink
<1>3. /\ creds' \in [Tokens -> Credential \union {Null}]
      /\ \A u \in Tokens : creds[u] # Null => creds'[u] # Null
  <2>1. CASE Expire(t)
    <3>1. creds[t] \in Credential
      BY <1>1, <2>1 DEF Expire, Unrevoked, TablesOK
    <3>2. [creds[t] EXCEPT !.expired = begun] \in Credential
      BY <1>1, <3>1 DEF Credential
    <3>3. creds' = [creds EXCEPT ![t] = [creds[t] EXCEPT !.expired = begun]]
      BY <1>1, <2>1 DEF Expire, TablesOK
    <3> QED
      BY <1>1, <3>2, <3>3, NullAssumption DEF TablesOK
  <2>2. CASE ExpireLink(t)
    BY <1>1, <2>2 DEF ExpireLink, TablesOK
  <2> QED
    BY <2>1, <2>2
<1>4. /\ links' \in [Tokens -> Services \union {Null}]
      /\ resets' \in [Tokens -> Users \union {Null}]
  BY <1>1 DEF Expire, ExpireLink, TablesOK
<1>5. TablesOK'
  BY <1>1, <1>2, <1>3, <1>4 DEF TablesOK
<1>6. \A c \in Calls : call[c].found \subseteq Tokens /\ call[c].marked \subseteq Tokens
  BY <1>1 DEF CallsOK, Call
<1>7. \A c \in Calls : Fit(call[c])' /\ Barred(call[c])'
  <2> SUFFICES ASSUME NEW c \in Calls
               PROVE  Fit(call[c])' /\ Barred(call[c])'
    OBVIOUS
  <2>1. Fit(call[c])'
    BY <1>1, <1>2, <1>3, <1>6 DEF CallsOK, Fit
  <2>2. Barred(call[c])'
    BY <1>1, <1>2 DEF CallsOK, Barred
  <2> QED
    BY <2>1, <2>2
<1>8. CallsOK'
  BY <1>1, <1>2, <1>7 DEF CallsOK
<1> QED
  BY <1>5, <1>8, TypeSplit, PTL

LEMMA InvariantInit == Init => IInv
<1> SUFFICES ASSUME Init PROVE IInv
  OBVIOUS
<1>1. TablesOK
  BY AccountAssumption DEF Init, TablesOK
<1>2. NoCall \in Call
  BY EmptySeq DEF NoCall, NewCall, Call
<1>3. \A c \in Calls : Fit(call[c]) /\ Barred(call[c])
  BY DEF Init, NoCall, NewCall, Fit, Barred
<1>4. CallsOK
  BY <1>2, <1>3 DEF Init, CallsOK
<1> QED
  BY <1>1, <1>4, TypeSplit

LEMMA InvariantStep == IInv /\ [Next]_vars => IInv'
<1> SUFFICES ASSUME IInv, [Next]_vars PROVE IInv'
  OBVIOUS
<1>1. CASE UNCHANGED vars
  BY <1>1 DEF vars, IInv, TypeOK, Fit, Barred, Running
<1>2. CASE \E c \in Calls : Begin(c)
  BY <1>2, BeginPreserves
<1>3. CASE \E c \in Calls : Step(c)
  BY <1>3, ChecksPreserve, SelectPreserves, RevokeAllPreserves, InsertNewPreserves,
     InsertLinkedPreserves, EndSessionPreserves, UnlinkPreserves, CreatesPreserve,
     AccountsPreserve, DeleteResetsPreserves, CommitPreserves DEF Step
<1>4. CASE \E c \in Calls : Fail(c)
  BY <1>4, FailPreserves
<1>5. CASE \E t \in Tokens : Expire(t) \/ ExpireLink(t)
  BY <1>5, ExpirePreserves
<1> QED
  BY <1>1, <1>2, <1>3, <1>4, <1>5 DEF Next, Quiet

LEMMA InvariantHolds == Spec => []IInv
  BY InvariantInit, InvariantStep, PTL DEF Spec

-----------------------------------------------------------------------------
(* The theorems *)

\* Every table and every call always has its type, whatever the number of
\* accounts, calls and credentials: no statement of a handler reads a value
\* that the statements before it have not fetched.
THEOREM CredentialTypes == Spec => []TypeOK
<1>1. IInv => TypeOK
  BY DEF IInv
<1> QED
  BY <1>1, InvariantHolds, PTL

\* A disabled account gets no access token in a call that begins after it was
\* disabled: every way to a token passes CreateAccessToken, which looks at
\* is_active once more, whatever is left of the account's credentials.
THEOREM DisabledGetsNoToken == Spec => []DisabledAccountGetsNoToken
<1>1. IInv => DisabledAccountGetsNoToken
  <2> SUFFICES ASSUME IInv, NEW c \in Calls, GotToken(c),
                      ~accounts[call[c].account].active
               PROVE  call[c].start <= accounts[call[c].account].disabled
    BY DEF DisabledAccountGetsNoToken
  <2>1. "mint" \notin All(call[c].todo)
    BY EmptySeq DEF IInv, Fit, GotToken, All
  <2> QED
    BY <2>1 DEF IInv, Barred, GotToken
<1> QED
  BY <1>1, InvariantHolds, PTL


-----------------------------------------------------------------------------
(* The invariant of the use of credentials, on top of IInv *)

\* Every revocation selects before it revokes; a transaction ends with its
\* COMMIT and nothing else does.
Ordered(todo) ==
  /\ \A i, j \in 1..Len(todo) : todo[i] = "revoke" /\ todo[j] = "select" => j < i
  /\ \A i \in 1..Len(todo) : todo[i] = "commit" => i = Len(todo)
Tidy(q) ==
  q.status = "running" =>
    /\ Ordered(q.todo)
    /\ q.op \in Transactions => q.todo[Len(q.todo)] = "commit"
    /\ q.start > 0

\* The credential that was presented was good when it was looked up.
Presented(q) ==
  q.status \in {"running", "ok"} =>
    /\ q.op = "login" => q.token = Null
    /\ q.op \in {"refresh", "token"} =>
         /\ q.token \in Tokens /\ creds[q.token] # Null
         /\ "session" \notin All(q.todo) /\ "secret" \notin All(q.todo) =>
              /\ creds[q.token].revoked # 0 => q.start <= creds[q.token].revoked
              /\ creds[q.token].expired # 0 => q.start <= creds[q.token].expired

\* The password that was given was right when it was compared.
Authentic(q) ==
  q.status \in {"running", "ok"} /\ q.op = "login" =>
    /\ q.account \in Users
    /\ "password" \notin All(q.todo) /\ users[q.account].password # q.given
         => q.start <= users[q.account].changed

\* The credentials that are older than the call and not revoked are those that
\* it has selected, then those that its transaction has revoked, then none.
Enders == {"login", "refresh", "revoke", "reissue", "setup", "disable"}
Earlier(q) ==
  {t \in Tokens : /\ creds[t] # Null /\ creds[t].account = q.account
                  /\ creds[t].issued < q.start /\ creds[t].revoked = 0}
Marking(q) == q.status = "running" /\ q.op \in Transactions
Ending(q) ==
  q.status \in {"running", "ok"} /\ q.op \in Enders =>
    /\ "select" \notin All(q.todo) /\ q.status = "running" => Earlier(q) \subseteq q.found
    /\ "revoke" \notin All(q.todo) => Earlier(q) \subseteq IF Marking(q) THEN q.marked ELSE {}

\* A random value is in one place only, and the secret of a setup link becomes
\* a credential at the COMMIT of the one call that has inserted it.
Linked(q) ==
  q.op = "setup" =>
    /\ q.status = "running" =>
         /\ q.token \in Tokens \ unused
         /\ "insert" \notin All(q.todo) => q.fresh = q.token /\ creds[q.token] = Null
    /\ q.status = "ok" => q.token \in Tokens /\ creds[q.token] # Null
Unique ==
  /\ \A t \in Tokens : links[t] # Null => t \notin unused
  /\ \A c \in Calls : call[c].fresh # Null => call[c].fresh \notin unused
  /\ \A c, d \in Calls : c # d /\ call[c].fresh = call[d].fresh => call[c].fresh = Null

UseOf(q) == Tidy(q) /\ Presented(q) /\ Authentic(q) /\ Ending(q) /\ Linked(q)
UInv == (\A c \in Calls : UseOf(call[c])) /\ Unique /\ SetupLinkUsedOnce

-----------------------------------------------------------------------------
(* What a statement does to its call *)

\* q goes on from p and has what p had.
Keeps(q, p) ==
  /\ Follows(q, p)
  /\ q.status = "running" => q.found = p.found /\ q.marked = p.marked /\ q.fresh = p.fresh
  /\ q.status = "running" => q.todo = Tail(p.todo)
  /\ q.status # "running" => q.fresh = Null
  /\ q.status = "ok" => Len(p.todo) = 1

LEMMA AdvancedKeeps ==
  ASSUME NEW p \in Call, p.status = "running", p.todo # <<>>
  PROVE  Keeps(Advanced(p), p) /\ Advanced(p).status \in {"running", "ok"}
<1>1. CASE Len(p.todo) = 1
  <2>1. Advanced(p) = Ended(p, "ok")
    BY <1>1 DEF Advanced
  <2> QED
    BY <1>1, <2>1, AdvancedFollows DEF Keeps, Ended, Call
<1>2. CASE Len(p.todo) # 1
  <2>1. Advanced(p) = [p EXCEPT !.todo = Tail(p.todo)]
    BY <1>2 DEF Advanced
  <2>2. /\ Advanced(p).status = "running" /\ Advanced(p).found = p.found
        /\ Advanced(p).marked = p.marked /\ Advanced(p).fresh = p.fresh
        /\ Advanced(p).todo = Tail(p.todo)
    BY <2>1 DEF Call
  <2> QED
    BY <2>2, AdvancedFollows DEF Keeps
<1> QED
  BY <1>1, <1>2

LEMMA EndedKeeps ==
  ASSUME NEW p \in Call
  PROVE  Keeps(Ended(p, "failed"), p) /\ Ended(p, "failed").status = "failed"
BY EndedFollows DEF Keeps, Ended, Call

\* What the statement at the head of p has found or done, if it did not fail.
Rows(c) == {t \in call[c].found : Unrevoked(t)}
Effect(c, q) ==
  LET p == call[c]
      s == Head(p.todo)
  IN /\ s = "password" => users[p.account].password = p.given
     /\ s = "session" => Valid(p.token)
     /\ s = "secret" /\ p.op # "rotate" => Valid(p.token)
     /\ s = "select" => q.found = OpenOf(c)
     /\ s = "revoke" => IF InTx(c) THEN q.marked = Rows(c) /\ UNCHANGED creds
                        ELSE creds' = RevokedIn(creds, Rows(c))
     /\ s = "insert" /\ p.op = "setup" =>
          q.fresh = p.token /\ creds[p.token] = Null /\ \A d \in Calls : call[d].fresh # p.token
     /\ s = "insert" /\ p.op # "setup" /\ InTx(c) =>
          q.fresh \in unused /\ unused' = unused \ {q.fresh}
     /\ s = "commit" =>
          creds' = [t \in Tokens |-> IF t = p.fresh THEN Row(p.account)
                                     ELSE RevokedIn(creds, p.marked)[t]]

\* A statement of c turns its call into q.
Acts(c, q) ==
  LET p == call[c]
      s == Head(p.todo)
  IN /\ Follows(q, p)
     /\ call' = [call EXCEPT ![c] = q] /\ begun' = begun
     /\ q.status = "running" /\ s # "select" => q.found = p.found
     /\ q.status = "running" /\ s # "revoke" => q.marked = p.marked
     /\ q.status = "running" => q.todo = Tail(p.todo)
     /\ q.status = "running" /\ ~(s = "insert" /\ InTx(c)) => q.fresh = p.fresh
     /\ q.status # "running" => q.fresh = Null \/ (q.status = "ok" /\ s = "insert" /\ InTx(c))
     /\ q.status = "ok" => Len(p.todo) = 1
     /\ q.status # "failed" => Effect(c, q)
Special == {"password", "session", "secret", "select", "revoke", "insert", "commit"}

LEMMA GoActs ==
  ASSUME IInv, NEW c \in Calls, Running(c), Go(c), begun' = begun,
         Head(call[c].todo) \notin {"select", "insert"},
         Head(call[c].todo) \in Special => Effect(c, Advanced(call[c]))
  PROVE  \E q : Acts(c, q)
<1>1. call[c] \in Call /\ call[c].status = "running" /\ call[c].todo # <<>>
  BY DEF IInv, TypeOK, Running
<1>2. PICK p, q : p = call[c] /\ q = Advanced(p)
  OBVIOUS
<1>3. Keeps(q, p) /\ call' = [call EXCEPT ![c] = q]
  BY <1>1, <1>2, AdvancedKeeps DEF Go
<1>4. Effect(c, q)
  <2>1. CASE Head(p.todo) \in Special
    BY <1>2, <2>1
  <2>2. CASE Head(p.todo) \notin Special
    BY <1>2, <2>2 DEF Special, Effect
  <2> QED
    BY <2>1, <2>2
<1> QED
  BY <1>2, <1>3, <1>4 DEF Acts, Keeps

LEMMA RefuseActs ==
  ASSUME IInv, NEW c \in Calls, Running(c), Refuse(c), begun' = begun
  PROVE  \E q : Acts(c, q)
<1>1. call[c] \in Call
  BY DEF IInv, TypeOK
<1>2. PICK q : q = Ended(call[c], "failed")
  OBVIOUS
<1>3. Keeps(q, call[c]) /\ call' = [call EXCEPT ![c] = q] /\ q.status = "failed"
  BY <1>1, <1>2, EndedKeeps DEF Refuse
<1> QED
  BY <1>3 DEF Acts, Keeps

LEMMA CheckActs ==
  ASSUME IInv, NEW c \in Calls, Running(c), NEW cond, Check(c, cond),
         Head(call[c].todo) \notin {"select", "insert"},
         cond /\ Head(call[c].todo) \in Special => Effect(c, Advanced(call[c]))
  PROVE  \E q : Acts(c, q)
BY GoActs, RefuseActs DEF Check

\* Going on with rows or a new credential remembered.
LEMMA RememberActs ==
  ASSUME IInv, NEW c \in Calls, Running(c), begun' = begun,
         NEW rows \in SUBSET Tokens, NEW t \in Tokens \union {Null}, NEW q,
         \/ q = [Advanced(call[c]) EXCEPT !.found = rows] /\ Head(call[c].todo) = "select"
         \/ q = [Advanced(call[c]) EXCEPT !.marked = rows] /\ Head(call[c].todo) = "revoke"
         \/ /\ q = [Advanced(call[c]) EXCEPT !.fresh = t]
            /\ Head(call[c].todo) = "insert" /\ InTx(c)
         \/ /\ q = [Advanced(call[c]) EXCEPT !.gone = rows]
            /\ Head(call[c].todo) \in {"unlink", "clear"},
         call' = [call EXCEPT ![c] = q], Effect(c, q)
  PROVE  Acts(c, q)
<1>1. call[c] \in Call /\ call[c].status = "running" /\ call[c].todo # <<>>
  BY DEF IInv, TypeOK, Running
<1>2. PICK a : a = Advanced(call[c])
  OBVIOUS
<1>3. Keeps(a, call[c]) /\ a \in Call /\ a.status \in {"running", "ok"}
  BY <1>1, <1>2, AdvancedKeeps DEF Keeps, Follows
<1>4. Follows(a, call[c])
  BY <1>3 DEF Keeps
<1>5. CASE q = [a EXCEPT !.found = rows] /\ Head(call[c].todo) = "select"
  <2>1. q.todo = a.todo /\ q.status = a.status /\ q.marked = a.marked /\ q.fresh = a.fresh
    BY <1>3, <1>5 DEF Call
  <2>2. Follows(q, call[c])
    BY <1>1, <1>4, <1>5, ChangedFollows
  <2> QED
    BY <1>3, <1>5, <2>1, <2>2 DEF Acts, Keeps
<1>6. CASE q = [a EXCEPT !.marked = rows] /\ Head(call[c].todo) = "revoke"
  <2>1. q.todo = a.todo /\ q.status = a.status /\ q.found = a.found /\ q.fresh = a.fresh
    BY <1>3, <1>6 DEF Call
  <2>2. Follows(q, call[c])
    BY <1>1, <1>4, <1>6, ChangedFollows
  <2> QED
    BY <1>3, <1>6, <2>1, <2>2 DEF Acts, Keeps
<1>7. CASE q = [a EXCEPT !.fresh = t] /\ Head(call[c].todo) = "insert" /\ InTx(c)
  <2>1. q.todo = a.todo /\ q.status = a.status /\ q.found = a.found /\ q.marked = a.marked
    BY <1>3, <1>7 DEF Call
  <2>2. Follows(q, call[c])
    BY <1>1, <1>4, <1>7, ChangedFollows
  <2> QED
    BY <1>3, <1>7, <2>1, <2>2 DEF Acts, Keeps
<1>8. CASE q = [a EXCEPT !.gone = rows] /\ Head(call[c].todo) \in {"unlink", "clear"}
  <2>1. /\ q.todo = a.todo /\ q.status = a.status /\ q.found = a.found
        /\ q.marked = a.marked /\ q.fresh = a.fresh
    BY <1>3, <1>8 DEF Call
  <2>2. Follows(q, call[c])
    BY <1>1, <1>4, <1>8, ChangedFollows
  <2> QED
    BY <1>3, <1>8, <2>1, <2>2 DEF Acts, Keeps
<1> QED
  BY <1>2, <1>5, <1>6, <1>7, <1>8

LEMMA ChecksAct ==
  ASSUME IInv, NEW c \in Calls,
         \/ CheckPassword(c) \/ CheckActive(c) \/ CheckSession(c)
         \/ CheckSecret(c) \/ Mint(c) \/ ReadLink(c) \/ ReadReset(c)
  PROVE  \E q : Acts(c, q)
<1>1. CASE CheckPassword(c)
  BY <1>1, CheckActs DEF CheckPassword, At, PasswordMatches, Effect
<1>2. CASE CheckActive(c)
  BY <1>2, CheckActs DEF CheckActive, At, Special
<1>3. CASE CheckSession(c)
  BY <1>3, CheckActs DEF CheckSession, At, Effect
<1>4. CASE CheckSecret(c)
  BY <1>4, CheckActs DEF CheckSecret, At, Effect
<1>5. CASE Mint(c)
  BY <1>5, CheckActs DEF Mint, At, Special
<1>6. CASE ReadLink(c)
  BY <1>6, CheckActs DEF ReadLink, At, Special
<1>7. CASE ReadReset(c)
  BY <1>7, CheckActs DEF ReadReset, At, Special
<1> QED
  BY <1>1, <1>2, <1>3, <1>4, <1>5, <1>6, <1>7

LEMMA SelectActs ==
  ASSUME IInv, NEW c \in Calls, Select(c)
  PROVE  \E q : Acts(c, q)
<1>1. Running(c) /\ Head(call[c].todo) = "select" /\ begun' = begun
  BY DEF Select, At
<1>2. PICK q : q = [Advanced(call[c]) EXCEPT !.found = OpenOf(c)]
  OBVIOUS
<1>3. call' = [call EXCEPT ![c] = q] /\ OpenOf(c) \in SUBSET Tokens
  BY <1>2 DEF Select, OpenOf
<1>4. q.found = OpenOf(c)
  <2>1. call[c] \in Call /\ call[c].status = "running" /\ call[c].todo # <<>>
    BY <1>1 DEF IInv, TypeOK, Running
  <2>2. Advanced(call[c]) \in Call
    BY <2>1, AdvancedFollows DEF Follows
  <2> QED
    BY <1>2, <2>2 DEF Call
<1>5. Effect(c, q)
  BY <1>1, <1>4 DEF Effect
<1> QED
  BY <1>1, <1>2, <1>3, <1>5, Nothing, RememberActs

LEMMA RevokeActs ==
  ASSUME IInv, NEW c \in Calls, RevokeAll(c)
  PROVE  \E q : Acts(c, q)
<1>1. Running(c) /\ Head(call[c].todo) = "revoke" /\ begun' = begun
  BY DEF RevokeAll, At
<1>2. call[c] \in Call /\ call[c].status = "running" /\ call[c].todo # <<>>
  BY <1>1 DEF IInv, TypeOK, Running
<1>3. Rows(c) \in SUBSET Tokens
  BY <1>2 DEF Rows, Call
<1>4. CASE InTx(c)
  <2>1. PICK q : q = [Advanced(call[c]) EXCEPT !.marked = Rows(c)]
    OBVIOUS
  <2>2. call' = [call EXCEPT ![c] = q] /\ UNCHANGED creds
    BY <1>4, <2>1 DEF RevokeAll, Rows
  <2>3. q.marked = Rows(c)
    <3>1. Advanced(call[c]) \in Call
      BY <1>2, AdvancedFollows DEF Follows
    <3> QED
      BY <2>1, <3>1 DEF Call
  <2>4. Effect(c, q)
    BY <1>1, <1>4, <2>2, <2>3 DEF Effect
  <2> QED
    BY <1>1, <1>3, <2>1, <2>2, <2>4, Nothing, RememberActs
<1>5. CASE ~InTx(c)
  <2>1. Go(c) /\ creds' = RevokedIn(creds, Rows(c))
    BY <1>5 DEF RevokeAll, Rows
  <2>2. Effect(c, Advanced(call[c]))
    BY <1>1, <1>5, <2>1 DEF Effect
  <2> QED
    BY <1>1, <2>1, <2>2, GoActs
<1> QED
  BY <1>4, <1>5

LEMMA InsertActs ==
  ASSUME IInv, NEW c \in Calls, InsertNew(c) \/ InsertLinked(c)
  PROVE  \E q : Acts(c, q)
<1>1. Running(c) /\ Head(call[c].todo) = "insert" /\ begun' = begun
  BY DEF InsertNew, InsertLinked, At, tables
<1>2. call[c] \in Call /\ call[c].status = "running" /\ call[c].todo # <<>>
  BY <1>1 DEF IInv, TypeOK, Running
<1>3. PICK a : a = Advanced(call[c])
  OBVIOUS
<1>4. a \in Call /\ Keeps(a, call[c])
  BY <1>2, <1>3, AdvancedKeeps DEF Keeps, Follows
<1>5. CASE InsertNew(c)
  <2>1. PICK t \in unused :
          /\ unused' = unused \ {t}
          /\ InTx(c) => call' = [call EXCEPT ![c] = [a EXCEPT !.fresh = t]]
          /\ ~InTx(c) => Go(c)
    BY <1>3, <1>5 DEF InsertNew
  <2>2. t \in Tokens
    BY DEF IInv, TypeOK
  <2>3. call[c].op # "setup"
    BY <1>5 DEF InsertNew
  <2>4. CASE InTx(c)
    <3>1. PICK q : q = [a EXCEPT !.fresh = t]
      OBVIOUS
    <3>2. q.fresh = t
      BY <1>4, <3>1 DEF Call
    <3>3. Effect(c, q)
      BY <1>1, <2>1, <2>3, <3>2 DEF Effect
    <3> QED
      BY <1>1, <1>3, <2>1, <2>2, <2>4, <3>1, <3>3, Nothing, RememberActs
  <2>5. CASE ~InTx(c)
    <3>1. call' = [call EXCEPT ![c] = a]
      BY <1>3, <2>1, <2>5 DEF Go
    <3>2. Effect(c, a)
      BY <1>1, <2>3, <2>5 DEF Effect
    <3> QED
      BY <1>1, <1>4, <3>1, <3>2 DEF Acts, Keeps
  <2> QED
    BY <2>4, <2>5
<1>6. CASE InsertLinked(c)
  <2>1. call[c].op = "setup" /\ \A d \in Calls : call[d].fresh # call[c].token
    BY <1>6 DEF InsertLinked
  <2>2. call[c].token \in Tokens \union {Null}
    BY <1>2 DEF Call
  <2>3. CASE KeyFree(call[c].token)
    <3>0. InTx(c)
      BY <2>1 DEF InTx, Transactions
    <3>1. PICK q : q = [a EXCEPT !.fresh = call[c].token]
      OBVIOUS
    <3>2. q.fresh = call[c].token
      BY <1>4, <3>1 DEF Call
    <3>3. call' = [call EXCEPT ![c] = q]
      BY <1>3, <1>6, <2>3, <3>1 DEF InsertLinked
    <3>4. Effect(c, q)
      BY <1>1, <2>1, <2>3, <3>2 DEF Effect, KeyFree
    <3> QED
      BY <1>1, <1>3, <2>2, <3>1, <3>3, <3>4, <3>0, Nothing, RememberActs
  <2>4. CASE ~KeyFree(call[c].token)
    BY <1>1, <1>6, <2>4, RefuseActs DEF InsertLinked
  <2> QED
    BY <2>3, <2>4
<1> QED
  BY <1>5, <1>6

LEMMA OthersAct ==
  ASSUME IInv, NEW c \in Calls,
         \/ EndSession(c) \/ CreateLink(c) \/ CreateReset(c)
         \/ Suspend(c) \/ EnableAccount(c) \/ UpdatePassword(c)
  PROVE  \E q : Acts(c, q)
<1>1. /\ Running(c) /\ Go(c) /\ begun' = begun
      /\ Head(call[c].todo) \in {"logout", "link", "offer", "suspend", "enable", "set"}
  BY DEF EndSession, CreateLink, CreateReset, Suspend, EnableAccount, UpdatePassword, At
<1> QED
  BY <1>1, GoActs DEF Special

LEMMA DeletesAct ==
  ASSUME IInv, NEW c \in Calls, Unlink(c) \/ DeleteResets(c)
  PROVE  \E q : Acts(c, q)
<1>1. Running(c) /\ Head(call[c].todo) \in {"unlink", "clear"} /\ begun' = begun
  BY DEF Unlink, DeleteResets, At
<1>2. PICK rows \in SUBSET Tokens :
        \/ call' = [call EXCEPT ![c] = [Advanced(@) EXCEPT !.gone = rows]]
        \/ Go(c)
  <2>1. LinksOf(c) \in SUBSET Tokens /\ ResetsOf(c) \in SUBSET Tokens
    BY DEF LinksOf, ResetsOf
  <2> QED
    BY <2>1 DEF Unlink, DeleteResets
<1>3. CASE Go(c)
  BY <1>1, <1>3, GoActs DEF Special
<1>4. CASE call' = [call EXCEPT ![c] = [Advanced(@) EXCEPT !.gone = rows]]
  <2>1. PICK q : q = [Advanced(call[c]) EXCEPT !.gone = rows]
    OBVIOUS
  <2>2. Effect(c, q)
    BY <1>1 DEF Effect
  <2> QED
    BY <1>1, <1>4, <2>1, <2>2, Nothing, RememberActs
<1> QED
  BY <1>2, <1>3, <1>4

LEMMA CommitActs ==
  ASSUME IInv, NEW c \in Calls, Commit(c)
  PROVE  \E q : Acts(c, q)
<1>1. Running(c) /\ Head(call[c].todo) = "commit" /\ begun' = begun /\ (Go(c) \/ Refuse(c))
  BY DEF Commit, At
<1>2. Effect(c, Advanced(call[c]))
  BY <1>1 DEF Effect, Commit
<1> QED
  BY <1>1, <1>2, GoActs, RefuseActs

LEMMA StepActs ==
  ASSUME IInv, NEW c \in Calls, Step(c) \/ Fail(c)
  PROVE  Running(c) /\ \E q : Acts(c, q)
<1>1. Running(c)
  BY DEF Step, Fail, At, CheckPassword, CheckActive, CheckSession, CheckSecret, Mint, Select,
     RevokeAll, InsertNew, InsertLinked, EndSession, ReadLink, Unlink, CreateLink,
     Suspend, EnableAccount, UpdatePassword, ReadReset, DeleteResets, CreateReset, Commit
<1>2. ASSUME Fail(c) PROVE \E q : Acts(c, q)
  <2>1. Running(c) /\ Refuse(c) /\ begun' = begun
    BY <1>2 DEF Fail
  <2> QED
    BY <2>1, RefuseActs
<1>3. ASSUME Step(c) PROVE \E q : Acts(c, q)
  BY <1>3, ChecksAct, SelectActs, RevokeActs, InsertActs, OthersAct, DeletesAct, CommitActs
  DEF Step
<1> QED
  BY <1>1, <1>2, <1>3

-----------------------------------------------------------------------------
(* Programs *)

\* What the proof needs of a whole program.
Sound(op, todo) ==
  /\ Ordered(todo)
  /\ op \in Transactions => todo[Len(todo)] = "commit"
  /\ op \in Enders => "select" \in All(todo) /\ "revoke" \in All(todo)
  /\ op = "login" => "password" \in All(todo)
  /\ op = "refresh" => "session" \in All(todo)
  /\ op = "token" => "secret" \in All(todo)
  /\ op = "setup" => "insert" \in All(todo)

LEMMA ProgramsAreSound ==
  ASSUME NEW op \in Ops, NEW a
  PROVE  Sound(op, Program(op, a))
<1>1. CASE op = "login"
  <2>1. Program(op, a) = Login
    BY <1>1 DEF Program
  <2>2. Sound(op, Login)
    BY <1>1 DEF Sound, Ordered, All, Transactions, Enders, Login
  <2> QED
    BY <2>1, <2>2
<1>2. CASE op = "refresh"
  <2>1. Program(op, a) = Refresh
    BY <1>2 DEF Program
  <2>2. Sound(op, Refresh)
    BY <1>2 DEF Sound, Ordered, All, Transactions, Enders, Refresh
  <2> QED
    BY <2>1, <2>2
<1>3. CASE op = "logout"
  <2>1. Program(op, a) = Logout
    BY <1>3 DEF Program
  <2>2. Sound(op, Logout)
    BY <1>3 DEF Sound, Ordered, All, Transactions, Enders, Logout
  <2> QED
    BY <2>1, <2>2
<1>4. CASE op = "token"
  <2>1. Program(op, a) = Token
    BY <1>4 DEF Program
  <2>2. Sound(op, Token)
    BY <1>4 DEF Sound, Ordered, All, Transactions, Enders, Token
  <2> QED
    BY <2>1, <2>2
<1>5. CASE op = "revoke"
  <2>1. Program(op, a) = Revoke
    BY <1>5 DEF Program
  <2>2. Sound(op, Revoke)
    BY <1>5 DEF Sound, Ordered, All, Transactions, Enders, Revoke
  <2> QED
    BY <2>1, <2>2
<1>6. CASE op = "rotate"
  <2>1. Program(op, a) = Rotate
    BY <1>6 DEF Program
  <2>2. Sound(op, Rotate)
    BY <1>6 DEF Sound, Ordered, All, Transactions, Enders, Rotate
  <2> QED
    BY <2>1, <2>2
<1>7. CASE op = "reissue"
  <2>1. Program(op, a) = Reissue
    BY <1>7 DEF Program
  <2>2. Sound(op, Reissue)
    BY <1>7 DEF Sound, Ordered, All, Transactions, Enders, Reissue
  <2> QED
    BY <2>1, <2>2
<1>8. CASE op = "setup"
  <2>1. Program(op, a) = Setup
    BY <1>8 DEF Program
  <2>2. Sound(op, Setup)
    BY <1>8 DEF Sound, Ordered, All, Transactions, Enders, Setup
  <2> QED
    BY <2>1, <2>2
<1>9. CASE op = "disable"
  <2>1. Program(op, a) = Disable(a)
    BY <1>9 DEF Program
  <2>2. Sound(op, Disable(a))
    BY <1>9 DEF Sound, Ordered, All, Transactions, Enders, Disable
  <2> QED
    BY <2>1, <2>2
<1>10. CASE op = "enable"
  <2>1. Program(op, a) = Enable
    BY <1>10 DEF Program
  <2>2. Sound(op, Enable)
    BY <1>10 DEF Sound, Ordered, All, Transactions, Enders, Enable
  <2> QED
    BY <2>1, <2>2
<1>11. CASE op = "change"
  <2>1. Program(op, a) = Change
    BY <1>11 DEF Program
  <2>2. Sound(op, Change)
    BY <1>11 DEF Sound, Ordered, All, Transactions, Enders, Change
  <2> QED
    BY <2>1, <2>2
<1>12. CASE op = "forgot"
  <2>1. Program(op, a) = Forgot
    BY <1>12 DEF Program
  <2>2. Sound(op, Forgot)
    BY <1>12 DEF Sound, Ordered, All, Transactions, Enders, Forgot
  <2> QED
    BY <2>1, <2>2
<1>13. CASE op = "reset"
  <2>1. Program(op, a) = Reset
    BY <1>13 DEF Program
  <2>2. Sound(op, Reset)
    BY <1>13 DEF Sound, Ordered, All, Transactions, Enders, Reset
  <2> QED
    BY <2>1, <2>2
<1> QED
  BY <1>1, <1>2, <1>3, <1>4, <1>5, <1>6, <1>7, <1>8, <1>9, <1>10, <1>11, <1>12, <1>13 DEF Ops

-----------------------------------------------------------------------------
(* What a step does to the tables *)

\* A credential is never forgotten or given away: it stays, is revoked or
\* expires now, or is a new one.
Turns(x, y) ==
  /\ x # Null => y # Null
  /\ y # Null =>
       \/ y.issued = begun /\ y.revoked = 0 /\ y.expired = 0
       \/ /\ x # Null /\ y.account = x.account /\ y.issued = x.issued
          /\ y.revoked \in {x.revoked, begun} /\ y.expired \in {x.expired, begun}

\* fresh holds the random values that can be a credential after the step only.
Frame(fresh) ==
  /\ \A t \in Tokens : Turns(creds[t], creds'[t])
  /\ \A t \in Tokens : creds[t] = Null /\ creds'[t] # Null => t \in fresh
  /\ \A u \in Users : users'[u] = users[u] \/ users'[u].changed = begun
  /\ unused' \subseteq unused
  /\ \A t \in Tokens : links'[t] # Null => links[t] # Null \/ t \in unused \ unused'

Fresh(c) == IF Head(call[c].todo) = "commit" THEN {call[c].fresh} ELSE unused \ unused'

LEMMA RevokedTurns ==
  ASSUME TablesOK, NEW rows, NEW t \in Tokens, t \in rows => creds[t] # Null
  PROVE  /\ Turns(creds[t], RevokedIn(creds, rows)[t])
         /\ creds[t] = Null => RevokedIn(creds, rows)[t] = Null
<1>1. CASE t \in rows
  <2>1. creds[t] \in Credential /\ creds[t] # Null
    BY <1>1 DEF TablesOK
  <2>2. PICK y : y = [creds[t] EXCEPT !.revoked = begun]
    OBVIOUS
  <2>3. /\ y.account = creds[t].account /\ y.issued = creds[t].issued
        /\ y.expired = creds[t].expired /\ y.revoked = begun
    BY <2>1, <2>2 DEF Credential
  <2>4. begun \in Nat
    BY AccountAssumption DEF TablesOK
  <2>5. y \in Credential /\ y # Null
    BY <2>1, <2>2, <2>4, NullAssumption DEF Credential
  <2>6. RevokedIn(creds, rows)[t] = y
    BY <1>1, <2>2 DEF RevokedIn
  <2> QED
    BY <2>1, <2>3, <2>5, <2>6 DEF Turns
<1>2. CASE t \notin rows
  <2>1. RevokedIn(creds, rows)[t] = creds[t]
    BY <1>2 DEF RevokedIn
  <2> QED
    BY <2>1 DEF Turns
<1> QED
  BY <1>1, <1>2

LEMMA RowTurns ==
  ASSUME TablesOK, NEW a \in Accounts, NEW x
  PROVE  Turns(x, Row(a))
<1>1. Row(a).issued = begun /\ Row(a).revoked = 0 /\ Row(a).expired = 0
  BY DEF Row
<1>2. Row(a) # Null
  BY RowType
<1> QED
  BY <1>1, <1>2 DEF Turns

LEMMA SameTurns == ASSUME NEW x PROVE Turns(x, x)
  BY DEF Turns

\* A step that leaves the credentials alone.
LEMMA TablesFrame ==
  ASSUME creds' = creds, NEW fresh, unused' \subseteq unused,
         \A u \in Users : users'[u] = users[u] \/ users'[u].changed = begun,
         \A t \in Tokens : links'[t] # Null => links[t] # Null \/ t \in unused \ unused'
  PROVE  Frame(fresh)
BY SameTurns DEF Frame

LEMMA QuietFrame ==
  ASSUME UNCHANGED tables, NEW fresh
  PROVE  Frame(fresh)
BY TablesFrame DEF tables

LEMMA CheckFrame ==
  ASSUME NEW c \in Calls,
         \/ CheckPassword(c) \/ CheckActive(c) \/ CheckSession(c) \/ CheckSecret(c)
         \/ Mint(c) \/ Select(c) \/ InsertLinked(c) \/ ReadLink(c) \/ ReadReset(c)
         \/ Suspend(c) \/ Fail(c)
  PROVE  Frame(Fresh(c))
<1>1. UNCHANGED tables
  BY DEF CheckPassword, CheckActive, CheckSession, CheckSecret, Mint, Select, InsertLinked,
     ReadLink, ReadReset, Suspend, Fail, Check
<1> QED
  BY <1>1, QuietFrame

LEMMA RevokeFrame ==
  ASSUME IInv, NEW c \in Calls, RevokeAll(c) \/ EndSession(c)
  PROVE  Frame(Fresh(c))
<1>1. TablesOK /\ UNCHANGED <<accounts, users, links, resets, unused, begun>>
  BY TypeSplit DEF RevokeAll, EndSession
<1>2. CASE creds' = creds
  BY <1>1, <1>2, TablesFrame
<1>3. CASE RevokeAll(c) /\ creds' # creds
  <2>1. creds' = RevokedIn(creds, Rows(c))
    BY <1>3 DEF RevokeAll, Rows
  <2>2. \A t \in Rows(c) : creds[t] # Null
    BY DEF Rows, Unrevoked
  <2> QED
    BY <1>1, <2>1, <2>2, RevokedTurns DEF Frame
<1>4. CASE EndSession(c)
  <2>1. creds' = RevokedIn(creds, {call[c].token}) /\ At(c, "logout")
    BY <1>4 DEF EndSession
  <2>2. call[c].op = "logout" /\ Fit(call[c]) /\ call[c].status = "running"
    BY <2>1, RunningFits, StatementOps DEF Running
  <2>3. \A t \in {call[c].token} : creds[t] # Null
    BY <2>2 DEF Fit
  <2> QED
    BY <1>1, <2>1, <2>3, RevokedTurns DEF Frame
<1> QED
  BY <1>2, <1>3, <1>4

LEMMA InsertFrame ==
  ASSUME IInv, NEW c \in Calls, InsertNew(c)
  PROVE  Frame(Fresh(c))
<1>1. /\ TablesOK /\ UNCHANGED <<accounts, users, links, resets, begun>>
      /\ At(c, "insert")
  BY TypeSplit DEF InsertNew
<1>2. Head(call[c].todo) = "insert" /\ call[c].account \in Accounts
  BY <1>1, RunningFits
<1>3. PICK t \in unused :
        /\ unused' = unused \ {t}
        /\ creds' = creds \/ creds' = [creds EXCEPT ![t] = Row(call[c].account)]
  BY DEF InsertNew
<1>4. CASE creds' = creds
  BY <1>1, <1>3, <1>4, TablesFrame
<1>5. CASE creds' = [creds EXCEPT ![t] = Row(call[c].account)]
  <2>1. \A u \in Tokens : creds'[u] = creds[u] \/ (u = t /\ creds'[u] = Row(call[c].account))
    BY <1>1, <1>5 DEF TablesOK
  <2>2. Fresh(c) = unused \ unused' /\ t \in Fresh(c)
    BY <1>2, <1>3 DEF Fresh
  <2> QED
    BY <1>1, <1>2, <1>3, <2>1, <2>2, RowTurns, SameTurns DEF Frame
<1> QED
  BY <1>3, <1>4, <1>5

LEMMA LinksFrame ==
  ASSUME IInv, NEW c \in Calls, Unlink(c) \/ CreateLink(c) \/ DeleteResets(c) \/ CreateReset(c)
  PROVE  Frame(Fresh(c))
<1>1. TablesOK /\ creds' = creds /\ users' = users
  BY TypeSplit DEF Unlink, CreateLink, DeleteResets, CreateReset
<1>2. unused' \subseteq unused
  BY DEF Unlink, CreateLink, DeleteResets, CreateReset
<1>3. \A t \in Tokens : links'[t] # Null => links[t] # Null \/ t \in unused \ unused'
  BY <1>1 DEF Unlink, CreateLink, DeleteResets, CreateReset, TablesOK
<1> QED
  BY <1>1, <1>2, <1>3, TablesFrame

LEMMA AccountsFrame ==
  ASSUME IInv, NEW c \in Calls, EnableAccount(c) \/ UpdatePassword(c)
  PROVE  Frame(Fresh(c))
<1>1. TablesOK /\ UNCHANGED <<creds, links, unused>>
  BY TypeSplit DEF EnableAccount, UpdatePassword
<1>2. \A u \in Users : users'[u] = users[u] \/ users'[u].changed = begun
  BY <1>1 DEF EnableAccount, UpdatePassword, Chosen, TablesOK
<1> QED
  BY <1>1, <1>2, TablesFrame

LEMMA CommitFrame ==
  ASSUME IInv, NEW c \in Calls, Commit(c)
  PROVE  Frame(Fresh(c))
<1>1. TablesOK /\ UNCHANGED unused /\ At(c, "commit")
  BY TypeSplit DEF Commit
<1>2. /\ Head(call[c].todo) = "commit" /\ Fit(call[c]) /\ call[c].status = "running"
      /\ call[c] \in Call /\ call[c].account \in Accounts
  BY <1>1, RunningFits DEF Running
<1>3. Fresh(c) = {call[c].fresh}
  BY <1>2 DEF Fresh
<1>4. \A t \in call[c].marked : creds[t] # Null
  BY <1>2 DEF Fit
<1>5. creds' = [t \in Tokens |-> IF t = call[c].fresh THEN Row(call[c].account)
                                 ELSE RevokedIn(creds, call[c].marked)[t]]
  BY DEF Commit
<1>6. \A t \in Tokens : /\ Turns(creds[t], creds'[t])
                        /\ creds[t] = Null /\ creds'[t] # Null => t = call[c].fresh
  BY <1>1, <1>2, <1>4, <1>5, RowTurns, RevokedTurns
<1>7. \A u \in Users : users'[u] = users[u] \/ users'[u].changed = begun
  BY <1>1 DEF Commit, Chosen, TablesOK
<1>8. \A t \in Tokens : links'[t] # Null => links[t] # Null
  BY DEF Commit, Remaining
<1> QED
  BY <1>1, <1>3, <1>6, <1>7, <1>8 DEF Frame

LEMMA StepFrame ==
  ASSUME IInv, NEW c \in Calls, Step(c) \/ Fail(c)
  PROVE  Frame(Fresh(c))
BY CheckFrame, RevokeFrame, InsertFrame, LinksFrame, AccountsFrame, CommitFrame DEF Step

LEMMA ExpireFrame ==
  ASSUME IInv, NEW t \in Tokens, Expire(t) \/ ExpireLink(t)
  PROVE  Frame({})
<1>1. TablesOK
  BY TypeSplit
<1>2. CASE Expire(t)
  <2>1. /\ creds[t] \in Credential /\ creds[t] # Null
        /\ creds' = [creds EXCEPT ![t] = [creds[t] EXCEPT !.expired = begun]]
        /\ UNCHANGED <<users, links, unused>>
    BY <1>1, <1>2 DEF Expire, Unrevoked, TablesOK
  <2>2. PICK y : y = [creds[t] EXCEPT !.expired = begun]
    OBVIOUS
  <2>3. /\ y.account = creds[t].account /\ y.issued = creds[t].issued
        /\ y.revoked = creds[t].revoked /\ y.expired = begun
    BY <2>1, <2>2 DEF Credential
  <2>4. begun \in Nat
    BY <1>1, AccountAssumption DEF TablesOK
  <2>5. y # Null
    BY <2>1, <2>2, <2>4, NullAssumption DEF Credential
  <2>6. Turns(creds[t], y)
    BY <2>1, <2>3, <2>5 DEF Turns
  <2>7. \A u \in Tokens : creds'[u] = IF u = t THEN y ELSE creds[u]
    BY <1>1, <2>1, <2>2 DEF TablesOK
  <2> QED
    BY <2>1, <2>6, <2>7, SameTurns DEF Frame
<1>3. CASE ExpireLink(t)
  <2>1. UNCHANGED <<creds, users, unused>>
    BY <1>3 DEF ExpireLink
  <2>2. \A u \in Tokens : links'[u] # Null => links[u] # Null
    BY <1>1, <1>3 DEF ExpireLink, TablesOK
  <2> QED
    BY <2>1, <2>2, TablesFrame
<1> QED
  BY <1>2, <1>3

-----------------------------------------------------------------------------
(* The clauses of a call that does not move *)

LEMMA Facts ==
  ASSUME IInv, NEW d \in Calls
  PROVE  /\ call[d] \in Call /\ call[d].start \in Nat /\ call[d].start <= begun
         /\ begun \in Nat
         /\ creds \in [Tokens -> Credential \union {Null}]
<1>1. call[d] \in Call /\ Barred(call[d]) /\ begun \in Nat
      /\ creds \in [Tokens -> Credential \union {Null}]
  BY AccountAssumption DEF IInv, TypeOK
<1> QED
  BY <1>1 DEF Call, Barred

\* No credential comes into Earlier: what is new was issued later.
LEMMA EarlierShrinks ==
  ASSUME IInv, NEW d \in Calls, NEW q, q.start = call[d].start, q.account = call[d].account,
         NEW fresh, Frame(fresh), NEW t \in Tokens,
         creds'[t] # Null, creds'[t].account = q.account,
         creds'[t].issued < q.start, creds'[t].revoked = 0
  PROVE  t \in Earlier(call[d]) /\ creds'[t].revoked # begun
<1>1. call[d].start \in Nat /\ call[d].start <= begun /\ begun \in Nat
      /\ creds \in [Tokens -> Credential \union {Null}]
  BY Facts
<1>2. Turns(creds[t], creds'[t])
  BY DEF Frame
<1>3. creds'[t].issued # begun
  BY <1>1
<1>4. /\ creds[t] # Null /\ creds'[t].account = creds[t].account
      /\ creds'[t].issued = creds[t].issued
      /\ creds'[t].revoked \in {creds[t].revoked, begun}
  BY <1>2, <1>3 DEF Turns
<1>5. creds[t].issued \in Nat
  BY <1>1, <1>4 DEF Credential
<1>6. begun # 0
  BY <1>1, <1>4, <1>5
<1> QED
  BY <1>4, <1>6 DEF Earlier

\* A time limit on the life of a credential is not missed by a later one.
LEMMA LimitsStay ==
  ASSUME IInv, NEW d \in Calls, NEW fresh, Frame(fresh), NEW t \in Tokens, creds[t] # Null,
         creds[t].revoked # 0 => call[d].start <= creds[t].revoked,
         creds[t].expired # 0 => call[d].start <= creds[t].expired
  PROVE  /\ creds'[t] # Null
         /\ creds'[t].revoked # 0 => call[d].start <= creds'[t].revoked
         /\ creds'[t].expired # 0 => call[d].start <= creds'[t].expired
<1>1. call[d].start \in Nat /\ call[d].start <= begun /\ begun \in Nat
  BY Facts
<1>2. Turns(creds[t], creds'[t])
  BY DEF Frame
<1> QED
  BY <1>1, <1>2 DEF Turns

LEMMA OtherUse ==
  ASSUME IInv, NEW d \in Calls, UseOf(call[d]), NEW fresh, Frame(fresh),
         call'[d] = call[d],
         call[d].fresh # Null => call[d].fresh \notin fresh
  PROVE  UseOf(call[d])'
<1>1. Tidy(call[d])'
  BY DEF UseOf, Tidy, Ordered
<1>2. Presented(call[d])'
  <2>1. Presented(call[d])
    BY DEF UseOf
  <2>2. ASSUME call[d].status \in {"running", "ok"}, call[d].op \in {"refresh", "token"}
        PROVE  /\ call[d].token \in Tokens /\ creds'[call[d].token] # Null
               /\ "session" \notin All(call[d].todo) /\ "secret" \notin All(call[d].todo) =>
                    /\ creds'[call[d].token].revoked # 0 => call[d].start <= creds'[call[d].token].revoked
                    /\ creds'[call[d].token].expired # 0 => call[d].start <= creds'[call[d].token].expired
    <3>1. call[d].token \in Tokens /\ creds[call[d].token] # Null
      BY <2>1, <2>2 DEF Presented
    <3>2. creds'[call[d].token] # Null
      BY <3>1 DEF Frame, Turns
    <3>3. CASE "session" \notin All(call[d].todo) /\ "secret" \notin All(call[d].todo)
      BY <2>1, <2>2, <3>1, <3>3, LimitsStay DEF Presented
    <3> QED
      BY <3>1, <3>2, <3>3
  <2> QED
    BY <2>1, <2>2 DEF Presented
<1>3. Authentic(call[d])'
  <2>1. call[d].start <= begun
    BY Facts
  <2> QED
    BY <2>1 DEF UseOf, Authentic, Frame
<1>4. Ending(call[d])'
  <2>1. Earlier(call[d])' \subseteq Earlier(call[d])
    BY EarlierShrinks DEF Earlier
  <2> QED
    BY <2>1 DEF UseOf, Ending, Marking
<1>5. Linked(call[d])'
  <2>1. Linked(call[d]) /\ unused' \subseteq unused
    BY DEF UseOf, Frame
  <2>2. \A t \in Tokens : creds[t] # Null => creds'[t] # Null
    BY DEF Frame, Turns
  <2>3. \A t \in Tokens : creds[t] = Null /\ t \notin fresh => creds'[t] = Null
    BY DEF Frame
  <2>4. Null \notin Tokens
    BY AccountAssumption
  <2> QED
    BY <2>1, <2>2, <2>3, <2>4 DEF Linked
<1> QED
  BY <1>1, <1>2, <1>3, <1>4, <1>5 DEF UseOf

-----------------------------------------------------------------------------
(* The clauses of the call that moves *)

LEMMA ActFacts ==
  ASSUME IInv, NEW c \in Calls, Running(c), NEW q, Acts(c, q)
  PROVE  /\ call[c] \in Call /\ call[c].status = "running" /\ q \in Call
         /\ call'[c] = q /\ \A d \in Calls \ {c} : call'[d] = call[d]
         /\ call[c].todo \in Seq(Statements) /\ Len(call[c].todo) \in Nat \ {0}
         /\ Head(call[c].todo) = call[c].todo[1]
         /\ q.status # "failed" =>
              \A s : s \in All(call[c].todo) => s \in All(q.todo) \/ s = Head(call[c].todo)
         /\ q.status = "running" => Len(call[c].todo) > 1 /\ q.todo = Tail(call[c].todo)
         /\ q.status = "ok" => Len(call[c].todo) = 1
<1>1. /\ call[c] \in Call /\ call[c].status = "running" /\ call[c].todo # <<>>
      /\ call \in [Calls -> Call] /\ Follows(q, call[c]) /\ call' = [call EXCEPT ![c] = q]
  BY DEF IInv, TypeOK, Running, Acts
<1>2. call[c].todo \in Seq(Statements) /\ Len(call[c].todo) \in Nat \ {0}
  BY <1>1, EmptySeq DEF Call
<1>3. Head(call[c].todo) = call[c].todo[1]
  BY <1>1, <1>2
<1>4. \A s : s \in All(call[c].todo) => s \in Rest(call[c].todo) \/ s = Head(call[c].todo)
  BY <1>2, <1>3 DEF All, Rest
<1>5. q.status # "failed" => Rest(call[c].todo) \subseteq All(q.todo)
  BY <1>1 DEF Follows
<1>6. ASSUME q.status = "running" PROVE Len(call[c].todo) > 1 /\ q.todo = Tail(call[c].todo)
  <2>1. q.todo # <<>> /\ q.todo = Tail(call[c].todo) /\ q.todo \in Seq(Statements)
    BY <1>1, <1>6 DEF Acts, Follows, Call
  <2>2. Len(call[c].todo) # 1
    <3> SUFFICES ASSUME Len(call[c].todo) = 1 PROVE FALSE
      OBVIOUS
    <3>1. Len(q.todo) = 0
      BY <1>2, <2>1
    <3> QED
      BY <2>1, <3>1, EmptySeq
  <2> QED
    BY <1>2, <2>1, <2>2
<1>7. q \in Call /\ (q.status = "ok" => Len(call[c].todo) = 1)
  BY <1>1 DEF Acts, Follows
<1>8. call'[c] = q /\ \A d \in Calls \ {c} : call'[d] = call[d]
  BY <1>1
<1>9. q.status # "failed" =>
        \A s : s \in All(call[c].todo) => s \in All(q.todo) \/ s = Head(call[c].todo)
  BY <1>4, <1>5
<1> QED
  BY <1>1, <1>2, <1>3, <1>6, <1>7, <1>8, <1>9

LEMMA TidyOwn ==
  ASSUME IInv, NEW c \in Calls, Running(c), UseOf(call[c]), NEW q, Acts(c, q)
  PROVE  Tidy(q)
<1> SUFFICES ASSUME q.status = "running"
             PROVE  /\ Ordered(q.todo)
                    /\ q.op \in Transactions => q.todo[Len(q.todo)] = "commit"
                    /\ q.start > 0
  BY DEF Tidy
<1>1. /\ call[c].todo \in Seq(Statements) /\ Len(call[c].todo) \in Nat /\ Len(call[c].todo) > 1
      /\ q.todo = Tail(call[c].todo)
  BY ActFacts
<1>2. /\ Len(q.todo) = Len(call[c].todo) - 1
      /\ \A i \in 1..Len(q.todo) : q.todo[i] = call[c].todo[i + 1]
  BY <1>1
<1>3. /\ Ordered(call[c].todo)
      /\ call[c].op \in Transactions => call[c].todo[Len(call[c].todo)] = "commit"
      /\ call[c].start > 0
  BY DEF UseOf, Tidy, Running
<1>4. Ordered(q.todo)
  <2>1. \A i \in 1..Len(q.todo) : q.todo[i] = "commit" => i = Len(q.todo)
    <3> SUFFICES ASSUME NEW i \in 1..Len(q.todo), q.todo[i] = "commit" PROVE i = Len(q.todo)
      OBVIOUS
    <3>1. i + 1 \in 1..Len(call[c].todo) /\ call[c].todo[i + 1] = "commit"
      BY <1>1, <1>2
    <3> QED
      BY <1>1, <1>2, <1>3, <3>1 DEF Ordered
  <2>2. \A i, j \in 1..Len(q.todo) : q.todo[i] = "revoke" /\ q.todo[j] = "select" => j < i
    <3> SUFFICES ASSUME NEW i \in 1..Len(q.todo), NEW j \in 1..Len(q.todo),
                        q.todo[i] = "revoke", q.todo[j] = "select"
                 PROVE  j < i
      OBVIOUS
    <3>1. /\ i + 1 \in 1..Len(call[c].todo) /\ call[c].todo[i + 1] = "revoke"
          /\ j + 1 \in 1..Len(call[c].todo) /\ call[c].todo[j + 1] = "select"
      BY <1>1, <1>2
    <3>2. j + 1 < i + 1
      BY <1>3, <3>1 DEF Ordered
    <3> QED
      BY <3>2
  <2> QED
    BY <2>1, <2>2 DEF Ordered
<1>5. q.op = call[c].op /\ q.start = call[c].start
  BY DEF Acts, Follows
<1>6. q.op \in Transactions => q.todo[Len(q.todo)] = "commit"
  BY <1>1, <1>2, <1>3, <1>5
<1> QED
  BY <1>3, <1>4, <1>5, <1>6

LEMMA PresentedOwn ==
  ASSUME IInv, NEW c \in Calls, Running(c), UseOf(call[c]), NEW q, Acts(c, q),
         NEW fresh, Frame(fresh)
  PROVE  Presented(call[c])'
<1>1. /\ call'[c] = q /\ call[c].status = "running"
      /\ call[c].start \in Nat /\ call[c].start <= begun /\ begun \in Nat
  BY ActFacts, Facts
<1>2. q.op = call[c].op /\ q.token = call[c].token /\ q.start = call[c].start
  BY DEF Acts, Follows
<1>3. /\ call[c].op = "login" => call[c].token = Null
      /\ call[c].op \in {"refresh", "token"} =>
           /\ call[c].token \in Tokens /\ creds[call[c].token] # Null
           /\ "session" \notin All(call[c].todo) /\ "secret" \notin All(call[c].todo) =>
                /\ creds[call[c].token].revoked # 0 => call[c].start <= creds[call[c].token].revoked
                /\ creds[call[c].token].expired # 0 => call[c].start <= creds[call[c].token].expired
  BY <1>1 DEF UseOf, Presented
<1>4. ASSUME q.status \in {"running", "ok"}, q.op \in {"refresh", "token"}
      PROVE  /\ q.token \in Tokens /\ creds'[q.token] # Null
             /\ "session" \notin All(q.todo) /\ "secret" \notin All(q.todo) =>
                  /\ creds'[q.token].revoked # 0 => q.start <= creds'[q.token].revoked
                  /\ creds'[q.token].expired # 0 => q.start <= creds'[q.token].expired
  <2>1. q.token \in Tokens /\ creds[q.token] # Null
    BY <1>2, <1>3, <1>4
  <2>2. creds'[q.token] # Null
    BY <2>1 DEF Frame, Turns
  <2>3. ASSUME "session" \notin All(q.todo), "secret" \notin All(q.todo)
        PROVE  /\ creds[q.token].revoked # 0 => q.start <= creds[q.token].revoked
               /\ creds[q.token].expired # 0 => q.start <= creds[q.token].expired
    <3>1. \/ "session" \notin All(call[c].todo) /\ "secret" \notin All(call[c].todo)
          \/ Head(call[c].todo) \in {"session", "secret"}
      BY <1>4, <2>3, ActFacts
    <3>2. ASSUME Head(call[c].todo) \in {"session", "secret"}
          PROVE  creds[q.token].revoked = 0 /\ creds[q.token].expired = 0
      BY <1>2, <1>4, <3>2 DEF Acts, Effect, Valid, Unrevoked
    <3> QED
      BY <1>2, <1>3, <1>4, <3>1, <3>2
  <2> QED
    BY <1>2, <2>1, <2>2, <2>3, LimitsStay
<1> QED
  BY <1>1, <1>2, <1>3, <1>4 DEF Presented

LEMMA AuthenticOwn ==
  ASSUME IInv, NEW c \in Calls, Running(c), UseOf(call[c]), NEW q, Acts(c, q),
         NEW fresh, Frame(fresh)
  PROVE  Authentic(call[c])'
<1>1. /\ call'[c] = q /\ call[c].status = "running"
      /\ call[c].start <= begun
  BY ActFacts, Facts
<1>2. q.op = call[c].op /\ q.account = call[c].account /\ q.start = call[c].start
      /\ q.given = call[c].given
  BY DEF Acts, Follows
<1>3. ASSUME q.status \in {"running", "ok"}, q.op = "login"
      PROVE  /\ q.account \in Users
             /\ "password" \notin All(q.todo) /\ users'[q.account].password # q.given
                  => q.start <= users'[q.account].changed
  <2>1. /\ q.account \in Users
        /\ "password" \notin All(call[c].todo) /\ users[q.account].password # q.given
             => q.start <= users[q.account].changed
    BY <1>1, <1>2, <1>3 DEF UseOf, Authentic
  <2>2. users'[q.account] = users[q.account] \/ users'[q.account].changed = begun
    BY <2>1 DEF Frame
  <2>3. ASSUME "password" \notin All(q.todo), Head(call[c].todo) = "password"
        PROVE  users[q.account].password = q.given
    BY <1>2, <1>3, <2>3 DEF Acts, Effect
  <2>4. "password" \notin All(q.todo) =>
          "password" \notin All(call[c].todo) \/ Head(call[c].todo) = "password"
    BY <1>3, ActFacts
  <2> QED
    BY <1>1, <1>2, <2>1, <2>2, <2>3, <2>4
<1> QED
  BY <1>1, <1>3 DEF Authentic

\* What COMMIT makes of a credential that the transaction has not created.
LEMMA CommitRevokes ==
  ASSUME IInv, NEW c \in Calls, Running(c), call[c].start > 0, NEW q, Acts(c, q),
         Head(call[c].todo) = "commit", q.status = "ok",
         NEW t \in Tokens, t \in call[c].marked
  PROVE  creds'[t].issued = begun \/ creds'[t].revoked # 0
<1>1. creds' = [u \in Tokens |-> IF u = call[c].fresh THEN Row(call[c].account)
                                 ELSE RevokedIn(creds, call[c].marked)[u]]
  BY DEF Acts, Effect
<1>2. begun \in Nat /\ begun > 0 /\ creds \in [Tokens -> Credential \union {Null}]
  BY Facts
<1>3. CASE t = call[c].fresh
  BY <1>1, <1>3 DEF Row
<1>4. CASE t # call[c].fresh
  <2>1. creds'[t] = [creds[t] EXCEPT !.revoked = begun]
    BY <1>1, <1>4 DEF RevokedIn
  <2>2. creds[t] # Null
    BY DEF IInv, Fit, Running
  <2>3. creds'[t].revoked = begun
    BY <1>2, <2>1, <2>2 DEF Credential
  <2> QED
    BY <1>2, <2>3
<1> QED
  BY <1>3, <1>4

LEMMA EndingOwn ==
  ASSUME IInv, NEW c \in Calls, Running(c), UseOf(call[c]), NEW q, Acts(c, q),
         NEW fresh, Frame(fresh)
  PROVE  Ending(call[c])'
<1> DEFINE p == call[c]
           Open(t) == /\ creds'[t] # Null /\ creds'[t].account = q.account
                      /\ creds'[t].issued < q.start /\ creds'[t].revoked = 0
<1>1. /\ call'[c] = q /\ p.status = "running" /\ p.start \in Nat /\ p.start <= begun
      /\ begun \in Nat /\ p.start > 0
  BY ActFacts, Facts DEF UseOf, Tidy
<1>2. q.op = p.op /\ q.account = p.account /\ q.start = p.start
  BY DEF Acts, Follows
<1>3. p.op \in Enders =>
        /\ "select" \notin All(p.todo) => Earlier(p) \subseteq p.found
        /\ "revoke" \notin All(p.todo) =>
             Earlier(p) \subseteq IF p.op \in Transactions THEN p.marked ELSE {}
  BY <1>1 DEF UseOf, Ending, Marking
<1>4. \A t \in Tokens : Open(t) => t \in Earlier(p) /\ creds'[t].revoked # begun
  BY <1>2, EarlierShrinks
<1>5. ASSUME q.status = "running", q.op \in Enders, "select" \notin All(q.todo),
             NEW t \in Tokens, Open(t)
      PROVE  t \in q.found
  <2>1. CASE Head(p.todo) = "select"
    <3>1. q.found = OpenOf(c)
      BY <1>5, <2>1 DEF Acts, Effect
    <3> QED
      BY <1>4, <1>5, <3>1 DEF OpenOf, Earlier, Unrevoked
  <2>2. CASE Head(p.todo) # "select"
    <3>1. q.found = p.found
      BY <1>5, <2>2 DEF Acts
    <3>2. "select" \notin All(p.todo)
      BY <1>5, <2>2, ActFacts
    <3> QED
      BY <1>2, <1>3, <1>4, <1>5, <3>1, <3>2
  <2> QED
    BY <2>1, <2>2
<1>6. ASSUME q.status \in {"running", "ok"}, q.op \in Enders, "revoke" \notin All(q.todo),
             NEW t \in Tokens, Open(t)
      PROVE  q.status = "running" /\ q.op \in Transactions /\ t \in q.marked
  <2>1. t \in Earlier(p) /\ creds'[t].revoked # begun /\ creds'[t].issued # begun
    BY <1>1, <1>2, <1>4, <1>6
  <2>2. p.todo \in Seq(Statements) /\ Len(p.todo) \in Nat \ {0} /\ Head(p.todo) = p.todo[1]
    BY ActFacts
  <2>3. p.op \in Transactions /\ q.status = "ok" => Head(p.todo) = "commit"
    <3>1. p.op \in Transactions => p.todo[Len(p.todo)] = "commit"
      BY <1>1 DEF UseOf, Tidy
    <3>2. q.status = "ok" => Len(p.todo) = 1
      BY ActFacts
    <3> QED
      BY <2>2, <3>1, <3>2
  <2>4. CASE Head(p.todo) = "revoke"
    <3>1. "select" \notin All(p.todo)
      <4>1. Ordered(p.todo)
        BY <1>1 DEF UseOf, Tidy
      <4> QED
        BY <2>2, <2>4, <4>1 DEF Ordered, All
    <3>2. t \in Rows(c)
      BY <1>2, <1>3, <1>6, <2>1, <3>1 DEF Rows, Earlier, Unrevoked
    <3>3. CASE InTx(c)
      <4>1. q.marked = Rows(c)
        BY <1>6, <2>4, <3>3 DEF Acts, Effect
      <4>2. q.op \in Transactions /\ q.status = "running"
        BY <1>2, <1>6, <2>3, <2>4, <3>3 DEF InTx
      <4> QED
        BY <3>2, <4>1, <4>2
    <3>4. CASE ~InTx(c)
      <4>1. creds' = RevokedIn(creds, Rows(c))
        BY <1>6, <2>4, <3>4 DEF Acts, Effect
      <4>2. creds'[t] = [creds[t] EXCEPT !.revoked = begun]
        BY <3>2, <4>1 DEF RevokedIn
      <4>3. creds[t] \in Credential
        BY <2>1, Facts DEF Earlier
      <4>4. creds'[t].revoked = begun
        BY <4>2, <4>3 DEF Credential
      <4> QED
        BY <2>1, <4>4
    <3> QED
      BY <3>3, <3>4
  <2>5. CASE Head(p.todo) # "revoke"
    <3>1. "revoke" \notin All(p.todo)
      BY <1>6, <2>5, ActFacts
    <3>2. p.op \in Transactions /\ t \in p.marked
      BY <1>2, <1>3, <1>6, <2>1, <3>1
    <3>3. q.status = "running"
      <4> SUFFICES ASSUME q.status = "ok" PROVE FALSE
        BY <1>6
      <4>1. Head(p.todo) = "commit"
        BY <2>3, <3>2
      <4>2. creds'[t].issued = begun \/ creds'[t].revoked # 0
        BY <1>1, <3>2, <4>1, CommitRevokes
      <4> QED
        BY <1>6, <2>1, <4>2
    <3>4. q.marked = p.marked
      BY <2>5, <3>3 DEF Acts
    <3> QED
      BY <1>2, <3>2, <3>3, <3>4
  <2> QED
    BY <2>4, <2>5
<1>7. Earlier(call[c])' = {t \in Tokens : Open(t)}
  BY <1>1 DEF Earlier
<1> HIDE DEF Open
<1> QED
  BY <1>1, <1>5, <1>6, <1>7 DEF Ending, Marking

LEMMA LinkedOwn ==
  ASSUME IInv, NEW c \in Calls, Running(c), UseOf(call[c]), NEW q, Acts(c, q), Frame(Fresh(c))
  PROVE  Linked(call[c])'
<1> DEFINE p == call[c]
<1>1. /\ call'[c] = q /\ p.status = "running"
      /\ p.todo \in Seq(Statements) /\ Len(p.todo) \in Nat \ {0} /\ Head(p.todo) = p.todo[1]
  BY ActFacts
<1>2. q.op = p.op /\ q.account = p.account /\ q.token = p.token
  BY DEF Acts, Follows
<1>3. p.op = "setup" =>
        /\ p.token \in Tokens \ unused
        /\ "insert" \notin All(p.todo) => p.fresh = p.token /\ creds[p.token] = Null
        /\ p.todo[Len(p.todo)] = "commit"
  BY <1>1 DEF UseOf, Linked, Tidy, Transactions
<1>4. ASSUME q.op = "setup", q.status = "running"
      PROVE  /\ q.token \in Tokens \ unused'
             /\ "insert" \notin All(q.todo) => q.fresh = q.token /\ creds'[q.token] = Null
  <2>1. Head(p.todo) # "commit"
    <3>1. Ordered(p.todo) /\ Len(p.todo) > 1
      BY <1>1, <1>4, ActFacts DEF UseOf, Tidy
    <3> QED
      BY <1>1, <3>1 DEF Ordered
  <2>2. q.token \in Tokens \ unused' /\ q.token \notin Fresh(c)
    BY <1>2, <1>3, <1>4, <2>1 DEF Frame, Fresh
  <2>3. ASSUME "insert" \notin All(q.todo)
        PROVE  q.fresh = q.token /\ creds[q.token] = Null
    <3>1. CASE Head(p.todo) = "insert"
      BY <1>2, <1>4, <3>1 DEF Acts, Effect
    <3>2. CASE Head(p.todo) # "insert"
      <4>1. "insert" \notin All(p.todo)
        BY <1>4, <2>3, <3>2, ActFacts
      <4>2. q.fresh = p.fresh
        BY <1>4, <3>2 DEF Acts
      <4> QED
        BY <1>2, <1>3, <1>4, <4>1, <4>2
    <3> QED
      BY <3>1, <3>2
  <2> QED
    BY <2>2, <2>3 DEF Frame
<1>5. ASSUME q.op = "setup", q.status = "ok"
      PROVE  q.token \in Tokens /\ creds'[q.token] # Null
  <2>1. Len(p.todo) = 1
    BY <1>5, ActFacts
  <2>2. Head(p.todo) = "commit" /\ "insert" \notin All(p.todo)
    BY <1>1, <1>2, <1>3, <1>5, <2>1 DEF All
  <2>3. p.fresh = p.token /\ p.token \in Tokens
    BY <1>2, <1>3, <1>5, <2>2
  <2>4. creds' = [u \in Tokens |-> IF u = p.fresh THEN Row(p.account)
                                   ELSE RevokedIn(creds, p.marked)[u]]
    BY <1>5, <2>2 DEF Acts, Effect
  <2>5. p.account \in Accounts /\ TablesOK
    BY <1>1, TypeSplit DEF IInv, Fit
  <2> QED
    BY <1>2, <2>3, <2>4, <2>5, RowType
<1> QED
  BY <1>1, <1>4, <1>5 DEF Linked

\* When a setup succeeds, its link was no credential until then.
LEMMA SetupIsFirst ==
  ASSUME IInv, NEW c \in Calls, Running(c), UseOf(call[c]), NEW q, Acts(c, q),
         q.status = "ok", q.op = "setup"
  PROVE  creds[q.token] = Null
<1> DEFINE p == call[c]
<1>1. /\ p.status = "running" /\ p.todo \in Seq(Statements) /\ Len(p.todo) = 1
  BY ActFacts
<1>2. q.op = p.op /\ q.token = p.token
  BY DEF Acts, Follows
<1>3. /\ "insert" \notin All(p.todo) => creds[p.token] = Null
      /\ p.todo[Len(p.todo)] = "commit"
  BY <1>1, <1>2 DEF UseOf, Linked, Tidy, Transactions
<1>4. "insert" \notin All(p.todo)
  BY <1>1, <1>3 DEF All
<1> QED
  BY <1>2, <1>3, <1>4

LEMMA UniqueOwn ==
  ASSUME IInv, UInv, NEW c \in Calls, Running(c), NEW q, Acts(c, q), Frame(Fresh(c))
  PROVE  Unique'
<1> DEFINE p == call[c]
<1>1. /\ call'[c] = q /\ (\A d \in Calls \ {c} : call'[d] = call[d])
      /\ p.status = "running"
      /\ p.todo \in Seq(Statements) /\ Len(p.todo) \in Nat \ {0} /\ Head(p.todo) = p.todo[1]
  BY ActFacts
<1>2. UseOf(p) /\ Unique
  BY DEF UInv
<1>3. \A t \in Tokens : links'[t] # Null => t \notin unused'
  BY <1>2 DEF Unique, Frame
<1>4. unused' \subseteq unused
  BY DEF Frame
<1>5. \/ q.fresh = Null
      \/ q.fresh = p.fresh
      \/ q.fresh \in unused /\ unused' = unused \ {q.fresh}
      \/ q.fresh \notin unused /\ \A d \in Calls : call[d].fresh # q.fresh
  <2>1. CASE q.status = "running" /\ ~(Head(p.todo) = "insert" /\ InTx(c))
    BY <2>1 DEF Acts
  <2>2. CASE q.status = "running" /\ Head(p.todo) = "insert" /\ InTx(c)
    <3>1. p.op = "setup" => p.token \notin unused
      BY <1>1, <1>2 DEF UseOf, Linked
    <3> QED
      BY <2>2, <3>1 DEF Acts, Effect
  <2>3. CASE q.status # "running"
    <3>1. q.status = "ok" /\ InTx(c) => Head(p.todo) = "commit"
      <4>1. InTx(c) => p.todo[Len(p.todo)] = "commit"
        BY <1>1, <1>2 DEF UseOf, Tidy, InTx
      <4>2. q.status = "ok" => Len(p.todo) = 1
        BY ActFacts
      <4> QED
        BY <1>1, <4>1, <4>2
    <3> QED
      BY <2>3, <3>1 DEF Acts
  <2> QED
    BY <2>1, <2>2, <2>3
<1>6. q.fresh # Null =>
        q.fresh \notin unused' /\ \A d \in Calls \ {c} : call[d].fresh # q.fresh
  BY <1>2, <1>4, <1>5 DEF Unique
<1>7. \A d \in Calls : call'[d].fresh # Null => call'[d].fresh \notin unused'
  BY <1>1, <1>2, <1>4, <1>6 DEF Unique
<1>8. \A d, e \in Calls : d # e /\ call'[d].fresh = call'[e].fresh => call'[d].fresh = Null
  BY <1>1, <1>2, <1>6 DEF Unique
<1> QED
  BY <1>3, <1>7, <1>8 DEF Unique

LEMMA OnceOwn ==
  ASSUME IInv, UInv, NEW c \in Calls, Running(c), NEW q, Acts(c, q)
  PROVE  SetupLinkUsedOnce'
<1>1. call'[c] = q /\ \A d \in Calls \ {c} : call'[d] = call[d]
  BY ActFacts
<1>2. q.status = "ok" /\ q.op = "setup" => creds[q.token] = Null
  BY SetupIsFirst DEF UInv
<1>3. \A d \in Calls : call[d].status = "ok" /\ call[d].op = "setup" => creds[call[d].token] # Null
  BY DEF UInv, UseOf, Linked
<1> QED
  BY <1>1, <1>2, <1>3 DEF UInv, SetupLinkUsedOnce

LEMMA StepUse ==
  ASSUME IInv, UInv, NEW c \in Calls, Step(c) \/ Fail(c)
  PROVE  UInv'
<1>1. PICK q : Running(c) /\ Acts(c, q)
  BY StepActs
<1>2. Frame(Fresh(c))
  BY StepFrame
<1>3. UseOf(call[c])
  BY DEF UInv
<1>4. UseOf(call[c])'
  <2>1. Tidy(call[c])'
    <3>1. Tidy(q) /\ call'[c] = q
      BY <1>1, <1>3, TidyOwn, ActFacts
    <3> QED
      BY <3>1 DEF Tidy, Ordered
  <2> QED
    BY <1>1, <1>2, <1>3, <2>1, PresentedOwn, AuthenticOwn, EndingOwn, LinkedOwn DEF UseOf
<1>5. ASSUME NEW d \in Calls, d # c PROVE UseOf(call[d])'
  <2>1. call[d].fresh # Null => call[d].fresh \notin Fresh(c)
    BY <1>5 DEF UInv, Unique, Fresh
  <2>2. call'[d] = call[d]
    BY <1>1, <1>5, ActFacts
  <2>3. UseOf(call[d])
    BY DEF UInv
  <2> QED
    BY <1>2, <2>1, <2>2, <2>3, OtherUse
<1>6. Unique' /\ SetupLinkUsedOnce'
  BY <1>1, <1>2, UniqueOwn, OnceOwn
<1> QED
  BY <1>4, <1>5, <1>6 DEF UInv

-----------------------------------------------------------------------------
(* The other steps *)

\* A step that moves no call.
LEMMA StillUse ==
  ASSUME IInv, UInv, call' = call, Frame({})
  PROVE  UInv'
<1>1. \A d \in Calls : UseOf(call[d])'
  <2> SUFFICES ASSUME NEW d \in Calls PROVE UseOf(call[d])'
    OBVIOUS
  <2>1. UseOf(call[d]) /\ call'[d] = call[d]
    BY DEF UInv
  <2> QED
    BY <2>1, OtherUse
<1>2. Unique'
  <2>1. Unique
    BY DEF UInv
  <2> QED
    BY <2>1 DEF Unique, Frame
<1>3. SetupLinkUsedOnce'
  BY DEF UInv, SetupLinkUsedOnce
<1> QED
  BY <1>1, <1>2, <1>3 DEF UInv

LEMMA ArriveUse ==
  ASSUME IInv, UInv, NEW c \in Calls, NEW op \in Ops, NEW a \in Accounts, NEW t, NEW p, NEW n,
         Arrive(c, op, a, t, p, n), begun' = begun + 1, UNCHANGED tables,
         op = "login" => t = Null /\ a \in Users,
         op \in {"refresh", "token"} => t \in Tokens /\ creds[t] # Null,
         op = "setup" => t \in Tokens \ unused
  PROVE  UInv'
<1>1. PICK todo : todo = Program(op, a)
  OBVIOUS
<1>2. Sound(op, todo)
  BY <1>1, ProgramsAreSound
<1>3. PICK q : q = [status |-> "running", op |-> op, todo |-> todo, account |-> a,
                    token |-> t, given |-> p, chosen |-> n, start |-> begun + 1,
                    found |-> {}, marked |-> {}, fresh |-> Null, gone |-> {}]
  OBVIOUS
<1>4. call' = [call EXCEPT ![c] = q]
  BY <1>1, <1>3 DEF Arrive, NewCall
<1>5. call'[c] = q /\ (\A d \in Calls \ {c} : call'[d] = call[d]) /\ begun \in Nat
  BY <1>4, AccountAssumption DEF IInv, TypeOK
<1>6. /\ q.status = "running" /\ q.op = op /\ q.todo = todo /\ q.account = a
      /\ q.token = t /\ q.start > 0 /\ q.fresh = Null
  BY <1>3, <1>5
<1>7. UseOf(call[c])'
  <2>1. Tidy(call[c])'
    <3>1. Tidy(q)
      BY <1>2, <1>6 DEF Tidy, Sound
    <3> QED
      BY <1>5, <3>1 DEF Tidy, Ordered
  <2>2. Presented(call[c])'
    BY <1>2, <1>5, <1>6 DEF Presented, Sound, tables
  <2>3. Authentic(call[c])'
    BY <1>2, <1>5, <1>6 DEF Authentic, Sound, tables
  <2>4. Ending(call[c])'
    BY <1>2, <1>5, <1>6 DEF Ending, Sound
  <2>5. Linked(call[c])'
    BY <1>2, <1>5, <1>6 DEF Linked, Sound, tables
  <2> QED
    BY <2>1, <2>2, <2>3, <2>4, <2>5 DEF UseOf
<1>8. ASSUME NEW d \in Calls, d # c PROVE UseOf(call[d])'
  <2>1. UseOf(call[d]) /\ call'[d] = call[d]
    BY <1>5, <1>8 DEF UInv
  <2>2. Frame({})
    BY QuietFrame
  <2> QED
    BY <2>1, <2>2, OtherUse
<1>9. Unique'
  BY <1>5, <1>6 DEF UInv, Unique, tables
<1>10. SetupLinkUsedOnce'
  BY <1>5, <1>6 DEF UInv, SetupLinkUsedOnce
<1> QED
  BY <1>7, <1>8, <1>9, <1>10 DEF UInv

LEMMA BeginUse ==
  ASSUME IInv, UInv, NEW c \in Calls, Begin(c)
  PROVE  UInv'
<1>1. TablesOK /\ Unique /\ begun' = begun + 1 /\ UNCHANGED tables
  BY TypeSplit DEF Begin, UInv
<1>2. CASE \E u \in Users, p \in Passwords : Arrive(c, "login", u, Null, p, Null)
  <2>1. PICK u \in Users, p \in Passwords : Arrive(c, "login", u, Null, p, Null)
    BY <1>2
  <2>2. "login" \in Ops /\ u \in Accounts
    BY DEF Ops, Accounts
  <2> QED
    BY <1>1, <2>1, <2>2, ArriveUse
<1>3. CASE \E t \in Tokens, op \in {"refresh", "logout"} :
             Held(t, Users) /\ Arrive(c, op, creds[t].account, t, Null, Null)
  <2>1. PICK t \in Tokens, op \in {"refresh", "logout"} :
             Held(t, Users) /\ Arrive(c, op, creds[t].account, t, Null, Null)
    BY <1>3
  <2>2. /\ op \in Ops \ {"login", "token", "setup"}
        /\ creds[t].account \in Accounts /\ creds[t] # Null
    BY <2>1 DEF Ops, Held, Accounts
  <2> QED
    BY <1>1, <2>1, <2>2, ArriveUse
<1>3a. CASE \E s \in Services, t \in Tokens, op \in {"token", "revoke", "rotate"} :
             Held(t, Services) /\ Arrive(c, op, s, t, Null, Null)
  <2>1. PICK s \in Services, t \in Tokens, op \in {"token", "revoke", "rotate"} :
             Held(t, Services) /\ Arrive(c, op, s, t, Null, Null)
    BY <1>3a
  <2>2. /\ op \in Ops \ {"login", "refresh", "setup"}
        /\ s \in Accounts /\ creds[t] # Null
    BY <2>1 DEF Ops, Held, Accounts
  <2> QED
    BY <1>1, <2>1, <2>2, ArriveUse
<1>4. CASE \E s \in Services : Arrive(c, "reissue", s, Null, Null, Null)
  <2>1. PICK s \in Services : Arrive(c, "reissue", s, Null, Null, Null)
    BY <1>4
  <2>2. "reissue" \in Ops /\ s \in Accounts
    BY DEF Ops, Accounts
  <2> QED
    BY <1>1, <2>1, <2>2, ArriveUse
<1>5. CASE \E t \in Tokens : links[t] # Null /\ Arrive(c, "setup", links[t], t, Null, Null)
  <2>1. PICK t \in Tokens : links[t] # Null /\ Arrive(c, "setup", links[t], t, Null, Null)
    BY <1>5
  <2>2. "setup" \in Ops /\ links[t] \in Accounts /\ t \notin unused
    BY <1>1, <2>1 DEF Ops, Accounts, TablesOK, Unique
  <2> QED
    BY <1>1, <2>1, <2>2, ArriveUse
<1>6. CASE \E a \in Accounts, op \in {"disable", "enable"} :
             Arrive(c, op, a, Null, Null, Null)
  <2>1. PICK a \in Accounts, op \in {"disable", "enable"} :
             Arrive(c, op, a, Null, Null, Null)
    BY <1>6
  <2>2. op \in Ops
    BY DEF Ops
  <2> QED
    BY <1>1, <2>1, <2>2, ArriveUse
<1>7. CASE \E u \in Users, p, n \in Passwords : Arrive(c, "change", u, Null, p, n)
  <2>1. PICK u \in Users, p \in Passwords, n \in Passwords : Arrive(c, "change", u, Null, p, n)
    BY <1>7
  <2>2. "change" \in Ops /\ u \in Accounts
    BY DEF Ops, Accounts
  <2> QED
    BY <1>1, <2>1, <2>2, ArriveUse
<1>8. CASE \E u \in Users : Arrive(c, "forgot", u, Null, Null, Null)
  <2>1. PICK u \in Users : Arrive(c, "forgot", u, Null, Null, Null)
    BY <1>8
  <2>2. "forgot" \in Ops /\ u \in Accounts
    BY DEF Ops, Accounts
  <2> QED
    BY <1>1, <2>1, <2>2, ArriveUse
<1>9. CASE \E t \in Tokens, n \in Passwords :
             resets[t] # Null /\ Arrive(c, "reset", resets[t], t, Null, n)
  <2>1. PICK t \in Tokens, n \in Passwords :
             resets[t] # Null /\ Arrive(c, "reset", resets[t], t, Null, n)
    BY <1>9
  <2>2. "reset" \in Ops /\ resets[t] \in Accounts
    BY <1>1, <2>1 DEF Ops, Accounts, TablesOK
  <2> QED
    BY <1>1, <2>1, <2>2, ArriveUse
<1> QED
  BY <1>2, <1>3, <1>3a, <1>4, <1>5, <1>6, <1>7, <1>8, <1>9 DEF Begin

LEMMA UseInit == Init => UInv
<1> SUFFICES ASSUME Init PROVE UInv
  OBVIOUS
<1>1. \A c \in Calls : call[c].status = "idle" /\ call[c].fresh = Null
  BY DEF Init, NoCall, NewCall
<1> QED
  BY <1>1 DEF Init, UInv, UseOf, Tidy, Presented, Authentic, Ending, Linked, Unique,
     SetupLinkUsedOnce

LEMMA UseStep == IInv /\ UInv /\ [Next]_vars => UInv'
<1> SUFFICES ASSUME IInv, UInv, [Next]_vars PROVE UInv'
  OBVIOUS
<1>1. CASE UNCHANGED vars
  BY <1>1, QuietFrame, StillUse DEF vars, tables
<1>2. CASE \E c \in Calls : Begin(c)
  BY <1>2, BeginUse
<1>3. CASE \E c \in Calls : Step(c) \/ Fail(c)
  BY <1>3, StepUse
<1>4. CASE \E t \in Tokens : Expire(t) \/ ExpireLink(t)
  BY <1>4, ExpireFrame, StillUse DEF Expire, ExpireLink
<1> QED
  BY <1>1, <1>2, <1>3, <1>4 DEF Next, Quiet

LEMMA UseHolds == Spec => []UInv
<1>1. Spec => []IInv
  BY InvariantHolds
<1> QED
  BY <1>1, UseInit, UseStep, PTL DEF Spec

-----------------------------------------------------------------------------
(* The theorems *)

\* No call that begins after a credential was revoked or has expired gets an
\* access token with it, for whichever account it is presented: the lookup comes after the beginning, and the times
\* of a credential are never taken back.
THEOREM DeadGetsNoToken == Spec => []DeadCredentialGetsNoToken
<1>1. IInv /\ UInv => DeadCredentialGetsNoToken
  <2> SUFFICES ASSUME IInv, UInv, NEW c \in Calls, GotToken(c), call[c].token # Null
               PROVE  /\ creds[call[c].token].revoked # 0 =>
                           call[c].start <= creds[call[c].token].revoked
                      /\ creds[call[c].token].expired # 0 =>
                           call[c].start <= creds[call[c].token].expired
    BY DEF DeadCredentialGetsNoToken
  <2>1. call[c].status = "ok" /\ call[c].op \in {"login", "refresh", "token"}
    BY DEF GotToken
  <2>2. "session" \notin All(call[c].todo) /\ "secret" \notin All(call[c].todo)
    BY <2>1, EmptySeq DEF IInv, Fit, All
  <2> QED
    BY <2>1, <2>2 DEF UInv, UseOf, Presented
<1> QED
  BY <1>1, InvariantHolds, UseHolds, PTL

\* A password that was changed, by its user or through a reset link, is of no
\* use in a login that begins afterwards.
THEOREM OldPasswordIsDead == Spec => []OldPasswordGetsNoToken
<1>1. IInv /\ UInv => OldPasswordGetsNoToken
  <2> SUFFICES ASSUME IInv, UInv, NEW c \in Calls, GotToken(c), call[c].op = "login",
                      users[call[c].account].password # call[c].given
               PROVE  call[c].start <= users[call[c].account].changed
    BY DEF OldPasswordGetsNoToken
  <2>1. call[c].status = "ok"
    BY DEF GotToken
  <2>2. "password" \notin All(call[c].todo)
    BY <2>1, EmptySeq DEF IInv, Fit, All
  <2> QED
    BY <2>1, <2>2 DEF UInv, UseOf, Authentic
<1> QED
  BY <1>1, InvariantHolds, UseHolds, PTL

\* When a call that ends the credentials of an account has revoked them, every
\* credential issued before it began is revoked, whatever the other calls of
\* the account were doing meanwhile and whatever becomes of the rest of it.
THEOREM EarlierAreEnded == Spec => []EarlierCredentialsEnd
<1>1. IInv /\ UInv => EarlierCredentialsEnd
  <2> SUFFICES ASSUME IInv, UInv, NEW c \in Calls, HasRevoked(c), call[c].op \in Enders
               PROVE  Earlier(call[c]) = {}
    BY DEF EarlierCredentialsEnd, Enders, Earlier
  <2>1. /\ call[c].status \in {"running", "ok"} /\ ~Marking(call[c])
        /\ "revoke" \notin All(call[c].todo)
    <3>1. CASE call[c].status = "ok"
      BY <3>1, EmptySeq DEF IInv, Fit, All, Marking
    <3>2. CASE call[c].op \notin Transactions /\ Past(c, "revoke")
      <4>1. call[c].todo \in Seq(Statements)
        BY DEF IInv, TypeOK, Call
      <4> QED
        BY <3>2, <4>1 DEF Past, Running, All, Marking
    <3> QED
      BY <3>1, <3>2 DEF HasRevoked
  <2> QED
    BY <2>1 DEF UInv, UseOf, Ending
<1> QED
  BY <1>1, InvariantHolds, UseHolds, PTL

\* Two setups that both succeed were opened with different links: the secret
\* is a primary key, and it becomes a credential at the first COMMIT.
THEOREM SetupLinkIsUsedOnce == Spec => []SetupLinkUsedOnce
<1>1. UInv => SetupLinkUsedOnce
  BY DEF UInv
<1> QED
  BY <1>1, UseHolds, PTL
=============================================================================
