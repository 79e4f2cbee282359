----------------------- MODULE Administration_proofs -----------------------
(***************************************************************************)
(* For any accounts, ISNs and calls: the types of Administration, that     *)
(* only admins and owners change anything, that a site admin remains, and  *)
(* that the claims of a fresh token decide as the tables do.               *)
(***************************************************************************)
EXTENDS Administration, TLAPS

-----------------------------------------------------------------------------
(* The inductive invariant *)

\* An account has the role, or has changed since the time.
StillHas(a, role, time) ==
  (accounts[a].role = role /\ accounts[a].active) \/ accounts[a].since >= time

TablesOK ==
  /\ accounts \in [Accounts -> AccountRow]
  /\ isns \in [Isns -> IsnRow]
  /\ types \in [Isns -> [Types -> {"absent", "on", "off"}]]
  /\ grants \in [Isns -> [Accounts -> (SUBSET Rights) \union {Null}]]
  /\ begun \in Nat /\ written \in Nat /\ written <= begun
  /\ \A s \in Services : accounts[s].role \in {"member", Null}

\* A token tells the truth, or its account has changed since it was asked for.
TokensOK ==
  /\ token \in [Accounts -> Claims \union {Null}]
  /\ \A a \in Accounts : token[a] # Null =>
       /\ token[a].asked <= begun
       /\ StillHas(a, token[a].role, token[a].asked)
       /\ a \in Services => token[a].role = "member"

\* What a call was let in with, and has checked.
Entitled(q) ==
  q.op \in AdminOps \union SiteOps =>
    /\ q.caller \in People /\ q.role \in AllowedRoles(q.op)
    /\ StillHas(q.caller, q.role, q.asked)
Aimed(q) ==
  /\ q.op \in RoleOps \union {"disable", "enable", "token"} =>
       q.target \in Accounts /\ Exists(q.target)
  /\ q.op \in RoleOps /\ q.pc = "effect" => q.target \in People /\ q.target # q.caller
  /\ q.op = "register" => q.target \in People /\ (q.pc = "effect" => q.found \in Roles)
  /\ q.op = "service" => q.target \in Services
  /\ q.op \in {"createIsn", "transfer"} \union OwnerOps => q.isn \in Isns
  /\ q.op = "createIsn" => q.flag \in BOOLEAN
  /\ q.op = "permit" => q.target \in Accounts /\ q.arg \in SUBSET Rights
  /\ q.op = "transfer" /\ q.pc = "effect" => q.target \in People
Owning(q) ==
  q.op \in OwnerOps /\ q.pc # "isn" =>
    \/ q.role = "siteadmin"
    \/ isns[q.isn].owner = q.caller
    \/ isns[q.isn].since >= q.start
Told(q) ==
  q.op = "token" /\ q.pc # "account" =>
    /\ q.found \in Roles /\ StillHas(q.target, q.found, q.start)
    /\ q.target \in Services => q.found = "member"
Fit(q) ==
  q.pc # Null =>
    /\ q.start <= begun /\ q.asked <= begun
    /\ Entitled(q) /\ Aimed(q) /\ Owning(q) /\ Told(q)

\* What was read for a new token is what the tables have, if nothing was
\* written since it was asked for.
Current(q) ==
  q.pc # Null /\ q.op = "token" /\ written < q.start =>
    /\ q.pc # "account" => accounts[q.target].role = q.found /\ accounts[q.target].active
    /\ q.pc \in {"types", "grants", "effect"} => q.draft.isns = isns
    /\ \A i \in q.draft.typed : q.draft.types[i] = types[i]
    /\ q.pc \in {"grants", "effect"} => \A i \in Isns : Created(i) => i \in q.draft.typed
    /\ q.pc = "effect" => \A i \in Isns : q.draft.grants[i] = grants[i][q.target]

CallsOK ==
  /\ call \in [Calls -> Call]
  /\ \A c \in Calls : Fit(call[c]) /\ Current(call[c])

IInv == TablesOK /\ TokensOK /\ CallsOK /\ ClaimsMatchPolicy

LEMMA InvSplit == IInv => TypeOK
  BY DEF IInv, TablesOK, TokensOK, CallsOK, TypeOK

\* What the proofs use of a call.
LEMMA CallFacts ==
  ASSUME IInv, NEW c \in Calls
  PROVE  /\ call[c] \in Call /\ Fit(call[c]) /\ Current(call[c])
         /\ call[c].start \in Nat /\ call[c].asked \in Nat
         /\ begun \in Nat /\ written \in Nat /\ written <= begun
BY DEF IInv, CallsOK, TablesOK, Call

-----------------------------------------------------------------------------
(* Steps that change no table *)

LEMMA NoCallIsCall == NoCall \in Call /\ NoCall.pc = Null /\ NoCall.op = Null
<1>1. PICK b : b = FALSE
  OBVIOUS
<1>2. NoDraft = [isns |-> [i \in Isns |-> [owner |-> Null, inUse |-> b, since |-> 0]],
                 types |-> [i \in Isns |-> [t \in Types |-> "absent"]],
                 typed |-> {}, grants |-> [i \in Isns |-> Null]]
  BY <1>1, Zenon DEF NoDraft
<1>3. b \in BOOLEAN
  BY <1>1, Zenon
<1>4. NoDraft \in Draft
  BY <1>2, <1>3 DEF Draft, IsnRow
<1> QED
  BY <1>4 DEF NoCall, Call

\* Good(q): a call may go on as q, while the tables are as they are.
Good(q) ==
  q.pc # Null =>
    Entitled(q) /\ Aimed(q) /\ Owning(q) /\ Told(q) /\ Current(q)

LEMMA ReadStep ==
  ASSUME IInv, NEW c \in Calls, NEW q \in Call, call' = [call EXCEPT ![c] = q],
         UNCHANGED <<tables, token, written>>, begun' \in Nat, begun <= begun',
         q.start <= begun', q.asked <= begun', Good(q)
  PROVE  IInv'
<1>1. call'[c] = q /\ \A d \in Calls : d # c => call'[d] = call[d]
  BY DEF IInv, CallsOK
<1>2. TablesOK'
  BY DEF IInv, TablesOK, tables
<1>3. TokensOK'
  <2>1. \A a \in Accounts : token[a] # Null => token[a].asked \in Nat
    BY DEF IInv, TokensOK, Claims
  <2> QED
    BY <2>1 DEF IInv, TablesOK, TokensOK, StillHas, tables
<1>4. ASSUME NEW d \in Calls PROVE Fit(call[d])' /\ Current(call[d])'
  <2>1. CASE d = c
    <3>1. Fit(call[d])'
      BY <1>1, <2>1
      DEF Good, Fit, Entitled, Aimed, Owning, Told, StillHas, Exists, tables
    <3>2. Current(call[d])'
      BY <1>1, <2>1 DEF Good, Current, Created, tables
    <3> QED
      BY <3>1, <3>2
  <2>2. CASE d # c
    <3>1. Fit(call[d])'
      BY <1>1, <2>2, CallFacts
      DEF Fit, Entitled, Aimed, Owning, Told, StillHas, Exists, tables
    <3>2. Current(call[d])'
      BY <1>1, <2>2, CallFacts DEF Current, Created, tables
    <3> QED
      BY <3>1, <3>2
  <2> QED
    BY <2>1, <2>2
<1>5. CallsOK'
  BY <1>4 DEF IInv, CallsOK
<1>6. ClaimsMatchPolicy'
  BY DEF IInv, ClaimsMatchPolicy, Policy, MayUse, Created, tables
<1> QED
  BY <1>2, <1>3, <1>5, <1>6 DEF IInv

\* A call ends, without a change.
LEMMA EndStep ==
  ASSUME IInv, NEW c \in Calls, Set(c, NoCall), Unchanging
  PROVE  IInv'
<1>1. PICK q : q = NoCall
  OBVIOUS
<1>2. q \in Call /\ q.pc = Null /\ q.start = 0 /\ q.asked = 0
  BY <1>1, NoCallIsCall DEF NoCall
<1>3. call' = [call EXCEPT ![c] = q]
  BY <1>1 DEF Set
<1>4. Good(q) /\ begun \in Nat
  BY <1>2, CallFacts DEF Good
<1>5. UNCHANGED <<tables, token, written>> /\ begun' = begun
  BY DEF Unchanging
<1>6. begun' \in Nat /\ begun <= begun' /\ q.start <= begun' /\ q.asked <= begun'
  BY <1>2, <1>4, <1>5
<1> QED
  BY <1>2, <1>3, <1>4, <1>5, <1>6, ReadStep

\* A call goes on, with what it has read.
LEMMA GoOn ==
  ASSUME IInv, NEW c \in Calls, NEW q \in Call, Running(c), Set(c, q), Unchanging,
         q.start = call[c].start, q.asked = call[c].asked, Good(q)
  PROVE  IInv'
<1>1. call' = [call EXCEPT ![c] = q]
  BY DEF Set
<1>2. q.start <= begun /\ q.asked <= begun /\ begun \in Nat
  BY CallFacts DEF Fit, Running
<1>3. UNCHANGED <<tables, token, written>> /\ begun' = begun
  BY DEF Unchanging
<1>4. begun' \in Nat /\ begun <= begun' /\ q.start <= begun' /\ q.asked <= begun'
  BY <1>2, <1>3
<1> QED
  BY <1>1, <1>3, <1>4, ReadStep

LEMMA CheckStep ==
  ASSUME IInv, NEW c \in Calls, NEW s \in Statements, Running(c), NEW cond, Check(c, cond, s),
         cond => Good(Moved(call[c], s))
  PROVE  IInv'
<1>1. Unchanging
  BY DEF Check, Unchanging
<1>2. CASE cond
  <2>1. PICK q : q = Moved(call[c], s)
    OBVIOUS
  <2>2. q \in Call /\ q.start = call[c].start /\ q.asked = call[c].asked
    BY <2>1, CallFacts DEF Moved, Call
  <2>3. Set(c, q) /\ Good(q)
    BY <1>2, <2>1 DEF Check
  <2> QED
    BY <1>1, <2>2, <2>3, GoOn
<1>3. CASE ~cond
  BY <1>1, <1>3, EndStep DEF Check
<1> QED
  BY <1>2, <1>3

-----------------------------------------------------------------------------
(* Steps that change the tables *)

\* What a change leaves as it is: roles, states and owners change with their times.
Changed ==
  /\ \A a \in Accounts :
       \/ accounts'[a] = accounts[a]
       \/ accounts'[a].since = begun /\ accounts'[a].role # Null
  /\ \A i \in Isns :
       \/ isns'[i].owner = isns[i].owner /\ isns'[i].since = isns[i].since
       \/ isns'[i].since = begun

LEMMA WriteStep ==
  ASSUME IInv, NEW c \in Calls, Done(c), TablesOK', Changed
  PROVE  IInv'
<1>1. /\ call' = [call EXCEPT ![c] = NoCall]
      /\ written' = begun /\ token' = token /\ begun' = begun
  BY DEF Done, Set
<1>2. PICK q : q = NoCall
  OBVIOUS
<1>3. /\ q \in Call /\ q.pc = Null
      /\ call'[c] = q /\ \A d \in Calls : d # c => call'[d] = call[d]
      /\ call' \in [Calls -> Call]
  BY <1>1, <1>2, NoCallIsCall DEF IInv, CallsOK
<1>4. begun \in Nat
  BY DEF IInv, TablesOK
<1>5. \A a \in Accounts : \A role, time :
        time <= begun /\ StillHas(a, role, time) =>
          \/ accounts'[a].role = role /\ accounts'[a].active
          \/ accounts'[a].since >= time
  BY <1>4 DEF Changed, StillHas
<1>6. TokensOK'
  <2>1. ASSUME NEW a \in Accounts, token[a] # Null
        PROVE  /\ token'[a].asked <= begun'
               /\ StillHas(a, token[a].role, token[a].asked)'
               /\ a \in Services => token'[a].role = "member"
    <3>1. /\ token[a].asked <= begun /\ StillHas(a, token[a].role, token[a].asked)
          /\ a \in Services => token[a].role = "member"
      BY <2>1 DEF IInv, TokensOK
    <3> QED
      BY <1>1, <1>5, <3>1 DEF StillHas
  <2> QED
    BY <1>1, <2>1 DEF IInv, TokensOK
<1>7. ASSUME NEW d \in Calls PROVE Fit(call[d])' /\ Current(call[d])'
  <2>1. CASE d = c
    BY <1>3, <2>1 DEF Fit, Current
  <2>2. CASE d # c
    <3>1. call'[d] = call[d] /\ Fit(call[d]) /\ call[d].start \in Nat
      BY <1>3, <2>2, CallFacts
    <3>2. Current(call[d])'
      BY <1>1, <1>4, <3>1 DEF Fit, Current
    <3>3. Fit(call[d])'
      <4> SUFFICES ASSUME call[d].pc # Null
                   PROVE  /\ call[d].start <= begun' /\ call[d].asked <= begun'
                          /\ Entitled(call[d])' /\ Aimed(call[d])'
                          /\ Owning(call[d])' /\ Told(call[d])'
        BY <3>1 DEF Fit
      <4>1. /\ call[d].start <= begun /\ call[d].asked <= begun
            /\ Entitled(call[d]) /\ Aimed(call[d]) /\ Owning(call[d]) /\ Told(call[d])
        BY <3>1 DEF Fit
      <4>2. Entitled(call[d])'
        <5>1. People \subseteq Accounts
          BY DEF Accounts
        <5> QED
          BY <1>5, <3>1, <4>1, <5>1 DEF Entitled, StillHas
      <4>3. Aimed(call[d])'
        BY <3>1, <4>1 DEF Aimed, Exists, Changed
      <4>4. Owning(call[d])'
        BY <1>4, <3>1, <4>1 DEF Owning, Aimed, Changed
      <4>5. Told(call[d])'
        BY <1>5, <3>1, <4>1 DEF Told, Aimed, StillHas
      <4> QED
        BY <1>1, <4>1, <4>2, <4>3, <4>4, <4>5
    <3> QED
      BY <3>2, <3>3
  <2> QED
    BY <2>1, <2>2
<1>8. CallsOK'
  BY <1>3, <1>7 DEF CallsOK
<1>9. ClaimsMatchPolicy'
  <2>1. \A a \in Accounts : token'[a] # Null => ~(written' < token'[a].asked)
    <3>1. \A a \in Accounts : token[a] # Null => token[a].asked \in Nat /\ token[a].asked <= begun
      BY DEF IInv, TokensOK, Claims
    <3> QED
      BY <1>1, <1>4, <3>1
  <2> QED
    BY <2>1 DEF ClaimsMatchPolicy
<1> QED
  BY <1>6, <1>8, <1>9 DEF IInv

-----------------------------------------------------------------------------
(* Accounts *)

LEMMA NowFacts ==
  ASSUME IInv, NEW c \in Calls, NEW op \in Ops, NEW s \in Statements, Now(c, op, s)
  PROVE  /\ Running(c) /\ call[c].op = op /\ call[c].pc = s /\ call[c] \in Call
         /\ call[c].start \in Nat /\ call[c].start <= begun
         /\ Entitled(call[c]) /\ Aimed(call[c]) /\ Owning(call[c]) /\ Told(call[c])
         /\ Current(call[c])
<1>1. call[c].pc = s /\ call[c].op = op /\ s # Null
  BY StatementAssumption DEF Now
<1> QED
  BY <1>1, CallFacts DEF Fit, Running

LEMMA AccountWrite ==
  ASSUME IInv, NEW c \in Calls, Done(c), UNCHANGED <<isns, types, grants>>,
         NEW a \in Accounts, NEW r \in Roles, NEW b \in BOOLEAN,
         accounts' = [accounts EXCEPT ![a] = [role |-> r, active |-> b, since |-> begun]],
         a \in Services => r = "member"
  PROVE  IInv'
<1>1. /\ accounts \in [Accounts -> AccountRow] /\ begun \in Nat
      /\ \A s \in Services : accounts[s].role \in {"member", Null}
      /\ isns \in [Isns -> IsnRow]
  BY DEF IInv, TablesOK
<1>2. PICK row : row = [role |-> r, active |-> b, since |-> begun]
  OBVIOUS
<1>3. row \in AccountRow /\ row.role = r /\ row.since = begun
  BY <1>1, <1>2 DEF AccountRow
<1>4. \A x \in Accounts : accounts'[x] = IF x = a THEN row ELSE accounts[x]
  BY <1>1, <1>2
<1>5. accounts' \in [Accounts -> AccountRow]
  BY <1>1, <1>2, <1>3
<1>6. \A s \in Services : accounts'[s].role \in {"member", Null}
  <2>1. Services \subseteq Accounts
    BY DEF Accounts
  <2> QED
    BY <1>1, <1>3, <1>4, <2>1
<1>7. TablesOK'
  BY <1>1, <1>5, <1>6 DEF IInv, TablesOK, Done
<1>8. Changed
  BY <1>3, <1>4, NullAssumption DEF Changed
<1> QED
  BY <1>7, <1>8, WriteStep

LEMMA InsertPreserves ==
  ASSUME IInv, NEW c \in Calls, NEW r \in Roles, Insert(c, r),
         call[c].target \in Accounts, call[c].target \in Services => r = "member"
  PROVE  IInv'
<1>1. CASE Exists(call[c].target)
  BY <1>1, EndStep DEF Insert, Refuse
<1>2. CASE ~Exists(call[c].target)
  <2>1. PICK b \in BOOLEAN : b = TRUE
    BY Zenon
  <2>2. accounts' = [accounts EXCEPT ![call[c].target] =
                       [role |-> r, active |-> TRUE, since |-> begun]]
        /\ Done(c) /\ UNCHANGED <<isns, types, grants>>
    BY <1>2 DEF Insert
  <2>3. accounts' = [accounts EXCEPT ![call[c].target] =
                       [role |-> r, active |-> b, since |-> begun]]
    BY <2>1, <2>2, Zenon
  <2> QED
    BY <2>2, <2>3, AccountWrite
<1> QED
  BY <1>1, <1>2

LEMMA RegisterPreserves ==
  ASSUME IInv, NEW c \in Calls, RegisterUser(c) \/ RegisterServiceAccount(c)
  PROVE  IInv'
<1>1. {"register", "service"} \subseteq Ops /\ {"unique", "first", "effect"} \subseteq Statements
  BY DEF Ops, AdminOps, Statements
<1>2. CASE Now(c, "register", "unique") /\ Check(c, ~Exists(call[c].target), "first")
  <2>1. Good(Moved(call[c], "first"))
    BY <1>1, <1>2, NowFacts
    DEF Good, Moved, Call, Entitled, Aimed, Owning, Told, Current, AdminOps, SiteOps, OwnerOps, RoleOps
  <2> QED
    BY <1>1, <1>2, <2>1, NowFacts, CheckStep
<1>3. CASE /\ Now(c, "register", "first")
           /\ Set(c, [Moved(call[c], "effect") EXCEPT
                        !.found = IF IsFirstUser THEN "siteadmin" ELSE "member"])
           /\ Unchanging
  <2>1. PICK r \in {"siteadmin", "member"} : r = IF IsFirstUser THEN "siteadmin" ELSE "member"
    OBVIOUS
  <2>2. PICK q : q = [Moved(call[c], "effect") EXCEPT !.found = r]
    OBVIOUS
  <2>3. /\ q \in Call /\ q.op = "register" /\ q.pc = "effect" /\ q.found = r
        /\ q.start = call[c].start /\ q.asked = call[c].asked /\ q.target = call[c].target
    BY <1>1, <1>3, <2>2, NowFacts DEF Moved, Call, Roles
  <2>4. Good(q)
    BY <1>1, <1>3, <2>3, NowFacts
    DEF Good, Entitled, Aimed, Owning, Told, Current, AdminOps, SiteOps, OwnerOps, RoleOps, Roles
  <2> QED
    BY <1>1, <1>3, <2>1, <2>2, <2>3, <2>4, NowFacts, GoOn
<1>4. CASE Now(c, "register", "effect") /\ Insert(c, call[c].found)
  <2>1. call[c].target \in People /\ call[c].found \in Roles
    BY <1>1, <1>4, NowFacts DEF Aimed
  <2>2. call[c].target \in Accounts /\ call[c].target \notin Services
    BY <2>1, ConstantAssumption DEF Accounts
  <2> QED
    BY <1>4, <2>1, <2>2, InsertPreserves
<1>5. CASE Now(c, "service", "unique") /\ Check(c, ~Exists(call[c].target), "effect")
  <2>1. Good(Moved(call[c], "effect"))
    BY <1>1, <1>5, NowFacts
    DEF Good, Moved, Call, Entitled, Aimed, Owning, Told, Current, AdminOps, SiteOps, OwnerOps, RoleOps
  <2> QED
    BY <1>1, <1>5, <2>1, NowFacts, CheckStep
<1>6. CASE Now(c, "service", "effect") /\ Insert(c, "member")
  <2>1. call[c].target \in Accounts
    BY <1>1, <1>6, NowFacts DEF Aimed, Accounts
  <2>2. "member" \in Roles
    BY DEF Roles
  <2> QED
    BY <1>6, <2>1, <2>2, InsertPreserves
<1> QED
  BY <1>2, <1>3, <1>4, <1>5, <1>6 DEF RegisterUser, RegisterServiceAccount

LEMMA RolePreserves ==
  ASSUME IInv, NEW c \in Calls, NEW op \in RoleOps, NEW from, NEW to \in Roles,
         ChangeRole(c, op, from, to)
  PROVE  IInv'
<1>1. op \in Ops /\ {"target", "effect"} \subseteq Statements
  BY DEF Ops, SiteOps, Statements
<1>2. CASE /\ Now(c, op, "target")
           /\ Check(c, NotSelf(c) /\ call[c].target \in People
                       /\ accounts[call[c].target].role \in from, "effect")
  <2>1. NotSelf(c) /\ call[c].target \in People => Good(Moved(call[c], "effect"))
    BY <1>1, <1>2, NowFacts
    DEF Good, Moved, Call, Entitled, Aimed, Owning, Told, Current, AdminOps, SiteOps, OwnerOps,
        RoleOps, NotSelf
  <2> QED
    BY <1>1, <1>2, <2>1, NowFacts, CheckStep
<1>3. CASE /\ Now(c, op, "effect")
           /\ accounts' = [accounts EXCEPT ![call[c].target] =
                             [role |-> to, active |-> @.active, since |-> begun]]
           /\ Done(c) /\ UNCHANGED <<isns, types, grants>>
  <2>1. call[c].target \in Accounts /\ call[c].target \notin Services
    BY <1>1, <1>3, NowFacts, ConstantAssumption DEF Aimed, Accounts
  <2>2. accounts[call[c].target].active \in BOOLEAN /\ accounts \in [Accounts -> AccountRow]
    BY <2>1 DEF IInv, TablesOK, AccountRow
  <2>3. PICK b \in BOOLEAN : b = accounts[call[c].target].active
    BY <2>2
  <2>4. accounts' = [accounts EXCEPT ![call[c].target] =
                       [role |-> to, active |-> b, since |-> begun]]
    BY <1>3, <2>1, <2>2, <2>3
  <2> QED
    BY <1>3, <2>1, <2>4, AccountWrite
<1> QED
  BY <1>2, <1>3 DEF ChangeRole

LEMMA RolesPreserve ==
  ASSUME IInv, NEW c \in Calls,
         \/ GrantUserIsnAdminRole(c) \/ RevokeUserIsnAdminRole(c)
         \/ GrantUserSiteAdminRole(c) \/ RevokeUserSiteAdminRole(c)
  PROVE  IInv'
<1>1. /\ {"grantIsnAdmin", "revokeIsnAdmin", "grantSiteAdmin", "revokeSiteAdmin"} \subseteq RoleOps
      /\ {"isnadmin", "siteadmin", "member"} \subseteq Roles
  BY DEF RoleOps, Roles
<1> QED
  BY <1>1, RolePreserves
  DEF GrantUserIsnAdminRole, RevokeUserIsnAdminRole, GrantUserSiteAdminRole, RevokeUserSiteAdminRole

LEMMA ActivePreserves ==
  ASSUME IInv, NEW c \in Calls, DisableAccount(c) \/ EnableAccount(c)
  PROVE  IInv'
<1>1. PICK op \in {"disable", "enable"}, b \in BOOLEAN : SetActive(c, op, b)
  BY DEF DisableAccount, EnableAccount
<1>2. op \in Ops /\ "effect" \in Statements
  BY DEF Ops, AdminOps, Statements
<1>3. /\ Now(c, op, "effect") /\ Done(c) /\ UNCHANGED <<isns, types, grants>>
      /\ accounts' = [accounts EXCEPT ![call[c].target] =
                        [role |-> @.role, active |-> b, since |-> begun]]
  BY <1>1 DEF SetActive
<1>4. call[c].target \in Accounts /\ Exists(call[c].target)
  BY <1>2, <1>3, NowFacts DEF Aimed
<1>5. /\ accounts \in [Accounts -> AccountRow]
      /\ accounts[call[c].target].role \in Roles
      /\ call[c].target \in Services => accounts[call[c].target].role = "member"
  BY <1>4 DEF IInv, TablesOK, AccountRow, Exists
<1>6. accounts' = [accounts EXCEPT ![call[c].target] =
                     [role |-> accounts[call[c].target].role, active |-> b, since |-> begun]]
  BY <1>3, <1>4, <1>5
<1> QED
  BY <1>3, <1>4, <1>5, <1>6, AccountWrite

LEMMA ListsPreserve ==
  ASSUME IInv, NEW c \in Calls, GetUsers(c) \/ GetServiceAccounts(c)
  PROVE  IInv'
BY EndStep DEF GetUsers, GetServiceAccounts, Answer

-----------------------------------------------------------------------------
(* ISNs *)

\* A call that has found the ISN, and itself its owner or a site admin, goes on.
LEMMA FoundIsGood ==
  ASSUME IInv, NEW c \in Calls, NEW op \in OwnerOps \union {"transfer"}, NEW s \in Statements,
         ReadIsn(c, op, s), op \in {"transfer", "permit"} => s = "other"
  PROVE  IInv'
<1>1. op \in Ops /\ "isn" \in Statements /\ Now(c, op, "isn") /\ Unchanging
  BY DEF Ops, AdminOps, SiteOps, Statements, ReadIsn
<1>2. /\ Running(c) /\ call[c].op = op /\ call[c].pc = "isn" /\ call[c] \in Call
      /\ Entitled(call[c]) /\ Aimed(call[c]) /\ call[c].isn \in Isns
  BY <1>1, NowFacts DEF Aimed
<1>3. CASE Set(c, NoCall)
  BY <1>1, <1>3, EndStep
<1>4. CASE /\ Created(call[c].isn) /\ (op \in OwnerOps => ~OwnedByOther(c))
           /\ Set(c, [Moved(call[c], s) EXCEPT !.draft.isns[call[c].isn] = isns[call[c].isn]])
  <2>1. PICK d : d = [call[c].draft EXCEPT !.isns[call[c].isn] = isns[call[c].isn]]
    OBVIOUS
  <2>2. d \in Draft
    <3>1. call[c].draft \in Draft /\ isns[call[c].isn] \in IsnRow
      BY <1>2 DEF Call, IInv, TablesOK
    <3> QED
      BY <1>2, <2>1, <3>1 DEF Draft
  <2>3. PICK q : q = [[call[c] EXCEPT !.pc = s] EXCEPT !.draft = d]
    OBVIOUS
  <2>4. Set(c, q)
    BY <1>4, <1>2, <2>1, <2>3 DEF Moved, Call
  <2>5. /\ q \in Call /\ q.op = op /\ q.pc = s
        /\ q.start = call[c].start /\ q.asked = call[c].asked
        /\ q.caller = call[c].caller /\ q.role = call[c].role /\ q.target = call[c].target
        /\ q.isn = call[c].isn /\ q.arg = call[c].arg /\ q.flag = call[c].flag
    BY <1>2, <2>2, <2>3 DEF Call
  <2>6. Entitled(q)
    BY <1>2, <2>5 DEF Entitled
  <2>7. Aimed(q)
    BY <1>2, <2>5 DEF Aimed, OwnerOps, RoleOps
  <2>8. Owning(q)
    BY <1>2, <1>4, <2>5 DEF Owning, OwnedByOther, Entitled, AllowedRoles, OwnerOps, AdminOps,
       SiteOps, RoleOps
  <2>9. Told(q) /\ Current(q)
    BY <2>5 DEF Told, Current, OwnerOps
  <2> QED
    BY <1>1, <1>2, <2>4, <2>5, <2>6, <2>7, <2>8, <2>9, GoOn DEF Good
<1> QED
  BY <1>3, <1>4 DEF ReadIsn

LEMMA IsnWrite ==
  ASSUME IInv, NEW c \in Calls, Done(c), UNCHANGED <<accounts, types, grants>>,
         NEW i \in Isns, NEW row \in IsnRow, isns' = [isns EXCEPT ![i] = row],
         row.since = begun \/ (row.owner = isns[i].owner /\ row.since = isns[i].since)
  PROVE  IInv'
<1>1. isns \in [Isns -> IsnRow] /\ begun \in Nat
  BY DEF IInv, TablesOK
<1>2. \A x \in Isns : isns'[x] = IF x = i THEN row ELSE isns[x]
  BY <1>1
<1>3. TablesOK'
  BY <1>1 DEF IInv, TablesOK, Done
<1>4. Changed
  BY <1>2 DEF Changed
<1> QED
  BY <1>3, <1>4, WriteStep

LEMMA CreateIsnPreserves ==
  ASSUME IInv, NEW c \in Calls, CreateIsn(c)
  PROVE  IInv'
<1>1. "createIsn" \in Ops /\ {"unique", "effect"} \subseteq Statements
  BY DEF Ops, AdminOps, Statements
<1>2. CASE Now(c, "createIsn", "unique") /\ Check(c, ~Created(call[c].isn), "effect")
  <2>1. Good(Moved(call[c], "effect"))
    BY <1>1, <1>2, NowFacts
    DEF Good, Moved, Call, Entitled, Aimed, Owning, Told, Current, AdminOps, SiteOps, OwnerOps, RoleOps
  <2> QED
    BY <1>1, <1>2, <2>1, NowFacts, CheckStep
<1>3. CASE Now(c, "createIsn", "effect") /\ Created(call[c].isn) /\ Refuse(c)
  BY <1>3, EndStep DEF Refuse
<1>4. CASE /\ Now(c, "createIsn", "effect") /\ Done(c) /\ UNCHANGED <<accounts, types, grants>>
           /\ isns' = [isns EXCEPT ![call[c].isn] =
                         [owner |-> call[c].caller, inUse |-> call[c].flag, since |-> begun]]
  <2>1. /\ call[c].isn \in Isns /\ call[c].flag \in BOOLEAN /\ call[c].caller \in People
        /\ begun \in Nat
    BY <1>1, <1>4, NowFacts, CallFacts DEF Aimed, Entitled, AdminOps
  <2>2. PICK b \in BOOLEAN : b = call[c].flag
    BY <2>1
  <2>3. PICK row : row = [owner |-> call[c].caller, inUse |-> b, since |-> begun]
    OBVIOUS
  <2>4. isns' = [isns EXCEPT ![call[c].isn] = row]
    BY <1>4, <2>2, <2>3
  <2>5. row \in IsnRow /\ row.since = begun
    BY <2>1, <2>3 DEF IsnRow
  <2> QED
    BY <1>4, <2>1, <2>4, <2>5, IsnWrite
<1> QED
  BY <1>2, <1>3, <1>4 DEF CreateIsn

LEMMA UpdateIsnPreserves ==
  ASSUME IInv, NEW c \in Calls, UpdateIsn(c)
  PROVE  IInv'
<1>1. "updateIsn" \in Ops /\ "updateIsn" \in OwnerOps /\ "effect" \in Statements
  BY DEF Ops, AdminOps, OwnerOps, Statements
<1>2. CASE ReadIsn(c, "updateIsn", "effect")
  BY <1>1, <1>2, FoundIsGood
<1>3. CASE /\ Now(c, "updateIsn", "effect") /\ Done(c) /\ UNCHANGED <<accounts, types, grants>>
           /\ isns' = [isns EXCEPT ![call[c].isn] =
                         [owner |-> @.owner, inUse |-> FlagOf(call[c]), since |-> @.since]]
  <2>1. call[c] \in Call /\ call[c].isn \in Isns
    BY <1>1, <1>3, NowFacts DEF Aimed
  <2>2. isns \in [Isns -> IsnRow] /\ isns[call[c].isn] \in IsnRow
    BY <2>1 DEF IInv, TablesOK
  <2>3. FlagOf(call[c]) \in BOOLEAN
    <3>1. call[c].draft \in Draft /\ call[c].flag \in BOOLEAN \union {Null}
      BY <2>1 DEF Call
    <3>2. call[c].draft.isns[call[c].isn].inUse \in BOOLEAN
      BY <2>1, <3>1 DEF Draft, IsnRow
    <3>3. CASE call[c].flag # Null
      BY <3>1, <3>3, Zenon DEF FlagOf
    <3>4. CASE call[c].flag = Null
      BY <3>2, <3>4, Zenon DEF FlagOf
    <3> QED
      BY <3>3, <3>4
  <2>4. PICK b \in BOOLEAN : b = FlagOf(call[c])
    BY <2>3
  <2>5. PICK row : row = [owner |-> isns[call[c].isn].owner, inUse |-> b,
                          since |-> isns[call[c].isn].since]
    OBVIOUS
  <2>6. isns' = [isns EXCEPT ![call[c].isn] = row]
    BY <1>3, <2>1, <2>2, <2>4, <2>5
  <2>7. /\ row \in IsnRow
        /\ row.owner = isns[call[c].isn].owner /\ row.since = isns[call[c].isn].since
    BY <2>2, <2>5 DEF IsnRow
  <2> QED
    BY <1>3, <2>1, <2>6, <2>7, IsnWrite
<1> QED
  BY <1>2, <1>3 DEF UpdateIsn

LEMMA TransferPreserves ==
  ASSUME IInv, NEW c \in Calls, TransferIsnOwnership(c)
  PROVE  IInv'
<1>1. "transfer" \in Ops /\ {"other", "effect"} \subseteq Statements
  BY DEF Ops, SiteOps, Statements
<1>2. CASE ReadIsn(c, "transfer", "other")
  BY <1>1, <1>2, FoundIsGood
<1>3. CASE /\ Now(c, "transfer", "other")
           /\ Check(c, /\ call[c].target \in People
                       /\ accounts[call[c].target].role # "member"
                       /\ accounts[call[c].target].active
                       /\ call[c].draft.isns[call[c].isn].owner # call[c].target, "effect")
  <2>1. call[c].target \in People => Good(Moved(call[c], "effect"))
    BY <1>1, <1>3, NowFacts
    DEF Good, Moved, Call, Entitled, Aimed, Owning, Told, Current, AdminOps, SiteOps, OwnerOps, RoleOps
  <2> QED
    BY <1>1, <1>3, <2>1, NowFacts, CheckStep
<1>4. CASE /\ Now(c, "transfer", "effect") /\ Done(c) /\ UNCHANGED <<accounts, types, grants>>
           /\ isns' = [isns EXCEPT ![call[c].isn] =
                         [owner |-> call[c].target, inUse |-> @.inUse, since |-> begun]]
  <2>1. call[c].isn \in Isns /\ call[c].target \in People /\ begun \in Nat
    BY <1>1, <1>4, NowFacts, CallFacts DEF Aimed
  <2>2. isns \in [Isns -> IsnRow] /\ isns[call[c].isn].inUse \in BOOLEAN
    BY <2>1 DEF IInv, TablesOK, IsnRow
  <2>3. PICK b \in BOOLEAN : b = isns[call[c].isn].inUse
    BY <2>2
  <2>4. PICK row : row = [owner |-> call[c].target, inUse |-> b, since |-> begun]
    OBVIOUS
  <2>5. isns' = [isns EXCEPT ![call[c].isn] = row]
    BY <1>4, <2>1, <2>2, <2>3, <2>4
  <2>6. row \in IsnRow /\ row.since = begun
    BY <2>1, <2>4 DEF IsnRow
  <2> QED
    BY <1>4, <2>1, <2>5, <2>6, IsnWrite
<1> QED
  BY <1>2, <1>3, <1>4 DEF TransferIsnOwnership

-----------------------------------------------------------------------------
(* The signal types and the accounts of an ISN *)

LEMMA PermitPreserves ==
  ASSUME IInv, NEW c \in Calls, UpdateIsnAccountPermission(c)
  PROVE  IInv'
<1>1. "permit" \in Ops /\ "permit" \in OwnerOps /\ {"other", "effect"} \subseteq Statements
  BY DEF Ops, AdminOps, OwnerOps, Statements
<1>2. CASE ReadIsn(c, "permit", "other")
  BY <1>1, <1>2, FoundIsGood
<1>3. CASE Now(c, "permit", "other") /\ Check(c, NotSelf(c), "effect")
  <2>1. Good(Moved(call[c], "effect"))
    BY <1>1, <1>3, NowFacts
    DEF Good, Moved, Call, Entitled, Aimed, Owning, Told, Current, AdminOps, SiteOps, OwnerOps, RoleOps
  <2> QED
    BY <1>1, <1>3, <2>1, NowFacts, CheckStep
<1>4. CASE /\ Now(c, "permit", "effect") /\ Done(c) /\ UNCHANGED <<accounts, isns, types>>
           /\ grants' = [grants EXCEPT ![call[c].isn] = [@ EXCEPT ![call[c].target] = call[c].arg]]
  <2>1. call[c].isn \in Isns /\ call[c].target \in Accounts /\ call[c].arg \in SUBSET Rights
    BY <1>1, <1>4, NowFacts DEF Aimed
  <2>2. grants' \in [Isns -> [Accounts -> (SUBSET Rights) \union {Null}]]
    BY <1>4, <2>1 DEF IInv, TablesOK
  <2>3. TablesOK'
    BY <1>4, <2>2 DEF IInv, TablesOK, Done
  <2>4. Changed
    BY <1>4 DEF Changed
  <2> QED
    BY <1>4, <2>3, <2>4, WriteStep
<1> QED
  BY <1>2, <1>3, <1>4 DEF UpdateIsnAccountPermission

LEMMA TypesWrite ==
  ASSUME IInv, NEW c \in Calls, Done(c), UNCHANGED <<accounts, isns, grants>>,
         types' \in [Isns -> [Types -> {"absent", "on", "off"}]]
  PROVE  IInv'
<1>1. TablesOK'
  BY DEF IInv, TablesOK, Done
<1>2. Changed
  BY DEF Changed
<1> QED
  BY <1>1, <1>2, WriteStep

LEMMA TypesPreserve ==
  ASSUME IInv, NEW c \in Calls,
         GetIsnAccounts(c) \/ AddSignalTypeToISN(c) \/ UpdateIsnSignalTypeStatus(c)
  PROVE  IInv'
<1>1. /\ {"listAccounts", "addType", "typeStatus"} \subseteq OwnerOps \intersect Ops
      /\ "effect" \in Statements
  BY DEF Ops, AdminOps, OwnerOps, Statements
<1>2. CASE \E op \in {"listAccounts", "addType", "typeStatus"} : ReadIsn(c, op, "effect")
  BY <1>1, <1>2, FoundIsGood
<1>3. CASE Answer(c) \/ Refuse(c)
  BY <1>3, EndStep DEF Answer, Refuse
<1>4. types \in [Isns -> [Types -> {"absent", "on", "off"}]]
  BY DEF IInv, TablesOK
<1>5. CASE /\ Now(c, "addType", "effect")
           /\ types' = [types EXCEPT ![call[c].isn] =
                [t \in Types |-> IF t \in call[c].arg /\ @[t] = "absent" THEN "on" ELSE @[t]]]
           /\ Done(c) /\ UNCHANGED <<accounts, isns, grants>>
  <2>1. call[c].isn \in Isns
    BY <1>1, <1>5, NowFacts DEF Aimed, OwnerOps
  <2>2. types' \in [Isns -> [Types -> {"absent", "on", "off"}]]
    BY <1>4, <1>5, <2>1
  <2> QED
    BY <1>5, <2>2, TypesWrite
<1>6. CASE /\ Now(c, "typeStatus", "effect")
           /\ types' = [types EXCEPT ![call[c].isn] =
                [t \in Types |-> IF t \notin call[c].arg THEN @[t]
                                 ELSE IF call[c].flag = TRUE THEN "on" ELSE "off"]]
           /\ Done(c) /\ UNCHANGED <<accounts, isns, grants>>
  <2>1. call[c].isn \in Isns
    BY <1>1, <1>6, NowFacts DEF Aimed, OwnerOps
  <2>2. types' \in [Isns -> [Types -> {"absent", "on", "off"}]]
    BY <1>4, <1>6, <2>1
  <2> QED
    BY <1>6, <2>2, TypesWrite
<1> QED
  BY <1>2, <1>3, <1>5, <1>6 DEF GetIsnAccounts, AddSignalTypeToISN, UpdateIsnSignalTypeStatus

-----------------------------------------------------------------------------
(* CreateAccessToken *)

LEMMA TokenFacts ==
  ASSUME IInv, NEW c \in Calls, NEW s \in Statements, Now(c, "token", s)
  PROVE  /\ Running(c) /\ call[c].op = "token" /\ call[c].pc = s /\ call[c] \in Call
         /\ call[c].target \in Accounts /\ Exists(call[c].target)
         /\ call[c].draft \in Draft
         /\ Aimed(call[c]) /\ Told(call[c]) /\ Current(call[c])
         /\ s # Null
<1>1. "token" \in Ops
  BY DEF Ops
<1> QED
  BY <1>1, NowFacts, StatementAssumption DEF Aimed, Call

\* A call for a token goes on as q: what is to be shown of q.
LEMMA TokenGoOn ==
  ASSUME IInv, NEW c \in Calls, NEW s \in Statements, Now(c, "token", s), Unchanging,
         NEW q \in Call, Set(c, q), q.op = "token", q.target = call[c].target,
         q.start = call[c].start, q.asked = call[c].asked, Told(q), Current(q)
  PROVE  IInv'
<1>1. Entitled(q) /\ Owning(q)
  BY DEF Entitled, Owning, AdminOps, SiteOps, OwnerOps, RoleOps
<1>2. Aimed(q)
  BY TokenFacts DEF Aimed, OwnerOps, RoleOps
<1> QED
  BY <1>1, <1>2, TokenFacts, GoOn DEF Good

LEMMA ReadAccountPreserves ==
  ASSUME IInv, NEW c \in Calls, ReadAccount(c)
  PROVE  IInv'
<1>1. {"account", "isns"} \subseteq Statements /\ Now(c, "token", "account") /\ Unchanging
  BY DEF Statements, ReadAccount
<1>2. CASE Set(c, NoCall)
  BY <1>1, <1>2, EndStep
<1>3. CASE /\ accounts[call[c].target].active
           /\ Set(c, [Moved(call[c], "isns") EXCEPT !.found = accounts[call[c].target].role])
  <2>1. call[c] \in Call /\ call[c].target \in Accounts /\ Exists(call[c].target)
    BY <1>1, TokenFacts
  <2>2. /\ accounts[call[c].target].role \in Roles
        /\ call[c].target \in Services => accounts[call[c].target].role = "member"
    BY <2>1 DEF IInv, TablesOK, AccountRow, Exists
  <2>3. PICK q : q = [Moved(call[c], "isns") EXCEPT !.found = accounts[call[c].target].role]
    OBVIOUS
  <2>4. /\ q \in Call /\ q.op = call[c].op /\ q.pc = "isns" /\ q.target = call[c].target
        /\ q.found = accounts[call[c].target].role
        /\ q.start = call[c].start /\ q.asked = call[c].asked /\ q.draft = call[c].draft
    BY <2>1, <2>2, <2>3, <1>1 DEF Moved, Call
  <2>5. Told(q)
    BY <1>3, <2>2, <2>4 DEF Told, StillHas
  <2>6. Current(q)
    BY <1>1, <1>3, <2>4, TokenFacts DEF Current
  <2> QED
    BY <1>1, <1>3, <2>3, <2>4, <2>5, <2>6, TokenFacts, TokenGoOn
<1> QED
  BY <1>2, <1>3 DEF ReadAccount, IsActive

LEMMA ReadIsnsPreserves ==
  ASSUME IInv, NEW c \in Calls, ReadIsns(c)
  PROVE  IInv'
<1>1. {"isns", "types"} \subseteq Statements /\ Now(c, "token", "isns") /\ Unchanging
  BY DEF Statements, ReadIsns
<1>2. call[c] \in Call /\ call[c].draft \in Draft
  BY <1>1, TokenFacts
<1>3. PICK d : d = [call[c].draft EXCEPT !.isns = isns]
  OBVIOUS
<1>4. /\ d \in Draft /\ d.isns = isns /\ d.types = call[c].draft.types
      /\ d.typed = call[c].draft.typed
  BY <1>2, <1>3 DEF Draft, IInv, TablesOK
<1>5. PICK q : q = [Moved(call[c], "types") EXCEPT !.draft = d]
  OBVIOUS
<1>6. Set(c, q)
  BY <1>2, <1>3, <1>5 DEF ReadIsns, Moved, Call
<1>7. /\ q \in Call /\ q.op = call[c].op /\ q.pc = "types" /\ q.target = call[c].target
      /\ q.found = call[c].found /\ q.draft = d
      /\ q.start = call[c].start /\ q.asked = call[c].asked
  BY <1>1, <1>2, <1>4, <1>5 DEF Moved, Call
<1>8. Told(q) /\ Current(q)
  BY <1>1, <1>4, <1>7, TokenFacts DEF Told, Current
<1> QED
  BY <1>1, <1>6, <1>7, <1>8, TokenFacts, TokenGoOn

LEMMA ReadTypesPreserves ==
  ASSUME IInv, NEW c \in Calls, ReadTypes(c)
  PROVE  IInv'
<1>1. {"types", "grants"} \subseteq Statements /\ Now(c, "token", "types") /\ Unchanging
  BY DEF Statements, ReadTypes
<1>2. call[c] \in Call /\ call[c].draft \in Draft
  BY <1>1, TokenFacts
<1>3. CASE Listed(call[c]) \ call[c].draft.typed = {} /\ Set(c, Moved(call[c], "grants"))
  <2>1. PICK q : q = Moved(call[c], "grants")
    OBVIOUS
  <2>2. /\ q \in Call /\ q.op = call[c].op /\ q.pc = "grants" /\ q.target = call[c].target
        /\ q.found = call[c].found /\ q.draft = call[c].draft
        /\ q.start = call[c].start /\ q.asked = call[c].asked
    BY <1>1, <1>2, <2>1 DEF Moved, Call
  <2>3. Told(q)
    BY <1>1, <2>2, TokenFacts DEF Told
  <2>4. Current(q)
    BY <1>1, <1>3, <2>2, TokenFacts DEF Current, Listed, Created
  <2> QED
    BY <1>1, <1>3, <2>1, <2>2, <2>3, <2>4, TokenFacts, TokenGoOn
<1>4. CASE \E i \in Listed(call[c]) \ call[c].draft.typed :
             Set(c, [call[c] EXCEPT !.draft.types[i] = types[i],
                                    !.draft.typed = @ \union {i}])
  <2>1. PICK i \in Isns : Set(c, [call[c] EXCEPT !.draft.types[i] = types[i],
                                                 !.draft.typed = @ \union {i}])
    BY <1>4 DEF Listed
  <2>2. PICK e : e = [call[c].draft EXCEPT !.types[i] = types[i]]
    OBVIOUS
  <2>3. types[i] \in [Types -> {"absent", "on", "off"}]
    BY DEF IInv, TablesOK
  <2>4. /\ e \in Draft /\ e.isns = call[c].draft.isns /\ e.typed = call[c].draft.typed
        /\ e.grants = call[c].draft.grants
        /\ \A j \in Isns : e.types[j] = IF j = i THEN types[i] ELSE call[c].draft.types[j]
    BY <1>2, <2>2, <2>3 DEF Draft
  <2>5. PICK d : d = [e EXCEPT !.typed = e.typed \union {i}]
    OBVIOUS
  <2>6. /\ d \in Draft /\ d.isns = e.isns /\ d.typed = e.typed \union {i}
        /\ d.types = e.types /\ d.grants = e.grants
    BY <2>4, <2>5 DEF Draft
  <2>7. PICK q : q = [call[c] EXCEPT !.draft = d]
    OBVIOUS
  <2>8. Set(c, q)
    <3>1. [call[c] EXCEPT !.draft.types[i] = types[i], !.draft.typed = @ \union {i}] = q
      BY <1>2, <2>2, <2>4, <2>5, <2>7 DEF Call, Draft
    <3> QED
      BY <2>1, <3>1
  <2>9. /\ q \in Call /\ q.op = call[c].op /\ q.pc = "types" /\ q.target = call[c].target
        /\ q.found = call[c].found /\ q.draft = d
        /\ q.start = call[c].start /\ q.asked = call[c].asked
    BY <1>1, <1>2, <2>6, <2>7 DEF Now, Call
  <2>10. Told(q)
    BY <1>1, <2>9, TokenFacts DEF Told
  <2>11. Current(q)
    <3>1. call[c].draft.typed \subseteq Isns
      BY <1>2 DEF Draft
    <3> QED
      BY <1>1, <2>4, <2>6, <2>9, <3>1, TokenFacts DEF Current
  <2> QED
    BY <1>1, <2>8, <2>9, <2>10, <2>11, TokenFacts, TokenGoOn
<1> QED
  BY <1>3, <1>4 DEF ReadTypes

LEMMA ReadGrantsPreserves ==
  ASSUME IInv, NEW c \in Calls, ReadGrants(c)
  PROVE  IInv'
<1>1. {"grants", "effect"} \subseteq Statements /\ Now(c, "token", "grants") /\ Unchanging
  BY DEF Statements, ReadGrants
<1>2. call[c] \in Call /\ call[c].draft \in Draft /\ call[c].target \in Accounts
  BY <1>1, TokenFacts
<1>3. CASE Set(c, NoCall)
  BY <1>1, <1>3, EndStep
<1>4. CASE Set(c, [Moved(call[c], "effect") EXCEPT
                     !.draft.grants = [i \in Isns |-> grants[i][call[c].target]]])
  <2>1. PICK granted : granted = [i \in Isns |-> grants[i][call[c].target]]
    OBVIOUS
  <2>2. granted \in [Isns -> (SUBSET Rights) \union {Null}]
    BY <1>2, <2>1 DEF IInv, TablesOK
  <2>3. PICK d : d = [call[c].draft EXCEPT !.grants = granted]
    OBVIOUS
  <2>4. /\ d \in Draft /\ d.isns = call[c].draft.isns /\ d.types = call[c].draft.types
        /\ d.typed = call[c].draft.typed /\ d.grants = granted
    BY <1>2, <2>2, <2>3 DEF Draft
  <2>5. PICK q : q = [Moved(call[c], "effect") EXCEPT !.draft = d]
    OBVIOUS
  <2>6. Set(c, q)
    BY <1>2, <1>4, <2>1, <2>3, <2>5 DEF Moved, Call
  <2>7. /\ q \in Call /\ q.op = call[c].op /\ q.pc = "effect" /\ q.target = call[c].target
        /\ q.found = call[c].found /\ q.draft = d
        /\ q.start = call[c].start /\ q.asked = call[c].asked
    BY <1>1, <1>2, <2>4, <2>5 DEF Moved, Call
  <2>8. Told(q) /\ Current(q)
    BY <1>1, <2>1, <2>4, <2>7, TokenFacts DEF Told, Current
  <2> QED
    BY <1>1, <2>6, <2>7, <2>8, TokenFacts, TokenGoOn
<1> QED
  BY <1>3, <1>4 DEF ReadGrants

\* What the middleware makes of the permissions in a token.
Lets(perm, rights, t) ==
  perm # Null /\ perm.inUse /\ perm.rights \intersect rights # {} /\ t \in perm.types

\* What PermOf gives for the tables as they are is what Policy says.
LEMMA PermIsPolicy ==
  ASSUME TablesOK, NEW a \in Accounts, accounts[a].active, accounts[a].role \in Roles,
         NEW i \in Isns, NEW t \in Types,
         NEW rights \in {{"read"}, {"write"}, Rights},
         NEW perm, perm = PermOf(a, accounts[a].role, isns[i], types[i], grants[i][a])
  PROVE  Lets(perm, rights, t) <=> Policy(a, rights, i, t)
<1>1. /\ isns[i].inUse \in BOOLEAN /\ grants[i][a] \in (SUBSET Rights) \union {Null}
      /\ types[i] \in [Types -> {"absent", "on", "off"}]
  BY DEF TablesOK, IsnRow
<1>2. PICK b \in BOOLEAN : b = isns[i].inUse
  BY <1>1
<1>3. UsableTypes(types[i], isns[i].inUse) = {u \in Types : types[i][u] = "on" /\ b}
  BY <1>2, Zenon DEF UsableTypes
<1>4. PICK usable : usable = {u \in Types : types[i][u] = "on" /\ b}
  OBVIOUS
<1>5. rights # {} /\ rights \subseteq Rights /\ Rights = {"read", "write"}
  BY DEF Rights
<1>6. CASE Administers(a, accounts[a].role, isns[i])
  <2>1. perm = [rights |-> Rights \union {"administer"}, inUse |-> b, types |-> usable]
    BY <1>2, <1>3, <1>4, <1>6 DEF PermOf
  <2>2. /\ perm \in Perm /\ perm.inUse = b /\ perm.types = usable
        /\ perm.rights = Rights \union {"administer"}
    BY <1>4, <2>1 DEF Perm
  <2>3. perm # Null /\ perm.rights \intersect rights # {}
    BY <1>5, <2>2, PermAssumption
  <2>4. Policy(a, rights, i, t) <=> b /\ types[i][t] = "on"
    BY <1>2, <1>6 DEF Policy, Administers
  <2> QED
    BY <1>4, <2>2, <2>3, <2>4 DEF Lets
<1>7. CASE /\ ~Administers(a, accounts[a].role, isns[i])
           /\ grants[i][a] # Null
  <2>1. accounts[a].role # "siteadmin"
    BY <1>7 DEF Administers
  <2>2. perm = [rights |-> grants[i][a], inUse |-> b, types |-> usable]
    BY <1>2, <1>3, <1>4, <1>7, <2>1 DEF PermOf
  <2>3. /\ perm \in Perm /\ perm.inUse = b /\ perm.types = usable
        /\ perm.rights = grants[i][a]
    BY <1>1, <1>4, <1>7, <2>2 DEF Perm
  <2>4. perm # Null
    BY <2>3, PermAssumption
  <2>5. Policy(a, rights, i, t) <=>
          b /\ types[i][t] = "on" /\ grants[i][a] \intersect rights # {}
    BY <1>2, <1>7, <2>1 DEF Policy, Administers
  <2> QED
    BY <1>4, <2>3, <2>4, <2>5 DEF Lets
<1>8. CASE /\ ~Administers(a, accounts[a].role, isns[i])
           /\ grants[i][a] = Null
  <2>1. perm = Null
    BY <1>8 DEF PermOf
  <2>2. ~Policy(a, rights, i, t)
    BY <1>8 DEF Policy, Administers
  <2> QED
    BY <2>1, <2>2 DEF Lets
<1> QED
  BY <1>6, <1>7, <1>8

\* Without the tables: the type of what PermOf gives.
LEMMA PermType ==
  ASSUME NEW a, NEW r, NEW row \in IsnRow, NEW status \in [Types -> {"absent", "on", "off"}],
         NEW granted \in (SUBSET Rights) \union {Null}
  PROVE  PermOf(a, r, row, status, granted) \in Perm \union {Null}
<1>1. PICK b \in BOOLEAN : b = row.inUse
  BY DEF IsnRow
<1>2. PICK usable : usable = UsableTypes(status, row.inUse)
  OBVIOUS
<1>3. usable \subseteq Types
  BY <1>2 DEF UsableTypes
<1>4. \A rights \in SUBSET (Rights \union {"administer"}) :
        [rights |-> rights, inUse |-> b, types |-> usable] \in Perm
  BY <1>3 DEF Perm
<1> QED
  BY <1>1, <1>2, <1>4 DEF PermOf

LEMMA MintPreserves ==
  ASSUME IInv, NEW c \in Calls, Now(c, "token", "effect"),
         token' = [token EXCEPT ![call[c].target] = ClaimsOf(call[c])],
         Set(c, NoCall), UNCHANGED <<tables, written, begun>>
  PROVE  IInv'
<1> DEFINE p == call[c]
           a == p.target
<1>1. "effect" \in Statements /\ "token" \in Ops
  BY DEF Statements, Ops
<1>2. /\ p \in Call /\ p.op = "token" /\ p.pc = "effect" /\ p.pc # Null
      /\ a \in Accounts /\ p.draft \in Draft
      /\ p.start \in Nat /\ p.start <= begun /\ Told(p) /\ Current(p)
  BY <1>1, TokenFacts, NowFacts
<1>3. p.found \in Roles /\ StillHas(a, p.found, p.start) /\ (a \in Services => p.found = "member")
  BY <1>2 DEF Told
<1>4. PICK perms : perms = [i \in Isns |->
         IF i \notin Listed(p) THEN Null
         ELSE PermOf(a, p.found, p.draft.isns[i], p.draft.types[i], p.draft.grants[i])]
  OBVIOUS
<1>5. PICK claims : claims = [role |-> p.found, asked |-> p.start, perms |-> perms]
  OBVIOUS
<1>6. perms \in [Isns -> Perm \union {Null}]
  <2>1. \A i \in Isns : /\ p.draft.isns[i] \in IsnRow
                        /\ p.draft.types[i] \in [Types -> {"absent", "on", "off"}]
                        /\ p.draft.grants[i] \in (SUBSET Rights) \union {Null}
    BY <1>2 DEF Draft
  <2> QED
    BY <1>4, <2>1, PermType
<1>7. /\ claims \in Claims /\ claims.role = p.found /\ claims.asked = p.start
      /\ claims.perms = perms
  BY <1>2, <1>3, <1>5, <1>6 DEF Claims
<1>8. token' = [token EXCEPT ![a] = claims]
  BY <1>4, <1>5 DEF ClaimsOf
<1>9. /\ token \in [Accounts -> Claims \union {Null}] /\ TablesOK /\ TokensOK
      /\ \A x \in Accounts : token'[x] = IF x = a THEN claims ELSE token[x]
      /\ token' \in [Accounts -> Claims \union {Null}]
  BY <1>2, <1>7, <1>8 DEF IInv, TokensOK
<1>10. TablesOK'
  BY <1>9 DEF TablesOK, tables
<1>11. TokensOK'
  BY <1>2, <1>3, <1>7, <1>9 DEF TokensOK, StillHas, tables
<1>12. PICK q : q = NoCall
  OBVIOUS
<1>13. /\ call' = [call EXCEPT ![c] = q] /\ q \in Call /\ q.pc = Null
  BY <1>12, NoCallIsCall DEF Set
<1>14. CallsOK'
  <2>1. /\ call' \in [Calls -> Call] /\ call'[c] = q
        /\ \A d \in Calls : d # c => call'[d] = call[d]
    BY <1>13 DEF IInv, CallsOK
  <2>2. ASSUME NEW d \in Calls PROVE Fit(call[d])' /\ Current(call[d])'
    <3>1. CASE d = c
      BY <1>13, <2>1, <3>1 DEF Fit, Current
    <3>2. CASE d # c
      <4>1. Fit(call[d])'
        BY <2>1, <3>2, CallFacts
        DEF Fit, Entitled, Aimed, Owning, Told, StillHas, Exists, tables
      <4>2. Current(call[d])'
        BY <2>1, <3>2, CallFacts DEF Current, Created, tables
      <4> QED
        BY <4>1, <4>2
    <3> QED
      BY <3>1, <3>2
  <2> QED
    BY <2>1, <2>2 DEF CallsOK
<1>15. ASSUME written < p.start, NEW i \in Isns, Created(i), NEW t \in Types,
              NEW rights \in {{"read"}, {"write"}, Rights}
       PROVE  MayUse(claims, rights, i, t) <=> Policy(a, rights, i, t)
  <2>1. /\ accounts[a].role = p.found /\ accounts[a].active /\ p.draft.isns = isns
        /\ \A j \in p.draft.typed : p.draft.types[j] = types[j]
        /\ \A j \in Isns : Created(j) => j \in p.draft.typed
        /\ \A j \in Isns : p.draft.grants[j] = grants[j][a]
    BY <1>2, <1>15 DEF Current
  <2>2. i \in Listed(p)
    BY <1>15, <2>1 DEF Listed, Created
  <2>3. perms[i] = PermOf(a, accounts[a].role, isns[i], types[i], grants[i][a])
    BY <1>4, <1>15, <2>1, <2>2
  <2>4. PICK perm : perm = perms[i]
    OBVIOUS
  <2>5. /\ perm = PermOf(a, accounts[a].role, isns[i], types[i], grants[i][a])
        /\ accounts[a].role \in Roles
    BY <1>3, <2>1, <2>3, <2>4
  <2>6. Lets(perm, rights, t) <=> Policy(a, rights, i, t)
    <3>1. PICK x \in Accounts : x = a
      BY <1>2
    <3>2. TablesOK /\ accounts[x].active /\ accounts[x].role \in Roles
          /\ perm = PermOf(x, accounts[x].role, isns[i], types[i], grants[i][x])
      BY <1>9, <2>1, <2>5, <3>1
    <3>3. Lets(perm, rights, t) <=> Policy(x, rights, i, t)
      BY <3>2, PermIsPolicy
    <3> QED
      BY <3>1, <3>3
  <2>7. claims.perms[i] = perm
    BY <1>7, <2>4
  <2> QED
    BY <2>6, <2>7 DEF MayUse, Lets
<1>16. ClaimsMatchPolicy'
  <2>1. ClaimsMatchPolicy /\ written' = written
    BY DEF IInv
  <2> SUFFICES ASSUME NEW x \in Accounts, token'[x] # Null, written < token'[x].asked,
                      NEW i \in Isns, NEW t \in Types,
                      NEW rights \in {{"read"}, {"write"}, Rights}, Created(i)'
               PROVE  MayUse(token'[x], rights, i, t) <=> Policy(x, rights, i, t)'
    BY <2>1 DEF ClaimsMatchPolicy
  <2>2. Created(i) /\ (Policy(x, rights, i, t)' <=> Policy(x, rights, i, t))
    BY DEF Created, Policy, tables
  <2>3. CASE x = a
    BY <1>7, <1>9, <1>15, <2>2, <2>3
  <2>4. CASE x # a
    BY <1>9, <2>1, <2>2, <2>4 DEF ClaimsMatchPolicy
  <2> QED
    BY <2>3, <2>4
<1> QED
  BY <1>10, <1>11, <1>14, <1>16 DEF IInv

LEMMA TokenPreserves ==
  ASSUME IInv, NEW c \in Calls, CreateAccessToken(c)
  PROVE  IInv'
BY ReadAccountPreserves, ReadIsnsPreserves, ReadTypesPreserves, ReadGrantsPreserves,
   MintPreserves DEF CreateAccessToken

-----------------------------------------------------------------------------
(* The invariant holds *)

LEMMA InvariantInit == Init => IInv
<1> SUFFICES ASSUME Init PROVE IInv
  OBVIOUS
<1>1. PICK on : on = {TRUE}
  OBVIOUS
<1>2. on \subseteq BOOLEAN /\ \A b \in on : b
  BY <1>1, Zenon
<1>3. accounts \in [Accounts -> AccountRow]
  <2>1. CASE accounts = [a \in Accounts |-> [role |-> Null, active |-> FALSE, since |-> 0]]
    <3>1. PICK b \in BOOLEAN : b = FALSE
      BY Zenon
    <3>2. accounts = [a \in Accounts |-> [role |-> Null, active |-> b, since |-> 0]]
      BY <2>1, <3>1, Zenon
    <3> QED
      BY <3>2 DEF AccountRow
  <2>2. CASE accounts \in [Accounts -> [role: Roles, active: on, since: {0}]]
    BY <1>2, <2>2 DEF AccountRow
  <2> QED
    BY <1>1, <2>1, <2>2, Zenon DEF Init
<1>4. /\ \A s \in Services : accounts[s].role \in {"member", Null}
      /\ \A a \in Accounts : Exists(a) => accounts[a].role \in Roles /\ accounts[a].active
  <2>1. Services \subseteq Accounts
    BY DEF Accounts
  <2>2. CASE accounts = [a \in Accounts |-> [role |-> Null, active |-> FALSE, since |-> 0]]
    <3>1. \A a \in Accounts : accounts[a].role = Null
      BY <2>2
    <3> QED
      BY <2>1, <3>1 DEF Exists
  <2>3. CASE /\ accounts \in [Accounts -> [role: Roles, active: on, since: {0}]]
             /\ \A s \in Services : accounts[s].role = "member"
    <3>1. \A a \in Accounts : accounts[a].role \in Roles /\ accounts[a].active \in on
      BY <2>3
    <3> QED
      BY <1>2, <2>1, <2>3, <3>1
  <2> QED
    BY <1>1, <2>2, <2>3, Zenon DEF Init
<1>5. isns \in [Isns -> IsnRow]
  <2>1. {p \in People : Exists(p)} \subseteq People
    OBVIOUS
  <2>2. isns \in [Isns -> [owner: {p \in People : Exists(p)} \union {Null},
                          inUse: on, since: {0}]]
    BY <1>1 DEF Init
  <2> QED
    BY <1>2, <2>1, <2>2 DEF IsnRow
<1>6. types \in [Isns -> [Types -> {"absent", "on", "off"}]]
  BY DEF Init
<1>7. grants \in [Isns -> [Accounts -> (SUBSET Rights) \union {Null}]]
  <2>1. {"write"} \in SUBSET Rights
    BY DEF Rights
  <2> QED
    BY <2>1 DEF Init
<1>8. TablesOK
  BY <1>3, <1>4, <1>5, <1>6, <1>7 DEF TablesOK, Init
<1>9. ASSUME NEW a \in Accounts, Exists(a)
      PROVE  /\ token[a] \in Claims /\ token[a].role = accounts[a].role
             /\ token[a].asked = 1
             /\ \A i \in Isns : Created(i) =>
                  token[a].perms[i]
                    = PermOf(a, accounts[a].role, isns[i], types[i], grants[i][a])
  <2>1. PICK perms : perms = [i \in Isns |->
            IF ~Created(i) THEN Null
            ELSE PermOf(a, accounts[a].role, isns[i], types[i], grants[i][a])]
    OBVIOUS
  <2>2. perms \in [Isns -> Perm \union {Null}]
    BY <1>5, <1>6, <1>7, <2>1, PermType
  <2>3. token[a] = [role |-> accounts[a].role, asked |-> 1, perms |-> perms]
    BY <1>9, <2>1 DEF Init
  <2>4. token[a].perms = perms
    BY <2>3
  <2> QED
    BY <1>4, <1>9, <2>1, <2>2, <2>3, <2>4 DEF Claims
<1>10. /\ DOMAIN token = Accounts /\ token = [a \in Accounts |-> token[a]]
      /\ \A a \in Accounts : ~Exists(a) => token[a] = Null
  BY DEF Init
<1>11. TokensOK
  <2>1. \A a \in Accounts : token[a] \in Claims \union {Null}
    BY <1>9, <1>10
  <2>2. token \in [Accounts -> Claims \union {Null}]
    BY <1>10, <2>1
  <2>3. ASSUME NEW a \in Accounts, token[a] # Null
        PROVE  /\ token[a].asked <= begun
               /\ StillHas(a, token[a].role, token[a].asked)
               /\ a \in Services => token[a].role = "member"
    <3>1. Exists(a) /\ begun = 1
      BY <1>10, <2>3 DEF Init
    <3> QED
      BY <1>4, <1>9, <3>1 DEF StillHas, Exists
  <2> QED
    BY <2>2, <2>3 DEF TokensOK
<1>12. CallsOK
  <2>1. PICK q : q = NoCall
    OBVIOUS
  <2>2. q \in Call /\ q.pc = Null /\ call = [c \in Calls |-> q]
    BY <2>1, NoCallIsCall DEF Init
  <2> QED
    BY <2>2 DEF CallsOK, Fit, Current
<1>13. ClaimsMatchPolicy
  <2> SUFFICES ASSUME NEW a \in Accounts, token[a] # Null, NEW i \in Isns, NEW t \in Types,
                      NEW rights \in {{"read"}, {"write"}, Rights}, Created(i)
               PROVE  MayUse(token[a], rights, i, t) <=> Policy(a, rights, i, t)
    BY DEF ClaimsMatchPolicy
  <2>1. Exists(a) /\ accounts[a].role \in Roles /\ accounts[a].active
    BY <1>4, <1>10
  <2>2. PICK perm : perm = token[a].perms[i]
    OBVIOUS
  <2>3. perm = PermOf(a, accounts[a].role, isns[i], types[i], grants[i][a])
    BY <1>9, <2>1, <2>2
  <2>4. Lets(perm, rights, t) <=> Policy(a, rights, i, t)
    BY <1>8, <2>1, <2>3, PermIsPolicy
  <2> QED
    BY <2>2, <2>4 DEF MayUse, Lets
<1> QED
  BY <1>8, <1>11, <1>12, <1>13 DEF IInv

\* What a call is let in with, and what its request is about.
LetIn(op, a, r, asked) ==
  op \in AdminOps \union SiteOps =>
    a \in People /\ r \in AllowedRoles(op) /\ StillHas(a, r, asked)
About(op, target, i, arg, flag) ==
  /\ op \in RoleOps \union {"disable", "enable", "token"} =>
       target \in Accounts /\ Exists(target)
  /\ op = "register" => target \in People
  /\ op = "service" => target \in Services
  /\ op \in {"createIsn", "transfer"} \union OwnerOps => i \in Isns
  /\ op = "createIsn" => flag \in BOOLEAN
  /\ op = "permit" => target \in Accounts /\ arg \in SUBSET Rights

\* A call begins as q, which is what its request asks for.
LEMMA BeginStep ==
  ASSUME IInv, NEW c \in Calls, begun' = begun + 1, UNCHANGED <<tables, token, written>>,
         NEW op \in Ops, NEW a \in Accounts \union {Null}, NEW r \in Roles \union {Null},
         NEW asked \in Nat, asked <= begun, NEW target \in Accounts \union {Null},
         NEW i \in Isns \union {Null}, NEW arg \in SUBSET (Rights \union Types),
         NEW flag \in BOOLEAN \union {Null},
         Set(c, [NoCall EXCEPT !.op = op, !.pc = FirstOf(op), !.caller = a, !.role = r,
                               !.asked = asked, !.start = begun + 1, !.target = target,
                               !.isn = i, !.arg = arg, !.flag = flag]),
         LetIn(op, a, r, asked), About(op, target, i, arg, flag)
  PROVE  IInv'
<1>1. PICK s : s = FirstOf(op)
  OBVIOUS
<1>2. PICK d : d = NoDraft
  OBVIOUS
<1>3. PICK q : q = [NoCall EXCEPT !.op = op, !.pc = s, !.caller = a, !.role = r,
                                  !.asked = asked, !.start = begun + 1, !.target = target,
                                  !.isn = i, !.arg = arg, !.flag = flag]
  OBVIOUS
<1>4. s \in Statements
  BY <1>1 DEF FirstOf, Statements
<1>5. d \in Draft
  BY <1>2, NoCallIsCall DEF NoCall, Call
<1>6. begun \in Nat
  BY DEF IInv, TablesOK
<1>7. /\ q \in Call /\ q.op = op /\ q.pc = s /\ q.caller = a /\ q.role = r /\ q.asked = asked
      /\ q.start = begun + 1 /\ q.target = target /\ q.isn = i /\ q.arg = arg
      /\ q.flag = flag /\ q.draft = d
  <2>1. PICK n : n = NoCall
    OBVIOUS
  <2>2. n \in Call /\ n.draft = d
    BY <1>2, <2>1, NoCallIsCall DEF NoCall
  <2>3. PICK start \in Nat : start = begun + 1
    BY <1>6
  <2>4. q = [n EXCEPT !.op = op, !.pc = s, !.caller = a, !.role = r,
                      !.asked = asked, !.start = start, !.target = target,
                      !.isn = i, !.arg = arg, !.flag = flag]
    BY <1>3, <2>1, <2>3, Zenon
  <2>5. /\ q \in Call /\ q.op = op /\ q.pc = s /\ q.caller = a /\ q.role = r
        /\ q.asked = asked /\ q.start = start /\ q.target = target /\ q.isn = i
        /\ q.arg = arg /\ q.flag = flag /\ q.draft = n.draft
    BY <1>4, <2>2, <2>4 DEF Call
  <2> QED
    BY <2>2, <2>3, <2>5
<1>8. call' = [call EXCEPT ![c] = q]
  BY <1>1, <1>3 DEF Set
<1>9. Entitled(q)
  BY <1>7 DEF Entitled, LetIn
<1>10. Aimed(q)
  BY <1>1, <1>7 DEF Aimed, About, FirstOf, RoleOps
<1>11. Owning(q)
  BY <1>1, <1>7 DEF Owning, FirstOf, OwnerOps, RoleOps
<1>12. Told(q)
  BY <1>1, <1>7 DEF Told, FirstOf
<1>13. Current(q)
  BY <1>1, <1>2, <1>7 DEF Current, FirstOf, NoDraft
<1>14. begun' \in Nat /\ begun <= begun' /\ q.start <= begun' /\ q.asked <= begun'
  BY <1>6, <1>7
<1> QED
  BY <1>7, <1>8, <1>9, <1>10, <1>11, <1>12, <1>13, <1>14, ReadStep DEF Good

\* A service account has no admin role, so the caller of an admin endpoint is a user.
LEMMA ArriveStep ==
  ASSUME IInv, NEW c \in Calls, begun' = begun + 1, UNCHANGED <<tables, token, written>>,
         NEW op \in AdminOps \union SiteOps, NEW a \in Accounts,
         NEW target \in Accounts \union {Null}, NEW i \in Isns \union {Null},
         NEW arg \in SUBSET (Rights \union Types), NEW flag \in BOOLEAN \union {Null},
         Arrive(c, op, a, target, i, arg, flag),
         About(op, target, i, arg, flag)
  PROVE  IInv'
<1>1. op \in Ops /\ op # "token" /\ op # "register"
  BY DEF Ops, AdminOps, SiteOps, OwnerOps, RoleOps
<1>2. token[a] \in Claims /\ token[a].asked <= begun
      /\ StillHas(a, token[a].role, token[a].asked)
      /\ (a \in Services => token[a].role = "member")
  BY DEF IInv, TokensOK, Arrive, HasRole
<1>3. token[a].role \in AllowedRoles(op)
  BY DEF Arrive, HasRole
<1>4. a \in People
  <2>1. AllowedRoles(op) \subseteq {"siteadmin", "isnadmin"}
    BY DEF AllowedRoles
  <2> QED
    BY <1>2, <1>3, <2>1 DEF Accounts
<1>5. PICK r \in Roles : r = token[a].role
  BY <1>2 DEF Claims
<1>6. PICK asked \in Nat : asked = token[a].asked
  BY <1>2 DEF Claims
<1>7. Set(c, [NoCall EXCEPT !.op = op, !.pc = FirstOf(op), !.caller = a, !.role = r,
                            !.asked = asked, !.start = begun + 1, !.target = target,
                            !.isn = i, !.arg = arg, !.flag = flag])
  BY <1>5, <1>6, Zenon DEF Arrive
<1>8. LetIn(op, a, r, asked) /\ asked <= begun
  BY <1>2, <1>3, <1>4, <1>5, <1>6 DEF LetIn
<1>9. a \in Accounts \union {Null} /\ r \in Roles \union {Null}
  OBVIOUS
<1> QED
  BY <1>1, <1>7, <1>8, <1>9, BeginStep

LEMMA ArriveOpenStep ==
  ASSUME IInv, NEW c \in Calls, begun' = begun + 1, UNCHANGED <<tables, token, written>>,
         NEW op \in {"register", "token"}, NEW a \in Accounts, ArriveOpen(c, op, a),
         op = "register" => a \in People, op = "token" => Exists(a)
  PROVE  IInv'
<1>1. op \in Ops /\ op \notin AdminOps \union SiteOps /\ op \notin OwnerOps /\ op \notin RoleOps
      /\ op \notin {"disable", "enable", "service", "createIsn", "transfer", "permit"}
  BY DEF Ops, AdminOps, SiteOps, OwnerOps, RoleOps
<1>2. PICK n : n = NoCall
  OBVIOUS
<1>3. n \in Call /\ n.caller = Null /\ n.role = Null /\ n.asked = 0 /\ n.isn = Null
      /\ n.arg = {} /\ n.flag = Null
  BY <1>2, NoCallIsCall DEF NoCall
<1>4. PICK s, start : s = FirstOf(op) /\ start = begun + 1
  OBVIOUS
<1>5. [n EXCEPT !.op = op, !.pc = s, !.start = start, !.target = a]
        = [n EXCEPT !.op = op, !.pc = s, !.caller = Null, !.role = Null, !.asked = 0,
                    !.start = start, !.target = a, !.isn = Null, !.arg = {}, !.flag = Null]
  BY <1>3 DEF Call
<1>6. Set(c, [NoCall EXCEPT !.op = op, !.pc = FirstOf(op), !.caller = Null, !.role = Null,
                            !.asked = 0, !.start = begun + 1, !.target = a,
                            !.isn = Null, !.arg = {}, !.flag = Null])
  BY <1>2, <1>4, <1>5 DEF ArriveOpen
<1>7. 0 <= begun
  BY DEF IInv, TablesOK
<1>8. LetIn(op, Null, Null, 0) /\ About(op, a, Null, {}, Null)
  BY <1>1 DEF LetIn, About
<1> QED
  BY <1>1, <1>6, <1>7, <1>8, BeginStep

LEMMA BeginPreserves ==
  ASSUME IInv, NEW c \in Calls, Begin(c)
  PROVE  IInv'
<1>1. begun' = begun + 1 /\ UNCHANGED <<tables, token, written>>
  BY DEF Begin
<1>2. /\ People \subseteq Accounts /\ Services \subseteq Accounts
      /\ Permits \subseteq SUBSET Rights
  BY ConstantAssumption DEF Accounts
<1>3. CASE \/ \E p \in People : ArriveOpen(c, "register", p)
           \/ \E a \in Accounts : Exists(a) /\ ArriveOpen(c, "token", a)
  BY <1>1, <1>2, <1>3, ArriveOpenStep
<1>4. CASE \E a \in Accounts, s \in Services : Arrive(c, "service", a, s, Null, {}, Null)
  <2>1. "service" \in AdminOps /\ "service" \notin RoleOps /\ "service" \notin OwnerOps
    BY DEF AdminOps, RoleOps, OwnerOps
  <2> QED
    BY <1>1, <1>2, <1>4, <2>1, ArriveStep DEF About
<1>5. CASE \E a \in Accounts, op \in {"listUsers", "listServices"} :
             Arrive(c, op, a, Null, Null, {}, Null)
  <2>1. \A op \in {"listUsers", "listServices"} :
          op \in AdminOps /\ op \notin RoleOps /\ op \notin OwnerOps
    BY DEF AdminOps, RoleOps, OwnerOps
  <2> QED
    BY <1>1, <1>5, <2>1, ArriveStep DEF About
<1>6. ASSUME NEW a \in Accounts, NEW b \in Accounts, NEW op \in RoleOps \union {"disable", "enable"},
             Exists(b), Arrive(c, op, a, b, Null, {}, Null)
      PROVE  IInv'
  <2>1. op \in AdminOps \union SiteOps /\ op \notin OwnerOps
        /\ op \notin {"register", "service", "createIsn", "transfer", "permit"}
    BY DEF AdminOps, SiteOps, RoleOps, OwnerOps
  <2>2. About(op, b, Null, {}, Null)
    BY <1>6, <2>1 DEF About
  <2> QED
    BY <1>1, <1>6, <2>1, <2>2, ArriveStep
<1>7. ASSUME NEW a \in Accounts, NEW i \in Isns, NEW f \in BOOLEAN,
             Arrive(c, "createIsn", a, Null, i, {}, f)
      PROVE  IInv'
  <2>1. "createIsn" \in AdminOps /\ "createIsn" \notin RoleOps /\ "createIsn" \notin OwnerOps
    BY DEF AdminOps, RoleOps, OwnerOps
  <2> QED
    BY <1>1, <1>7, <2>1, ArriveStep DEF About
<1>8. ASSUME NEW a \in Accounts, NEW i \in Isns, NEW f \in BOOLEAN \union {Null},
             Arrive(c, "updateIsn", a, Null, i, {}, f)
      PROVE  IInv'
  <2>1. "updateIsn" \in AdminOps /\ "updateIsn" \notin RoleOps
    BY DEF AdminOps, RoleOps, OwnerOps
  <2> QED
    BY <1>1, <1>8, <2>1, ArriveStep DEF About
<1>9. ASSUME NEW a \in Accounts, NEW i \in Isns, NEW b \in Accounts, Exists(b),
             Arrive(c, "transfer", a, b, i, {}, Null)
      PROVE  IInv'
  <2>1. "transfer" \in SiteOps /\ "transfer" \notin RoleOps /\ "transfer" \notin OwnerOps
    BY DEF SiteOps, RoleOps, OwnerOps
  <2> QED
    BY <1>1, <1>9, <2>1, ArriveStep DEF About
<1>10. ASSUME NEW a \in Accounts, NEW i \in Isns, NEW b \in Accounts, NEW arg \in Permits,
              Arrive(c, "permit", a, b, i, arg, Null)
       PROVE  IInv'
  <2>1. "permit" \in AdminOps /\ "permit" \notin RoleOps
    BY DEF AdminOps, RoleOps, OwnerOps
  <2>2. arg \in SUBSET Rights /\ arg \in SUBSET (Rights \union Types)
    BY <1>2
  <2> QED
    BY <1>1, <1>10, <2>1, <2>2, ArriveStep DEF About
<1>11. ASSUME NEW a \in Accounts, NEW i \in Isns, NEW arg \in SUBSET (Rights \union Types),
              NEW flag \in BOOLEAN \union {Null},
              NEW op \in {"addType", "typeStatus", "listAccounts"},
              Arrive(c, op, a, Null, i, arg, flag)
       PROVE  IInv'
  <2>1. /\ op \in AdminOps /\ op \notin RoleOps
        /\ op \notin {"disable", "enable", "service", "createIsn", "permit"}
    BY DEF AdminOps, RoleOps, OwnerOps
  <2> QED
    BY <1>1, <1>11, <2>1, ArriveStep DEF About
<1>12. CASE \E a \in Accounts, i \in Isns :
              \/ \E t \in Types : Arrive(c, "addType", a, Null, i, {t}, Null)
              \/ \E t \in Types, f \in BOOLEAN : Arrive(c, "typeStatus", a, Null, i, {t}, f)
              \/ Arrive(c, "listAccounts", a, Null, i, {}, Null)
  <2>1. \A t \in Types : {t} \in SUBSET (Rights \union Types)
    OBVIOUS
  <2>2. {} \in SUBSET (Rights \union Types)
    OBVIOUS
  <2> QED
    BY <1>11, <1>12, <2>1, <2>2
<1> QED
  BY <1>3, <1>4, <1>5, <1>6, <1>7, <1>8, <1>9, <1>10, <1>12 DEF Begin

LEMMA InvariantStep == IInv /\ [Next]_vars => IInv'
<1> SUFFICES ASSUME IInv, [Next]_vars PROVE IInv'
  OBVIOUS
<1>1. ASSUME NEW c \in Calls, Begin(c) PROVE IInv'
  BY <1>1, BeginPreserves
<1>2. ASSUME NEW c \in Calls, Serve(c) PROVE IInv'
  BY <1>2, RegisterPreserves, RolesPreserve, ActivePreserves, ListsPreserve,
     CreateIsnPreserves, UpdateIsnPreserves, TransferPreserves, PermitPreserves,
     TypesPreserve, TokenPreserves DEF Serve
<1>3. ASSUME NEW c \in Calls, Fail(c) PROVE IInv'
  BY <1>3, EndStep DEF Fail, Refuse
<1>4. CASE UNCHANGED vars
  <2>1. UNCHANGED <<accounts, isns, types, grants, token, written, begun, call>>
    BY <1>4 DEF vars, tables
  <2>2. TablesOK' /\ TokensOK'
    BY <2>1 DEF IInv, TablesOK, TokensOK, StillHas
  <2>3. \A c \in Calls : Fit(call[c])' /\ Current(call[c])'
    BY <2>1, CallFacts
    DEF Fit, Entitled, Aimed, Owning, Told, StillHas, Exists, Current, Created
  <2>4. CallsOK'
    BY <2>1, <2>3 DEF IInv, CallsOK
  <2>5. ClaimsMatchPolicy'
    BY <2>1 DEF IInv, ClaimsMatchPolicy, Policy, MayUse, Created
  <2> QED
    BY <2>2, <2>4, <2>5 DEF IInv
<1> QED
  BY <1>1, <1>2, <1>3, <1>4 DEF Next, Quiet

LEMMA InvariantHolds == Spec => []IInv
BY InvariantInit, InvariantStep, PTL DEF Spec

-----------------------------------------------------------------------------
(* The theorems *)

\* Every table, token and call has its type, for any number of accounts, ISNs
\* and calls.
THEOREM AdministrationTypes == Spec => []TypeOK
BY InvSplit, InvariantHolds, PTL

\* A token whose account, ISNs, types and grants have not changed since it was asked
\* for lets its account do what the tables say it may, no more and no less:
\* CreateAccessToken reads them one query after another, and the middleware looks
\* at nothing else.
THEOREM FreshClaimsAreTrue == Spec => []ClaimsMatchPolicy
<1>1. IInv => ClaimsMatchPolicy
  BY DEF IInv
<1> QED
  BY <1>1, InvariantHolds, PTL

\* Whatever an admin endpoint changes or shows, it does for a user that is active and
\* has the role it asks for, or was and had when its token was asked for.
THEOREM AdminsMakeChanges == Spec => ChangesByAdmins
<1>1. IInv /\ [Next]_vars =>
        [\A c \in Calls : Acts(c) /\ call[c].op \in AdminOps \union SiteOps =>
           LET a == accounts[call[c].caller] IN
           \/ a.role \in AllowedRoles(call[c].op) /\ a.active
           \/ a.since >= call[c].asked]_vars
  <2>1. ASSUME IInv, NEW c \in Calls, call[c].pc = "effect",
               call[c].op \in AdminOps \union SiteOps
        PROVE  LET a == accounts[call[c].caller] IN
               \/ a.role \in AllowedRoles(call[c].op) /\ a.active
               \/ a.since >= call[c].asked
    <3>1. Entitled(call[c])
      <4>1. "effect" # Null
        BY StatementAssumption DEF Statements
      <4> QED
        BY <2>1, <4>1, CallFacts DEF Fit
    <3> QED
      BY <2>1, <3>1 DEF Entitled, StillHas
  <2> QED
    BY <2>1 DEF Acts
<1> QED
  BY <1>1, InvariantHolds, PTL DEF Spec, ChangesByAdmins

\* An ISN admin changes nothing of an ISN that it does not own, and sees no account of
\* it, unless the ISN was transferred while its call ran.
THEOREM OwnersMakeChanges == Spec => OnlyOwnersChange
<1>1. IInv /\ [Next]_vars =>
        [\A c \in Calls : Acts(c) /\ call[c].op \in OwnerOps =>
           \/ call[c].role = "siteadmin"
           \/ isns[call[c].isn].owner = call[c].caller
           \/ isns[call[c].isn].since >= call[c].start]_vars
  <2>1. ASSUME IInv, NEW c \in Calls, call[c].pc = "effect", call[c].op \in OwnerOps
        PROVE  \/ call[c].role = "siteadmin"
               \/ isns[call[c].isn].owner = call[c].caller
               \/ isns[call[c].isn].since >= call[c].start
    <3>1. Owning(call[c])
      <4>1. "effect" # Null
        BY StatementAssumption DEF Statements
      <4> QED
        BY <2>1, <4>1, CallFacts DEF Fit
    <3> QED
      BY <2>1, <3>1 DEF Owning
  <2> QED
    BY <2>1 DEF Acts
<1> QED
  BY <1>1, InvariantHolds, PTL DEF Spec, OnlyOwnersChange

\* Only a role operation takes a role away, and from one account.
LEMMA RoleLost ==
  ASSUME IInv, NEW c \in Calls, Serve(c), NEW p \in Accounts, Exists(p),
         accounts'[p].role # accounts[p].role
  PROVE  /\ call[c].op \in RoleOps /\ call[c].pc = "effect" /\ call[c].target = p
         /\ \A x \in Accounts : x # p => accounts'[x] = accounts[x]
<1>1. accounts \in [Accounts -> AccountRow]
  BY DEF IInv, TablesOK
<1>2. ASSUME NEW op \in RoleOps, NEW from, NEW to, ChangeRole(c, op, from, to)
      PROVE  /\ call[c].op \in RoleOps /\ call[c].pc = "effect" /\ call[c].target = p
             /\ \A x \in Accounts : x # p => accounts'[x] = accounts[x]
  <2>1. CASE UNCHANGED accounts
    BY <2>1
  <2>2. CASE /\ Now(c, op, "effect")
             /\ accounts' = [accounts EXCEPT ![call[c].target] =
                               [role |-> to, active |-> @.active, since |-> begun]]
    BY <1>1, <2>2 DEF Now
  <2> QED
    BY <1>2, <2>1, <2>2 DEF ChangeRole, Check, tables
<1>3. CASE \/ GrantUserIsnAdminRole(c) \/ RevokeUserIsnAdminRole(c)
           \/ GrantUserSiteAdminRole(c) \/ RevokeUserSiteAdminRole(c)
  <2>1. {"grantIsnAdmin", "revokeIsnAdmin", "grantSiteAdmin", "revokeSiteAdmin"} \subseteq RoleOps
    BY DEF RoleOps
  <2> QED
    BY <1>2, <1>3, <2>1
    DEF GrantUserIsnAdminRole, RevokeUserIsnAdminRole, GrantUserSiteAdminRole, RevokeUserSiteAdminRole
<1>4. ASSUME NEW r, Insert(c, r) PROVE FALSE
  <2>1. CASE UNCHANGED accounts
    BY <2>1
  <2>2. CASE /\ ~Exists(call[c].target)
             /\ accounts' = [accounts EXCEPT ![call[c].target] =
                               [role |-> r, active |-> TRUE, since |-> begun]]
    <3>1. call[c].target # p
      BY <2>2
    <3> QED
      BY <1>1, <2>2, <3>1
  <2> QED
    BY <1>4, <2>1, <2>2 DEF Insert, Refuse, Unchanging, tables
<1>5. ASSUME NEW op, NEW b, SetActive(c, op, b) PROVE FALSE
  BY <1>1, <1>5 DEF SetActive
<1>6. CASE UNCHANGED accounts
  BY <1>6
<1>7. Serve(c) => \/ UNCHANGED accounts \/ (\E r : Insert(c, r)) \/ (\E op, b : SetActive(c, op, b))
                  \/ GrantUserIsnAdminRole(c) \/ RevokeUserIsnAdminRole(c)
                  \/ GrantUserSiteAdminRole(c) \/ RevokeUserSiteAdminRole(c)
  <2>1. \A cond, s : Check(c, cond, s) => UNCHANGED accounts
    BY DEF Check, tables
  <2>2. Unchanging \/ Answer(c) \/ Refuse(c) => UNCHANGED accounts
    BY DEF Unchanging, Answer, Refuse, tables
  <2>3. \A op, s : ReadIsn(c, op, s) => UNCHANGED accounts
    BY <2>2 DEF ReadIsn
  <2>4. RegisterUser(c) \/ RegisterServiceAccount(c) => UNCHANGED accounts \/ \E r : Insert(c, r)
    BY <2>1, <2>2 DEF RegisterUser, RegisterServiceAccount
  <2>5. DisableAccount(c) \/ EnableAccount(c) => \E op, b : SetActive(c, op, b)
    BY DEF DisableAccount, EnableAccount
  <2>6. \/ GetUsers(c) \/ GetServiceAccounts(c)
        \/ CreateIsn(c) \/ UpdateIsn(c) \/ TransferIsnOwnership(c)
        \/ UpdateIsnAccountPermission(c) \/ GetIsnAccounts(c)
        => UNCHANGED accounts
    BY <2>1, <2>2, <2>3
    DEF GetUsers, GetServiceAccounts, CreateIsn, UpdateIsn, TransferIsnOwnership,
        UpdateIsnAccountPermission, GetIsnAccounts
  <2>7. AddSignalTypeToISN(c) \/ UpdateIsnSignalTypeStatus(c) => UNCHANGED accounts
    BY <2>2, <2>3 DEF AddSignalTypeToISN, UpdateIsnSignalTypeStatus
  <2>8. CreateAccessToken(c) => UNCHANGED accounts
    BY <2>2 DEF CreateAccessToken, ReadAccount, ReadIsns, ReadTypes, ReadGrants, tables
  <2> QED
    BY <2>4, <2>5, <2>6, <2>7, <2>8 DEF Serve
<1> QED
  BY <1>3, <1>4, <1>5, <1>6, <1>7

\* The site loses its last site admin only to an account that was itself one when its
\* token was asked for, and is none any more: nobody can take the role from himself,
\* and two that take it from each other do so with tokens of before.
THEOREM LastSiteAdminStays == Spec => SiteAdminRemains
<1>1. IInv /\ [Next]_vars =>
        [SiteAdmins # {} /\ SiteAdmins' = {} =>
           \E c \in Calls : /\ Acts(c)
                            /\ accounts[call[c].caller].role # "siteadmin"
                            /\ accounts[call[c].caller].since >= call[c].asked]_vars
  <2> SUFFICES ASSUME IInv, Next, NEW p \in People, accounts[p].role = "siteadmin", SiteAdmins' = {}
               PROVE  \E c \in Calls : /\ Acts(c)
                                       /\ accounts[call[c].caller].role # "siteadmin"
                                       /\ accounts[call[c].caller].since >= call[c].asked
    BY DEF SiteAdmins
  <2>1. \A x \in People : accounts'[x].role # "siteadmin"
    BY DEF SiteAdmins
  <2>2. p \in Accounts /\ Exists(p) /\ People \subseteq Accounts
    BY NullAssumption DEF Accounts, Exists, Roles
  <2>3. accounts'[p].role # accounts[p].role
    BY <2>1
  <2>4. PICK c \in Calls : Serve(c)
    BY <2>3 DEF Next, Begin, Fail, Refuse, Unchanging, Quiet, vars, tables
  <2>5. /\ call[c].op \in RoleOps /\ call[c].pc = "effect" /\ call[c].target = p
        /\ \A x \in Accounts : x # p => accounts'[x] = accounts[x]
    BY <2>2, <2>3, <2>4, RoleLost
  <2>6. /\ call[c].caller \in People /\ call[c].caller # p /\ call[c].role = "siteadmin"
        /\ StillHas(call[c].caller, call[c].role, call[c].asked)
    <3>1. "effect" # Null
      BY StatementAssumption DEF Statements
    <3>2. Entitled(call[c]) /\ Aimed(call[c])
      BY <2>5, <3>1, CallFacts DEF Fit
    <3> QED
      BY <2>5, <3>2 DEF Entitled, Aimed, SiteOps, AllowedRoles
  <2>7. accounts[call[c].caller].role # "siteadmin"
    BY <2>1, <2>2, <2>5, <2>6
  <2>8. accounts[call[c].caller].since >= call[c].asked
    BY <2>6, <2>7 DEF StillHas
  <2> QED
    BY <2>4, <2>5, <2>7, <2>8 DEF Acts
<1> QED
  BY <1>1, InvariantHolds, PTL DEF Spec, SiteAdminRemains
=============================================================================
