--------------------------- MODULE Registry_proofs ---------------------------
(***************************************************************************)
(* For any types, requests, instances and calls: the types of Registry,    *)
(* that configurations belong to types, that the tables route as declared, *)
(* that new versions are above the old ones, and that a deleted            *)
(* configuration is gone from the cache of the instance that deleted it.   *)
(***************************************************************************)
EXTENDS Registry, FiniteSetTheorems, WellFoundedInduction, TLAPS

-----------------------------------------------------------------------------
(* Least numbers *)

LEMMA LeastNumber ==
  ASSUME NEW S \in SUBSET Nat, S # {}
  PROVE  \E m \in S : \A n \in S : m <= n
<1>1. PICK m \in S : \A n \in S : <<n, m>> \notin OpToRel(<, Nat)
  BY NatLessThanWellFounded, WFMin
<1>2. \A n \in S : ~(n < m)
  BY <1>1 DEF OpToRel
<1>3. \A n \in S : n \in Nat
  OBVIOUS
<1> QED
  BY <1>2, <1>3

-----------------------------------------------------------------------------
(* Rules in their sequence *)

\* The rules, ordered by their numbers, exist: the place of a rule is the count of
\* those up to it.
LEMMA OrderedExists ==
  ASSUME NEW rules \in SUBSET Rule, IsFiniteSet(rules), Whole(rules)
  PROVE  /\ Cardinality(rules) \in Nat
         /\ Ordered(rules) \in [1..Cardinality(rules) -> rules]
         /\ \A i, j \in 1..Cardinality(rules) :
              i < j => Ordered(rules)[i].seq < Ordered(rules)[j].seq
         /\ \A r \in rules : \E i \in 1..Cardinality(rules) : Ordered(rules)[i] = r
<1> DEFINE UpTo(r) == {x \in rules : x.seq <= r.seq}
<1>1. PICK n \in Nat : n = Cardinality(rules)
  BY FS_CardinalityType
<1>2. PICK place : place = [r \in rules |-> Cardinality(UpTo(r))]
  OBVIOUS
<1>3. n \in Nat /\ IsFiniteSet(1..n) /\ Cardinality(1..n) = n
  BY <1>1, FS_Interval
<1>4. \A r \in rules : r.seq \in Nat
  BY DEF Rule
<1>5. ASSUME NEW r \in rules
      PROVE  IsFiniteSet(UpTo(r)) /\ place[r] \in 1..n
  <2>1. UpTo(r) \in SUBSET rules /\ r \in UpTo(r)
    BY <1>4
  <2>2. IsFiniteSet(UpTo(r)) /\ Cardinality(UpTo(r)) <= n
    BY <1>1, <2>1, FS_Subset
  <2>3. Cardinality(UpTo(r)) \in Nat /\ Cardinality(UpTo(r)) # 0
    BY <2>1, <2>2, FS_CardinalityType, FS_EmptySet
  <2>4. place[r] = Cardinality(UpTo(r))
    BY <1>2
  <2> QED
    BY <1>3, <2>2, <2>3, <2>4
<1>6. \A r \in rules : place[r] \in 1..n /\ place[r] \in Nat
  <2>1. ASSUME NEW r \in rules PROVE place[r] \in 1..n
    BY <1>5
  <2> QED
    BY <1>3, <2>1
<1>7. ASSUME NEW r \in rules, NEW x \in rules, r.seq < x.seq
      PROVE  place[r] < place[x]
  <2>1. UpTo(r) \in SUBSET UpTo(x) /\ x \in UpTo(x) /\ x \notin UpTo(r)
    BY <1>4, <1>7
  <2>2. Cardinality(UpTo(r)) <= Cardinality(UpTo(x)) /\ Cardinality(UpTo(r)) # Cardinality(UpTo(x))
    BY <1>5, <2>1, FS_Subset
  <2>3. place[r] = Cardinality(UpTo(r)) /\ place[x] = Cardinality(UpTo(x))
    BY <1>2
  <2>4. place[r] \in Nat /\ place[x] \in Nat
    BY <1>6
  <2> QED
    BY <2>2, <2>3, <2>4
<1>8. place \in Injection(rules, 1..n)
  <2>1. \A r, x \in rules : place[r] = place[x] => r = x
    <3> SUFFICES ASSUME NEW r \in rules, NEW x \in rules, place[r] = place[x] PROVE r = x
      OBVIOUS
    <3>1. place[r] \in Nat /\ place[x] \in Nat /\ r.seq \in Nat /\ x.seq \in Nat
      BY <1>4, <1>6
    <3>2. ~(r.seq < x.seq) /\ ~(x.seq < r.seq)
      BY <1>7, <3>1
    <3> QED
      BY <3>1, <3>2 DEF Whole
  <2>2. place \in [rules -> 1..n]
    BY <1>2, <1>6
  <2> QED
    BY <2>1, <2>2 DEF Injection, IsInjective
<1>9. \A i \in 1..n : \E r \in rules : place[r] = i
  <2>1. place \in Surjection(rules, 1..n)
    BY <1>1, <1>3, <1>8, FS_Injection
  <2> QED
    BY <2>1 DEF Surjection
<1>10. PICK s : s = [i \in 1..n |-> CHOOSE r \in rules : place[r] = i]
  OBVIOUS
<1>11. s \in [1..n -> rules] /\ \A i \in 1..n : place[s[i]] = i
  BY <1>9, <1>10
<1>12. \A i, j \in 1..n : i < j => s[i].seq < s[j].seq
  <2> SUFFICES ASSUME NEW i \in 1..n, NEW j \in 1..n, i < j PROVE s[i].seq < s[j].seq
    OBVIOUS
  <2>1. s[i] \in rules /\ s[j] \in rules /\ place[s[i]] = i /\ place[s[j]] = j
    BY <1>11
  <2>2. ~(s[j].seq < s[i].seq)
    <3>1. s[j].seq < s[i].seq => j < i
      BY <1>7, <2>1
    <3> QED
      BY <1>3, <3>1
  <2>3. s[i].seq # s[j].seq
    BY <1>3, <2>1 DEF Whole
  <2> QED
    BY <1>4, <2>1, <2>2, <2>3
<1>13. \E t \in [1..n -> rules] : \A i, j \in DOMAIN t : i < j => t[i].seq < t[j].seq
  BY <1>11, <1>12
<1>14. PICK t : t = Ordered(rules)
  OBVIOUS
<1>15. t \in [1..n -> rules] /\ \A i, j \in 1..n : i < j => t[i].seq < t[j].seq
  BY <1>1, <1>13, <1>14 DEF Ordered
<1>16. t \in Injection(1..n, rules)
  <2>1. \A i, j \in 1..n : t[i] = t[j] => i = j
    BY <1>3, <1>4, <1>15
  <2> QED
    BY <1>15, <2>1 DEF Injection, IsInjective
<1>17. \A r \in rules : \E i \in 1..n : t[i] = r
  BY <1>1, <1>3, <1>16, FS_Injection DEF Surjection
<1> QED
  BY <1>1, <1>14, <1>15, <1>17

-----------------------------------------------------------------------------
(* Versions *)

LEMMA RankOfText ==
  ASSUME NEW a \in 0..99
  PROVE  /\ TextRank(a) \in 0..109
         /\ \A b \in 0..9 : /\ TextRank(b) < TextRank(a) => b < a
                            /\ TextRank(b) = TextRank(a) => b = a
<1>1. \A b \in 0..9 : TextRank(b) = 11 * b
  BY DEF TextRank
<1>2. CASE a < 10
  BY <1>1, <1>2 DEF TextRank
<1>3. CASE ~(a < 10)
  <2>1. PICK d \in 1..9, u \in 0..9 : d = a \div 10 /\ u = a % 10
    BY <1>3
  <2>2. TextRank(a) = 11 * d + 1 + u
    BY <1>3, <2>1 DEF TextRank
  <2>3. \A b \in 0..9 : TextRank(b) # TextRank(a) /\ b < a
    BY <1>1, <1>3, <2>2
  <2> QED
    BY <2>2, <2>3
<1> QED
  BY <1>2, <1>3

LEMMA RankIsNat == \A a \in 0..99 : TextRank(a) \in Nat
<1>1. \A n \in 0..109 : n \in Nat
  OBVIOUS
<1> QED
  BY <1>1, RankOfText

LEMMA VersionFacts ==
  ASSUME NEW v \in Version
  PROVE  /\ v[1] \in 0..MaxNumber /\ v[2] \in 0..MaxNumber /\ v[3] \in 0..MaxNumber
         /\ v[1] \in 0..99 /\ v[2] \in 0..99 /\ v[3] \in 0..99
         /\ v = <<v[1], v[2], v[3]>>
<1>1. v[1] \in 0..MaxNumber /\ v[2] \in 0..MaxNumber /\ v[3] \in 0..MaxNumber
      /\ v = <<v[1], v[2], v[3]>>
  BY DEF Version
<1> QED
  BY <1>1, BoundAssumption

\* The order of TextBefore, by components.
LEMMA TextOrder ==
  ASSUME NEW v \in Version, NEW w \in Version
  PROVE  TextBefore(v, w) <=>
           \/ TextRank(v[1]) < TextRank(w[1])
           \/ TextRank(v[1]) = TextRank(w[1]) /\ TextRank(v[2]) < TextRank(w[2])
           \/ /\ TextRank(v[1]) = TextRank(w[1]) /\ TextRank(v[2]) = TextRank(w[2])
              /\ TextRank(v[3]) < TextRank(w[3])
BY DEF TextBefore, Before

LEMMA GreatestRank ==
  ASSUME NEW T \in SUBSET Version, T # {}, NEW k \in 1..3
  PROVE  \E v \in T : \A w \in T : TextRank(w[k]) <= TextRank(v[k])
<1>1. \A v \in T : TextRank(v[k]) \in 0..109
  <2>1. \A v \in T : v[k] \in 0..99
    BY VersionFacts
  <2> QED
    BY <2>1, RankOfText
<1>2. PICK S : S = {109 - TextRank(v[k]) : v \in T}
  OBVIOUS
<1>3. S \in SUBSET Nat /\ S # {}
  <2>1. \A v \in T : 109 - TextRank(v[k]) \in Nat
    BY <1>1
  <2> QED
    BY <1>2, <2>1
<1>4. PICK m \in S : \A n \in S : m <= n
  BY <1>3, LeastNumber
<1>5. PICK v \in T : m = 109 - TextRank(v[k])
  BY <1>2, <1>4
<1>6. ASSUME NEW w \in T PROVE TextRank(w[k]) <= TextRank(v[k])
  <2>1. 109 - TextRank(v[k]) <= 109 - TextRank(w[k])
    BY <1>2, <1>4, <1>5
  <2> QED
    BY <1>1, <2>1
<1> QED
  BY <1>6

LEMMA LatestIsLatest ==
  ASSUME NEW slug, VersionsOf(slug) # {}, VersionsOf(slug) \subseteq Version
  PROVE  /\ LatestSlugVersion(slug) \in VersionsOf(slug)
         /\ \A w \in VersionsOf(slug) : ~TextBefore(LatestSlugVersion(slug), w)
<1>1. PICK T : T = VersionsOf(slug)
  OBVIOUS
<1>2. PICK v \in T : \A w \in T : TextRank(w[1]) <= TextRank(v[1])
  BY <1>1, GreatestRank
<1>3. PICK T2 : T2 = {w \in T : TextRank(w[1]) = TextRank(v[1])}
  OBVIOUS
<1>4. T2 \in SUBSET Version /\ T2 # {}
  BY <1>1, <1>2, <1>3
<1>5. PICK v2 \in T2 : \A w \in T2 : TextRank(w[2]) <= TextRank(v2[2])
  BY <1>4, GreatestRank
<1>6. PICK T3 : T3 = {w \in T2 : TextRank(w[2]) = TextRank(v2[2])}
  OBVIOUS
<1>7. T3 \in SUBSET Version /\ T3 # {}
  BY <1>4, <1>5, <1>6
<1>8. PICK v3 \in T3 : \A w \in T3 : TextRank(w[3]) <= TextRank(v3[3])
  BY <1>7, GreatestRank
<1>9. v3 \in T /\ TextRank(v3[1]) = TextRank(v[1]) /\ TextRank(v3[2]) = TextRank(v2[2])
  BY <1>3, <1>6
<1>10. \A w \in Version : /\ TextRank(w[1]) \in Nat /\ TextRank(w[2]) \in Nat
                          /\ TextRank(w[3]) \in Nat
  BY VersionFacts, RankIsNat
<1>11. ASSUME NEW w \in T PROVE ~TextBefore(v3, w)
  <2>1. w \in Version /\ v3 \in Version /\ v \in Version /\ v2 \in Version
    BY <1>1, <1>4, <1>7
  <2>2. TextRank(w[1]) <= TextRank(v3[1])
    BY <1>2, <1>9
  <2>3. TextRank(w[1]) = TextRank(v3[1]) => TextRank(w[2]) <= TextRank(v3[2])
    BY <1>3, <1>5, <1>9
  <2>4. TextRank(w[1]) = TextRank(v3[1]) /\ TextRank(w[2]) = TextRank(v3[2])
          => TextRank(w[3]) <= TextRank(v3[3])
    BY <1>3, <1>6, <1>8, <1>9
  <2> QED
    BY <1>10, <2>1, <2>2, <2>3, <2>4, TextOrder
<1>12. \E x \in VersionsOf(slug) : \A w \in VersionsOf(slug) : ~TextBefore(x, w)
  BY <1>1, <1>9, <1>11
<1> QED
  BY <1>12 DEF LatestSlugVersion

\* The next version is above those that the latest is not before as text, if their
\* numbers have one digit.
LEMMA NextIsAbove ==
  ASSUME NEW v \in Version, NEW w \in Version, NEW bump \in Bumps, ~TextBefore(v, w),
         \A i \in 1..3 : w[i] < 10
  PROVE  Before(w, IncrementSemVer(bump, v))
<1>1. /\ v[1] \in 0..99 /\ v[2] \in 0..99 /\ v[3] \in 0..99
      /\ w[1] \in 0..9 /\ w[2] \in 0..9 /\ w[3] \in 0..9
  BY VersionFacts
<1>2. \A a \in 0..99, b \in 0..9 :
        /\ TextRank(a) \in Nat /\ TextRank(b) \in Nat
        /\ TextRank(b) < TextRank(a) => b < a
        /\ TextRank(b) = TextRank(a) => b = a
  <2>1. \A a \in 0..99, b \in 0..9 :
        /\ TextRank(b) < TextRank(a) => b < a
        /\ TextRank(b) = TextRank(a) => b = a
    BY RankOfText
  <2>2. \A a \in 0..99 : TextRank(a) \in Nat
    BY RankIsNat
  <2> QED
    BY <2>1, <2>2
<1>3. \/ w[1] < v[1]
      \/ w[1] = v[1] /\ w[2] < v[2]
      \/ w[1] = v[1] /\ w[2] = v[2] /\ w[3] <= v[3]
  BY <1>1, <1>2, TextOrder
<1> QED
  BY <1>1, <1>3 DEF Before, IncrementSemVer, Bumps

-----------------------------------------------------------------------------
(* The inductive invariant *)

\* The ids and the unique indexes of the tables.
TypesOK ==
  /\ types \subseteq TypeRow /\ nextId \in Nat
  /\ \A t \in types : t.id < nextId
  /\ \A t, u \in types : t.id = u.id \/ (t.slug = u.slug /\ t.ver = u.ver) => t = u
ConfigsOK ==
  /\ configs \subseteq ConfigRow /\ public \subseteq Isns \X Nat
  /\ \A g \in configs : g.id < nextId /\ IsFiniteSet(g.rules) /\ Whole(g.rules)
  /\ \A g, h \in configs : g.id = h.id => g = h
  /\ ConfigsOfTypes
CountersOK == begun \in 0..MaxCalls /\ faults \in 0..MaxFaults

\* What the caches, and the loads that run, have.
CachesOK ==
  /\ cache = [n \in Instances |-> [k \in Kinds |-> cache[n][k]]]
  /\ loading = [n \in Instances |-> [k \in Kinds |-> loading[n][k]]]
  /\ \A n \in Instances, k \in Kinds : Cached(k, cache[n][k]) /\ Cached(k, loading[n][k])

\* A call, with what a reload may have read.
Entry == [id: Nat, field: Fields, rules: Seq(Rule)]
Routers == UNION {[S -> Entry] : S \in SUBSET Path}
FullCall ==
  [op: Ops \union {Null}, pc: Statements \union {Null}, at: Instances \union {Null},
   slug: Slugs \union {Null}, ver: Version \union {Null}, bump: Bumps \union {Null},
   schema: Schemas \union {Null}, request: Requests \union {Null},
   type: Nat \union {Null}, config: Nat \union {Null}, upTo: Nat,
   rows: Routers \union {Null}]

\* What a call was sent with, and has found.
Sent(q) ==
  /\ q.op \in Ops /\ q.at \in Instances
  /\ q.op \in {"create", "newSchema"} =>
       q.slug \in Slugs /\ q.bump \in Bumps /\ q.schema \in Schemas
  /\ q.op \in {"create", "newSchema"} /\ q.pc # "latest" => q.ver \in Version
  /\ q.op = "putRouting" => q.request \in Requests
  /\ q.op = "putRouting" /\ q.pc # "type" => q.type \in Nat

\* The version of a registration is above those that were there.
Above(q) ==
  q.op = "newSchema" /\ q.pc # "latest" =>
    /\ q.upTo <= nextId
    /\ \A t \in types : /\ t.id < q.upTo /\ t.slug = q.slug
                        /\ \A i \in 1..3 : t.ver[i] < 10
                        => Before(t.ver, q.ver)

\* The configuration that was deleted does not come back, and is in no load that
\* was read after it.
Gone(q) ==
  q.op = "deleteRouting" /\ q.pc \in {"reload", "install"} =>
    /\ q.config # Null => q.config < nextId /\ \A g \in configs : g.id # q.config
    /\ q.pc = "install" => /\ q.rows \in Routers
                           /\ \A p \in DOMAIN q.rows : q.rows[p].id # q.config

Fit(q) == q.pc # Null => Sent(q) /\ Above(q) /\ Gone(q)
CallsOK ==
  /\ call \in [Calls -> FullCall]
  /\ \A c \in Calls : Fit(call[c])

IInv == TypesOK /\ ConfigsOK /\ CountersOK /\ CachesOK /\ CallsOK

LEMMA InvSplit == IInv => TypeOK /\ ConfigsOfTypes
<1> SUFFICES ASSUME IInv PROVE TypeOK /\ ConfigsOfTypes
  OBVIOUS
<1>1. ASSUME NEW c \in Calls PROVE [call[c] EXCEPT !.rows = Null] \in Call
  <2>1. call[c] \in FullCall
    BY DEF IInv, CallsOK
  <2> QED
    BY <2>1 DEF FullCall, Call
<1> QED
  BY <1>1 DEF IInv, TypesOK, ConfigsOK, CountersOK, CachesOK, TypeOK

-----------------------------------------------------------------------------
(* What a load of the router reads *)

LEMMA TypeFound ==
  ASSUME TypesOK, ConfigsOK, NEW g \in configs
  PROVE  TypeOf(g) \in types /\ TypeOf(g).id = g.type /\ PathOf(TypeOf(g)) \in Path
<1>1. \E t \in types : t.id = g.type
  BY DEF ConfigsOK, ConfigsOfTypes
<1>2. TypeOf(g) \in types /\ TypeOf(g).id = g.type
  BY <1>1 DEF TypeOf
<1> QED
  BY <1>2 DEF TypesOK, TypeRow, PathOf, Path

LEMMA PathsAreUnique ==
  ASSUME TypesOK, NEW t \in types, NEW u \in types, PathOf(t) = PathOf(u)
  PROVE  t = u
<1>1. t.slug = u.slug /\ t.ver = u.ver
  BY DEF PathOf
<1> QED
  BY <1>1 DEF TypesOK

LEMMA OneConfigOfPath ==
  ASSUME TypesOK, ConfigsOK, NEW g \in configs, NEW h \in configs,
         PathOf(TypeOf(g)) = PathOf(TypeOf(h))
  PROVE  g = h
<1>1. TypeOf(g) = TypeOf(h)
  BY TypeFound, PathsAreUnique
<1>2. g.type = h.type
  BY <1>1, TypeFound
<1> QED
  BY <1>2 DEF ConfigsOK, ConfigsOfTypes

LEMMA RouterHas ==
  ASSUME TypesOK, ConfigsOK
  PROVE  /\ \A g \in configs :
              /\ PathOf(TypeOf(g)) \in DOMAIN RouterRows
              /\ RouterRows[PathOf(TypeOf(g))] =
                   [id |-> g.id, field |-> g.field, rules |-> Ordered(g.rules)]
         /\ \A p \in DOMAIN RouterRows : \E g \in configs : p = PathOf(TypeOf(g))
<1>1. PICK routed : routed = {g \in configs : g.rules # {}}
  OBVIOUS
<1>2. routed = configs
  BY <1>1 DEF ConfigsOK, Whole
<1>3. PICK rows : rows = [path \in {PathOf(TypeOf(g)) : g \in routed} |->
         [id |-> (CHOOSE g \in routed : PathOf(TypeOf(g)) = path).id,
          field |-> (CHOOSE g \in routed : PathOf(TypeOf(g)) = path).field,
          rules |-> Ordered((CHOOSE g \in routed : PathOf(TypeOf(g)) = path).rules)]]
  OBVIOUS
<1>4. RouterRows = rows
  BY <1>1, <1>3 DEF RouterRows
<1>5. DOMAIN rows = {PathOf(TypeOf(g)) : g \in configs}
  BY <1>2, <1>3
<1>6. ASSUME NEW g \in configs
      PROVE  rows[PathOf(TypeOf(g))] =
               [id |-> g.id, field |-> g.field, rules |-> Ordered(g.rules)]
  <2>1. PICK h : h = CHOOSE x \in routed : PathOf(TypeOf(x)) = PathOf(TypeOf(g))
    OBVIOUS
  <2>2. h \in configs /\ PathOf(TypeOf(h)) = PathOf(TypeOf(g))
    BY <1>2, <2>1
  <2>3. h = g
    BY <2>2, OneConfigOfPath
  <2> QED
    BY <1>2, <1>3, <2>1, <2>3
<1> QED
  BY <1>4, <1>5, <1>6

LEMMA RouterType ==
  ASSUME TypesOK, ConfigsOK
  PROVE  RouterRows \in Routers
<1>1. ASSUME NEW g \in configs
      PROVE  [id |-> g.id, field |-> g.field, rules |-> Ordered(g.rules)] \in Entry
  <2>1. g.id \in Nat /\ g.field \in Fields /\ g.rules \in SUBSET Rule
        /\ IsFiniteSet(g.rules) /\ Whole(g.rules)
    BY DEF ConfigsOK, ConfigRow
  <2>2. PICK n \in Nat : Ordered(g.rules) \in [1..n -> g.rules]
    BY <2>1, OrderedExists
  <2>3. Ordered(g.rules) \in Seq(Rule)
    BY <2>1, <2>2
  <2> QED
    BY <2>1, <2>3 DEF Entry
<1>2. \A p \in DOMAIN RouterRows : RouterRows[p] \in Entry /\ p \in Path
  BY <1>1, RouterHas, TypeFound
<1>3. RouterRows = [p \in DOMAIN RouterRows |-> RouterRows[p]]
  BY DEF RouterRows
<1>4. RouterRows \in [DOMAIN RouterRows -> Entry] /\ DOMAIN RouterRows \in SUBSET Path
  BY <1>2, <1>3
<1> QED
  BY <1>4 DEF Routers

-----------------------------------------------------------------------------
(* Routing by content *)

Hits(r, value) == \E s \in value : MatchesString(r, s)

\* The places of the rules that hit, and the rules that hit with none before them.
Least(S) == CHOOSE i \in S : \A j \in S : i <= j
HitsIn(s, value) == {i \in DOMAIN s : Hits(s[i], value)}
First(s, value) ==
  IF HitsIn(s, value) = {} THEN {} ELSE {s[Least(HitsIn(s, value))]}
Unbeaten(rules, value) ==
  {x \in rules : Hits(x, value) /\ \A y \in rules : y.seq < x.seq => ~Hits(y, value)}

\* What the rules of the one configuration of a path declare.
LEMMA DeclaredBy ==
  ASSUME TypesOK, ConfigsOK, NEW g \in configs, NEW content
  PROVE  Declared(PathOf(TypeOf(g)), content) =
           {r.isn : r \in {x \in g.rules :
              /\ content[g.field] # Null /\ Hits(x, content[g.field])
              /\ \A y \in g.rules : y.seq < x.seq => ~Hits(y, content[g.field])}}
<1>1. {h \in configs : PathOf(TypeOf(h)) = PathOf(TypeOf(g))} = {g}
  BY OneConfigOfPath
<1>2. UNION {h.rules : h \in {g}} = g.rules
  OBVIOUS
<1>3. PICK p : p = PathOf(TypeOf(g))
  OBVIOUS
<1>4. ASSUME NEW x \in g.rules
      PROVE  (\E h \in configs :
                /\ PathOf(TypeOf(h)) = p /\ x \in h.rules
                /\ content[h.field] # Null
                /\ \E s \in content[h.field] : MatchesString(x, s)
                /\ \A y \in h.rules : y.seq < x.seq =>
                     \A s \in content[h.field] : ~MatchesString(y, s))
             <=> /\ content[g.field] # Null /\ Hits(x, content[g.field])
                 /\ \A y \in g.rules : y.seq < x.seq => ~Hits(y, content[g.field])
  <2>1. \A h \in configs : PathOf(TypeOf(h)) = p => h = g
    BY <1>3, OneConfigOfPath
  <2>2. PathOf(TypeOf(g)) = p
    BY <1>3
  <2> QED
    BY <2>1, <2>2 DEF Hits
<1>5. PICK X : X = {x \in g.rules : \E h \in configs :
                /\ PathOf(TypeOf(h)) = p /\ x \in h.rules
                /\ content[h.field] # Null
                /\ \E s \in content[h.field] : MatchesString(x, s)
                /\ \A y \in h.rules : y.seq < x.seq =>
                     \A s \in content[h.field] : ~MatchesString(y, s)}
  OBVIOUS
<1>6. PICK Y : Y = {x \in g.rules :
              /\ content[g.field] # Null /\ Hits(x, content[g.field])
              /\ \A y \in g.rules : y.seq < x.seq => ~Hits(y, content[g.field])}
  OBVIOUS
<1>7. X = Y
  BY <1>4, <1>5, <1>6
<1>8. Declared(p, content) = {r.isn : r \in X}
  BY <1>1, <1>2, <1>3, <1>5 DEF Declared
<1> QED
  BY <1>3, <1>6, <1>7, <1>8

\* The first rule that hits, in the sequence, is the one none before which hits.
LEMMA FirstHit ==
  ASSUME NEW rules \in SUBSET Rule, IsFiniteSet(rules), Whole(rules), NEW value
  PROVE  Unbeaten(rules, value) = First(Ordered(rules), value)
<1>a. PICK s, hits : s = Ordered(rules) /\ hits = HitsIn(s, value)
  OBVIOUS
<1>b. First(Ordered(rules), value) = IF hits = {} THEN {} ELSE {s[Least(hits)]}
  BY <1>a DEF First
<1>0. hits = {i \in DOMAIN s : Hits(s[i], value)}
  BY <1>a DEF HitsIn
<1>1. PICK n \in Nat : /\ s \in [1..n -> rules]
                       /\ \A i, j \in 1..n : i < j => s[i].seq < s[j].seq
                       /\ \A r \in rules : \E i \in 1..n : s[i] = r
  BY <1>a, OrderedExists
<1>2. \A i \in 1..n : s[i] \in rules /\ s[i].seq \in Nat
  BY <1>1 DEF Rule
<1>3. CASE hits = {}
  <2>1. \A x \in rules : ~Hits(x, value)
    BY <1>0, <1>1, <1>3
  <2> QED
    BY <1>3, <1>b, <2>1 DEF Unbeaten
<1>4. CASE hits # {}
  <2>1. hits \in SUBSET Nat /\ hits \subseteq 1..n
    BY <1>0, <1>1
  <2>2. PICK i : i = Least(hits)
    OBVIOUS
  <2>3. i \in hits /\ \A k \in hits : i <= k
    <3>1. \E m \in hits : \A k \in hits : m <= k
      BY <1>4, <2>1, LeastNumber
    <3> QED
      BY <2>2, <3>1 DEF Least
  <2>4. i \in 1..n /\ Hits(s[i], value)
    BY <1>0, <2>1, <2>3
  <2>5. ASSUME NEW y \in rules, y.seq < s[i].seq PROVE ~Hits(y, value)
    <3>1. PICK j \in 1..n : s[j] = y
      BY <1>1
    <3>2. j < i
      BY <1>1, <1>2, <2>4, <2>5, <3>1
    <3>3. j \notin hits
      BY <2>3, <2>4, <3>2
    <3> QED
      BY <1>0, <1>1, <3>1, <3>3
  <2>6. ASSUME NEW x \in rules, Hits(x, value),
               \A y \in rules : y.seq < x.seq => ~Hits(y, value)
        PROVE  x = s[i]
    <3>1. PICK j \in 1..n : s[j] = x
      BY <1>1
    <3>2. j \in hits /\ i <= j
      BY <1>0, <1>1, <2>3, <2>6, <3>1
    <3>3. ~(i < j)
      <4>1. i < j => s[i].seq < x.seq
        BY <1>1, <2>4, <3>1
      <4> QED
        BY <1>2, <2>4, <2>6, <4>1
    <3> QED
      BY <2>4, <3>1, <3>2, <3>3
  <2>7. Unbeaten(rules, value) = {s[i]}
    BY <1>2, <2>4, <2>5, <2>6 DEF Unbeaten
  <2> QED
    BY <1>4, <1>b, <2>2, <2>7
<1> QED
  BY <1>3, <1>4

LEMMA TablesRoute ==
  ASSUME TypesOK, ConfigsOK
  PROVE  RoutedAsDeclared
<1> SUFFICES ASSUME NEW t \in types, NEW content
             PROVE  Declared(PathOf(t), content) =
                      IF Resolve(RouterRows, PathOf(t), content) = Null THEN {}
                      ELSE {Resolve(RouterRows, PathOf(t), content)}
  BY DEF RoutedAsDeclared
<1>1. PICK p : p = PathOf(t)
  OBVIOUS
<1>2. CASE p \notin DOMAIN RouterRows
  <2>1. Resolve(RouterRows, p, content) = Null
    BY <1>2 DEF Resolve
  <2>2. \A g \in configs : PathOf(TypeOf(g)) # p
    BY <1>2, RouterHas
  <2>3. Declared(p, content) = {}
    BY <2>2 DEF Declared
  <2> QED
    BY <1>1, <2>1, <2>3
<1>3. CASE p \in DOMAIN RouterRows
  <2>1. PICK g \in configs : p = PathOf(TypeOf(g))
    BY <1>3, RouterHas
  <2>2. /\ g.rules \in SUBSET Rule /\ IsFiniteSet(g.rules) /\ Whole(g.rules)
    BY DEF ConfigsOK, ConfigRow
  <2>3. RouterRows[p] = [id |-> g.id, field |-> g.field, rules |-> Ordered(g.rules)]
    BY <2>1, RouterHas
  <2>4. PICK s, value : s = Ordered(g.rules) /\ value = content[g.field]
    OBVIOUS
  <2>5. RouterRows[p].rules = s /\ RouterRows[p].field = g.field
    BY <2>3, <2>4
  <2>6. PICK matching : matching = {i \in DOMAIN s : value # Null /\ Hits(s[i], value)}
    OBVIOUS
  <2>7. Resolve(RouterRows, p, content) =
          IF matching = {} THEN Null
          ELSE s[Least(matching)].isn
    BY <1>3, <2>4, <2>5, <2>6 DEF Resolve, MatchesResult, Hits, Least
  <2>8. Declared(p, content) =
           {r.isn : r \in {x \in g.rules : /\ value # Null /\ Hits(x, value)
              /\ \A y \in g.rules : y.seq < x.seq => ~Hits(y, value)}}
    BY <2>1, <2>4, DeclaredBy
  <2>9. CASE value = Null
    BY <1>1, <2>6, <2>7, <2>8, <2>9
  <2>10. CASE value # Null
    <3>1. matching = HitsIn(s, value)
      BY <2>6, <2>10 DEF HitsIn
    <3>2. PICK X : X = Unbeaten(g.rules, value)
      OBVIOUS
    <3>3. X = IF matching = {} THEN {} ELSE {s[Least(matching)]}
      <4>1. PICK rules : rules = g.rules
        OBVIOUS
      <4>2. rules \in SUBSET Rule /\ IsFiniteSet(rules) /\ Whole(rules)
        BY <2>2, <4>1
      <4>3. Unbeaten(rules, value) = First(Ordered(rules), value)
        BY <4>2, FirstHit
      <4> QED
        BY <2>4, <3>1, <3>2, <4>1, <4>3 DEF First
    <3>4. Declared(p, content) = {r.isn : r \in X}
      BY <2>8, <2>10, <3>2 DEF Unbeaten
    <3>5. \A x \in X : x.isn # Null
      BY <2>2, <3>2, NullAssumption DEF Rule, Unbeaten
    <3> QED
      BY <1>1, <2>7, <3>3, <3>4, <3>5
  <2> QED
    BY <2>9, <2>10
<1> QED
  BY <1>2, <1>3

-----------------------------------------------------------------------------
(* What a step leaves as it was *)

\* Ids are given once: what is new in a table has an id that was not given.
Grows ==
  /\ nextId <= nextId'
  /\ \A t \in types' : t \in types \/ nextId <= t.id
  /\ \A g \in configs' : g \in configs \/ nextId <= g.id

LEMMA TablesStay ==
  ASSUME TypesOK, ConfigsOK, UNCHANGED tables
  PROVE  TypesOK' /\ ConfigsOK' /\ Grows
<1>1. types' = types /\ configs' = configs /\ public' = public /\ nextId' = nextId
  BY DEF tables
<1>2. TypesOK'
  BY <1>1 DEF TypesOK
<1>3. ConfigsOK'
  BY <1>1 DEF ConfigsOK, ConfigsOfTypes
<1>4. Grows
  BY <1>1 DEF TypesOK, Grows
<1> QED
  BY <1>2, <1>3, <1>4

LEMMA CountersStay ==
  ASSUME CountersOK, UNCHANGED <<begun, faults>>
  PROVE  CountersOK'
<1>1. begun' = begun /\ faults' = faults
  OBVIOUS
<1> QED
  BY <1>1 DEF CountersOK

LEMMA CachesStay ==
  ASSUME CachesOK, UNCHANGED <<cache, loading>>
  PROVE  CachesOK'
<1>1. cache' = cache /\ loading' = loading
  OBVIOUS
<1> QED
  BY <1>1 DEF CachesOK, Cached, CachedConfig

LEMMA FitStays ==
  ASSUME TypesOK, ConfigsOK, TypesOK', ConfigsOK', Grows, NEW q \in FullCall, Fit(q)
  PROVE  Fit(q)'
<1> SUFFICES ASSUME q.pc # Null PROVE Sent(q)' /\ Above(q)' /\ Gone(q)'
  BY DEF Fit
<1>1. Sent(q) /\ Above(q) /\ Gone(q)
  BY DEF Fit
<1>2. /\ q.upTo \in Nat /\ q.config \in Nat \union {Null} /\ nextId \in Nat /\ nextId' \in Nat
      /\ nextId <= nextId'
      /\ \A t \in types' : (t \in types \/ nextId <= t.id) /\ t.id \in Nat
      /\ \A g \in configs' : (g \in configs \/ nextId <= g.id) /\ g.id \in Nat
  BY DEF FullCall, TypesOK, ConfigsOK, TypeRow, ConfigRow, Grows
<1>3. Sent(q)'
  BY <1>1 DEF Sent
<1>4. Above(q)'
  <2> SUFFICES ASSUME q.op = "newSchema", q.pc # "latest"
               PROVE  /\ q.upTo <= nextId'
                      /\ \A t \in types' : /\ t.id < q.upTo /\ t.slug = q.slug
                                           /\ \A i \in 1..3 : t.ver[i] < 10
                                           => Before(t.ver, q.ver)
    BY DEF Above
  <2>1. q.upTo <= nextId
    BY <1>1 DEF Above
  <2>2. ASSUME NEW t \in types', t.id < q.upTo, t.slug = q.slug, \A i \in 1..3 : t.ver[i] < 10
        PROVE  Before(t.ver, q.ver)
    <3>1. t \in types
      BY <1>2, <2>1, <2>2
    <3> QED
      BY <1>1, <2>2, <3>1 DEF Above
  <2> QED
    BY <1>2, <2>1, <2>2
<1>5. Gone(q)'
  <2> SUFFICES ASSUME q.op = "deleteRouting", q.pc \in {"reload", "install"}
               PROVE  /\ q.config # Null => /\ q.config < nextId'
                                            /\ \A g \in configs' : g.id # q.config
                      /\ q.pc = "install" => /\ q.rows \in Routers
                                             /\ \A p \in DOMAIN q.rows : q.rows[p].id # q.config
    BY DEF Gone
  <2>1. /\ q.config # Null => q.config < nextId /\ \A g \in configs : g.id # q.config
        /\ q.pc = "install" => /\ q.rows \in Routers
                               /\ \A p \in DOMAIN q.rows : q.rows[p].id # q.config
    BY <1>1 DEF Gone
  <2>2. ASSUME q.config # Null PROVE q.config < nextId' /\ \A g \in configs' : g.id # q.config
    <3>1. q.config \in Nat /\ q.config < nextId
      BY <1>2, <2>1, <2>2
    <3> QED
      BY <1>2, <2>1, <2>2, <3>1
  <2> QED
    BY <2>1, <2>2
<1> QED
  BY <1>3, <1>4, <1>5

LEMMA NoCallIsFree == NoCall \in FullCall /\ NoCall.pc = Null /\ Fit(NoCall) /\ Fit(NoCall)'
<1>1. NoCall \in FullCall /\ NoCall.pc = Null
  BY DEF NoCall, FullCall
<1> QED
  BY <1>1 DEF Fit

\* The invariant, when one call becomes q, or stays.
LEMMA CallBecomes ==
  ASSUME IInv, TypesOK', ConfigsOK', Grows, NEW c \in Calls,
         NEW q \in FullCall, Fit(q)', Set(c, q)
  PROVE  CallsOK'
<1>1. call \in [Calls -> FullCall] /\ \A d \in Calls : Fit(call[d])
  BY DEF IInv, CallsOK
<1>2. call' = [call EXCEPT ![c] = q]
  BY DEF Set
<1>3. call' \in [Calls -> FullCall]
  BY <1>1, <1>2
<1>4. ASSUME NEW d \in Calls PROVE Fit(call[d])'
  <2>1. PICK r \in FullCall : r = call'[d]
    BY <1>3
  <2>2. CASE d = c
    <3>1. r = q
      BY <1>1, <1>2, <2>1, <2>2
    <3> QED
      BY <2>1, <3>1 DEF Fit, Sent, Above, Gone
  <2>3. CASE d # c
    <3>1. r = call[d]
      BY <1>1, <1>2, <2>1, <2>3
    <3>2. Fit(r)
      BY <1>1, <3>1
    <3>3. Fit(r)'
      BY <3>2, FitStays DEF IInv
    <3> QED
      BY <2>1, <3>3 DEF Fit, Sent, Above, Gone
  <2> QED
    BY <2>2, <2>3
<1> QED
  BY <1>3, <1>4 DEF CallsOK

LEMMA CallsStay ==
  ASSUME IInv, TypesOK', ConfigsOK', Grows, call' = call
  PROVE  CallsOK'
<1>1. call \in [Calls -> FullCall] /\ \A d \in Calls : Fit(call[d])
  BY DEF IInv, CallsOK
<1>2. ASSUME NEW d \in Calls PROVE Fit(call[d])'
  <2>1. PICK r \in FullCall : r = call[d]
    BY <1>1
  <2>2. Fit(r)'
    BY <1>1, <2>1, FitStays DEF IInv
  <2> QED
    BY <2>1, <2>2 DEF Fit, Sent, Above, Gone
<1> QED
  BY <1>1, <1>2 DEF CallsOK

\* A step of one call that changes nothing else.
LEMMA CallMoves ==
  ASSUME IInv, NEW c \in Calls, NEW q \in FullCall, Fit(q), Set(c, q), Unchanging
  PROVE  IInv'
<1>1. TypesOK' /\ ConfigsOK' /\ Grows /\ CountersOK' /\ CachesOK'
  BY TablesStay, CountersStay, CachesStay DEF IInv, Unchanging
<1>2. Fit(q)'
  BY <1>1, FitStays DEF IInv
<1>3. CallsOK'
  BY <1>1, <1>2, CallBecomes
<1> QED
  BY <1>1, <1>3 DEF IInv

LEMMA CallEnds ==
  ASSUME IInv, NEW c \in Calls, Set(c, NoCall), Unchanging
  PROVE  IInv'
BY CallMoves, NoCallIsFree

-----------------------------------------------------------------------------
(* The invariant holds at the start *)

LEMMA InvariantInit == Init => IInv
<1> SUFFICES ASSUME Init PROVE IInv
  OBVIOUS
<1>1. TypesOK
  <2>1. /\ types \subseteq TypeRow /\ IsFiniteSet(types) /\ nextId = Cardinality(types)
        /\ \A t \in types : t.id < Cardinality(types)
        /\ \A t, u \in types : t # u => t.id # u.id /\ (t.slug = u.slug => t.ver # u.ver)
    BY HistoryAssumption DEF Init
  <2>2. nextId \in Nat
    BY <2>1, FS_CardinalityType
  <2> QED
    BY <2>1, <2>2 DEF TypesOK
<1>2. ConfigsOK
  BY DEF Init, ConfigsOK, ConfigsOfTypes
<1>3. CountersOK
  BY BoundAssumption DEF Init, CountersOK
<1>4. CachesOK
  <2>1. \A n \in Instances, k \in Kinds : cache[n][k] = Null /\ loading[n][k] = Null
    BY DEF Init, NotLoaded
  <2> QED
    BY <2>1 DEF Init, NotLoaded, CachesOK, Cached
<1>5. CallsOK
  <2>1. call = [c \in Calls |-> NoCall]
    BY DEF Init
  <2>2. call \in [Calls -> FullCall]
    BY <2>1, NoCallIsFree
  <2>3. \A c \in Calls : Fit(call[c])
    BY <2>1, NoCallIsFree
  <2> QED
    BY <2>2, <2>3 DEF CallsOK
<1> QED
  BY <1>1, <1>2, <1>3, <1>4, <1>5 DEF IInv

-----------------------------------------------------------------------------
(* Calls begin *)

LEMMA FirstStatement ==
  ASSUME NEW op \in Ops
  PROVE  /\ FirstOf(op) \in Statements /\ FirstOf(op) # Null
         /\ FirstOf(op) \notin {"reload", "install"}
         /\ op \in {"create", "newSchema"} => FirstOf(op) = "latest"
         /\ op = "putRouting" => FirstOf(op) = "type"
BY NullAssumption DEF Ops, FirstOf, Statements

LEMMA BeginKeeps ==
  ASSUME IInv, NEW c \in Calls, Begin(c)
  PROVE  IInv'
<1>1. PICK n \in Instances, op \in Ops :
        LET q == [NoCall EXCEPT !.op = op, !.pc = FirstOf(op), !.at = n] IN
         \/ /\ op \in {"create", "newSchema"}
            /\ \E s \in Slugs, b \in Bumps, u \in Schemas :
                 Set(c, [q EXCEPT !.slug = s, !.bump = b, !.schema = u])
         \/ op = "listTypes" /\ Set(c, q)
         \/ /\ op \notin {"create", "newSchema", "listTypes", "putRouting"}
            /\ \E t \in types : Set(c, [q EXCEPT !.slug = t.slug, !.ver = t.ver])
         \/ /\ op = "putRouting"
            /\ \E t \in types, r \in Requests :
                 Set(c, [q EXCEPT !.slug = t.slug, !.ver = t.ver, !.request = r])
  BY DEF Begin
<1>2. /\ begun < MaxCalls /\ begun' = begun + 1 /\ UNCHANGED <<tables, cache, loading, faults>>
  BY DEF Begin
<1>3. TypesOK' /\ ConfigsOK' /\ Grows /\ CachesOK'
  BY <1>2, TablesStay, CachesStay DEF IInv
<1>4. CountersOK'
  BY <1>2, BoundAssumption DEF IInv, CountersOK
<1>5. PICK q : q = [NoCall EXCEPT !.op = op, !.pc = FirstOf(op), !.at = n]
  OBVIOUS
<1>6. /\ q \in FullCall /\ q.op = op /\ q.pc = FirstOf(op) /\ q.at = n
  <2>1. NoCall \in FullCall /\ FirstOf(op) \in Statements
    BY NoCallIsFree, FirstStatement
  <2> QED
    BY <1>5, <2>1 DEF FullCall
<1>7. ASSUME NEW r \in FullCall, r.op = op, r.pc = FirstOf(op), r.at = n, Sent(r), Set(c, r)
      PROVE  CallsOK'
  <2>1. Above(r) /\ Gone(r)
    BY <1>7, FirstStatement DEF Above, Gone
  <2>2. Fit(r)
    BY <1>7, <2>1 DEF Fit
  <2>3. Fit(r)'
    BY <1>3, <2>2, FitStays DEF IInv
  <2> QED
    BY <1>3, <1>7, <2>3, CallBecomes
<1>8. CASE \E s \in Slugs, b \in Bumps, u \in Schemas :
             op \in {"create", "newSchema"}
             /\ Set(c, [q EXCEPT !.slug = s, !.bump = b, !.schema = u])
  <2>1. PICK s \in Slugs, b \in Bumps, u \in Schemas :
             op \in {"create", "newSchema"}
             /\ Set(c, [q EXCEPT !.slug = s, !.bump = b, !.schema = u])
    BY <1>8
  <2>2. PICK r : r = [q EXCEPT !.slug = s, !.bump = b, !.schema = u]
    OBVIOUS
  <2>3. /\ r \in FullCall /\ r.op = op /\ r.pc = FirstOf(op) /\ r.at = n
        /\ r.slug = s /\ r.bump = b /\ r.schema = u
    BY <1>6, <2>2 DEF FullCall
  <2>4. Sent(r)
    BY <2>1, <2>3, FirstStatement DEF Sent
  <2> QED
    BY <1>3, <1>4, <1>7, <2>1, <2>2, <2>3, <2>4 DEF IInv
<1>9. CASE op = "listTypes" /\ Set(c, q)
  <2>1. Sent(q)
    BY <1>6, <1>9 DEF Sent
  <2> QED
    BY <1>3, <1>4, <1>6, <1>7, <1>9, <2>1 DEF IInv
<1>10. CASE \E t \in types : op \notin {"create", "newSchema", "listTypes", "putRouting"}
                             /\ Set(c, [q EXCEPT !.slug = t.slug, !.ver = t.ver])
  <2>1. PICK t \in types : op \notin {"create", "newSchema", "listTypes", "putRouting"}
                             /\ Set(c, [q EXCEPT !.slug = t.slug, !.ver = t.ver])
    BY <1>10
  <2>2. PICK s \in Slugs, v \in Version : s = t.slug /\ v = t.ver
    BY DEF IInv, TypesOK, TypeRow
  <2>3. PICK r : r = [q EXCEPT !.slug = s, !.ver = v]
    OBVIOUS
  <2>4. r \in FullCall /\ r.op = op /\ r.pc = FirstOf(op) /\ r.at = n
    BY <1>6, <2>3 DEF FullCall
  <2>5. Sent(r)
    BY <2>1, <2>4 DEF Sent
  <2> QED
    BY <1>3, <1>4, <1>7, <2>1, <2>2, <2>3, <2>4, <2>5 DEF IInv
<1>11. CASE \E t \in types, m \in Requests : op = "putRouting"
              /\ Set(c, [q EXCEPT !.slug = t.slug, !.ver = t.ver, !.request = m])
  <2>1. PICK t \in types, m \in Requests : op = "putRouting"
              /\ Set(c, [q EXCEPT !.slug = t.slug, !.ver = t.ver, !.request = m])
    BY <1>11
  <2>2. PICK s \in Slugs, v \in Version : s = t.slug /\ v = t.ver
    BY DEF IInv, TypesOK, TypeRow
  <2>3. PICK r : r = [q EXCEPT !.slug = s, !.ver = v, !.request = m]
    OBVIOUS
  <2>4. r \in FullCall /\ r.op = op /\ r.pc = FirstOf(op) /\ r.at = n /\ r.request = m
    BY <1>6, <2>3 DEF FullCall
  <2>5. Sent(r)
    BY <2>1, <2>4, FirstStatement DEF Sent
  <2> QED
    BY <1>3, <1>4, <1>7, <2>1, <2>2, <2>3, <2>4, <2>5 DEF IInv
<1> QED
  BY <1>1, <1>5, <1>8, <1>9, <1>10, <1>11

-----------------------------------------------------------------------------
(* Steps of calls *)

\* A call that runs is as its statement needs it.
LEMMA RunningFits ==
  ASSUME IInv, NEW c \in Calls, call[c].pc # Null
  PROVE  call[c] \in FullCall /\ Sent(call[c]) /\ Above(call[c]) /\ Gone(call[c])
BY DEF IInv, CallsOK, Fit

LEMMA MovedFields ==
  ASSUME NEW q \in FullCall, NEW s \in Statements, NEW n, n = Moved(q, s)
  PROVE  /\ n \in FullCall /\ n.pc = s /\ n.op = q.op /\ n.at = q.at /\ n.slug = q.slug
         /\ n.ver = q.ver /\ n.bump = q.bump /\ n.schema = q.schema
         /\ n.request = q.request /\ n.type = q.type /\ n.config = q.config
         /\ n.upTo = q.upTo /\ n.rows = q.rows
BY DEF Moved, FullCall

\* A check that leads to a statement after which a call needs no more than before.
LEMMA PlainMove ==
  ASSUME IInv, NEW c \in Calls, call[c].pc # Null, NEW s \in Statements,
         s \notin {"latest", "type", "reload", "install"},
         call[c].pc \notin {"latest", "type"}, Set(c, Moved(call[c], s)), Unchanging
  PROVE  IInv'
<1>1. PICK q : q = call[c]
  OBVIOUS
<1>2. q \in FullCall /\ Sent(q) /\ Above(q) /\ Gone(q) /\ q.pc # Null
      /\ q.pc \notin {"latest", "type"}
  BY <1>1, RunningFits
<1>3. PICK n : n = Moved(q, s)
  OBVIOUS
<1>4. /\ n \in FullCall /\ n.pc = s /\ n.op = q.op /\ n.at = q.at /\ n.slug = q.slug
      /\ n.ver = q.ver /\ n.bump = q.bump /\ n.schema = q.schema
      /\ n.request = q.request /\ n.type = q.type /\ n.upTo = q.upTo
  BY <1>2, <1>3, MovedFields
<1>5. Sent(n)
  BY <1>2, <1>4 DEF Sent
<1>6. Above(n)
  BY <1>2, <1>4 DEF Above
<1>7. Gone(n)
  BY <1>4 DEF Gone
<1>8. Fit(n)
  BY <1>5, <1>6, <1>7 DEF Fit
<1> QED
  BY <1>1, <1>3, <1>4, <1>8, CallMoves

LEMMA FindTypeKeeps ==
  ASSUME IInv, NEW c \in Calls,
         NEW op \in {"updateType", "deleteType", "putRouting", "deleteRouting"},
         NEW then \in {"effect", "signals", "field", "config"}, FindType(c, op, then)
  PROVE  IInv'
<1>1. CASE Set(c, NoCall)
  BY <1>1, CallEnds DEF FindType
<1>2. CASE \E t \in types : Set(c, [Moved(call[c], then) EXCEPT !.type = t.id])
  <2>1. PICK t \in types : Set(c, [Moved(call[c], then) EXCEPT !.type = t.id])
    BY <1>2
  <2>2. PICK id \in Nat : id = t.id
    BY DEF IInv, TypesOK, TypeRow
  <2>3. PICK q : q = call[c]
    OBVIOUS
  <2>4. /\ q \in FullCall /\ Sent(q) /\ q.op = op /\ q.pc = "type" /\ Unchanging
    <3>1. q.op = op /\ q.pc = "type" /\ Unchanging
      BY <2>3 DEF FindType, Now
    <3> QED
      BY <2>3, <3>1, RunningFits, NullAssumption DEF Statements
  <2>5. PICK m : m = Moved(q, then)
    OBVIOUS
  <2>6. /\ m \in FullCall /\ m.pc = then /\ m.op = q.op /\ m.at = q.at /\ m.request = q.request
    BY <2>4, <2>5, MovedFields DEF Statements
  <2>7. PICK n : n = [m EXCEPT !.type = id]
    OBVIOUS
  <2>8. /\ n \in FullCall /\ n.pc = then /\ n.op = q.op /\ n.at = q.at
        /\ n.request = q.request /\ n.type = id
    BY <2>6, <2>7 DEF FullCall
  <2>9. Sent(n) /\ Above(n) /\ Gone(n)
    BY <2>4, <2>8 DEF Sent, Above, Gone
  <2>10. Fit(n)
    BY <2>9 DEF Fit
  <2> QED
    BY <2>1, <2>2, <2>3, <2>4, <2>5, <2>7, <2>8, <2>10, CallMoves
<1> QED
  BY <1>1, <1>2 DEF FindType

\* The version a registration starts from is the greatest as text, so that the next
\* one is above all that are there, if their numbers have one digit.
LEMMA NextVersion ==
  ASSUME TypesOK, NEW slug \in Slugs, NEW bump \in Bumps, NEW t \in types, t.slug = slug,
         \A i \in 1..3 : t.ver[i] < 10
  PROVE  Before(t.ver, IncrementSemVer(bump, LatestSlugVersion(slug)))
<1>1. PICK T : T = VersionsOf(slug)
  OBVIOUS
<1>2. T = {u.ver : u \in {x \in types : x.slug = slug}}
  BY <1>1 DEF VersionsOf
<1>3. t.ver \in T /\ T \subseteq Version
  BY <1>2 DEF TypesOK, TypeRow
<1>4. PICK v : v = LatestSlugVersion(slug)
  OBVIOUS
<1>5. v \in T /\ \A w \in T : ~TextBefore(v, w)
  BY <1>1, <1>3, <1>4, LatestIsLatest
<1>6. PICK w \in Version : w = t.ver
  BY <1>3
<1>7. Before(w, IncrementSemVer(bump, v))
  BY <1>3, <1>5, <1>6, NextIsAbove
<1> QED
  BY <1>4, <1>6, <1>7

LEMMA ReadLatestKeeps ==
  ASSUME IInv, NEW c \in Calls, NEW op \in {"create", "newSchema"},
         NEW then \in {"effect", "exists"}, ReadLatest(c, op, then)
  PROVE  IInv'
<1>1. PICK q : q = call[c]
  OBVIOUS
<1>2. PICK new : new = IncrementSemVer(q.bump, LatestSlugVersion(q.slug))
  OBVIOUS
<1>3. q.op = op /\ q.pc = "latest" /\ Unchanging
  BY <1>1 DEF ReadLatest, Now, Check
<1>4. Set(c, NoCall) \/ (new \in Version /\ Set(c, [Moved(q, then) EXCEPT !.ver = new, !.upTo = nextId]))
  BY <1>1, <1>2 DEF ReadLatest, Check
<1>5. CASE Set(c, NoCall)
  BY <1>3, <1>5, CallEnds
<1>6. CASE new \in Version /\ Set(c, [Moved(q, then) EXCEPT !.ver = new, !.upTo = nextId])
  <2>1. q \in FullCall /\ Sent(q)
    BY <1>1, <1>3, RunningFits, NullAssumption DEF Statements
  <2>2. q.slug \in Slugs /\ q.bump \in Bumps /\ q.schema \in Schemas /\ q.at \in Instances
    BY <1>3, <2>1 DEF Sent
  <2>3. PICK m : m = Moved(q, then)
    OBVIOUS
  <2>4. /\ m \in FullCall /\ m.pc = then /\ m.op = q.op /\ m.at = q.at /\ m.slug = q.slug
        /\ m.bump = q.bump /\ m.schema = q.schema
    BY <2>1, <2>3, MovedFields DEF Statements
  <2>5. PICK up \in Nat : up = nextId
    BY DEF IInv, TypesOK
  <2>6. PICK n : n = [m EXCEPT !.ver = new, !.upTo = up]
    OBVIOUS
  <2>7. /\ n \in FullCall /\ n.pc = then /\ n.op = q.op /\ n.at = q.at /\ n.slug = q.slug
        /\ n.bump = q.bump /\ n.schema = q.schema /\ n.ver = new /\ n.upTo = up
    BY <1>6, <2>4, <2>6 DEF FullCall
  <2>8. Sent(n)
    BY <1>3, <1>6, <2>2, <2>7 DEF Sent, Ops
  <2>9. Above(n)
    <3>1. \A t \in types : t.slug = q.slug /\ (\A i \in 1..3 : t.ver[i] < 10) => Before(t.ver, new)
      BY <1>2, <2>2, NextVersion DEF IInv
    <3> QED
      BY <2>5, <2>7, <3>1 DEF Above
  <2>10. Gone(n)
    BY <2>7 DEF Gone
  <2>11. Fit(n)
    BY <2>8, <2>9, <2>10 DEF Fit
  <2> QED
    BY <1>3, <1>6, <2>3, <2>5, <2>6, <2>7, <2>11, CallMoves
<1> QED
  BY <1>4, <1>5, <1>6

\* The last step of a call that changes the tables.
LEMMA CallIsDone ==
  ASSUME IInv, TypesOK', ConfigsOK', Grows, NEW c \in Calls, Done(c)
  PROVE  IInv'
<1>1. Set(c, NoCall) /\ UNCHANGED <<cache, loading>> /\ UNCHANGED <<begun, faults>>
  BY DEF Done
<1>2. CountersOK' /\ CachesOK'
  BY <1>1, CountersStay, CachesStay DEF IInv
<1>3. CallsOK'
  BY <1>1, NoCallIsFree, CallBecomes
<1> QED
  BY <1>2, <1>3 DEF IInv

LEMMA InsertKeeps ==
  ASSUME IInv, NEW c \in Calls, call[c].op \in {"create", "newSchema"}, call[c].pc = "effect",
         Insert(c, call[c].ver)
  PROVE  IInv'
<1>1. PICK q : q = call[c]
  OBVIOUS
<1>2. q.slug \in Slugs /\ q.ver \in Version /\ q.schema \in Schemas
  <2>1. Sent(q) /\ q.op \in {"create", "newSchema"} /\ q.pc = "effect"
    BY <1>1, RunningFits, NullAssumption DEF Statements
  <2> QED
    BY <2>1 DEF Sent
<1>3. CASE Refuse(c)
  BY <1>3, CallEnds DEF Refuse
<1>4. CASE /\ q.ver \notin VersionsOf(q.slug)
           /\ types' = types \union {[id |-> nextId, slug |-> q.slug, ver |-> q.ver,
                                      schema |-> q.schema]}
           /\ nextId' = nextId + 1
           /\ Done(c) /\ UNCHANGED <<configs, public>>
  <2>1. PICK new : new = [id |-> nextId, slug |-> q.slug, ver |-> q.ver, schema |-> q.schema]
    OBVIOUS
  <2>2. nextId \in Nat /\ types \subseteq TypeRow
    BY DEF IInv, TypesOK
  <2>3. new \in TypeRow /\ new.id = nextId /\ new.slug = q.slug /\ new.ver = q.ver
    BY <1>2, <2>1, <2>2 DEF TypeRow
  <2>4. types' = types \union {new} /\ nextId' = nextId + 1
    BY <1>4, <2>1
  <2>5. \A t \in types : t.id \in Nat /\ t.id < nextId /\ ~(t.slug = new.slug /\ t.ver = new.ver)
    <3>1. \A t \in types : t.slug = q.slug => t.ver # q.ver
      BY <1>4 DEF VersionsOf
    <3> QED
      BY <2>3, <3>1 DEF IInv, TypesOK, TypeRow
  <2>6. TypesOK'
    <3>1. types' \subseteq TypeRow /\ nextId' \in Nat
      BY <2>2, <2>3, <2>4
    <3>2. \A t \in types' : t.id < nextId'
      BY <2>2, <2>3, <2>4, <2>5
    <3>3. \A t, u \in types' : t.id = u.id \/ (t.slug = u.slug /\ t.ver = u.ver) => t = u
      <4>1. \A t, u \in types : t.id = u.id \/ (t.slug = u.slug /\ t.ver = u.ver) => t = u
        BY DEF IInv, TypesOK
      <4>2. \A t \in types : t.id # new.id /\ ~(t.slug = new.slug /\ t.ver = new.ver)
        BY <2>2, <2>3, <2>5
      <4> QED
        BY <2>4, <4>1, <4>2
    <3> QED
      BY <3>1, <3>2, <3>3 DEF TypesOK
  <2>7. ConfigsOK'
    <3>1. configs' = configs /\ public' = public
      BY <1>4
    <3>2. \A g \in configs : g.id < nextId'
      BY <2>2, <2>4 DEF IInv, ConfigsOK, ConfigRow
    <3>3. ConfigsOfTypes'
      BY <2>4, <3>1 DEF IInv, ConfigsOK, ConfigsOfTypes
    <3> QED
      BY <3>1, <3>2, <3>3 DEF IInv, ConfigsOK
  <2>8. Grows
    BY <1>4, <2>2, <2>3, <2>4 DEF Grows
  <2> QED
    BY <1>4, <2>6, <2>7, <2>8, CallIsDone
<1> QED
  BY <1>1, <1>3, <1>4 DEF Insert

LEMMA CreateKeeps ==
  ASSUME IInv, NEW c \in Calls, CreateSignalType(c)
  PROVE  IInv'
<1>1. CASE ReadLatest(c, "create", "effect")
  BY <1>1, ReadLatestKeeps
<1>2. CASE Now(c, "create", "effect") /\ Insert(c, call[c].ver)
  BY <1>2, InsertKeeps DEF Now
<1> QED
  BY <1>1, <1>2 DEF CreateSignalType

LEMMA NewSchemaKeeps ==
  ASSUME IInv, NEW c \in Calls, RegisterNewSignalTypeSchema(c)
  PROVE  IInv'
<1>1. CASE ReadLatest(c, "newSchema", "exists")
  BY <1>1, ReadLatestKeeps
<1>2. CASE /\ Now(c, "newSchema", "exists")
           /\ Check(c, ~ \E t \in types : t.slug = call[c].slug /\ t.schema = call[c].schema,
                    Moved(call[c], "effect"))
  <2>1. Set(c, NoCall) \/ Set(c, Moved(call[c], "effect"))
    BY <1>2 DEF Check
  <2>2. Unchanging /\ call[c].pc = "exists"
    BY <1>2 DEF Check, Now
  <2> QED
    BY <2>1, <2>2, CallEnds, PlainMove, NullAssumption DEF Statements
<1>3. CASE Now(c, "newSchema", "effect") /\ Insert(c, call[c].ver)
  BY <1>3, InsertKeeps DEF Now
<1> QED
  BY <1>1, <1>2, <1>3 DEF RegisterNewSignalTypeSchema

LEMMA UpdateTypeKeeps ==
  ASSUME IInv, NEW c \in Calls, UpdateSignalType(c)
  PROVE  IInv'
<1>1. CASE FindType(c, "updateType", "effect")
  BY <1>1, FindTypeKeeps
<1>2. CASE Answer(c)
  BY <1>2, CallEnds DEF Answer
<1> QED
  BY <1>1, <1>2 DEF UpdateSignalType

LEMMA DeleteTypeKeeps ==
  ASSUME IInv, NEW c \in Calls, DeleteSignalType(c)
  PROVE  IInv'
<1>1. CASE FindType(c, "deleteType", "signals")
  BY <1>1, FindTypeKeeps
<1>2. CASE /\ Now(c, "deleteType", "signals")
           /\ \E unused \in BOOLEAN : Check(c, unused, Moved(call[c], "effect"))
  <2>1. Set(c, NoCall) \/ Set(c, Moved(call[c], "effect"))
    BY <1>2 DEF Check
  <2>2. Unchanging /\ call[c].pc = "signals"
    BY <1>2 DEF Check, Now
  <2> QED
    BY <2>1, <2>2, CallEnds, PlainMove, NullAssumption DEF Statements
<1>3. CASE /\ types' = {t \in types : t.id # call[c].type}
           /\ configs' = {g \in configs : g.type # call[c].type}
           /\ public' = {p \in public : p[2] # call[c].type}
           /\ Done(c) /\ UNCHANGED nextId
  <2>1. TypesOK'
    BY <1>3 DEF IInv, TypesOK
  <2>2. ConfigsOfTypes'
    BY <1>3 DEF IInv, ConfigsOK, ConfigsOfTypes
  <2>3. ConfigsOK'
    BY <1>3, <2>2 DEF IInv, ConfigsOK
  <2>4. Grows
    BY <1>3 DEF IInv, TypesOK, Grows
  <2> QED
    BY <1>3, <2>1, <2>3, <2>4, CallIsDone
<1> QED
  BY <1>1, <1>2, <1>3 DEF DeleteSignalType

LEMMA GetRoutingKeeps ==
  ASSUME IInv, NEW c \in Calls, GetSignalRoutingConfig(c)
  PROVE  IInv'
<1>1. CASE Answer(c)
  BY <1>1, CallEnds DEF Answer
<1>2. CASE Now(c, "getRouting", "config") /\ Set(c, NoCall) /\ Unchanging
  BY <1>2, CallEnds
<1>3. CASE /\ Now(c, "getRouting", "config") /\ Unchanging
           /\ \E g \in configs : Set(c, [Moved(call[c], "effect") EXCEPT !.config = g.id])
  <2>1. PICK g \in configs : Set(c, [Moved(call[c], "effect") EXCEPT !.config = g.id])
    BY <1>3
  <2>2. PICK id \in Nat : id = g.id
    BY DEF IInv, ConfigsOK, ConfigRow
  <2>3. PICK q : q = call[c]
    OBVIOUS
  <2>4. q \in FullCall /\ Sent(q) /\ q.op = "getRouting" /\ q.pc = "config"
    BY <1>3, <2>3, RunningFits, NullAssumption DEF Now, Statements
  <2>5. PICK m : m = Moved(q, "effect")
    OBVIOUS
  <2>6. m \in FullCall /\ m.pc = "effect" /\ m.op = q.op /\ m.at = q.at
    BY <2>4, <2>5, MovedFields DEF Statements
  <2>7. PICK n : n = [m EXCEPT !.config = id]
    OBVIOUS
  <2>8. n \in FullCall /\ n.pc = "effect" /\ n.op = "getRouting" /\ n.at = q.at
    BY <2>4, <2>6, <2>7 DEF FullCall
  <2>9. Sent(n) /\ Above(n) /\ Gone(n)
    BY <2>4, <2>8 DEF Sent, Above, Gone, Ops
  <2>10. Fit(n)
    BY <2>9 DEF Fit
  <2> QED
    BY <1>3, <2>1, <2>2, <2>3, <2>5, <2>7, <2>8, <2>10, CallMoves
<1> QED
  BY <1>1, <1>2, <1>3 DEF GetSignalRoutingConfig

LEMMA PutRoutingKeeps ==
  ASSUME IInv, NEW c \in Calls, UpdateSignalRoutingConfig(c)
  PROVE  IInv'
<1>1. PICK q : q = call[c]
  OBVIOUS
<1>2. CASE FindType(c, "putRouting", "field")
  BY <1>2, FindTypeKeeps
<1>3. CASE /\ Now(c, "putRouting", "field")
           /\ Check(c, FieldPathExists(q.at, <<q.slug, q.ver>>, q.request.field),
                    Moved(q, "delete"))
  <2>1. Set(c, NoCall) \/ Set(c, Moved(q, "delete"))
    BY <1>3 DEF Check
  <2>2. Unchanging /\ call[c].pc = "field"
    BY <1>3 DEF Check, Now
  <2> QED
    BY <1>1, <2>1, <2>2, CallEnds, PlainMove, NullAssumption DEF Statements
<1>4. CASE /\ Now(c, "putRouting", "delete")
           /\ Set(c, [Moved(q, "effect") EXCEPT !.config =
                        IF \E g \in configs : g.type = q.type
                        THEN (CHOOSE g \in configs : g.type = q.type).id ELSE Null])
           /\ Unchanging
  <2>1. PICK id : id = IF \E g \in configs : g.type = q.type
                       THEN (CHOOSE g \in configs : g.type = q.type).id ELSE Null
    OBVIOUS
  <2>2. id \in Nat \union {Null}
    BY <2>1 DEF IInv, ConfigsOK, ConfigRow
  <2>3. q \in FullCall /\ Sent(q) /\ q.op = "putRouting" /\ q.pc = "delete"
    BY <1>1, <1>4, RunningFits, NullAssumption DEF Now, Statements
  <2>4. PICK m : m = Moved(q, "effect")
    OBVIOUS
  <2>5. /\ m \in FullCall /\ m.pc = "effect" /\ m.op = q.op /\ m.at = q.at
        /\ m.request = q.request /\ m.type = q.type
    BY <2>3, <2>4, MovedFields DEF Statements
  <2>6. PICK n : n = [m EXCEPT !.config = id]
    OBVIOUS
  <2>7. /\ n \in FullCall /\ n.pc = "effect" /\ n.op = "putRouting" /\ n.at = q.at
        /\ n.request = q.request /\ n.type = q.type
    BY <2>2, <2>3, <2>5, <2>6 DEF FullCall
  <2>8. Sent(n) /\ Above(n) /\ Gone(n)
    BY <2>3, <2>7 DEF Sent, Above, Gone, Ops
  <2>9. Fit(n)
    BY <2>8 DEF Fit
  <2>10. Set(c, n)
    BY <1>4, <2>1, <2>4, <2>6
  <2> QED
    BY <1>4, <2>7, <2>9, <2>10, CallMoves
<1>5. CASE Now(c, "putRouting", "effect") /\ Refuse(c)
  BY <1>5, CallEnds DEF Refuse
<1>6. CASE /\ Now(c, "putRouting", "effect")
           /\ MayInsert(q.type, q.config) /\ Whole(q.request.rules)
           /\ configs' = {g \in configs : g.type # q.type} \union
                {[id |-> nextId, type |-> q.type, field |-> q.request.field,
                  rules |-> q.request.rules]}
           /\ nextId' = nextId + 1
           /\ Done(c) /\ UNCHANGED <<types, public>>
  <2>1. Sent(q) /\ q.op = "putRouting" /\ q.pc = "effect"
    BY <1>1, <1>6, RunningFits, NullAssumption DEF Now, Statements
  <2>2. PICK field, rules : field = q.request.field /\ rules = q.request.rules
    OBVIOUS
  <2>3. /\ q.type \in Nat /\ field \in Fields /\ rules \subseteq Rule /\ IsFiniteSet(rules)
        /\ Whole(rules)
    BY <1>6, <2>1, <2>2, RequestAssumption DEF Sent
  <2>4. PICK new : new = [id |-> nextId, type |-> q.type, field |-> field, rules |-> rules]
    OBVIOUS
  <2>5. nextId \in Nat /\ nextId' = nextId + 1 /\ types' = types /\ public' = public
    BY <1>6 DEF IInv, TypesOK
  <2>6. new \in ConfigRow /\ new.id = nextId /\ new.type = q.type /\ new.rules = rules
    BY <2>3, <2>4, <2>5 DEF ConfigRow
  <2>7. configs' = {g \in configs : g.type # q.type} \union {new}
    BY <1>6, <2>2, <2>4
  <2>8. TypesOK'
    BY <2>5 DEF IInv, TypesOK, TypeRow
  <2>9. ConfigsOfTypes'
    <3>1. \E t \in types : t.id = new.type
      BY <1>6, <2>6 DEF MayInsert
    <3> QED
      BY <2>5, <2>6, <2>7, <3>1 DEF IInv, ConfigsOK, ConfigsOfTypes
  <2>10. ConfigsOK'
    <3>1. configs' \subseteq ConfigRow /\ public' \subseteq Isns \X Nat
      BY <2>5, <2>6, <2>7 DEF IInv, ConfigsOK
    <3>2. \A g \in configs' : g.id < nextId' /\ IsFiniteSet(g.rules) /\ Whole(g.rules)
      BY <2>3, <2>5, <2>6, <2>7 DEF IInv, ConfigsOK, ConfigRow
    <3>3. \A g, h \in configs' : g.id = h.id => g = h
      BY <2>5, <2>6, <2>7 DEF IInv, ConfigsOK, ConfigRow
    <3> QED
      BY <2>9, <3>1, <3>2, <3>3 DEF ConfigsOK
  <2>11. Grows
    BY <2>5, <2>6, <2>7 DEF Grows
  <2> QED
    BY <1>6, <2>8, <2>10, <2>11, CallIsDone
<1> QED
  BY <1>1, <1>2, <1>3, <1>4, <1>5, <1>6 DEF UpdateSignalRoutingConfig

\* The caches, or the loads, of the instances.
ByKind(x) ==
  /\ x = [n \in Instances |-> [k \in Kinds |-> x[n][k]]]
  /\ \A n \in Instances, k \in Kinds : Cached(k, x[n][k])

LEMMA Written ==
  ASSUME NEW x, NEW y, NEW n \in Instances, NEW k \in Kinds, NEW e,
         ByKind(x), Cached(k, e), y = [x EXCEPT ![n][k] = e]
  PROVE  ByKind(y)
<1>1. x = [m \in Instances |-> [j \in Kinds |-> x[m][j]]]
  BY DEF ByKind
<1>2. y = [m \in Instances |-> [j \in Kinds |-> IF m = n /\ j = k THEN e ELSE x[m][j]]]
  BY <1>1
<1>3. y[n][k] = e /\ \A m \in Instances, j \in Kinds : Cached(j, y[m][j])
  <2>1. \A m \in Instances, j \in Kinds :
          y[m][j] = IF m = n /\ j = k THEN e ELSE x[m][j]
    <3> SUFFICES ASSUME NEW m \in Instances, NEW j \in Kinds
                 PROVE  y[m][j] = IF m = n /\ j = k THEN e ELSE x[m][j]
      OBVIOUS
    <3>1. PICK r : r = [i \in Kinds |-> IF m = n /\ i = k THEN e ELSE x[m][i]]
      OBVIOUS
    <3>2. y[m] = r
      BY <1>2, <3>1
    <3> QED
      BY <3>1, <3>2
  <2>2. \A m \in Instances, j \in Kinds : Cached(j, x[m][j])
    BY DEF ByKind
  <2> QED
    BY <2>1, <2>2
<1> QED
  BY <1>2, <1>3 DEF ByKind

LEMMA RoutersAreCached ==
  ASSUME NEW rows \in Routers
  PROVE  Cached("router", rows)
<1>1. PICK S \in SUBSET Path : rows \in [S -> Entry]
  BY DEF Routers
<1> QED
  BY <1>1 DEF Cached, CachedConfig, Entry

LEMMA ReloadFailsKeeps ==
  ASSUME IInv, NEW c \in Calls, ReloadFails(c)
  PROVE  IInv'
<1>1. /\ faults < MaxFaults /\ faults' = faults + 1 /\ begun' = begun
      /\ Set(c, NoCall) /\ UNCHANGED <<tables, cache, loading>>
  BY DEF ReloadFails
<1>2. TypesOK' /\ ConfigsOK' /\ Grows
  BY <1>1, TablesStay DEF IInv
<1>3. CachesOK'
  BY <1>1, CachesStay DEF IInv
<1>4. CountersOK'
  BY <1>1, BoundAssumption DEF IInv, CountersOK
<1>5. NoCall \in FullCall /\ Fit(NoCall)'
  BY <1>2, NoCallIsFree, FitStays DEF IInv
<1>6. CallsOK'
  BY <1>1, <1>2, <1>5, CallBecomes
<1> QED
  BY <1>2, <1>3, <1>4, <1>6 DEF IInv

LEMMA ReloadKeeps ==
  ASSUME IInv, NEW c \in Calls, Reload(c)
  PROVE  IInv'
<1>1. PICK q : q = call[c]
  OBVIOUS
<1>2. CASE /\ Now(c, "deleteRouting", "reload")
           /\ Set(c, [Moved(q, "install") EXCEPT !.rows = RouterRows]) /\ Unchanging
  <2>1. q \in FullCall /\ Sent(q) /\ Gone(q) /\ q.op = "deleteRouting" /\ q.pc = "reload"
    BY <1>1, <1>2, RunningFits, NullAssumption DEF Now, Statements
  <2>2. PICK rows \in Routers : rows = RouterRows
    BY RouterType DEF IInv
  <2>3. PICK m : m = Moved(q, "install")
    OBVIOUS
  <2>4. m \in FullCall /\ m.pc = "install" /\ m.op = q.op /\ m.at = q.at /\ m.config = q.config
    BY <2>1, <2>3, MovedFields DEF Statements
  <2>5. PICK n : n = [m EXCEPT !.rows = rows]
    OBVIOUS
  <2>6. /\ n \in FullCall /\ n.pc = "install" /\ n.op = "deleteRouting" /\ n.at = q.at
        /\ n.config = q.config /\ n.rows = rows
    BY <2>1, <2>2, <2>4, <2>5 DEF FullCall
  <2>7. Sent(n) /\ Above(n)
    BY <2>1, <2>6 DEF Sent, Above, Ops
  <2>8. \A p \in DOMAIN rows : rows[p].id # q.config
    <3>1. q.config # Null => \A g \in configs : g.id # q.config
      BY <2>1 DEF Gone
    <3>2. \A g \in configs : g.id \in Nat
      BY DEF IInv, ConfigsOK, ConfigRow
    <3>3. \A g \in configs : g.id # q.config
      BY <3>1, <3>2, NullAssumption
    <3>4. ASSUME NEW p \in DOMAIN rows PROVE \E g \in configs : rows[p].id = g.id
      <4>1. PICK g \in configs : p = PathOf(TypeOf(g))
        BY <2>2, RouterHas DEF IInv
      <4>2. RouterRows[PathOf(TypeOf(g))] =
              [id |-> g.id, field |-> g.field, rules |-> Ordered(g.rules)]
        BY RouterHas DEF IInv
      <4>3. rows[p] = [id |-> g.id, field |-> g.field, rules |-> Ordered(g.rules)]
        BY <2>2, <4>1, <4>2
      <4> QED
        BY <4>3
    <3> QED
      BY <3>3, <3>4
  <2>9. Gone(n)
    BY <2>1, <2>2, <2>6, <2>8 DEF Gone
  <2>10. Fit(n)
    BY <2>7, <2>9 DEF Fit
  <2> QED
    BY <1>2, <2>2, <2>3, <2>5, <2>6, <2>10, CallMoves
<1>3. CASE /\ Now(c, "deleteRouting", "install")
           /\ cache' = [cache EXCEPT ![q.at]["router"] = q.rows]
           /\ Set(c, NoCall) /\ UNCHANGED <<tables, loading, begun, faults>>
  <2>1. Sent(q) /\ Gone(q) /\ q.op = "deleteRouting" /\ q.pc = "install"
    BY <1>1, <1>3, RunningFits, NullAssumption DEF Now, Statements
  <2>2. q.at \in Instances /\ q.rows \in Routers
    BY <2>1 DEF Sent, Gone
  <2>3. ByKind(cache) /\ ByKind(loading)
    BY DEF IInv, CachesOK, ByKind
  <2>4. "router" \in Kinds /\ Cached("router", q.rows)
    BY <2>2, RoutersAreCached DEF Kinds
  <2>5. PICK x : x = cache'
    OBVIOUS
  <2>6. ByKind(x)
    BY <1>3, <2>2, <2>3, <2>4, <2>5, Written
  <2>7. CachesOK'
    <3>1. loading' = loading
      BY <1>3
    <3> QED
      BY <2>3, <2>5, <2>6, <3>1 DEF CachesOK, ByKind, Cached, CachedConfig
  <2>8. TypesOK' /\ ConfigsOK' /\ Grows /\ CountersOK'
    BY <1>3, TablesStay, CountersStay DEF IInv
  <2>9. CallsOK'
    BY <1>3, <2>8, NoCallIsFree, CallBecomes
  <2> QED
    BY <2>7, <2>8, <2>9 DEF IInv
<1> QED
  BY <1>1, <1>2, <1>3 DEF Reload

LEMMA DeleteRoutingKeeps ==
  ASSUME IInv, NEW c \in Calls, DeleteSignalRoutingConfig(c)
  PROVE  IInv'
<1>1. PICK q : q = call[c]
  OBVIOUS
<1>2. CASE FindType(c, "deleteRouting", "config")
  BY <1>2, FindTypeKeeps
<1>3. CASE /\ Now(c, "deleteRouting", "config")
           /\ Check(c, \E g \in configs : PathOf(TypeOf(g)) = <<q.slug, q.ver>>,
                    Moved(q, "effect"))
  <2>1. Set(c, NoCall) \/ Set(c, Moved(q, "effect"))
    BY <1>3 DEF Check
  <2>2. Unchanging /\ call[c].pc = "config"
    BY <1>3 DEF Check, Now
  <2> QED
    BY <1>1, <2>1, <2>2, CallEnds, PlainMove, NullAssumption DEF Statements
<1>4. PICK deleted : deleted = {g \in configs : g.type = q.type}
  OBVIOUS
<1>5. CASE /\ Now(c, "deleteRouting", "effect")
           /\ configs' = configs \ deleted
           /\ Set(c, [Moved(q, "reload") EXCEPT !.config =
                        IF deleted = {} THEN Null ELSE (CHOOSE g \in deleted : TRUE).id])
           /\ UNCHANGED <<types, public, nextId, cache, loading, begun, faults>>
  <2>1. PICK id : id = IF deleted = {} THEN Null ELSE (CHOOSE g \in deleted : TRUE).id
    OBVIOUS
  <2>2. /\ types' = types /\ public' = public /\ nextId' = nextId
        /\ UNCHANGED <<cache, loading>> /\ UNCHANGED <<begun, faults>>
    BY <1>5
  <2>3. TypesOK'
    BY <2>2 DEF IInv, TypesOK
  <2>4. ConfigsOK'
    BY <1>5, <2>2 DEF IInv, ConfigsOK, ConfigsOfTypes
  <2>5. Grows
    BY <1>5, <2>2 DEF IInv, TypesOK, Grows
  <2>6. /\ id \in Nat \union {Null}
        /\ id # Null => id < nextId' /\ \A g \in configs' : g.id # id
    <3>1. CASE deleted = {}
      BY <2>1, <3>1
    <3>2. CASE deleted # {}
      <4>1. PICK d \in deleted : id = d.id
        BY <2>1, <3>2
      <4>2. d \in configs /\ d \notin configs'
        BY <1>4, <1>5
      <4>3. d.id \in Nat /\ d.id < nextId
        BY <4>2 DEF IInv, ConfigsOK, ConfigRow
      <4>4. \A g \in configs' : g.id # d.id
        BY <1>5, <4>2 DEF IInv, ConfigsOK
      <4> QED
        BY <2>2, <4>1, <4>3, <4>4
    <3> QED
      BY <3>1, <3>2
  <2>7. q \in FullCall /\ Sent(q) /\ q.op = "deleteRouting" /\ q.pc = "effect"
    BY <1>1, <1>5, RunningFits, NullAssumption DEF Now, Statements
  <2>8. PICK m : m = Moved(q, "reload")
    OBVIOUS
  <2>9. m \in FullCall /\ m.pc = "reload" /\ m.op = q.op /\ m.at = q.at
    BY <2>7, <2>8, MovedFields DEF Statements
  <2>10. PICK n : n = [m EXCEPT !.config = id]
    OBVIOUS
  <2>11. /\ n \in FullCall /\ n.pc = "reload" /\ n.op = "deleteRouting" /\ n.at = q.at
         /\ n.config = id
    BY <2>6, <2>7, <2>9, <2>10 DEF FullCall
  <2>12. Sent(n)' /\ Above(n)'
    BY <2>7, <2>11 DEF Sent, Above, Ops
  <2>13. Gone(n)'
    BY <2>6, <2>11 DEF Gone
  <2>14. Fit(n)'
    BY <2>12, <2>13 DEF Fit
  <2>15. Set(c, n)
    BY <1>5, <2>1, <2>8, <2>10
  <2>16. CallsOK'
    BY <2>3, <2>4, <2>5, <2>11, <2>14, <2>15, CallBecomes
  <2>17. CountersOK' /\ CachesOK'
    BY <2>2, CountersStay, CachesStay DEF IInv
  <2> QED
    BY <2>3, <2>4, <2>16, <2>17 DEF IInv
<1>6. CASE Reload(c) \/ ReloadFails(c)
  BY <1>6, ReloadKeeps, ReloadFailsKeeps
<1> QED
  BY <1>1, <1>2, <1>3, <1>4, <1>5, <1>6 DEF DeleteSignalRoutingConfig

-----------------------------------------------------------------------------
(* Loads, crashes, and what changes around the calls *)

LEMMA RowsAreCached ==
  ASSUME IInv, NEW k \in Kinds
  PROVE  Cached(k, Rows(k))
<1>1. CASE k = "schema"
  <2>1. \A t \in types : <<PathOf(t), t.schema>> \in Path \X Schemas
    BY DEF IInv, TypesOK, TypeRow, PathOf, Path
  <2>2. SchemaRows = Null \/ SchemaRows \subseteq Path \X Schemas
    BY <2>1 DEF SchemaRows
  <2> QED
    BY <1>1, <2>2 DEF Cached, Rows
<1>2. CASE k = "public"
  <2>1. ASSUME NEW p \in public
        PROVE  <<p[1], PathOf(CHOOSE t \in types : t.id = p[2])>> \in Isns \X Path
    <3>1. p[1] \in Isns /\ \E t \in types : t.id = p[2]
      BY DEF IInv, ConfigsOK, ConfigsOfTypes
    <3>2. PICK t : t = CHOOSE u \in types : u.id = p[2]
      OBVIOUS
    <3>3. t \in types
      BY <3>1, <3>2
    <3>4. PathOf(t) \in Path
      BY <3>3 DEF IInv, TypesOK, TypeRow, PathOf, Path
    <3> QED
      BY <3>1, <3>2, <3>4
  <2>2. PublicRows \subseteq Isns \X Path
    BY <2>1 DEF PublicRows
  <2> QED
    BY <1>2, <2>2 DEF Cached, Rows
<1>3. CASE k = "router"
  <2>1. Rows(k) = RouterRows
    BY <1>3 DEF Rows
  <2> QED
    BY <1>3, <2>1, RouterType, RoutersAreCached DEF IInv
<1> QED
  BY <1>1, <1>2, <1>3 DEF Kinds

LEMMA ByKindBoth == CachesOK <=> ByKind(cache) /\ ByKind(loading)
BY DEF CachesOK, ByKind

\* A step of the loads: the tables and the calls stay.
LEMMA LoadMoves ==
  ASSUME IInv, UNCHANGED <<tables, call>>, NEW x, NEW y, cache' = x, loading' = y,
         ByKind(x), ByKind(y), CountersOK'
  PROVE  IInv'
<1>1. UNCHANGED tables /\ call' = call
  OBVIOUS
<1>2. TypesOK' /\ ConfigsOK' /\ Grows
  BY <1>1, TablesStay DEF IInv
<1>3. CallsOK'
  BY <1>1, <1>2, CallsStay
<1>4. CachesOK'
  BY DEF CachesOK, ByKind, Cached, CachedConfig
<1> QED
  BY <1>2, <1>3, <1>4 DEF IInv

LEMMA NothingIsCached == ASSUME NEW k PROVE Cached(k, Null)
BY DEF Cached

LEMMA ReadKeeps ==
  ASSUME IInv, NEW n \in Instances, NEW k \in Kinds, Read(n, k)
  PROVE  IInv'
<1>1. PICK x, y : x = cache /\ y = loading'
  OBVIOUS
<1>2. /\ y = [loading EXCEPT ![n][k] = Rows(k)] /\ cache' = x
      /\ UNCHANGED <<tables, call>> /\ UNCHANGED <<begun, faults>>
  BY <1>1 DEF Read
<1>3. ByKind(x) /\ ByKind(loading)
  BY <1>1, ByKindBoth DEF IInv
<1>4. ByKind(y)
  BY <1>2, <1>3, RowsAreCached, Written
<1>5. CountersOK'
  BY <1>2, CountersStay DEF IInv
<1> QED
  BY <1>1, <1>2, <1>3, <1>4, <1>5, LoadMoves

LEMMA InstallKeeps ==
  ASSUME IInv, NEW n \in Instances, NEW k \in Kinds, Install(n, k)
  PROVE  IInv'
<1>1. PICK x, y, e : x = cache' /\ y = loading' /\ e = loading[n][k]
  OBVIOUS
<1>2. /\ x = [cache EXCEPT ![n][k] = e] /\ y = [loading EXCEPT ![n][k] = Null]
      /\ UNCHANGED <<tables, call>> /\ UNCHANGED <<begun, faults>>
  BY <1>1 DEF Install
<1>3. ByKind(cache) /\ ByKind(loading)
  BY ByKindBoth DEF IInv
<1>4. Cached(k, e) /\ Cached(k, Null)
  BY <1>1, <1>3, NothingIsCached DEF ByKind
<1>5. ByKind(x) /\ ByKind(y)
  BY <1>2, <1>3, <1>4, Written
<1>6. CountersOK'
  BY <1>2, CountersStay DEF IInv
<1> QED
  BY <1>1, <1>2, <1>5, <1>6, LoadMoves

LEMMA FailLoadKeeps ==
  ASSUME IInv, NEW n \in Instances, NEW k \in Kinds, FailLoad(n, k)
  PROVE  IInv'
<1>1. PICK x, y : x = cache /\ y = loading'
  OBVIOUS
<1>2. /\ y = [loading EXCEPT ![n][k] = Null] /\ cache' = x
      /\ faults < MaxFaults /\ faults' = faults + 1 /\ begun' = begun
      /\ UNCHANGED <<tables, call>>
  BY <1>1 DEF FailLoad
<1>3. ByKind(x) /\ ByKind(loading)
  BY <1>1, ByKindBoth DEF IInv
<1>4. ByKind(y)
  BY <1>2, <1>3, NothingIsCached, Written
<1>5. CountersOK'
  BY <1>2, BoundAssumption DEF IInv, CountersOK
<1> QED
  BY <1>1, <1>2, <1>3, <1>4, <1>5, LoadMoves

LEMMA Emptied ==
  ASSUME NEW x, NEW y, NEW n \in Instances, ByKind(x), y = [x EXCEPT ![n] = NotLoaded]
  PROVE  ByKind(y)
<1>1. x = [m \in Instances |-> [j \in Kinds |-> x[m][j]]]
  BY DEF ByKind
<1>2. y = [m \in Instances |-> [j \in Kinds |-> IF m = n THEN Null ELSE x[m][j]]]
  BY <1>1 DEF NotLoaded
<1>3. ASSUME NEW m \in Instances, NEW j \in Kinds PROVE Cached(j, y[m][j])
  <2>1. PICK r : r = [i \in Kinds |-> IF m = n THEN Null ELSE x[m][i]]
    OBVIOUS
  <2>2. y[m] = r
    BY <1>2, <2>1
  <2>3. y[m][j] = IF m = n THEN Null ELSE x[m][j]
    BY <2>1, <2>2
  <2> QED
    BY <2>3, NothingIsCached DEF ByKind
<1>4. y = [m \in Instances |-> [j \in Kinds |-> y[m][j]]]
  BY <1>2
<1> QED
  BY <1>3, <1>4 DEF ByKind

LEMMA CrashKeeps ==
  ASSUME IInv, NEW n \in Instances, Crash(n)
  PROVE  IInv'
<1>1. PICK x, y : x = cache' /\ y = loading'
  OBVIOUS
<1>2. /\ x = [cache EXCEPT ![n] = NotLoaded] /\ y = [loading EXCEPT ![n] = NotLoaded]
      /\ call' = [c \in Calls |-> IF call[c].at = n THEN NoCall ELSE call[c]]
      /\ faults < MaxFaults /\ faults' = faults + 1 /\ begun' = begun /\ UNCHANGED tables
  BY <1>1 DEF Crash
<1>3. TypesOK' /\ ConfigsOK' /\ Grows
  BY <1>2, TablesStay DEF IInv
<1>4. ByKind(x) /\ ByKind(y)
  BY <1>2, ByKindBoth, Emptied DEF IInv
<1>5. CachesOK'
  BY <1>1, <1>4 DEF CachesOK, ByKind, Cached, CachedConfig
<1>6. CountersOK'
  BY <1>2, BoundAssumption DEF IInv, CountersOK
<1>7. call \in [Calls -> FullCall] /\ \A c \in Calls : Fit(call[c])
  BY DEF IInv, CallsOK
<1>8. call' \in [Calls -> FullCall]
  BY <1>2, <1>7, NoCallIsFree
<1>9. ASSUME NEW c \in Calls PROVE Fit(call[c])'
  <2>1. PICK r \in FullCall : r = call'[c]
    BY <1>8
  <2>2. r = NoCall \/ r = call[c]
    BY <1>2, <2>1
  <2>3. Fit(r)
    BY <1>7, <2>2, NoCallIsFree
  <2>4. Fit(r)'
    BY <1>3, <2>3, FitStays DEF IInv
  <2> QED
    BY <2>1, <2>4 DEF Fit, Sent, Above, Gone
<1> QED
  BY <1>3, <1>5, <1>6, <1>8, <1>9 DEF IInv, CallsOK

LEMMA ChangePublicKeeps ==
  ASSUME IInv, ChangePublic
  PROVE  IInv'
<1>1. /\ begun < MaxCalls /\ begun' = begun + 1 /\ faults' = faults
      /\ types' = types /\ configs' = configs /\ nextId' = nextId
      /\ UNCHANGED <<cache, loading>> /\ call' = call
  BY DEF ChangePublic
<1>2. TypesOK' /\ Grows
  BY <1>1 DEF IInv, TypesOK, Grows
<1>3. /\ public' \subseteq Isns \X Nat
      /\ \A p \in public' : \E t \in types : t.id = p[2]
  <2>1. /\ types \subseteq TypeRow /\ public \subseteq Isns \X Nat
        /\ \A p \in public : \E t \in types : t.id = p[2]
    BY DEF IInv, TypesOK, ConfigsOK, ConfigsOfTypes
  <2>2. \A t \in types : t.id \in Nat
    BY <2>1 DEF TypeRow
  <2>3. CASE \E i \in Isns, t \in types : public' = public \union {<<i, t.id>>}
    BY <2>1, <2>2, <2>3
  <2>4. CASE public' \subseteq public
    BY <2>1, <2>4
  <2> QED
    BY <2>3, <2>4 DEF ChangePublic
<1>4. ConfigsOfTypes'
  BY <1>1, <1>3 DEF IInv, ConfigsOK, ConfigsOfTypes
<1>5. ConfigsOK'
  BY <1>1, <1>3, <1>4 DEF IInv, ConfigsOK
<1>6. CachesOK'
  BY <1>1, CachesStay DEF IInv
<1>7. CountersOK'
  BY <1>1, BoundAssumption DEF IInv, CountersOK
<1>8. CallsOK'
  BY <1>1, <1>2, <1>5, CallsStay
<1> QED
  BY <1>2, <1>5, <1>6, <1>7, <1>8 DEF IInv

LEMMA NothingHappens ==
  ASSUME IInv, UNCHANGED vars
  PROVE  IInv'
<1>1. PICK x, y : x = cache /\ y = loading
  OBVIOUS
<1>2. /\ UNCHANGED <<tables, call>> /\ cache' = x /\ loading' = y
      /\ UNCHANGED <<begun, faults>>
  BY <1>1 DEF vars
<1>3. ByKind(x) /\ ByKind(y) /\ CountersOK'
  BY <1>1, <1>2, ByKindBoth, CountersStay DEF IInv
<1> QED
  BY <1>2, <1>3, LoadMoves

LEMMA InvariantStep == IInv /\ [Next]_vars => IInv'
<1> SUFFICES ASSUME IInv, [Next]_vars PROVE IInv'
  OBVIOUS
<1>1. ASSUME NEW c \in Calls, Begin(c) PROVE IInv'
  BY <1>1, BeginKeeps
<1>2. ASSUME NEW c \in Calls, Serve(c) PROVE IInv'
  <2>1. CASE CreateSignalType(c) \/ RegisterNewSignalTypeSchema(c) \/ UpdateSignalType(c)
             \/ DeleteSignalType(c)
    BY <2>1, CreateKeeps, NewSchemaKeeps, UpdateTypeKeeps, DeleteTypeKeeps
  <2>2. CASE GetSignalType(c) \/ GetSignalTypes(c)
    BY <2>2, CallEnds DEF GetSignalType, GetSignalTypes, Answer
  <2>3. CASE GetSignalRoutingConfig(c) \/ UpdateSignalRoutingConfig(c)
             \/ DeleteSignalRoutingConfig(c)
    BY <2>3, GetRoutingKeeps, PutRoutingKeeps, DeleteRoutingKeeps
  <2> QED
    BY <1>2, <2>1, <2>2, <2>3 DEF Serve
<1>3. ASSUME NEW c \in Calls, Fail(c) PROVE IInv'
  BY <1>3, CallEnds DEF Fail, Refuse
<1>4. ASSUME NEW n \in Instances, NEW k \in Kinds, Read(n, k) \/ Install(n, k) \/ FailLoad(n, k)
      PROVE  IInv'
  BY <1>4, ReadKeeps, InstallKeeps, FailLoadKeeps
<1>5. ASSUME NEW n \in Instances, Crash(n) PROVE IInv'
  BY <1>5, CrashKeeps
<1>6. CASE ChangePublic
  BY <1>6, ChangePublicKeeps
<1>7. CASE Quiet \/ UNCHANGED vars
  BY <1>7, NothingHappens DEF Quiet
<1> QED
  BY <1>1, <1>2, <1>3, <1>4, <1>5, <1>6, <1>7 DEF Next

LEMMA InvariantHolds == Spec => []IInv
<1>1. Init => IInv
  BY InvariantInit
<1>2. IInv /\ [Next]_vars => IInv'
  BY InvariantStep
<1> QED
  BY <1>1, <1>2, PTL DEF Spec

-----------------------------------------------------------------------------
(* The theorems *)

\* The tables, the caches and what loads and calls have read are of their types.
THEOREM RegistryTypes == Spec => []TypeOK
<1>1. Spec => []IInv
  BY InvariantHolds
<1>2. IInv => TypeOK
  BY InvSplit
<1> QED
  BY <1>1, <1>2, PTL

\* Every routing configuration and every place in an ISN is of a registered type,
\* and a type has one configuration, however many calls overlap.
THEOREM ConfigsHaveTypes == Spec => []ConfigsOfTypes
<1>1. Spec => []IInv
  BY InvariantHolds
<1>2. IInv => ConfigsOfTypes
  BY InvSplit
<1> QED
  BY <1>1, <1>2, PTL

\* What a load makes of the tables routes every content as the rules of its type
\* declare: to the ISN of the first rule in the sequence that matches it, or nowhere.
THEOREM FirstMatchRoutes == Spec => []RoutedAsDeclared
<1>1. Spec => []IInv
  BY InvariantHolds
<1>2. IInv => RoutedAsDeclared
  BY TablesRoute DEF IInv
<1> QED
  BY <1>1, <1>2, PTL

LEMMA StepIsGreatest ==
  ASSUME IInv, NEW c \in Calls, RegisterNewSignalTypeSchema(c),
         NEW t \in types, t.id < call[c].upTo, t.slug = call[c].slug,
         \A i \in 1..3 : t.ver[i] < 10, NEW u \in types' \ types
  PROVE  Before(t.ver, u.ver)
<1>1. PICK q : q = call[c]
  OBVIOUS
<1>2. CASE Now(c, "newSchema", "effect") /\ Insert(c, q.ver)
  <2>1. q.op = "newSchema" /\ q.pc = "effect" /\ Above(q)
    BY <1>1, <1>2, RunningFits, NullAssumption DEF Now, Statements
  <2>2. Before(t.ver, q.ver)
    BY <1>1, <2>1 DEF Above
  <2>3. u.ver = q.ver
    <3>1. types' = types \/ types' = types \union {[id |-> nextId, slug |-> q.slug,
                              ver |-> q.ver, schema |-> q.schema]}
      BY <1>1, <1>2 DEF Insert, Refuse, Unchanging, tables
    <3> QED
      BY <3>1
  <2> QED
    BY <2>2, <2>3
<1>3. CASE Unchanging
  BY <1>3 DEF Unchanging, tables
<1> QED
  BY <1>1, <1>2, <1>3 DEF RegisterNewSignalTypeSchema, ReadLatest, Check

\* A new version of a signal type is above every version that was there when it was
\* numbered and whose numbers have one digit, for as long as the registration takes.
THEOREM NewVersionsAreGreatest == Spec => NewVersionIsGreatest
<1> DEFINE Step == \A c \in Calls : RegisterNewSignalTypeSchema(c) =>
       \A t \in types : /\ t \in types' /\ t.id < call[c].upTo /\ t.slug = call[c].slug
                        /\ \A i \in 1..3 : t.ver[i] < 10
                        => \A u \in types' \ types : Before(t.ver, u.ver)
<1>1. Spec => []IInv
  BY InvariantHolds
<1>2. IInv /\ [Next]_vars => [Step]_vars
  BY StepIsGreatest
<1> QED
  BY <1>1, <1>2, PTL DEF Spec, NewVersionIsGreatest

LEMMA StepForgets ==
  ASSUME IInv, NEW c \in Calls, Reload(c), call'[c] = NoCall,
         NEW p \in DOMAIN cache'[call[c].at]["router"]
  PROVE  cache'[call[c].at]["router"][p].id # call[c].config
<1>1. PICK q : q = call[c]
  OBVIOUS
<1>2. q.op = "deleteRouting" /\ q.pc \in {"reload", "install"} /\ q.pc # Null
  BY <1>1, NullAssumption DEF Reload, Now, Statements
<1>3. q \in FullCall /\ Sent(q) /\ Gone(q)
  BY <1>1, <1>2, RunningFits
<1>4. call \in [Calls -> FullCall]
  BY DEF IInv, CallsOK
<1>5. CASE Set(c, [Moved(q, "install") EXCEPT !.rows = RouterRows])
  <2>1. PICK m, n : m = Moved(q, "install") /\ n = [m EXCEPT !.rows = RouterRows]
    OBVIOUS
  <2>2. m \in FullCall /\ m.pc = "install"
    BY <1>3, <2>1, MovedFields DEF Statements
  <2>3. n.pc = "install"
    BY <2>1, <2>2 DEF FullCall
  <2>4. call'[c] = n
    BY <1>4, <1>5, <2>1 DEF Set
  <2> QED
    BY <2>3, <2>4, NoCallIsFree, NullAssumption DEF Statements
<1>6. CASE Now(c, "deleteRouting", "install") /\ cache' = [cache EXCEPT ![q.at]["router"] = q.rows]
  <2>1. q.at \in Instances /\ \A r \in DOMAIN q.rows : q.rows[r].id # q.config
    BY <1>1, <1>3, <1>6 DEF Sent, Gone, Now
  <2>2. ByKind(cache) /\ Cached("router", q.rows) /\ "router" \in Kinds
    BY <1>1, <1>2, <1>3, <1>6, ByKindBoth, RoutersAreCached DEF IInv, Gone, Now, Kinds
  <2>3. cache'[q.at]["router"] = q.rows
    <3>1. PICK n \in Instances : n = q.at
      BY <2>1
    <3>2. PICK k \in Kinds : k = "router"
      BY <2>2
    <3>3. PICK x, y, e : x = cache /\ y = cache' /\ e = q.rows
      OBVIOUS
    <3>4. y = [x EXCEPT ![n][k] = e]
      BY <1>6, <3>1, <3>2, <3>3
    <3>5. x = [m \in Instances |-> [j \in Kinds |-> x[m][j]]]
      BY <2>2, <3>3 DEF ByKind
    <3>6. y[n][k] = e
      BY <3>4, <3>5
    <3> QED
      BY <3>1, <3>2, <3>3, <3>6
  <2> QED
    BY <1>1, <2>1, <2>3
<1> QED
  BY <1>1, <1>5, <1>6 DEF Reload

\* A statement of another call leaves the call alone.
Moving(d) == \E q : call' = [call EXCEPT ![d] = q]
LEMMA ServeMoves == ASSUME NEW d \in Calls, Serve(d) PROVE Moving(d)
<1>1. CASE CreateSignalType(d) \/ RegisterNewSignalTypeSchema(d)
  BY <1>1 DEF Moving, CreateSignalType, RegisterNewSignalTypeSchema, ReadLatest, Insert,
     Check, Set, Refuse, Done
<1>2. CASE UpdateSignalType(d) \/ DeleteSignalType(d) \/ GetSignalType(d) \/ GetSignalTypes(d)
  BY <1>2 DEF Moving, UpdateSignalType, DeleteSignalType, GetSignalType, GetSignalTypes,
     FindType, Check, Set, Answer, Done
<1>3. CASE GetSignalRoutingConfig(d) \/ UpdateSignalRoutingConfig(d)
  BY <1>3 DEF Moving, GetSignalRoutingConfig, UpdateSignalRoutingConfig,
     FindType, Check, Set, Answer, Done, Refuse
<1>4. CASE DeleteSignalRoutingConfig(d)
  BY <1>4 DEF Moving, DeleteSignalRoutingConfig, FindType, Check, Set, Reload, ReloadFails
<1> QED
  BY <1>1, <1>2, <1>3, <1>4 DEF Serve

\* Only its own reload ends a call that is at it, if nothing fails.
LEMMA EndsByReload ==
  ASSUME IInv, [Next]_vars, NEW c \in Calls, call[c].op = "deleteRouting",
         call[c].pc \in {"reload", "install"}, call'[c] = NoCall, faults' = faults
  PROVE  Reload(c)
<1>1. Running(c) /\ call'[c] # call[c] /\ faults \in Nat
  BY NoCallIsFree, NullAssumption DEF Running, Statements, IInv, CountersOK
<1>2. ASSUME NEW d \in Calls, Moving(d) PROVE d = c
  BY <1>1, <1>2 DEF Moving
<1>3. ASSUME NEW d \in Calls, Begin(d) PROVE FALSE
  <2>1. Moving(d)
    BY <1>3 DEF Begin, Moving, Set
  <2> QED
    BY <1>1, <1>2, <1>3, <2>1 DEF Begin
<1>4. ASSUME NEW d \in Calls, Serve(d) PROVE Reload(c)
  <2>1. d = c
    BY <1>2, <1>4, ServeMoves
  <2>2. DeleteSignalRoutingConfig(c)
    BY <1>4, <2>1 DEF Serve, CreateSignalType, RegisterNewSignalTypeSchema, ReadLatest,
       UpdateSignalType, DeleteSignalType, GetSignalType, GetSignalTypes, FindType,
       GetSignalRoutingConfig, UpdateSignalRoutingConfig, Now
  <2>3. ~ReloadFails(c)
    BY <1>1 DEF ReloadFails
  <2> QED
    BY <2>2, <2>3 DEF DeleteSignalRoutingConfig, FindType, Now
<1>5. ASSUME NEW d \in Calls, Fail(d) PROVE FALSE
  <2>1. Moving(d)
    BY <1>5 DEF Fail, Refuse, Set, Moving
  <2> QED
    BY <1>2, <1>5, <2>1 DEF Fail
<1>6. ASSUME NEW n \in Instances, Crash(n) PROVE FALSE
  BY <1>1, <1>6 DEF Crash
<1>7. ASSUME NEW n \in Instances, NEW k \in Kinds, Read(n, k) \/ Install(n, k) \/ FailLoad(n, k)
      PROVE  FALSE
  BY <1>1, <1>7 DEF Read, Install, FailLoad
<1>8. ~ChangePublic /\ ~Quiet /\ ~UNCHANGED vars
  BY <1>1 DEF ChangePublic, Quiet, vars
<1> QED
  BY <1>3, <1>4, <1>5, <1>6, <1>7, <1>8 DEF Next

\* No call that deletes a routing configuration is answered while the instance
\* that serves it has it cached, unless its reload failed: what it installs was
\* read after the deletion, and ids are not used again.
THEOREM DeletedIsForgotten == Spec => DeletedNotCached
<1> DEFINE Step == \A c \in Calls :
       /\ call[c].op = "deleteRouting" /\ call[c].pc \in {"reload", "install"}
       /\ call'[c] = NoCall /\ faults' = faults
       => LET router == cache'[call[c].at]["router"] IN
          \A p \in DOMAIN router : router[p].id # call[c].config
<1>1. Spec => []IInv
  BY InvariantHolds
<1>2. IInv /\ [Next]_vars => [Step]_vars
  BY EndsByReload, StepForgets
<1> QED
  BY <1>1, <1>2, PTL DEF Spec, DeletedNotCached
=============================================================================
