------------------------------ MODULE Registry ------------------------------
(***************************************************************************)
(* The signal types of the site with their versions and schemas, the       *)
(* routing configurations that send a signal to an ISN by its content, and *)
(* the three caches each instance of the server keeps of them: compiled    *)
(* schemas, routing rules, and what unauthenticated users may search.      *)
(*                                                                         *)
(* Handlers run their queries one by one, on one of the instances.  A      *)
(* cache is loaded at the start and again by its poller: one query, then   *)
(* the map is replaced under the lock.                                     *)
(***************************************************************************)
EXTENDS Naturals, FiniteSets, Sequences

CONSTANTS
  Slugs,       \* signal types, by slug
  Schemas,     \* schema files, by URL
  Skip,        \* SkipValidationURL: the schema is not looked at
  Broken,      \* the schemas that do not compile
  Fields,      \* paths into the content of a signal
  FieldsOf,    \* the fields each schema has
  Strings,     \* values a field may have, and patterns
  Lower,       \* each string in lower case
  Globs,       \* the pairs of a pattern and a string it matches
  Requests,    \* routing configurations that are sent
  Isns,        \* ISNs, by slug
  Histories,   \* the versions there may be at the start
  Instances,   \* server processes
  Calls,       \* calls served at a time
  MaxCalls,    \* bound on calls
  MaxFaults,   \* bound on failed loads, failed reloads and crashes
  MaxNumber,   \* bound on the numbers of a version
  Null

Operators == {"matches", "equals", "does_not_match", "does_not_equal"}
Rule == [seq: Nat, pattern: Strings, operator: Operators, nocase: BOOLEAN, isn: Isns]

ASSUME SchemaAssumption == Skip \in Schemas /\ Broken \subseteq Schemas \ {Skip}
                           /\ FieldsOf \in [Schemas -> SUBSET Fields]
ASSUME MatchAssumption == Lower \in [Strings -> Strings] /\ Globs \subseteq Strings \X Strings
ASSUME RequestAssumption == \A q \in Requests :
  q.field \in Fields /\ q.rules \subseteq Rule /\ IsFiniteSet(q.rules)
ASSUME BoundAssumption == MaxCalls \in Nat /\ MaxFaults \in Nat /\ MaxNumber \in 0..99

Version == (0..MaxNumber) \X (0..MaxNumber) \X (0..MaxNumber)
Path == Slugs \X Version
Bumps == {"major", "minor", "patch"}
Kinds == {"schema", "public", "router"}

\* The rows of signal_types; its unique indexes.
TypeRow == [id: Nat, slug: Slugs, ver: Version, schema: Schemas]
ASSUME HistoryAssumption == \A h \in Histories :
  /\ h \subseteq TypeRow /\ IsFiniteSet(h) /\ \A t \in h : t.id < Cardinality(h)
  /\ \A t, u \in h : t # u =>
       t.id # u.id /\ (t.slug = u.slug => t.ver # u.ver /\ t.schema # u.schema)

VARIABLES
  types,    \* table signal_types
  configs,  \* tables signal_routing_configs and routing_rules
  public,   \* pairs of an ISN that is public and in use, and the id of a type in use on it
  nextId,   \* ids are given in the order of creation
  cache,    \* the caches of each instance, Null until they are loaded
  loading,  \* what a running load has read, Null if none is
  call,     \* the calls
  begun,    \* calls begun so far
  faults    \* failed loads, failed reloads and crashes so far

tables == <<types, configs, public, nextId>>
vars == <<tables, cache, loading, call, begun, faults>>

-----------------------------------------------------------------------------
(* Versions *)

Before(v, w) == \/ v[1] < w[1]
                \/ v[1] = w[1] /\ v[2] < w[2]
                \/ v[1] = w[1] /\ v[2] = w[2] /\ v[3] < w[3]

\* Postgres compares sem_ver as text: 10 comes after 1 and before 2.
TextRank(n) == IF n < 10 THEN 11 * n ELSE 11 * (n \div 10) + 1 + (n % 10)
TextBefore(v, w) == Before([i \in 1..3 |-> TextRank(v[i])], [i \in 1..3 |-> TextRank(w[i])])

IncrementSemVer(bump, v) ==
  CASE bump = "major" -> <<v[1] + 1, 0, 0>>
    [] bump = "minor" -> <<v[1], v[2] + 1, 0>>
    [] bump = "patch" -> <<v[1], v[2], v[3] + 1>>

VersionsOf(slug) == {t.ver : t \in {u \in types : u.slug = slug}}

\* The greatest as text; 0.0.0 if there is none.
FirstSlugVersion(slug) ==
  IF VersionsOf(slug) = {} THEN <<0, 0, 0>>
  ELSE CHOOSE v \in VersionsOf(slug) :
         \A w \in VersionsOf(slug) : ~TextBefore(w, v)
LatestSlugVersion(slug) ==
  IF VersionsOf(slug) = {} THEN <<0, 0, 0>>
  ELSE CHOOSE v \in VersionsOf(slug) :
         \A w \in VersionsOf(slug) : ~TextBefore(v, w)

-----------------------------------------------------------------------------
(* Routing a signal by its content *)

EqualTo(r, s) == IF r.nocase THEN Lower[s] = Lower[r.pattern] ELSE s = r.pattern
Like(r, s) == IF r.nocase THEN <<Lower[r.pattern], Lower[s]>> \in Globs
              ELSE <<r.pattern, s>> \in Globs

MatchesString(r, s) ==
  \/ r.operator = "equals" /\ EqualTo(r, s)
  \/ r.operator = "matches" /\ Like(r, s)
  \/ r.operator = "does_not_match" /\ ~Like(r, s)
  \/ r.operator = "does_not_equal" /\ ~EqualTo(r, s)

\* A value is the set of the elements of an array, or of the one string.
MatchesAll(r, value) == \A s \in value : MatchesString(r, s)
MatchesResult(r, value) == \E s \in value : MatchesString(r, s)

\* The content of a signal has a value, or none, in each field.
Contents == [Fields -> (SUBSET Strings) \union {Null}]
Resolve(router, path, content) ==
  IF path \notin DOMAIN router THEN Null
  ELSE LET config == router[path]
           value == content[config.field]
           matching == {i \in DOMAIN config.rules :
                          value # Null /\ MatchesResult(config.rules[i], value)}
       IN IF matching = {} THEN Null
          ELSE config.rules[CHOOSE i \in matching : \A j \in matching : i <= j].isn

-----------------------------------------------------------------------------
(* What a load makes of the tables *)

PathOf(t) == <<t.slug, t.ver>>
TypeOf(config) == CHOOSE t \in types : t.id = config.type

Compiles(schema) == schema \notin Broken

\* One schema that does not compile fails the load.
SchemaRows == IF \A t \in types : Compiles(t.schema)
              THEN {<<PathOf(t), t.schema>> : t \in types} ELSE Null
PublicTypes == {PathOf(CHOOSE t \in types : t.id = p[2]) : p \in public}
PublicRows == {<<p[1], PathOf(CHOOSE t \in types : t.id = p[2])>> : p \in public}

\* By signal type and version, rules in their sequence; without rules, none.
Ordered(rules) ==
  CHOOSE s \in [1..Cardinality(rules) -> rules] :
    \A i, j \in DOMAIN s : i < j => s[i].seq < s[j].seq
RouterRows ==
  LET routed == {g \in configs : g.rules # {}} IN
  [path \in {PathOf(TypeOf(g)) : g \in routed} |->
    LET config == CHOOSE g \in routed : PathOf(TypeOf(g)) = path IN
    [id |-> config.id, field |-> config.field, rules |-> Ordered(config.rules)]]

Rows(kind) == CASE kind = "schema" -> SchemaRows
                [] kind = "public" -> PublicRows
                [] kind = "router" -> RouterRows

-----------------------------------------------------------------------------
(* Calls *)

Ops == {"create", "newSchema", "updateType", "deleteType", "getType", "listTypes",
        "getRouting", "putRouting", "deleteRouting"}
Statements == {"latest", "exists", "type", "signals", "field", "config", "delete",
               "effect", "reload", "install"}
ASSUME NullAssumption == Null \notin Statements \union Isns \union Nat

Call == [op: Ops \union {Null}, pc: Statements \union {Null},
         at: Instances \union {Null},
         slug: Slugs \union {Null}, ver: Version \union {Null},
         bump: Bumps \union {Null}, schema: Schemas \union {Null},
         request: Requests \union {Null},
         type: Nat \union {Null}, config: Nat \union {Null},
         upTo: Nat,     \* the ids given when the latest version was read
         rows: {Null}]  \* or what a reload has read

NoCall == [op |-> Null, pc |-> Null, at |-> Null, slug |-> Null, ver |-> Null,
           bump |-> Null, schema |-> Null, request |-> Null,
           type |-> Null, config |-> Null, upTo |-> 0, rows |-> Null]

Running(c) == call[c].pc # Null
Now(c, op, s) == call[c].op = op /\ call[c].pc = s
Set(c, q) == call' = [call EXCEPT ![c] = q]
Moved(q, s) == [q EXCEPT !.pc = s]
Unchanging == UNCHANGED <<tables, cache, loading, begun, faults>>
Done(c) == Set(c, NoCall) /\ UNCHANGED <<cache, loading, begun, faults>>
Refuse(c) == Set(c, NoCall) /\ Unchanging
Answer(c) == Set(c, NoCall) /\ Unchanging
Check(c, cond, q) == Set(c, IF cond THEN q ELSE NoCall) /\ Unchanging

\* An instance serves and polls once all its caches are loaded.
Booted(n) == \A k \in Kinds : cache[n][k] # Null

FirstOf(op) == CASE op \in {"create", "newSchema"} -> "latest"
                 [] op \in {"updateType", "deleteType", "putRouting", "deleteRouting"} -> "type"
                 [] op = "getRouting" -> "config"
                 [] OTHER -> "effect"

Begin(c) ==
  /\ ~Running(c) /\ begun < MaxCalls /\ begun' = begun + 1
  /\ \E n \in Instances, op \in Ops :
       LET q == [NoCall EXCEPT !.op = op, !.pc = FirstOf(op), !.at = n] IN
       /\ Booted(n)
       /\ \/ /\ op \in {"create", "newSchema"}
             /\ \E s \in Slugs, b \in Bumps, u \in Schemas :
                  Set(c, [q EXCEPT !.slug = s, !.bump = b, !.schema = u])
          \/ op = "listTypes" /\ Set(c, q)
          \/ /\ op \notin {"create", "newSchema", "listTypes", "putRouting"}
             /\ \E t \in types : Set(c, [q EXCEPT !.slug = t.slug, !.ver = t.ver])
          \/ /\ op = "putRouting"
             /\ \E t \in types, r \in Requests :
                  Set(c, [q EXCEPT !.slug = t.slug, !.ver = t.ver, !.request = r])
  /\ UNCHANGED <<tables, cache, loading, faults>>

-----------------------------------------------------------------------------
(* Signal types *)

\* The schema was fetched and compiled; the unique indexes have the last word.
Insert(c, ver) ==
  LET q == call[c] IN
  IF ver \in VersionsOf(q.slug) \/ \E t \in types : t.slug = q.slug /\ t.schema = q.schema
  THEN Refuse(c)
  ELSE /\ types' = types \union {[id |-> nextId, slug |-> q.slug, ver |-> ver,
                                  schema |-> q.schema]}
       /\ nextId' = nextId + 1
       /\ Done(c) /\ UNCHANGED <<configs, public>>

\* ValidateAndCompileSchema, before a schema is stored.
CompilesUnchecked(schema) == TRUE
ValidSchema(schema) == Compiles(schema)

\* The version a registration starts from, in ver.
ReadLatest(c, op, then) ==
  LET q == call[c] v == LatestSlugVersion(q.slug) new == IncrementSemVer(q.bump, v) IN
  /\ Now(c, op, "latest")
  /\ Check(c, /\ (op = "create") = (VersionsOf(q.slug) = {})
              /\ new \in Version /\ ValidSchema(q.schema),
           [Moved(q, then) EXCEPT !.ver = new, !.upTo = nextId])

CreateSignalType(c) ==
  \/ ReadLatest(c, "create", "effect")
  \/ Now(c, "create", "effect") /\ Insert(c, call[c].ver)

RegisterNewSignalTypeSchema(c) ==
  LET q == call[c] IN
  \/ ReadLatest(c, "newSchema", "exists")
  \/ /\ Now(c, "newSchema", "exists")
     /\ Check(c, ~ \E t \in types : t.slug = q.slug /\ t.schema = q.schema, Moved(q, "effect"))
  \/ Now(c, "newSchema", "effect") /\ Insert(c, q.ver)

\* GetSignalTypeBySlugAndVersion: the id of the type.
FindType(c, op, then) ==
  LET q == call[c] found == {t \in types : PathOf(t) = <<q.slug, q.ver>>} IN
  /\ Now(c, op, "type")
  /\ \/ \E t \in found : Set(c, [Moved(q, then) EXCEPT !.type = t.id])
     \/ found = {} /\ Set(c, NoCall)
  /\ Unchanging

\* Only the readme and the description change, and no property is about them.
UpdateSignalType(c) ==
  \/ FindType(c, "updateType", "effect")
  \/ Now(c, "updateType", "effect") /\ Answer(c)

\* Signals of the type, if there are any, keep it; its routing and its place
\* in the ISNs go with it.
DeleteSignalType(c) ==
  LET id == call[c].type IN
  \/ FindType(c, "deleteType", "signals")
  \/ Now(c, "deleteType", "signals") /\ \E unused \in BOOLEAN :
       Check(c, unused, Moved(call[c], "effect"))
  \/ /\ Now(c, "deleteType", "effect")
     /\ types' = {t \in types : t.id # id}
     /\ configs' = {g \in configs : g.type # id}
     /\ public' = {p \in public : p[2] # id}
     /\ Done(c) /\ UNCHANGED nextId

GetSignalType(c) == Now(c, "getType", "effect") /\ Answer(c)
GetSignalTypes(c) == Now(c, "listTypes", "effect") /\ Answer(c)

\* An ISN becomes public or private, is closed or opened, or a type is put on
\* it, switched on or off (the handlers are in Administration).
ChangePublic ==
  /\ begun < MaxCalls /\ begun' = begun + 1
  /\ \/ \E i \in Isns, t \in types : public' = public \union {<<i, t.id>>}
     \/ \E p \in public : public' = public \ {p}
     \/ \E i \in Isns : public' = {p \in public : p[1] # i}
  /\ public' # public
  /\ UNCHANGED <<types, configs, nextId, cache, loading, call, faults>>

-----------------------------------------------------------------------------
(* Routing configurations *)

Whole(rules) == rules # {} /\ \A r, s \in rules : r.seq = s.seq => r = s

\* Two queries: the configuration, then the rules that have its id.
GetSignalRoutingConfig(c) ==
  LET q == call[c]
      found == {g \in configs : PathOf(TypeOf(g)) = <<q.slug, q.ver>>} IN
  \/ /\ Now(c, "getRouting", "config")
     /\ \/ \E g \in found : Set(c, [Moved(q, "effect") EXCEPT !.config = g.id])
        \/ found = {} /\ Set(c, NoCall)
     /\ Unchanging
  \/ Now(c, "getRouting", "effect") /\ Answer(c)

\* FieldPathExistsInSchema, on the schema cache of the instance.
FieldPathExists(n, path, field) ==
  \E u \in Schemas : /\ <<path, u>> \in cache[n]["schema"]
                     /\ u = Skip \/ field \in FieldsOf[u]

\* The transaction deletes the configuration it sees and inserts the new one.
\* One that another transaction put there meanwhile is in its way (unique
\* index), and so is the deletion of the type (foreign key).
InsertUnchecked(id, seen) == TRUE
MayInsert(id, seen) ==
  /\ \E t \in types : t.id = id
  /\ \A g \in configs : g.type = id => g.id = seen
UpdateSignalRoutingConfig(c) ==
  LET q == call[c] IN
  \/ FindType(c, "putRouting", "field")
  \/ /\ Now(c, "putRouting", "field")
     /\ Check(c, FieldPathExists(q.at, <<q.slug, q.ver>>, q.request.field),
              Moved(q, "delete"))
  \/ /\ Now(c, "putRouting", "delete")
     /\ Set(c, [Moved(q, "effect") EXCEPT !.config =
                  IF \E g \in configs : g.type = q.type
                  THEN (CHOOSE g \in configs : g.type = q.type).id ELSE Null])
     /\ Unchanging
  \/ /\ Now(c, "putRouting", "effect")
     /\ IF MayInsert(q.type, q.config) /\ Whole(q.request.rules)
        THEN /\ configs' = {g \in configs : g.type # q.type} \union
                             {[id |-> nextId, type |-> q.type, field |-> q.request.field,
                               rules |-> q.request.rules]}
             /\ nextId' = nextId + 1
             /\ Done(c) /\ UNCHANGED <<types, public>>
        ELSE Refuse(c)

\* The cache of this instance is loaded again.
NotReloaded(c) == Now(c, "deleteRouting", "reload") /\ Answer(c)
Reload(c) ==
  LET q == call[c] IN
  \/ /\ Now(c, "deleteRouting", "reload")
     /\ Set(c, [Moved(q, "install") EXCEPT !.rows = RouterRows]) /\ Unchanging
  \/ /\ Now(c, "deleteRouting", "install")
     /\ cache' = [cache EXCEPT ![q.at]["router"] = q.rows]
     /\ Set(c, NoCall) /\ UNCHANGED <<tables, loading, begun, faults>>

\* If that fails, or the time for it is up, it is logged and the answer is 204
\* all the same: the rules stay in the cache.
ReloadFails(c) ==
  /\ Now(c, "deleteRouting", "reload")
  /\ faults < MaxFaults /\ faults' = faults + 1
  /\ Set(c, NoCall) /\ UNCHANGED <<tables, cache, loading, begun>>

DeleteSignalRoutingConfig(c) ==
  LET q == call[c] deleted == {g \in configs : g.type = q.type} IN
  \/ FindType(c, "deleteRouting", "config")
  \/ /\ Now(c, "deleteRouting", "config")
     /\ Check(c, \E g \in configs : PathOf(TypeOf(g)) = <<q.slug, q.ver>>, Moved(q, "effect"))
  \/ /\ Now(c, "deleteRouting", "effect")
     /\ configs' = configs \ deleted
     /\ Set(c, [Moved(q, "reload") EXCEPT !.config =
                  IF deleted = {} THEN Null ELSE (CHOOSE g \in deleted : TRUE).id])
     /\ UNCHANGED <<types, public, nextId, cache, loading, begun, faults>>
  \/ Reload(c) \/ ReloadFails(c)

-----------------------------------------------------------------------------
(* Loads and polls *)

NotLoaded == [k \in Kinds |-> Null]

\* At the start the caches are loaded one after the other; then each has its
\* poller.  A poll that would find what the cache has is left out where the
\* poller is the only one to load the cache.
MayRead(n, k) ==
  IF Booted(n) THEN k = "router" \/ Rows(k) # cache[n][k]
  ELSE /\ cache[n][k] = Null
       /\ k = "public" => cache[n]["schema"] # Null
       /\ k = "router" => cache[n]["public"] # Null
Read(n, k) ==
  /\ loading[n][k] = Null /\ MayRead(n, k)
  /\ Rows(k) # Null
  /\ loading' = [loading EXCEPT ![n][k] = Rows(k)]
  /\ UNCHANGED <<tables, cache, call, begun, faults>>

Install(n, k) ==
  /\ loading[n][k] # Null
  /\ cache' = [cache EXCEPT ![n][k] = loading[n][k]]
  /\ loading' = [loading EXCEPT ![n][k] = Null]
  /\ UNCHANGED <<tables, call, begun, faults>>

\* The poller logs the error and goes on.
FailLoad(n, k) ==
  /\ Booted(n) /\ loading[n][k] # Null
  /\ faults < MaxFaults /\ faults' = faults + 1
  /\ loading' = [loading EXCEPT ![n][k] = Null]
  /\ UNCHANGED <<tables, cache, call, begun>>

\* The process ends (at the start, also because a load failed) and another
\* one is started.
Crash(n) ==
  /\ faults < MaxFaults /\ faults' = faults + 1
  /\ cache' = [cache EXCEPT ![n] = NotLoaded]
  /\ loading' = [loading EXCEPT ![n] = NotLoaded]
  /\ call' = [c \in Calls |-> IF call[c].at = n THEN NoCall ELSE call[c]]
  /\ UNCHANGED <<tables, begun>>

\* A query fails or the request times out (in a reload: ReloadFails).
Fail(c) == Running(c) /\ call[c].pc \notin {"reload", "install"} /\ Refuse(c)

-----------------------------------------------------------------------------

Init ==
  /\ types \in Histories
  /\ configs = {} /\ public = {}
  /\ nextId = Cardinality(types)
  /\ cache = [n \in Instances |-> NotLoaded]
  /\ loading = [n \in Instances |-> NotLoaded]
  /\ call = [c \in Calls |-> NoCall]
  /\ begun = 0 /\ faults = 0

Quiet ==
  /\ begun = MaxCalls /\ \A c \in Calls : ~Running(c)
  /\ UNCHANGED vars

Serve(c) ==
  \/ CreateSignalType(c) \/ RegisterNewSignalTypeSchema(c) \/ UpdateSignalType(c)
  \/ DeleteSignalType(c) \/ GetSignalType(c) \/ GetSignalTypes(c)
  \/ GetSignalRoutingConfig(c) \/ UpdateSignalRoutingConfig(c)
  \/ DeleteSignalRoutingConfig(c)

Next ==
  \/ \E c \in Calls : Begin(c) \/ Serve(c) \/ Fail(c)
  \/ ChangePublic
  \/ \E n \in Instances, k \in Kinds : Read(n, k) \/ Install(n, k) \/ FailLoad(n, k)
  \/ \E n \in Instances : Crash(n)
  \/ Quiet

Spec == Init /\ [][Next]_vars

\* The ticker fires every CachePollInterval and a load ends; calls need not.
FairSpec ==
  /\ Spec
  /\ \A n \in Instances, k \in Kinds : WF_vars(Read(n, k)) /\ WF_vars(Install(n, k))

-----------------------------------------------------------------------------
(* Properties *)

\* The type invariant.
ConfigRow == [id: Nat, type: Nat, field: Fields, rules: SUBSET Rule]
CachedConfig(e) == e.id \in Nat /\ e.field \in Fields /\ e.rules \in Seq(Rule)
Cached(kind, e) ==
  \/ e = Null
  \/ kind = "schema" /\ e \subseteq Path \X Schemas
  \/ kind = "public" /\ e \subseteq Isns \X Path
  \/ kind = "router" /\ DOMAIN e \subseteq Path /\ \A p \in DOMAIN e : CachedConfig(e[p])
TypeOK ==
  /\ types \subseteq TypeRow /\ configs \subseteq ConfigRow
  /\ public \subseteq Isns \X Nat /\ nextId \in Nat
  /\ \A n \in Instances, k \in Kinds : Cached(k, cache[n][k]) /\ Cached(k, loading[n][k])
  /\ \A c \in Calls : [call[c] EXCEPT !.rows = Null] \in Call
  /\ begun \in 0..MaxCalls /\ faults \in 0..MaxFaults

\* Every routing configuration, and every place in an ISN, is of a type that
\* is registered, and a type has one configuration, however updates, deletions
\* and registrations overlap.
ConfigsOfTypes ==
  /\ \A g \in configs : \E t \in types : t.id = g.type
  /\ \A p \in public : \E t \in types : t.id = p[2]
  /\ \A g, h \in configs : g.type = h.type => g = h

\* signal_routing.go:130 "Patterns are matched in order according to the
\* supplied sequence number (smallest sequence first) and the first match is
\* accepted": read off the tables, which is what a load makes of them.
Declared(path, content) ==
  {r.isn : r \in {x \in UNION {g.rules : g \in {h \in configs : PathOf(TypeOf(h)) = path}} :
     \E g \in configs :
       /\ PathOf(TypeOf(g)) = path /\ x \in g.rules
       /\ content[g.field] # Null
       /\ \E s \in content[g.field] : MatchesString(x, s)
       /\ \A y \in g.rules : y.seq < x.seq =>
            \A s \in content[g.field] : ~MatchesString(y, s)}}
RoutedAsDeclared ==
  \A t \in types, content \in Contents :
    LET isn == Resolve(RouterRows, PathOf(t), content) IN
    Declared(PathOf(t), content) = IF isn = Null THEN {} ELSE {isn}

\* A new version of a type is above all that were there when it was numbered,
\* except one with a number of two digits (see TextRank).
NewVersionIsGreatest ==
  [][\A c \in Calls : RegisterNewSignalTypeSchema(c) =>
       \A t \in types : /\ t \in types' /\ t.id < call[c].upTo /\ t.slug = call[c].slug
                        /\ \A i \in 1..3 : t.ver[i] < 10
                        => \A u \in types' \ types : Before(t.ver, u.ver)]_vars

\* signal_routing.go:328 "refresh the cache for this instance": a call that has
\* deleted a configuration is not answered while its instance has that cached,
\* whatever other loads install meanwhile, unless the reload failed: that is only
\* logged, and the rule is in force until the next poll.  Nor does it say that
\* the rule stays away: a poll that read the tables before the deletion may
\* bring it back.  CachesCatchUp bounds both.
DeletedNotCached ==
  [][\A c \in Calls :
       /\ call[c].op = "deleteRouting" /\ call[c].pc \in {"reload", "install"}
       /\ call'[c] = NoCall /\ faults' = faults
       => LET router == cache'[call[c].at]["router"] IN
          \A p \in DOMAIN router : router[p].id # call[c].config]_vars

\* Once the configuration stays as it is, every cache of every instance comes
\* to agree with it, whatever loads overlapped, failed, or were cut short.
CachesCatchUp ==
  <>[](\A n \in Instances, k \in Kinds : cache[n][k] = Rows(k))
=============================================================================
