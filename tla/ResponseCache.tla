------------------------------ MODULE ResponseCache ------------------------------
(***************************************************************************)
(* The response cache in front of the GET handlers of one type: what is    *)
(* stored under a key, the set of keys tracked for each element, and the   *)
(* invalidation that follows a write.  Each call to Redis or to the        *)
(* database is a step; a pipeline is one.                                  *)
(*                                                                         *)
(* A response is the set of elements in it, each with its version.  A key  *)
(* stands for the list of all elements, or for one element.                *)
(***************************************************************************)
EXTENDS Integers, FiniteSets

CONSTANTS Elements,
          ListKey,
          Readers, Writers,    \* requests
          MaxCacheFaults       \* bound: calls to Redis that fail

ASSUME CacheAssumption == ListKey \notin Elements /\ MaxCacheFaults \in Nat

VARIABLES db,                  \* [Elements -> version; 0: not there]
          cached,              \* [Keys -> responses; {}: none or an empty list]
          emptyList,           \* an empty list is stored
          tracked,             \* [Elements -> keys in its set]
          reading, get, body,  \* [Readers -> progress, key, response of the handler]
          writing, changing,   \* [Writers -> progress, element]
          byType,              \* writers that invalidate the whole type
          sets,                \* [Writers -> elements whose sets are deleted]
          toGather, gathered,  \* [Writers -> sets still to read, keys read]
          version,             \* versions handed out
          exposed,             \* history: keys whose storing crossed a write or an invalidation
          cacheFaults

Keys == Elements \cup {ListKey}
Versions == 0..(Cardinality(Writers) + 1)
Responses == SUBSET (Elements \X Versions)

redis == <<cached, emptyList, tracked>>
readers == <<reading, get, body>>
writers == <<writing, changing, byType, sets, toGather, gathered>>
cacheVars == <<db, redis, readers, writers, version, exposed, cacheFaults>>

CacheTypeOK ==
  /\ db \in [Elements -> Versions] /\ version \in Versions
  /\ cached \in [Keys -> Responses] /\ emptyList \in BOOLEAN
  /\ tracked \in [Elements -> SUBSET Keys]
  /\ reading \in [Readers -> {"idle", "handle", "set", "track", "done"}]
  /\ get \in [Readers -> Keys] /\ body \in [Readers -> Responses]
  /\ writing \in [Writers -> {"idle", "find", "gather", "delete", "done"}]
  /\ changing \in [Writers -> Elements] /\ byType \subseteq Writers
  /\ sets \in [Writers -> SUBSET Elements]
  /\ toGather \in [Writers -> SUBSET Elements] /\ gathered \in [Writers -> SUBSET Keys]
  /\ exposed \subseteq Keys /\ cacheFaults \in 0..MaxCacheFaults

CacheInit ==
  /\ db \in [Elements -> {0, 1}] /\ version = 1
  /\ cached = [k \in Keys |-> {}] /\ emptyList = FALSE
  /\ tracked = [x \in Elements |-> {}]
  /\ reading = [r \in Readers |-> "idle"] /\ get \in [Readers -> Keys]
  /\ body = [r \in Readers |-> {}]
  /\ writing = [w \in Writers |-> "idle"] /\ changing \in [Writers -> Elements]
  /\ byType = {} /\ sets = [w \in Writers |-> {}]
  /\ toGather = [w \in Writers |-> {}] /\ gathered = [w \in Writers |-> {}]
  /\ exposed = {} /\ cacheFaults = 0

There(x) == db[x] > 0

\* What the handler of a key answers now.
View(k) == {<<x, db[x]>> : x \in {y \in Elements : There(y) /\ k \in {y, ListKey}}}

\* extractJsonApiElements.
ElementsOf(response) == {e[1] : e \in response}

-----------------------------------------------------------------------------
(* CacheInterceptor. *)

Read(r, step) == reading' = [reading EXCEPT ![r] = step]

\* A hit is answered from the cache; an element that is not there is an error,
\* which is not stored.
LookUp(r) ==
  LET k == get[r]
  IN /\ reading[r] = "idle"
     /\ k \in Elements => There(k)
     /\ Read(r, IF cached[k] # {} \/ (k = ListKey /\ emptyList) THEN "done" ELSE "handle")
     /\ UNCHANGED <<db, redis, get, body, writers, version, exposed, cacheFaults>>

Handle(r) ==
  /\ reading[r] = "handle"
  /\ body' = [body EXCEPT ![r] = View(get[r])]
  /\ Read(r, IF get[r] # ListKey /\ ~There(get[r]) THEN "done" ELSE "set")
  /\ UNCHANGED <<db, redis, get, writers, version, exposed, cacheFaults>>

\* The response has been sent by now, and nobody awaits the rest.
Store(r) ==
  LET k == get[r]
  IN /\ reading[r] = "set"
     /\ cached' = [cached EXCEPT ![k] = body[r]]
     /\ emptyList' = IF k = ListKey THEN body[r] = {} ELSE emptyList
     /\ exposed' = IF body[r] # View(k) THEN exposed \cup {k} ELSE exposed
     /\ Read(r, "track")
     /\ UNCHANGED <<db, tracked, get, body, writers, version, cacheFaults>>

\* Mutant: a response is tracked by its first element only.
TrackFirst(r) ==
  LET first == CHOOSE X \in SUBSET ElementsOf(body[r]) : Cardinality(X) <= 1
                 /\ (body[r] # {} => X # {})
  IN /\ reading[r] = "track"
     /\ tracked' = [x \in Elements |-> IF x \in first THEN tracked[x] \cup {get[r]} ELSE tracked[x]]
     /\ Read(r, "done")
     /\ UNCHANGED <<db, cached, emptyList, get, body, writers, version, exposed, cacheFaults>>

\* trackJsonApiElements: a response without elements is tracked nowhere.
Track(r) ==
  /\ reading[r] = "track"
  /\ tracked' = [x \in Elements |-> IF x \in ElementsOf(body[r])
                                      THEN tracked[x] \cup {get[r]} ELSE tracked[x]]
  /\ body' = [body EXCEPT ![r] = {}] /\ Read(r, "done")
  /\ UNCHANGED <<db, cached, emptyList, get, writers, version, exposed, cacheFaults>>

\* A call that fails is logged, and what was stored stays.
ReaderFails(r) ==
  /\ reading[r] \in {"set", "track"}
  /\ cacheFaults < MaxCacheFaults /\ cacheFaults' = cacheFaults + 1
  /\ body' = [body EXCEPT ![r] = {}] /\ Read(r, "done")
  /\ UNCHANGED <<db, redis, get, writers, version, exposed>>

-----------------------------------------------------------------------------
(* A write and its invalidation. *)

Write(w, step) == writing' = [writing EXCEPT ![w] = step]

Forget(w) == sets' = [sets EXCEPT ![w] = {}] /\ gathered' = [gathered EXCEPT ![w] = {}]

Change(w, n, wholeType) ==
  /\ writing[w] = "idle"
  /\ db' = [db EXCEPT ![changing[w]] = n]
  /\ byType' = IF wholeType THEN byType \cup {w} ELSE byType
  /\ Write(w, "find")
  /\ UNCHANGED <<redis, readers, changing, sets, toGather, gathered, exposed, cacheFaults>>

\* POST invalidates by type; PUT, PATCH and DELETE by element.
Create(w) == ~There(changing[w]) /\ Change(w, version + 1, TRUE) /\ version' = version + 1
Update(w) == There(changing[w]) /\ Change(w, version + 1, FALSE) /\ version' = version + 1
Delete(w) == There(changing[w]) /\ Change(w, 0, FALSE) /\ UNCHANGED version

\* Stored and not yet tracked: an invalidation that looks now misses them.
Untracked == {get[r] : r \in {q \in Readers : reading[q] = "track"}}

\* invalidateByType lists the sets of the type: Redis keeps no empty set.
FindSets(w) ==
  /\ writing[w] = "find"
  /\ sets' = [sets EXCEPT ![w] = IF w \in byType THEN {x \in Elements : tracked[x] # {}}
                                                 ELSE {changing[w]}]
  /\ toGather' = [toGather EXCEPT ![w] = sets'[w]]
  /\ exposed' = exposed \cup Untracked
  /\ Write(w, "gather")
  /\ UNCHANGED <<db, redis, readers, changing, byType, gathered, version, cacheFaults>>

\* The sets are read one after the other.
Gather(w, x) ==
  /\ writing[w] = "gather" /\ x \in toGather[w]
  /\ gathered' = [gathered EXCEPT ![w] = @ \cup tracked[x]]
  /\ toGather' = [toGather EXCEPT ![w] = @ \ {x}]
  /\ exposed' = exposed \cup Untracked
  /\ UNCHANGED <<db, redis, readers, writing, changing, byType, sets, version, cacheFaults>>

\* Nothing tracked, nothing to do.
Gathered(w) ==
  /\ writing[w] = "gather" /\ toGather[w] = {}
  /\ Write(w, IF gathered[w] = {} THEN "done" ELSE "delete")
  /\ UNCHANGED <<db, redis, readers, changing, byType, sets, toGather, gathered, version, exposed, cacheFaults>>

\* One pipeline deletes the keys and the sets, with what was tracked since.
Drop(w) ==
  /\ writing[w] = "delete"
  /\ cached' = [k \in Keys |-> IF k \in gathered[w] THEN {} ELSE cached[k]]
  /\ emptyList' = (emptyList /\ ListKey \notin gathered[w])
  /\ tracked' = [x \in Elements |-> IF x \in sets[w] THEN {} ELSE tracked[x]]
  /\ exposed' = exposed \cup UNION {tracked[x] \ gathered[w] : x \in sets[w]}
  /\ Write(w, "done") /\ Forget(w)
  /\ UNCHANGED <<db, readers, changing, byType, toGather, version, cacheFaults>>

\* An invalidation that fails is logged.
WriterFails(w) ==
  /\ writing[w] \in {"find", "gather", "delete"}
  /\ cacheFaults < MaxCacheFaults /\ cacheFaults' = cacheFaults + 1
  /\ Write(w, "done") /\ Forget(w)
  /\ toGather' = [toGather EXCEPT ![w] = {}]
  /\ UNCHANGED <<db, redis, readers, changing, byType, version, exposed>>

\* The time to live of a key is over.  That of a set is longer.
KeyEnds(k) ==
  /\ cached[k] # {} \/ (k = ListKey /\ emptyList)
  /\ cached' = [cached EXCEPT ![k] = {}]
  /\ emptyList' = (emptyList /\ k # ListKey)
  /\ UNCHANGED <<db, tracked, readers, writers, version, exposed, cacheFaults>>

-----------------------------------------------------------------------------
ReadStep(r) == LookUp(r) \/ Handle(r) \/ Store(r) \/ Track(r) \/ ReaderFails(r)
WriteStep(w) == \/ Create(w) \/ Update(w) \/ Delete(w) \/ FindSets(w)
                \/ (\E x \in Elements : Gather(w, x)) \/ Gathered(w) \/ Drop(w) \/ WriterFails(w)

CacheNext ==
  \/ \E r \in Readers : ReadStep(r)
  \/ \E w \in Writers : WriteStep(w)
  \/ \E k \in Keys : KeyEnds(k)

CacheSpec == CacheInit /\ [][CacheNext]_cacheVars

-----------------------------------------------------------------------------
(* Properties. *)

Settled == \A w \in Writers : writing[w] \in {"idle", "done"}

\* Once the writes have invalidated what they changed, a stored response is
\* what the handler would answer, unless its storing crossed a write or an
\* invalidation, a call failed, or it is an empty list.
CacheIsFresh ==
  Settled /\ cacheFaults = 0
    => \A k \in Keys \ exposed : cached[k] \in {{}, View(k)}

\* The cache stores what its types say, and serves nothing older than the last
\* write, the exposed keys apart.
CacheSound == CacheTypeOK /\ CacheIsFresh
=============================================================================
