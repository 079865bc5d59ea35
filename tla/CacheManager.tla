---------------------------- MODULE CacheManager ----------------------------
(***************************************************************************)
(* The cache manager: a Mongo collection with a unique index on path, read *)
(* by CACHE_READ and filled by the "receive" event.                        *)
(***************************************************************************)
EXTENDS Nats

CONSTANT DatabaseMayFail   \* whether Mongo or Postgres may reject an operation

ASSUME DatabaseAssumption == DatabaseMayFail \in BOOLEAN

VARIABLES
    resources,   \* paths that have a document in resourceCollection
    updating     \* updateCache calls between their findOne and their save

cacheVars == <<resources, updating>>

CacheTypeOK ==
    /\ resources \subseteq Path
    /\ updating \subseteq [id : SubqueryId, existing : BOOLEAN]

CacheInit ==
    /\ resources = {}
    /\ updating = {}

\* readCacheAsync: what a CACHE_READ for path p is answered.
CacheRead(p) == IF p \in resources THEN "data" ELSE "null"

CacheAnswers == "cache-manager" \in up

\* A CACHE_READ is answered with an error: nobody serves it, or Mongo rejects it.
CacheReadFails == ~CacheAnswers \/ DatabaseMayFail

CacheManagerCrash ==
    /\ Crash("cache-manager")
    /\ updating' = {}
    /\ UNCHANGED resources

\* Mutant of UpdateCacheFind: empty results are cached as well.
UpdateCacheFindAny(m) ==
    /\ Arrives(m, "cache-manager", "receive")
    /\ net' = net \ {m}
    /\ updating' = updating \cup {[id |-> m.id, existing |-> PathOf(m.id) \in resources]}
    /\ UNCHANGED <<resources, up>>

\* updateCache up to its first await: falsy results are ignored, otherwise the
\* document of the path is looked up.
UpdateCacheFind(m) ==
    /\ Arrives(m, "cache-manager", "receive")
    /\ net' = net \ {m}
    /\ updating' = IF m.result = "data"
                   THEN updating \cup {[id |-> m.id, existing |-> PathOf(m.id) \in resources]}
                   ELSE updating
    /\ UNCHANGED <<resources, up>>

\* The save: it updates the document that was found, or inserts a new one.
UpdateCacheSave(u) ==
    /\ u \in updating
    /\ u.existing \/ PathOf(u.id) \notin resources
    /\ resources' = resources \cup {PathOf(u.id)}
    /\ updating' = updating \ {u}
    /\ UNCHANGED <<net, up>>

\* The insert of a path that was inserted since the findOne violates the unique
\* index; nobody awaits updateCache, so the rejection ends the process.
UpdateCacheDuplicateKey(u) ==
    /\ u \in updating
    /\ ~u.existing /\ PathOf(u.id) \in resources
    /\ CacheManagerCrash

\* Mongo rejects the findOne of an event or the save of an update: so does this.
UpdateCacheFails ==
    /\ DatabaseMayFail
    /\ \/ \E m \in net : Arrives(m, "cache-manager", "receive") /\ m.result = "data"
       \/ updating # {}
    /\ CacheManagerCrash

CacheNext ==
    \/ \E m \in net : UpdateCacheFind(m)
    \/ \E u \in updating : UpdateCacheSave(u) \/ UpdateCacheDuplicateKey(u)
    \/ UpdateCacheFails

=============================================================================
