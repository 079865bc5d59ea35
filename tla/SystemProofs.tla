---------------------------- MODULE SystemProofs ------------------------------
(***************************************************************************)
(* Proof that the system implements the aggregation engine, for any        *)
(* queries, paths, payloads, limit, window and delay, and any deaths but   *)
(* the request scheduler's own.                                            *)
(***************************************************************************)
EXTENDS System, TLAPS

\* Who hears what.
LEMMA SubscriberFacts ==
    /\ Subscribers("schedule-fetch") = {"request-scheduler"}
    /\ Subscribers("fetch") = {"swapi-connector", "traffic-controller"}
    /\ Subscribers("receive") = {"query-manager", "cache-manager"}
BY SystemServices DEF Subscribers, Subscriptions

\* What an event emits is well-typed.
LEMMA EmittedType ==
    ASSUME NEW subject \in Subject, NEW ids \in SUBSET SubqueryId, NEW result \in Result
    PROVE  Emitted(subject, ids, result) \subseteq Delivery
<1> SUFFICES ASSUME NEW m \in Emitted(subject, ids, result)
             PROVE  m \in Delivery
  OBVIOUS
<1>1. PICK svc \in Subscribers(subject) \cap up, s \in ids :
        m = [to |-> svc, subject |-> subject, id |-> s, result |-> result]
  BY DEF Emitted
<1>2. svc \in Services
  BY DEF Subscribers
<1>. QED
  BY <1>1, <1>2 DEF Delivery

\* Only the scheduler is sent what is to be scheduled.
LEMMA DeliveryFacts ==
    ASSUME NEW m \in Delivery
    PROVE  /\ m.to \in Services /\ m.subject \in Subject /\ m.id \in SubqueryId /\ m.result \in Result
           /\ m = [to |-> m.to, subject |-> m.subject, id |-> m.id, result |-> m.result]
           /\ m.to = "request-scheduler" => m.subject = "schedule-fetch"
<1>1. /\ m.to \in Subscribers(m.subject)
      /\ m \in [to : Services, subject : Subject, id : SubqueryId, result : Result]
  BY DEF Delivery
<1>2. m.subject \in {"schedule-fetch", "fetch", "receive"}
  BY <1>1 DEF Subject
<1>. QED
  BY <1>1, <1>2, SubscriberFacts

\* The events the scheduler was sent.
Events == {m \in net : m.to = "request-scheduler"}

-----------------------------------------------------------------------------
(* The inductive invariant *)

\* A step that leaves the scheduler and its events alone, and takes no query back that
\* was answered.
QuietStep ==
    /\ NatsTypeOK' /\ ConnectorTypeOK'
    /\ "request-scheduler" \in up' /\ "traffic-controller" \in up' \cup died'
    /\ died \subseteq died'
    /\ Events' = Events
    /\ UNCHANGED <<schedulerVars, unanswered>>
    /\ creating' \in [Query -> CreateStep]
    /\ \A q \in Query : creating[q] = "answered" => creating'[q] = "answered"

\* What the scheduler holds depends on its variables and its events.
LEMMA HeldByEvents ==
    Held = {m.id : m \in Events}
            \cup {s \in SubqueryId : \/ asking[s] \in {"asked", "free", "limited"}
                                     \/ asking[s] \in {"hung", "failed"} /\ s \in ActiveId}
            \cup {j.id : j \in jobs}
BY DEF Held, Events

\* Quiet steps keep what the scheduler holds, and the invariant.
LEMMA QuietKeeps ==
    ASSUME HeldInOnePlace, QuietStep
    PROVE  HeldInOnePlace' /\ Unpublished' = Unpublished
<1>1. Unpublished' = Unpublished /\ Queued' = Queued
  BY HeldByEvents DEF QuietStep, Unpublished, Held, Events, Queued, ActiveId, schedulerVars
<1>2. SchedulerTypeOK' /\ UnansweredAreLeft' /\ JobsAreSingle'
  BY DEF HeldInOnePlace, QuietStep, SchedulerTypeOK, UnansweredAreLeft, JobsAreSingle, schedulerVars
<1>3. EventsAreFresh'
  <2> SUFFICES ASSUME NEW m \in net', m.to = "request-scheduler"
               PROVE  m.id \notin Queued' \cup unanswered' /\ asking'[m.id] = "idle" /\ m.result = "null"
    BY DEF EventsAreFresh
  <2>1. m \in net
    BY DEF QuietStep, Events
  <2>. QED
    BY <1>1, <2>1 DEF HeldInOnePlace, EventsAreFresh, QuietStep, schedulerVars
<1>4. TracesAreAnswered'
  <2>1. \A s \in SubqueryId : QueryOf(s) \in Query
    BY DEF SubqueryId, QueryOf
  <2>. QED
    BY <1>1, <2>1 DEF HeldInOnePlace, TracesAreAnswered, QuietStep, schedulerVars
<1>. QED
  BY <1>1, <1>2, <1>3, <1>4 DEF HeldInOnePlace, QuietStep

-----------------------------------------------------------------------------
(* How the engine's view of the broker changes *)

\* The services of the engine that may die.
EngineServices == {"query-manager", "cache-manager", "swapi-connector"}

\* What the engine sees of a fetch that is not published.
Waiting(ids) ==
    {[to |-> "request-scheduler", subject |-> "schedule-fetch", id |-> s, result |-> "null"] : s \in ids}

Inner(n) == {m \in n : m.to \notin {"request-scheduler", "traffic-controller"}}

LEMMA EngineNetParts == EngineNet = Inner(net) \cup Waiting(Unpublished)
BY DEF EngineNet, Inner, Waiting

LEMMA EngineNetPartsNext == EngineNet' = Inner(net') \cup Waiting(Unpublished')
BY DEF EngineNet, Inner, Waiting

\* An event for a service of the engine is seen by the engine, and once taken it is not.
LEMMA TakenFromEngine ==
    ASSUME Unpublished' = Unpublished, NEW m \in net, m.to \in EngineServices, net' = net \ {m}
    PROVE  m \in EngineNet /\ EngineNet' = EngineNet \ {m}
<1>1. m \in Inner(net) /\ Inner(net') = Inner(net) \ {m}
  BY DEF Inner, EngineServices
<1>2. m \notin Waiting(Unpublished)
  BY DEF Waiting, EngineServices
<1>. QED
  BY <1>1, <1>2, EngineNetParts, EngineNetPartsNext

\* A service of the engine dies for the engine as well.
LEMMA CrashInEngine ==
    ASSUME Unpublished' = Unpublished, NEW svc \in EngineServices, Crash(svc)
    PROVE  Engine!Crash(svc)
<1>1. Inner(net') = {m \in Inner(net) : m.to # svc}
  BY DEF Inner, Crash
<1>2. {m \in Waiting(Unpublished) : m.to # svc} = Waiting(Unpublished)
  BY DEF Waiting, EngineServices
<1>3. EngineNet' = {m \in EngineNet : m.to # svc}
  BY <1>1, <1>2, EngineNetParts, EngineNetPartsNext
<1>4. up' \ {"traffic-controller"} = (up \ {"traffic-controller"}) \ {svc}
  BY DEF Crash
<1>. QED
  BY <1>3, <1>4 DEF Engine!Crash

\* Nothing happens to the broker.
LEMMA SameForEngine ==
    ASSUME Unpublished' = Unpublished, UNCHANGED net
    PROVE  EngineNet' = EngineNet
BY EngineNetParts, EngineNetPartsNext

\* A result is published for the engine as well.
LEMMA ReceiveInEngine ==
    ASSUME Unpublished' = Unpublished, NEW ids, NEW result, net' = net \cup Emitted("receive", ids, result)
    PROVE  EngineNet' = EngineNet \cup Engine!Emitted("receive", ids, result)
<1>1. Engine!Subscribers("receive") = {"query-manager", "cache-manager"}
  BY SystemServices DEF Engine!Subscribers, Engine!Subscriptions
<1>2. Engine!Subscribers("receive") \cap (up \ {"traffic-controller"}) = Subscribers("receive") \cap up
  BY <1>1, SubscriberFacts
<1>3. Engine!Emitted("receive", ids, result) = Emitted("receive", ids, result)
  BY <1>2 DEF Emitted, Engine!Emitted
<1>4. Inner(Emitted("receive", ids, result)) = Emitted("receive", ids, result)
  <2> SUFFICES ASSUME NEW m \in Emitted("receive", ids, result)
               PROVE  m.to \notin {"request-scheduler", "traffic-controller"}
    BY DEF Inner
  <2>1. PICK svc \in Subscribers("receive") \cap up, s \in ids :
            m = [to |-> svc, subject |-> "receive", id |-> s, result |-> result]
    BY DEF Emitted
  <2>. QED
    BY <2>1, SubscriberFacts
<1>5. Inner(net') = Inner(net) \cup Emitted("receive", ids, result)
  BY <1>4 DEF Inner
<1>. QED
  BY <1>3, <1>5, EngineNetParts, EngineNetPartsNext

\* Deaths are recorded for the engine as well.
LEMMA DeathsInEngine ==
    ASSUME RecordDeaths
    PROVE  Engine!RecordDeaths
BY DEF RecordDeaths, Engine!RecordDeaths

\* The engine knows the same queries, paths and cache.
LEMMA SameData ==
    /\ Engine!SubqueryId = SubqueryId /\ Engine!Subqueries = Subqueries
    /\ \A q : Engine!SubqueriesOf(q) = SubqueriesOf(q) /\ Engine!TargetSubqueries(q) = TargetSubqueries(q)
    /\ \A s : Engine!QueryOf(s) = QueryOf(s) /\ Engine!PathOf(s) = PathOf(s)
    /\ \A p : Engine!CacheRead(p) = CacheRead(p)
    /\ Engine!CacheAnswers = CacheAnswers /\ Engine!CacheReadFails = CacheReadFails
    /\ Engine!Unread = Unread /\ Engine!IdleHandler = IdleHandler
    /\ \A s : Engine!HaveAllResults(s) = HaveAllResults(s)
<1>1. /\ Engine!SubqueryId = SubqueryId /\ Engine!Subqueries = Subqueries
      /\ \A q : Engine!SubqueriesOf(q) = SubqueriesOf(q)
      /\ \A s : Engine!QueryOf(s) = QueryOf(s) /\ Engine!PathOf(s) = PathOf(s)
  BY DEF SubqueryId, Subqueries, SubqueriesOf, QueryOf, PathOf, Engine!SubqueryId,
         Engine!Subqueries, Engine!SubqueriesOf, Engine!QueryOf, Engine!PathOf
<1>2. \A q : Engine!TargetSubqueries(q) = TargetSubqueries(q)
  BY <1>1 DEF TargetSubqueries, Engine!TargetSubqueries
<1>3. \A p : Engine!CacheRead(p) = CacheRead(p)
  BY DEF CacheRead, Engine!CacheRead
<1>4. Engine!CacheAnswers = CacheAnswers
  BY DEF CacheAnswers, Engine!CacheAnswers
<1>5. Engine!CacheReadFails = CacheReadFails
  BY <1>4 DEF CacheReadFails, Engine!CacheReadFails
<1>6. Engine!Unread = Unread
  BY DEF Unread, Engine!Unread
<1>7. Engine!IdleHandler = IdleHandler
  BY <1>6 DEF IdleHandler, Engine!IdleHandler
<1>8. \A s : Engine!HaveAllResults(s) = HaveAllResults(s)
  BY <1>1 DEF HaveAllResults, Engine!HaveAllResults
<1>. QED
  BY <1>1, <1>2, <1>3, <1>4, <1>5, <1>6, <1>7, <1>8

-----------------------------------------------------------------------------
(* Every step of the engine's services is the same step for the engine *)

\* The creation of a query, up to the emission of its fetches.
LEMMA CreateInEngine ==
    ASSUME Unpublished' = Unpublished, NEW q \in Query, CreateNext(q), ~ScheduleFetches(q)
    PROVE  Engine!CreateNext(q)
<1>1. CASE CreateQuery(q)
  <2>1. Engine!CreateQuery(q)
    BY <1>1, SameForEngine DEF CreateQuery, Engine!CreateQuery
  <2>. QED
    BY <2>1 DEF Engine!CreateNext
<1>2. CASE \E s \in SubqueriesOf(q) : CreateReadCache(s)
  <2>1. PICK s \in SubqueriesOf(q) : CreateReadCache(s)
    BY <1>2
  <2>2. Engine!CreateReadCache(s)
    BY <2>1, SameForEngine, SameData DEF CreateReadCache, Engine!CreateReadCache
  <2>. QED
    BY <2>2, SameData DEF Engine!CreateNext
<1>3. CASE CreateReadFails(q)
  <2>1. Engine!CreateReadFails(q)
    BY <1>3, SameForEngine, SameData DEF CreateReadFails, Engine!CreateReadFails
  <2>. QED
    BY <2>1 DEF Engine!CreateNext
<1>4. CASE CreateFromCache(q)
  <2>1. Engine!CreateFromCache(q)
    BY <1>4, SameForEngine, SameData DEF CreateFromCache, Engine!CreateFromCache
  <2>. QED
    BY <2>1 DEF Engine!CreateNext
<1>5. CASE SaveNewQuery(q)
  <2>1. Engine!SaveNewQuery(q)
    BY <1>5, SameForEngine, SameData DEF SaveNewQuery, Engine!SaveNewQuery
  <2>. QED
    BY <2>1 DEF Engine!CreateNext
<1>6. CASE SaveNewSubqueries(q)
  <2>1. Engine!SaveNewSubqueries(q)
    BY <1>6, SameForEngine, SameData DEF SaveNewSubqueries, Engine!SaveNewSubqueries
  <2>. QED
    BY <2>1 DEF Engine!CreateNext
<1>7. CASE CreateSaveFails(q)
  <2>1. Engine!CreateSaveFails(q)
    BY <1>7, SameForEngine, SameData DEF CreateSaveFails, Engine!CreateSaveFails
  <2>. QED
    BY <2>1 DEF Engine!CreateNext
<1>. QED
  BY <1>1, <1>2, <1>3, <1>4, <1>5, <1>6, <1>7 DEF CreateNext

\* The query manager dies.
LEMMA QueryManagerCrashInEngine ==
    ASSUME Unpublished' = Unpublished, QueryManagerCrash
    PROVE  Engine!QueryManagerCrash
<1>1. Engine!Crash("query-manager")
  BY CrashInEngine DEF QueryManagerCrash, EngineServices
<1>. QED
  BY <1>1, SameData DEF QueryManagerCrash, Engine!QueryManagerCrash

\* A result arrives at the query manager.
LEMMA LoadInEngine ==
    ASSUME Unpublished' = Unpublished, NEW m \in net, HandleResultLoad(m)
    PROVE  m \in EngineNet /\ Engine!HandleResultLoad(m)
<1>1. /\ m.to = "query-manager" /\ m.to \in EngineServices
      /\ Arrives(m, "query-manager", "receive")
  BY DEF HandleResultLoad, Arrives, EngineServices
<1>2. m \in EngineNet
  BY <1>1 DEF EngineNet
<1>3. Engine!Arrives(m, "query-manager", "receive")
  BY <1>1, <1>2 DEF Arrives, Engine!Arrives
<1>4. CASE subqueryTable[m.id] = "none" \/ queryTable[QueryOf(m.id)] = "none"
  <2>1. QueryManagerCrash
    BY <1>4 DEF HandleResultLoad
  <2>2. Engine!QueryManagerCrash
    BY <2>1, QueryManagerCrashInEngine
  <2>. QED
    BY <1>2, <1>3, <1>4, <2>2, SameData DEF Engine!HandleResultLoad
<1>5. CASE ~(subqueryTable[m.id] = "none" \/ queryTable[QueryOf(m.id)] = "none")
  <2>1. net' = net \ {m}
    BY <1>5 DEF HandleResultLoad
  <2>2. EngineNet' = EngineNet \ {m}
    BY <1>1, <2>1, TakenFromEngine
  <2>. QED
    BY <1>2, <1>3, <1>5, <2>2, SameData DEF HandleResultLoad, Engine!HandleResultLoad
<1>. QED
  BY <1>4, <1>5

\* The handling of a result, once loaded.
LEMMA HandleInEngine ==
    ASSUME Unpublished' = Unpublished, NEW s \in Subqueries, HandleNext(s)
    PROVE  Engine!HandleNext(s)
<1>1. CASE \E t \in SubqueriesOf(QueryOf(s)) : HandleResultReadCache(s, t)
  <2>1. PICK t \in SubqueriesOf(QueryOf(s)) : HandleResultReadCache(s, t)
    BY <1>1
  <2>2. Engine!HandleResultReadCache(s, t)
    BY <2>1, SameForEngine, SameData DEF HandleResultReadCache, Engine!HandleResultReadCache
  <2>. QED
    BY <2>2, SameData DEF Engine!HandleNext
<1>2. CASE HandleResultReadFails(s)
  <2>1. Engine!HandleResultReadFails(s)
    BY <1>2, QueryManagerCrashInEngine, SameData DEF HandleResultReadFails, Engine!HandleResultReadFails
  <2>. QED
    BY <2>1 DEF Engine!HandleNext
<1>3. CASE HandleResultSaveQuery(s)
  <2>1. Engine!HandleResultSaveQuery(s)
    BY <1>3, SameForEngine, SameData DEF HandleResultSaveQuery, Engine!HandleResultSaveQuery
  <2>. QED
    BY <2>1 DEF Engine!HandleNext
<1>4. CASE HandleResultSaveSubquery(s)
  <2>1. Engine!HandleResultSaveSubquery(s)
    BY <1>4, SameForEngine, SameData DEF HandleResultSaveSubquery, Engine!HandleResultSaveSubquery
  <2>. QED
    BY <2>1 DEF Engine!HandleNext
<1>5. CASE NotifyCallback(s)
  <2>1. Engine!NotifyCallback(s)
    BY <1>5, SameForEngine, SameData DEF NotifyCallback, Engine!NotifyCallback
  <2>. QED
    BY <2>1 DEF Engine!HandleNext
<1>6. CASE CallbackResponds(s)
  <2>1. Engine!CallbackResponds(s)
    BY <1>6, SameForEngine DEF CallbackResponds, Engine!CallbackResponds
  <2>. QED
    BY <2>1 DEF Engine!HandleNext
<1>7. CASE CallbackUnreachable(s)
  <2>1. Engine!CallbackUnreachable(s)
    BY <1>7, QueryManagerCrashInEngine DEF CallbackUnreachable, Engine!CallbackUnreachable
  <2>. QED
    BY <2>1 DEF Engine!HandleNext
<1>. QED
  BY <1>1, <1>2, <1>3, <1>4, <1>5, <1>6, <1>7 DEF HandleNext

\* An event that a service of the engine could take, it could take for the engine.
LEMMA ArrivesInEngine ==
    ASSUME NEW svc \in EngineServices, NEW subject, NEW m \in net, Arrives(m, svc, subject)
    PROVE  m \in EngineNet /\ Engine!Arrives(m, svc, subject)
<1>1. m.to = svc
  BY DEF Arrives
<1>2. m \in EngineNet
  BY <1>1 DEF EngineNet, EngineServices
<1>. QED
  BY <1>2 DEF Arrives, Engine!Arrives, EngineServices

LEMMA QueryInEngine ==
    ASSUME Unpublished' = Unpublished, QueryNext, \A q \in Query : ~ScheduleFetches(q)
    PROVE  Engine!QueryNext
<1>1. CASE \E q \in Query : CreateNext(q)
  BY <1>1, CreateInEngine DEF Engine!QueryNext
<1>2. CASE \E m \in net : HandleResultLoad(m)
  BY <1>2, LoadInEngine DEF Engine!QueryNext
<1>3. CASE \E s \in Subqueries : HandleNext(s)
  BY <1>3, HandleInEngine, SameData DEF Engine!QueryNext
<1>4. CASE HandleResultDatabaseFails
  <2>1. Engine!QueryManagerCrash
    BY <1>4, QueryManagerCrashInEngine DEF HandleResultDatabaseFails
  <2>2. \A m \in net : Arrives(m, "query-manager", "receive") =>
            m \in EngineNet /\ Engine!Arrives(m, "query-manager", "receive")
    BY ArrivesInEngine DEF EngineServices
  <2>3. Engine!HandleResultDatabaseFails
    BY <1>4, <2>1, <2>2, SameData DEF HandleResultDatabaseFails, Engine!HandleResultDatabaseFails
  <2>. QED
    BY <2>3 DEF Engine!QueryNext
<1>. QED
  BY <1>1, <1>2, <1>3, <1>4 DEF QueryNext

\* The cache manager.
LEMMA CacheManagerCrashInEngine ==
    ASSUME Unpublished' = Unpublished, CacheManagerCrash
    PROVE  Engine!CacheManagerCrash
<1>1. Engine!Crash("cache-manager")
  BY CrashInEngine DEF CacheManagerCrash, EngineServices
<1>. QED
  BY <1>1 DEF CacheManagerCrash, Engine!CacheManagerCrash

LEMMA CacheInEngine ==
    ASSUME Unpublished' = Unpublished, CacheNext
    PROVE  Engine!CacheNext
<1>1. ASSUME NEW m \in net, UpdateCacheFind(m)
      PROVE  Engine!CacheNext
  <2>1. m.to \in EngineServices /\ Arrives(m, "cache-manager", "receive") /\ net' = net \ {m}
    BY <1>1 DEF UpdateCacheFind, Arrives, EngineServices
  <2>2. m \in EngineNet /\ Engine!Arrives(m, "cache-manager", "receive")
    BY <2>1, ArrivesInEngine DEF EngineServices
  <2>3. EngineNet' = EngineNet \ {m}
    BY <2>1, TakenFromEngine
  <2>4. Engine!UpdateCacheFind(m)
    BY <1>1, <2>2, <2>3, SameData DEF UpdateCacheFind, Engine!UpdateCacheFind
  <2>. QED
    BY <2>2, <2>4 DEF Engine!CacheNext
<1>2. ASSUME NEW u \in updating, UpdateCacheSave(u)
      PROVE  Engine!CacheNext
  <2>1. Engine!UpdateCacheSave(u)
    BY <1>2, SameForEngine, SameData DEF UpdateCacheSave, Engine!UpdateCacheSave
  <2>. QED
    BY <2>1 DEF Engine!CacheNext
<1>3. ASSUME NEW u \in updating, UpdateCacheDuplicateKey(u)
      PROVE  Engine!CacheNext
  <2>1. Engine!UpdateCacheDuplicateKey(u)
    BY <1>3, CacheManagerCrashInEngine, SameData DEF UpdateCacheDuplicateKey, Engine!UpdateCacheDuplicateKey
  <2>. QED
    BY <2>1 DEF Engine!CacheNext
<1>4. CASE UpdateCacheFails
  <2>1. Engine!CacheManagerCrash
    BY <1>4, CacheManagerCrashInEngine DEF UpdateCacheFails
  <2>2. \A m \in net : Arrives(m, "cache-manager", "receive") =>
            m \in EngineNet /\ Engine!Arrives(m, "cache-manager", "receive")
    BY ArrivesInEngine DEF EngineServices
  <2>3. Engine!UpdateCacheFails
    BY <1>4, <2>1, <2>2 DEF UpdateCacheFails, Engine!UpdateCacheFails
  <2>. QED
    BY <2>3 DEF Engine!CacheNext
<1>. QED
  BY <1>1, <1>2, <1>3, <1>4 DEF CacheNext

\* The SWAPI connector.
LEMMA ConnectorCrashInEngine ==
    ASSUME Unpublished' = Unpublished, SwapiConnectorCrash
    PROVE  Engine!SwapiConnectorCrash
<1>1. Engine!Crash("swapi-connector")
  BY CrashInEngine DEF SwapiConnectorCrash, EngineServices
<1>. QED
  BY <1>1 DEF SwapiConnectorCrash, Engine!SwapiConnectorCrash

LEMMA ConnectorInEngine ==
    ASSUME Unpublished' = Unpublished, ConnectorNext
    PROVE  Engine!ConnectorNext
<1>1. ASSUME NEW m \in net, Arrives(m, "swapi-connector", "fetch")
      PROVE  m \in EngineNet /\ Engine!Arrives(m, "swapi-connector", "fetch")
  BY <1>1, ArrivesInEngine DEF EngineServices
<1>2. ASSUME NEW m \in net, Arrives(m, "swapi-connector", "fetch"), net' = net \ {m}
      PROVE  EngineNet' = EngineNet \ {m}
  <2>1. m.to \in EngineServices
    BY <1>2 DEF Arrives, EngineServices
  <2>. QED
    BY <1>2, <2>1, TakenFromEngine
<1>3. ASSUME NEW m \in net, FetchDataCached(m)
      PROVE  Engine!ConnectorNext
  <2>1. Arrives(m, "swapi-connector", "fetch") /\ net' = net \ {m}
    BY <1>3 DEF FetchDataCached
  <2>2. Engine!FetchDataCached(m)
    BY <1>1, <1>2, <1>3, <2>1, SameData
    DEF FetchDataCached, Engine!FetchDataCached, connectorVars, Engine!connectorVars
  <2>. QED
    BY <1>1, <2>1, <2>2 DEF Engine!ConnectorNext
<1>4. ASSUME NEW m \in net, FetchDataMissing(m)
      PROVE  Engine!ConnectorNext
  <2>1. Arrives(m, "swapi-connector", "fetch") /\ net' = net \ {m}
    BY <1>4 DEF FetchDataMissing
  <2>2. Engine!FetchDataMissing(m)
    BY <1>1, <1>2, <1>4, <2>1, SameData DEF FetchDataMissing, Engine!FetchDataMissing
  <2>. QED
    BY <1>1, <2>1, <2>2 DEF Engine!ConnectorNext
<1>5. ASSUME NEW m \in net, FetchDataCacheDown(m)
      PROVE  Engine!ConnectorNext
  <2>1. Arrives(m, "swapi-connector", "fetch") /\ SwapiConnectorCrash
    BY <1>5 DEF FetchDataCacheDown
  <2>2. Engine!FetchDataCacheDown(m)
    BY <1>1, <1>5, <2>1, ConnectorCrashInEngine, SameData
    DEF FetchDataCacheDown, Engine!FetchDataCacheDown
  <2>. QED
    BY <1>1, <2>1, <2>2 DEF Engine!ConnectorNext
<1>6. ASSUME NEW s \in fetching, NEW r \in SwapiResults, SwapiAnswers(s, r)
      PROVE  Engine!ConnectorNext
  <2>1. EngineNet' = EngineNet \cup Engine!Emitted("receive", {s}, r)
    BY <1>6, ReceiveInEngine DEF SwapiAnswers
  <2>2. Engine!SwapiAnswers(s, r)
    BY <1>6, <2>1 DEF SwapiAnswers, Engine!SwapiAnswers
  <2>. QED
    BY <2>2 DEF Engine!ConnectorNext
<1>7. ASSUME NEW s \in fetching, SwapiFails(s)
      PROVE  Engine!ConnectorNext
  <2>1. Engine!SwapiFails(s)
    BY <1>7, ConnectorCrashInEngine DEF SwapiFails, Engine!SwapiFails
  <2>. QED
    BY <2>1 DEF Engine!ConnectorNext
<1>. QED
  BY <1>3, <1>4, <1>5, <1>6, <1>7 DEF ConnectorNext

\* The gateway, whose consumers ask the same query manager.
LEMMA GatewayInEngine ==
    ASSUME Unpublished' = Unpublished, GatewayNext
    PROVE  Engine!GatewayNext
<1>1. EngineNet' = EngineNet /\ UNCHANGED up
  BY SameForEngine DEF GatewayNext
<1>2. PICK q \in Observed : RespondStored(q) \/ RespondCached(q) \/ RespondError(q) \/ GetQuery(q)
  BY DEF GatewayNext
<1>3. ASSUME RespondStored(q) PROVE Engine!RespondStored(q)
  BY <1>3, SameData DEF RespondStored, Engine!RespondStored
<1>4. ASSUME RespondCached(q) PROVE Engine!RespondCached(q)
  BY <1>4, SameData DEF RespondCached, Engine!RespondCached
<1>5. ASSUME RespondError(q) PROVE Engine!RespondError(q)
  BY <1>5 DEF RespondError, Engine!RespondError
<1>6. ASSUME GetQuery(q) PROVE Engine!GetQuery(q)
  <2>1. Engine!FetchQueryResults(q) = FetchQueryResults(q)
    BY SameData DEF FetchQueryResults, Engine!FetchQueryResults
  <2>. QED
    BY <1>6, <2>1, SameData DEF GetQuery, Engine!GetQuery
<1>. QED
  BY <1>1, <1>2, <1>3, <1>4, <1>5, <1>6 DEF Engine!GatewayNext

\* The cache manager comes back, and with it go the reads it was asked for.
LEMMA CacheRestartInEngine ==
    ASSUME Unpublished' = Unpublished, RestartCacheManager
    PROVE  Engine!RestartCacheManager
<1>1. Engine!Start("cache-manager")
  BY DEF RestartCacheManager, Start, Engine!Start
<1>2. Engine!CacheReadsHang
  BY SameData DEF RestartCacheManager, CacheReadsHang, Engine!CacheReadsHang
<1>3. PICK hung \in SUBSET {m \in net : m.to = "swapi-connector"} : net' = net \ hung
  BY DEF RestartCacheManager
<1>4. hung \in SUBSET {m \in EngineNet : m.to = "swapi-connector"}
  BY <1>3 DEF EngineNet
<1>5. EngineNet' = EngineNet \ hung
  <2>1. Inner(net') = Inner(net) \ hung
    BY <1>3 DEF Inner
  <2>2. Waiting(Unpublished) \ hung = Waiting(Unpublished)
    BY <1>3 DEF Waiting
  <2>. QED
    BY <2>1, <2>2, EngineNetParts, EngineNetPartsNext
<1>. QED
  BY <1>1, <1>2, <1>4, <1>5 DEF RestartCacheManager, Engine!RestartCacheManager, cacheVars, Engine!cacheVars

-----------------------------------------------------------------------------
(* The steps that do not concern the scheduler are quiet *)

\* The scheduler's events stay when others are taken, published or lost.
BrokerStands ==
    /\ NatsTypeOK'
    /\ "request-scheduler" \in up' /\ "traffic-controller" \in up' \cup died'
    /\ died \subseteq died'
    /\ \A m : m.to = "request-scheduler" => (m \in net <=> m \in net')

\* No answer is taken back.
AnswersStand ==
    /\ creating' \in [Query -> CreateStep]
    /\ \A q \in Query : creating[q] = "answered" => creating'[q] = "answered"

LEMMA QuietParts ==
    ASSUME UNCHANGED <<schedulerVars, unanswered>>, BrokerStands, AnswersStand, ConnectorTypeOK'
    PROVE  QuietStep
BY DEF QuietStep, BrokerStands, AnswersStand, Events

\* What a crash leaves of the broker.
LEMMA CrashStands ==
    ASSUME HeldInOnePlace, RecordDeaths, NEW svc \in EngineServices, Crash(svc)
    PROVE  BrokerStands
BY DEF HeldInOnePlace, NatsTypeOK, UnansweredAreLeft, RecordDeaths, Crash, EngineServices, BrokerStands

\* What a step leaves of it that takes or loses events of others.
LEMMA TakeStands ==
    ASSUME HeldInOnePlace, RecordDeaths, UNCHANGED up, NEW lost \in SUBSET net, net' = net \ lost,
           \A m \in lost : m.to # "request-scheduler"
    PROVE  BrokerStands
BY DEF HeldInOnePlace, NatsTypeOK, UnansweredAreLeft, RecordDeaths, BrokerStands

\* What a start leaves of it.
LEMMA StartStands ==
    ASSUME HeldInOnePlace, RecordDeaths, NEW svc, Start(svc), NEW lost \in SUBSET net, net' = net \ lost,
           \A m \in lost : m.to # "request-scheduler"
    PROVE  BrokerStands
BY RestartAssumption DEF HeldInOnePlace, NatsTypeOK, UnansweredAreLeft, RecordDeaths, Start, BrokerStands

\* What the publication of an event to others leaves of it.
LEMMA EmitStands ==
    ASSUME HeldInOnePlace, RecordDeaths, UNCHANGED up, NEW subject \in {"fetch", "receive"},
           NEW ids \in SUBSET SubqueryId, NEW result \in Result,
           net' = net \cup Emitted(subject, ids, result)
    PROVE  BrokerStands
<1>1. Emitted(subject, ids, result) \subseteq Delivery
  BY EmittedType DEF Subject
<1>2. \A m \in Emitted(subject, ids, result) : m.to # "request-scheduler"
  BY SubscriberFacts DEF Emitted
<1>. QED
  BY <1>1, <1>2 DEF HeldInOnePlace, NatsTypeOK, UnansweredAreLeft, RecordDeaths, BrokerStands

\* Processes and deliveries are as they were.
LEMMA SameStands ==
    ASSUME HeldInOnePlace, RecordDeaths, UNCHANGED <<net, up>>
    PROVE  BrokerStands
BY DEF HeldInOnePlace, NatsTypeOK, UnansweredAreLeft, RecordDeaths, BrokerStands

\* A creation that goes on had no answer yet.
LEMMA CreatingStands ==
    ASSUME HeldInOnePlace, NEW q \in Query, NEW c \in CreateStep, creating[q] # "answered",
           creating' = [creating EXCEPT ![q] = c]
    PROVE  AnswersStand
BY DEF HeldInOnePlace, AnswersStand

LEMMA UnchangedStands == ASSUME HeldInOnePlace, UNCHANGED creating PROVE AnswersStand
BY DEF HeldInOnePlace, AnswersStand

\* A crash, or a read that is never answered, cuts short what had no answer yet.
LEMMA CutStands == ASSUME HeldInOnePlace, QueryManagerCrash \/ CacheReadsHang PROVE AnswersStand
<1>1. CASE QueryManagerCrash
  BY <1>1 DEF QueryManagerCrash, CreateStep, HeldInOnePlace, AnswersStand
<1>2. CASE CacheReadsHang
  BY <1>2 DEF CacheReadsHang, CreateStep, HeldInOnePlace, AnswersStand
<1>. QED
  BY <1>1, <1>2

\* The query manager's steps are quiet, but for the one that schedules.
LEMMA QueryManagerCrashQuiet ==
    ASSUME HeldInOnePlace, RecordDeaths, UNCHANGED <<schedulerVars, unanswered>>, ConnectorTypeOK', QueryManagerCrash
    PROVE  QuietStep
<1>1. BrokerStands
  BY CrashStands DEF QueryManagerCrash, EngineServices
<1>. QED
  BY <1>1, CutStands, QuietParts

LEMMA QueryQuiet ==
    ASSUME HeldInOnePlace, RecordDeaths, UNCHANGED <<schedulerVars, unanswered>>, ConnectorTypeOK', QueryNext,
           \A q \in Query : ~ScheduleFetches(q)
    PROVE  QuietStep
<1>1. ASSUME NEW q \in Query, CreateNext(q)
      PROVE  QuietStep
  <2>1. UNCHANGED <<net, up>>
    BY <1>1 DEF CreateNext, CreateQuery, CreateReadCache, CreateReadFails, CreateFromCache,
                SaveNewQuery, SaveNewSubqueries, CreateSaveFails
  <2>2. \/ UNCHANGED creating
        \/ \E c \in CreateStep : creating[q] # "answered" /\ creating' = [creating EXCEPT ![q] = c]
    BY <1>1 DEF CreateNext, CreateQuery, CreateReadCache, CreateReadFails, CreateFromCache,
                SaveNewQuery, SaveNewSubqueries, CreateSaveFails, CreateStep
  <2>3. AnswersStand
    BY <2>2, UnchangedStands, CreatingStands
  <2>. QED
    BY <2>1, <2>3, SameStands, QuietParts
<1>2. ASSUME NEW m \in net, HandleResultLoad(m)
      PROVE  QuietStep
  <2>1. CASE QueryManagerCrash
    BY <2>1, QueryManagerCrashQuiet
  <2>2. CASE net' = net \ {m} /\ UNCHANGED <<up, creating>>
    <3>1. {m} \in SUBSET net /\ \A n \in {m} : n.to # "request-scheduler"
      BY <1>2 DEF HandleResultLoad, Arrives
    <3>2. BrokerStands
      BY <2>2, <3>1, TakeStands
    <3>. QED
      BY <2>2, <3>2, UnchangedStands, QuietParts
  <2>. QED
    BY <1>2, <2>1, <2>2 DEF HandleResultLoad
<1>3. ASSUME NEW s \in Subqueries, HandleNext(s)
      PROVE  QuietStep
  <2>1. CASE QueryManagerCrash
    BY <2>1, QueryManagerCrashQuiet
  <2>2. CASE UNCHANGED <<net, up, creating>>
    BY <2>2, SameStands, UnchangedStands, QuietParts
  <2>. QED
    BY <1>3, <2>1, <2>2 DEF HandleNext, HandleResultReadCache, HandleResultReadFails,
        HandleResultSaveQuery, HandleResultSaveSubquery, NotifyCallback, CallbackResponds,
        CallbackUnreachable
<1>4. CASE HandleResultDatabaseFails
  BY <1>4, QueryManagerCrashQuiet DEF HandleResultDatabaseFails
<1>. QED
  BY <1>1, <1>2, <1>3, <1>4 DEF QueryNext

\* So are the cache manager's, but for those that restart it.
LEMMA CacheQuiet ==
    ASSUME HeldInOnePlace, RecordDeaths, UNCHANGED <<schedulerVars, unanswered>>, ConnectorTypeOK', UNCHANGED queryVars, CacheNext
    PROVE  QuietStep
<1>1. AnswersStand
  BY UnchangedStands DEF queryVars
<1>2. ASSUME CacheManagerCrash
      PROVE  BrokerStands
  BY <1>2, CrashStands DEF CacheManagerCrash, EngineServices
<1>3. ASSUME NEW m \in net, UpdateCacheFind(m)
      PROVE  BrokerStands
  <2>1. {m} \in SUBSET net /\ \A n \in {m} : n.to # "request-scheduler"
    BY <1>3 DEF UpdateCacheFind, Arrives
  <2>. QED
    BY <1>3, <2>1, TakeStands DEF UpdateCacheFind
<1>4. ASSUME NEW u \in updating, UpdateCacheSave(u)
      PROVE  BrokerStands
  BY <1>4, SameStands DEF UpdateCacheSave
<1>5. BrokerStands
  BY <1>2, <1>3, <1>4 DEF CacheNext, UpdateCacheDuplicateKey, UpdateCacheFails
<1>. QED
  BY <1>1, <1>5, QuietParts

\* So are the connector's.
LEMMA ConnectorQuiet ==
    ASSUME HeldInOnePlace, RecordDeaths, UNCHANGED <<schedulerVars, unanswered>>, ConnectorTypeOK', UNCHANGED queryVars, ConnectorNext
    PROVE  QuietStep
<1>1. AnswersStand
  BY UnchangedStands DEF queryVars
<1>2. ASSUME SwapiConnectorCrash
      PROVE  BrokerStands
  BY <1>2, CrashStands DEF SwapiConnectorCrash, EngineServices
<1>3. ASSUME NEW m \in net, FetchDataCached(m) \/ FetchDataMissing(m)
      PROVE  BrokerStands
  <2>1. {m} \in SUBSET net /\ \A n \in {m} : n.to # "request-scheduler"
    BY <1>3 DEF FetchDataCached, FetchDataMissing, Arrives
  <2>. QED
    BY <1>3, <2>1, TakeStands DEF FetchDataCached, FetchDataMissing
<1>4. ASSUME NEW s \in fetching, NEW r \in SwapiResults, SwapiAnswers(s, r)
      PROVE  BrokerStands
  <2>1. s \in SubqueryId /\ r \in Result
    BY SwapiAssumption DEF HeldInOnePlace, ConnectorTypeOK
  <2>. QED
    BY <1>4, <2>1, EmitStands DEF SwapiAnswers
<1>5. BrokerStands
  BY <1>2, <1>3, <1>4 DEF ConnectorNext, FetchDataCacheDown, SwapiFails
<1>. QED
  BY <1>1, <1>5, QuietParts

\* So are the gateway's and the restarts.
LEMMA GatewayQuiet ==
    ASSUME HeldInOnePlace, RecordDeaths, UNCHANGED <<schedulerVars, unanswered>>, ConnectorTypeOK', UNCHANGED queryVars, GatewayNext
    PROVE  QuietStep
BY SameStands, UnchangedStands, QuietParts DEF GatewayNext, queryVars

LEMMA CacheRestartQuiet ==
    ASSUME HeldInOnePlace, RecordDeaths, UNCHANGED <<schedulerVars, unanswered>>, ConnectorTypeOK', RestartCacheManager
    PROVE  QuietStep
<1>1. PICK hung \in SUBSET {m \in net : m.to = "swapi-connector"} : net' = net \ hung
  BY DEF RestartCacheManager
<1>2. hung \in SUBSET net /\ \A m \in hung : m.to # "request-scheduler"
  OBVIOUS
<1>3. BrokerStands
  BY <1>1, <1>2, StartStands DEF RestartCacheManager
<1>. QED
  BY <1>3, CutStands, QuietParts DEF RestartCacheManager

LEMMA RestartQuiet ==
    ASSUME HeldInOnePlace, RecordDeaths, ConnectorTypeOK', RestartStep
    PROVE  QuietStep
<1>1. PICK svc \in Restartable \ {"cache-manager"} : Start(svc)
  BY DEF RestartStep
<1>2. {} \in SUBSET net /\ net' = net \ {}
  BY DEF RestartStep
<1>3. BrokerStands
  BY <1>1, <1>2, StartStands
<1>. QED
  BY <1>3, UnchangedStands, QuietParts DEF RestartStep, engineVars, limitVars, historyVars, queryVars

\* The connector's variables keep their types.
LEMMA ConnectorTypeStep ==
    ASSUME HeldInOnePlace, Next
    PROVE  ConnectorTypeOK'
<1> USE DEF HeldInOnePlace, ConnectorTypeOK
<1>1. CASE UNCHANGED connectorVars
  BY <1>1 DEF connectorVars
<1>2. CASE ConnectorNext
  <2>1. ASSUME SwapiConnectorCrash PROVE ConnectorTypeOK'
    BY <2>1 DEF SwapiConnectorCrash
  <2>2. ASSUME NEW m \in net, FetchDataCached(m) PROVE ConnectorTypeOK'
    BY <2>2 DEF FetchDataCached, connectorVars
  <2>3. ASSUME NEW m \in net, FetchDataMissing(m) PROVE ConnectorTypeOK'
    <3>1. m.id \in SubqueryId
      BY DeliveryFacts DEF NatsTypeOK
    <3>. QED
      BY <2>3, <3>1 DEF FetchDataMissing
  <2>4. ASSUME NEW s \in fetching, NEW r \in SwapiResults, SwapiAnswers(s, r) PROVE ConnectorTypeOK'
    BY <2>4, SwapiAssumption DEF SwapiAnswers
  <2>. QED
    BY <1>2, <2>1, <2>2, <2>3, <2>4 DEF ConnectorNext, FetchDataCacheDown, SwapiFails
<1>. QED
  BY <1>1, <1>2 DEF Next, EngineStep, LimitStep, RestartStep, engineVars

-----------------------------------------------------------------------------
(* The scheduler's steps *)

\* What an asking state is.
LEMMA AskingFacts ==
    ASSUME HeldInOnePlace
    PROVE  /\ asking \in [SubqueryId -> AskingStep]
           /\ jobs \subseteq Job /\ active \subseteq Job
           /\ \A j, k \in active : j = k
           /\ \A j \in jobs \cup active : j.id \in SubqueryId
           /\ \A m \in net : m.id \in SubqueryId
           /\ \A s \in SubqueryId : QueryOf(s) \in Query
<1>1. \A m \in net : m.id \in SubqueryId
  BY DeliveryFacts DEF HeldInOnePlace, NatsTypeOK
<1>2. \A s \in SubqueryId : QueryOf(s) \in Query
  BY DEF SubqueryId, QueryOf
<1>. QED
  BY <1>1, <1>2 DEF HeldInOnePlace, SchedulerTypeOK, Job

\* Where a fetch is that the scheduler holds.
Trace(s) ==
    \/ \E m \in net : m.to = "request-scheduler" /\ m.id = s
    \/ asking[s] \in {"asked", "free", "limited"}
    \/ asking[s] \in {"hung", "failed"} /\ s \in ActiveId
    \/ \E j \in jobs : j.id = s

LEMMA HeldTraces == \A s \in SubqueryId : s \in Held <=> Trace(s)
BY DEF Held, Trace

LEMMA HeldTracesNext == \A s \in SubqueryId : s \in Held' <=> Trace(s)'
BY DEF Held, Trace

LEMMA HeldType == ASSUME HeldInOnePlace PROVE Held \subseteq SubqueryId
BY AskingFacts DEF Held

LEMMA HeldTypeNext == ASSUME NatsTypeOK', SchedulerTypeOK' PROVE Held' \subseteq SubqueryId
<1>1. \A m \in net' : m.id \in SubqueryId
  BY DeliveryFacts DEF NatsTypeOK
<1>2. \A j \in jobs' : j.id \in SubqueryId
  BY DEF SchedulerTypeOK, Job
<1>. QED
  BY <1>1, <1>2 DEF Held

\* What every step of the scheduler keeps.
LEMMA SchedulerKeeps ==
    ASSUME HeldInOnePlace, NatsTypeOK', ConnectorTypeOK', SchedulerTypeOK', EventsAreFresh',
           JobsAreSingle', UnansweredAreLeft', unanswered' \subseteq SubqueryId,
           "request-scheduler" \in up', UNCHANGED creating,
           \A s \in SubqueryId : s \in Unpublished' \cup Queued' \/ asking'[s] # "idle" =>
                                    s \in Unpublished \cup Queued \/ asking[s] # "idle"
    PROVE  HeldInOnePlace'
<1>1. TracesAreAnswered'
  BY DEF HeldInOnePlace, TracesAreAnswered
<1>. QED
  BY <1>1 DEF HeldInOnePlace

\* The query manager schedules its fetches: the scheduler holds them from now on.
LEMMA ScheduleFetchesHeld ==
    ASSUME HeldInOnePlace, RecordDeaths, UNCHANGED <<schedulerVars, unanswered>>, ConnectorTypeOK',
           NEW q \in Query, ScheduleFetches(q)
    PROVE  /\ HeldInOnePlace'
           /\ Unpublished' = Unpublished \cup TargetSubqueries(q)
           /\ Inner(net') = Inner(net)
<1> DEFINE T == TargetSubqueries(q)
           E == Emitted("schedule-fetch", T, "null")
<1>1. /\ creating[q] = "subqueries" /\ creating' = [creating EXCEPT ![q] = "answered"]
      /\ net' = net \cup E /\ UNCHANGED up
  BY DEF ScheduleFetches
<1>2. T \subseteq SubqueryId /\ \A s \in T : QueryOf(s) = q
  BY DEF TargetSubqueries, SubqueriesOf, QueryOf
<1>3. E = {[to |-> "request-scheduler", subject |-> "schedule-fetch", id |-> s, result |-> "null"] : s \in T}
  <2>1. Subscribers("schedule-fetch") \cap up = {"request-scheduler"}
    BY SubscriberFacts DEF HeldInOnePlace
  <2>. QED
    BY <2>1 DEF Emitted
<1>4. \A s \in T : s \notin Unpublished \cup Queued /\ asking[s] = "idle"
  BY <1>1, <1>2 DEF HeldInOnePlace, TracesAreAnswered
<1>5. E \subseteq Delivery
  BY <1>2, EmittedType DEF Subject, Result
<1>6. NatsTypeOK'
  BY <1>1, <1>5 DEF HeldInOnePlace, NatsTypeOK, RecordDeaths
<1>7. Held' = Held \cup T
  <2>1. Events' = Events \cup E
    BY <1>1, <1>3 DEF Events
  <2>2. \A s \in T : \E m \in E : m.id = s
    <3> TAKE s \in T
    <3>1. [to |-> "request-scheduler", subject |-> "schedule-fetch", id |-> s, result |-> "null"] \in E
      BY <1>3
    <3>. QED
      BY <3>1
  <2>3. \A m \in E : m.id \in T
    BY <1>3
  <2>4. {m.id : m \in Events'} = {m.id : m \in Events} \cup T
    BY <2>1, <2>2, <2>3
  <2>. QED
    BY <2>4, HeldByEvents DEF Held, Events, schedulerVars, ActiveId
<1>13. Unpublished' = Unpublished \cup T
  BY <1>7 DEF Unpublished
<1>8. SchedulerTypeOK' /\ UnansweredAreLeft' /\ JobsAreSingle' /\ Queued' = Queued
  BY <1>1 DEF HeldInOnePlace, SchedulerTypeOK, UnansweredAreLeft, JobsAreSingle, schedulerVars, Queued, ActiveId,
      RecordDeaths
<1>9. EventsAreFresh'
  <2> SUFFICES ASSUME NEW m \in net', m.to = "request-scheduler"
               PROVE  m.id \notin Queued \cup unanswered /\ asking[m.id] = "idle" /\ m.result = "null"
    BY <1>8 DEF EventsAreFresh, schedulerVars
  <2>1. CASE m \in net
    BY <2>1 DEF HeldInOnePlace, EventsAreFresh
  <2>2. CASE m \in E
    BY <2>2, <1>3, <1>4 DEF Unpublished
  <2>. QED
    BY <1>1, <2>1, <2>2
<1>10. creating' \in [Query -> CreateStep]
  BY <1>1 DEF HeldInOnePlace, CreateStep
<1>11. TracesAreAnswered'
  BY <1>1, <1>2, <1>8, <1>13, AskingFacts DEF HeldInOnePlace, TracesAreAnswered, schedulerVars
<1>12. Inner(net') = Inner(net)
  BY <1>1, <1>3 DEF Inner
<1>. QED
  BY <1>1, <1>6, <1>8, <1>9, <1>10, <1>11, <1>12, <1>13 DEF HeldInOnePlace

\* The scheduler takes an event.
LEMMA ScheduleRequestHeld ==
    ASSUME HeldInOnePlace, RecordDeaths, ConnectorTypeOK', UNCHANGED <<creating, unanswered>>,
           NEW m \in net, ScheduleRequest(m)
    PROVE  HeldInOnePlace' /\ Unpublished' = Unpublished /\ Inner(net') = Inner(net)
<1> DEFINE f == m.id
<1>1. /\ m.to = "request-scheduler" /\ f \in SubqueryId
      /\ net' = net \ {m} /\ asking' = [asking EXCEPT ![f] = "asked"]
      /\ UNCHANGED <<up, active, jobs>>
  BY AskingFacts DEF ScheduleRequest, Arrives
<1>2. f \notin Queued \cup unanswered /\ asking[f] = "idle"
  BY <1>1 DEF HeldInOnePlace, EventsAreFresh
<1>3. NatsTypeOK'
  BY <1>1 DEF HeldInOnePlace, NatsTypeOK, RecordDeaths
<1>4. SchedulerTypeOK'
  BY <1>1 DEF HeldInOnePlace, SchedulerTypeOK, AskingStep
<1>5. \A n \in net' : n.to = "request-scheduler" => n.id # f
  <2> SUFFICES ASSUME NEW n \in net, n.to = "request-scheduler", n.id = f
               PROVE  n = m
    BY <1>1
  <2>1. m \in Delivery /\ n \in Delivery /\ m.result = "null" /\ n.result = "null"
    BY <1>1 DEF HeldInOnePlace, NatsTypeOK, EventsAreFresh
  <2>. QED
    BY <1>1, <2>1, DeliveryFacts
<1>6. EventsAreFresh'
  BY <1>1, <1>5, AskingFacts DEF HeldInOnePlace, EventsAreFresh, Queued, ActiveId
<1>7. JobsAreSingle'
  BY <1>1, <1>2, AskingFacts DEF HeldInOnePlace, JobsAreSingle, Queued
<1>8. \A s \in SubqueryId : Trace(s)' <=> Trace(s)
  <2> SUFFICES ASSUME NEW s \in SubqueryId PROVE Trace(s)' <=> Trace(s)
    OBVIOUS
  <2>1. CASE s = f
    BY <1>1, <2>1, AskingFacts DEF Trace
  <2>2. CASE s # f
    BY <1>1, <2>2, AskingFacts DEF Trace, ActiveId
  <2>. QED
    BY <2>1, <2>2
<1>9. Held' = Held
  BY <1>3, <1>4, <1>8, HeldTraces, HeldTracesNext, HeldType, HeldTypeNext
<1>10. Queued' = Queued /\ f \in Held
  BY <1>1, HeldTraces DEF Queued, ActiveId, Trace
<1>11. UnansweredAreLeft'
  BY <1>1, <1>2, AskingFacts DEF HeldInOnePlace, UnansweredAreLeft, RecordDeaths
<1>12. HeldInOnePlace'
  BY <1>1, <1>3, <1>4, <1>6, <1>7, <1>9, <1>10, <1>11, AskingFacts, SchedulerKeeps
  DEF HeldInOnePlace, Unpublished
<1>. QED
  BY <1>1, <1>9, <1>12 DEF Inner, Unpublished

\* The worker takes a job.
LEMMA StartJobHeld ==
    ASSUME HeldInOnePlace, RecordDeaths, ConnectorTypeOK', UNCHANGED <<creating, unanswered>>,
           NEW j \in jobs, StartJob(j)
    PROVE  HeldInOnePlace' /\ Unpublished' = Unpublished /\ Inner(net') = Inner(net)
<1> DEFINE f == j.id
<1>1. /\ f \in SubqueryId /\ jobs' = jobs \ {j} /\ active = {} /\ active' = {j}
      /\ asking' = [asking EXCEPT ![f] = "asked"]
      /\ UNCHANGED <<net, up>>
  BY AskingFacts DEF StartJob
<1>2. NatsTypeOK'
  BY <1>1 DEF HeldInOnePlace, NatsTypeOK, RecordDeaths
<1>3. SchedulerTypeOK'
  BY <1>1 DEF HeldInOnePlace, SchedulerTypeOK, AskingStep
<1>4. Queued' = Queued /\ f \in Queued
  BY <1>1 DEF Queued, ActiveId
<1>5. EventsAreFresh'
  BY <1>1, <1>4, AskingFacts DEF HeldInOnePlace, EventsAreFresh
<1>6. \A k \in jobs' : k.id # f
  BY <1>1 DEF HeldInOnePlace, JobsAreSingle
<1>7. JobsAreSingle'
  BY <1>1, <1>6, AskingFacts DEF HeldInOnePlace, JobsAreSingle
<1>8. \A s \in SubqueryId : Trace(s)' <=> Trace(s)
  <2> SUFFICES ASSUME NEW s \in SubqueryId PROVE Trace(s)' <=> Trace(s)
    OBVIOUS
  <2>1. CASE s = f
    BY <1>1, <2>1, AskingFacts DEF Trace
  <2>2. CASE s # f
    BY <1>1, <2>2, AskingFacts DEF Trace, ActiveId
  <2>. QED
    BY <2>1, <2>2
<1>9. Held' = Held
  BY <1>2, <1>3, <1>8, HeldTraces, HeldTracesNext, HeldType, HeldTypeNext
<1>10. UnansweredAreLeft'
  BY <1>1, AskingFacts DEF HeldInOnePlace, UnansweredAreLeft, RecordDeaths
<1>11. HeldInOnePlace'
  BY <1>1, <1>2, <1>3, <1>4, <1>5, <1>7, <1>9, <1>10, AskingFacts, SchedulerKeeps
  DEF HeldInOnePlace, Unpublished
<1>. QED
  BY <1>1, <1>9, <1>11 DEF Unpublished

\* The traffic controller answers.
LEMMA CheckUsageHeld ==
    ASSUME HeldInOnePlace, RecordDeaths, ConnectorTypeOK', UNCHANGED <<creating, unanswered>>,
           NEW f \in SubqueryId, CheckUsage(f)
    PROVE  HeldInOnePlace' /\ Unpublished' = Unpublished /\ Inner(net') = Inner(net)
<1>1. PICK a \in {"limited", "free"} : asking' = [asking EXCEPT ![f] = a]
  BY DEF CheckUsage
<1>2. asking[f] = "asked" /\ UNCHANGED <<net, up, active, jobs>>
  BY DEF CheckUsage
<1>3. NatsTypeOK'
  BY <1>2 DEF HeldInOnePlace, NatsTypeOK, RecordDeaths
<1>4. SchedulerTypeOK' /\ Queued' = Queued
  BY <1>1, <1>2 DEF HeldInOnePlace, SchedulerTypeOK, AskingStep, Queued, ActiveId
<1>5. EventsAreFresh'
  BY <1>1, <1>2, <1>4, AskingFacts DEF HeldInOnePlace, EventsAreFresh
<1>6. JobsAreSingle'
  BY <1>1, <1>2, AskingFacts DEF HeldInOnePlace, JobsAreSingle
<1>7. \A s \in SubqueryId : Trace(s)' <=> Trace(s)
  BY <1>1, <1>2, AskingFacts DEF Trace, ActiveId
<1>8. Held' = Held
  BY <1>3, <1>4, <1>7, HeldTraces, HeldTracesNext, HeldType, HeldTypeNext
<1>9. UnansweredAreLeft'
  BY <1>1, <1>2, AskingFacts DEF HeldInOnePlace, UnansweredAreLeft, RecordDeaths
<1>10. HeldInOnePlace'
  BY <1>1, <1>2, <1>3, <1>4, <1>5, <1>6, <1>8, <1>9, AskingFacts, SchedulerKeeps
  DEF HeldInOnePlace, Unpublished
<1>. QED
  BY <1>2, <1>8, <1>10 DEF Unpublished

\* A fetch that found the limit reached is put into the queue.
LEMMA ScheduleForLaterHeld ==
    ASSUME HeldInOnePlace, RecordDeaths, ConnectorTypeOK', UNCHANGED <<creating, unanswered>>,
           NEW f \in SubqueryId, ScheduleForLater(f)
    PROVE  HeldInOnePlace' /\ Unpublished' = Unpublished /\ Inner(net') = Inner(net)
<1>1. PICK later \in Job : later.id = f /\ jobs' = jobs \cup {later}
  <2>1. [id |-> f, delay |-> Delay, stalled |-> FALSE] \in Job
    BY DelayAssumption DEF Job
  <2>. QED
    BY <2>1 DEF ScheduleForLater
<1>2. PICK a \in {"done", "idle"} : asking' = [asking EXCEPT ![f] = a]
  BY DEF ScheduleForLater, Return
<1>3. asking[f] = "limited" /\ UNCHANGED <<net, up, active>>
  BY DEF ScheduleForLater
<1>4. NatsTypeOK'
  BY <1>3 DEF HeldInOnePlace, NatsTypeOK, RecordDeaths
<1>5. SchedulerTypeOK'
  BY <1>1, <1>2, <1>3 DEF HeldInOnePlace, SchedulerTypeOK, AskingStep
<1>6. Queued' = Queued \cup {f}
  BY <1>1, <1>3 DEF Queued, ActiveId
<1>7. EventsAreFresh'
  BY <1>2, <1>3, <1>6, AskingFacts DEF HeldInOnePlace, EventsAreFresh
<1>8. \A k \in jobs : k.id # f
  BY <1>3 DEF HeldInOnePlace, JobsAreSingle
<1>9. JobsAreSingle'
  BY <1>1, <1>2, <1>8, AskingFacts DEF HeldInOnePlace, JobsAreSingle
<1>10. \A s \in SubqueryId : Trace(s)' <=> Trace(s)
  <2> SUFFICES ASSUME NEW s \in SubqueryId PROVE Trace(s)' <=> Trace(s)
    OBVIOUS
  <2>1. CASE s = f
    BY <1>1, <1>3, <2>1 DEF Trace
  <2>2. CASE s # f
    BY <1>1, <1>2, <1>3, <2>2, AskingFacts DEF Trace, ActiveId
  <2>. QED
    BY <2>1, <2>2
<1>11. Held' = Held
  BY <1>4, <1>5, <1>10, HeldTraces, HeldTracesNext, HeldType, HeldTypeNext
<1>12. UnansweredAreLeft'
  BY <1>1, <1>2, <1>3, AskingFacts DEF HeldInOnePlace, UnansweredAreLeft, RecordDeaths
<1>13. HeldInOnePlace'
  BY <1>2, <1>3, <1>4, <1>5, <1>6, <1>7, <1>9, <1>11, <1>12, AskingFacts, SchedulerKeeps
  DEF HeldInOnePlace, Unpublished
<1>. QED
  BY <1>3, <1>11, <1>13 DEF Unpublished

\* The worker is through with a job.
LEMMA CompleteJobHeld ==
    ASSUME HeldInOnePlace, RecordDeaths, ConnectorTypeOK', UNCHANGED <<creating, unanswered>>,
           NEW j \in active, CompleteJob(j)
    PROVE  HeldInOnePlace' /\ Unpublished' = Unpublished /\ Inner(net') = Inner(net)
<1> DEFINE f == j.id
<1>1. /\ f \in SubqueryId /\ asking[f] \in {"done", "failed"}
      /\ asking' = [asking EXCEPT ![f] = "idle"]
      /\ active' = {} /\ ActiveId = {f} /\ ActiveId' = {} /\ UNCHANGED <<net, up, jobs>>
  BY AskingFacts DEF CompleteJob, ActiveId
<1>2. NatsTypeOK'
  BY <1>1 DEF HeldInOnePlace, NatsTypeOK, RecordDeaths
<1>3. SchedulerTypeOK' /\ Queued' \subseteq Queued
  BY <1>1 DEF HeldInOnePlace, SchedulerTypeOK, AskingStep, Queued
<1>4. EventsAreFresh'
  BY <1>1, <1>3, AskingFacts DEF HeldInOnePlace, EventsAreFresh
<1>5. JobsAreSingle'
  BY <1>1, AskingFacts DEF HeldInOnePlace, JobsAreSingle
<1>6. \A s \in SubqueryId : (Trace(s)' \/ s \in unanswered) <=> (Trace(s) \/ s \in unanswered)
  <2> SUFFICES ASSUME NEW s \in SubqueryId, s \notin unanswered PROVE Trace(s)' <=> Trace(s)
    OBVIOUS
  <2>1. asking[s] \notin {"hung", "failed"}
    BY DEF HeldInOnePlace, UnansweredAreLeft
  <2>2. asking'[s] \notin {"hung", "failed"}
    BY <1>1, <2>1, AskingFacts
  <2>3. asking'[s] \in {"asked", "free", "limited"} <=> asking[s] \in {"asked", "free", "limited"}
    BY <1>1, AskingFacts
  <2>. QED
    BY <1>1, <2>1, <2>2, <2>3 DEF Trace
<1>7. Unpublished' = Unpublished
  <2>1. Held \subseteq SubqueryId /\ Held' \subseteq SubqueryId
    BY <1>2, <1>3, HeldType, HeldTypeNext
  <2>. QED
    BY <1>6, <2>1, HeldTraces, HeldTracesNext DEF Unpublished
<1>8. UnansweredAreLeft'
  BY <1>1, AskingFacts DEF HeldInOnePlace, UnansweredAreLeft, RecordDeaths
<1>9. HeldInOnePlace'
  BY <1>1, <1>2, <1>3, <1>4, <1>5, <1>7, <1>8, AskingFacts, SchedulerKeeps DEF HeldInOnePlace
<1>. QED
  BY <1>1, <1>7, <1>9

\* A fetch is published: the scheduler holds it no more.
LEMMA RequestNowHeld ==
    ASSUME HeldInOnePlace, RecordDeaths, ConnectorTypeOK', UNCHANGED <<creating, unanswered>>,
           NEW f \in SubqueryId, RequestNow(f)
    PROVE  /\ HeldInOnePlace' /\ f \in Unpublished /\ Unpublished' = Unpublished \ {f}
           /\ net' = net \cup Emitted("fetch", {f}, "null")
<1>1. PICK a \in {"done", "idle"} : asking' = [asking EXCEPT ![f] = a]
  BY DEF RequestNow, Return
<1>2. /\ asking[f] = "free" /\ UNCHANGED <<up, active, jobs>>
      /\ net' = net \cup Emitted("fetch", {f}, "null")
  BY DEF RequestNow
<1>3. BrokerStands
  <2>1. {f} \in SUBSET SubqueryId /\ "null" \in Result
    BY DEF Result
  <2>. QED
    BY <1>2, <2>1, EmitStands
<1>4. NatsTypeOK' /\ \A m : m.to = "request-scheduler" => (m \in net <=> m \in net')
  BY <1>3 DEF BrokerStands
<1>5. SchedulerTypeOK' /\ Queued' = Queued
  BY <1>1, <1>2 DEF HeldInOnePlace, SchedulerTypeOK, AskingStep, Queued, ActiveId
<1>6. EventsAreFresh'
  <2> SUFFICES ASSUME NEW m \in net', m.to = "request-scheduler"
               PROVE  m.id \notin Queued \cup unanswered /\ asking'[m.id] = "idle" /\ m.result = "null"
    BY <1>5 DEF EventsAreFresh
  <2>1. m \in net
    BY <1>4
  <2>. QED
    BY <1>1, <1>2, <2>1, AskingFacts DEF HeldInOnePlace, EventsAreFresh
<1>7. JobsAreSingle'
  BY <1>1, <1>2, AskingFacts DEF HeldInOnePlace, JobsAreSingle
<1>8. f \in Held
  BY <1>2, HeldTraces DEF Trace
<1>9. ~Trace(f)'
  <2>1. \A m \in net' : ~(m.to = "request-scheduler" /\ m.id = f)
    BY <1>2, <1>4 DEF HeldInOnePlace, EventsAreFresh
  <2>2. \A j \in jobs' : j.id # f
    BY <1>2 DEF HeldInOnePlace, JobsAreSingle
  <2>3. asking'[f] \in {"done", "idle"}
    BY <1>1, AskingFacts
  <2>. QED
    BY <2>1, <2>2, <2>3 DEF Trace
<1>10. \A s \in SubqueryId : s # f => (Trace(s)' <=> Trace(s))
  <2> SUFFICES ASSUME NEW s \in SubqueryId, s # f PROVE Trace(s)' <=> Trace(s)
    OBVIOUS
  <2>1. (\E m \in net' : m.to = "request-scheduler" /\ m.id = s)
            <=> (\E m \in net : m.to = "request-scheduler" /\ m.id = s)
    BY <1>4
  <2>2. asking'[s] = asking[s] /\ jobs' = jobs /\ active' = active
    BY <1>1, <1>2, AskingFacts
  <2>. QED
    BY <2>1, <2>2 DEF Trace, ActiveId
<1>11. Held' = Held \ {f}
  BY <1>4, <1>5, <1>9, <1>10, HeldTraces, HeldTracesNext, HeldType, HeldTypeNext
<1>12. f \notin unanswered
  BY <1>2 DEF HeldInOnePlace, UnansweredAreLeft
<1>13. UnansweredAreLeft'
  BY <1>1, <1>2, AskingFacts DEF HeldInOnePlace, UnansweredAreLeft, RecordDeaths
<1>14. f \in Unpublished /\ Unpublished' = Unpublished \ {f}
  BY <1>8, <1>11, <1>12 DEF Unpublished
<1>15. HeldInOnePlace'
  BY <1>1, <1>2, <1>4, <1>5, <1>6, <1>7, <1>13, <1>14, AskingFacts, SchedulerKeeps
  DEF HeldInOnePlace
<1>. QED
  BY <1>2, <1>14, <1>15

\* The traffic controller counts a fetch.
LEMMA LogUsageHeld ==
    ASSUME HeldInOnePlace, RecordDeaths, ConnectorTypeOK', UNCHANGED <<creating, schedulerVars, unanswered>>,
           NEW m \in net, LogUsage(m)
    PROVE  HeldInOnePlace' /\ Unpublished' = Unpublished /\ Inner(net') = Inner(net)
<1>1. m.to = "traffic-controller" /\ net' = net \ {m} /\ UNCHANGED up
  BY DEF LogUsage, Arrives
<1>2. {m} \in SUBSET net /\ \A n \in {m} : n.to # "request-scheduler"
  BY <1>1
<1>3. BrokerStands
  BY <1>1, <1>2, TakeStands
<1>4. QuietStep
  BY <1>3, UnchangedStands, QuietParts
<1>5. Inner(net') = Inner(net)
  BY <1>1 DEF Inner
<1>. QED
  BY <1>4, <1>5, QuietKeeps

\* Jobs come closer.
LEMMA TickHeld ==
    ASSUME HeldInOnePlace, RecordDeaths, ConnectorTypeOK', UNCHANGED <<net, up, creating, asking, active, unanswered>>,
           JobsFallDue
    PROVE  HeldInOnePlace' /\ Unpublished' = Unpublished
<1> DEFINE closer(j) == [j EXCEPT !.delay = IF @ > 0 THEN @ - 1 ELSE 0]
<1>1. jobs' = {closer(j) : j \in jobs}
  BY DEF JobsFallDue
<1>2. \A j \in jobs : closer(j) \in Job /\ closer(j).id = j.id
  BY AskingFacts, DelayAssumption DEF Job
<1>3. NatsTypeOK'
  BY DEF HeldInOnePlace, NatsTypeOK, RecordDeaths
<1>4. SchedulerTypeOK'
  BY <1>1, <1>2 DEF HeldInOnePlace, SchedulerTypeOK
<1>5. /\ \A k \in jobs' : \E j \in jobs : k = closer(j) /\ k.id = j.id
      /\ \A j \in jobs : \E k \in jobs' : k.id = j.id
  BY <1>1, <1>2
<1>6. Queued' = Queued
  BY <1>5 DEF Queued, ActiveId
<1>7. EventsAreFresh'
  BY <1>6 DEF HeldInOnePlace, EventsAreFresh
<1>8. JobsAreSingle'
  <2> SUFFICES ASSUME NEW j \in jobs', NEW k \in jobs'
               PROVE  asking[j.id] \in {"idle", "done"} /\ (k.id = j.id => k = j)
    BY DEF JobsAreSingle
  <2>1. PICK i \in jobs : j = closer(i) /\ j.id = i.id
    BY <1>5
  <2>2. PICK l \in jobs : k = closer(l) /\ k.id = l.id
    BY <1>5
  <2>3. asking[i.id] \in {"idle", "done"} /\ (l.id = i.id => l = i)
    BY DEF HeldInOnePlace, JobsAreSingle
  <2>. QED
    BY <2>1, <2>2, <2>3
<1>9. \A s \in SubqueryId : Trace(s)' <=> Trace(s)
  BY <1>5 DEF Trace, ActiveId
<1>10. Held' = Held
  BY <1>3, <1>4, <1>9, HeldTraces, HeldTracesNext, HeldType, HeldTypeNext
<1>11. UnansweredAreLeft'
  <2>1. {k.id : k \in jobs'} = {j.id : j \in jobs}
    BY <1>5
  <2>. QED
    BY <2>1 DEF HeldInOnePlace, UnansweredAreLeft, RecordDeaths
<1>12. HeldInOnePlace'
  BY <1>3, <1>4, <1>6, <1>7, <1>8, <1>10, <1>11, SchedulerKeeps DEF HeldInOnePlace, Unpublished
<1>. QED
  BY <1>10, <1>12 DEF Unpublished

\* A check that a job never gets answered leaves the fetch unpublished.
LEMMA CheckFailsHeld ==
    ASSUME HeldInOnePlace, RecordDeaths, ConnectorTypeOK', UNCHANGED creating,
           NEW f \in SubqueryId, CheckFails(f), "request-scheduler" \notin died'
    PROVE  /\ HeldInOnePlace' /\ Unpublished' = Unpublished /\ UNCHANGED <<net, up>>
<1>0. ~RequestSchedulerCrash
  BY DEF RequestSchedulerCrash, Crash, RecordDeaths, HeldInOnePlace
<1>1. /\ asking[f] = "asked" /\ asking' = [asking EXCEPT ![f] = "failed"]
      /\ unanswered' = unanswered \cup {f}
      /\ "traffic-controller" \notin up
      /\ UNCHANGED <<net, up, active, jobs>>
  BY <1>0 DEF CheckFails, CheckUsageFails
<1>2. NatsTypeOK'
  BY <1>1 DEF HeldInOnePlace, NatsTypeOK, RecordDeaths
<1>3. SchedulerTypeOK' /\ Queued' = Queued /\ ActiveId' = ActiveId
  BY <1>1 DEF HeldInOnePlace, SchedulerTypeOK, AskingStep, Queued, ActiveId
<1>4. EventsAreFresh'
  BY <1>1, <1>3, AskingFacts DEF HeldInOnePlace, EventsAreFresh
<1>5. JobsAreSingle' /\ \A j \in jobs : j.id # f
  BY <1>1, AskingFacts DEF HeldInOnePlace, JobsAreSingle
<1>6. UnansweredAreLeft'
  BY <1>1, <1>5, AskingFacts DEF HeldInOnePlace, UnansweredAreLeft, RecordDeaths
<1>7. Unpublished' = Unpublished
  <2>1. f \in Held
    BY <1>1, HeldTraces DEF Trace
  <2>2. \A s \in SubqueryId : s # f => (Trace(s)' <=> Trace(s))
    BY <1>1, <1>3, AskingFacts DEF Trace
  <2>3. Held \subseteq SubqueryId /\ Held' \subseteq SubqueryId
    BY <1>2, <1>3, HeldType, HeldTypeNext
  <2>. QED
    BY <1>1, <2>1, <2>2, <2>3, HeldTraces, HeldTracesNext DEF Unpublished
<1>8. HeldInOnePlace'
  BY <1>1, <1>2, <1>3, <1>4, <1>5, <1>6, <1>7, AskingFacts, SchedulerKeeps DEF HeldInOnePlace
<1>. QED
  BY <1>1, <1>7, <1>8

\* The traffic controller dies, and leaves checks unanswered.
LEMMA DieHeld ==
    ASSUME HeldInOnePlace, RecordDeaths, ConnectorTypeOK', UNCHANGED creating, Die
    PROVE  /\ HeldInOnePlace' /\ Unpublished' = Unpublished /\ Inner(net') = Inner(net)
           /\ UNCHANGED <<up \ {"traffic-controller"}, died \ {"traffic-controller"}>>
<1>1. /\ "traffic-controller" \in up /\ up' = up \ {"traffic-controller"}
      /\ net' = {m \in net : m.to # "traffic-controller"}
      /\ unanswered' = unanswered \cup {s \in SubqueryId : asking'[s] = "hung"}
      /\ UNCHANGED <<active, jobs>>
  BY DEF Die, TrafficControllerDies, RedisConnectionLost, Crash
<1>0. died' = died \cup {"traffic-controller"}
  BY <1>1 DEF RecordDeaths
<1>2. PICK hung \in SUBSET {s \in SubqueryId : asking[s] = "asked"} :
        asking' = [s \in SubqueryId |-> IF s \in hung THEN "hung" ELSE asking[s]]
  BY DEF Die, TrafficControllerDies
<1>3. /\ \A s \in hung : s \in SubqueryId /\ asking[s] = "asked" /\ asking'[s] = "hung"
      /\ \A s \in SubqueryId \ hung : asking'[s] = asking[s]
  BY <1>2
<1>4. NatsTypeOK'
  BY <1>0, <1>1 DEF HeldInOnePlace, NatsTypeOK
<1>5. SchedulerTypeOK' /\ Queued' = Queued /\ ActiveId' = ActiveId
  BY <1>1, <1>2, AskingFacts DEF HeldInOnePlace, SchedulerTypeOK, AskingStep, Queued, ActiveId
<1>6. unanswered' = unanswered \cup hung
  <2>1. \A s \in SubqueryId : asking'[s] = "hung" => s \in unanswered \cup hung
    BY <1>3 DEF HeldInOnePlace, UnansweredAreLeft
  <2>. QED
    BY <1>1, <1>3, <2>1
<1>7. EventsAreFresh'
  BY <1>1, <1>3, <1>5, <1>6, AskingFacts DEF HeldInOnePlace, EventsAreFresh
<1>8. JobsAreSingle' /\ \A j \in jobs : j.id \notin hung
  BY <1>1, <1>3, AskingFacts DEF HeldInOnePlace, JobsAreSingle
<1>9. UnansweredAreLeft'
  BY <1>0, <1>1, <1>3, <1>6, <1>8, AskingFacts DEF HeldInOnePlace, UnansweredAreLeft
<1>10. Unpublished' = Unpublished
  <2>1. hung \subseteq Held
    BY <1>3, HeldTraces DEF Trace
  <2>2. \A s \in SubqueryId \ hung : Trace(s)' <=> Trace(s)
    BY <1>1, <1>3, <1>5 DEF Trace
  <2>3. Held \subseteq SubqueryId /\ Held' \subseteq SubqueryId
    BY <1>4, <1>5, HeldType, HeldTypeNext
  <2>. QED
    BY <1>6, <2>1, <2>2, <2>3, HeldTraces, HeldTracesNext DEF Unpublished
<1>11. HeldInOnePlace'
  BY <1>1, <1>3, <1>4, <1>5, <1>6, <1>7, <1>8, <1>9, <1>10, AskingFacts, SchedulerKeeps
  DEF HeldInOnePlace
<1>. QED
  BY <1>0, <1>1, <1>10, <1>11 DEF Inner

-----------------------------------------------------------------------------
(* The steps of the scheduling side, as the engine sees them *)

\* To publish a fetch is to dispatch it.
LEMMA RequestNowInEngine ==
    ASSUME HeldInOnePlace, NEW f \in Unpublished, Unpublished' = Unpublished \ {f}, UNCHANGED up,
           net' = net \cup Emitted("fetch", {f}, "null")
    PROVE  \E m \in EngineNet : Engine!Dispatch(m)
<1> DEFINE m == [to |-> "request-scheduler", subject |-> "schedule-fetch", id |-> f, result |-> "null"]
           E == Engine!Emitted("fetch", {f}, "null")
<1>1. m \in EngineNet
  BY EngineNetParts DEF Waiting
<1>2. Engine!Arrives(m, "request-scheduler", "schedule-fetch")
  BY <1>1 DEF Engine!Arrives, HeldInOnePlace
<1>3. Inner(Emitted("fetch", {f}, "null")) = E
  <2>1. Engine!Subscribers("fetch") = {"swapi-connector"}
    BY SystemServices DEF Engine!Subscribers, Engine!Subscriptions
  <2>2. ASSUME NEW n \in Inner(Emitted("fetch", {f}, "null")) PROVE n \in E
    <3>1. PICK svc \in Subscribers("fetch") \cap up :
            n = [to |-> svc, subject |-> "fetch", id |-> f, result |-> "null"]
      BY DEF Inner, Emitted
    <3>2. svc = "swapi-connector" /\ svc \in up \ {"traffic-controller"}
      BY <3>1, SubscriberFacts DEF Inner
    <3>. QED
      BY <2>1, <3>1, <3>2 DEF Engine!Emitted
  <2>3. ASSUME NEW n \in E PROVE n \in Inner(Emitted("fetch", {f}, "null"))
    <3>1. PICK svc \in Engine!Subscribers("fetch") \cap (up \ {"traffic-controller"}) :
            n = [to |-> svc, subject |-> "fetch", id |-> f, result |-> "null"]
      BY DEF Engine!Emitted
    <3>2. n.to = "swapi-connector" /\ svc \in Subscribers("fetch") \cap up
      BY <2>1, <3>1, SubscriberFacts
    <3>. QED
      BY <3>1, <3>2 DEF Inner, Emitted
  <2>. QED
    BY <2>2, <2>3
<1>4. Inner(net') = Inner(net) \cup E
  BY <1>3 DEF Inner
<1>5. Waiting(Unpublished') = Waiting(Unpublished) \ {m} /\ m \notin Inner(net)
  BY DEF Waiting, Inner
<1>6. EngineNet' = (EngineNet \ {m}) \cup E
  BY <1>4, <1>5, EngineNetParts, EngineNetPartsNext
<1>7. Engine!Dispatch(m)
  BY <1>2, <1>6 DEF Engine!Dispatch
<1>. QED
  BY <1>1, <1>7

\* To schedule the fetches of a query is to do so for the engine.
LEMMA ScheduleFetchesInEngine ==
    ASSUME HeldInOnePlace, NEW q \in Query, ScheduleFetches(q), Unpublished' = Unpublished \cup TargetSubqueries(q),
           Inner(net') = Inner(net)
    PROVE  Engine!ScheduleFetches(q)
<1> DEFINE T == TargetSubqueries(q)
<1>1. Engine!Subscribers("schedule-fetch") = {"request-scheduler"}
  BY SystemServices DEF Engine!Subscribers, Engine!Subscriptions
<1>2. Engine!Subscribers("schedule-fetch") \cap (up \ {"traffic-controller"}) = {"request-scheduler"}
  BY <1>1 DEF HeldInOnePlace
<1>3. Engine!Emitted("schedule-fetch", T, "null") = Waiting(T)
  BY <1>2 DEF Engine!Emitted, Waiting
<1>4. Waiting(Unpublished') = Waiting(Unpublished) \cup Waiting(T)
  BY DEF Waiting
<1>5. EngineNet' = EngineNet \cup Engine!Emitted("schedule-fetch", T, "null")
  BY <1>3, <1>4, EngineNetParts, EngineNetPartsNext
<1>. QED
  BY <1>5, SameData DEF ScheduleFetches, Engine!ScheduleFetches

-----------------------------------------------------------------------------
(* The theorems *)

\* What a step has to do: keep the invariant, and be one of the engine or invisible to it.
Step == HeldInOnePlace' /\ [Engine!Next]_(Engine!vars)

\* A step of the engine's services that is quiet for the scheduler.
LEMMA EngineStepKeeps ==
    ASSUME HeldInOnePlace, EngineStep, RecordDeaths, UNCHANGED request, ConnectorTypeOK'
    PROVE  Step
<1> USE DEF EngineStep, limitVars, historyVars
<1>1. Engine!RecordDeaths
  BY DeathsInEngine
<1>2. ASSUME QuietStep PROVE HeldInOnePlace' /\ Unpublished' = Unpublished
  BY <1>2, QuietKeeps
<1>3. CASE QueryNext /\ UNCHANGED <<cacheVars, connectorVars, consumer>>
  <2>1. CASE \E q \in Query : ScheduleFetches(q)
    <3>1. PICK q \in Query : ScheduleFetches(q)
      BY <2>1
    <3>2. HeldInOnePlace' /\ Unpublished' = Unpublished \cup TargetSubqueries(q) /\ Inner(net') = Inner(net)
      BY <3>1, ScheduleFetchesHeld
    <3>3. Engine!ScheduleFetches(q)
      BY <3>1, <3>2, ScheduleFetchesInEngine
    <3>4. Engine!QueryNext
      BY <3>3 DEF Engine!QueryNext, Engine!CreateNext
    <3>. QED
      BY <1>1, <1>3, <3>2, <3>4 DEF Step, Engine!Next, Engine!QueryManagerStep, cacheVars,
          connectorVars, Engine!cacheVars, Engine!connectorVars
  <2>2. CASE \A q \in Query : ~ScheduleFetches(q)
    <3>1. QuietStep
      BY <1>3, <2>2, QueryQuiet
    <3>2. Engine!QueryNext
      BY <1>2, <1>3, <2>2, <3>1, QueryInEngine
    <3>. QED
      BY <1>1, <1>2, <1>3, <3>1, <3>2 DEF Step, Engine!Next, Engine!QueryManagerStep, cacheVars,
          connectorVars, Engine!cacheVars, Engine!connectorVars
  <2>. QED
    BY <2>1, <2>2
<1>4. CASE CacheNext /\ UNCHANGED <<connectorVars, queryVars, consumer>>
  <2>1. QuietStep
    BY <1>4, CacheQuiet
  <2>2. Engine!CacheNext
    BY <1>2, <1>4, <2>1, CacheInEngine
  <2>. QED
    BY <1>1, <1>2, <1>4, <2>1, <2>2 DEF Step, Engine!Next, Engine!CacheManagerStep, queryVars,
        connectorVars, Engine!queryVars, Engine!connectorVars
<1>5. CASE ConnectorNext /\ UNCHANGED <<cacheVars, queryVars, consumer>>
  <2>1. QuietStep
    BY <1>5, ConnectorQuiet
  <2>2. Engine!ConnectorNext
    BY <1>2, <1>5, <2>1, ConnectorInEngine
  <2>. QED
    BY <1>1, <1>2, <1>5, <2>1, <2>2 DEF Step, Engine!Next, Engine!ConnectorStep, queryVars,
        cacheVars, Engine!queryVars, Engine!cacheVars
<1>6. CASE GatewayNext /\ UNCHANGED <<cacheVars, connectorVars, queryVars>>
  <2>1. QuietStep
    BY <1>6, GatewayQuiet
  <2>2. Engine!GatewayNext
    BY <1>2, <1>6, <2>1, GatewayInEngine
  <2>. QED
    BY <1>1, <1>2, <1>6, <2>1, <2>2 DEF Step, Engine!Next, Engine!GatewayStep, queryVars, cacheVars,
        connectorVars, Engine!queryVars, Engine!cacheVars, Engine!connectorVars
<1>7. CASE RestartCacheManager /\ UNCHANGED <<connectorVars, consumer>>
  <2>1. QuietStep
    BY <1>7, CacheRestartQuiet
  <2>2. Engine!RestartCacheManager
    BY <1>2, <1>7, <2>1, CacheRestartInEngine
  <2>. QED
    BY <1>1, <1>2, <1>7, <2>1, <2>2 DEF Step, Engine!Next, Engine!RestartStep, connectorVars,
        Engine!connectorVars
<1>. QED
  BY <1>3, <1>4, <1>5, <1>6, <1>7

\* A step that the engine does not see.
LEMMA Unseen ==
    ASSUME HeldInOnePlace', Unpublished' = Unpublished, Inner(net') = Inner(net),
           UNCHANGED <<request, up \ {"traffic-controller"}, died \ {"traffic-controller"}, engineVars>>
    PROVE  Step
<1>1. EngineNet' = EngineNet
  BY EngineNetParts, EngineNetPartsNext
<1>. QED
  BY <1>1 DEF Step, Engine!vars, engineVars, cacheVars, connectorVars, queryVars,
      Engine!cacheVars, Engine!connectorVars, Engine!queryVars

\* A step of the scheduler on its own.
LEMMA SchedulerStepKeeps ==
    ASSUME HeldInOnePlace, SchedulerStep, UNCHANGED engineVars, RecordDeaths, UNCHANGED request, ConnectorTypeOK'
    PROVE  Step
<1>0. UNCHANGED <<creating, unanswered>>
  BY DEF engineVars, queryVars, SchedulerStep, historyVars
<1>1. ASSUME UNCHANGED up PROVE died' = died
  BY <1>1 DEF RecordDeaths
<1>2. ASSUME NEW m \in net, ScheduleRequest(m) PROVE Step
  BY <1>0, <1>1, <1>2, ScheduleRequestHeld, Unseen DEF ScheduleRequest
<1>3. ASSUME NEW j \in jobs, StartJob(j) PROVE Step
  BY <1>0, <1>1, <1>3, StartJobHeld, Unseen DEF StartJob
<1>4. ASSUME NEW s \in Subqueries, ScheduleForLater(s) PROVE Step
  <2>1. s \in SubqueryId
    BY DEF Subqueries
  <2>. QED
    BY <1>0, <1>1, <1>4, <2>1, ScheduleForLaterHeld, Unseen DEF ScheduleForLater
<1>5. ASSUME NEW j \in active, CompleteJob(j) PROVE Step
  BY <1>0, <1>1, <1>5, CompleteJobHeld, Unseen DEF CompleteJob
<1>. QED
  BY <1>2, <1>3, <1>4, <1>5 DEF SchedulerStep

\* A step of the scheduler and the traffic controller.
LEMMA LimitStepKeeps ==
    ASSUME HeldInOnePlace, LimitStep, RecordDeaths, UNCHANGED request, ConnectorTypeOK',
           "request-scheduler" \notin died'
    PROVE  Step
<1>0. UNCHANGED <<engineVars, creating>>
  BY DEF LimitStep, engineVars, queryVars
<1>1. ASSUME UNCHANGED up PROVE died' = died
  BY <1>1 DEF RecordDeaths
<1>2. Subqueries \subseteq SubqueryId
  BY DEF Subqueries
<1>3. ASSUME NEW s \in Subqueries, Check(s) PROVE Step
  <2>1. s \in SubqueryId
    BY <1>2
  <2>. QED
    BY <1>0, <1>1, <1>3, <2>1, CheckUsageHeld, Unseen DEF Check, CheckUsage
<1>4. ASSUME NEW s \in Subqueries, Publish(s) PROVE Step
  <2>1. s \in SubqueryId
    BY <1>2
  <2>2. /\ HeldInOnePlace' /\ s \in Unpublished /\ Unpublished' = Unpublished \ {s}
        /\ net' = net \cup Emitted("fetch", {s}, "null") /\ UNCHANGED up
    BY <1>0, <1>4, <2>1, RequestNowHeld DEF Publish, RequestNow
  <2>3. \E m \in EngineNet : Engine!Dispatch(m)
    BY <2>2, RequestNowInEngine
  <2>4. Engine!SchedulerStep
    BY <1>0, <2>3 DEF Engine!SchedulerStep, engineVars, cacheVars, connectorVars, queryVars,
        Engine!cacheVars, Engine!connectorVars, Engine!queryVars
  <2>. QED
    BY <2>2, <2>4, DeathsInEngine DEF Step, Engine!Next
<1>5. ASSUME SchedulerStep PROVE Step
  BY <1>0, <1>5, SchedulerStepKeeps
<1>6. ASSUME NEW m \in net, Count(m) PROVE Step
  <2>1. UNCHANGED <<schedulerVars, up, unanswered>> /\ LogUsage(m)
    BY <1>6 DEF Count, LogUsage, historyVars
  <2>2. died' = died
    BY <1>1, <2>1
  <2>. QED
    BY <1>0, <2>1, <2>2, LogUsageHeld, Unseen
<1>7. ASSUME Die PROVE Step
  BY <1>0, <1>7, DieHeld, Unseen
<1>9. ASSUME NEW s \in Subqueries, CheckFails(s) PROVE Step
  BY <1>0, <1>1, <1>2, <1>9, CheckFailsHeld, Unseen
<1>8. ASSUME Tick PROVE Step
  <2>1. UNCHANGED <<net, up, asking, active, unanswered>> /\ JobsFallDue
    BY <1>8 DEF Tick
  <2>2. died' = died
    BY <1>1, <2>1
  <2>. QED
    BY <1>0, <2>1, <2>2, TickHeld, Unseen
<1>. QED
  BY <1>3, <1>4, <1>5, <1>6, <1>7, <1>8, <1>9 DEF LimitStep, LimitNext

\* Any step.
LEMMA StepKeeps == "request-scheduler" \notin died' /\ HeldInOnePlace /\ [Next]_vars => Step
<1> SUFFICES ASSUME "request-scheduler" \notin died', HeldInOnePlace, [Next]_vars PROVE Step
  OBVIOUS
<1>1. CASE UNCHANGED vars
  <2>1. Unpublished' = Unpublished /\ Queued' = Queued
    BY <1>1 DEF vars, limitVars, schedulerVars, historyVars, Unpublished, Held, Queued, ActiveId
  <2>2. HeldInOnePlace'
    BY <1>1, <2>1
    DEF vars, limitVars, schedulerVars, historyVars, engineVars, queryVars, connectorVars,
        HeldInOnePlace, NatsTypeOK, SchedulerTypeOK, ConnectorTypeOK, UnansweredAreLeft,
        EventsAreFresh, JobsAreSingle, TracesAreAnswered
  <2>. QED
    BY <1>1, <2>1, <2>2, Unseen DEF vars
<1>2. CASE Next
  <2>0. ConnectorTypeOK' /\ RecordDeaths /\ UNCHANGED request
    BY <1>2, ConnectorTypeStep DEF Next
  <2>1. CASE EngineStep
    BY <2>0, <2>1, EngineStepKeeps
  <2>2. CASE LimitStep
    BY <2>0, <2>2, LimitStepKeeps
  <2>3. CASE RestartStep
    <3>1. QuietStep
      BY <2>0, <2>3, RestartQuiet
    <3>2. HeldInOnePlace' /\ Unpublished' = Unpublished
      BY <3>1, QuietKeeps
    <3>3. EngineNet' = EngineNet
      BY <2>3, <3>2, SameForEngine DEF RestartStep
    <3>4. PICK svc \in Restartable \ {"cache-manager"} : Start(svc)
      BY <2>3 DEF RestartStep
    <3>5. CASE svc = "traffic-controller"
      <4>1. UNCHANGED <<up \ {"traffic-controller"}, died \ {"traffic-controller"}, engineVars>>
        BY <2>0, <2>3, <3>4, <3>5 DEF RestartStep, Start, RecordDeaths
      <4>. QED
        BY <2>0, <2>3, <3>2, <4>1, Unseen DEF RestartStep
    <3>6. CASE svc # "traffic-controller"
      <4>1. Engine!Start("query-manager") \/ Engine!Start("swapi-connector")
        <5>1. svc \in {"query-manager", "swapi-connector"}
          BY <3>4, <3>6, RestartAssumption, SystemServices DEF Start, HeldInOnePlace
        <5>. QED
          BY <3>4, <5>1 DEF Start, Engine!Start
      <4>2. Engine!RestartStep
        BY <2>0, <2>3, <3>3, <4>1 DEF RestartStep, Engine!RestartStep, engineVars, cacheVars,
            connectorVars, queryVars, Engine!cacheVars, Engine!connectorVars, Engine!queryVars
      <4>. QED
        BY <2>0, <3>2, <4>2, DeathsInEngine DEF Step, Engine!Next
    <3>. QED
      BY <3>5, <3>6
  <2>. QED
    BY <1>2, <2>1, <2>2, <2>3 DEF Next
<1>. QED
  BY <1>1, <1>2

\* At the start nothing is scheduled, for the engine either.
LEMMA StartKeeps == Init => HeldInOnePlace /\ Engine!Init
<1> SUFFICES ASSUME Init PROVE HeldInOnePlace /\ Engine!Init
  OBVIOUS
<1>1. net = {} /\ jobs = {} /\ active = {} /\ asking = [s \in SubqueryId |-> "idle"]
      /\ up = Services /\ died = {} /\ fetching = {} /\ swapiLog = {}
      /\ creating = [q \in Query |-> "idle"]
  BY DEF Init, NatsInit, SchedulerInit, ConnectorInit, QueryInit
<1>2. Unpublished = {} /\ Queued = {} /\ unanswered = {}
  BY <1>1 DEF Unpublished, Held, Queued, ActiveId, Init, HistoryInit
<1>3. NatsTypeOK /\ ConnectorTypeOK /\ SchedulerTypeOK /\ creating \in [Query -> CreateStep]
  BY <1>1 DEF NatsTypeOK, ConnectorTypeOK, SchedulerTypeOK, AskingStep, CreateStep
<1>4. UnansweredAreLeft /\ EventsAreFresh /\ JobsAreSingle /\ TracesAreAnswered
  BY <1>1, <1>2, SystemServices DEF UnansweredAreLeft, EventsAreFresh, JobsAreSingle, TracesAreAnswered
<1>5. EngineNet = {}
  BY <1>1, <1>2 DEF EngineNet
<1>6. Engine!NatsInit
  BY <1>1, <1>5 DEF Engine!NatsInit
<1>7. Engine!CacheInit /\ Engine!ConnectorInit /\ Engine!GatewayInit
  BY DEF Init, CacheInit, Engine!CacheInit, ConnectorInit, Engine!ConnectorInit, GatewayInit,
      Engine!GatewayInit, NoView, Engine!NoView
<1>8. Engine!QueryInit
  BY SameData DEF Init, QueryInit, Engine!QueryInit
<1>9. Engine!Init
  BY <1>6, <1>7, <1>8 DEF Init, Engine!Init
<1>. QED
  BY <1>1, <1>2, <1>3, <1>4, <1>9, SystemServices DEF HeldInOnePlace

\* A step keeps the invariant; and as long as the scheduler has not died, it is one of the
\* engine, or invisible to it.
LEMMA StepIInv ==
    IInv /\ [Next]_vars => /\ IInv'
                           /\ "request-scheduler" \notin died' => [Engine!Next]_(Engine!vars)
<1> SUFFICES ASSUME IInv, [Next]_vars, "request-scheduler" \notin died'
             PROVE  HeldInOnePlace' /\ [Engine!Next]_(Engine!vars)
  BY DEF IInv
<1>1. died \subseteq died'
  BY DEF Next, RecordDeaths, vars
<1>2. HeldInOnePlace
  BY <1>1 DEF IInv
<1>. QED
  BY <1>2, StepKeeps DEF Step

\* As long as the scheduler has not died, a fetch it holds is in one place, and a check that
\* was not answered, because the traffic controller died, is not taken up again.
THEOREM SystemInvariant == Spec => []IInv
<1>1. Init => IInv
  BY StartKeeps DEF IInv
<1>2. IInv /\ [Next]_vars => IInv'
  BY StepIInv
<1>. QED
  BY <1>1, <1>2, PTL DEF Spec

\* As long as the scheduler has not died, the five services together take only the steps
\* that Aggregation allows: the checks, the delayed queue with its worker, the count of
\* fetches, and the deaths and restarts of the traffic controller refine an atomic dispatch.
THEOREM SystemKeepsEngine == Spec => EngineKept
<1>1. Init => Engine!Init
  BY StartKeeps
<1>2. IInv /\ [Next]_vars => ["request-scheduler" \in died' \/ Engine!Next]_(Engine!vars)
  BY StepIInv
<1>. QED
  BY <1>1, <1>2, SystemInvariant, PTL DEF Spec, EngineKept

=============================================================================
