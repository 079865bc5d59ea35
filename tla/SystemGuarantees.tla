--------------------------- MODULE SystemGuarantees ---------------------------
(***************************************************************************)
(* What the five services promise together: the theorems about the         *)
(* aggregation engine and about the rate limiting, both of which the       *)
(* system implements, cited through the two refinements, for any queries,  *)
(* paths, payloads, limit, window and delay, and whatever fails.  Those    *)
(* about the engine hold as long as the scheduler itself has not died.     *)
(***************************************************************************)
EXTENDS SystemProofs, SystemLimitProofs

\* The theorems about Aggregation, for the engine within the system: the substitution
\* is that of Engine.
Theorems == INSTANCE QueryLifeProofs WITH
    Services <- Services \ {"traffic-controller"},
    Restartable <- Restartable \ {"request-scheduler", "traffic-controller"},
    up <- up \ {"traffic-controller"},
    died <- died \ {"traffic-controller"},
    net <- EngineNet

-----------------------------------------------------------------------------
(* What Aggregation assumes of its constants holds of the engine within the system *)

LEMMA EngineServiceSet ==
    Services \ {"traffic-controller"} =
        {"query-manager", "cache-manager", "swapi-connector", "request-scheduler"}
BY SystemServices

LEMMA EngineRestarts ==
    Restartable \ {"request-scheduler", "traffic-controller"}
        \subseteq Services \ {"traffic-controller"}
BY RestartAssumption

LEMMA EngineWorkloads ==
    /\ MaxSubqueries \in Nat
    /\ \A w \in Workloads :
        /\ w \in [Query -> Theorems!CreateQueryRequestDto]
        /\ \A q \in Query : Len(w[q].subqueries) <= MaxSubqueries
BY WorkloadsAssumption DEF CreateQueryRequestDto, Theorems!CreateQueryRequestDto

LEMMA EngineSwapi ==
    /\ SwapiResults \subseteq Theorems!Result
    /\ SwapiMayFail \in BOOLEAN
BY SwapiAssumption DEF Result, Theorems!Result

-----------------------------------------------------------------------------
(* Theorems and Engine are the same engine: their definitions differ in name only *)

\* The query manager.
LEMMA SameQueryManager ==
    Theorems!QueryNext <=> Engine!QueryNext
BY DEF Engine!SubqueryId, Theorems!SubqueryId, Engine!Subqueries, Theorems!Subqueries,
       Engine!SubqueriesOf, Theorems!SubqueriesOf, Engine!QueryOf, Theorems!QueryOf,
       Engine!PathOf, Theorems!PathOf, Engine!Subscriptions, Theorems!Subscriptions,
       Engine!Subscribers, Theorems!Subscribers, Engine!Emitted, Theorems!Emitted,
       Engine!Arrives, Theorems!Arrives, Engine!Crash, Theorems!Crash, Engine!CacheRead,
       Theorems!CacheRead, Engine!CacheAnswers, Theorems!CacheAnswers, Engine!CacheReadFails,
       Theorems!CacheReadFails, Engine!Unread, Theorems!Unread, Engine!IdleHandler,
       Theorems!IdleHandler, Engine!QueryManagerCrash, Theorems!QueryManagerCrash,
       Engine!CreateQuery, Theorems!CreateQuery, Engine!CreateReadCache,
       Theorems!CreateReadCache, Engine!CreateReadFails, Theorems!CreateReadFails,
       Engine!CreateFromCache, Theorems!CreateFromCache, Engine!SaveNewQuery,
       Theorems!SaveNewQuery, Engine!SaveNewSubqueries, Theorems!SaveNewSubqueries,
       Engine!CreateSaveFails, Theorems!CreateSaveFails, Engine!TargetSubqueries,
       Theorems!TargetSubqueries, Engine!ScheduleFetches, Theorems!ScheduleFetches,
       Engine!HandleResultLoad, Theorems!HandleResultLoad, Engine!HandleResultReadCache,
       Theorems!HandleResultReadCache, Engine!HandleResultReadFails,
       Theorems!HandleResultReadFails, Engine!HaveAllResults, Theorems!HaveAllResults,
       Engine!HandleResultSaveQuery, Theorems!HandleResultSaveQuery,
       Engine!HandleResultSaveSubquery, Theorems!HandleResultSaveSubquery,
       Engine!HandleResultDatabaseFails, Theorems!HandleResultDatabaseFails,
       Engine!NotifyCallback, Theorems!NotifyCallback, Engine!CallbackResponds,
       Theorems!CallbackResponds, Engine!CallbackUnreachable, Theorems!CallbackUnreachable,
       Engine!CreateNext, Theorems!CreateNext, Engine!HandleNext, Theorems!HandleNext,
       Engine!QueryNext, Theorems!QueryNext

\* The cache manager.
LEMMA SameCacheManager ==
    Theorems!CacheNext <=> Engine!CacheNext
BY DEF Engine!SubqueryId, Theorems!SubqueryId, Engine!Subqueries, Theorems!Subqueries,
       Engine!SubqueriesOf, Theorems!SubqueriesOf, Engine!QueryOf, Theorems!QueryOf,
       Engine!PathOf, Theorems!PathOf, Engine!Subscriptions, Theorems!Subscriptions,
       Engine!Subscribers, Theorems!Subscribers, Engine!Emitted, Theorems!Emitted,
       Engine!Arrives, Theorems!Arrives, Engine!Crash, Theorems!Crash, Engine!cacheVars,
       Theorems!cacheVars, Engine!CacheManagerCrash, Theorems!CacheManagerCrash,
       Engine!UpdateCacheFind, Theorems!UpdateCacheFind, Engine!UpdateCacheSave,
       Theorems!UpdateCacheSave, Engine!UpdateCacheDuplicateKey,
       Theorems!UpdateCacheDuplicateKey, Engine!UpdateCacheFails, Theorems!UpdateCacheFails,
       Engine!CacheNext, Theorems!CacheNext

\* The SWAPI connector.
LEMMA SameConnector ==
    Theorems!ConnectorNext <=> Engine!ConnectorNext
BY DEF Engine!SubqueryId, Theorems!SubqueryId, Engine!Subqueries, Theorems!Subqueries,
       Engine!SubqueriesOf, Theorems!SubqueriesOf, Engine!QueryOf, Theorems!QueryOf,
       Engine!PathOf, Theorems!PathOf, Engine!Subscriptions, Theorems!Subscriptions,
       Engine!Subscribers, Theorems!Subscribers, Engine!Emitted, Theorems!Emitted,
       Engine!Arrives, Theorems!Arrives, Engine!Crash, Theorems!Crash, Engine!CacheRead,
       Theorems!CacheRead, Engine!CacheAnswers, Theorems!CacheAnswers, Engine!CacheReadFails,
       Theorems!CacheReadFails, Engine!connectorVars, Theorems!connectorVars,
       Engine!SwapiConnectorCrash, Theorems!SwapiConnectorCrash, Engine!FetchDataCached,
       Theorems!FetchDataCached, Engine!FetchDataMissing, Theorems!FetchDataMissing,
       Engine!FetchDataCacheDown, Theorems!FetchDataCacheDown, Engine!SwapiAnswers,
       Theorems!SwapiAnswers, Engine!SwapiFails, Theorems!SwapiFails, Engine!ConnectorNext,
       Theorems!ConnectorNext

\* The gateway.
LEMMA SameGateway ==
    Theorems!GatewayNext <=> Engine!GatewayNext
BY DEF Engine!SubqueryId, Theorems!SubqueryId, Engine!Subqueries, Theorems!Subqueries,
       Engine!SubqueriesOf, Theorems!SubqueriesOf, Engine!QueryOf, Theorems!QueryOf,
       Engine!PathOf, Theorems!PathOf, Engine!FetchQueryResults, Theorems!FetchQueryResults,
       Engine!RespondStored, Theorems!RespondStored, Engine!RespondCached,
       Theorems!RespondCached, Engine!RespondError, Theorems!RespondError, Engine!GetQuery,
       Theorems!GetQuery, Engine!GatewayNext, Theorems!GatewayNext

\* The scheduler, at its promise.
LEMMA SameDispatch ==
    \A m : Theorems!Dispatch(m) <=> Engine!Dispatch(m)
BY DEF Engine!Subscriptions, Theorems!Subscriptions, Engine!Subscribers, Theorems!Subscribers,
       Engine!Emitted, Theorems!Emitted, Engine!Arrives, Theorems!Arrives, Engine!Crash,
       Theorems!Crash, Engine!Dispatch, Theorems!Dispatch

\* Restarts and deaths.
LEMMA SameRestarts ==
    /\ Theorems!RestartCacheManager <=> Engine!RestartCacheManager
    /\ \A svc : Theorems!Start(svc) <=> Engine!Start(svc)
    /\ Theorems!RecordDeaths <=> Engine!RecordDeaths
BY DEF Engine!SubqueryId, Theorems!SubqueryId, Engine!Subqueries, Theorems!Subqueries,
       Engine!SubqueriesOf, Theorems!SubqueriesOf, Engine!QueryOf, Theorems!QueryOf,
       Engine!PathOf, Theorems!PathOf, Engine!IdleHandler, Theorems!IdleHandler, Engine!Unread,
       Theorems!Unread, Engine!Start, Theorems!Start, Engine!cacheVars, Theorems!cacheVars,
       Engine!CacheReadsHang, Theorems!CacheReadsHang, Engine!RestartCacheManager,
       Theorems!RestartCacheManager, Engine!RecordDeaths, Theorems!RecordDeaths

\* The states an engine starts in.
LEMMA SameInit ==
    Theorems!Init <=> Engine!Init
BY DEF Engine!SubqueryId, Theorems!SubqueryId, Engine!Unread, Theorems!Unread, Engine!IdleHandler,
       Theorems!IdleHandler, Engine!NoView, Theorems!NoView, Engine!NatsInit, Theorems!NatsInit,
       Engine!CacheInit, Theorems!CacheInit, Engine!ConnectorInit, Theorems!ConnectorInit,
       Engine!QueryInit, Theorems!QueryInit, Engine!GatewayInit, Theorems!GatewayInit,
       Engine!Init, Theorems!Init

\* The steps an engine takes.
LEMMA SameNext ==
    [Theorems!Next]_(Theorems!vars) <=> [Engine!Next]_(Engine!vars)
BY SameQueryManager, SameCacheManager, SameConnector, SameGateway, SameDispatch, SameRestarts
   DEF Engine!cacheVars, Theorems!cacheVars, Engine!connectorVars, Theorems!connectorVars,
       Engine!queryVars, Theorems!queryVars, Engine!vars, Theorems!vars,
       Engine!QueryManagerStep, Theorems!QueryManagerStep, Engine!CacheManagerStep,
       Theorems!CacheManagerStep, Engine!ConnectorStep, Theorems!ConnectorStep,
       Engine!SchedulerStep, Theorems!SchedulerStep, Engine!GatewayStep, Theorems!GatewayStep,
       Engine!RestartStep, Theorems!RestartStep, Engine!Next, Theorems!Next

-----------------------------------------------------------------------------
(* The engine within the system *)

SchedulerLives == "request-scheduler" \notin died

\* A step that leaves the scheduler alive is one of the engine the theorems are about.
LEMMA StepOfEngine ==
    IInv /\ [Next]_vars /\ SchedulerLives' => SchedulerLives /\ [Theorems!Next]_(Theorems!vars)
<1>1. [Next]_vars => died \subseteq died'
  BY DEF Next, RecordDeaths, vars
<1>. QED
  BY <1>1, StepIInv, SameNext DEF SchedulerLives

\* What the engine knows before a step it knows after.
LEMMA EngineIInvStep ==
    Theorems!IInv /\ [Theorems!Next]_(Theorems!vars) => Theorems!IInv'
BY Theorems!IInvStep, EngineServiceSet, EngineRestarts, EngineWorkloads, EngineSwapi,
   DatabaseAssumption, CallbackAssumption, ObservedAssumption

\* The engine's inductive invariant holds as long as the scheduler has not died.
LEMMA EngineInvariance == Spec => [](SchedulerLives => Theorems!IInv)
<1>1. Init => Theorems!IInv
  BY StartKeeps, SameInit, Theorems!InitIInv, EngineServiceSet, EngineRestarts, EngineWorkloads,
     EngineSwapi, DatabaseAssumption, CallbackAssumption, ObservedAssumption
<1>2. IInv /\ (SchedulerLives => Theorems!IInv) /\ [Next]_vars => (SchedulerLives => Theorems!IInv)'
  BY StepOfEngine, EngineIInvStep
<1>. QED
  BY <1>1, <1>2, SystemInvariant, PTL DEF Spec

\* In a behaviour without the scheduler's death the system behaves as that engine.
LEMMA SystemIsEngine == Spec /\ []SchedulerLives => Theorems!Spec
<1>1. Init => Theorems!Init
  BY StartKeeps, SameInit
<1>2. IInv /\ [Next]_vars /\ SchedulerLives' => [Theorems!Next]_(Theorems!vars)
  BY StepOfEngine
<1>. QED
  BY <1>1, <1>2, SystemInvariant, PTL DEF Spec, Theorems!Spec

-----------------------------------------------------------------------------
(* The theorems about RateLimiting, for scheduler and traffic controller within the *)
(* system: the substitution is that of Limiter.                                     *)

Limits == INSTANCE RateLimitingProofs WITH
    Services <- LimitServices,
    Restartable <- Restartable \cap LimitServices,
    up <- up \cap LimitServices,
    died <- died \cap LimitServices,
    net <- LimiterNet,
    scheduled <- Scheduled

LEMMA LimiterServiceSet == LimitServices = {"request-scheduler", "traffic-controller"}
BY DEF LimitServices

LEMMA LimiterRestarts == Restartable \cap LimitServices \subseteq LimitServices
OBVIOUS

LEMMA LimiterWorkloads ==
    /\ MaxSubqueries \in Nat
    /\ \A w \in Workloads :
        /\ w \in [Query -> Limits!CreateQueryRequestDto]
        /\ \A q \in Query : Len(w[q].subqueries) <= MaxSubqueries
BY WorkloadsAssumption DEF CreateQueryRequestDto, Limits!CreateQueryRequestDto

\* Limits and Limiter are the same: their definitions differ in name only.

\* They count alike.
LEMMA SameCount ==
    \A S : Limits!Cardinality(S) = Limiter!Cardinality(S)
BY DEF Limits!Cardinality, Limiter!Cardinality

\* ... and know the same sets to be finite.
LEMMA SameFinite ==
    \A S : Limits!IsFiniteSet(S) <=> IsFiniteSet(S)
BY DEF Limits!IsFiniteSet, IsFiniteSet

\* They read the same of the same entries.
LEMMA SameEntries ==
    /\ Limits!IsRateLimited <=> Limiter!IsRateLimited
    /\ Limits!NoEntries = Limiter!NoEntries
    /\ \A e : /\ Limits!WithNew(e) = Limiter!WithNew(e)
              /\ Limits!InWindow(e) = Limiter!InWindow(e)
              /\ Limits!Older(e) = Limiter!Older(e)
BY SameCount
   DEF Limiter!NoEntries, Limits!NoEntries, Limiter!UsageCount, Limits!UsageCount,
       Limiter!IsRateLimited, Limits!IsRateLimited, Limiter!NewId, Limits!NewId,
       Limiter!WithNew, Limits!WithNew, Limiter!InWindow, Limits!InWindow, Limiter!Older,
       Limits!Older

\* The request scheduler.
LEMMA SameScheduler ==
    /\ Limits!SchedulerStep <=> Limiter!SchedulerStep
    /\ \A s : /\ Limits!Check(s) <=> Limiter!Check(s)
              /\ Limits!CheckFails(s) <=> Limiter!CheckFails(s)
              /\ Limits!Publish(s) <=> Limiter!Publish(s)
BY SameEntries
   DEF Limiter!SubqueryId, Limits!SubqueryId, Limiter!Subqueries, Limits!Subqueries,
       Limiter!Subscriptions, Limits!Subscriptions, Limiter!Subscribers,
       Limits!Subscribers, Limiter!Emitted, Limits!Emitted, Limiter!Arrives,
       Limits!Arrives, Limiter!Crash, Limits!Crash, Limiter!ActiveId, Limits!ActiveId,
       Limiter!RequestSchedulerCrash, Limits!RequestSchedulerCrash,
       Limiter!ScheduleRequest, Limits!ScheduleRequest, Limiter!StartJob, Limits!StartJob,
       Limiter!CheckUsage, Limits!CheckUsage, Limiter!Return, Limits!Return,
       Limiter!CheckUsageFails, Limits!CheckUsageFails, Limiter!CheckFails, Limits!CheckFails, Limiter!ScheduleForLater,
       Limits!ScheduleForLater, Limiter!RequestNow, Limits!RequestNow,
       Limiter!CompleteJob, Limits!CompleteJob, Limiter!Uncounted, Limits!Uncounted,
       Limiter!Allowed, Limits!Allowed, Limiter!SchedulerStep, Limits!SchedulerStep,
       Limiter!Check, Limits!Check, Limiter!Publish, Limits!Publish, Limiter!trafficVars,
       Limits!trafficVars, Limiter!historyVars, Limits!historyVars

\* The traffic controller, and the clock.
LEMMA SameTraffic ==
    /\ \A m : Limits!Count(m) <=> Limiter!Count(m)
    /\ Limits!Die <=> Limiter!Die
    /\ Limits!Tick <=> Limiter!Tick
BY SameEntries
   DEF Limiter!SubqueryId, Limits!SubqueryId, Limiter!Arrives, Limits!Arrives, Limiter!Crash,
       Limits!Crash, Limiter!LogUsage, Limits!LogUsage, Limiter!RedisConnectionLost,
       Limits!RedisConnectionLost, Limiter!TrafficControllerDies,
       Limits!TrafficControllerDies, Limiter!UsageAges, Limits!UsageAges,
       Limiter!JobsFallDue, Limits!JobsFallDue, Limiter!Uncounted, Limits!Uncounted,
       Limiter!Count, Limits!Count, Limiter!Die, Limits!Die, Limiter!Tick, Limits!Tick,
       Limiter!trafficVars, Limits!trafficVars, Limiter!schedulerVars,
       Limits!schedulerVars, Limiter!historyVars, Limits!historyVars

\* Both.
LEMMA SameLimitNext ==
    Limits!LimitNext <=> Limiter!LimitNext
BY SameScheduler, SameTraffic
   DEF Limiter!SubqueryId, Limits!SubqueryId, Limiter!Subqueries, Limits!Subqueries,
       Limiter!LimitNext, Limits!LimitNext

\* The batches of the query manager, restarts and deaths.
LEMMA SameEnvironment ==
    /\ \A q : /\ Limits!ScheduleFetches(q) <=> Limiter!ScheduleFetches(q)
              /\ Limits!ReplaceQuery(q) <=> Limiter!ReplaceQuery(q)
    /\ Limits!Restart <=> Limiter!Restart
    /\ Limits!RecordDeaths <=> Limiter!RecordDeaths
BY SameCount
   DEF Limiter!SubqueryId, Limits!SubqueryId, Limiter!Subqueries, Limits!Subqueries,
       Limiter!ReplaceQuery, Limits!ReplaceQuery, Limiter!Queued, Limits!Queued,
       Limiter!ActiveId, Limits!ActiveId,
       Limiter!SubqueriesOf, Limits!SubqueriesOf, Limiter!Subscriptions,
       Limits!Subscriptions, Limiter!Subscribers, Limits!Subscribers, Limiter!Emitted,
       Limits!Emitted, Limiter!Start, Limits!Start, Limiter!RecordDeaths,
       Limits!RecordDeaths, Limiter!ScheduleFetches, Limits!ScheduleFetches,
       Limiter!Restart, Limits!Restart, Limiter!trafficVars, Limits!trafficVars,
       Limiter!schedulerVars, Limits!schedulerVars, Limiter!historyVars,
       Limits!historyVars

\* The states they start in.
LEMMA SameLimiterInit ==
    Limits!Init <=> Limiter!Init
BY DEF Limiter!SubqueryId, Limits!SubqueryId, Limiter!NoEntries, Limits!NoEntries,
       Limiter!NatsInit, Limits!NatsInit, Limiter!TrafficInit, Limits!TrafficInit,
       Limiter!SchedulerInit, Limits!SchedulerInit, Limiter!HistoryInit,
       Limits!HistoryInit, Limiter!Init, Limits!Init

\* The steps they take.
LEMMA SameLimiterNext ==
    [Limits!Next]_(Limits!vars) <=> [Limiter!Next]_(Limiter!vars)
BY SameLimitNext, SameEnvironment
   DEF Limiter!trafficVars, Limits!trafficVars, Limiter!schedulerVars, Limits!schedulerVars,
       Limiter!historyVars, Limits!historyVars, Limiter!vars, Limits!vars, Limiter!Next,
       Limits!Next

\* The system behaves as the rate limiting the theorems are about.
LEMMA SystemIsLimiter == Spec => Limits!Spec
<1>1. Limiter!Init => Limits!Init
  BY SameLimiterInit
<1>2. [Limiter!Next]_(Limiter!vars) => [Limits!Next]_(Limits!vars)
  BY SameLimiterNext
<1>3. Spec => Limiter!Spec
  BY SystemKeepsLimiter DEF LimiterKept
<1>. QED
  BY <1>1, <1>2, <1>3, PTL DEF Limiter!Spec, Limits!Spec

-----------------------------------------------------------------------------
(* What scheduler and traffic controller guarantee within the system, whatever fails *)

\* As long as no two fetches were between check and count at once, and none was published
\* while the traffic controller was down, the five services together publish no more than
\* RequestLimit fetches in any Window ticks.
THEOREM SystemLimitKept == Spec => []SerialLimit
<1>1. Limits!Spec => []Limits!SerialLimit
  BY Limits!LimitKeptSerially, LimiterServiceSet, LimiterRestarts, LimiterWorkloads,
     TrafficAssumption, DelayAssumption
<1>2. Limits!SerialLimit => SerialLimit
  BY SameCount, SameCardinality
  DEF SerialLimit, Limits!SerialLimit
<1>. QED
  BY <1>1, <1>2, SystemIsLimiter, PTL

\* The traffic controller forgets no fetch of the last day that it was told of.
THEOREM SystemCallsCovered == Spec => []UsageCoversCalls
<1>1. Limits!Spec => []Limits!UsageCoversCalls
  BY Limits!NoCallForgotten, LimiterServiceSet, LimiterRestarts, LimiterWorkloads,
     TrafficAssumption, DelayAssumption
<1>2. Limits!UsageCoversCalls => UsageCoversCalls
  BY SameCount, SameCardinality
  DEF UsageCoversCalls, Limits!UsageCoversCalls, Ages, Limits!Ages, Uncounted,
       Limits!Uncounted, LimiterNet, LimitServices
<1>. QED
  BY <1>1, <1>2, SystemIsLimiter, PTL

\* Whatever fails, the scheduler keeps what it is told to fetch until it publishes it: a death
\* of the traffic controller costs those fetches alone whose check it left unanswered, and
\* only the scheduler's own lets others be forgotten, or be published again.
THEOREM SystemDispatches == Spec => Limiter!DispatchKept
<1>1. Limits!Spec => Limits!DispatchKept
  BY Limits!SchedulerDispatches, LimiterServiceSet, LimiterRestarts, LimiterWorkloads,
     TrafficAssumption, DelayAssumption
<1>2. Limits!Held = Limiter!Held /\ Limits!SubqueryId = Limiter!SubqueryId
  BY DEF Limiter!Held, Limits!Held, Limiter!ActiveId, Limits!ActiveId, Limiter!SubqueryId,
       Limits!SubqueryId
<1>3. Limits!Held' = Limiter!Held'
  BY DEF Limiter!Held, Limits!Held, Limiter!ActiveId, Limits!ActiveId, Limiter!SubqueryId,
       Limits!SubqueryId
<1>4. Limits!Dispatch!DispatchInit => Limiter!Dispatch!DispatchInit
  BY <1>2 DEF Limiter!Dispatch!DispatchInit, Limits!Dispatch!DispatchInit
<1>5. [Limits!Dispatch!DispatchNext]_(Limits!Dispatch!dispatchVars)
        => [Limiter!Dispatch!DispatchNext]_(Limiter!Dispatch!dispatchVars)
  BY <1>2, <1>3
   DEF Limiter!Dispatch!DispatchInit, Limits!Dispatch!DispatchInit,
       Limiter!Dispatch!ScheduleSome, Limits!Dispatch!ScheduleSome,
       Limiter!Dispatch!PublishOne, Limits!Dispatch!PublishOne, Limiter!Dispatch!Forget,
       Limits!Dispatch!Forget, Limiter!Dispatch!Repeat, Limits!Dispatch!Repeat,
       Limiter!Dispatch!Retire, Limits!Dispatch!Retire,
       Limiter!Dispatch!DispatchNext, Limits!Dispatch!DispatchNext,
       Limiter!Dispatch!dispatchVars, Limits!Dispatch!dispatchVars
<1>. QED
  BY <1>1, <1>4, <1>5, SystemIsLimiter, PTL
  DEF Limits!DispatchKept, Limits!Dispatch!DispatchSpec, Limiter!DispatchKept, Limiter!Dispatch!DispatchSpec

-----------------------------------------------------------------------------
(* What the engine guarantees within the system, as long as the scheduler has not died *)

\* Every variable of the five services keeps its type.
THEOREM SystemTypes == Spec => [](SchedulerLives => TypeOK)
<1>1. Limits!Spec => []Limits!TypeOK
  BY Limits!LimitTypes, LimiterServiceSet, LimiterRestarts, LimiterWorkloads,
     TrafficAssumption, DelayAssumption
<1>2. Theorems!IInv => Theorems!TypeOK
  BY DEF Theorems!IInv
<1>3. /\ Theorems!SubqueryId = SubqueryId /\ Theorems!Result = Result /\ Theorems!Status = Status
      /\ Theorems!CacheReads = CacheReads /\ Theorems!CreateStep = CreateStep
      /\ Theorems!Handler = Handler /\ Theorems!View = View
  BY DEF SubqueryId, Theorems!SubqueryId, Result, Theorems!Result, Status,
       Theorems!Status, CacheReads, Theorems!CacheReads, CreateStep,
       Theorems!CreateStep, Reading, Theorems!Reading, Handler, Theorems!Handler, View,
       Theorems!View
<1>4. Theorems!TypeOK => /\ request \in Workloads
                         /\ CacheTypeOK /\ ConnectorTypeOK /\ QueryTypeOK /\ GatewayTypeOK
  BY <1>3
   DEF Theorems!TypeOK, CacheTypeOK, Theorems!CacheTypeOK, ConnectorTypeOK,
       Theorems!ConnectorTypeOK, QueryTypeOK, Theorems!QueryTypeOK, GatewayTypeOK,
       Theorems!GatewayTypeOK
<1>5. Limits!TypeOK => TrafficTypeOK /\ HistoryTypeOK
  <2>1. Limits!SubqueryId = SubqueryId
    BY DEF Limits!SubqueryId, SubqueryId
  <2>2. \A e, n : Limits!AgesTypeOK(e, n) => AgesTypeOK(e, n)
    BY SameFinite DEF Limits!AgesTypeOK, AgesTypeOK
  <2>. QED
    BY <2>1, <2>2 DEF Limits!TypeOK, TrafficTypeOK, Limits!TrafficTypeOK, HistoryTypeOK,
       Limits!HistoryTypeOK
<1>6. IInv /\ SchedulerLives => NatsTypeOK /\ SchedulerTypeOK
  BY DEF IInv, SchedulerLives, HeldInOnePlace
<1>7. IInv /\ (SchedulerLives => Theorems!IInv) /\ Limits!TypeOK => (SchedulerLives => TypeOK)
  BY <1>2, <1>4, <1>5, <1>6 DEF TypeOK
<1>. QED
  BY <1>1, <1>7, SystemInvariant, EngineInvariance, SystemIsLimiter, PTL

\* COMPLETED is shown to a consumer only when SWAPI served everything, with the limit, the
\* delayed queue and the checks in between.
THEOREM SystemCompletedSeen == Spec => [](SchedulerLives => CompletedSeenIsDownloaded)
<1>1. Theorems!IInv => CompletedSeenIsDownloaded
  BY DEF Theorems!IInv, CompletedSeenIsDownloaded, Engine!CompletedSeenIsDownloaded,
       Theorems!CompletedSeenIsDownloaded, Engine!Downloaded, Theorems!Downloaded,
       Engine!SubqueryId, Theorems!SubqueryId, Engine!Subqueries, Theorems!Subqueries,
       Engine!QueryOf, Theorems!QueryOf, Engine!PathOf, Theorems!PathOf
<1>. QED
  BY <1>1, EngineInvariance, PTL

\* An id that was given out finds its query and every subquery of it.
THEOREM SystemIdsKnown == Spec => [](SchedulerLives => GivenIdsAreKnown)
<1>1. Theorems!IInv => Theorems!GivenIdsAreKnown
  BY Theorems!GivenAreStored, EngineServiceSet, EngineRestarts, EngineWorkloads,
     EngineSwapi, DatabaseAssumption, CallbackAssumption, ObservedAssumption
<1>2. \A q : Theorems!SubqueriesOf(q) = SubqueriesOf(q)
  BY DEF Theorems!SubqueriesOf, SubqueriesOf, Theorems!SubqueryId, SubqueryId
<1>3. \A q : Theorems!FetchQueryResults(q) = FetchQueryResults(q)
  BY <1>2 DEF Theorems!FetchQueryResults, FetchQueryResults
<1>4. Theorems!GivenIdsAreKnown => GivenIdsAreKnown
  BY <1>2, <1>3 DEF Theorems!GivenIdsAreKnown, GivenIdsAreKnown
<1>. QED
  BY <1>1, <1>4, EngineInvariance, PTL

\* A result that a consumer was shown is in all it is shown later.
THEOREM SystemResultsStay == Spec /\ []SchedulerLives => SeenResultsStay
<1>1. Theorems!Spec => Theorems!SeenResultsStay
  BY Theorems!ResultsStay, EngineServiceSet, EngineRestarts, EngineWorkloads,
     EngineSwapi, DatabaseAssumption, CallbackAssumption, ObservedAssumption
<1>. QED
  BY <1>1, SystemIsEngine, PTL DEF SeenResultsStay, Theorems!SeenResultsStay

\* No handler takes away a result that another one stored.
THEOREM SystemRowsKeepResults == Spec /\ []SchedulerLives => Engine!ResultsNeverLost
<1>1. Theorems!Spec => Theorems!ResultsNeverLost
  BY Theorems!RowsKeepResults, EngineServiceSet, EngineRestarts, EngineWorkloads,
     EngineSwapi, DatabaseAssumption, CallbackAssumption, ObservedAssumption
<1>2. Theorems!SubqueryId = Engine!SubqueryId
  BY DEF Theorems!SubqueryId, Engine!SubqueryId
<1>3. [\A s \in Theorems!SubqueryId :
            subqueryTable[s] = "data" => subqueryTable'[s] = "data"]_subqueryTable
        => [\A s \in Engine!SubqueryId :
                subqueryTable[s] = "data" => subqueryTable'[s] = "data"]_subqueryTable
  BY <1>2
<1>. QED
  BY <1>1, <1>3, SystemIsEngine, PTL DEF Engine!ResultsNeverLost, Theorems!ResultsNeverLost

\* The deaths that NoFetchLost of the system allows leave the scheduler alive.
LEMMA AllowedDeaths == died \subseteq {"query-manager", "traffic-controller"} => SchedulerLives
BY DEF SchedulerLives

\* In the pipeline of the engine is what the scheduler holds or has given up, and what is on
\* its way to the connector or to the cache.
LEMMA PipelineWithin ==
    ASSUME HeldInOnePlace, NEW t, Theorems!InPipeline(t)
    PROVE  \/ t \in Held \cup fetching
           \/ \E m \in net : m.id = t /\ m.to = "swapi-connector"
           \/ \E m \in net : m.id = t /\ m.to = "cache-manager" /\ m.result = "data"
           \/ \E u \in updating : u.id = t
           \/ t \in unanswered /\ "traffic-controller" \in died
<1>1. net \subseteq Delivery /\ unanswered # {} => "traffic-controller" \in died
  BY DEF HeldInOnePlace, NatsTypeOK, UnansweredAreLeft
<1>2. ASSUME NEW m \in EngineNet, m.id = t, m.subject \in {"schedule-fetch", "fetch"}
      PROVE  t \in Unpublished \/ \E n \in net : n.id = t /\ n.to = "swapi-connector"
  <2>1. CASE m \in net /\ m.to \notin {"request-scheduler", "traffic-controller"}
    <3>1. m.to \in Subscribers(m.subject)
      BY <1>1, <2>1 DEF HeldInOnePlace, NatsTypeOK, Delivery
    <3>2. m.to = "swapi-connector"
      BY <1>2, <2>1, <3>1 DEF Subscribers, Subscriptions
    <3>. QED
      BY <1>2, <2>1, <3>2
  <2>2. CASE m \in {[to |-> "request-scheduler", subject |-> "schedule-fetch", id |-> s,
                      result |-> "null"] : s \in Unpublished}
    BY <1>2, <2>2
  <2>. QED
    BY <2>1, <2>2 DEF EngineNet
<1>3. ASSUME NEW m \in EngineNet, m.id = t, m.to = "cache-manager", m.result = "data"
      PROVE  \E n \in net : n.id = t /\ n.to = "cache-manager" /\ n.result = "data"
  BY <1>3 DEF EngineNet
<1>. QED
  BY <1>1, <1>2, <1>3 DEF Theorems!InPipeline, Unpublished, HeldInOnePlace, UnansweredAreLeft

\* What the engine has not lost the system has not: its pipeline is in the delayed queue,
\* in the handlers and the worker of the scheduler, or in the events of the broker.
LEMMA KeptWithin ==
    IInv /\ (SchedulerLives => Theorems!NoFetchLost) => NoFetchLost
<1> SUFFICES ASSUME IInv, SchedulerLives => Theorems!NoFetchLost,
                    died \subseteq {"query-manager", "traffic-controller"},
                    NEW q \in Query, creating[q] = "answered", NEW s \in SubqueriesOf(q)
             PROVE  \/ PathOf(s) \in resources
                    \/ \E t \in SubqueriesOf(q) :
                        /\ PathOf(t) = PathOf(s)
                        /\ \/ t \in Held \cup fetching
                           \/ \E m \in net : m.id = t /\ m.to = "swapi-connector"
                           \/ \E m \in net : m.id = t /\ m.to = "cache-manager" /\ m.result = "data"
                           \/ \E u \in updating : u.id = t
                           \/ [id |-> t, result |-> "null"] \in swapiLog
                           \/ t \in unanswered /\ "traffic-controller" \in died
  BY DEF NoFetchLost
<1>1. HeldInOnePlace /\ Theorems!NoFetchLost
  BY AllowedDeaths DEF IInv, SchedulerLives
<1>2. died \ {"traffic-controller"} \subseteq {"query-manager"}
  OBVIOUS
<1>3. Theorems!SubqueriesOf(q) = SubqueriesOf(q) /\ \A t : Theorems!PathOf(t) = PathOf(t)
  BY DEF Theorems!SubqueriesOf, SubqueriesOf, Theorems!SubqueryId, SubqueryId, Theorems!PathOf, PathOf
<1>4. \/ PathOf(s) \in resources
      \/ \E t \in SubqueriesOf(q) :
            /\ PathOf(t) = PathOf(s)
            /\ Theorems!InPipeline(t) \/ [id |-> t, result |-> "null"] \in swapiLog
  BY <1>1, <1>2, <1>3 DEF Theorems!NoFetchLost
<1>. QED
  BY <1>1, <1>4, PipelineWithin

\* No path of an answered query is forgotten, with the delayed queue and the checks in its
\* way, as long as the scheduler, the connector and the cache manager have not died: the
\* death of the traffic controller costs those fetches alone whose check it left
\* unanswered, and none of the jobs that wait for their day.
THEOREM SystemFetchesKept == Spec => []NoFetchLost
<1>1. Init => Theorems!NoFetchLost
  BY DEF Init, QueryInit, Theorems!NoFetchLost
<1>2. Theorems!IInv /\ Theorems!NoFetchLost /\ [Theorems!Next]_(Theorems!vars) => Theorems!NoFetchLost'
  BY Theorems!NoFetchLostStep, EngineServiceSet, EngineRestarts, EngineWorkloads,
     EngineSwapi, DatabaseAssumption, CallbackAssumption, ObservedAssumption
<1>3. IInv /\ (SchedulerLives => Theorems!IInv) /\ (SchedulerLives => Theorems!NoFetchLost) /\ [Next]_vars
        => (SchedulerLives => Theorems!NoFetchLost)'
  BY <1>2, StepOfEngine
<1>4. Spec => [](SchedulerLives => Theorems!NoFetchLost)
  BY <1>1, <1>3, SystemInvariant, EngineInvariance, PTL DEF Spec
<1>. QED
  BY <1>4, KeptWithin, SystemInvariant, PTL

\* A query has no resource fetched twice, wherever its fetches wait.
THEOREM SystemFetchedOnce == Spec => [](SchedulerLives => Engine!FetchedOncePerQuery)
<1>1. Theorems!IInv => Theorems!FetchedOncePerQuery
  BY Theorems!TargetsAreSingle, EngineServiceSet, EngineRestarts, EngineWorkloads,
     EngineSwapi, DatabaseAssumption, CallbackAssumption, ObservedAssumption
<1>2. Theorems!FetchedOncePerQuery => Engine!FetchedOncePerQuery
  BY DEF Engine!FetchedOncePerQuery, Theorems!FetchedOncePerQuery, Engine!OneFetchEach,
       Theorems!OneFetchEach, Engine!Fetched, Theorems!Fetched, Engine!QueryOf,
       Theorems!QueryOf, Engine!PathOf, Theorems!PathOf
<1>. QED
  BY <1>1, <1>2, EngineInvariance, PTL

\* Who is notified finds the result stored.
THEOREM SystemNotifiedStored == Spec => [](SchedulerLives => Engine!NotifiedIsStored)
<1>1. Theorems!IInv => Engine!NotifiedIsStored
  BY DEF Theorems!IInv, Engine!NotifiedIsStored, Theorems!NotifiedIsStored
<1>. QED
  BY <1>1, EngineInvariance, PTL

\* The five services together implement the life of a query.
THEOREM SystemKeepsLife == Spec /\ []SchedulerLives => Engine!LifeKept
<1>1. Theorems!Spec => Theorems!LifeKept
  BY Theorems!EngineKeepsLife, EngineServiceSet, EngineRestarts, EngineWorkloads,
     EngineSwapi, DatabaseAssumption, CallbackAssumption, ObservedAssumption
<1>2. Theorems!Life!LifeInit => Engine!Life!LifeInit
  BY DEF Engine!SubqueryId, Theorems!SubqueryId, Engine!Subqueries, Theorems!Subqueries,
       Engine!QueryOf, Theorems!QueryOf, Engine!PathOf, Theorems!PathOf,
       Engine!Downloaded, Theorems!Downloaded, Engine!AnswerOf, Theorems!AnswerOf,
       Engine!Life!LifeInit, Theorems!Life!LifeInit
<1>3. [Theorems!Life!LifeNext]_(Theorems!Life!lifeVars) => [Engine!Life!LifeNext]_(Engine!Life!lifeVars)
  BY DEF Engine!SubqueryId, Theorems!SubqueryId, Engine!Subqueries, Theorems!Subqueries,
       Engine!QueryOf, Theorems!QueryOf, Engine!PathOf, Theorems!PathOf,
       Engine!Downloaded, Theorems!Downloaded, Engine!AnswerOf, Theorems!AnswerOf,
       Engine!Life!AllServed, Theorems!Life!AllServed, Engine!Life!Serve,
       Theorems!Life!Serve, Engine!Life!Judge, Theorems!Life!Judge, Engine!Life!Record,
       Theorems!Life!Record, Engine!Life!Answer, Theorems!Life!Answer,
       Engine!Life!LifeNext, Theorems!Life!LifeNext, Engine!Life!lifeVars,
       Theorems!Life!lifeVars
<1>. QED
  BY <1>1, <1>2, <1>3, SystemIsEngine, PTL
  DEF Theorems!LifeKept, Theorems!Life!LifeSpec, Engine!LifeKept, Engine!Life!LifeSpec

=============================================================================
