--------------------------- MODULE SystemLimitProofs ---------------------------
(***************************************************************************)
(* Proof that the system implements the rate limiting, for any queries,    *)
(* paths, payloads, limit, window and delay, whatever fails: request       *)
(* scheduler and traffic controller see no more of the services around     *)
(* them than an environment that schedules each query's fetches once.      *)
(***************************************************************************)
EXTENDS System, TLAPS

\* What a query's creation has to keep for it: the types of two variables.
CreationTypeOK ==
    /\ creating \in [Query -> CreateStep]
    /\ createRead \in [SubqueryId -> CacheReads]

-----------------------------------------------------------------------------
(* How their view of the broker changes *)

LEMMA WithinSystem == LimitServices \subseteq Services
BY SystemServices DEF LimitServices

\* What is emitted to them is emitted to them, and nothing else is.
LEMMA EmittedWithin ==
    ASSUME NEW subject, NEW ids, NEW result, net' = net \cup Emitted(subject, ids, result)
    PROVE  LimiterNet' = LimiterNet \cup Limiter!Emitted(subject, ids, result)
<1> DEFINE E == {m \in Emitted(subject, ids, result) : m.to \in LimitServices}
<1>1. Limiter!Subscribers(subject) \cap (up \cap LimitServices)
            = (Subscribers(subject) \cap up) \cap LimitServices
  BY WithinSystem DEF Subscribers, Limiter!Subscribers, Subscriptions, Limiter!Subscriptions
<1>2. E = Limiter!Emitted(subject, ids, result)
  <2>1. ASSUME NEW m \in E PROVE m \in Limiter!Emitted(subject, ids, result)
    <3>1. PICK svc \in Subscribers(subject) \cap up, s \in ids :
            m = [to |-> svc, subject |-> subject, id |-> s, result |-> result]
      BY DEF Emitted
    <3>2. svc \in LimitServices
      BY <3>1
    <3>. QED
      BY <1>1, <3>1, <3>2 DEF Limiter!Emitted
  <2>2. ASSUME NEW m \in Limiter!Emitted(subject, ids, result) PROVE m \in E
    <3>1. PICK svc \in Limiter!Subscribers(subject) \cap (up \cap LimitServices), s \in ids :
            m = [to |-> svc, subject |-> subject, id |-> s, result |-> result]
      BY DEF Limiter!Emitted
    <3>2. svc \in LimitServices /\ m.to = svc
      BY <3>1
    <3>. QED
      BY <1>1, <3>1, <3>2 DEF Emitted
  <2>. QED
    BY <2>1, <2>2
<1>3. LimiterNet' = LimiterNet \cup E
  BY DEF LimiterNet
<1>. QED
  BY <1>2, <1>3

\* Results are for others.
LEMMA ReceiveOutside ==
    ASSUME NEW ids, NEW result, net' = net \cup Emitted("receive", ids, result)
    PROVE  LimiterNet' = LimiterNet
<1>1. Limiter!Subscribers("receive") = {}
  BY DEF Limiter!Subscribers, Limiter!Subscriptions, LimitServices
<1>2. Limiter!Emitted("receive", ids, result) = {}
  BY <1>1 DEF Limiter!Emitted
<1>. QED
  BY <1>2, EmittedWithin

\* What others take, or lose, was not theirs.
LEMMA TakenOutside ==
    ASSUME NEW lost, net' = net \ lost, \A m \in lost : m.to \notin LimitServices
    PROVE  LimiterNet' = LimiterNet
BY DEF LimiterNet

\* What one of them takes it takes from their view.
LEMMA TakenWithin ==
    ASSUME NEW svc \in LimitServices, NEW subject, NEW m, Arrives(m, svc, subject), net' = net \ {m}
    PROVE  /\ m \in LimiterNet
           /\ Limiter!Arrives(m, svc, subject)
           /\ LimiterNet' = LimiterNet \ {m}
BY DEF LimiterNet, Arrives, Limiter!Arrives

\* A crash is one of them dying, or of no concern to them.
LEMMA CrashWithin ==
    ASSUME NEW svc \in LimitServices, Crash(svc)
    PROVE  Limiter!Crash(svc)
BY DEF Crash, Limiter!Crash, LimiterNet

LEMMA CrashOutside ==
    ASSUME NEW svc, svc \notin LimitServices, Crash(svc)
    PROVE  UNCHANGED <<LimiterNet, up \cap LimitServices>>
BY DEF Crash, LimiterNet

\* So is a start.
LEMMA StartOutside ==
    ASSUME NEW svc, svc \notin LimitServices, Start(svc)
    PROVE  UNCHANGED (up \cap LimitServices)
BY DEF Start

LEMMA StartWithin ==
    ASSUME NEW svc \in LimitServices, Start(svc)
    PROVE  Limiter!Start(svc)
BY DEF Start, Limiter!Start

LEMMA DeathsWithin ==
    ASSUME RecordDeaths
    PROVE  Limiter!RecordDeaths
BY DEF RecordDeaths, Limiter!RecordDeaths

\* If none of them dies, that is so in their history, too.
LEMMA NoDeathWithin ==
    ASSUME RecordDeaths, UNCHANGED (up \cap LimitServices)
    PROVE  UNCHANGED (died \cap LimitServices)
BY DEF RecordDeaths

-----------------------------------------------------------------------------
(* What was scheduled *)

\* The fetches of a query depend on what it read.
LEMMA SameTargets ==
    ASSUME NEW q, UNCHANGED request, \A s \in SubqueriesOf(q) : createRead'[s] = createRead[s]
    PROVE  TargetSubqueries(q)' = TargetSubqueries(q)
<1>1. SubqueriesOf(q)' = SubqueriesOf(q)
  BY DEF SubqueriesOf
<1>2. \A s : PathOf(s)' = PathOf(s)
  BY DEF PathOf
<1>. QED
  BY <1>1, <1>2 DEF TargetSubqueries

\* No answer is given or taken back, and those that were given stand on the same reads.
AnswersKept ==
    /\ UNCHANGED request
    /\ \A q \in Query : creating[q] = "answered" <=> creating'[q] = "answered"
    /\ \A q \in Query : creating[q] = "answered" =>
            \A s \in SubqueriesOf(q) : createRead'[s] = createRead[s]

LEMMA SameScheduled == ASSUME AnswersKept PROVE Scheduled' = Scheduled
<1> DEFINE answered == {r \in Query : creating[r] = "answered"}
<1>1. answered' = answered
  BY DEF AnswersKept
<1>2. \A q \in answered : TargetSubqueries(q)' = TargetSubqueries(q)
  BY SameTargets DEF AnswersKept
<1>3. {TargetSubqueries(q)' : q \in answered} = {TargetSubqueries(q) : q \in answered}
  BY <1>2
<1>. QED
  BY <1>1, <1>3 DEF Scheduled

\* A step that gives no answer.
LEMMA CreationStep ==
    ASSUME CreationTypeOK, NEW q \in Query, CreateNext(q), UNCHANGED request
    PROVE  /\ CreationTypeOK'
           /\ ~ScheduleFetches(q) => AnswersKept /\ UNCHANGED <<net, up>>
<1> USE DEF CreationTypeOK, CreateStep, AnswersKept
<1>1. CASE ScheduleFetches(q)
  BY <1>1 DEF ScheduleFetches
<1>2. CASE \E s \in SubqueriesOf(q) : CreateReadCache(s)
  <2>1. PICK s \in SubqueriesOf(q) : CreateReadCache(s)
    BY <1>2
  <2>2. s \in SubqueryId /\ QueryOf(s) = q /\ creating[q] = "reading"
    BY <2>1 DEF CreateReadCache, SubqueriesOf, QueryOf
  <2>3. \A r \in Query : r # q => s \notin SubqueriesOf(r)
    BY <2>2 DEF SubqueriesOf, QueryOf
  <2>4. CacheRead(PathOf(s)) \in CacheReads
    BY DEF CacheRead, CacheReads, Result
  <2>5. CreationTypeOK'
    BY <2>1, <2>4 DEF CreateReadCache
  <2>6. AnswersKept
    BY <2>1, <2>2, <2>3 DEF CreateReadCache
  <2>. QED
    BY <2>1, <2>5, <2>6 DEF CreateReadCache
<1>3. CASE \/ CreateQuery(q) \/ CreateReadFails(q) \/ CreateFromCache(q) \/ SaveNewQuery(q)
           \/ SaveNewSubqueries(q) \/ CreateSaveFails(q)
  <2>1. UNCHANGED <<net, up, createRead>>
    BY <1>3 DEF CreateQuery, CreateReadFails, CreateFromCache, SaveNewQuery, SaveNewSubqueries,
                CreateSaveFails
  <2>2. /\ creating[q] # "answered"
        /\ \E c \in CreateStep \ {"answered"} : creating' = [creating EXCEPT ![q] = c]
    BY <1>3 DEF CreateQuery, CreateReadFails, CreateFromCache, SaveNewQuery, SaveNewSubqueries,
                CreateSaveFails
  <2>3. CreationTypeOK' /\ AnswersKept
    BY <2>1, <2>2
  <2>. QED
    BY <2>1, <2>3
<1>. QED
  BY <1>1, <1>2, <1>3 DEF CreateNext

\* A crash, or a read that is never answered, cuts short what had no answer yet.
LEMMA CutShort ==
    ASSUME CreationTypeOK, QueryManagerCrash \/ CacheReadsHang, UNCHANGED request
    PROVE  CreationTypeOK' /\ AnswersKept
<1>1. CASE QueryManagerCrash
  BY <1>1 DEF QueryManagerCrash, CreationTypeOK, CreateStep, AnswersKept
<1>2. CASE CacheReadsHang
  BY <1>2 DEF CacheReadsHang, CreationTypeOK, CreateStep, AnswersKept
<1>. QED
  BY <1>1, <1>2

\* Nothing happens to any creation.
LEMMA CreationsStand ==
    ASSUME CreationTypeOK, UNCHANGED <<creating, createRead, request>>
    PROVE  CreationTypeOK' /\ AnswersKept
BY DEF CreationTypeOK, AnswersKept

-----------------------------------------------------------------------------
(* The engine's steps, as scheduler and traffic controller see them *)

\* A step they do not see.
OutsideStep ==
    /\ CreationTypeOK' /\ AnswersKept
    /\ UNCHANGED <<limitVars, LimiterNet, up \cap LimitServices>>

LEMMA OutsideStutters ==
    ASSUME OutsideStep, RecordDeaths
    PROVE  UNCHANGED Limiter!vars
<1>1. UNCHANGED (died \cap LimitServices)
  BY NoDeathWithin DEF OutsideStep
<1>2. Scheduled' = Scheduled
  BY SameScheduled DEF OutsideStep
<1>. QED
  BY <1>1, <1>2 DEF OutsideStep, AnswersKept, limitVars, trafficVars, schedulerVars, historyVars,
      Limiter!vars, Limiter!trafficVars, Limiter!schedulerVars, Limiter!historyVars

LEMMA QueryOutside ==
    ASSUME CreationTypeOK, QueryNext, \A q \in Query : ~ScheduleFetches(q), UNCHANGED <<request, limitVars>>
    PROVE  OutsideStep
<1> USE DEF OutsideStep
<1>1. ASSUME QueryManagerCrash PROVE OutsideStep
  BY <1>1, CutShort, CrashOutside DEF QueryManagerCrash, LimitServices
<1>2. ASSUME NEW q \in Query, CreateNext(q) PROVE OutsideStep
  BY <1>2, CreationStep DEF LimiterNet
<1>3. ASSUME NEW m \in net, HandleResultLoad(m) PROVE OutsideStep
  <2>1. CASE net' = net \ {m} /\ UNCHANGED <<up, creating, createRead>>
    <3>1. \A n \in {m} : n.to \notin LimitServices
      BY <1>3 DEF HandleResultLoad, Arrives, LimitServices
    <3>2. UNCHANGED LimiterNet
      BY <2>1, <3>1 DEF LimiterNet
    <3>. QED
      BY <2>1, <3>2, CreationsStand
  <2>. QED
    BY <1>1, <1>3, <2>1 DEF HandleResultLoad
<1>4. ASSUME NEW s \in Subqueries, HandleNext(s) PROVE OutsideStep
  <2>1. QueryManagerCrash \/ UNCHANGED <<net, up, creating, createRead>>
    BY <1>4 DEF HandleNext, HandleResultReadCache, HandleResultReadFails, HandleResultSaveQuery,
        HandleResultSaveSubquery, NotifyCallback, CallbackResponds, CallbackUnreachable
  <2>. QED
    BY <1>1, <2>1, CreationsStand DEF LimiterNet
<1>5. ASSUME HandleResultDatabaseFails PROVE OutsideStep
  BY <1>1, <1>5 DEF HandleResultDatabaseFails
<1>. QED
  BY <1>2, <1>3, <1>4, <1>5 DEF QueryNext

LEMMA CacheOutside ==
    ASSUME CreationTypeOK, CacheNext, UNCHANGED <<request, limitVars, queryVars>>
    PROVE  OutsideStep
<1>1. CreationTypeOK' /\ AnswersKept
  BY CreationsStand DEF queryVars
<1>2. ASSUME CacheManagerCrash PROVE UNCHANGED <<LimiterNet, up \cap LimitServices>>
  BY <1>2, CrashOutside DEF CacheManagerCrash, LimitServices
<1>3. ASSUME NEW m \in net, UpdateCacheFind(m)
      PROVE  UNCHANGED <<LimiterNet, up \cap LimitServices>>
  <2>1. \A n \in {m} : n.to \notin LimitServices
    BY <1>3 DEF UpdateCacheFind, Arrives, LimitServices
  <2>2. net' = net \ {m} /\ UNCHANGED up
    BY <1>3 DEF UpdateCacheFind
  <2>. QED
    BY <2>1, <2>2 DEF LimiterNet
<1>4. ASSUME NEW u \in updating, UpdateCacheSave(u)
      PROVE  UNCHANGED <<LimiterNet, up \cap LimitServices>>
  BY <1>4 DEF UpdateCacheSave, LimiterNet
<1>. QED
  BY <1>1, <1>2, <1>3, <1>4 DEF OutsideStep, CacheNext, UpdateCacheDuplicateKey, UpdateCacheFails

LEMMA ConnectorOutside ==
    ASSUME CreationTypeOK, ConnectorNext, UNCHANGED <<request, limitVars, queryVars>>
    PROVE  OutsideStep
<1>1. CreationTypeOK' /\ AnswersKept
  BY CreationsStand DEF queryVars
<1>2. ASSUME SwapiConnectorCrash PROVE UNCHANGED <<LimiterNet, up \cap LimitServices>>
  BY <1>2, CrashOutside DEF SwapiConnectorCrash, LimitServices
<1>3. ASSUME NEW m \in net, FetchDataCached(m) \/ FetchDataMissing(m)
      PROVE  UNCHANGED <<LimiterNet, up \cap LimitServices>>
  <2>1. \A n \in {m} : n.to \notin LimitServices
    BY <1>3 DEF FetchDataCached, FetchDataMissing, Arrives, LimitServices
  <2>. QED
    BY <1>3, <2>1, TakenOutside DEF FetchDataCached, FetchDataMissing
<1>4. ASSUME NEW s \in fetching, NEW r \in SwapiResults, SwapiAnswers(s, r)
      PROVE  UNCHANGED <<LimiterNet, up \cap LimitServices>>
  BY <1>4, ReceiveOutside DEF SwapiAnswers
<1>. QED
  BY <1>1, <1>2, <1>3, <1>4 DEF OutsideStep, ConnectorNext, FetchDataCacheDown, SwapiFails

LEMMA CacheRestartOutside ==
    ASSUME CreationTypeOK, RestartCacheManager, UNCHANGED <<request, limitVars>>
    PROVE  OutsideStep
<1>1. CreationTypeOK' /\ AnswersKept
  BY CutShort DEF RestartCacheManager
<1>2. PICK hung \in SUBSET {m \in net : m.to = "swapi-connector"} : net' = net \ hung
  BY DEF RestartCacheManager
<1>3. \A m \in hung : m.to \notin LimitServices
  BY <1>2 DEF LimitServices
<1>4. UNCHANGED LimiterNet
  BY <1>2, <1>3, TakenOutside
<1>5. UNCHANGED (up \cap LimitServices)
  BY StartOutside DEF RestartCacheManager, LimitServices
<1>. QED
  BY <1>1, <1>4, <1>5 DEF OutsideStep

\* What the query manager schedules for a query it schedules once.
LEMMA ScheduleFetchesWithin ==
    ASSUME CreationTypeOK, NEW q \in Query, ScheduleFetches(q), UNCHANGED <<request, limitVars>>
    PROVE  Limiter!ScheduleFetches(q)
<1> DEFINE T == TargetSubqueries(q)
           answered == {r \in Query : creating[r] = "answered"}
<1>1. /\ creating[q] = "subqueries" /\ creating' = [creating EXCEPT ![q] = "answered"]
      /\ net' = net \cup Emitted("schedule-fetch", T, "null")
      /\ UNCHANGED <<up, createRead>>
  BY DEF ScheduleFetches
<1>2. Limiter!SubqueriesOf(q) = SubqueriesOf(q)
  BY DEF SubqueriesOf, Limiter!SubqueriesOf, SubqueryId, Limiter!SubqueryId
<1>3. Scheduled \cap SubqueriesOf(q) = {}
  <2>1. \A r \in Query : \A s \in TargetSubqueries(r) : s[1] = r
    BY DEF TargetSubqueries, SubqueriesOf
  <2>. QED
    BY <1>1, <2>1 DEF Scheduled, SubqueriesOf
<1>4. T \in SUBSET SubqueriesOf(q)
  BY DEF TargetSubqueries
<1>5. Scheduled' = Scheduled \cup T
  <2>1. \A r \in Query : TargetSubqueries(r)' = TargetSubqueries(r)
    BY <1>1, SameTargets
  <2>2. answered' = answered \cup {q}
    BY <1>1 DEF CreationTypeOK
  <2>3. {TargetSubqueries(r)' : r \in answered \cup {q}} = {TargetSubqueries(r) : r \in answered} \cup {T}
    BY <2>1
  <2>. QED
    BY <2>2, <2>3 DEF Scheduled
<1>6. LimiterNet' = LimiterNet \cup Limiter!Emitted("schedule-fetch", T, "null")
  BY <1>1, EmittedWithin
<1>. QED
  BY <1>1, <1>2, <1>3, <1>4, <1>5, <1>6
  DEF Limiter!ScheduleFetches, limitVars, trafficVars, schedulerVars, historyVars,
      Limiter!trafficVars, Limiter!schedulerVars, Limiter!historyVars

\* A step of the engine.
LEMMA EngineStepWithin ==
    ASSUME CreationTypeOK, EngineStep, RecordDeaths, UNCHANGED request
    PROVE  CreationTypeOK' /\ [Limiter!Next]_(Limiter!vars)
<1> USE DEF EngineStep
<1>1. ASSUME OutsideStep PROVE CreationTypeOK' /\ [Limiter!Next]_(Limiter!vars)
  BY <1>1, OutsideStutters DEF OutsideStep
<1>2. ASSUME NEW q \in Query, ScheduleFetches(q)
      PROVE  CreationTypeOK' /\ [Limiter!Next]_(Limiter!vars)
  <2>1. CreateNext(q)
    BY <1>2 DEF CreateNext
  <2>2. Limiter!ScheduleFetches(q)
    BY <1>2, ScheduleFetchesWithin
  <2>. QED
    BY <2>1, <2>2, CreationStep, DeathsWithin DEF Limiter!Next
<1>3. ASSUME QueryNext, \A q \in Query : ~ScheduleFetches(q) PROVE OutsideStep
  BY <1>3, QueryOutside
<1>4. ASSUME CacheNext, UNCHANGED queryVars PROVE OutsideStep
  BY <1>4, CacheOutside
<1>5. ASSUME ConnectorNext, UNCHANGED queryVars PROVE OutsideStep
  BY <1>5, ConnectorOutside
<1>6. ASSUME GatewayNext, UNCHANGED queryVars PROVE OutsideStep
  BY <1>6, CreationsStand DEF GatewayNext, queryVars, OutsideStep, LimiterNet
<1>7. ASSUME RestartCacheManager PROVE OutsideStep
  BY <1>7, CacheRestartOutside
<1>. QED
  BY <1>1, <1>2, <1>3, <1>4, <1>5, <1>6, <1>7

-----------------------------------------------------------------------------
(* Their own steps *)

\* To count is to count.
LEMMA SameCardinality == \A S : Limiter!Cardinality(S) = Cardinality(S)
BY DEF Cardinality, Limiter!Cardinality

\* Theirs are the same queries, ages and counts.
LEMMA SameLimitData ==
    /\ Limiter!SubqueryId = SubqueryId /\ Limiter!Subqueries = Subqueries
    /\ Limiter!IsRateLimited = IsRateLimited
    /\ Limiter!ActiveId = ActiveId
    /\ \A entries : /\ Limiter!WithNew(entries) = WithNew(entries)
                    /\ Limiter!InWindow(entries) = InWindow(entries)
                    /\ Limiter!Older(entries) = Older(entries)
    /\ Limiter!NoEntries = NoEntries
BY SameCardinality DEF SubqueryId, Limiter!SubqueryId, Subqueries, Limiter!Subqueries, IsRateLimited,
       Limiter!IsRateLimited, UsageCount, Limiter!UsageCount, ActiveId, Limiter!ActiveId, NewId,
       Limiter!NewId, WithNew, Limiter!WithNew, InWindow, Limiter!InWindow, Older, Limiter!Older,
       NoEntries, Limiter!NoEntries

\* What is on its way between them is in their view.
LEMMA SameInFlight ==
    Limiter!Uncounted = Uncounted /\ Limiter!Allowed = Allowed
BY SameLimitData DEF Uncounted, Limiter!Uncounted, Allowed, Limiter!Allowed, LimiterNet, LimitServices

LEMMA CheckWithin ==
    ASSUME NEW s, Check(s)
    PROVE  Limiter!Check(s)
BY SameLimitData, SameInFlight
   DEF Check, Limiter!Check, CheckUsage, Limiter!CheckUsage, LimiterNet, LimitServices, trafficVars,
       Limiter!trafficVars

LEMMA PublishWithin ==
    ASSUME NEW s, Publish(s)
    PROVE  Limiter!Publish(s)
<1>1. LimiterNet' = LimiterNet \cup Limiter!Emitted("fetch", {s}, "null")
  BY EmittedWithin DEF Publish, RequestNow
<1>. QED
  BY <1>1, SameLimitData
  DEF Publish, Limiter!Publish, RequestNow, Limiter!RequestNow, Return, Limiter!Return,
      LimitServices, trafficVars, Limiter!trafficVars

LEMMA SchedulerCrashWithin ==
    ASSUME RequestSchedulerCrash
    PROVE  Limiter!RequestSchedulerCrash
<1>1. Limiter!Crash("request-scheduler")
  BY CrashWithin DEF RequestSchedulerCrash, LimitServices
<1>. QED
  BY <1>1, SameLimitData DEF RequestSchedulerCrash, Limiter!RequestSchedulerCrash

LEMMA CheckFailsWithin ==
    ASSUME NEW s, CheckFails(s)
    PROVE  Limiter!CheckFails(s)
<1>1. Limiter!CheckUsageFails(s)
  BY SchedulerCrashWithin, SameLimitData
  DEF CheckFails, CheckUsageFails, Limiter!CheckUsageFails, LimiterNet, LimitServices
<1>. QED
  BY <1>1 DEF CheckFails, Limiter!CheckFails, trafficVars, Limiter!trafficVars

LEMMA SchedulerStepWithin ==
    ASSUME SchedulerStep
    PROVE  Limiter!SchedulerStep
<1>1. ASSUME NEW m \in net, ScheduleRequest(m)
      PROVE  m \in LimiterNet /\ Limiter!ScheduleRequest(m)
  <2>1. /\ m \in LimiterNet /\ Limiter!Arrives(m, "request-scheduler", "schedule-fetch")
        /\ LimiterNet' = LimiterNet \ {m}
    BY <1>1, TakenWithin DEF ScheduleRequest, LimitServices
  <2>. QED
    BY <1>1, <2>1 DEF ScheduleRequest, Limiter!ScheduleRequest
<1>2. ASSUME NEW j \in jobs, StartJob(j) PROVE Limiter!StartJob(j)
  BY <1>2 DEF StartJob, Limiter!StartJob, LimiterNet, LimitServices
<1>3. ASSUME NEW s \in Subqueries, ScheduleForLater(s) PROVE Limiter!ScheduleForLater(s)
  BY <1>3, SameLimitData
  DEF ScheduleForLater, Limiter!ScheduleForLater, Return, Limiter!Return, LimiterNet
<1>4. ASSUME NEW j \in active, CompleteJob(j) PROVE Limiter!CompleteJob(j)
  BY <1>4 DEF CompleteJob, Limiter!CompleteJob, LimiterNet
<1>. QED
  BY <1>1, <1>2, <1>3, <1>4, SameLimitData
  DEF SchedulerStep, Limiter!SchedulerStep, trafficVars, historyVars, Limiter!trafficVars,
      Limiter!historyVars

LEMMA CountWithin ==
    ASSUME NEW m \in net, Count(m)
    PROVE  m \in LimiterNet /\ Limiter!Count(m)
<1>1. /\ m \in LimiterNet /\ Limiter!Arrives(m, "traffic-controller", "fetch")
      /\ LimiterNet' = LimiterNet \ {m}
  BY TakenWithin DEF Count, LogUsage, LimitServices
<1>. QED
  BY <1>1, SameLimitData
  DEF Count, Limiter!Count, LogUsage, Limiter!LogUsage, schedulerVars, historyVars,
      Limiter!schedulerVars, Limiter!historyVars

LEMMA DieWithin ==
    ASSUME Die
    PROVE  Limiter!Die
<1>1. Limiter!Crash("traffic-controller")
  BY CrashWithin DEF Die, TrafficControllerDies, RedisConnectionLost, LimitServices
<1>2. Limiter!TrafficControllerDies
  BY <1>1, SameLimitData
  DEF Die, TrafficControllerDies, RedisConnectionLost, Limiter!TrafficControllerDies,
      Limiter!RedisConnectionLost, LimitServices, trafficVars, Limiter!trafficVars
<1>. QED
  BY <1>2, SameInFlight, SameLimitData DEF Die, Limiter!Die

LEMMA TickWithin ==
    ASSUME Tick
    PROVE  Limiter!Tick
BY SameLimitData
   DEF Tick, Limiter!Tick, UsageAges, Limiter!UsageAges, JobsFallDue, Limiter!JobsFallDue, LimiterNet

\* Whatever they do together they do on their own.
LEMMA LimitNextWithin ==
    ASSUME LimitNext
    PROVE  Limiter!LimitNext
BY CheckWithin, CheckFailsWithin, PublishWithin, SchedulerStepWithin, CountWithin, DieWithin, TickWithin, SameLimitData
   DEF LimitNext, Limiter!LimitNext

-----------------------------------------------------------------------------
(* The theorem *)

LEMMA LimiterStep ==
    ASSUME CreationTypeOK, [Next]_vars
    PROVE  CreationTypeOK' /\ [Limiter!Next]_(Limiter!vars)
<1>1. CASE UNCHANGED vars
  <2>1. CreationTypeOK' /\ AnswersKept
    BY <1>1, CreationsStand DEF vars, engineVars, queryVars
  <2>2. UNCHANGED <<LimiterNet, up \cap LimitServices, died \cap LimitServices, Scheduled>>
    BY <1>1, <2>1, SameScheduled DEF vars, LimiterNet
  <2>. QED
    BY <1>1, <2>1, <2>2 DEF vars, limitVars, trafficVars, schedulerVars, historyVars,
        Limiter!vars, Limiter!trafficVars, Limiter!schedulerVars, Limiter!historyVars
<1>2. CASE Next
  <2>0. UNCHANGED request /\ RecordDeaths /\ Limiter!RecordDeaths
    BY <1>2, DeathsWithin DEF Next
  <2>1. CASE EngineStep
    BY <2>0, <2>1, EngineStepWithin
  <2>2. CASE LimitStep
    <3>1. CreationTypeOK' /\ Scheduled' = Scheduled
      BY <2>0, <2>2, CreationsStand, SameScheduled DEF LimitStep, engineVars, queryVars
    <3>2. Limiter!LimitNext
      BY <2>2, LimitNextWithin DEF LimitStep
    <3>. QED
      BY <2>0, <3>1, <3>2 DEF Limiter!Next
  <2>3. CASE RestartStep
    <3>1. CreationTypeOK' /\ AnswersKept
      BY <2>0, <2>3, CreationsStand DEF RestartStep, engineVars, queryVars
    <3>2. PICK svc \in Restartable \ {"cache-manager"} : Start(svc)
      BY <2>3 DEF RestartStep
    <3>3. UNCHANGED <<LimiterNet, limitVars>>
      BY <2>3 DEF RestartStep, LimiterNet
    <3>4. CASE svc \notin LimitServices
      <4>1. OutsideStep
        BY <3>1, <3>2, <3>3, <3>4, StartOutside DEF OutsideStep
      <4>. QED
        BY <2>0, <3>1, <4>1, OutsideStutters
    <3>5. CASE svc \in LimitServices
      <4>1. Limiter!Start("request-scheduler") \/ Limiter!Start("traffic-controller")
        BY <3>2, <3>5, StartWithin DEF LimitServices
      <4>2. Limiter!Restart
        BY <3>3, <4>1 DEF Limiter!Restart, limitVars, trafficVars, schedulerVars, historyVars,
            Limiter!trafficVars, Limiter!schedulerVars, Limiter!historyVars
      <4>. QED
        BY <2>0, <3>1, <4>2, SameScheduled DEF Limiter!Next
    <3>. QED
      BY <3>4, <3>5
  <2>. QED
    BY <1>2, <2>1, <2>2, <2>3 DEF Next
<1>. QED
  BY <1>1, <1>2

LEMMA LimiterStart == Init => CreationTypeOK /\ Limiter!Init
<1> SUFFICES ASSUME Init PROVE CreationTypeOK /\ Limiter!Init
  OBVIOUS
<1>1. CreationTypeOK /\ Scheduled = {}
  BY DEF Init, QueryInit, CreationTypeOK, CreateStep, CacheReads, Scheduled
<1>2. Limiter!NatsInit
  BY WithinSystem DEF Init, NatsInit, Limiter!NatsInit, LimiterNet
<1>. QED
  BY <1>1, <1>2, SameLimitData
  DEF Init, Limiter!Init, TrafficInit, Limiter!TrafficInit, SchedulerInit, Limiter!SchedulerInit,
      HistoryInit, Limiter!HistoryInit

\* With the engine around them, crashing and restarting as it may, request scheduler and
\* traffic controller take only the steps that RateLimiting allows them with an environment
\* that schedules each query's fetches at most once: the query manager is no other.
THEOREM SystemKeepsLimiter == Spec => LimiterKept
<1>1. Init => CreationTypeOK /\ Limiter!Init
  BY LimiterStart
<1>2. CreationTypeOK /\ [Next]_vars => CreationTypeOK' /\ [Limiter!Next]_(Limiter!vars)
  BY LimiterStep
<1>. QED
  BY <1>1, <1>2, PTL DEF Spec, LimiterKept, Limiter!Spec

=============================================================================
