------------------------- MODULE RateLimitingProofs -------------------------
(***************************************************************************)
(* Proofs of the safety properties of RateLimiting, for any fetches, any   *)
(* limit, window and delay, and any deaths and restarts.                   *)
(***************************************************************************)
EXTENDS RateLimiting, FiniteSetTheorems, TLAPS

\* A finite set does not hold all of one number more than it has elements.
LEMMA NewIdFacts ==
    ASSUME NEW entries, IsFiniteSet(DOMAIN entries)
    PROVE  NewId(entries) \in Nat \ DOMAIN entries
<1> DEFINE n == Cardinality(DOMAIN entries)
<1>1. n \in Nat
  BY FS_CardinalityType
<1>2. \E i \in 1 .. n + 1 : i \notin DOMAIN entries
  <2>1. SUFFICES ASSUME 1 .. n + 1 \subseteq DOMAIN entries PROVE FALSE
    OBVIOUS
  <2>2. Cardinality(1 .. n + 1) <= n
    BY <2>1, FS_Subset
  <2>3. Cardinality(1 .. n + 1) = n + 1
    BY <1>1, FS_Interval
  <2>. QED
    BY <1>1, <2>2, <2>3
<1>. QED
  BY <1>1, <1>2 DEF NewId

\* A new entry is one more, of age zero.
LEMMA WithNewFacts ==
    ASSUME NEW entries, NEW oldest \in Nat, AgesTypeOK(entries, oldest)
    PROVE  /\ AgesTypeOK(WithNew(entries), oldest)
           /\ Cardinality(DOMAIN WithNew(entries)) = Cardinality(DOMAIN entries) + 1
           /\ \A a \in Nat : Cardinality(Ages(WithNew(entries), a)) = Cardinality(Ages(entries, a)) + 1
<1> DEFINE new == NewId(entries)
<1>1. new \in Nat /\ new \notin DOMAIN entries /\ IsFiniteSet(DOMAIN entries)
  BY NewIdFacts DEF AgesTypeOK
<1> HIDE DEF new
<1>2. /\ DOMAIN WithNew(entries) = DOMAIN entries \cup {new}
      /\ WithNew(entries)[new] = 0
      /\ \A i \in DOMAIN entries : WithNew(entries)[i] = entries[i]
  BY <1>1 DEF WithNew, new
<1>3. /\ IsFiniteSet(DOMAIN WithNew(entries))
      /\ Cardinality(DOMAIN WithNew(entries)) = Cardinality(DOMAIN entries) + 1
  BY <1>1, <1>2, FS_AddElement
<1>4. WithNew(entries) \in [DOMAIN WithNew(entries) -> 0 .. oldest]
  BY <1>1, <1>2 DEF AgesTypeOK, WithNew
<1>5. ASSUME NEW a \in Nat
      PROVE  Cardinality(Ages(WithNew(entries), a)) = Cardinality(Ages(entries, a)) + 1
  <2>1. Ages(WithNew(entries), a) = Ages(entries, a) \cup {new}
    BY <1>1, <1>2 DEF Ages
  <2>2. IsFiniteSet(Ages(entries, a)) /\ new \notin Ages(entries, a)
    BY <1>1, FS_Subset DEF Ages
  <2>. QED
    BY <2>1, <2>2, FS_AddElement
<1>. QED
  BY <1>1, <1>2, <1>3, <1>4, <1>5 DEF AgesTypeOK

\* Pruning takes nothing that is younger than the window.
LEMMA InWindowFacts ==
    ASSUME NEW entries, AgesTypeOK(entries, Window)
    PROVE  /\ AgesTypeOK(InWindow(entries), Window - 1)
           /\ DOMAIN InWindow(entries) \subseteq DOMAIN entries
           /\ \A a \in 0 .. Window - 1 : Ages(InWindow(entries), a) = Ages(entries, a)
<1> USE TrafficAssumption
<1>1. DOMAIN InWindow(entries) \subseteq DOMAIN entries
  BY DEF InWindow
<1>2. IsFiniteSet(DOMAIN InWindow(entries))
  BY <1>1, FS_Subset DEF AgesTypeOK
<1>3. InWindow(entries) \in [DOMAIN InWindow(entries) -> 0 .. Window - 1]
  BY DEF InWindow, AgesTypeOK
<1>4. \A a \in 0 .. Window - 1 : Ages(InWindow(entries), a) = Ages(entries, a)
  BY DEF InWindow, Ages, AgesTypeOK
<1>. QED
  BY <1>1, <1>2, <1>3, <1>4 DEF AgesTypeOK

\* After a tick, what is at most a ticks old was at most a - 1.
LEMMA OlderFacts ==
    ASSUME NEW entries, AgesTypeOK(entries, Window)
    PROVE  /\ AgesTypeOK(Older(entries), Window)
           /\ DOMAIN Older(entries) = DOMAIN entries
           /\ \A a \in 0 .. Window - 1 :
                Ages(Older(entries), a) = IF a = 0 THEN {} ELSE Ages(entries, a - 1)
<1> USE TrafficAssumption
<1>1. DOMAIN Older(entries) = DOMAIN entries
  BY DEF Older
<1>2. Older(entries) \in [DOMAIN Older(entries) -> 0 .. Window]
  BY DEF Older, AgesTypeOK
<1>3. ASSUME NEW a \in 0 .. Window - 1
      PROVE  Ages(Older(entries), a) = IF a = 0 THEN {} ELSE Ages(entries, a - 1)
  BY DEF Older, Ages, AgesTypeOK
<1>. QED
  BY <1>1, <1>2, <1>3 DEF AgesTypeOK

-----------------------------------------------------------------------------

\* What the two events are delivered as.
ScheduleEvent(s) == [to |-> "request-scheduler", subject |-> "schedule-fetch", id |-> s, result |-> "null"]

FetchEvent(s) == [to |-> "traffic-controller", subject |-> "fetch", id |-> s, result |-> "null"]

LEMMA EmittedFacts ==
    ASSUME NEW s
    PROVE  Emitted("fetch", {s}, "null") =
                IF "traffic-controller" \in up THEN {FetchEvent(s)} ELSE {}
<1>1. Subscribers("fetch") = {"traffic-controller"}
  BY RateLimitingServices DEF Subscribers, Subscriptions
<1>. QED
  BY <1>1 DEF Emitted, FetchEvent

\* A query's batch is one event for each of its fetches.
LEMMA BatchFacts ==
    ASSUME NEW ids
    PROVE  Emitted("schedule-fetch", ids, "null") =
                IF "request-scheduler" \in up THEN {ScheduleEvent(s) : s \in ids} ELSE {}
<1>1. Subscribers("schedule-fetch") = {"request-scheduler"}
  BY RateLimitingServices DEF Subscribers, Subscriptions
<1>. QED
  BY <1>1 DEF Emitted, ScheduleEvent

\* The two events are deliveries.
LEMMA EventsType ==
    ASSUME NEW s \in SubqueryId
    PROVE  ScheduleEvent(s) \in Delivery /\ FetchEvent(s) \in Delivery
BY RateLimitingServices
   DEF ScheduleEvent, FetchEvent, Delivery, Subscribers, Subscriptions, Subject, Result

\* The id of a delivery is that of a subquery.
LEMMA DeliveryFacts ==
    ASSUME NEW m \in Delivery
    PROVE  /\ m.id \in SubqueryId
           /\ m.to \in Services
           /\ m.to = "traffic-controller" => m.subject = "fetch"
           /\ m.to = "request-scheduler" => m.subject = "schedule-fetch"
BY DEF Delivery, Subscribers, Subscriptions

LEMMA SubqueriesType == Subqueries \subseteq SubqueryId
BY DEF Subqueries

\* Every step preserves the types, and who goes down is recorded as dead.
LEMMA TypeStep == TypeOK /\ DownHaveDied /\ [Next]_vars => TypeOK' /\ DownHaveDied'
<1> SUFFICES ASSUME TypeOK, DownHaveDied, [Next]_vars PROVE TypeOK' /\ DownHaveDied'
  OBVIOUS
<1> USE DEF TypeOK, HistoryTypeOK, NatsTypeOK, TrafficTypeOK, SchedulerTypeOK
<1> USE SubqueriesType
<1>0. ASSUME UNCHANGED <<request, usage, ttl, scheduled, published, calls, overlapped, unheard, unanswered>>,
             net' \subseteq Delivery, up' \subseteq Services, RecordDeaths, SchedulerTypeOK'
      PROVE  TypeOK' /\ DownHaveDied'
  BY <1>0 DEF RecordDeaths, DownHaveDied
<1>1. ASSUME NEW q \in Query, ScheduleFetches(q), RecordDeaths, UNCHANGED request
      PROVE  TypeOK' /\ DownHaveDied'
  <2>1. PICK targets \in SUBSET SubqueriesOf(q) :
            scheduled' = scheduled \cup targets /\ net' = net \cup Emitted("schedule-fetch", targets, "null")
    BY <1>1 DEF ScheduleFetches
  <2>2. targets \subseteq SubqueryId
    BY DEF SubqueriesOf
  <2>3. Emitted("schedule-fetch", targets, "null") \subseteq Delivery
    <3>1. \A s \in targets : ScheduleEvent(s) \in Delivery
      BY <2>2, EventsType
    <3>. QED
      BY <3>1, BatchFacts
  <2>. QED
    BY <1>1, <2>1, <2>2, <2>3
       DEF ScheduleFetches, trafficVars, schedulerVars, historyVars, RecordDeaths, DownHaveDied
<1>2. ASSUME NEW s \in Subqueries, Check(s), RecordDeaths, UNCHANGED <<request, scheduled>> PROVE TypeOK' /\ DownHaveDied'
  <2>1. asking' \in [SubqueryId -> AskingStep]
    BY <1>2 DEF Check, CheckUsage, AskingStep
  <2>2. overlapped' \in BOOLEAN
    BY <1>2 DEF Check
  <2>. QED
    BY <1>2, <2>1, <2>2 DEF Check, CheckUsage, trafficVars, RecordDeaths, DownHaveDied
<1>3. ASSUME NEW s \in Subqueries, Publish(s), RecordDeaths, UNCHANGED <<request, scheduled>> PROVE TypeOK' /\ DownHaveDied'
  <2>1. Emitted("fetch", {s}, "null") \subseteq Delivery
    <3>1. s \in SubqueryId
      OBVIOUS
    <3>2. FetchEvent(s) \in Delivery
      BY <3>1, EventsType
    <3>. QED
      BY <3>2, EmittedFacts
  <2>2. asking' \in [SubqueryId -> AskingStep]
    BY <1>3 DEF Publish, RequestNow, Return, AskingStep
  <2>3. AgesTypeOK(calls', Window - 1)
    BY <1>3, WithNewFacts, TrafficAssumption DEF Publish
  <2>4. unheard' \in BOOLEAN
    BY <1>3 DEF Publish
  <2>. QED
    BY <1>3, <2>1, <2>2, <2>3, <2>4 DEF Publish, RequestNow, trafficVars, RecordDeaths, DownHaveDied
<1>4. CASE SchedulerStep /\ RecordDeaths /\ UNCHANGED <<request, scheduled>>
  <2>0. UNCHANGED <<request, usage, ttl, scheduled, published, calls, overlapped, unheard, unanswered>>
    BY <1>4 DEF SchedulerStep, trafficVars, historyVars
  <2>1. ASSUME NEW m \in net, ScheduleRequest(m) PROVE TypeOK' /\ DownHaveDied'
    BY <1>0, <1>4, <2>0, <2>1 DEF ScheduleRequest, AskingStep
  <2>2. ASSUME NEW j \in jobs, StartJob(j) PROVE TypeOK' /\ DownHaveDied'
    BY <1>0, <1>4, <2>0, <2>2 DEF StartJob, AskingStep
  <2>3. ASSUME NEW s \in Subqueries, ScheduleForLater(s) PROVE TypeOK' /\ DownHaveDied'
    <3>1. [id |-> s, delay |-> Delay, stalled |-> FALSE] \in Job
      BY DelayAssumption DEF Job
    <3>. QED
      BY <1>0, <1>4, <2>0, <2>3, <3>1 DEF ScheduleForLater, Return, AskingStep
  <2>4. ASSUME NEW j \in active, CompleteJob(j) PROVE TypeOK' /\ DownHaveDied'
    BY <1>0, <1>4, <2>0, <2>4 DEF CompleteJob, AskingStep
  <2>. QED
    BY <1>4, <2>1, <2>2, <2>3, <2>4 DEF SchedulerStep
<1>5. ASSUME NEW m \in net, Count(m), RecordDeaths, UNCHANGED <<request, scheduled>> PROVE TypeOK' /\ DownHaveDied'
  <2>1. AgesTypeOK(usage', Window)
    <3>1. AgesTypeOK(InWindow(usage), Window - 1)
      BY InWindowFacts
    <3>2. AgesTypeOK(WithNew(InWindow(usage)), Window - 1)
      BY <3>1, WithNewFacts, TrafficAssumption
    <3>. QED
      BY <1>5, <3>2, TrafficAssumption DEF Count, LogUsage, AgesTypeOK
  <2>2. ttl' \in 0 .. Window
    BY <1>5, TrafficAssumption DEF Count, LogUsage
  <2>. QED
    BY <1>5, <2>1, <2>2 DEF Count, LogUsage, schedulerVars, historyVars, RecordDeaths, DownHaveDied
<1>6. CASE Die /\ RecordDeaths /\ UNCHANGED <<request, scheduled>>
  <2>1. asking' \in [SubqueryId -> AskingStep]
    BY <1>6 DEF Die, TrafficControllerDies, AskingStep
  <2>2. unheard' \in BOOLEAN
    BY <1>6 DEF Die
  <2>. QED
    BY <1>6, <2>1, <2>2 DEF Die, TrafficControllerDies, RedisConnectionLost, Crash, trafficVars, RecordDeaths, DownHaveDied
<1>7. CASE Restart /\ RecordDeaths /\ UNCHANGED <<request, scheduled>>
  <2>1. up' \subseteq Services
    BY <1>7, RestartAssumption DEF Restart, Start
  <2>. QED
    BY <1>7, <2>1 DEF Restart, trafficVars, schedulerVars, historyVars, RecordDeaths, DownHaveDied
<1>8. CASE Tick /\ RecordDeaths /\ UNCHANGED <<request, scheduled>>
  <2>1. AgesTypeOK(usage', Window)
    <3>1. AgesTypeOK(Older(usage), Window)
      BY OlderFacts
    <3>2. AgesTypeOK(NoEntries, Window)
      BY FS_EmptySet DEF AgesTypeOK, NoEntries
    <3>. QED
      BY <1>8, <3>1, <3>2 DEF Tick, UsageAges
  <2>2. ttl' \in 0 .. Window
    BY <1>8, TrafficAssumption DEF Tick, UsageAges
  <2>3. AgesTypeOK(calls', Window - 1)
    <3>1. AgesTypeOK(calls, Window)
      BY TrafficAssumption DEF AgesTypeOK
    <3>. QED
      BY <1>8, <3>1, OlderFacts, InWindowFacts DEF Tick
  <2>4. jobs' \subseteq Job
    <3>1. \A j \in jobs : [j EXCEPT !.delay = IF @ > 0 THEN @ - 1 ELSE 0] \in Job
      BY DelayAssumption DEF Job
    <3>. QED
      BY <1>8, <3>1 DEF Tick, JobsFallDue
  <2>. QED
    BY <1>8, <2>1, <2>2, <2>3, <2>4 DEF Tick, RecordDeaths, DownHaveDied
<1>9. ASSUME NEW s \in Subqueries, CheckFails(s), RecordDeaths, UNCHANGED <<request, scheduled>> PROVE TypeOK' /\ DownHaveDied'
  <2>1. asking' \in [SubqueryId -> AskingStep]
    BY <1>9 DEF CheckFails, CheckUsageFails, RequestSchedulerCrash, AskingStep
  <2>2. jobs' \subseteq Job /\ net' \subseteq net /\ up' \subseteq up /\ active' \subseteq active
    <3>1. \A j \in active : [j EXCEPT !.stalled = TRUE] \in Job
      BY DEF Job
    <3>. QED
      BY <1>9, <3>1 DEF CheckFails, CheckUsageFails, RequestSchedulerCrash, Crash
  <2>. QED
    BY <1>9, <2>1, <2>2 DEF CheckFails, trafficVars, RecordDeaths, DownHaveDied
<1>10. ASSUME NEW q \in Query, ReplaceQuery(q), RecordDeaths, UNCHANGED request PROVE TypeOK' /\ DownHaveDied'
  BY <1>10 DEF ReplaceQuery, trafficVars, schedulerVars, RecordDeaths, DownHaveDied
<1>11. CASE UNCHANGED vars
  BY <1>11 DEF vars, trafficVars, schedulerVars, historyVars, DownHaveDied
<1>. QED
  BY <1>1, <1>2, <1>3, <1>4, <1>5, <1>6, <1>7, <1>8, <1>9, <1>10, <1>11 DEF Next, LimitNext

-----------------------------------------------------------------------------
(* Where a fetch is *)

\* The part of the invariant that says where a fetch may be at once.
Control ==
    /\ EventsAreFresh
    /\ TracesAreScheduled
    /\ NoneTwiceInFlight
    /\ HeldOnce
    /\ ReturnedJobs

\* What two deliveries of one service have in common.
LEMMA SameDelivery ==
    ASSUME NEW m \in Delivery, NEW n \in Delivery, m.to = n.to, m.id = n.id, m.result = n.result,
           m.to \in {"request-scheduler", "traffic-controller"}
    PROVE  m = n
BY DeliveryFacts DEF Delivery

\* Fetches that are scheduled left no trace before.
LEMMA ControlScheduleFetches ==
    ASSUME TypeOK, Control, NEW q \in Query, ScheduleFetches(q), RecordDeaths
    PROVE  Control'
<1> USE DEF TypeOK, HistoryTypeOK, NatsTypeOK, SchedulerTypeOK
<1>0. PICK targets \in SUBSET SubqueriesOf(q) :
        scheduled' = scheduled \cup targets /\ net' = net \cup Emitted("schedule-fetch", targets, "null")
  BY DEF ScheduleFetches
<1>1. /\ \A m \in net' : m \in net \/ \E s \in targets : m = ScheduleEvent(s)
      /\ UNCHANGED <<up, asking, active, jobs, published, unanswered>>
  BY <1>0, BatchFacts DEF ScheduleFetches, schedulerVars, historyVars
<1>2. died' = died
  BY <1>1 DEF RecordDeaths
<1>3. \A s \in targets : s \in SubqueryId /\ s \notin published \cup Queued /\ asking[s] = "idle"
  BY <1>0 DEF ScheduleFetches, SubqueriesOf, Control, TracesAreScheduled
<1>4. EventsAreFresh'
  BY <1>0, <1>1, <1>3 DEF Control, EventsAreFresh, ScheduleEvent, Queued, ActiveId
<1>5. TracesAreScheduled'
  BY <1>0, <1>1 DEF Control, TracesAreScheduled, Queued, ActiveId
<1>6. NoneTwiceInFlight'
  BY <1>1 DEF Control, NoneTwiceInFlight, Uncounted, ScheduleEvent
<1>7. HeldOnce' /\ ReturnedJobs'
  BY <1>1, <1>2 DEF Control, HeldOnce, ReturnedJobs, ActiveId
<1>. QED
  BY <1>4, <1>5, <1>6, <1>7 DEF Control

\* A query whose fetches left nothing behind can be forgotten.
LEMMA ControlReplaceQuery ==
    ASSUME TypeOK, Control, NEW q \in Query, ReplaceQuery(q), RecordDeaths
    PROVE  Control'
<1> USE DEF TypeOK, HistoryTypeOK, NatsTypeOK, SchedulerTypeOK
<1>1. /\ \A s \in SubqueriesOf(q) : s \notin {m.id : m \in net} \cup Queued /\ asking[s] = "idle"
      /\ scheduled' = scheduled \ SubqueriesOf(q)
      /\ published' = published \ SubqueriesOf(q)
      /\ unanswered' = unanswered \ SubqueriesOf(q)
      /\ UNCHANGED <<net, up, asking, active, jobs>>
  BY DEF ReplaceQuery, schedulerVars
<1>2. died' = died
  BY <1>1 DEF RecordDeaths
<1>3. Queued' = Queued /\ ActiveId' = ActiveId /\ ActiveId \subseteq Queued /\ ActiveId \subseteq SubqueryId
  BY <1>1 DEF Queued, ActiveId, Job
<1>4. EventsAreFresh'
  BY <1>1, <1>3 DEF Control, EventsAreFresh
<1>5. TracesAreScheduled'
  BY <1>1, <1>3 DEF Control, TracesAreScheduled
<1>6. NoneTwiceInFlight'
  BY <1>1 DEF Control, NoneTwiceInFlight, Uncounted
<1>7. HeldOnce'
  BY <1>1, <1>2 DEF Control, HeldOnce
<1>8. ReturnedJobs'
  BY <1>1, <1>2, <1>3 DEF Control, ReturnedJobs
<1>. QED
  BY <1>4, <1>5, <1>6, <1>7, <1>8 DEF Control

\* The handler takes the only trace there is.
LEMMA ControlScheduleRequest ==
    ASSUME TypeOK, Control, NEW m \in net, ScheduleRequest(m), UNCHANGED <<scheduled, published, unanswered>>, RecordDeaths
    PROVE  Control'
<1> USE DEF TypeOK, HistoryTypeOK, NatsTypeOK, SchedulerTypeOK
<1>1. /\ m \in Delivery /\ m.id \in SubqueryId
      /\ m.to = "request-scheduler"
      /\ net' = net \ {m}
      /\ asking' = [asking EXCEPT ![m.id] = "asked"]
      /\ UNCHANGED <<up, active, jobs, scheduled, published, unanswered>>
  BY DeliveryFacts DEF ScheduleRequest, Arrives
<1>2. died' = died
  BY <1>1 DEF RecordDeaths
<1>3. m.id \in scheduled /\ m.id \notin published \cup Queued
  BY <1>1 DEF Control, EventsAreFresh
<1>4. EventsAreFresh'
  <2>1. SUFFICES ASSUME NEW n \in net', n.to = "request-scheduler"
                 PROVE  n.id \in scheduled \ (published \cup Queued) /\ asking'[n.id] = "idle" /\ n.result = "null"
    BY <1>1 DEF EventsAreFresh, Queued, ActiveId
  <2>2. n \in Delivery /\ n.id \in SubqueryId /\ n # m
    BY <1>1, <2>1, DeliveryFacts
  <2>3. n.id # m.id
    BY <1>1, <2>1, <2>2, SameDelivery DEF Control, EventsAreFresh
  <2>. QED
    BY <1>1, <2>1, <2>2, <2>3 DEF Control, EventsAreFresh
<1>5. TracesAreScheduled'
  BY <1>1, <1>3 DEF Control, TracesAreScheduled, Queued, ActiveId
<1>6. NoneTwiceInFlight'
  <2>1. SUFFICES ASSUME NEW n \in Uncounted'
                 PROVE  /\ n.id \in published /\ n.subject = "fetch" /\ n.result = "null"
                        /\ asking'[n.id] \notin {"asked", "free", "limited"}
    BY <1>1 DEF NoneTwiceInFlight
  <2>2. n \in Uncounted /\ n.id \in SubqueryId
    BY <1>1, <2>1, DeliveryFacts DEF Uncounted
  <2>. QED
    BY <1>1, <1>3, <2>2 DEF Control, NoneTwiceInFlight
<1>7. HeldOnce'
  <2>1. \A j \in jobs : j.id # m.id /\ j.id \in SubqueryId
    BY <1>3 DEF Queued, Job
  <2>. QED
    BY <1>1, <1>2, <2>1 DEF Control, HeldOnce
<1>8. ReturnedJobs'
  <2>1. ActiveId' = ActiveId /\ ActiveId \subseteq SubqueryId
    BY <1>1 DEF ActiveId, Job
  <2>. QED
    BY <1>1, <1>2, <2>1 DEF Control, ReturnedJobs
<1>. QED
  BY <1>4, <1>5, <1>6, <1>7, <1>8 DEF Control

\* The job's next trace is the worker's.
LEMMA ControlStartJob ==
    ASSUME TypeOK, Control, NEW j \in jobs, StartJob(j), UNCHANGED <<scheduled, published, unanswered>>, RecordDeaths
    PROVE  Control'
<1> USE DEF TypeOK, HistoryTypeOK, NatsTypeOK, SchedulerTypeOK
<1>1. /\ j.id \in SubqueryId
      /\ active = {} /\ active' = {j} /\ jobs' = jobs \ {j}
      /\ ~\E m \in net : m.subject = "fetch" /\ m.id = j.id
      /\ asking' = [asking EXCEPT ![j.id] = "asked"]
      /\ UNCHANGED <<net, up, scheduled, published, unanswered>>
  BY DEF StartJob, Job
<1>2. died' = died
  BY <1>1 DEF RecordDeaths
<1>3. Queued' = Queued /\ j.id \in Queued /\ ActiveId' = {j.id}
  BY <1>1 DEF Queued, ActiveId
<1>4. EventsAreFresh'
  BY <1>1, <1>3, DeliveryFacts DEF Control, EventsAreFresh
<1>5. TracesAreScheduled'
  BY <1>1, <1>3 DEF Control, TracesAreScheduled
<1>6. NoneTwiceInFlight'
  BY <1>1, DeliveryFacts DEF Control, NoneTwiceInFlight, Uncounted
<1>7. HeldOnce'
  BY <1>1, <1>2 DEF Control, HeldOnce, Job
<1>8. ReturnedJobs'
  BY <1>1, <1>2, <1>3 DEF Control, ReturnedJobs
<1>. QED
  BY <1>4, <1>5, <1>6, <1>7, <1>8 DEF Control

\* An answer changes nothing but what was asked for.
LEMMA ControlCheck ==
    ASSUME TypeOK, Control, NEW s \in Subqueries, Check(s), UNCHANGED scheduled, RecordDeaths
    PROVE  Control'
<1> USE DEF TypeOK, HistoryTypeOK, NatsTypeOK, SchedulerTypeOK
<1>1. /\ s \in SubqueryId /\ asking[s] = "asked"
      /\ UNCHANGED <<net, up, active, jobs, scheduled, published, unanswered>>
  BY SubqueriesType DEF Check, CheckUsage
<1>2. PICK answer \in {"limited", "free"} : asking' = [asking EXCEPT ![s] = answer]
  BY DEF Check, CheckUsage
<1>3. died' = died
  BY <1>1 DEF RecordDeaths
<1>4. EventsAreFresh'
  BY <1>1, <1>2, DeliveryFacts DEF Control, EventsAreFresh, Queued, ActiveId
<1>5. TracesAreScheduled'
  BY <1>1, <1>2 DEF Control, TracesAreScheduled, Queued, ActiveId
<1>6. NoneTwiceInFlight'
  BY <1>1, <1>2, DeliveryFacts DEF Control, NoneTwiceInFlight, Uncounted
<1>7. HeldOnce'
  BY <1>1, <1>2, <1>3 DEF Control, HeldOnce, Job
<1>8. ReturnedJobs'
  BY <1>1, <1>2, <1>3 DEF Control, ReturnedJobs, ActiveId, Job
<1>. QED
  BY <1>4, <1>5, <1>6, <1>7, <1>8 DEF Control

\* A crash of the scheduler leaves the queue.
LEMMA ControlCrash ==
    ASSUME TypeOK, Control, DownHaveDied', RequestSchedulerCrash, UNCHANGED <<scheduled, published>>
    PROVE  Control'
<1> USE DEF TypeOK, HistoryTypeOK, NatsTypeOK, SchedulerTypeOK
<1>1. /\ up' = up \ {"request-scheduler"}
      /\ net' = {m \in net : m.to # "request-scheduler"}
      /\ asking' = [s \in SubqueryId |-> "idle"]
      /\ active' = {}
      /\ jobs' = jobs \cup {[j EXCEPT !.stalled = TRUE] : j \in {k \in active : ~k.stalled}}
  BY DEF RequestSchedulerCrash, Crash
<1>2. "request-scheduler" \in died'
  BY <1>1, RateLimitingServices DEF DownHaveDied
<1>3. Queued' \subseteq Queued
  BY <1>1 DEF Queued, ActiveId, Job
<1>4. EventsAreFresh'
  BY <1>1 DEF EventsAreFresh
<1>5. TracesAreScheduled'
  BY <1>1, <1>3 DEF Control, TracesAreScheduled
<1>6. NoneTwiceInFlight'
  BY <1>1, DeliveryFacts DEF Control, NoneTwiceInFlight, Uncounted
<1>7. HeldOnce'
  BY <1>2 DEF HeldOnce
<1>8. ReturnedJobs'
  BY <1>1 DEF ReturnedJobs, ActiveId
<1>. QED
  BY <1>4, <1>5, <1>6, <1>7, <1>8 DEF Control

\* A check that nobody answers fails the job, or the process.
LEMMA ControlCheckFails ==
    ASSUME TypeOK, Control, DownHaveDied, DownHaveDied', NEW s \in Subqueries, CheckFails(s),
           UNCHANGED scheduled, RecordDeaths
    PROVE  Control'
<1>0. CASE RequestSchedulerCrash
  BY <1>0, ControlCrash DEF CheckFails
<1>1. CASE ~RequestSchedulerCrash
  <2> USE DEF TypeOK, HistoryTypeOK, NatsTypeOK, SchedulerTypeOK
  <2>1. /\ s \in SubqueryId /\ asking[s] = "asked"
        /\ asking' = [asking EXCEPT ![s] = "failed"]
        /\ unanswered' = unanswered \cup {s}
        /\ UNCHANGED <<net, up, active, jobs, scheduled, published>>
    BY <1>1, SubqueriesType DEF CheckFails, CheckUsageFails
  <2>2. died' = died
    BY <2>1 DEF RecordDeaths
  <2>3. died # {}
    BY RateLimitingServices DEF CheckFails, CheckUsageFails, DownHaveDied
  <2>4. EventsAreFresh'
    BY <2>1, DeliveryFacts DEF Control, EventsAreFresh, Queued, ActiveId
  <2>5. TracesAreScheduled'
    BY <2>1 DEF Control, TracesAreScheduled, Queued, ActiveId
  <2>6. NoneTwiceInFlight'
    BY <2>1, DeliveryFacts DEF Control, NoneTwiceInFlight, Uncounted
  <2>7. HeldOnce'
    BY <2>1, <2>2 DEF Control, HeldOnce, Job
  <2>8. ReturnedJobs'
    BY <2>1, <2>2, <2>3 DEF Control, ReturnedJobs, ActiveId, Job
  <2>. QED
    BY <2>4, <2>5, <2>6, <2>7, <2>8 DEF Control
<1>. QED
  BY <1>0, <1>1

\* A fetch that waits for its turn is in the queue once.
LEMMA ControlScheduleForLater ==
    ASSUME TypeOK, Control, NEW s \in Subqueries, ScheduleForLater(s),
           UNCHANGED <<scheduled, published, unanswered>>, RecordDeaths
    PROVE  Control'
<1> USE DEF TypeOK, HistoryTypeOK, NatsTypeOK, SchedulerTypeOK
<1>1. /\ s \in SubqueryId /\ asking[s] = "limited"
      /\ UNCHANGED <<net, up, active, scheduled, published, unanswered>>
  BY SubqueriesType DEF ScheduleForLater
<1>0. PICK later : later.id = s /\ jobs' = jobs \cup {later}
  BY DEF ScheduleForLater
<1>2. PICK step \in {"idle", "done"} :
        /\ asking' = [asking EXCEPT ![s] = step]
        /\ s \in ActiveId => step = "done"
  BY DEF ScheduleForLater, Return
<1>3. died' = died
  BY <1>1 DEF RecordDeaths
<1>4. /\ Queued' = Queued \cup {s} /\ ActiveId' = ActiveId /\ ActiveId \subseteq SubqueryId
      /\ {j.id : j \in jobs'} = {j.id : j \in jobs} \cup {s}
  <2>1. {j.id : j \in jobs'} = {j.id : j \in jobs} \cup {s}
    BY <1>0
  <2>2. ActiveId' = ActiveId /\ ActiveId \subseteq SubqueryId
    BY <1>1 DEF ActiveId, Job
  <2>. QED
    BY <2>1, <2>2 DEF Queued
<1>5. EventsAreFresh'
  BY <1>1, <1>2, <1>4, DeliveryFacts DEF Control, EventsAreFresh
<1>6. TracesAreScheduled'
  BY <1>1, <1>2, <1>4 DEF Control, TracesAreScheduled
<1>7. NoneTwiceInFlight'
  BY <1>1, <1>2, DeliveryFacts DEF Control, NoneTwiceInFlight, Uncounted
<1>8. HeldOnce'
  <2>1. SUFFICES ASSUME "request-scheduler" \notin died, NEW j \in jobs'
                 PROVE  asking'[j.id] \in {"idle", "done"} /\ \A k \in jobs' : k.id = j.id => k = j
    BY <1>3 DEF HeldOnce
  <2>2. \A k \in jobs : k.id # s /\ k.id \in SubqueryId
    BY <1>1, <2>1 DEF Control, HeldOnce, Job
  <2>. QED
    BY <1>0, <1>1, <1>2, <2>1, <2>2 DEF Control, HeldOnce
<1>9. ReturnedJobs'
  BY <1>1, <1>2, <1>3, <1>4 DEF Control, ReturnedJobs
<1>. QED
  BY <1>5, <1>6, <1>7, <1>8, <1>9 DEF Control

\* A fetch that is published is not checked any more.
LEMMA ControlPublish ==
    ASSUME TypeOK, Control, NEW s \in Subqueries, Publish(s), UNCHANGED scheduled, RecordDeaths
    PROVE  Control'
<1> USE DEF TypeOK, HistoryTypeOK, NatsTypeOK, SchedulerTypeOK
<1>1. /\ s \in SubqueryId /\ asking[s] = "free"
      /\ \A m \in net' : m \in net \/ m = FetchEvent(s)
      /\ published' = published \cup {s}
      /\ UNCHANGED <<up, active, jobs, scheduled, unanswered>>
  BY SubqueriesType, EmittedFacts DEF Publish, RequestNow
<1>2. PICK step \in {"idle", "done"} :
        /\ asking' = [asking EXCEPT ![s] = step]
        /\ s \in ActiveId => step = "done"
  BY DEF Publish, RequestNow, Return
<1>3. died' = died
  BY <1>1 DEF RecordDeaths
<1>4. Queued' = Queued /\ ActiveId' = ActiveId /\ ActiveId \subseteq SubqueryId
  BY <1>1 DEF Queued, ActiveId, Job
<1>5. EventsAreFresh'
  BY <1>1, <1>2, <1>4, DeliveryFacts DEF Control, EventsAreFresh, FetchEvent
<1>6. TracesAreScheduled'
  BY <1>1, <1>2, <1>4 DEF Control, TracesAreScheduled
<1>7. NoneTwiceInFlight'
  <2>1. SUFFICES ASSUME NEW m \in Uncounted'
                 PROVE  /\ m.id \in published' /\ m.subject = "fetch" /\ m.result = "null"
                        /\ asking'[m.id] \notin {"asked", "free", "limited"}
    BY DEF NoneTwiceInFlight
  <2>2. CASE m = FetchEvent(s)
    BY <1>1, <1>2, <2>2 DEF FetchEvent
  <2>3. CASE m \in Uncounted
    BY <1>1, <1>2, <2>3, DeliveryFacts DEF Control, NoneTwiceInFlight, Uncounted
  <2>. QED
    BY <1>1, <2>1, <2>2, <2>3 DEF Uncounted
<1>8. HeldOnce'
  BY <1>1, <1>2, <1>3 DEF Control, HeldOnce, Job
<1>9. ReturnedJobs'
  BY <1>1, <1>2, <1>3, <1>4 DEF Control, ReturnedJobs
<1>. QED
  BY <1>5, <1>6, <1>7, <1>8, <1>9 DEF Control

\* A job that is completed leaves nothing behind.
LEMMA ControlCompleteJob ==
    ASSUME TypeOK, Control, NEW j \in active, CompleteJob(j), UNCHANGED <<scheduled, published, unanswered>>, RecordDeaths
    PROVE  Control'
<1> USE DEF TypeOK, HistoryTypeOK, NatsTypeOK, SchedulerTypeOK
<1>1. /\ j.id \in SubqueryId
      /\ active' = {}
      /\ asking' = [asking EXCEPT ![j.id] = "idle"]
      /\ UNCHANGED <<net, up, jobs, scheduled, published, unanswered>>
  BY DEF CompleteJob, Job
<1>2. died' = died
  BY <1>1 DEF RecordDeaths
<1>3. Queued' \subseteq Queued /\ ActiveId' = {}
  BY <1>1 DEF Queued, ActiveId
<1>4. EventsAreFresh'
  BY <1>1, <1>3, DeliveryFacts DEF Control, EventsAreFresh
<1>5. TracesAreScheduled'
  BY <1>1, <1>3 DEF Control, TracesAreScheduled
<1>6. NoneTwiceInFlight'
  BY <1>1, DeliveryFacts DEF Control, NoneTwiceInFlight, Uncounted
<1>7. HeldOnce'
  BY <1>1, <1>2 DEF Control, HeldOnce, Job
<1>8. ReturnedJobs'
  BY <1>1, <1>2, <1>3 DEF Control, ReturnedJobs
<1>. QED
  BY <1>4, <1>5, <1>6, <1>7, <1>8 DEF Control

\* A question that was lost leaves its asker where it was.
LEMMA ControlDie ==
    ASSUME TypeOK, Control, DownHaveDied', Die, UNCHANGED scheduled, RecordDeaths
    PROVE  Control'
<1> USE DEF TypeOK, HistoryTypeOK, NatsTypeOK, SchedulerTypeOK
<1>1. /\ up' = up \ {"traffic-controller"}
      /\ net' = {m \in net : m.to # "traffic-controller"}
      /\ UNCHANGED <<active, jobs, scheduled, published>>
  BY DEF Die, TrafficControllerDies, RedisConnectionLost, Crash
<1>2. PICK hung \in SUBSET {s \in SubqueryId : asking[s] = "asked"} :
        asking' = [s \in SubqueryId |-> IF s \in hung THEN "hung" ELSE asking[s]]
  BY DEF Die, TrafficControllerDies
<1>3. died' # {} /\ unanswered' = unanswered \cup {s \in SubqueryId : asking'[s] = "hung"}
  BY <1>1, RateLimitingServices DEF DownHaveDied, Die
<1>4. Queued' = Queued /\ ActiveId' = ActiveId /\ ActiveId \subseteq SubqueryId
  BY <1>1 DEF Queued, ActiveId, Job
<1>5. EventsAreFresh'
  BY <1>1, <1>2, <1>4, DeliveryFacts DEF Control, EventsAreFresh
<1>6. TracesAreScheduled'
  BY <1>1, <1>2, <1>4 DEF Control, TracesAreScheduled
<1>7. NoneTwiceInFlight'
  BY <1>1 DEF NoneTwiceInFlight, Uncounted
<1>8. HeldOnce'
  <2>1. died \subseteq died'
    BY DEF RecordDeaths
  <2>. QED
    BY <1>1, <1>2, <2>1 DEF Control, HeldOnce, Job
<1>9. ReturnedJobs'
  <2>1. \A s \in SubqueryId : asking[s] # "asked" => asking'[s] = asking[s]
    BY <1>2
  <2>2. \A s \in SubqueryId : asking[s] = "asked" => asking'[s] \in {"asked", "hung"}
    BY <1>2
  <2>. QED
    BY <1>1, <1>3, <1>4, <2>1, <2>2 DEF Control, ReturnedJobs
<1>. QED
  BY <1>5, <1>6, <1>7, <1>8, <1>9 DEF Control

\* A tick leaves every fetch where it is.
LEMMA ControlTick ==
    ASSUME TypeOK, Control, Tick, UNCHANGED scheduled, RecordDeaths
    PROVE  Control'
<1> USE DEF TypeOK, HistoryTypeOK, NatsTypeOK, SchedulerTypeOK
<1>1. UNCHANGED <<net, up, asking, active, scheduled, published, unanswered>>
  BY DEF Tick
<1>2. /\ \A j \in jobs : \E k \in jobs' : k.id = j.id
      /\ \A k \in jobs' : \E j \in jobs :
            k.id = j.id /\ k = [j EXCEPT !.delay = IF @ > 0 THEN @ - 1 ELSE 0]
  <2>1. \A j \in jobs : [j EXCEPT !.delay = IF @ > 0 THEN @ - 1 ELSE 0].id = j.id
    BY DEF Job
  <2>2. jobs' = {[j EXCEPT !.delay = IF @ > 0 THEN @ - 1 ELSE 0] : j \in jobs}
    BY DEF Tick, JobsFallDue
  <2>. QED
    BY <2>1, <2>2
<1>3. died' = died
  BY <1>1 DEF RecordDeaths
<1>4. {k.id : k \in jobs'} = {j.id : j \in jobs}
  BY <1>2
<1>5. Queued' = Queued /\ ActiveId' = ActiveId
  BY <1>1, <1>4 DEF Queued, ActiveId
<1>6. EventsAreFresh' /\ TracesAreScheduled' /\ NoneTwiceInFlight'
  BY <1>1, <1>5 DEF Control, EventsAreFresh, TracesAreScheduled, NoneTwiceInFlight, Uncounted
<1>7. HeldOnce'
  BY <1>1, <1>2, <1>3 DEF Control, HeldOnce
<1>8. ReturnedJobs'
  BY <1>1, <1>3, <1>4, <1>5 DEF Control, ReturnedJobs
<1>. QED
  BY <1>6, <1>7, <1>8 DEF Control

\* Every step preserves it.
LEMMA ControlStep ==
    TypeOK /\ DownHaveDied /\ Control /\ [Next]_vars => Control'
<1> SUFFICES ASSUME TypeOK, DownHaveDied, Control, [Next]_vars PROVE Control'
  OBVIOUS
<1>0. DownHaveDied'
  BY TypeStep
<1>1. ASSUME NEW q \in Query, ScheduleFetches(q), RecordDeaths PROVE Control'
  BY <1>1, ControlScheduleFetches
<1>2. ASSUME NEW s \in Subqueries, Check(s), RecordDeaths, UNCHANGED <<request, scheduled>> PROVE Control'
  BY <1>2, ControlCheck
<1>3. ASSUME NEW s \in Subqueries, Publish(s), RecordDeaths, UNCHANGED <<request, scheduled>> PROVE Control'
  BY <1>3, ControlPublish
<1>4. CASE SchedulerStep /\ RecordDeaths /\ UNCHANGED <<request, scheduled>>
  <2>0. UNCHANGED <<scheduled, published, unanswered>>
    BY <1>4 DEF SchedulerStep, historyVars
  <2>1. ASSUME NEW m \in net, ScheduleRequest(m) PROVE Control'
    BY <1>4, <2>0, <2>1, ControlScheduleRequest
  <2>2. ASSUME NEW j \in jobs, StartJob(j) PROVE Control'
    BY <1>4, <2>0, <2>2, ControlStartJob
  <2>3. ASSUME NEW s \in Subqueries, ScheduleForLater(s) PROVE Control'
    BY <1>4, <2>0, <2>3, ControlScheduleForLater
  <2>4. ASSUME NEW j \in active, CompleteJob(j) PROVE Control'
    BY <1>4, <2>0, <2>4, ControlCompleteJob
  <2>. QED
    BY <1>4, <2>1, <2>2, <2>3, <2>4 DEF SchedulerStep
<1>5. ASSUME NEW m \in net, Count(m), RecordDeaths, UNCHANGED <<request, scheduled>> PROVE Control'
  <2>1. net' = net \ {m} /\ UNCHANGED <<up, asking, active, jobs, scheduled, published, unanswered>>
    BY <1>5 DEF Count, LogUsage, schedulerVars, historyVars
  <2>2. died' = died
    BY <1>5, <2>1 DEF RecordDeaths
  <2>. QED
    BY <2>1, <2>2
       DEF Control, EventsAreFresh, TracesAreScheduled, NoneTwiceInFlight, HeldOnce, ReturnedJobs,
           Uncounted, Queued, ActiveId
<1>6. CASE Die /\ RecordDeaths /\ UNCHANGED <<request, scheduled>>
  BY <1>0, <1>6, ControlDie
<1>7. CASE Restart /\ RecordDeaths /\ UNCHANGED <<request, scheduled>>
  <2>1. UNCHANGED <<net, asking, active, jobs, scheduled, published, unanswered>> /\ up \subseteq up'
    BY <1>7 DEF Restart, Start, schedulerVars, historyVars
  <2>2. died' = died
    BY <1>7, <2>1 DEF RecordDeaths, TypeOK, HistoryTypeOK, NatsTypeOK
  <2>. QED
    BY <2>1, <2>2
       DEF Control, EventsAreFresh, TracesAreScheduled, NoneTwiceInFlight, HeldOnce, ReturnedJobs,
           Uncounted, Queued, ActiveId
<1>8. CASE Tick /\ RecordDeaths /\ UNCHANGED <<request, scheduled>>
  BY <1>8, ControlTick
<1>9. ASSUME NEW s \in Subqueries, CheckFails(s), RecordDeaths, UNCHANGED <<request, scheduled>> PROVE Control'
  BY <1>0, <1>9, ControlCheckFails
<1>10. ASSUME NEW q \in Query, ReplaceQuery(q), RecordDeaths PROVE Control'
  BY <1>10, ControlReplaceQuery
<1>11. CASE UNCHANGED vars
  BY <1>11
     DEF vars, schedulerVars, historyVars, Control, EventsAreFresh, TracesAreScheduled,
         NoneTwiceInFlight, HeldOnce, ReturnedJobs, Uncounted, Queued, ActiveId
<1>. QED
  BY <1>1, <1>2, <1>3, <1>4, <1>5, <1>6, <1>7, <1>8, <1>9, <1>10, <1>11 DEF Next, LimitNext

-----------------------------------------------------------------------------
(* How many there are *)

\* The part of the invariant that counts.
Counts ==
    /\ IsFiniteSet(net) /\ IsFiniteSet(Allowed)
    /\ KeyOutlivesEntries
    /\ UsageCoversCalls
    /\ AllowedWithinLimit

\* What counts the same counts as well.
LEMMA SameCounts ==
    ASSUME Counts, UNCHANGED <<usage, ttl, calls, overlapped>>,
           unheard' = FALSE => unheard = FALSE /\ Uncounted' = Uncounted,
           unheard \in BOOLEAN, unheard' \in BOOLEAN, TypeOK,
           IsFiniteSet(net'), Allowed' \subseteq Allowed
    PROVE  Counts'
<1>1. IsFiniteSet(Allowed') /\ Cardinality(Allowed') <= Cardinality(Allowed)
  BY FS_Subset DEF Counts
<1>2. KeyOutlivesEntries'
  BY DEF Counts, KeyOutlivesEntries
<1>3. UsageCoversCalls'
  BY DEF Counts, UsageCoversCalls, Ages
<1>4. AllowedWithinLimit'
  <2>1. /\ Cardinality(DOMAIN calls) \in Nat
        /\ Cardinality(Allowed) \in Nat /\ Cardinality(Allowed') \in Nat
    BY <1>1, FS_CardinalityType DEF Counts, TypeOK, HistoryTypeOK, AgesTypeOK
  <2>. QED
    BY <1>1, <2>1, TrafficAssumption DEF Counts, AllowedWithinLimit
<1>. QED
  BY <1>1, <1>2, <1>3, <1>4 DEF Counts

\* What is counted is a number.
LEMMA CountsType ==
    ASSUME TypeOK, Counts
    PROVE  /\ Cardinality(Uncounted) \in Nat /\ IsFiniteSet(Uncounted)
           /\ Cardinality(Allowed) \in Nat
           /\ Cardinality(DOMAIN calls) \in Nat /\ Cardinality(DOMAIN usage) \in Nat
           /\ \A a \in Nat : Cardinality(Ages(calls, a)) \in Nat /\ Cardinality(Ages(usage, a)) \in Nat
<1>1. IsFiniteSet(Uncounted)
  BY FS_Subset DEF Uncounted, Counts
<1>2. \A a \in Nat : IsFiniteSet(Ages(calls, a)) /\ IsFiniteSet(Ages(usage, a))
  BY FS_Subset DEF Ages, TypeOK, HistoryTypeOK, AgesTypeOK, TrafficTypeOK
<1>. QED
  BY <1>1, <1>2, FS_CardinalityType DEF Counts, TypeOK, HistoryTypeOK, AgesTypeOK, TrafficTypeOK

\* A publication is in flight to the traffic controller, or is never heard of.
LEMMA CountsPublish ==
    ASSUME TypeOK, TypeOK', Control, Counts, NEW s \in Subqueries, Publish(s)
    PROVE  Counts'
<1> USE SubqueriesType
<1>1. /\ s \in SubqueryId /\ asking[s] = "free"
      /\ net' = net \cup (IF "traffic-controller" \in up THEN {FetchEvent(s)} ELSE {})
      /\ calls' = WithNew(calls)
      /\ unheard' = (unheard \/ "traffic-controller" \notin up)
      /\ UNCHANGED <<usage, ttl, overlapped>>
  BY EmittedFacts DEF Publish, RequestNow, trafficVars
<1>2. IsFiniteSet(net')
  BY <1>1, FS_AddElement DEF Counts
<1>3. Allowed' = Allowed \ {s} /\ s \in Allowed
  BY <1>1 DEF Publish, RequestNow, Return, Allowed, TypeOK, HistoryTypeOK, SchedulerTypeOK
<1>4. /\ IsFiniteSet(Allowed') /\ Cardinality(Allowed') = Cardinality(Allowed) - 1
  BY <1>3, FS_RemoveElement DEF Counts
<1>5. /\ Cardinality(DOMAIN calls') = Cardinality(DOMAIN calls) + 1
      /\ \A a \in Nat : Cardinality(Ages(calls', a)) = Cardinality(Ages(calls, a)) + 1
  BY <1>1, WithNewFacts, TrafficAssumption DEF TypeOK, HistoryTypeOK
<1>6. KeyOutlivesEntries'
  BY <1>1 DEF Counts, KeyOutlivesEntries
<1>7. UsageCoversCalls'
  <2>1. SUFFICES ASSUME ~unheard', NEW a \in 0 .. Window - 1
                 PROVE  Cardinality(Ages(calls', a)) <= Cardinality(Ages(usage, a)) + Cardinality(Uncounted')
    BY <1>1 DEF UsageCoversCalls
  <2>2. a \in Nat
    BY TrafficAssumption
  <2>3. ~unheard /\ "traffic-controller" \in up
    BY <1>1, <2>1
  <2>4. Uncounted' = Uncounted \cup {FetchEvent(s)}
    BY <1>1, <2>3 DEF Uncounted, FetchEvent
  <2>5. FetchEvent(s) \notin Uncounted
    BY <1>1 DEF Control, NoneTwiceInFlight, FetchEvent
  <2>6. Cardinality(Uncounted') = Cardinality(Uncounted) + 1
    BY <2>4, <2>5, CountsType, FS_AddElement
  <2>7. Cardinality(Ages(calls, a)) <= Cardinality(Ages(usage, a)) + Cardinality(Uncounted)
    BY <2>3 DEF Counts, UsageCoversCalls
  <2>. QED
    BY <1>5, <2>2, <2>6, <2>7, CountsType
<1>8. AllowedWithinLimit'
  <2>1. SUFFICES ASSUME ~overlapped, ~unheard
                 PROVE  Cardinality(DOMAIN calls') + Cardinality(Allowed') <= RequestLimit
    BY <1>1 DEF AllowedWithinLimit, TypeOK, HistoryTypeOK
  <2>. QED
    BY <1>4, <1>5, <2>1, CountsType, TrafficAssumption DEF Counts, AllowedWithinLimit
<1>. QED
  BY <1>2, <1>4, <1>6, <1>7, <1>8 DEF Counts

\* What is counted is no longer in flight.
LEMMA CountsCount ==
    ASSUME TypeOK, TypeOK', Counts, NEW m \in net, Count(m)
    PROVE  Counts'
<1>1. /\ m \in Uncounted
      /\ net' = net \ {m}
      /\ usage' = WithNew(InWindow(usage)) /\ ttl' = Window
      /\ UNCHANGED <<asking, calls, overlapped, unheard>>
  BY DEF Count, LogUsage, Arrives, Uncounted, schedulerVars, historyVars
<1>2. IsFiniteSet(net') /\ Allowed' = Allowed
  BY <1>1, FS_RemoveElement DEF Counts, Allowed
<1>3. KeyOutlivesEntries'
  <2>1. \A i \in DOMAIN usage' : usage'[i] \in 0 .. Window
    BY DEF TypeOK, HistoryTypeOK, TrafficTypeOK, AgesTypeOK
  <2>. QED
    BY <1>1, <2>1, TrafficAssumption DEF KeyOutlivesEntries
<1>4. UsageCoversCalls'
  <2>1. SUFFICES ASSUME ~unheard, NEW a \in 0 .. Window - 1
                 PROVE  Cardinality(Ages(calls, a)) <= Cardinality(Ages(usage', a)) + Cardinality(Uncounted')
    BY <1>1 DEF UsageCoversCalls
  <2>2. a \in Nat
    BY TrafficAssumption
  <2>3. Uncounted' = Uncounted \ {m}
    BY <1>1 DEF Uncounted
  <2>4. Cardinality(Uncounted') = Cardinality(Uncounted) - 1
    BY <1>1, <2>3, CountsType, FS_RemoveElement
  <2>5. /\ AgesTypeOK(InWindow(usage), Window - 1)
        /\ Ages(InWindow(usage), a) = Ages(usage, a)
    BY InWindowFacts DEF TypeOK, HistoryTypeOK, TrafficTypeOK
  <2>6. Cardinality(Ages(usage', a)) = Cardinality(Ages(usage, a)) + 1
    BY <1>1, <2>2, <2>5, WithNewFacts, TrafficAssumption
  <2>7. Cardinality(Ages(calls, a)) <= Cardinality(Ages(usage, a)) + Cardinality(Uncounted)
    BY <2>1 DEF Counts, UsageCoversCalls
  <2>. QED
    BY <2>2, <2>4, <2>6, <2>7, CountsType
<1>5. AllowedWithinLimit'
  BY <1>1, <1>2 DEF Counts, AllowedWithinLimit
<1>. QED
  BY <1>2, <1>3, <1>4, <1>5 DEF Counts

\* A check that finds nothing on its way leaves room for one.
LEMMA CountsCheck ==
    ASSUME TypeOK, TypeOK', Counts, NEW s \in Subqueries, Check(s)
    PROVE  Counts'
<1> USE SubqueriesType
<1>1. /\ s \in SubqueryId /\ asking[s] = "asked"
      /\ asking' = [asking EXCEPT ![s] = IF IsRateLimited THEN "limited" ELSE "free"]
      /\ overlapped' = (overlapped \/ (~IsRateLimited /\ (Uncounted # {} \/ Allowed # {})))
      /\ UNCHANGED <<net, usage, ttl, calls, unheard>>
  BY DEF Check, CheckUsage, trafficVars
<1>2. CASE IsRateLimited
  <2>1. Allowed' = Allowed
    BY <1>1, <1>2 DEF Allowed, TypeOK, HistoryTypeOK, SchedulerTypeOK
  <2>2. overlapped' = overlapped
    BY <1>1, <1>2 DEF TypeOK, HistoryTypeOK
  <2>3. Uncounted' = Uncounted
    BY <1>1 DEF Uncounted
  <2>4. IsFiniteSet(net')
    BY <1>1 DEF Counts
  <2>. QED
    BY <1>1, <2>1, <2>2, <2>3, <2>4, SameCounts DEF TypeOK, HistoryTypeOK
<1>3. CASE ~IsRateLimited
  <2>1. Allowed' = Allowed \cup {s}
    BY <1>1, <1>3 DEF Allowed, TypeOK, HistoryTypeOK, SchedulerTypeOK
  <2>2. IsFiniteSet(net') /\ IsFiniteSet(Allowed')
    BY <1>1, <2>1, FS_AddElement DEF Counts
  <2>3. KeyOutlivesEntries'
    BY <1>1 DEF Counts, KeyOutlivesEntries
  <2>4. UsageCoversCalls'
    BY <1>1 DEF Counts, UsageCoversCalls, Uncounted
  <2>5. AllowedWithinLimit'
    <3>1. SUFFICES ASSUME ~overlapped', ~unheard
                   PROVE  Cardinality(DOMAIN calls) + Cardinality(Allowed') <= RequestLimit
      BY <1>1 DEF AllowedWithinLimit
    <3>2. Uncounted = {} /\ Allowed = {}
      BY <1>1, <1>3, <3>1
    <3>3. Cardinality(Allowed') = 1 /\ Cardinality(Uncounted) = 0
      BY <2>1, <3>2, FS_Singleton, FS_EmptySet
    <3>4. Ages(calls, Window - 1) = DOMAIN calls
      <4>1. \A i \in DOMAIN calls : calls[i] \in 0 .. Window - 1
        BY DEF TypeOK, HistoryTypeOK, AgesTypeOK
      <4>. QED
        BY <4>1, TrafficAssumption DEF Ages
    <3>5. Cardinality(DOMAIN calls) <= Cardinality(Ages(usage, Window - 1))
      <4>1. Cardinality(Ages(calls, Window - 1)) <= Cardinality(Ages(usage, Window - 1)) + Cardinality(Uncounted)
        BY <3>1, TrafficAssumption DEF Counts, UsageCoversCalls
      <4>. QED
        BY <3>3, <3>4, <4>1, CountsType, TrafficAssumption
    <3>6. Cardinality(Ages(usage, Window - 1)) <= Cardinality(DOMAIN usage)
      BY FS_Subset DEF Ages, TypeOK, HistoryTypeOK, TrafficTypeOK, AgesTypeOK
    <3>7. Cardinality(DOMAIN usage) < RequestLimit
      BY <1>3, CountsType, TrafficAssumption DEF IsRateLimited, UsageCount
    <3>8. Cardinality(Ages(usage, Window - 1)) \in Nat
      BY CountsType, TrafficAssumption
    <3>. QED
      BY <3>3, <3>5, <3>6, <3>7, <3>8, CountsType, TrafficAssumption
  <2>. QED
    BY <2>2, <2>3, <2>4, <2>5 DEF Counts
<1>. QED
  BY <1>2, <1>3

\* Time passes for what was published and for what was counted alike.
LEMMA CountsTick ==
    ASSUME TypeOK, TypeOK', Counts, Tick
    PROVE  Counts'
<1>1. /\ ttl' = (IF ttl > 0 THEN ttl - 1 ELSE 0)
      /\ usage' = (IF ttl' = 0 THEN NoEntries ELSE Older(usage))
      /\ calls' = InWindow(Older(calls))
      /\ UNCHANGED <<net, asking, overlapped, unheard>>
  BY DEF Tick, UsageAges
<1>2. IsFiniteSet(net') /\ Allowed' = Allowed /\ Uncounted' = Uncounted
  BY <1>1 DEF Counts, Allowed, Uncounted
<1>3. AgesTypeOK(calls, Window) /\ AgesTypeOK(usage, Window) /\ ttl \in 0 .. Window
  BY TrafficAssumption DEF TypeOK, HistoryTypeOK, TrafficTypeOK, AgesTypeOK
<1>4. KeyOutlivesEntries'
  <2>1. CASE ttl' = 0
    BY <1>1, <2>1 DEF KeyOutlivesEntries, NoEntries
  <2>2. CASE ttl' # 0
    <3>1. /\ ttl \in Nat /\ ttl > 0 /\ ttl' = ttl - 1
          /\ usage' = Older(usage)
      BY <1>1, <1>3, <2>2, TrafficAssumption
    <3>2. SUFFICES ASSUME NEW i \in DOMAIN usage PROVE usage'[i] + ttl' >= Window
      BY <1>3, <3>1, OlderFacts DEF KeyOutlivesEntries
    <3>3. usage[i] \in 0 .. Window /\ usage[i] + ttl >= Window
      BY <1>3 DEF Counts, KeyOutlivesEntries, AgesTypeOK
    <3>. QED
      BY <3>1, <3>3, TrafficAssumption DEF Older
  <2>. QED
    BY <2>1, <2>2
<1>5. UsageCoversCalls'
  <2>1. SUFFICES ASSUME ~unheard, NEW a \in 0 .. Window - 1
                 PROVE  Cardinality(Ages(calls', a)) <= Cardinality(Ages(usage', a)) + Cardinality(Uncounted)
    BY <1>1, <1>2 DEF UsageCoversCalls
  <2>2. /\ a \in Nat
        /\ Cardinality(Uncounted) \in Nat
        /\ Cardinality(Ages(usage', a)) \in Nat
    <3>1. IsFiniteSet(Ages(usage', a))
      BY FS_Subset DEF Ages, TypeOK, HistoryTypeOK, TrafficTypeOK, AgesTypeOK
    <3>. QED
      BY <3>1, CountsType, FS_CardinalityType, TrafficAssumption
  <2>3. Ages(calls', a) = IF a = 0 THEN {} ELSE Ages(calls, a - 1)
    BY <1>1, <1>3, OlderFacts, InWindowFacts
  <2>4. CASE a = 0
    <3>1. Cardinality(Ages(calls', a)) = 0
      BY <2>3, <2>4, FS_EmptySet
    <3>. QED
      BY <2>2, <3>1
  <2>5. CASE a # 0
    <3>1. a - 1 \in 0 .. Window - 1 /\ a - 1 \in Nat
      BY <2>2, <2>5, TrafficAssumption
    <3>2. Cardinality(Ages(calls', a)) <= Cardinality(Ages(usage, a - 1)) + Cardinality(Uncounted)
      BY <2>1, <2>3, <2>5, <3>1 DEF Counts, UsageCoversCalls
    <3>3. Cardinality(Ages(usage, a - 1)) <= Cardinality(Ages(usage', a))
      <4>1. CASE ttl' = 0
        <5>1. ttl <= 1
          BY <1>1, <1>3, <4>1, TrafficAssumption
        <5>2. Ages(usage, a - 1) = {}
          <6>1. ASSUME NEW i \in DOMAIN usage PROVE ~(usage[i] <= a - 1)
            <7>1. usage[i] \in 0 .. Window /\ usage[i] + ttl >= Window
              BY <1>3 DEF Counts, KeyOutlivesEntries, AgesTypeOK
            <7>. QED
              BY <1>3, <5>1, <7>1, TrafficAssumption
          <6>. QED
            BY <6>1 DEF Ages
        <5>3. Cardinality(Ages(usage, a - 1)) = 0
          BY <5>2, FS_EmptySet
        <5>. QED
          BY <2>2, <5>3
      <4>2. CASE ttl' # 0
        <5>1. Ages(usage', a) = Ages(usage, a - 1)
          BY <1>1, <1>3, <2>5, <4>2, OlderFacts
        <5>. QED
          BY <2>2, <5>1
      <4>. QED
        BY <4>1, <4>2
    <3>4. Cardinality(Ages(usage, a - 1)) \in Nat /\ Cardinality(Ages(calls', a)) \in Nat
      BY <2>3, <2>5, <3>1, CountsType
    <3>. QED
      BY <2>2, <3>2, <3>3, <3>4
  <2>. QED
    BY <2>4, <2>5
<1>6. AllowedWithinLimit'
  <2>1. AgesTypeOK(Older(calls), Window) /\ DOMAIN Older(calls) = DOMAIN calls
    BY <1>3, OlderFacts
  <2>2. DOMAIN calls' \subseteq DOMAIN calls
    BY <1>1, <2>1, InWindowFacts
  <2>3. /\ Cardinality(DOMAIN calls') <= Cardinality(DOMAIN calls)
        /\ Cardinality(DOMAIN calls') \in Nat
    BY <2>2, FS_Subset, FS_CardinalityType DEF TypeOK, HistoryTypeOK, AgesTypeOK
  <2>. QED
    BY <1>1, <1>2, <2>3, CountsType, TrafficAssumption DEF Counts, AllowedWithinLimit
<1>. QED
  BY <1>2, <1>4, <1>5, <1>6 DEF Counts

\* A query has finitely many fetches.
LEMMA BatchesAreFinite ==
    ASSUME NEW q \in Query
    PROVE  IsFiniteSet(SubqueriesOf(q))
<1>1. IsFiniteSet({q} \X (1 .. MaxSubqueries))
  <2>1. 1 \in Int /\ MaxSubqueries \in Int
    BY WorkloadsAssumption
  <2>2. IsFiniteSet(1 .. MaxSubqueries)
    BY <2>1, FS_Interval
  <2>3. IsFiniteSet({q})
    BY FS_Singleton
  <2>. QED
    BY <2>2, <2>3, FS_Product
<1>2. SubqueriesOf(q) \subseteq {q} \X (1 .. MaxSubqueries)
  BY DEF SubqueriesOf, SubqueryId
<1>. QED
  BY <1>1, <1>2, FS_Subset

\* Every step preserves it.
LEMMA CountsStep ==
    TypeOK /\ DownHaveDied /\ Control /\ Counts /\ [Next]_vars => Counts'
<1> SUFFICES ASSUME TypeOK, DownHaveDied, Control, Counts, [Next]_vars PROVE Counts'
  OBVIOUS
<1> USE SubqueriesType
<1>0. TypeOK' /\ unheard \in BOOLEAN /\ unheard' \in BOOLEAN
  BY TypeStep DEF TypeOK, HistoryTypeOK
<1>1. ASSUME NEW q \in Query, ScheduleFetches(q), RecordDeaths PROVE Counts'
  <2>1. PICK targets \in SUBSET SubqueriesOf(q) : net' = net \cup Emitted("schedule-fetch", targets, "null")
    BY <1>1 DEF ScheduleFetches
  <2>2. UNCHANGED <<usage, ttl, asking, calls, overlapped, unheard>>
    BY <1>1 DEF ScheduleFetches, trafficVars, schedulerVars, historyVars
  <2>3. IsFiniteSet(net')
    <3>1. IsFiniteSet(targets)
      BY BatchesAreFinite, FS_Subset
    <3>2. IsFiniteSet({ScheduleEvent(s) : s \in targets})
      <4>1. [s \in targets |-> ScheduleEvent(s)] \in Surjection(targets, {ScheduleEvent(s) : s \in targets})
        BY DEF Surjection
      <4>. QED
        BY <3>1, <4>1, FS_Surjection
    <3>. QED
      BY <2>1, <3>2, BatchFacts, FS_Union, FS_EmptySet DEF Counts
  <2>4. Uncounted' = Uncounted /\ Allowed' = Allowed
    BY <2>1, <2>2, BatchFacts DEF Uncounted, ScheduleEvent, Allowed
  <2>. QED
    BY <1>0, <2>2, <2>3, <2>4, SameCounts
<1>2. ASSUME NEW s \in Subqueries, Check(s), RecordDeaths, UNCHANGED <<request, scheduled>> PROVE Counts'
  BY <1>0, <1>2, CountsCheck
<1>3. ASSUME NEW s \in Subqueries, Publish(s), RecordDeaths, UNCHANGED <<request, scheduled>> PROVE Counts'
  BY <1>0, <1>3, CountsPublish
<1>4. CASE SchedulerStep /\ RecordDeaths /\ UNCHANGED <<request, scheduled>>
  <2>0. UNCHANGED <<usage, ttl, calls, overlapped, unheard>>
    BY <1>4 DEF SchedulerStep, trafficVars, historyVars
  <2>1. ASSUME net' \subseteq net, Uncounted' = Uncounted, Allowed' \subseteq Allowed PROVE Counts'
    <3>1. IsFiniteSet(net')
      BY <2>1, FS_Subset DEF Counts
    <3>. QED
      BY <1>0, <2>0, <2>1, <3>1, SameCounts
  <2>2. ASSUME NEW m \in net, ScheduleRequest(m) PROVE Counts'
    <3>1. m.to = "request-scheduler" /\ net' = net \ {m} /\ asking' = [asking EXCEPT ![m.id] = "asked"]
      BY <2>2 DEF ScheduleRequest, Arrives
    <3>2. Uncounted' = Uncounted /\ Allowed' \subseteq Allowed
      BY <3>1 DEF Uncounted, Allowed, TypeOK, HistoryTypeOK, SchedulerTypeOK
    <3>. QED
      BY <2>1, <3>1, <3>2
  <2>3. ASSUME NEW j \in jobs, StartJob(j) PROVE Counts'
    <3>1. UNCHANGED net /\ asking' = [asking EXCEPT ![j.id] = "asked"]
      BY <2>3 DEF StartJob
    <3>2. Uncounted' = Uncounted /\ Allowed' \subseteq Allowed
      BY <3>1 DEF Uncounted, Allowed, TypeOK, HistoryTypeOK, SchedulerTypeOK
    <3>. QED
      BY <2>1, <3>1, <3>2
  <2>4. ASSUME NEW s \in Subqueries, ScheduleForLater(s) PROVE Counts'
    <3>1. UNCHANGED net /\ asking' = [asking EXCEPT ![s] = IF s \in ActiveId THEN "done" ELSE "idle"]
      BY <2>4 DEF ScheduleForLater, Return
    <3>2. Uncounted' = Uncounted /\ Allowed' \subseteq Allowed
      BY <3>1 DEF Uncounted, Allowed, TypeOK, HistoryTypeOK, SchedulerTypeOK
    <3>. QED
      BY <2>1, <3>1, <3>2
  <2>5. ASSUME NEW j \in active, CompleteJob(j) PROVE Counts'
    <3>1. UNCHANGED net /\ asking' = [asking EXCEPT ![j.id] = "idle"]
      BY <2>5 DEF CompleteJob
    <3>2. Uncounted' = Uncounted /\ Allowed' \subseteq Allowed
      BY <3>1 DEF Uncounted, Allowed, TypeOK, HistoryTypeOK, SchedulerTypeOK
    <3>. QED
      BY <2>1, <3>1, <3>2
  <2>. QED
    BY <1>4, <2>2, <2>3, <2>4, <2>5 DEF SchedulerStep
<1>5. ASSUME NEW m \in net, Count(m), RecordDeaths, UNCHANGED <<request, scheduled>> PROVE Counts'
  BY <1>0, <1>5, CountsCount
<1>6. CASE Die /\ RecordDeaths /\ UNCHANGED <<request, scheduled>>
  <2>1. /\ net' = {m \in net : m.to # "traffic-controller"}
        /\ unheard' = (unheard \/ Uncounted # {})
        /\ UNCHANGED <<usage, ttl, calls, overlapped>>
    BY <1>6 DEF Die, TrafficControllerDies, RedisConnectionLost, Crash, trafficVars
  <2>2. PICK hung \in SUBSET {s \in SubqueryId : asking[s] = "asked"} :
          asking' = [s \in SubqueryId |-> IF s \in hung THEN "hung" ELSE asking[s]]
    BY <1>6 DEF Die, TrafficControllerDies
  <2>3. IsFiniteSet(net')
    BY <2>1, FS_Subset DEF Counts
  <2>4. Allowed' \subseteq Allowed
    BY <2>2 DEF Allowed
  <2>5. unheard' = FALSE => unheard = FALSE /\ Uncounted' = Uncounted
    <3>1. Uncounted' = {}
      BY <2>1 DEF Uncounted
    <3>. QED
      BY <1>0, <2>1, <3>1
  <2>. QED
    BY <1>0, <2>1, <2>3, <2>4, <2>5, SameCounts
<1>7. CASE Restart /\ RecordDeaths /\ UNCHANGED <<request, scheduled>>
  <2>1. UNCHANGED <<net, asking, usage, ttl, calls, overlapped, unheard>>
    BY <1>7 DEF Restart, trafficVars, schedulerVars, historyVars
  <2>2. IsFiniteSet(net') /\ Uncounted' = Uncounted /\ Allowed' \subseteq Allowed
    BY <2>1 DEF Counts, Uncounted, Allowed
  <2>. QED
    BY <1>0, <2>1, <2>2, SameCounts
<1>8. CASE Tick /\ RecordDeaths /\ UNCHANGED <<request, scheduled>>
  BY <1>0, <1>8, CountsTick
<1>9. ASSUME NEW s \in Subqueries, CheckFails(s), RecordDeaths, UNCHANGED <<request, scheduled>> PROVE Counts'
  <2>1. UNCHANGED <<usage, ttl, calls, overlapped, unheard>>
    BY <1>9 DEF CheckFails, trafficVars
  <2>2. net' \subseteq net /\ Uncounted' = Uncounted
    BY <1>9 DEF CheckFails, CheckUsageFails, RequestSchedulerCrash, Crash, Uncounted
  <2>3. Allowed' \subseteq Allowed
    BY <1>9 DEF CheckFails, CheckUsageFails, RequestSchedulerCrash, Allowed, TypeOK, SchedulerTypeOK
  <2>4. IsFiniteSet(net')
    BY <2>2, FS_Subset DEF Counts
  <2>. QED
    BY <1>0, <2>1, <2>2, <2>3, <2>4, SameCounts
<1>10. ASSUME NEW q \in Query, ReplaceQuery(q), RecordDeaths PROVE Counts'
  <2>1. UNCHANGED <<net, asking, usage, ttl, calls, overlapped, unheard>>
    BY <1>10 DEF ReplaceQuery, trafficVars, schedulerVars
  <2>2. IsFiniteSet(net') /\ Uncounted' = Uncounted /\ Allowed' \subseteq Allowed
    BY <2>1 DEF Counts, Uncounted, Allowed
  <2>. QED
    BY <1>0, <2>1, <2>2, SameCounts
<1>11. CASE UNCHANGED vars
  <2>1. UNCHANGED <<net, asking, usage, ttl, calls, overlapped, unheard>>
    BY <1>11 DEF vars, trafficVars, schedulerVars, historyVars
  <2>2. IsFiniteSet(net') /\ Uncounted' = Uncounted /\ Allowed' \subseteq Allowed
    BY <2>1 DEF Counts, Uncounted, Allowed
  <2>. QED
    BY <1>0, <2>1, <2>2, SameCounts
<1>. QED
  BY <1>1, <1>2, <1>3, <1>4, <1>5, <1>6, <1>7, <1>8, <1>9, <1>10, <1>11 DEF Next, LimitNext

-----------------------------------------------------------------------------

\* The conjuncts of the inductive invariant, in the three parts that were treated.
LEMMA IInvParts == IInv <=> TypeOK /\ DownHaveDied /\ Control /\ Counts
BY DEF IInv, Control, Counts

\* Nothing has happened yet.
LEMMA InitIInv == Init => IInv
<1> SUFFICES ASSUME Init PROVE IInv
  OBVIOUS
<1> USE TrafficAssumption
<1>1. /\ net = {} /\ up = Services /\ died = {}
      /\ usage = NoEntries /\ ttl = 0 /\ calls = NoEntries
      /\ asking = [s \in SubqueryId |-> "idle"] /\ active = {} /\ jobs = {}
      /\ scheduled = {} /\ published = {} /\ unanswered = {}
  BY DEF Init, HistoryInit, NatsInit, TrafficInit, SchedulerInit
<1>2. AgesTypeOK(NoEntries, Window) /\ AgesTypeOK(NoEntries, Window - 1)
  BY FS_EmptySet DEF AgesTypeOK, NoEntries
<1>3. TypeOK
  <2>1. NatsTypeOK /\ TrafficTypeOK /\ SchedulerTypeOK
    BY <1>1, <1>2 DEF NatsTypeOK, TrafficTypeOK, SchedulerTypeOK, AskingStep
  <2>. QED
    BY <1>1, <1>2, <2>1 DEF Init, HistoryInit, TypeOK, HistoryTypeOK
<1>4. DownHaveDied
  BY <1>1 DEF DownHaveDied
<1>5. Control
  BY <1>1 DEF Control, EventsAreFresh, TracesAreScheduled, NoneTwiceInFlight, HeldOnce, ReturnedJobs,
              Uncounted, Queued, ActiveId
<1>6. Counts
  <2>1. Allowed = {} /\ DOMAIN calls = {} /\ DOMAIN usage = {}
    BY <1>1 DEF Allowed, NoEntries
  <2>2. IsFiniteSet(net) /\ IsFiniteSet(Allowed) /\ Cardinality(Allowed) = 0
    BY <1>1, <2>1, FS_EmptySet
  <2>3. KeyOutlivesEntries
    BY <2>1 DEF KeyOutlivesEntries
  <2>4. UsageCoversCalls
    <3>1. Uncounted = {} /\ \A a \in Nat : Ages(calls, a) = {} /\ Ages(usage, a) = {}
      BY <1>1, <2>1 DEF Uncounted, Ages
    <3>2. Cardinality({}) = 0
      BY FS_EmptySet
    <3>. QED
      BY <3>1, <3>2 DEF UsageCoversCalls
  <2>5. AllowedWithinLimit
    BY <2>1, <2>2, FS_EmptySet DEF AllowedWithinLimit
  <2>. QED
    BY <2>2, <2>3, <2>4, <2>5 DEF Counts
<1>. QED
  BY <1>3, <1>4, <1>5, <1>6, IInvParts

\* The three parts are preserved together.
LEMMA StepIInv == IInv /\ [Next]_vars => IInv'
<1> SUFFICES ASSUME IInv, [Next]_vars PROVE IInv'
  OBVIOUS
<1>1. TypeOK /\ DownHaveDied /\ Control /\ Counts
  BY IInvParts
<1>2. TypeOK' /\ DownHaveDied'
  BY <1>1, TypeStep
<1>3. Control'
  BY <1>1, ControlStep
<1>4. Counts'
  BY <1>1, CountsStep
<1>. QED
  BY <1>2, <1>3, <1>4 DEF IInv, Control, Counts

\* The inductive invariant of the request scheduler and the traffic controller.
THEOREM LimitInvariant == Spec => []IInv
BY InitIInv, StepIInv, PTL DEF Spec

\* The variables of both services keep their types.
THEOREM LimitTypes == Spec => []TypeOK
<1>1. IInv => TypeOK
  BY DEF IInv
<1>. QED
  BY <1>1, LimitInvariant, PTL

\* No fetch of the last day is forgotten by logUsage, pruned too early or lost with
\* the key, as long as the traffic controller was told of all.
THEOREM NoCallForgotten == Spec => []UsageCoversCalls
<1>1. IInv => UsageCoversCalls
  BY DEF IInv
<1>. QED
  BY <1>1, LimitInvariant, PTL

\* The limit holds whenever no two fetches were between the check and the count at once.
THEOREM LimitKeptSerially == Spec => []SerialLimit
<1>1. IInv => SerialLimit
  <2>1. SUFFICES ASSUME IInv PROVE SerialLimit
    OBVIOUS
  <2>2. TypeOK /\ Counts
    BY <2>1, IInvParts
  <2>. QED
    BY <2>2, CountsType, TrafficAssumption DEF Counts, AllowedWithinLimit, SerialLimit
<1>. QED
  BY <1>1, LimitInvariant, PTL

-----------------------------------------------------------------------------
(* The scheduler implements the dispatch *)

\* Steps that neither dispatch nor lose anything stutter.
LEMMA DispatchStutter ==
    ASSUME Held' = Held, published' = published, unanswered' = unanswered, died' = died
    PROVE  [Dispatch!DispatchNext]_Dispatch!dispatchVars
BY DEF Dispatch!dispatchVars

\* A step after some death may forget what that death left unanswered.
LEMMA DispatchForget ==
    ASSUME Held' \subseteq Held, Held \subseteq Held' \cup unanswered', published' = published,
           unanswered \subseteq unanswered', unanswered' \subseteq unanswered \cup Held, died' # {}
    PROVE  [Dispatch!DispatchNext]_Dispatch!dispatchVars
<1>1. Dispatch!Forget
  BY DEF Dispatch!Forget
<1>. QED
  BY <1>1 DEF Dispatch!DispatchNext

\* Fetches that are scheduled are held, unless nobody is there to hear of them.
LEMMA DispatchScheduleFetches ==
    ASSUME TypeOK, Control, NEW q \in Query, ScheduleFetches(q), RecordDeaths
    PROVE  [Dispatch!DispatchNext]_Dispatch!dispatchVars
<1>0. PICK targets \in SUBSET SubqueriesOf(q) : net' = net \cup Emitted("schedule-fetch", targets, "null")
  BY DEF ScheduleFetches
<1>1. /\ targets \subseteq SubqueryId /\ targets \cap scheduled = {}
      /\ UNCHANGED <<up, asking, active, jobs, published, unanswered>>
  BY DEF ScheduleFetches, SubqueriesOf, schedulerVars, historyVars
<1>2. died' = died
  BY <1>1 DEF RecordDeaths, TypeOK, NatsTypeOK
<1>3. CASE "request-scheduler" \in up
  <2>1. targets \cap (Held \cup published) = {}
    BY <1>1 DEF Held, Control, EventsAreFresh, TracesAreScheduled, Queued
  <2>2. net' = net \cup {ScheduleEvent(s) : s \in targets}
    BY <1>0, <1>3, BatchFacts
  <2>3. Held' = Held \cup targets
    <3>1. {m \in net' : m.to = "request-scheduler"} =
                {m \in net : m.to = "request-scheduler"} \cup {ScheduleEvent(s) : s \in targets}
      BY <2>2 DEF ScheduleEvent
    <3>2. \A s \in targets : ScheduleEvent(s).id = s
      BY DEF ScheduleEvent
    <3>3. \A s : s \in Held' <=> s \in Held \/ s \in targets
      BY <1>1, <3>1, <3>2 DEF Held, ActiveId
    <3>. QED
      BY <3>3
  <2>4. Dispatch!ScheduleSome(targets)
    BY <1>1, <1>2, <2>1, <2>3 DEF Dispatch!ScheduleSome
  <2>. QED
    BY <1>1, <2>4 DEF Dispatch!DispatchNext
<1>4. CASE "request-scheduler" \notin up
  <2>1. net' = net
    BY <1>0, <1>4, BatchFacts
  <2>2. Held' = Held
    BY <1>1, <2>1 DEF Held, ActiveId
  <2>. QED
    BY <1>1, <1>2, <2>2, DispatchStutter
<1>. QED
  BY <1>3, <1>4

\* A publication is that of a fetch that was held, and once, unless the scheduler died.
LEMMA DispatchPublish ==
    ASSUME TypeOK, Control, NEW s \in Subqueries, Publish(s), RecordDeaths
    PROVE  [Dispatch!DispatchNext]_Dispatch!dispatchVars
<1> USE DEF TypeOK, HistoryTypeOK, NatsTypeOK, SchedulerTypeOK
<1>1. /\ s \in SubqueryId /\ asking[s] = "free"
      /\ net' = net \cup (IF "traffic-controller" \in up THEN {FetchEvent(s)} ELSE {})
      /\ published' = published \cup {s}
      /\ UNCHANGED <<up, active, jobs, unanswered>>
  BY SubqueriesType, EmittedFacts DEF Publish, RequestNow
<1>0. {m \in net' : m.to = "request-scheduler"} = {m \in net : m.to = "request-scheduler"}
  BY <1>1 DEF FetchEvent
<1>2. PICK step \in {"idle", "done"} : asking' = [asking EXCEPT ![s] = step]
  BY DEF Publish, RequestNow, Return
<1>3. died' = died
  BY <1>1 DEF RecordDeaths
<1>4. s \in Held
  BY <1>1 DEF Held
<1>5. Held' \subseteq Held /\ Held \ {s} \subseteq Held'
  BY <1>0, <1>1, <1>2 DEF Held, ActiveId
<1>6. ASSUME "request-scheduler" \notin died PROVE s \notin Held'
  <2>1. \A m \in net' : m.to = "request-scheduler" => m.id # s
    BY <1>0, <1>1 DEF Control, EventsAreFresh
  <2>2. \A j \in jobs' : j.id # s
    BY <1>1, <1>6 DEF Control, HeldOnce
  <2>. QED
    BY <1>1, <1>2, <2>1, <2>2 DEF Held
<1>7. \/ Held' = Held \ {s}
      \/ "request-scheduler" \in died /\ Held' = Held
  BY <1>5, <1>6
<1>8. Dispatch!PublishOne(s)
  BY <1>1, <1>3, <1>4, <1>7 DEF Dispatch!PublishOne
<1>. QED
  BY <1>1, <1>8 DEF Dispatch!DispatchNext

\* The steps of the scheduler on its own pass a fetch on, from the event to the check and
\* from the check to the queue, and let go of it when somebody died.
LEMMA DispatchScheduler ==
    ASSUME TypeOK, Control, DownHaveDied, DownHaveDied', SchedulerStep, RecordDeaths
    PROVE  [Dispatch!DispatchNext]_Dispatch!dispatchVars
<1> USE DEF TypeOK, HistoryTypeOK, NatsTypeOK, SchedulerTypeOK
<1> USE SubqueriesType
<1>0. published' = published /\ unanswered' = unanswered
  BY DEF SchedulerStep, historyVars
<1>1. ASSUME Held' = Held, up' = up PROVE [Dispatch!DispatchNext]_Dispatch!dispatchVars
  <2>1. died' = died
    BY <1>1 DEF RecordDeaths
  <2>. QED
    BY <1>0, <1>1, <2>1, DispatchStutter
<1>2. ASSUME NEW m \in net, ScheduleRequest(m) PROVE [Dispatch!DispatchNext]_Dispatch!dispatchVars
  <2>1. /\ m.to = "request-scheduler" /\ m.id \in SubqueryId
        /\ net' = net \ {m}
        /\ asking' = [asking EXCEPT ![m.id] = "asked"]
        /\ UNCHANGED <<up, active, jobs>>
    BY <1>2, DeliveryFacts DEF ScheduleRequest, Arrives
  <2>2. m.id \in Held /\ m.id \in Held'
    BY <2>1 DEF Held
  <2>3. \A s : s # m.id => (s \in Held <=> s \in Held')
    BY <2>1 DEF Held, ActiveId
  <2>4. Held' = Held
    BY <2>2, <2>3
  <2>. QED
    BY <1>1, <2>1, <2>4
<1>3. ASSUME NEW j \in jobs, StartJob(j) PROVE [Dispatch!DispatchNext]_Dispatch!dispatchVars
  <2>1. /\ j.id \in SubqueryId
        /\ active = {} /\ active' = {j} /\ jobs' = jobs \ {j}
        /\ asking' = [asking EXCEPT ![j.id] = "asked"]
        /\ UNCHANGED <<net, up>>
    BY <1>3 DEF StartJob, Job
  <2>2. j.id \in Held /\ j.id \in Held'
    BY <2>1 DEF Held
  <2>3. ActiveId = {} /\ ActiveId' = {j.id}
    BY <2>1 DEF ActiveId
  <2>4. \A s : s # j.id => (s \in Held <=> s \in Held')
    BY <2>1, <2>3 DEF Held
  <2>5. Held' = Held
    BY <2>2, <2>4
  <2>. QED
    BY <1>1, <2>1, <2>5
<1>4. ASSUME NEW s \in Subqueries, ScheduleForLater(s) PROVE [Dispatch!DispatchNext]_Dispatch!dispatchVars
  <2>1. /\ s \in SubqueryId /\ asking[s] = "limited"
        /\ asking' = [asking EXCEPT ![s] = IF s \in ActiveId THEN "done" ELSE "idle"]
        /\ UNCHANGED <<net, up, active>>
    BY <1>4 DEF ScheduleForLater, Return
  <2>2. PICK later : later.id = s /\ jobs' = jobs \cup {later}
    BY <1>4 DEF ScheduleForLater
  <2>3. s \in Held /\ s \in Held'
    BY <2>1, <2>2 DEF Held
  <2>4. ActiveId' = ActiveId
    BY <2>1 DEF ActiveId
  <2>5. \A t : t # s => (t \in Held <=> t \in Held')
    BY <2>1, <2>2, <2>4 DEF Held
  <2>6. Held' = Held
    BY <2>3, <2>5
  <2>. QED
    BY <1>1, <2>1, <2>6
<1>5. ASSUME NEW j \in active, CompleteJob(j) PROVE [Dispatch!DispatchNext]_Dispatch!dispatchVars
  <2>1. /\ j.id \in SubqueryId /\ asking[j.id] \in {"done", "failed"}
        /\ asking' = [asking EXCEPT ![j.id] = "idle"]
        /\ UNCHANGED <<net, up, jobs>>
    BY <1>5 DEF CompleteJob, Job
  <2>2. ActiveId = {j.id} /\ ActiveId' = {}
    BY <1>5 DEF CompleteJob, ActiveId
  <2>3. CASE asking[j.id] = "done"
    <3>1. Held' = Held
      BY <2>1, <2>2, <2>3 DEF Held
    <3>. QED
      BY <1>1, <2>1, <3>1
  <2>4. CASE asking[j.id] = "failed"
    <3>1. Held' \subseteq Held /\ Held \subseteq Held' \cup {j.id}
      BY <2>1, <2>2 DEF Held
    <3>2. died' # {} /\ j.id \in unanswered
      BY <2>1, <2>4 DEF Control, ReturnedJobs, RecordDeaths
    <3>. QED
      BY <1>0, <3>1, <3>2, DispatchForget
  <2>. QED
    BY <2>1, <2>3, <2>4
<1>. QED
  BY <1>2, <1>3, <1>4, <1>5 DEF SchedulerStep

\* A check that nobody answers is the end of a job, or of the process.
LEMMA DispatchCheckFails ==
    ASSUME TypeOK, Control, DownHaveDied, DownHaveDied', NEW s \in Subqueries, CheckFails(s), RecordDeaths
    PROVE  [Dispatch!DispatchNext]_Dispatch!dispatchVars
<1> USE DEF TypeOK, HistoryTypeOK, NatsTypeOK, SchedulerTypeOK
<1> USE SubqueriesType
<1>0. published' = published /\ unanswered' = unanswered \cup {s}
  BY DEF CheckFails
<1>1. CASE RequestSchedulerCrash
  <2>1. /\ up' = up \ {"request-scheduler"}
        /\ net' = {m \in net : m.to # "request-scheduler"}
        /\ asking' = [t \in SubqueryId |-> "idle"]
        /\ jobs' = jobs \cup {[j EXCEPT !.stalled = TRUE] : j \in {k \in active : ~k.stalled}}
    BY <1>1 DEF RequestSchedulerCrash, Crash
  <2>2. "request-scheduler" \in died'
    BY <2>1, RateLimitingServices DEF DownHaveDied
  <2>3. Held' \subseteq {j.id : j \in jobs} \cup ActiveId
    BY <2>1 DEF Held, ActiveId, Job
  <2>4. ActiveId \subseteq Held \cup published
    <3>1. ASSUME NEW t \in ActiveId PROVE t \in Held \cup published
      <4>1. t \in SubqueryId
        BY DEF ActiveId, Job
      <4>2. asking[t] \in AskingStep /\ asking[t] # "idle"
        BY <4>1 DEF Control, ReturnedJobs
      <4>3. CASE asking[t] = "done"
        BY <4>1, <4>3 DEF Control, ReturnedJobs, Held
      <4>4. CASE asking[t] # "done"
        BY <4>1, <4>2, <4>4 DEF AskingStep, Held
      <4>. QED
        BY <4>3, <4>4
    <3>. QED
      BY <3>1
  <2>5. Held' \subseteq Held \cup published
    BY <2>3, <2>4 DEF Held
  <2>6. Dispatch!Repeat
    BY <1>0, <2>2, <2>5 DEF Dispatch!Repeat
  <2>. QED
    BY <2>6 DEF Dispatch!DispatchNext
<1>2. CASE ~RequestSchedulerCrash
  <2>1. /\ s \in SubqueryId /\ s \in ActiveId /\ asking[s] = "asked"
        /\ asking' = [asking EXCEPT ![s] = "failed"]
        /\ UNCHANGED <<net, up, active, jobs>>
    BY <1>2 DEF CheckFails, CheckUsageFails
  <2>2. ActiveId' = ActiveId
    BY <2>1 DEF ActiveId
  <2>3. Held' = Held
    BY <2>1, <2>2 DEF Held
  <2>4. died' # {}
    BY RateLimitingServices DEF CheckFails, CheckUsageFails, DownHaveDied, RecordDeaths
  <2>5. s \in Held
    BY <2>1 DEF Held
  <2>. QED
    BY <1>0, <2>3, <2>4, <2>5, DispatchForget
<1>. QED
  BY <1>1, <1>2

\* Every step of the two services is a step of the dispatch, or none.
LEMMA DispatchStep ==
    TypeOK /\ Control /\ DownHaveDied /\ DownHaveDied' /\ [Next]_vars
        => [Dispatch!DispatchNext]_Dispatch!dispatchVars
<1> SUFFICES ASSUME TypeOK, Control, DownHaveDied, DownHaveDied', [Next]_vars
             PROVE  [Dispatch!DispatchNext]_Dispatch!dispatchVars
  OBVIOUS
<1> USE DEF TypeOK, HistoryTypeOK, NatsTypeOK, SchedulerTypeOK
<1>1. ASSUME NEW q \in Query, ScheduleFetches(q), RecordDeaths
      PROVE  [Dispatch!DispatchNext]_Dispatch!dispatchVars
  BY <1>1, DispatchScheduleFetches
<1>2. ASSUME NEW s \in Subqueries, Check(s), RecordDeaths, UNCHANGED <<request, scheduled>>
      PROVE  [Dispatch!DispatchNext]_Dispatch!dispatchVars
  <2>1. /\ s \in SubqueryId /\ asking[s] = "asked"
        /\ UNCHANGED <<net, up, active, jobs, published, unanswered>>
    BY <1>2, SubqueriesType DEF Check, CheckUsage
  <2>2. PICK answer \in {"limited", "free"} : asking' = [asking EXCEPT ![s] = answer]
    BY <1>2 DEF Check, CheckUsage
  <2>3. Held' = Held /\ died' = died
    BY <1>2, <2>1, <2>2 DEF Held, ActiveId, RecordDeaths
  <2>. QED
    BY <2>1, <2>3, DispatchStutter
<1>3. ASSUME NEW s \in Subqueries, Publish(s), RecordDeaths, UNCHANGED <<request, scheduled>>
      PROVE  [Dispatch!DispatchNext]_Dispatch!dispatchVars
  BY <1>3, DispatchPublish
<1>4. CASE SchedulerStep /\ RecordDeaths /\ UNCHANGED <<request, scheduled>>
  BY <1>4, DispatchScheduler
<1>5. ASSUME NEW m \in net, Count(m), RecordDeaths, UNCHANGED <<request, scheduled>>
      PROVE  [Dispatch!DispatchNext]_Dispatch!dispatchVars
  <2>1. /\ m.to = "traffic-controller" /\ net' = net \ {m}
        /\ UNCHANGED <<up, asking, active, jobs, published, unanswered>>
    BY <1>5 DEF Count, LogUsage, Arrives, schedulerVars, historyVars
  <2>2. {n \in net' : n.to = "request-scheduler"} = {n \in net : n.to = "request-scheduler"}
    BY <2>1
  <2>3. Held' = Held /\ died' = died
    BY <1>5, <2>1, <2>2 DEF Held, ActiveId, RecordDeaths
  <2>. QED
    BY <2>1, <2>3, DispatchStutter
<1>6. CASE Die /\ RecordDeaths /\ UNCHANGED <<request, scheduled>>
  <2>1. /\ up' = up \ {"traffic-controller"}
        /\ net' = {m \in net : m.to # "traffic-controller"}
        /\ unanswered' = unanswered \cup {s \in SubqueryId : asking'[s] = "hung"}
        /\ UNCHANGED <<active, jobs, published>>
    BY <1>6 DEF Die, TrafficControllerDies, RedisConnectionLost, Crash
  <2>2. PICK hung \in SUBSET {s \in SubqueryId : asking[s] = "asked"} :
          asking' = [s \in SubqueryId |-> IF s \in hung THEN "hung" ELSE asking[s]]
    BY <1>6 DEF Die, TrafficControllerDies
  <2>3. Held' \subseteq Held /\ Held \subseteq Held' \cup unanswered'
    BY <2>1, <2>2 DEF Held, ActiveId
  <2>4. died' # {}
    BY <2>1, RateLimitingServices DEF DownHaveDied
  <2>5. unanswered' \subseteq unanswered \cup Held
    <3>1. ASSUME NEW s \in SubqueryId, asking'[s] = "hung" PROVE s \in unanswered \cup Held
      BY <2>2, <3>1 DEF Control, ReturnedJobs, Held
    <3>. QED
      BY <2>1, <3>1
  <2>. QED
    BY <2>1, <2>3, <2>4, <2>5, DispatchForget
<1>7. CASE Restart /\ RecordDeaths /\ UNCHANGED <<request, scheduled>>
  <2>1. UNCHANGED <<net, asking, active, jobs, published, unanswered>> /\ up \subseteq up'
    BY <1>7 DEF Restart, Start, schedulerVars, historyVars
  <2>2. Held' = Held /\ died' = died
    BY <1>7, <2>1 DEF Held, ActiveId, RecordDeaths
  <2>. QED
    BY <2>1, <2>2, DispatchStutter
<1>8. CASE Tick /\ RecordDeaths /\ UNCHANGED <<request, scheduled>>
  <2>1. UNCHANGED <<net, up, asking, active, published, unanswered>>
    BY <1>8 DEF Tick
  <2>2. {k.id : k \in jobs'} = {j.id : j \in jobs}
    <3>1. \A j \in jobs : [j EXCEPT !.delay = IF @ > 0 THEN @ - 1 ELSE 0].id = j.id
      BY DEF Job
    <3>2. jobs' = {[j EXCEPT !.delay = IF @ > 0 THEN @ - 1 ELSE 0] : j \in jobs}
      BY <1>8 DEF Tick, JobsFallDue
    <3>3. \A j \in jobs : \E k \in jobs' : k.id = j.id
      BY <3>1, <3>2
    <3>4. \A k \in jobs' : \E j \in jobs : k.id = j.id
      BY <3>1, <3>2
    <3>. QED
      BY <3>3, <3>4
  <2>3. Held' = Held /\ died' = died
    BY <1>8, <2>1, <2>2 DEF Held, ActiveId, RecordDeaths
  <2>. QED
    BY <2>1, <2>3, DispatchStutter
<1>9. ASSUME NEW s \in Subqueries, CheckFails(s), RecordDeaths, UNCHANGED <<request, scheduled>>
      PROVE  [Dispatch!DispatchNext]_Dispatch!dispatchVars
  BY <1>9, DispatchCheckFails
<1>10. ASSUME NEW q \in Query, ReplaceQuery(q), RecordDeaths
       PROVE  [Dispatch!DispatchNext]_Dispatch!dispatchVars
  <2>1. /\ \A s \in SubqueriesOf(q) : s \notin {m.id : m \in net} \cup Queued /\ asking[s] = "idle"
        /\ published' = published \ SubqueriesOf(q)
        /\ unanswered' = unanswered \ SubqueriesOf(q)
        /\ UNCHANGED <<net, up, asking, active, jobs>>
    BY <1>10 DEF ReplaceQuery, schedulerVars
  <2>2. Held' = Held /\ died' = died
    BY <1>10, <2>1 DEF Held, ActiveId, RecordDeaths
  <2>3. SubqueriesOf(q) \cap Held = {}
    BY <2>1 DEF Held, Queued, ActiveId
  <2>4. Dispatch!Retire(SubqueriesOf(q))
    BY <2>1, <2>2, <2>3 DEF Dispatch!Retire
  <2>5. SubqueriesOf(q) \in SUBSET SubqueryId
    BY DEF SubqueriesOf
  <2>. QED
    BY <2>4, <2>5 DEF Dispatch!DispatchNext
<1>11. CASE UNCHANGED vars
  <2>1. UNCHANGED <<net, died, asking, active, jobs, published, unanswered>>
    BY <1>11 DEF vars, schedulerVars, historyVars
  <2>2. Held' = Held
    BY <2>1 DEF Held, ActiveId
  <2>. QED
    BY <2>1, <2>2, DispatchStutter
<1>. QED
  BY <1>1, <1>2, <1>3, <1>4, <1>5, <1>6, <1>7, <1>8, <1>9, <1>10, <1>11 DEF Next, LimitNext

\* No fetch is lost between its event, the two copies of the check and the queue while
\* both processes run, and none is published twice unless the scheduler died.
THEOREM SchedulerDispatches == Spec => DispatchKept
<1>1. Init => Dispatch!DispatchInit
  <2>1. SUFFICES ASSUME Init PROVE Dispatch!DispatchInit
    OBVIOUS
  <2>2. /\ net = {} /\ died = {} /\ jobs = {} /\ published = {} /\ unanswered = {}
        /\ asking = [s \in SubqueryId |-> "idle"]
    BY <2>1 DEF Init, HistoryInit, NatsInit, SchedulerInit
  <2>3. Held = {}
    BY <2>2 DEF Held
  <2>. QED
    BY <2>2, <2>3 DEF Dispatch!DispatchInit
<1>2. IInv /\ IInv' /\ [Next]_vars => [Dispatch!DispatchNext]_Dispatch!dispatchVars
  BY DispatchStep DEF IInv, Control
<1>. QED
  BY <1>1, <1>2, LimitInvariant, PTL DEF Spec, DispatchKept, Dispatch!DispatchSpec

=============================================================================
