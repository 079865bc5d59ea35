-------------------------------- MODULE System --------------------------------
(***************************************************************************)
(* The five microservices over one broker: the aggregation engine with the *)
(* request scheduler, its queue and the traffic controller in it.          *)
(***************************************************************************)
EXTENDS ApiGateway, SwapiConnector, LimitHistory

ASSUME SystemServices ==
    Services = {"query-manager", "cache-manager", "swapi-connector", "request-scheduler",
                "traffic-controller"}

engineVars == <<cacheVars, connectorVars, queryVars, consumer>>

limitVars == <<trafficVars, schedulerVars, historyVars>>

vars == <<request, net, up, died, engineVars, limitVars>>

TypeOK ==
    /\ request \in Workloads
    /\ NatsTypeOK
    /\ CacheTypeOK
    /\ ConnectorTypeOK
    /\ QueryTypeOK
    /\ GatewayTypeOK
    /\ TrafficTypeOK
    /\ SchedulerTypeOK
    /\ HistoryTypeOK

Init ==
    /\ request \in Workloads
    /\ NatsInit
    /\ CacheInit
    /\ ConnectorInit
    /\ QueryInit
    /\ GatewayInit
    /\ TrafficInit
    /\ SchedulerInit
    /\ HistoryInit

EngineStep ==
    /\ \/ QueryNext /\ UNCHANGED <<cacheVars, connectorVars, consumer>>
       \/ CacheNext /\ UNCHANGED <<connectorVars, queryVars, consumer>>
       \/ ConnectorNext /\ UNCHANGED <<cacheVars, queryVars, consumer>>
       \/ GatewayNext /\ UNCHANGED <<cacheVars, connectorVars, queryVars>>
       \/ RestartCacheManager /\ UNCHANGED <<connectorVars, consumer>>
    /\ UNCHANGED limitVars

LimitStep == LimitNext /\ UNCHANGED engineVars

RestartStep ==
    /\ \E svc \in Restartable \ {"cache-manager"} : Start(svc)
    /\ UNCHANGED <<net, engineVars, limitVars>>

Next ==
    /\ \/ EngineStep
       \/ LimitStep
       \/ RestartStep
    /\ UNCHANGED request
    /\ RecordDeaths

Spec == Init /\ [][Next]_vars

-----------------------------------------------------------------------------

\* The fetches that were scheduled and not published: held by the scheduler, in whatever
\* form, or given up with a check that the traffic controller left unanswered.
Unpublished == Held \cup unanswered

\* What the engine sees of the broker: a fetch that was not published waits for its
\* dispatch, for ever if it was given up, and nobody counts.
EngineNet ==
    {m \in net : m.to \notin {"request-scheduler", "traffic-controller"}}
        \cup {[to |-> "request-scheduler", subject |-> "schedule-fetch", id |-> s, result |-> "null"] :
                s \in Unpublished}

LimitServices == {"request-scheduler", "traffic-controller"}

\* What scheduler and traffic controller see of the broker, and of the query manager.
LimiterNet == {m \in net : m.to \in LimitServices}

Scheduled == UNION {TargetSubqueries(q) : q \in {r \in Query : creating[r] = "answered"}}

\* The system implements Aggregation as long as the scheduler has not died: with the
\* checks, the delayed queue, its worker and the traffic controller in the place of an
\* atomic dispatch, every handler of the engine still takes only the steps Aggregation
\* takes, whether the traffic controller runs or not.
Engine == INSTANCE Aggregation WITH
    Services <- Services \ {"traffic-controller"},
    Restartable <- Restartable \ {"request-scheduler", "traffic-controller"},
    up <- up \ {"traffic-controller"},
    died <- died \ {"traffic-controller"},
    net <- EngineNet

EngineKept == Engine!Init /\ []["request-scheduler" \in died' \/ Engine!Next]_(Engine!vars)

\* ... and of its publications, the rate limiting: scheduler and traffic controller
\* keep the limit as they do on their own, whatever the engine around them does.
Limiter == INSTANCE RateLimiting WITH
    Services <- LimitServices,
    Restartable <- Restartable \cap LimitServices,
    up <- up \cap LimitServices,
    died <- died \cap LimitServices,
    net <- LimiterNet,
    scheduled <- Scheduled

LimiterKept == Limiter!Spec

\* The fetches some job is for.
Queued == {j.id : j \in jobs} \cup ActiveId

\* A fetch with a check that was not answered is where that left it: its handler or the
\* worker waits, or its job has failed, or is done with.
UnansweredAreLeft ==
    /\ "traffic-controller" \in up \cup died
    /\ unanswered # {} => "traffic-controller" \in died
    /\ \A s \in SubqueryId :
        /\ asking[s] \in {"hung", "failed"} => s \in unanswered
        /\ s \in unanswered => asking[s] \in {"idle", "hung", "failed"} /\ s \notin {j.id : j \in jobs}

\* Until its event is handled there is no other trace of a fetch in the scheduler.
EventsAreFresh ==
    \A m \in net : m.to = "request-scheduler" =>
        /\ m.id \notin Queued \cup unanswered
        /\ asking[m.id] = "idle" /\ m.result = "null"

\* A fetch is in the queue once, and not while it is checked.
JobsAreSingle ==
    \A j \in jobs :
        /\ asking[j.id] \in {"idle", "done"}
        /\ \A k \in jobs : k.id = j.id => k = j

\* Only fetches of answered queries leave traces in the scheduler: an event that
\* ScheduleFetches emits is the first of its fetch.
TracesAreAnswered ==
    \A s \in SubqueryId :
        s \in Unpublished \cup Queued \/ asking[s] # "idle" => creating[QueryOf(s)] = "answered"

\* A fetch the scheduler holds is in one place, so that to publish it takes it out of
\* all of them.
HeldInOnePlace ==
    /\ NatsTypeOK
    /\ SchedulerTypeOK
    /\ ConnectorTypeOK
    /\ unanswered \subseteq SubqueryId
    /\ creating \in [Query -> CreateStep]
    /\ "request-scheduler" \in up
    /\ UnansweredAreLeft
    /\ EventsAreFresh
    /\ JobsAreSingle
    /\ TracesAreAnswered

\* This is inductive as long as the scheduler has not died.
IInv == "request-scheduler" \notin died => HeldInOnePlace

\* COMPLETED is not shown to a consumer before SWAPI served everything, limit or not.
CompletedSeenIsDownloaded == Engine!CompletedSeenIsDownloaded

\* As long as no process but the query manager and the traffic controller has died, no
\* path of an answered query is forgotten: it is cached, SWAPI answered it with an empty
\* body, or a fetch for it is under way, be it in the delayed queue, or was given up with
\* a check that the traffic controller's death left unanswered.
NoFetchLost ==
    died \subseteq {"query-manager", "traffic-controller"} =>
        \A q \in Query : creating[q] = "answered" =>
            \A s \in SubqueriesOf(q) :
                \/ PathOf(s) \in resources
                \/ \E t \in SubqueriesOf(q) :
                    /\ PathOf(t) = PathOf(s)
                    /\ \/ t \in Held \cup fetching
                       \/ \E m \in net : m.id = t /\ m.to = "swapi-connector"
                       \/ \E m \in net : m.id = t /\ m.to = "cache-manager" /\ m.result = "data"
                       \/ \E u \in updating : u.id = t
                       \/ [id |-> t, result |-> "null"] \in swapiLog
                       \/ t \in unanswered /\ "traffic-controller" \in died

=============================================================================
