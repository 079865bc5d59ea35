----------------------------- MODULE RateLimiting -----------------------------
(***************************************************************************)
(* Request scheduler and traffic controller over NATS, with the clock.     *)
(* The query manager is here the environment that schedules fetches, each  *)
(* once (see FetchedOncePerQuery of Aggregation) and without end; the      *)
(* SWAPI connector is left out, and "published" stands for what it was     *)
(* sent.                                                                   *)
(***************************************************************************)
EXTENDS LimitHistory

ASSUME RateLimitingServices == Services = {"request-scheduler", "traffic-controller"}

VARIABLE scheduled     \* subqueries whose fetch was scheduled

vars == <<request, net, up, died, trafficVars, schedulerVars, historyVars, scheduled>>

TypeOK ==
    /\ request \in Workloads
    /\ NatsTypeOK
    /\ TrafficTypeOK
    /\ SchedulerTypeOK
    /\ HistoryTypeOK
    /\ scheduled \subseteq SubqueryId

Init ==
    /\ request \in Workloads
    /\ NatsInit
    /\ TrafficInit
    /\ SchedulerInit
    /\ HistoryInit
    /\ scheduled = {}

\* fetchQueryRequestResultsFromDataSource emits the fetches of q, once, for whichever
\* of its subqueries the cache did not answer.
ScheduleFetches(q) ==
    /\ scheduled \cap SubqueriesOf(q) = {}
    /\ UNCHANGED <<up, trafficVars, schedulerVars, historyVars>>
    /\ \E targets \in SUBSET SubqueriesOf(q) :
        /\ scheduled' = scheduled \cup targets
        /\ net' = net \cup Emitted("schedule-fetch", targets, "null")

\* The fetches some job is for.
Queued == {j.id : j \in jobs} \cup ActiveId

\* The load does not end: once no event, handler or job is about the fetches of q, the
\* next query takes its place, with fetches of its own.  Two bounds on the load: only while
\* no process has died, and only while fewer calls than the limit are in the window.
ReplaceQuery(q) ==
    /\ \A s \in SubqueriesOf(q) :
        /\ s \notin {m.id : m \in net} \cup Queued
        /\ asking[s] = "idle"
    /\ died = {}
    /\ Cardinality(DOMAIN calls) < RequestLimit
    /\ scheduled' = scheduled \ SubqueriesOf(q)
    /\ published' = published \ SubqueriesOf(q)
    /\ unanswered' = unanswered \ SubqueriesOf(q)
    /\ UNCHANGED <<net, up, trafficVars, schedulerVars, calls, overlapped, unheard>>

Restart ==
    /\ Start("request-scheduler") \/ Start("traffic-controller")
    /\ UNCHANGED <<net, trafficVars, schedulerVars, historyVars>>

Next ==
    /\ \/ \E q \in Query : ScheduleFetches(q) \/ ReplaceQuery(q)
       \/ (LimitNext \/ Restart) /\ UNCHANGED scheduled
    /\ UNCHANGED request
    /\ RecordDeaths

Spec == Init /\ [][Next]_vars

\* Each handler goes on once it can, and time passes.
CheckProgress(s) ==
    /\ \/ /\ \/ \E m \in net : m.id = s /\ ScheduleRequest(m)
             \/ ScheduleForLater(s)
             \/ \E j \in active : j.id = s /\ CompleteJob(j)
          /\ UNCHANGED <<trafficVars, historyVars>>
       \/ Check(s)
       \/ Publish(s)
    /\ UNCHANGED <<request, scheduled>>
    /\ RecordDeaths

CountProgress(s) ==
    /\ \E m \in net : m.id = s /\ Count(m)
    /\ UNCHANGED <<request, scheduled>>
    /\ RecordDeaths

\* The queue is first in, first out: a job that keeps being due while the worker
\* takes others is taken in its turn.
JobProgress(s) ==
    /\ \E j \in jobs : j.id = s /\ StartJob(j)
    /\ UNCHANGED <<request, died, trafficVars, scheduled, historyVars>>

Fairness ==
    /\ \A s \in SubqueryId : /\ WF_vars(CheckProgress(s))
                              /\ WF_vars(CountProgress(s))
                              /\ SF_vars(JobProgress(s))
    /\ WF_vars(Tick /\ UNCHANGED <<request, scheduled>> /\ RecordDeaths)

FairSpec == Spec /\ Fairness

-----------------------------------------------------------------------------
(* Safety *)

\* The scheduler and its queue implement the dispatch that the aggregation engine
\* counts on: no fetch is lost between the event, the two copies of the check and
\* the delayed queue.  A death of the traffic controller takes those alone whose check
\* was under way, and none of those that wait for their day; and none is published twice
\* unless the scheduler itself died, after publishing it and before completing its job.
Dispatch == INSTANCE FetchDispatch WITH
    Fetch <- SubqueryId, pending <- Held, stranded <- unanswered, lossy <- died # {},
    repeating <- "request-scheduler" \in died

DispatchKept == Dispatch!DispatchSpec

-----------------------------------------------------------------------------
(* The inductive invariant behind the safety properties *)

\* A fetch is scheduled once: until its event is handled there is no other trace of it.
EventsAreFresh ==
    \A m \in net : m.to = "request-scheduler" =>
        /\ m.id \in scheduled \ (published \cup Queued)
        /\ asking[m.id] = "idle" /\ m.result = "null"

TracesAreScheduled ==
    /\ published \cup Queued \subseteq scheduled
    /\ \A s \in SubqueryId : asking[s] # "idle" => s \in scheduled

\* No fetch is checked again while its last publication is on its way.
NoneTwiceInFlight ==
    \A m \in Uncounted :
        /\ m.id \in published
        /\ m.subject = "fetch" /\ m.result = "null"
        /\ asking[m.id] \notin {"asked", "free", "limited"}

\* Until the scheduler dies, a fetch is in the queue once, and not while it is checked.
HeldOnce ==
    "request-scheduler" \notin died =>
        \A j \in jobs :
            /\ asking[j.id] \in {"idle", "done"}
            /\ \A k \in jobs : k.id = j.id => k = j

\* What the worker is through with was published or put back; a check that was not
\* answered is one that a death left so.
ReturnedJobs ==
    /\ \A s \in ActiveId :
        /\ asking[s] # "idle"
        /\ asking[s] = "done" => s \in published \cup {j.id : j \in jobs}
    /\ \A s \in SubqueryId : asking[s] \in {"hung", "failed"} => died # {} /\ s \in unanswered

\* The key expires when its entries have left the window.
KeyOutlivesEntries == \A i \in DOMAIN usage : usage[i] + ttl >= Window

\* What was published or may still be, without another check, is within the limit.
AllowedWithinLimit ==
    ~overlapped /\ ~unheard =>
        Cardinality(DOMAIN calls) + Cardinality(Allowed) <= RequestLimit

DownHaveDied == Services \ up \subseteq died

\* The conjunction is inductive: the counts of calls, entries and events in flight are
\* related age by age, because time passes for all of them at once.
IInv ==
    /\ TypeOK
    /\ IsFiniteSet(net) /\ IsFiniteSet(Allowed)
    /\ DownHaveDied
    /\ EventsAreFresh
    /\ TracesAreScheduled
    /\ NoneTwiceInFlight
    /\ HeldOnce
    /\ ReturnedJobs
    /\ KeyOutlivesEntries
    /\ UsageCoversCalls
    /\ AllowedWithinLimit

-----------------------------------------------------------------------------
(* Liveness *)

\* The worker waits for an answer that will not come.
WorkerHangs == \E s \in ActiveId : asking[s] = "hung"

\* As long as fetches wait, fetches are published, whatever is asked for meanwhile: the
\* count of the last day, which only a logged fetch brings up to date, never closes the
\* way for good, since the key expires when none is.  Which of them are published is
\* left open (see EventuallyPublished of LimitPromises).  Nothing is claimed while a
\* process is down or the worker waits for an answer that died with one.
DispatchContinues ==
    \/ []<>(Held = {} \/ ~AllUp \/ WorkerHangs)
    \/ []<><<\E s \in Subqueries : Publish(s)>>_vars

=============================================================================
