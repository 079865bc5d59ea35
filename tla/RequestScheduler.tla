--------------------------- MODULE RequestScheduler ---------------------------
(***************************************************************************)
(* The request scheduler: on a "schedule-fetch" event it asks the traffic  *)
(* controller whether the limit is reached, and either publishes the fetch *)
(* or puts it in the BullMQ queue "scheduled-requests" for a day; the      *)
(* queue's worker does the same with each job that falls due.  The queue   *)
(* is in Redis and survives the process: a job that was being processed is *)
(* found stalled and run again, once.  Jobs of one fetch that fall due in  *)
(* the same tick count as one.                                             *)
(***************************************************************************)
EXTENDS TrafficController

CONSTANT Delay       \* ticks in the delay of a scheduled job

ASSUME DelayAssumption == Delay \in Nat

VARIABLES
    asking,    \* where scheduleRequestAsync or process is with each subquery
    active,    \* the job the worker is processing, if any
    jobs       \* jobs waiting, with the ticks until they are due

schedulerVars == <<asking, active, jobs>>

\* free, limited: the answer has come.  hung: it never will.  done, failed: process
\* has returned, after dealing with the fetch or after catching an error.
AskingStep == {"idle", "asked", "free", "limited", "hung", "done", "failed"}

Job == [id : SubqueryId, delay : 0 .. Delay, stalled : BOOLEAN]

SchedulerTypeOK ==
    /\ asking \in [SubqueryId -> AskingStep]
    /\ active \subseteq Job
    /\ \A j, k \in active : j = k
    /\ jobs \subseteq Job

SchedulerInit ==
    /\ asking = [s \in SubqueryId |-> "idle"]
    /\ active = {}
    /\ jobs = {}

ActiveId == {j.id : j \in active}

\* A job that stalls a second time fails, for good.
RequestSchedulerCrash ==
    /\ Crash("request-scheduler")
    /\ asking' = [s \in SubqueryId |-> "idle"]
    /\ active' = {}
    /\ jobs' = jobs \cup {[j EXCEPT !.stalled = TRUE] : j \in {k \in active : ~k.stalled}}

\* scheduleRequestAsync sends RATE_LIMIT_USAGE_READ.
ScheduleRequest(m) ==
    /\ Arrives(m, "request-scheduler", "schedule-fetch")
    /\ net' = net \ {m}
    /\ asking' = [asking EXCEPT ![m.id] = "asked"]
    /\ UNCHANGED <<up, active, jobs>>

\* Mutant of StartJob: the worker takes every job that is due.
StartJobConcurrently(j) ==
    /\ "request-scheduler" \in up
    /\ j \in jobs
    /\ j.delay = 0
    /\ ~\E m \in net : m.subject = "fetch" /\ m.id = j.id
    /\ jobs' = jobs \ {j}
    /\ active' = active \cup {j}
    /\ asking' = [asking EXCEPT ![j.id] = "asked"]
    /\ UNCHANGED <<net, up>>

\* Mutant of StartJob: the job is looked at and stays in the queue.
StartJobPeeking(j) ==
    /\ "request-scheduler" \in up
    /\ active = {}
    /\ j \in jobs
    /\ j.delay = 0
    /\ ~\E m \in net : m.subject = "fetch" /\ m.id = j.id
    /\ active' = {j}
    /\ asking' = [asking EXCEPT ![j.id] = "asked"]
    /\ UNCHANGED <<net, up, jobs>>

\* process sends it for a job that is due; the worker takes one job at a time.  The bound
\* on what is in flight: another job of the fetch, half a minute after a crash or a tick
\* later, is taken when what the last one published has arrived.
StartJob(j) ==
    /\ "request-scheduler" \in up
    /\ active = {}
    /\ j \in jobs
    /\ j.delay = 0
    /\ ~\E m \in net : m.subject = "fetch" /\ m.id = j.id
    /\ jobs' = jobs \ {j}
    /\ active' = {j}
    /\ asking' = [asking EXCEPT ![j.id] = "asked"]
    /\ UNCHANGED <<net, up>>

\* The traffic controller counts, and its answer is on its way.
CheckUsage(s) ==
    /\ asking[s] = "asked"
    /\ "traffic-controller" \in up
    /\ asking' = [asking EXCEPT ![s] = IF IsRateLimited THEN "limited" ELSE "free"]
    /\ UNCHANGED <<net, up, active, jobs>>

\* The handler of s is through: process returns to its worker.
Return(s) == asking' = [asking EXCEPT ![s] = IF s \in ActiveId THEN "done" ELSE "idle"]

\* Nobody answers: process catches the error and returns; scheduleRequestAsync
\* rejects, and nobody awaits it.
CheckUsageFails(s) ==
    /\ asking[s] = "asked"
    /\ "traffic-controller" \notin up
    /\ IF s \in ActiveId
       THEN /\ asking' = [asking EXCEPT ![s] = "failed"]
            /\ UNCHANGED <<net, up, active, jobs>>
       ELSE RequestSchedulerCrash

\* Mutant of ScheduleForLater: a job that finds the limit reached is not put back.
ScheduleForLaterOnce(s) ==
    /\ asking[s] = "limited"
    /\ jobs' = IF s \in ActiveId THEN jobs
               ELSE jobs \cup {[id |-> s, delay |-> Delay, stalled |-> FALSE]}
    /\ Return(s)
    /\ UNCHANGED <<net, up, active>>

\* Mutant of ScheduleForLater: an event that finds the limit reached is not queued.
ScheduleForLaterAgain(s) ==
    /\ asking[s] = "limited"
    /\ jobs' = IF s \in ActiveId THEN jobs \cup {[id |-> s, delay |-> Delay, stalled |-> FALSE]}
               ELSE jobs
    /\ Return(s)
    /\ UNCHANGED <<net, up, active>>

\* Mutant of ScheduleForLater: there is no else, the fetch is published as well.
ScheduleForLaterAndNow(s) ==
    /\ asking[s] = "limited"
    /\ jobs' = jobs \cup {[id |-> s, delay |-> Delay, stalled |-> FALSE]}
    /\ net' = net \cup Emitted("fetch", {s}, "null")
    /\ Return(s)
    /\ UNCHANGED <<up, active>>

\* queue.add with the delay of a day, by either copy of the check.
ScheduleForLater(s) ==
    /\ asking[s] = "limited"
    /\ jobs' = jobs \cup {[id |-> s, delay |-> Delay, stalled |-> FALSE]}
    /\ Return(s)
    /\ UNCHANGED <<net, up, active>>

\* The fetch is published at once, by either copy of the check.
RequestNow(s) ==
    /\ asking[s] = "free"
    /\ net' = net \cup Emitted("fetch", {s}, "null")
    /\ Return(s)
    /\ UNCHANGED <<up, active, jobs>>

\* The worker marks the job completed: process never fails one.
CompleteJob(j) ==
    /\ j \in active
    /\ asking[j.id] \in {"done", "failed"}
    /\ asking' = [asking EXCEPT ![j.id] = "idle"]
    /\ active' = {}
    /\ UNCHANGED <<net, up, jobs>>

\* The traffic controller dies: a question that was on its way is never answered, and
\* whoever asked it waits for ever, the worker included: there is no timeout.
TrafficControllerDies ==
    /\ RedisConnectionLost
    /\ \E hung \in SUBSET {s \in SubqueryId : asking[s] = "asked"} :
            asking' = [s \in SubqueryId |-> IF s \in hung THEN "hung" ELSE asking[s]]
    /\ UNCHANGED <<active, jobs>>

\* A tick passes for the queue.
JobsFallDue ==
    jobs' = {[j EXCEPT !.delay = IF @ > 0 THEN @ - 1 ELSE 0] : j \in jobs}

-----------------------------------------------------------------------------

\* The fetches the scheduler still has to publish, wherever they are.
Held ==
    {m.id : m \in {n \in net : n.to = "request-scheduler"}}
        \cup {s \in SubqueryId : \/ asking[s] \in {"asked", "free", "limited"}
                                 \/ asking[s] \in {"hung", "failed"} /\ s \in ActiveId}
        \cup {j.id : j \in jobs}

=============================================================================
