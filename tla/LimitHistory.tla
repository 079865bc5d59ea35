----------------------------- MODULE LimitHistory -----------------------------
(***************************************************************************)
(* Request scheduler and traffic controller with the clock, and the        *)
(* history that says whether they keep the limit: what was published, when *)
(* and with which checks and counts still to come.                         *)
(***************************************************************************)
EXTENDS RequestScheduler

VARIABLES
    published,     \* subqueries whose fetch was published
    calls,         \* ages of the publications of the last Window ticks
    overlapped,    \* two fetches were once between the check and the count
    unheard,       \* a fetch was once published that is never counted
    unanswered     \* subqueries with a check that the traffic controller left unanswered

historyVars == <<published, calls, overlapped, unheard, unanswered>>

HistoryTypeOK ==
    /\ published \subseteq SubqueryId
    /\ AgesTypeOK(calls, Window - 1)
    /\ overlapped \in BOOLEAN
    /\ unheard \in BOOLEAN
    /\ unanswered \subseteq SubqueryId

HistoryInit ==
    /\ published = {}
    /\ calls = NoEntries
    /\ overlapped = FALSE
    /\ unheard = FALSE
    /\ unanswered = {}

\* The fetches the traffic controller will hear of, and those that were found to be
\* under the limit: they count, and the next check will not see them.
Uncounted == {m \in net : m.to = "traffic-controller"}

Allowed == {s \in SubqueryId : asking[s] = "free"}

SchedulerStep ==
    /\ \/ \E m \in net : ScheduleRequest(m)
       \/ \E j \in jobs : StartJob(j)
       \/ \E s \in Subqueries : ScheduleForLater(s)
       \/ \E j \in active : CompleteJob(j)
    /\ UNCHANGED <<trafficVars, historyVars>>

\* The fetch whose check is not answered is given up.
CheckFails(s) ==
    /\ CheckUsageFails(s)
    /\ unanswered' = unanswered \cup {s}
    /\ UNCHANGED <<trafficVars, published, calls, overlapped, unheard>>

Check(s) ==
    /\ CheckUsage(s)
    /\ overlapped' = (overlapped \/ (~IsRateLimited /\ (Uncounted # {} \/ Allowed # {})))
    /\ UNCHANGED <<trafficVars, published, calls, unheard, unanswered>>

Publish(s) ==
    /\ RequestNow(s)
    /\ published' = published \cup {s}
    /\ calls' = WithNew(calls)
    /\ unheard' = (unheard \/ "traffic-controller" \notin up)
    /\ UNCHANGED <<trafficVars, overlapped, unanswered>>

Count(m) ==
    /\ LogUsage(m)
    /\ UNCHANGED <<schedulerVars, historyVars>>

Die ==
    /\ TrafficControllerDies
    /\ unheard' = (unheard \/ Uncounted # {})
    /\ unanswered' = unanswered \cup {s \in SubqueryId : asking'[s] = "hung"}
    /\ UNCHANGED <<published, calls, overlapped>>

Tick ==
    /\ UsageAges
    /\ JobsFallDue
    /\ calls' = InWindow(Older(calls))
    /\ UNCHANGED <<net, up, asking, active, published, overlapped, unheard, unanswered>>

LimitNext ==
    \/ \E s \in Subqueries : Check(s) \/ CheckFails(s) \/ Publish(s)
    \/ SchedulerStep
    \/ \E m \in net : Count(m)
    \/ Die
    \/ Tick

-----------------------------------------------------------------------------
(* Safety *)

Ages(entries, oldest) == {i \in DOMAIN entries : entries[i] <= oldest}

\* The traffic controller forgets no fetch of the last day that it was told of: each is
\* in the sorted set, as an entry no older, or in an event on its way, although the set
\* is pruned, and its key expires, by clocks of their own (logUsage).
UsageCoversCalls ==
    ~unheard => \A a \in 0 .. Window - 1 :
        Cardinality(Ages(calls, a)) <= Cardinality(Ages(usage, a)) + Cardinality(Uncounted)

\* The check and the count are two steps of two services; as long as no two
\* fetches were between them at once, and none was published while the traffic
\* controller was down, no more than RequestLimit fetches are published in any Window
\* ticks, in spite of immediate requests, due and stalled jobs, entries that expire,
\* and restarts of both.
SerialLimit == ~overlapped /\ ~unheard => Cardinality(DOMAIN calls) <= RequestLimit

=============================================================================
