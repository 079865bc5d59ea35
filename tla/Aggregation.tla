---------------------------- MODULE Aggregation -----------------------------
(***************************************************************************)
(* The aggregation engine: query manager, cache manager and SWAPI          *)
(* connector over NATS, and the gateway in front of them.  The request     *)
(* scheduler is taken at its promise: a scheduled fetch is published,      *)
(* once, after any delay.                                                  *)
(***************************************************************************)
EXTENDS ApiGateway, SwapiConnector

\* The traffic controller is left out: it only counts the fetches.
ASSUME AggregationServices ==
    Services = {"query-manager", "cache-manager", "swapi-connector", "request-scheduler"}

vars == <<request, net, up, died, cacheVars, connectorVars, queryVars, consumer>>

TypeOK ==
    /\ request \in Workloads
    /\ NatsTypeOK
    /\ CacheTypeOK
    /\ ConnectorTypeOK
    /\ QueryTypeOK
    /\ GatewayTypeOK

Init ==
    /\ request \in Workloads
    /\ NatsInit
    /\ CacheInit
    /\ ConnectorInit
    /\ QueryInit
    /\ GatewayInit

\* scheduleRequestAsync, now or from a delayed job: the fetch is published.
Dispatch(m) ==
    /\ Arrives(m, "request-scheduler", "schedule-fetch")
    /\ net' = (net \ {m}) \cup Emitted("fetch", {m.id}, m.result)
    /\ UNCHANGED up

QueryManagerStep == QueryNext /\ UNCHANGED <<request, cacheVars, connectorVars, consumer>>

CacheManagerStep == CacheNext /\ UNCHANGED <<request, connectorVars, queryVars, consumer>>

ConnectorStep == ConnectorNext /\ UNCHANGED <<request, cacheVars, queryVars, consumer>>

SchedulerStep ==
    /\ \E m \in net : Dispatch(m)
    /\ UNCHANGED <<request, cacheVars, connectorVars, queryVars, consumer>>

GatewayStep == GatewayNext /\ UNCHANGED <<request, cacheVars, connectorVars, queryVars>>

RestartStep ==
    \/ RestartCacheManager /\ UNCHANGED <<request, connectorVars, consumer>>
    \/ /\ Start("query-manager") \/ Start("swapi-connector")
       /\ UNCHANGED <<request, net, cacheVars, connectorVars, queryVars, consumer>>

Next ==
    /\ \/ QueryManagerStep
       \/ CacheManagerStep
       \/ ConnectorStep
       \/ SchedulerStep
       \/ GatewayStep
       \/ RestartStep
    /\ RecordDeaths

Spec == Init /\ [][Next]_vars

\* Each of the following is one async function run by Node: once it can go on,
\* it does.  A create request of q:
CreateProgress(q) ==
    /\ \/ \E s \in SubqueriesOf(q) : CreateReadCache(s)
       \/ CreateFromCache(q)
       \/ SaveNewQuery(q)
       \/ SaveNewSubqueries(q)
       \/ ScheduleFetches(q)
    /\ UNCHANGED <<request, cacheVars, connectorVars, consumer>>
    /\ RecordDeaths

\* the fetch of s, up to its publication:
FetchProgress(s) ==
    \/ /\ \E m \in net : m.id = s /\ Dispatch(m)
       /\ UNCHANGED <<request, died, cacheVars, connectorVars, queryVars, consumer>>
    \/ /\ \/ \E m \in net : m.id = s /\ (FetchDataCached(m) \/ FetchDataMissing(m))
          \/ \E r \in SwapiResults : SwapiAnswers(s, r)
       /\ UNCHANGED <<request, died, cacheVars, queryVars, consumer>>

\* the cache update of s:
UpdateProgress(s) ==
    /\ \/ \E m \in net : m.id = s /\ UpdateCacheFind(m)
       \/ \E u \in updating : u.id = s /\ (UpdateCacheSave(u) \/ UpdateCacheDuplicateKey(u))
    /\ UNCHANGED <<request, connectorVars, queryVars, consumer>>
    /\ RecordDeaths

\* and the handling of the result of s:
HandleProgress(s) ==
    /\ \/ \E m \in net : m.id = s /\ HandleResultLoad(m)
       \/ \E t \in SubqueriesOf(QueryOf(s)) : HandleResultReadCache(s, t)
       \/ HandleResultSaveQuery(s)
       \/ HandleResultSaveSubquery(s)
       \/ NotifyCallback(s)
    /\ UNCHANGED <<request, cacheVars, connectorVars, consumer>>
    /\ RecordDeaths

\* Consumers need not create anything, no failure has to happen, and nobody has to
\* start a process again.
Fairness ==
    /\ \A q \in Query : WF_vars(CreateProgress(q))
    /\ \A s \in SubqueryId : /\ WF_vars(FetchProgress(s))
                              /\ WF_vars(UpdateProgress(s))
                              /\ WF_vars(HandleProgress(s))

FairSpec == Spec /\ Fairness

-----------------------------------------------------------------------------
(* Safety *)

\* A query is only ever marked COMPLETED once SWAPI has served every resource it
\* asks for, although the verdict combines cache reads taken at different times
\* with the result of one event (handleSubqueryResultAsync).
CompletedIsDownloaded ==
    \A s \in Subqueries : queryTable[QueryOf(s)] = "COMPLETED" => PathOf(s) \in Downloaded

\* No result ever reaches the query manager before the rows it belongs to are
\* stored, so findOneOrFail in handleSubqueryResultAsync never rejects; this
\* rests on the order of the two saves and the emits in
\* fetchQueryRequestResultsFromDataSource.
RowsPrecedeFetches ==
    \A s \in {m.id : m \in net} \cup fetching :
        queryTable[QueryOf(s)] # "none" /\ subqueryTable[s] # "none"

\* The subquery s is on its way to the cache.
InPipeline(s) ==
    \/ \E m \in net : m.id = s /\ \/ m.subject \in {"schedule-fetch", "fetch"}
                                  \/ m.to = "cache-manager" /\ m.result = "data"
    \/ s \in fetching
    \/ \E u \in updating : u.id = s

\* As long as no process but the query manager has died, and however often that one
\* came back, no path of a stored query is forgotten: it is cached, SWAPI answered
\* it with an empty body, or a fetch for it is under way, whatever subqueries were
\* dropped as duplicates or as already cached.
NoFetchLost ==
    died \subseteq {"query-manager"} => \A q \in Query : creating[q] = "answered" =>
        \A s \in SubqueriesOf(q) :
            \/ PathOf(s) \in resources
            \/ \E t \in SubqueriesOf(q) :
                /\ PathOf(t) = PathOf(s)
                /\ InPipeline(t) \/ [id |-> t, result |-> "null"] \in swapiLog

\* The subqueries SWAPI was or may still be asked for.
Fetched ==
    {m.id : m \in {e \in net : e.subject # "receive"}} \cup fetching \cup {l.id : l \in swapiLog}

\* A fetch is in one place until SWAPI answers it, and answered once.
OneFetchEach ==
    /\ \A k, l \in swapiLog : k.id = l.id => k = l
    /\ \A m \in net : m.subject # "receive" =>
            /\ m.result = "null"
            /\ m.id \notin fetching /\ m.id \notin {l.id : l \in swapiLog}
            /\ \A n \in net : n.id = m.id => n = m
    /\ \A l \in swapiLog : l.id \notin fetching

\* One query never has the same resource fetched twice, neither by two subqueries nor by
\* one that is fetched again, nor one that was cached when it was created (the reduce over
\* paths in fetchQueryRequestResultsFromDataSource).
FetchedOncePerQuery ==
    /\ OneFetchEach
    /\ \A s, t \in Fetched :
            /\ createRead[s] = "null"
            /\ QueryOf(s) = QueryOf(t) /\ PathOf(s) = PathOf(t) => s = t

\* When a consumer is notified, the result that completed its query is already
\* stored, so that a poll made on the notification finds it.
NotifiedIsStored ==
    \A n \in notified : subqueryTable[n.id] = "data"

\* A stored result is never overwritten by its absence, although every handler
\* saves the query and subquery it loaded before its cache reads.
ResultsNeverLost ==
    [][\A s \in SubqueryId : subqueryTable[s] = "data" => subqueryTable'[s] = "data"]_subqueryTable

\* A consumer is only ever shown COMPLETED, in the response to its POST or in a poll,
\* once SWAPI has served every resource it asked for: neither a cache read that is
\* out of date nor a query completed by other queries' fetches makes that up.
CompletedSeenIsDownloaded ==
    \A s \in Subqueries : consumer[QueryOf(s)].status = "COMPLETED" => PathOf(s) \in Downloaded

\* How the create request of q ended for its consumer.
AnswerOf(q) ==
    IF creating[q] = "answered" THEN "id"
    ELSE IF creating[q] = "cached" THEN "results"
    ELSE IF creating[q] = "failed" THEN "error" ELSE "none"

\* The aggregation engine implements the life of a query: handlers that overlap, share
\* a cache, fail or are restarted never take back an answer or a result, and never
\* judge a query by anything but what SWAPI served.
Life == INSTANCE QueryLife WITH
    path <- [s \in Subqueries |-> PathOf(s)],
    served <- Downloaded,
    answer <- [q \in Query |-> AnswerOf(q)],
    status <- queryTable,
    found <- {s \in SubqueryId : subqueryTable[s] = "data"}

LifeKept == Life!LifeSpec

-----------------------------------------------------------------------------
(* The inductive invariant behind the safety properties *)

\* The subqueries some message, handler or call of the pipeline is about.
Touched ==
    {m.id : m \in net} \cup {u.id : u \in updating} \cup fetching \cup {l.id : l \in swapiLog}
        \cup {s \in SubqueryId : handling[s].pc # "idle"}

\* The rows of a query appear in the order in which they are saved, and hold
\* the cache reads the query was created with.
StagesInOrder ==
    \A s \in Subqueries : LET q == QueryOf(s) IN
        /\ creating[q] \in {"idle", "reading", "query"} => subqueryTable[s] = "none"
        /\ creating[q] \in {"query", "subqueries", "answered"} =>
                queryTable[q] # "none" /\ createRead[s] # "unread"
        /\ creating[q] \in {"subqueries", "answered"} => subqueryTable[s] # "none"

\* Only the targets of answered queries are ever fetched.
TouchedAreTargets ==
    \A s \in Touched : creating[QueryOf(s)] = "answered" /\ s \in TargetSubqueries(QueryOf(s))

\* The cache holds what SWAPI served, and nobody read more from it than it holds.
CacheIsDownloaded == resources \subseteq Downloaded

ReadsAreCached ==
    /\ \A s \in SubqueryId : createRead[s] = "data" => PathOf(s) \in resources
    /\ \A s \in SubqueryId : \A t \in SubqueriesOf(QueryOf(s)) :
            handling[s].read[t[2]] = "data" => PathOf(t) \in resources

\* Every result that is in flight, handled or stored is the one SWAPI answered.
ResultsAreLogged ==
    /\ \A m \in net : m.subject = "receive" => [id |-> m.id, result |-> m.result] \in swapiLog
    /\ \A u \in updating : [id |-> u.id, result |-> "data"] \in swapiLog
    /\ \A s \in SubqueryId :
        /\ handling[s].pc # "idle" => [id |-> s, result |-> handling[s].result] \in swapiLog
        /\ createRead[s] = "null" /\ subqueryTable[s] = "data" => [id |-> s, result |-> "data"] \in swapiLog

\* A handler that completed its query holds data.
CompletionHoldsData ==
    \A s \in SubqueryId :
        /\ handling[s].pc \in {"saving", "notifying"} /\ handling[s].outcome = "COMPLETED" =>
                handling[s].result = "data"
        /\ handling[s].pc = "notifying" =>
                handling[s].outcome = "COMPLETED" /\ subqueryTable[s] = "data"

\* What a query was answered with was in the cache and is in its rows.
AnswersHold ==
    /\ \A q \in Query : creating[q] \in {"query", "subqueries", "answered"} => queryTable[q] # "none"
    /\ \A s \in Subqueries : LET q == QueryOf(s) IN
        /\ creating[q] = "cached" => createRead[s] = "data"
        /\ creating[q] \in {"subqueries", "answered"} /\ createRead[s] = "data" =>
                subqueryTable[s] = "data"

\* A consumer was only told what its rows, or the cache, held.
ConsumersKnow ==
    \A q \in Query :
        /\ consumer[q].id # "unknown"
        /\ consumer[q].id = "given" =>
            /\ creating[q] = "answered"
            /\ consumer[q].found \subseteq {s \in SubqueriesOf(q) : subqueryTable[s] = "data"}
        /\ consumer[q].id \in {"none", "error"} => consumer[q].found = {}

\* Who is down has died.
DownHaveDied == Services \ up \subseteq died

\* The conjunction is inductive: a handler trusts what it read, what it was sent
\* and what it loaded some steps ago, and every such copy is accounted for.
IInv ==
    /\ TypeOK
    /\ DownHaveDied
    /\ StagesInOrder
    /\ TouchedAreTargets
    /\ OneFetchEach
    /\ CacheIsDownloaded
    /\ ReadsAreCached
    /\ ResultsAreLogged
    /\ CompletionHoldsData
    /\ CompletedIsDownloaded
    /\ NotifiedIsStored
    /\ AnswersHold
    /\ ConsumersKnow
    /\ CompletedSeenIsDownloaded

-----------------------------------------------------------------------------
(* Liveness: each property can be cut short by a death, and holds again of what *)
(* comes after the restart.                                                    *)

\* A consumer that creates a query gets an answer, unless the query manager or the
\* cache manager dies first.
EventuallyAnswered ==
    \A q \in Query : creating[q] = "reading" ~>
        (creating[q] \in {"answered", "cached"} \/ ~({"query-manager", "cache-manager"} \subseteq up))

Cached(s) == s \in Subqueries /\ PathOf(s) \in resources

\* When SWAPI serves the resources, every resource of a stored query ends up in
\* the cache unless a process dies first, so that creating the query again answers
\* it: neither the deduplication in the query manager, nor the connector's skip of
\* cached resources, nor what was lost in an earlier crash may starve a path.
EventuallyCached ==
    \A s \in SubqueryId : (s \in Subqueries /\ creating[QueryOf(s)] = "subqueries") ~>
        (Cached(s) \/ ~AllUp)

\* A result on its way to the query manager is stored in the row of the subquery
\* it was fetched for, and completes the query when it is its only one, unless
\* the query manager or the cache manager dies first.
EventuallyStored ==
    \A s \in SubqueryId :
        (\E m \in net : m.to = "query-manager" /\ m.id = s /\ m.result = "data") ~>
            \/ /\ subqueryTable[s] = "data"
               /\ SubqueriesOf(QueryOf(s)) = {s} => queryTable[QueryOf(s)] = "COMPLETED"
            \/ ~({"query-manager", "cache-manager"} \subseteq up)

=============================================================================
