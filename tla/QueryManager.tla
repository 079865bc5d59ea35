---------------------------- MODULE QueryManager ----------------------------
(***************************************************************************)
(* The query manager: it creates queries, answers them from the cache or   *)
(* stores them and schedules their fetches, and on each "receive" event    *)
(* re-reads the cache to decide whether the query is complete.  Its two    *)
(* Postgres tables survive a crash; its running handlers do not.  Each     *)
(* step below ends where the code awaits.                                  *)
(***************************************************************************)
EXTENDS CacheManager

CONSTANT CallbackMayBeUnreachable   \* whether a callback POST may get no HTTP response

ASSUME CallbackAssumption == CallbackMayBeUnreachable \in BOOLEAN

VARIABLES
    queryTable,      \* status column of each query row, "none" if no row
    subqueryTable,   \* result column of each subquery row, "none" if no row
    creating,        \* processNewQueryRequestAsync of each query: where it is
    createRead,      \* ... and the cache reads it has collected
    handling,        \* handleSubqueryResultAsync of each subquery
    posts,           \* callback POSTs awaiting their response
    notified         \* history: every callback POST, with the status in its body

queryVars == <<queryTable, subqueryTable, creating, createRead, handling, posts, notified>>

Status == {"PENDING", "COMPLETED"}

CacheReads == Result \cup {"unread"}

CreateStep == {"idle", "reading", "query", "subqueries", "answered", "cached", "failed", "lost"}

Reading == [1 .. MaxSubqueries -> CacheReads]

Unread == [i \in 1 .. MaxSubqueries |-> "unread"]

\* result: of the event.  snapshot: query.status as loaded.  outcome: status saved.
Handler == [pc : {"idle", "reading", "saving", "notifying"}, result : Result,
            snapshot : Status, outcome : Status, read : Reading]

IdleHandler == [pc |-> "idle", result |-> "null", snapshot |-> "PENDING",
                outcome |-> "PENDING", read |-> Unread]

QueryTypeOK ==
    /\ queryTable \in [Query -> Status \cup {"none"}]
    /\ subqueryTable \in [SubqueryId -> Result \cup {"none"}]
    /\ creating \in [Query -> CreateStep]
    /\ createRead \in [SubqueryId -> CacheReads]
    /\ handling \in [SubqueryId -> Handler]
    /\ posts \subseteq SubqueryId
    /\ notified \subseteq [id : SubqueryId, status : Status]

QueryInit ==
    /\ queryTable = [q \in Query |-> "none"]
    /\ subqueryTable = [s \in SubqueryId |-> "none"]
    /\ creating = [q \in Query |-> "idle"]
    /\ createRead = [s \in SubqueryId |-> "unread"]
    /\ handling = [s \in SubqueryId |-> IdleHandler]
    /\ posts = {}
    /\ notified = {}

QueryManagerCrash ==
    /\ Crash("query-manager")
    /\ creating' = [q \in Query |->
            IF creating[q] \in {"reading", "query", "subqueries"} THEN "lost" ELSE creating[q]]
    /\ handling' = [s \in SubqueryId |-> IdleHandler]
    /\ posts' = {}
    /\ UNCHANGED <<queryTable, subqueryTable, createRead, notified>>

-----------------------------------------------------------------------------
(* processNewQueryRequestAsync *)

\* A QUERY_CREATE message: ids are minted and a CACHE_READ per subquery is sent.
CreateQuery(q) ==
    /\ "query-manager" \in up
    /\ creating[q] = "idle"
    /\ creating' = [creating EXCEPT ![q] = "reading"]
    /\ UNCHANGED <<net, up, queryTable, subqueryTable, createRead, handling, posts, notified>>

CreateReadCache(s) ==
    /\ creating[QueryOf(s)] = "reading"
    /\ createRead[s] = "unread"
    /\ CacheAnswers
    /\ createRead' = [createRead EXCEPT ![s] = CacheRead(PathOf(s))]
    /\ UNCHANGED <<net, up, queryTable, subqueryTable, creating, handling, posts, notified>>

\* A failed CACHE_READ rejects the handler, which is awaited: the caller gets the error.
CreateReadFails(q) ==
    /\ creating[q] = "reading"
    /\ CacheReadFails
    /\ \E s \in SubqueriesOf(q) : createRead[s] = "unread"
    /\ creating' = [creating EXCEPT ![q] = "failed"]
    /\ UNCHANGED <<net, up, queryTable, subqueryTable, createRead, handling, posts, notified>>

\* Everything was cached: answered COMPLETED under a blank id, nothing is stored.
CreateFromCache(q) ==
    /\ creating[q] = "reading"
    /\ \A s \in SubqueriesOf(q) : createRead[s] = "data"
    /\ creating' = [creating EXCEPT ![q] = "cached"]
    /\ UNCHANGED <<net, up, queryTable, subqueryTable, createRead, handling, posts, notified>>

\* Mutant of SaveNewQuery: the cache reads are not all awaited.
SaveNewQueryEarly(q) ==
    /\ creating[q] = "reading"
    /\ \E s \in SubqueriesOf(q) : createRead[s] = "null"
    /\ queryTable' = [queryTable EXCEPT ![q] = "PENDING"]
    /\ creating' = [creating EXCEPT ![q] = "query"]
    /\ UNCHANGED <<net, up, subqueryTable, createRead, handling, posts, notified>>

\* Mutant of SaveNewQuery: a partly cached query is neither answered nor stored.
SaveNewQueryUncached(q) ==
    /\ creating[q] = "reading"
    /\ SubqueriesOf(q) # {}
    /\ \A s \in SubqueriesOf(q) : createRead[s] = "null"
    /\ queryTable' = [queryTable EXCEPT ![q] = "PENDING"]
    /\ creating' = [creating EXCEPT ![q] = "query"]
    /\ UNCHANGED <<net, up, subqueryTable, createRead, handling, posts, notified>>

\* queryRepository.save(query)
SaveNewQuery(q) ==
    /\ creating[q] = "reading"
    /\ \A s \in SubqueriesOf(q) : createRead[s] # "unread"
    /\ \E s \in SubqueriesOf(q) : createRead[s] = "null"
    /\ queryTable' = [queryTable EXCEPT ![q] = "PENDING"]
    /\ creating' = [creating EXCEPT ![q] = "query"]
    /\ UNCHANGED <<net, up, subqueryTable, createRead, handling, posts, notified>>

\* Mutant of SaveNewSubqueries: the fetches are emitted with the rows, and once more
\* with the answer.
SaveNewSubqueriesScheduling(q) ==
    /\ creating[q] = "query"
    /\ subqueryTable' = [s \in SubqueryId |->
            IF s \in SubqueriesOf(q) THEN createRead[s] ELSE subqueryTable[s]]
    /\ net' = net \cup Emitted("schedule-fetch",
            {s \in SubqueriesOf(q) : createRead[s] = "null"}, "null")
    /\ creating' = [creating EXCEPT ![q] = "subqueries"]
    /\ UNCHANGED <<up, queryTable, createRead, handling, posts, notified>>

\* subqueryRepository.save(query.subqueries), with the results found in the cache
SaveNewSubqueries(q) ==
    /\ creating[q] = "query"
    /\ subqueryTable' = [s \in SubqueryId |->
            IF s \in SubqueriesOf(q) THEN createRead[s] ELSE subqueryTable[s]]
    /\ creating' = [creating EXCEPT ![q] = "subqueries"]
    /\ UNCHANGED <<net, up, queryTable, createRead, handling, posts, notified>>

\* Postgres rejects one of the two saves: the caller gets the error, and what
\* was saved before stays.
CreateSaveFails(q) ==
    /\ DatabaseMayFail
    /\ \/ /\ creating[q] = "reading"
          /\ \A s \in SubqueriesOf(q) : createRead[s] # "unread"
          /\ \E s \in SubqueriesOf(q) : createRead[s] = "null"
       \/ creating[q] = "query"
    /\ creating' = [creating EXCEPT ![q] = "failed"]
    /\ UNCHANGED <<net, up, queryTable, subqueryTable, createRead, handling, posts, notified>>

\* Mutants of TargetSubqueries: duplicates are kept, or all dropped.
TargetSubqueriesAll(q) == {s \in SubqueriesOf(q) : createRead[s] = "null"}

TargetSubqueriesUnrepeated(q) ==
    {s \in SubqueriesOf(q) :
        /\ createRead[s] = "null"
        /\ ~\E t \in SubqueriesOf(q) : t # s /\ PathOf(t) = PathOf(s)}

\* The first of the subqueries without data on each path.
TargetSubqueries(q) ==
    {s \in SubqueriesOf(q) :
        /\ createRead[s] = "null"
        /\ ~\E t \in SubqueriesOf(q) :
                t[2] < s[2] /\ PathOf(t) = PathOf(s) /\ createRead[t] = "null"}

\* Mutant of ScheduleFetches: the subqueries are not saved first.
ScheduleFetchesUnsaved(q) ==
    /\ creating[q] = "query"
    /\ net' = net \cup Emitted("schedule-fetch", TargetSubqueries(q), "null")
    /\ creating' = [creating EXCEPT ![q] = "answered"]
    /\ UNCHANGED <<up, queryTable, subqueryTable, createRead, handling, posts, notified>>

\* The fetches are emitted and the consumer gets the id, in one synchronous step.
ScheduleFetches(q) ==
    /\ creating[q] = "subqueries"
    /\ net' = net \cup Emitted("schedule-fetch", TargetSubqueries(q), "null")
    /\ creating' = [creating EXCEPT ![q] = "answered"]
    /\ UNCHANGED <<up, queryTable, subqueryTable, createRead, handling, posts, notified>>

-----------------------------------------------------------------------------
(* handleSubqueryResultAsync *)

\* Both rows are loaded and a CACHE_READ per subquery of the query is sent;
\* a missing row would reject a promise nobody awaits.
HandleResultLoad(m) ==
    /\ Arrives(m, "query-manager", "receive")
    /\ IF subqueryTable[m.id] = "none" \/ queryTable[QueryOf(m.id)] = "none"
       THEN QueryManagerCrash
       ELSE /\ net' = net \ {m}
            /\ handling' = [handling EXCEPT ![m.id] =
                    [pc |-> "reading", result |-> m.result, outcome |-> "PENDING",
                     snapshot |-> queryTable[QueryOf(m.id)], read |-> Unread]]
            /\ UNCHANGED <<up, queryTable, subqueryTable, creating, createRead, posts, notified>>

HandleResultReadCache(s, t) ==
    /\ handling[s].pc = "reading"
    /\ t \in SubqueriesOf(QueryOf(s))
    /\ handling[s].read[t[2]] = "unread"
    /\ CacheAnswers
    /\ handling' = [handling EXCEPT ![s].read[t[2]] = CacheRead(PathOf(t))]
    /\ UNCHANGED <<net, up, queryTable, subqueryTable, creating, createRead, posts, notified>>

\* A failed CACHE_READ rejects a promise nobody awaits.
HandleResultReadFails(s) ==
    /\ handling[s].pc = "reading"
    /\ CacheReadFails
    /\ \E t \in SubqueriesOf(QueryOf(s)) : handling[s].read[t[2]] = "unread"
    /\ QueryManagerCrash

\* Mutant of HaveAllResults: the other subqueries are not looked at.
HaveThisResult(s) == handling[s].result = "data"

\* The event's own result overrides what the cache says of its subquery.
HaveAllResults(s) ==
    \A t \in SubqueriesOf(QueryOf(s)) :
        (IF t = s THEN handling[s].result ELSE handling[s].read[t[2]]) = "data"

\* Mutant of HandleResultSaveQuery: the consumer is notified before the result is saved.
HandleResultSaveQueryNotifying(s) ==
    /\ handling[s].pc = "reading"
    /\ \A t \in SubqueriesOf(QueryOf(s)) : handling[s].read[t[2]] # "unread"
    /\ LET status == IF HaveAllResults(s) THEN "COMPLETED" ELSE "PENDING"
           next == IF HaveAllResults(s) /\ request[QueryOf(s)].callbackUrl THEN "notifying" ELSE "saving"
       IN  /\ queryTable' = [queryTable EXCEPT ![QueryOf(s)] = status]
           /\ handling' = [handling EXCEPT ![s].pc = next, ![s].outcome = status,
                                                ![s].read = Unread]
    /\ UNCHANGED <<net, up, subqueryTable, creating, createRead, posts, notified>>

\* queryRepository.save({...query, status})
HandleResultSaveQuery(s) ==
    /\ handling[s].pc = "reading"
    /\ \A t \in SubqueriesOf(QueryOf(s)) : handling[s].read[t[2]] # "unread"
    /\ LET status == IF HaveAllResults(s) THEN "COMPLETED" ELSE "PENDING"
       IN  /\ queryTable' = [queryTable EXCEPT ![QueryOf(s)] = status]
           /\ handling' = [handling EXCEPT ![s].pc = "saving", ![s].outcome = status,
                                                ![s].read = Unread]
    /\ UNCHANGED <<net, up, subqueryTable, creating, createRead, posts, notified>>

\* Mutant of HandleResultSaveSubquery: the save cascades to the other subqueries,
\* which have no result in the entity that was loaded.
HandleResultSaveCascade(s) ==
    /\ handling[s].pc = "saving"
    /\ subqueryTable' = [t \in SubqueryId |->
            IF t = s THEN handling[s].result
            ELSE IF t \in SubqueriesOf(QueryOf(s)) THEN "null" ELSE subqueryTable[t]]
    /\ handling' = [handling EXCEPT ![s] = IdleHandler]
    /\ UNCHANGED <<net, up, queryTable, creating, createRead, posts, notified>>

\* Mutant of HandleResultSaveSubquery: the result is saved for the last subquery only.
HandleResultSaveCompleted(s) ==
    /\ handling[s].pc = "saving"
    /\ subqueryTable' = IF handling[s].outcome = "COMPLETED"
                        THEN [subqueryTable EXCEPT ![s] = handling[s].result]
                        ELSE subqueryTable
    /\ handling' = [handling EXCEPT ![s] = IdleHandler]
    /\ UNCHANGED <<net, up, queryTable, creating, createRead, posts, notified>>

\* subqueryRepository.save(subquery)
HandleResultSaveSubquery(s) ==
    /\ handling[s].pc = "saving"
    /\ subqueryTable' = [subqueryTable EXCEPT ![s] = handling[s].result]
    /\ handling' =
        IF handling[s].outcome = "COMPLETED" /\ request[QueryOf(s)].callbackUrl
        THEN [handling EXCEPT ![s].pc = "notifying"]
        ELSE [handling EXCEPT ![s] = IdleHandler]
    /\ UNCHANGED <<net, up, queryTable, creating, createRead, posts, notified>>

\* Postgres rejects the load or a save of a handler, which nobody awaits.
HandleResultDatabaseFails ==
    /\ DatabaseMayFail
    /\ \/ \E m \in net : Arrives(m, "query-manager", "receive")
       \/ \E s \in Subqueries : handling[s].pc \in {"reading", "saving"}
    /\ QueryManagerCrash

\* The call that completed the query POSTs to the callback URL and returns.
NotifyCallback(s) ==
    /\ handling[s].pc = "notifying"
    /\ posts' = posts \cup {s}
    /\ notified' = notified \cup {[id |-> s, status |-> handling[s].snapshot]}
    /\ handling' = [handling EXCEPT ![s] = IdleHandler]
    /\ UNCHANGED <<net, up, queryTable, subqueryTable, creating, createRead>>

\* The consumer's server responds, with any HTTP status.
CallbackResponds(s) ==
    /\ s \in posts
    /\ posts' = posts \ {s}
    /\ UNCHANGED <<net, up, queryTable, subqueryTable, creating, createRead, handling, notified>>

\* No response: the catch block reads error.response.status of an error that has no response.
CallbackUnreachable(s) ==
    /\ CallbackMayBeUnreachable
    /\ s \in posts
    /\ QueryManagerCrash

\* A cache read that was waiting when the cache manager died is never answered,
\* and whoever awaits it waits for ever: there is no timeout.
CacheReadsHang ==
    /\ creating' = [q \in Query |->
            IF creating[q] = "reading" /\ \E s \in SubqueriesOf(q) : createRead[s] = "unread"
            THEN "lost" ELSE creating[q]]
    /\ handling' = [s \in SubqueryId |->
            IF /\ handling[s].pc = "reading"
               /\ \E t \in SubqueriesOf(QueryOf(s)) : handling[s].read[t[2]] = "unread"
            THEN IdleHandler ELSE handling[s]]
    /\ UNCHANGED <<queryTable, subqueryTable, createRead, posts, notified>>

\* It comes back: the reads it was asked for before it died were lost with it, those
\* of fetches that had been delivered to the connector included.
RestartCacheManager ==
    /\ Start("cache-manager")
    /\ CacheReadsHang
    /\ \E hung \in SUBSET {m \in net : m.to = "swapi-connector"} : net' = net \ hung
    /\ UNCHANGED cacheVars

-----------------------------------------------------------------------------

\* fetchQueryResultsAsync: what polling GET /query/:id returns.
FetchQueryResults(q) ==
    [status  |-> queryTable[q],
     results |-> [s \in {t \in SubqueriesOf(q) : subqueryTable[t] # "none"} |-> subqueryTable[s]]]

CreateNext(q) ==
    \/ CreateQuery(q)
    \/ \E s \in SubqueriesOf(q) : CreateReadCache(s)
    \/ CreateReadFails(q)
    \/ CreateFromCache(q)
    \/ SaveNewQuery(q)
    \/ SaveNewSubqueries(q)
    \/ CreateSaveFails(q)
    \/ ScheduleFetches(q)

HandleNext(s) ==
    \/ \E t \in SubqueriesOf(QueryOf(s)) : HandleResultReadCache(s, t)
    \/ HandleResultReadFails(s)
    \/ HandleResultSaveQuery(s)
    \/ HandleResultSaveSubquery(s)
    \/ NotifyCallback(s)
    \/ CallbackResponds(s)
    \/ CallbackUnreachable(s)

QueryNext ==
    \/ \E q \in Query : CreateNext(q)
    \/ \E m \in net : HandleResultLoad(m)
    \/ \E s \in Subqueries : HandleNext(s)
    \/ HandleResultDatabaseFails

=============================================================================
