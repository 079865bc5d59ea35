------------------------- MODULE AggregationProofs --------------------------
(***************************************************************************)
(* Proofs of the safety properties of Aggregation, for any queries, paths  *)
(* and payloads.                                                           *)
(***************************************************************************)
EXTENDS Aggregation, WellFoundedInduction, TLAPS

\* A subquery is its query and its position in it.
LEMMA SubqueryIdFacts ==
    ASSUME NEW s \in SubqueryId
    PROVE  /\ QueryOf(s) \in Query
           /\ s[2] \in 1 .. MaxSubqueries
           /\ s = <<QueryOf(s), s[2]>>
BY DEF SubqueryId, QueryOf

\* The two ways of saying that s is a subquery of a query agree.
LEMMA SubqueriesFacts ==
    /\ \A q \in Query : SubqueriesOf(q) \subseteq Subqueries
    /\ \A q \in Query : \A s \in SubqueriesOf(q) : QueryOf(s) = q
    /\ \A s \in Subqueries : s \in SubqueryId /\ QueryOf(s) \in Query /\ s \in SubqueriesOf(QueryOf(s))
BY SubqueryIdFacts DEF SubqueriesOf, Subqueries, SubqueryId, QueryOf

\* Every subquery has a path.
LEMMA PathOfType ==
    ASSUME request \in Workloads, NEW s \in Subqueries
    PROVE  PathOf(s) \in Path
<1>1. s[1] \in Query /\ s[2] \in DOMAIN request[s[1]].subqueries
  BY DEF Subqueries, SubqueryId
<1>2. request[s[1]] \in CreateQueryRequestDto
  BY <1>1, WorkloadsAssumption
<1>3. request[s[1]].subqueries \in Seq(Path)
  BY <1>2 DEF CreateQueryRequestDto
<1>. QED
  BY <1>1, <1>3 DEF PathOf

\* What an event emits is well-typed.
LEMMA EmittedType ==
    ASSUME NEW subject \in Subject, NEW ids \in SUBSET SubqueryId, NEW result \in Result
    PROVE  Emitted(subject, ids, result) \subseteq Delivery
<1> SUFFICES ASSUME NEW m \in Emitted(subject, ids, result)
             PROVE  m \in Delivery
  OBVIOUS
<1>1. PICK svc \in Subscribers(subject) \cap up, s \in ids :
        m = [to |-> svc, subject |-> subject, id |-> s, result |-> result]
  BY DEF Emitted
<1>2. svc \in Services
  BY DEF Subscribers
<1>. QED
  BY <1>1, <1>2 DEF Delivery

\* A cache read is answered with a result.
LEMMA CacheReadType == ASSUME NEW p PROVE CacheRead(p) \in Result
BY DEF CacheRead, Result

\* Handlers stay handlers.
LEMMA HandlerType ==
    /\ Unread \in Reading /\ IdleHandler \in Handler
    /\ \A r \in Result, c \in Status :
        [pc |-> "reading", result |-> r, outcome |-> "PENDING", snapshot |-> c, read |-> Unread] \in Handler
    /\ \A h \in Handler, i \in 1 .. MaxSubqueries, v \in CacheReads : [h EXCEPT !.read[i] = v] \in Handler
    /\ \A h \in Handler, o \in Status :
        [h EXCEPT !.pc = "saving", !.outcome = o, !.read = Unread] \in Handler
    /\ \A h \in Handler : [h EXCEPT !.pc = "notifying"] \in Handler
    /\ \A h \in Handler : h.result \in Result /\ h.snapshot \in Status
<1>1. Unread \in Reading
  BY DEF Unread, Reading, CacheReads
<1>2. IdleHandler \in Handler
  BY <1>1 DEF IdleHandler, Handler, Result, Status
<1>3. ASSUME NEW h \in Handler, NEW i \in 1 .. MaxSubqueries, NEW v \in CacheReads
      PROVE  [h EXCEPT !.read[i] = v] \in Handler
  <2>1. [h.read EXCEPT ![i] = v] \in Reading
    BY DEF Handler, Reading
  <2>. QED
    BY <2>1 DEF Handler
<1>4. ASSUME NEW h \in Handler, NEW o \in Status
      PROVE  [h EXCEPT !.pc = "saving", !.outcome = o, !.read = Unread] \in Handler
  BY <1>1 DEF Handler
<1>5. ASSUME NEW h \in Handler
      PROVE  /\ [h EXCEPT !.pc = "notifying"] \in Handler
             /\ h.result \in Result /\ h.snapshot \in Status
  BY DEF Handler
<1>6. ASSUME NEW r \in Result, NEW c \in Status
      PROVE  [pc |-> "reading", result |-> r, outcome |-> "PENDING", snapshot |-> c, read |-> Unread] \in Handler
  BY <1>1 DEF Handler, Status
<1>. QED
  BY <1>1, <1>2, <1>3, <1>4, <1>5, <1>6

\* A restart loses reads and deliveries, and what awaited them, and nothing else.
LEMMA RestartFacts ==
    ASSUME TypeOK, RestartStep
    PROVE  /\ net' \subseteq net
           /\ up' \subseteq Services
           /\ UNCHANGED <<request, resources, updating, fetching, swapiLog, queryTable,
                          subqueryTable, createRead, posts, notified>>
           /\ creating' \in [Query -> CreateStep]
           /\ \A q \in Query : creating'[q] = creating[q] \/ (creating[q] = "reading" /\ creating'[q] = "lost")
           /\ handling' \in [SubqueryId -> Handler]
           /\ \A s \in SubqueryId : handling'[s] = handling[s] \/ handling'[s] = IdleHandler
<1> USE DEF TypeOK, QueryTypeOK, NatsTypeOK
<1>0. up' \subseteq Services
  BY RestartAssumption DEF RestartStep, RestartCacheManager, Start
<1>1. CASE RestartCacheManager /\ UNCHANGED <<request, connectorVars, consumer>>
  <2>1. net' \subseteq net
    BY <1>1 DEF RestartCacheManager
  <2>2. /\ creating' \in [Query -> CreateStep]
        /\ \A q \in Query : creating'[q] = creating[q] \/ (creating[q] = "reading" /\ creating'[q] = "lost")
    BY <1>1 DEF RestartCacheManager, CacheReadsHang, CreateStep
  <2>3. /\ handling' \in [SubqueryId -> Handler]
        /\ \A s \in SubqueryId : handling'[s] = handling[s] \/ handling'[s] = IdleHandler
    BY <1>1, HandlerType DEF RestartCacheManager, CacheReadsHang
  <2>. QED
    BY <1>0, <1>1, <2>1, <2>2, <2>3 DEF RestartCacheManager, CacheReadsHang, cacheVars, connectorVars
<1>2. CASE ~(RestartCacheManager /\ UNCHANGED <<request, connectorVars, consumer>>)
  BY <1>0, <1>2 DEF RestartStep, cacheVars, connectorVars, queryVars
<1>. QED
  BY <1>1, <1>2

\* Everybody who stops running is recorded as dead.
LEMMA DownHaveDiedStep ==
    ASSUME TypeOK, DownHaveDied, RecordDeaths, up' \subseteq Services
    PROVE  DownHaveDied' /\ died' \subseteq Services
BY DEF DownHaveDied, RecordDeaths, TypeOK, NatsTypeOK

\* A response has the type of a view.
LEMMA GatewayTypeStep == TypeOK /\ [Next]_vars => GatewayTypeOK'
<1> SUFFICES ASSUME TypeOK, [Next]_vars PROVE GatewayTypeOK'
  OBVIOUS
<1> USE DEF TypeOK, GatewayTypeOK
<1>1. CASE GatewayStep
  <2>0. \A q \in Query : SubqueriesOf(q) \subseteq SubqueryId
    BY DEF SubqueriesOf
  <2>1. ASSUME NEW q \in Query, RespondStored(q) PROVE GatewayTypeOK'
    <3>1. {s \in SubqueriesOf(q) : createRead[s] = "data"} \in SUBSET SubqueryId
      BY <2>0
    <3>. QED
      BY <2>1, <3>1 DEF RespondStored, View, Status
  <2>2. ASSUME NEW q \in Query, RespondCached(q) PROVE GatewayTypeOK'
    BY <2>0, <2>2 DEF RespondCached, View, Status
  <2>3. ASSUME NEW q \in Query, RespondError(q) PROVE GatewayTypeOK'
    BY <2>3 DEF RespondError, View
  <2>4. ASSUME NEW q \in Query, GetQuery(q) PROVE GatewayTypeOK'
    <3>1. FetchQueryResults(q).status = queryTable[q] /\ queryTable[q] \in Status \cup {"none"}
      BY DEF FetchQueryResults, QueryTypeOK
    <3>2. {s \in SubqueriesOf(q) : subqueryTable[s] = "data"} \in SUBSET SubqueryId
      BY <2>0
    <3>3. consumer[q] \in View
      OBVIOUS
    <3>4. CASE queryTable[q] = "none"
      <4>1. [consumer[q] EXCEPT !.id = "unknown"] \in View
        BY <3>3 DEF View
      <4>. QED
        BY <2>4, <3>1, <3>4, <4>1 DEF GetQuery
    <3>5. CASE queryTable[q] # "none"
      <4>1. [id |-> "given", status |-> queryTable[q],
             found |-> {s \in SubqueriesOf(q) : subqueryTable[s] = "data"}] \in View
        BY <3>1, <3>2, <3>5 DEF View
      <4>. QED
        BY <2>4, <3>1, <3>5, <4>1 DEF GetQuery
    <3>. QED
      BY <3>4, <3>5
  <2>. QED
    BY <1>1, <2>1, <2>2, <2>3, <2>4, ObservedAssumption DEF GatewayStep, GatewayNext
<1>2. CASE ~GatewayStep
  BY <1>2 DEF Next, QueryManagerStep, CacheManagerStep, ConnectorStep, SchedulerStep, RestartStep, vars
<1>. QED
  BY <1>1, <1>2

\* Every step preserves the types.  The rows of a query are never filled with a
\* cache read that was not made, because the save awaits all of them.
LEMMA TypeStep == IInv /\ [Next]_vars => TypeOK' /\ DownHaveDied'
<1> SUFFICES ASSUME IInv, [Next]_vars PROVE TypeOK' /\ DownHaveDied'
  OBVIOUS
<1> USE DEF IInv, TypeOK, NatsTypeOK
<1> DEFINE Kept == net \subseteq Delivery /\ up \subseteq Services /\ request \in Workloads
                   /\ CacheTypeOK /\ ConnectorTypeOK /\ QueryTypeOK
<1>1. ASSUME QueryManagerStep PROVE Kept'
  <2>0. request' \in Workloads /\ CacheTypeOK' /\ ConnectorTypeOK'
    BY <1>1 DEF QueryManagerStep, CacheTypeOK, cacheVars, ConnectorTypeOK, connectorVars
  <2> DEFINE Typed == net \subseteq Delivery /\ up \subseteq Services /\ QueryTypeOK
  <2>1. ASSUME NEW q \in Query, CreateQuery(q) PROVE Typed'
    BY <2>1 DEF CreateQuery, QueryTypeOK, CreateStep, Status, CacheReads
  <2>2. ASSUME NEW q \in Query, NEW s \in SubqueriesOf(q), CreateReadCache(s) PROVE Typed'
    BY <2>2, CacheReadType, SubqueriesFacts DEF CreateReadCache, QueryTypeOK, CreateStep, Status, CacheReads
  <2>3. ASSUME NEW q \in Query, CreateReadFails(q) PROVE Typed'
    BY <2>3 DEF CreateReadFails, QueryTypeOK, CreateStep, Status, CacheReads
  <2>4. ASSUME NEW q \in Query, CreateFromCache(q) PROVE Typed'
    BY <2>4 DEF CreateFromCache, QueryTypeOK, CreateStep, Status, CacheReads
  <2>5. ASSUME NEW q \in Query, SaveNewQuery(q) PROVE Typed'
    BY <2>5 DEF SaveNewQuery, QueryTypeOK, CreateStep, Status, CacheReads
  <2>6. ASSUME NEW q \in Query, SaveNewSubqueries(q) PROVE Typed'
    BY <2>6, SubqueriesFacts DEF SaveNewSubqueries, QueryTypeOK, CreateStep, Status, CacheReads, StagesInOrder
  <2>7. ASSUME NEW q \in Query, ScheduleFetches(q) PROVE Typed'
    BY <2>7, SubqueriesFacts, EmittedType DEF ScheduleFetches, QueryTypeOK, CreateStep, Status, CacheReads, TargetSubqueries, Subject, Result
  <2>8. ASSUME NEW m \in net, HandleResultLoad(m) PROVE Typed'
    <3>1. CASE subqueryTable[m.id] = "none" \/ queryTable[QueryOf(m.id)] = "none"
      BY <2>8, <3>1, HandlerType DEF HandleResultLoad, QueryTypeOK, CreateStep, QueryManagerCrash, Crash
    <3>2. CASE subqueryTable[m.id] # "none" /\ queryTable[QueryOf(m.id)] # "none"
      <4>1. m.id \in SubqueryId /\ m.result \in Result /\ QueryOf(m.id) \in Query
        BY <2>8, SubqueryIdFacts DEF HandleResultLoad, Arrives, Delivery
      <4>2. queryTable[QueryOf(m.id)] \in Status
        BY <3>2, <4>1 DEF QueryTypeOK
      <4>3. [pc |-> "reading", result |-> m.result, outcome |-> "PENDING",
             snapshot |-> queryTable[QueryOf(m.id)], read |-> Unread] \in Handler
        BY <4>1, <4>2, HandlerType
      <4>4. handling' \in [SubqueryId -> Handler]
        BY <2>8, <3>2, <4>1, <4>3 DEF HandleResultLoad, QueryTypeOK
      <4>. QED
        BY <2>8, <3>2, <4>4 DEF HandleResultLoad, QueryTypeOK
    <3>. QED
      BY <3>1, <3>2
  <2>9. ASSUME NEW s \in Subqueries, NEW t \in SubqueriesOf(QueryOf(s)), HandleResultReadCache(s, t) PROVE Typed'
    BY <2>9, CacheReadType, HandlerType, SubqueriesFacts, SubqueryIdFacts DEF HandleResultReadCache, QueryTypeOK, CreateStep, Status, CacheReads
  <2>10. ASSUME NEW s \in Subqueries, HandleResultReadFails(s) PROVE Typed'
    BY <2>10, HandlerType DEF HandleResultReadFails, QueryTypeOK, CreateStep, Status, CacheReads, QueryManagerCrash, Crash
  <2>11. ASSUME NEW s \in Subqueries, HandleResultSaveQuery(s) PROVE Typed'
    BY <2>11, HandlerType, SubqueriesFacts DEF HandleResultSaveQuery, QueryTypeOK, CreateStep, Status, CacheReads
  <2>12. ASSUME NEW s \in Subqueries, HandleResultSaveSubquery(s) PROVE Typed'
    BY <2>12, HandlerType, SubqueriesFacts DEF HandleResultSaveSubquery, QueryTypeOK, CreateStep, Status, CacheReads
  <2>13. ASSUME NEW s \in Subqueries, NotifyCallback(s) PROVE Typed'
    <3>1. s \in SubqueryId /\ handling[s] \in Handler
      BY SubqueriesFacts DEF QueryTypeOK
    <3>2. [id |-> s, status |-> handling[s].snapshot] \in [id : SubqueryId, status : Status]
      BY <3>1, HandlerType
    <3>. QED
      BY <2>13, <3>1, <3>2, HandlerType DEF NotifyCallback, QueryTypeOK
  <2>14. ASSUME NEW s \in Subqueries, CallbackResponds(s) PROVE Typed'
    BY <2>14 DEF CallbackResponds, QueryTypeOK, CreateStep, Status, CacheReads
  <2>15. ASSUME NEW s \in Subqueries, CallbackUnreachable(s) PROVE Typed'
    BY <2>15, HandlerType DEF CallbackUnreachable, QueryTypeOK, CreateStep, Status, CacheReads, QueryManagerCrash, Crash
  <2>16. ASSUME NEW q \in Query, CreateSaveFails(q) PROVE Typed'
    BY <2>16 DEF CreateSaveFails, QueryTypeOK, CreateStep, Status, CacheReads
  <2>17. ASSUME HandleResultDatabaseFails PROVE Typed'
    BY <2>17, HandlerType DEF HandleResultDatabaseFails, QueryTypeOK, CreateStep, Status, CacheReads, QueryManagerCrash, Crash
  <2>. QED
    BY <1>1, <2>0, <2>1, <2>2, <2>3, <2>4, <2>5, <2>6, <2>7, <2>8, <2>9, <2>10, <2>11, <2>12, <2>13, <2>14, <2>15, <2>16, <2>17 DEF QueryManagerStep, QueryNext, CreateNext, HandleNext
<1>2. ASSUME CacheManagerStep PROVE Kept'
  <2>0. request' \in Workloads /\ ConnectorTypeOK' /\ QueryTypeOK'
    BY <1>2 DEF CacheManagerStep, ConnectorTypeOK, connectorVars, QueryTypeOK, queryVars
  <2> DEFINE Typed == net \subseteq Delivery /\ up \subseteq Services /\ CacheTypeOK
  <2>1. ASSUME NEW m \in net, UpdateCacheFind(m) PROVE Typed'
    <3>1. m.id \in SubqueryId
      BY <2>1 DEF UpdateCacheFind, Arrives, Delivery
    <3>2. [id |-> m.id, existing |-> PathOf(m.id) \in resources] \in [id : SubqueryId, existing : BOOLEAN]
      <4>1. \A b \in BOOLEAN : [id |-> m.id, existing |-> b] \in [id : SubqueryId, existing : BOOLEAN]
        BY <3>1
      <4>2. (PathOf(m.id) \in resources) \in BOOLEAN
        OBVIOUS
      <4>. QED
        BY <4>1, <4>2
    <3>. QED
      BY <2>1, <3>2 DEF UpdateCacheFind, CacheTypeOK
  <2>2. ASSUME NEW u \in updating, UpdateCacheSave(u) PROVE Typed'
    BY <2>2, PathOfType, SubqueriesFacts, SubqueryIdFacts DEF UpdateCacheSave, CacheTypeOK, TouchedAreTargets, Touched, TargetSubqueries
  <2>3. ASSUME NEW u \in updating, UpdateCacheDuplicateKey(u) PROVE Typed'
    BY <2>3 DEF UpdateCacheDuplicateKey, CacheTypeOK, CacheManagerCrash, Crash
  <2>4. ASSUME UpdateCacheFails PROVE Typed'
    BY <2>4 DEF UpdateCacheFails, CacheTypeOK, CacheManagerCrash, Crash
  <2>. QED
    BY <1>2, <2>0, <2>1, <2>2, <2>3, <2>4 DEF CacheManagerStep, CacheNext
<1>3. ASSUME ConnectorStep PROVE Kept'
  <2>0. request' \in Workloads /\ CacheTypeOK' /\ QueryTypeOK'
    BY <1>3 DEF ConnectorStep, CacheTypeOK, cacheVars, QueryTypeOK, queryVars
  <2> DEFINE Typed == net \subseteq Delivery /\ up \subseteq Services /\ ConnectorTypeOK
  <2>1. ASSUME NEW m \in net, FetchDataCached(m) PROVE Typed'
    BY <2>1 DEF FetchDataCached, ConnectorTypeOK, connectorVars
  <2>2. ASSUME NEW m \in net, FetchDataMissing(m) PROVE Typed'
    BY <2>2 DEF FetchDataMissing, ConnectorTypeOK, Arrives, Delivery
  <2>3. ASSUME NEW m \in net, FetchDataCacheDown(m) PROVE Typed'
    BY <2>3 DEF FetchDataCacheDown, ConnectorTypeOK, SwapiConnectorCrash, Crash
  <2>4. ASSUME NEW s \in fetching, NEW r \in SwapiResults, SwapiAnswers(s, r) PROVE Typed'
    BY <2>4, EmittedType, SwapiAssumption DEF SwapiAnswers, ConnectorTypeOK, Subject
  <2>5. ASSUME NEW s \in fetching, SwapiFails(s) PROVE Typed'
    BY <2>5 DEF SwapiFails, ConnectorTypeOK, SwapiConnectorCrash, Crash
  <2>. QED
    BY <1>3, <2>0, <2>1, <2>2, <2>3, <2>4, <2>5 DEF ConnectorStep, ConnectorNext
<1>4. ASSUME SchedulerStep PROVE Kept'
  <2>0. request' \in Workloads /\ CacheTypeOK' /\ ConnectorTypeOK' /\ QueryTypeOK'
    BY <1>4 DEF SchedulerStep, CacheTypeOK, cacheVars, ConnectorTypeOK, connectorVars, QueryTypeOK, queryVars
  <2> DEFINE Typed == net \subseteq Delivery /\ up \subseteq Services
  <2>1. ASSUME NEW m \in net, Dispatch(m) PROVE Typed'
    BY <2>1, EmittedType DEF Dispatch, Arrives, Delivery, Subject
  <2>. QED
    BY <1>4, <2>0, <2>1 DEF SchedulerStep
<1>5. ASSUME RestartStep PROVE Kept'
  BY <1>5, RestartFacts DEF CacheTypeOK, ConnectorTypeOK, QueryTypeOK
<1>6. ASSUME GatewayStep PROVE Kept'
  BY <1>6 DEF GatewayStep, GatewayNext, cacheVars, connectorVars, queryVars, CacheTypeOK, ConnectorTypeOK, QueryTypeOK
<1>7. CASE Next
  <2>1. Kept'
    BY <1>1, <1>2, <1>3, <1>4, <1>5, <1>6, <1>7 DEF Next
  <2>2. RecordDeaths
    BY <1>7 DEF Next
  <2>. QED
    BY <2>1, <2>2, DownHaveDiedStep, GatewayTypeStep
<1>8. CASE UNCHANGED vars
  BY <1>8, GatewayTypeStep DEF vars, cacheVars, connectorVars, queryVars, CacheTypeOK, ConnectorTypeOK, QueryTypeOK, DownHaveDied
<1>. QED
  BY <1>7, <1>8

\* A query reaches a stage only after the saves of the earlier ones.
LEMMA StagesStep == IInv /\ [Next]_vars => StagesInOrder'
<1> SUFFICES ASSUME IInv, [Next]_vars PROVE StagesInOrder'
  OBVIOUS
<1> USE DEF IInv, StagesInOrder
<1>1. CASE QueryManagerStep
  <2>0. Subqueries' = Subqueries /\ \A s \in Subqueries : s \in SubqueryId /\ QueryOf(s) \in Query
    BY <1>1, SubqueriesFacts DEF QueryManagerStep, Subqueries
  <2> USE DEF TypeOK, QueryTypeOK
  <2>1. ASSUME NEW q \in Query, CreateQuery(q) PROVE StagesInOrder'
    BY <2>1, <2>0 DEF CreateQuery
  <2>2. ASSUME NEW q \in Query, NEW s \in SubqueriesOf(q), CreateReadCache(s) PROVE StagesInOrder'
    BY <2>2, <2>0, CacheReadType, SubqueriesFacts DEF CreateReadCache, Result
  <2>3. ASSUME NEW q \in Query, CreateReadFails(q) PROVE StagesInOrder'
    BY <2>3, <2>0 DEF CreateReadFails
  <2>4. ASSUME NEW q \in Query, CreateFromCache(q) PROVE StagesInOrder'
    BY <2>4, <2>0 DEF CreateFromCache
  <2>5. ASSUME NEW q \in Query, SaveNewQuery(q) PROVE StagesInOrder'
    BY <2>5, <2>0, SubqueriesFacts DEF SaveNewQuery
  <2>6. ASSUME NEW q \in Query, SaveNewSubqueries(q) PROVE StagesInOrder'
    <3> SUFFICES ASSUME NEW s \in Subqueries
                 PROVE  LET r == QueryOf(s) IN
                        /\ creating'[r] \in {"idle", "reading", "query"} => subqueryTable'[s] = "none"
                        /\ creating'[r] \in {"query", "subqueries", "answered"} =>
                                queryTable'[r] # "none" /\ createRead'[s] # "unread"
                        /\ creating'[r] \in {"subqueries", "answered"} => subqueryTable'[s] # "none"
      BY <2>0
    <3>1. CASE QueryOf(s) = q
      <4>1. createRead[s] \in Result /\ queryTable[q] # "none"
        BY <2>6, <2>0, <3>1 DEF SaveNewSubqueries, CacheReads
      <4>2. subqueryTable'[s] = createRead[s] /\ creating'[q] = "subqueries"
        BY <2>6, <2>0, <3>1, SubqueriesFacts DEF SaveNewSubqueries
      <4>. QED
        BY <2>6, <3>1, <4>1, <4>2 DEF SaveNewSubqueries, Result
    <3>2. CASE QueryOf(s) # q
      BY <2>6, <2>0, <3>2, SubqueriesFacts DEF SaveNewSubqueries
    <3>. QED
      BY <3>1, <3>2
  <2>7. ASSUME NEW q \in Query, ScheduleFetches(q) PROVE StagesInOrder'
    BY <2>7, <2>0 DEF ScheduleFetches
  <2>8. ASSUME NEW m \in net, HandleResultLoad(m) PROVE StagesInOrder'
    BY <2>8, <2>0 DEF HandleResultLoad, QueryManagerCrash, Crash
  <2>9. ASSUME NEW s \in Subqueries, NEW t \in SubqueriesOf(QueryOf(s)), HandleResultReadCache(s, t) PROVE StagesInOrder'
    BY <2>9, <2>0 DEF HandleResultReadCache
  <2>10. ASSUME NEW s \in Subqueries, HandleResultReadFails(s) PROVE StagesInOrder'
    BY <2>10, <2>0 DEF HandleResultReadFails, QueryManagerCrash, Crash
  <2>11. ASSUME NEW s \in Subqueries, HandleResultSaveQuery(s) PROVE StagesInOrder'
    BY <2>11, <2>0 DEF HandleResultSaveQuery
  <2>12. ASSUME NEW s \in Subqueries, HandleResultSaveSubquery(s) PROVE StagesInOrder'
    BY <2>12, <2>0, HandlerType, SubqueriesFacts DEF HandleResultSaveSubquery, TypeOK, QueryTypeOK, Result, TouchedAreTargets, Touched
  <2>13. ASSUME NEW s \in Subqueries, NotifyCallback(s) PROVE StagesInOrder'
    BY <2>13, <2>0 DEF NotifyCallback
  <2>14. ASSUME NEW s \in Subqueries, CallbackResponds(s) PROVE StagesInOrder'
    BY <2>14, <2>0 DEF CallbackResponds
  <2>15. ASSUME NEW s \in Subqueries, CallbackUnreachable(s) PROVE StagesInOrder'
    BY <2>15, <2>0 DEF CallbackUnreachable, QueryManagerCrash, Crash
  <2>16. ASSUME NEW q \in Query, CreateSaveFails(q) PROVE StagesInOrder'
    BY <2>16, <2>0 DEF CreateSaveFails
  <2>17. ASSUME HandleResultDatabaseFails PROVE StagesInOrder'
    BY <2>17, <2>0 DEF HandleResultDatabaseFails, QueryManagerCrash, Crash
  <2>. QED
    BY <1>1, <2>1, <2>2, <2>3, <2>4, <2>5, <2>6, <2>7, <2>8, <2>9, <2>10, <2>11, <2>12, <2>13, <2>14, <2>15, <2>16, <2>17 DEF QueryManagerStep, QueryNext, CreateNext, HandleNext
<1>2. CASE CacheManagerStep
  BY <1>2 DEF CacheManagerStep, Subqueries, queryVars
<1>3. CASE ConnectorStep
  BY <1>3 DEF ConnectorStep, Subqueries, queryVars
<1>4. CASE SchedulerStep
  BY <1>4 DEF SchedulerStep, Subqueries, queryVars
<1>5. CASE GatewayStep \/ UNCHANGED vars
  BY <1>5 DEF GatewayStep, GatewayNext, vars, queryVars, Subqueries
<1>6. CASE RestartStep
  BY <1>6, RestartFacts, SubqueriesFacts DEF Subqueries
<1>. QED
  BY <1>1, <1>2, <1>3, <1>4, <1>5, <1>6 DEF Next

\* The targets of a query depend only on what was read when it was created.
LEMMA TargetsFrozen ==
    ASSUME NEW q \in Query, request' = request,
           \A s \in SubqueriesOf(q) : createRead'[s] = createRead[s]
    PROVE  TargetSubqueries(q)' = TargetSubqueries(q)
<1>1. SubqueriesOf(q)' = SubqueriesOf(q)
  BY DEF SubqueriesOf
<1>2. \A s \in SubqueryId : PathOf(s)' = PathOf(s)
  BY DEF PathOf
<1>3. \A s \in SubqueriesOf(q) : s \in SubqueryId
  BY DEF SubqueriesOf
<1>. QED
  BY <1>1, <1>2, <1>3 DEF TargetSubqueries

\* Whatever is touched is a subquery.
LEMMA TouchedType == ASSUME TypeOK PROVE Touched \subseteq SubqueryId
BY DEF TypeOK, NatsTypeOK, Touched, Delivery, CacheTypeOK, ConnectorTypeOK

\* A step keeps TouchedAreTargets if it touches nothing new but targets of
\* answered queries, and changes the creation of no answered query.
LEMMA TouchedStable ==
    ASSUME TypeOK, TouchedAreTargets, request' = request,
           \A q \in Query : creating[q] = "answered" =>
                /\ creating'[q] = "answered"
                /\ \A s \in SubqueriesOf(q) : createRead'[s] = createRead[s],
           \A s \in Touched' : s \in Touched \/
                /\ s \in SubqueryId
                /\ creating'[QueryOf(s)] = "answered"
                /\ s \in TargetSubqueries(QueryOf(s))'
    PROVE  TouchedAreTargets'
<1> SUFFICES ASSUME NEW s \in Touched'
             PROVE  (creating[QueryOf(s)] = "answered" /\ s \in TargetSubqueries(QueryOf(s)))'
  BY DEF TouchedAreTargets
<1>1. CASE s \in Touched
  <2>1. QueryOf(s) \in Query
    BY <1>1, TouchedType, SubqueryIdFacts
  <2>2. creating[QueryOf(s)] = "answered" /\ s \in TargetSubqueries(QueryOf(s))
    BY <1>1 DEF TouchedAreTargets
  <2>3. TargetSubqueries(QueryOf(s))' = TargetSubqueries(QueryOf(s))
    BY <2>1, <2>2, TargetsFrozen DEF QueryOf
  <2>. QED
    BY <2>1, <2>2, <2>3 DEF QueryOf
<1>2. CASE s \notin Touched
  BY <1>2 DEF QueryOf
<1>. QED
  BY <1>1, <1>2

\* Fetches are scheduled for targets only, and every later stage of a fetch keeps
\* its subquery.
LEMMA TouchedStep == IInv /\ [Next]_vars => TouchedAreTargets'
<1> SUFFICES ASSUME IInv, [Next]_vars PROVE TouchedAreTargets'
  OBVIOUS
<1> USE DEF IInv
<1>1. CASE QueryManagerStep
  <2>0. request' = request /\ UNCHANGED <<updating, fetching, swapiLog>>
    BY <1>1 DEF QueryManagerStep, cacheVars, connectorVars, queryVars
  <2>1. ASSUME NEW q \in Query, CreateQuery(q) PROVE TouchedAreTargets'
    BY <2>1, <2>0, TouchedStable DEF CreateQuery, Touched, TypeOK, QueryTypeOK
  <2>2. ASSUME NEW q \in Query, NEW s \in SubqueriesOf(q), CreateReadCache(s) PROVE TouchedAreTargets'
    BY <2>2, <2>0, TouchedStable, SubqueriesFacts DEF CreateReadCache, Touched, TypeOK, QueryTypeOK
  <2>3. ASSUME NEW q \in Query, CreateReadFails(q) PROVE TouchedAreTargets'
    BY <2>3, <2>0, TouchedStable DEF CreateReadFails, Touched, TypeOK, QueryTypeOK
  <2>4. ASSUME NEW q \in Query, CreateFromCache(q) PROVE TouchedAreTargets'
    BY <2>4, <2>0, TouchedStable DEF CreateFromCache, Touched, TypeOK, QueryTypeOK
  <2>5. ASSUME NEW q \in Query, SaveNewQuery(q) PROVE TouchedAreTargets'
    BY <2>5, <2>0, TouchedStable DEF SaveNewQuery, Touched, TypeOK, QueryTypeOK
  <2>6. ASSUME NEW q \in Query, SaveNewSubqueries(q) PROVE TouchedAreTargets'
    BY <2>6, <2>0, TouchedStable DEF SaveNewSubqueries, Touched, TypeOK, QueryTypeOK
  <2>7. ASSUME NEW q \in Query, ScheduleFetches(q) PROVE TouchedAreTargets'
    BY <2>7, <2>0, TouchedStable, SubqueriesFacts, TargetsFrozen DEF ScheduleFetches, Touched, TypeOK, QueryTypeOK, Emitted, TargetSubqueries
  <2>8. ASSUME NEW m \in net, HandleResultLoad(m) PROVE TouchedAreTargets'
    BY <2>8, <2>0, TouchedStable DEF HandleResultLoad, Touched, TypeOK, QueryTypeOK, Arrives, QueryManagerCrash, Crash, IdleHandler
  <2>9. ASSUME NEW s \in Subqueries, NEW t \in SubqueriesOf(QueryOf(s)), HandleResultReadCache(s, t) PROVE TouchedAreTargets'
    BY <2>9, <2>0, TouchedStable, SubqueriesFacts DEF HandleResultReadCache, Touched, TypeOK, QueryTypeOK
  <2>10. ASSUME NEW s \in Subqueries, HandleResultReadFails(s) PROVE TouchedAreTargets'
    BY <2>10, <2>0, TouchedStable DEF HandleResultReadFails, Touched, TypeOK, QueryTypeOK, QueryManagerCrash, Crash, IdleHandler
  <2>11. ASSUME NEW s \in Subqueries, HandleResultSaveQuery(s) PROVE TouchedAreTargets'
    BY <2>11, <2>0, TouchedStable, SubqueriesFacts DEF HandleResultSaveQuery, Touched, TypeOK, QueryTypeOK
  <2>12. ASSUME NEW s \in Subqueries, HandleResultSaveSubquery(s) PROVE TouchedAreTargets'
    BY <2>12, <2>0, TouchedStable, SubqueriesFacts DEF HandleResultSaveSubquery, Touched, TypeOK, QueryTypeOK, IdleHandler
  <2>13. ASSUME NEW s \in Subqueries, NotifyCallback(s) PROVE TouchedAreTargets'
    BY <2>13, <2>0, TouchedStable, SubqueriesFacts DEF NotifyCallback, Touched, TypeOK, QueryTypeOK, IdleHandler
  <2>14. ASSUME NEW s \in Subqueries, CallbackResponds(s) PROVE TouchedAreTargets'
    BY <2>14, <2>0, TouchedStable DEF CallbackResponds, Touched, TypeOK, QueryTypeOK
  <2>15. ASSUME NEW s \in Subqueries, CallbackUnreachable(s) PROVE TouchedAreTargets'
    BY <2>15, <2>0, TouchedStable DEF CallbackUnreachable, Touched, TypeOK, QueryTypeOK, QueryManagerCrash, Crash, IdleHandler
  <2>16. ASSUME NEW q \in Query, CreateSaveFails(q) PROVE TouchedAreTargets'
    BY <2>16, <2>0, TouchedStable DEF CreateSaveFails, Touched, TypeOK, QueryTypeOK
  <2>17. ASSUME HandleResultDatabaseFails PROVE TouchedAreTargets'
    BY <2>17, <2>0, TouchedStable DEF HandleResultDatabaseFails, Touched, TypeOK, QueryTypeOK, QueryManagerCrash, Crash, IdleHandler
  <2>. QED
    BY <1>1, <2>1, <2>2, <2>3, <2>4, <2>5, <2>6, <2>7, <2>8, <2>9, <2>10, <2>11, <2>12, <2>13, <2>14, <2>15, <2>16, <2>17 DEF QueryManagerStep, QueryNext, CreateNext, HandleNext
<1>2. CASE CacheManagerStep
  <2>0. request' = request /\ UNCHANGED <<fetching, swapiLog, creating, createRead, handling>>
    BY <1>2 DEF CacheManagerStep, cacheVars, connectorVars, queryVars
  <2>1. ASSUME NEW m \in net, UpdateCacheFind(m) PROVE TouchedAreTargets'
    BY <2>1, <2>0, TouchedStable DEF UpdateCacheFind, Touched, Arrives
  <2>2. ASSUME NEW u \in updating, UpdateCacheSave(u) PROVE TouchedAreTargets'
    BY <2>2, <2>0, TouchedStable DEF UpdateCacheSave, Touched
  <2>3. ASSUME NEW u \in updating, UpdateCacheDuplicateKey(u) PROVE TouchedAreTargets'
    BY <2>3, <2>0, TouchedStable DEF UpdateCacheDuplicateKey, Touched, CacheManagerCrash, Crash
  <2>4. ASSUME UpdateCacheFails PROVE TouchedAreTargets'
    BY <2>4, <2>0, TouchedStable DEF UpdateCacheFails, Touched, CacheManagerCrash, Crash
  <2>. QED
    BY <1>2, <2>1, <2>2, <2>3, <2>4 DEF CacheManagerStep, CacheNext
<1>3. CASE ConnectorStep
  <2>0. request' = request /\ UNCHANGED <<updating, creating, createRead, handling>>
    BY <1>3 DEF ConnectorStep, cacheVars, connectorVars, queryVars
  <2>1. ASSUME NEW m \in net, FetchDataCached(m) PROVE TouchedAreTargets'
    BY <2>1, <2>0, TouchedStable DEF FetchDataCached, Touched, Arrives, connectorVars
  <2>2. ASSUME NEW m \in net, FetchDataMissing(m) PROVE TouchedAreTargets'
    BY <2>2, <2>0, TouchedStable DEF FetchDataMissing, Touched, Arrives
  <2>3. ASSUME NEW m \in net, FetchDataCacheDown(m) PROVE TouchedAreTargets'
    BY <2>3, <2>0, TouchedStable DEF FetchDataCacheDown, Touched, SwapiConnectorCrash, Crash
  <2>4. ASSUME NEW s \in fetching, NEW r \in SwapiResults, SwapiAnswers(s, r) PROVE TouchedAreTargets'
    BY <2>4, <2>0, TouchedStable DEF SwapiAnswers, Touched, Emitted
  <2>5. ASSUME NEW s \in fetching, SwapiFails(s) PROVE TouchedAreTargets'
    BY <2>5, <2>0, TouchedStable DEF SwapiFails, Touched, SwapiConnectorCrash, Crash
  <2>. QED
    BY <1>3, <2>1, <2>2, <2>3, <2>4, <2>5 DEF ConnectorStep, ConnectorNext
<1>4. CASE SchedulerStep
  <2>0. request' = request /\ UNCHANGED <<updating, fetching, swapiLog, creating, createRead, handling>>
    BY <1>4 DEF SchedulerStep, cacheVars, connectorVars, queryVars
  <2>1. ASSUME NEW m \in net, Dispatch(m) PROVE TouchedAreTargets'
    BY <2>1, <2>0, TouchedStable DEF Dispatch, Touched, Arrives, Emitted
  <2>. QED
    BY <1>4, <2>1 DEF SchedulerStep
<1>5. CASE GatewayStep \/ UNCHANGED vars
  BY <1>5, TouchedStable DEF GatewayStep, GatewayNext, vars, cacheVars, connectorVars, queryVars, Touched
<1>6. CASE RestartStep
  BY <1>6, RestartFacts, TouchedStable DEF Touched, IdleHandler, TypeOK, QueryTypeOK
<1>. QED
  BY <1>1, <1>2, <1>3, <1>4, <1>5, <1>6 DEF Next

\* A fetch is scheduled once, and moves from one place to the next.
LEMMA OneFetchStep == IInv /\ [Next]_vars => OneFetchEach'
<1> SUFFICES ASSUME IInv, [Next]_vars PROVE OneFetchEach'
  OBVIOUS
<1> USE DEF IInv
<1>1. CASE QueryManagerStep
  <2>0. UNCHANGED <<fetching, swapiLog>>
    BY <1>1 DEF QueryManagerStep, cacheVars, connectorVars, queryVars
  <2>1. ASSUME NEW q \in Query, CreateQuery(q) PROVE OneFetchEach'
    BY <2>1, <2>0 DEF CreateQuery, OneFetchEach
  <2>2. ASSUME NEW q \in Query, NEW s \in SubqueriesOf(q), CreateReadCache(s) PROVE OneFetchEach'
    BY <2>2, <2>0 DEF CreateReadCache, OneFetchEach
  <2>3. ASSUME NEW q \in Query, CreateReadFails(q) PROVE OneFetchEach'
    BY <2>3, <2>0 DEF CreateReadFails, OneFetchEach
  <2>4. ASSUME NEW q \in Query, CreateFromCache(q) PROVE OneFetchEach'
    BY <2>4, <2>0 DEF CreateFromCache, OneFetchEach
  <2>5. ASSUME NEW q \in Query, SaveNewQuery(q) PROVE OneFetchEach'
    BY <2>5, <2>0 DEF SaveNewQuery, OneFetchEach
  <2>6. ASSUME NEW q \in Query, SaveNewSubqueries(q) PROVE OneFetchEach'
    BY <2>6, <2>0 DEF SaveNewSubqueries, OneFetchEach
  <2>7. ASSUME NEW q \in Query, ScheduleFetches(q) PROVE OneFetchEach'
    <3>1. \A m \in net : QueryOf(m.id) # q
      BY <2>7 DEF ScheduleFetches, TouchedAreTargets, Touched
    <3>2. \A s \in TargetSubqueries(q) : QueryOf(s) = q
      BY SubqueriesFacts DEF TargetSubqueries
    <3>3. \A s \in TargetSubqueries(q) : s \notin fetching /\ s \notin {l.id : l \in swapiLog}
      BY <2>7, <3>2 DEF ScheduleFetches, TouchedAreTargets, Touched
    <3>4. \A m \in Emitted("schedule-fetch", TargetSubqueries(q), "null") :
            m = [to |-> "request-scheduler", subject |-> "schedule-fetch", id |-> m.id, result |-> "null"]
            /\ m.id \in TargetSubqueries(q)
      BY DEF Emitted, Subscribers, Subscriptions
    <3>. QED
      BY <2>7, <2>0, <3>1, <3>2, <3>3, <3>4 DEF ScheduleFetches, OneFetchEach
  <2>8. ASSUME NEW m \in net, HandleResultLoad(m) PROVE OneFetchEach'
    BY <2>8, <2>0 DEF HandleResultLoad, OneFetchEach, Arrives, QueryManagerCrash, Crash
  <2>9. ASSUME NEW s \in Subqueries, NEW t \in SubqueriesOf(QueryOf(s)), HandleResultReadCache(s, t) PROVE OneFetchEach'
    BY <2>9, <2>0 DEF HandleResultReadCache, OneFetchEach
  <2>10. ASSUME NEW s \in Subqueries, HandleResultReadFails(s) PROVE OneFetchEach'
    BY <2>10, <2>0 DEF HandleResultReadFails, OneFetchEach, QueryManagerCrash, Crash
  <2>11. ASSUME NEW s \in Subqueries, HandleResultSaveQuery(s) PROVE OneFetchEach'
    BY <2>11, <2>0 DEF HandleResultSaveQuery, OneFetchEach
  <2>12. ASSUME NEW s \in Subqueries, HandleResultSaveSubquery(s) PROVE OneFetchEach'
    BY <2>12, <2>0 DEF HandleResultSaveSubquery, OneFetchEach
  <2>13. ASSUME NEW s \in Subqueries, NotifyCallback(s) PROVE OneFetchEach'
    BY <2>13, <2>0 DEF NotifyCallback, OneFetchEach
  <2>14. ASSUME NEW s \in Subqueries, CallbackResponds(s) PROVE OneFetchEach'
    BY <2>14, <2>0 DEF CallbackResponds, OneFetchEach
  <2>15. ASSUME NEW s \in Subqueries, CallbackUnreachable(s) PROVE OneFetchEach'
    BY <2>15, <2>0 DEF CallbackUnreachable, OneFetchEach, QueryManagerCrash, Crash
  <2>16. ASSUME NEW q \in Query, CreateSaveFails(q) PROVE OneFetchEach'
    BY <2>16, <2>0 DEF CreateSaveFails, OneFetchEach
  <2>17. ASSUME HandleResultDatabaseFails PROVE OneFetchEach'
    BY <2>17, <2>0 DEF HandleResultDatabaseFails, OneFetchEach, QueryManagerCrash, Crash
  <2>. QED
    BY <1>1, <2>1, <2>2, <2>3, <2>4, <2>5, <2>6, <2>7, <2>8, <2>9, <2>10, <2>11, <2>12, <2>13, <2>14, <2>15, <2>16, <2>17 DEF QueryManagerStep, QueryNext, CreateNext, HandleNext
<1>2. CASE CacheManagerStep
  <2>0. UNCHANGED <<fetching, swapiLog>>
    BY <1>2 DEF CacheManagerStep, cacheVars, connectorVars, queryVars
  <2>1. ASSUME NEW m \in net, UpdateCacheFind(m) PROVE OneFetchEach'
    BY <2>1, <2>0 DEF UpdateCacheFind, OneFetchEach, Arrives
  <2>2. ASSUME NEW u \in updating, UpdateCacheSave(u) PROVE OneFetchEach'
    BY <2>2, <2>0 DEF UpdateCacheSave, OneFetchEach
  <2>3. ASSUME NEW u \in updating, UpdateCacheDuplicateKey(u) PROVE OneFetchEach'
    BY <2>3, <2>0 DEF UpdateCacheDuplicateKey, OneFetchEach, CacheManagerCrash, Crash
  <2>4. ASSUME UpdateCacheFails PROVE OneFetchEach'
    BY <2>4, <2>0 DEF UpdateCacheFails, OneFetchEach, CacheManagerCrash, Crash
  <2>. QED
    BY <1>2, <2>1, <2>2, <2>3, <2>4 DEF CacheManagerStep, CacheNext
<1>3. CASE ConnectorStep
  <2>0. TRUE
    OBVIOUS
  <2>1. ASSUME NEW m \in net, FetchDataCached(m) PROVE OneFetchEach'
    BY <2>1, <2>0 DEF FetchDataCached, OneFetchEach, Arrives, connectorVars
  <2>2. ASSUME NEW m \in net, FetchDataMissing(m) PROVE OneFetchEach'
    BY <2>2, <2>0 DEF FetchDataMissing, OneFetchEach, Arrives
  <2>3. ASSUME NEW m \in net, FetchDataCacheDown(m) PROVE OneFetchEach'
    BY <2>3, <2>0 DEF FetchDataCacheDown, OneFetchEach, SwapiConnectorCrash, Crash
  <2>4. ASSUME NEW s \in fetching, NEW r \in SwapiResults, SwapiAnswers(s, r) PROVE OneFetchEach'
    <3>1. \A m \in Emitted("receive", {s}, r) : m.subject = "receive"
      BY DEF Emitted
    <3>2. \A l \in swapiLog : l.id # s
      BY DEF OneFetchEach
    <3>3. \A m \in net : m.subject # "receive" => m.id # s
      BY DEF OneFetchEach
    <3>4. \A m \in net' : m.subject # "receive" => m \in net
      BY <2>4, <3>1 DEF SwapiAnswers
    <3>5. \A k, l \in swapiLog' : k.id = l.id => k = l
      BY <2>4, <3>2 DEF SwapiAnswers, OneFetchEach
    <3>6. \A l \in swapiLog' : l.id \notin fetching'
      BY <2>4 DEF SwapiAnswers, OneFetchEach
    <3>7. ASSUME NEW m \in net', m.subject # "receive"
          PROVE  /\ m.result = "null"
                 /\ m.id \notin fetching' /\ m.id \notin {l.id : l \in swapiLog'}
                 /\ \A n \in net' : n.id = m.id => n = m
      <4>1. m \in net /\ m.id # s
        BY <3>3, <3>4, <3>7
      <4>2. m.id \notin fetching' /\ m.id \notin {l.id : l \in swapiLog'}
        BY <2>4, <3>7, <4>1 DEF SwapiAnswers, OneFetchEach
      <4>3. \A n \in Emitted("receive", {s}, r) : n.id = s
        BY DEF Emitted
      <4>. QED
        BY <2>4, <3>7, <4>1, <4>2, <4>3 DEF SwapiAnswers, OneFetchEach
    <3>. QED
      BY <3>5, <3>6, <3>7 DEF OneFetchEach
  <2>5. ASSUME NEW s \in fetching, SwapiFails(s) PROVE OneFetchEach'
    BY <2>5, <2>0 DEF SwapiFails, OneFetchEach, SwapiConnectorCrash, Crash
  <2>. QED
    BY <1>3, <2>1, <2>2, <2>3, <2>4, <2>5 DEF ConnectorStep, ConnectorNext
<1>4. CASE SchedulerStep
  <2>0. UNCHANGED <<fetching, swapiLog>>
    BY <1>4 DEF SchedulerStep, cacheVars, connectorVars, queryVars
  <2>1. ASSUME NEW m \in net, Dispatch(m) PROVE OneFetchEach'
    <3>1. \A n \in Emitted("fetch", {m.id}, m.result) :
            n = [to |-> "swapi-connector", subject |-> "fetch", id |-> m.id, result |-> m.result]
      BY AggregationServices DEF Emitted, Subscribers, Subscriptions
    <3>2. m.subject # "receive" /\ m \in net
      BY <2>1 DEF Dispatch, Arrives
    <3>3. /\ m.result = "null"
          /\ m.id \notin fetching /\ m.id \notin {l.id : l \in swapiLog}
          /\ \A n \in net : n.id = m.id => n = m
      BY <3>2 DEF OneFetchEach
    <3>4. \A n \in net' : n.id = m.id => n \in Emitted("fetch", {m.id}, m.result)
      BY <2>1, <3>3 DEF Dispatch
    <3>5. ASSUME NEW n \in net', n.subject # "receive"
          PROVE  /\ n.result = "null"
                 /\ n.id \notin fetching' /\ n.id \notin {l.id : l \in swapiLog'}
                 /\ \A k \in net' : k.id = n.id => k = n
      <4>1. CASE n \in Emitted("fetch", {m.id}, m.result)
        <5>1. n.id = m.id /\ n.result = "null"
          BY <3>1, <3>3, <4>1
        <5>2. \A k \in net' : k.id = n.id => k = n
          BY <3>1, <3>4, <4>1, <5>1
        <5>. QED
          BY <2>0, <3>3, <5>1, <5>2
      <4>2. CASE n \in net /\ n # m
        <5>1. n.id # m.id
          BY <3>3, <4>2
        <5>. QED
          BY <2>0, <2>1, <3>1, <3>5, <4>2, <5>1 DEF Dispatch, OneFetchEach
      <4>. QED
        BY <2>1, <4>1, <4>2 DEF Dispatch
    <3>. QED
      BY <2>0, <3>5 DEF OneFetchEach
  <2>. QED
    BY <1>4, <2>1 DEF SchedulerStep
<1>5. CASE GatewayStep \/ UNCHANGED vars
  BY <1>5 DEF GatewayStep, GatewayNext, vars, connectorVars, OneFetchEach
<1>6. CASE RestartStep
  BY <1>6, RestartFacts DEF OneFetchEach
<1>. QED
  BY <1>1, <1>2, <1>3, <1>4, <1>5, <1>6 DEF Next

\* What was downloaded stays downloaded.
LEMMA DownloadedGrows ==
    ASSUME request' = request, swapiLog \subseteq swapiLog'
    PROVE  Downloaded \subseteq Downloaded'
BY DEF Downloaded, PathOf

\* A path with data in the log was downloaded.
LEMMA LoggedIsDownloaded ==
    ASSUME NEW s, [id |-> s, result |-> "data"] \in swapiLog
    PROVE  PathOf(s) \in Downloaded
BY DEF Downloaded

\* The cache gains only what SWAPI served.
LEMMA CacheStep == IInv /\ [Next]_vars => CacheIsDownloaded'
<1> SUFFICES ASSUME IInv, [Next]_vars PROVE CacheIsDownloaded'
  OBVIOUS
<1> USE DEF IInv, CacheIsDownloaded
<1>1. CASE QueryManagerStep
  BY <1>1, DownloadedGrows DEF QueryManagerStep, cacheVars, connectorVars
<1>2. CASE CacheManagerStep
  <2>0. request' = request /\ swapiLog' = swapiLog
    BY <1>2 DEF CacheManagerStep, connectorVars
  <2>1. ASSUME NEW m \in net, UpdateCacheFind(m) PROVE CacheIsDownloaded'
    BY <2>0, <2>1, DownloadedGrows DEF UpdateCacheFind
  <2>2. ASSUME NEW u \in updating, UpdateCacheSave(u) PROVE CacheIsDownloaded'
    <3>1. PathOf(u.id) \in Downloaded
      BY LoggedIsDownloaded DEF ResultsAreLogged
    <3>. QED
      BY <2>0, <2>2, <3>1, DownloadedGrows DEF UpdateCacheSave
  <2>3. ASSUME NEW u \in updating, UpdateCacheDuplicateKey(u) PROVE CacheIsDownloaded'
    BY <2>0, <2>3, DownloadedGrows DEF UpdateCacheDuplicateKey, CacheManagerCrash
  <2>4. ASSUME UpdateCacheFails PROVE CacheIsDownloaded'
    BY <2>0, <2>4, DownloadedGrows DEF UpdateCacheFails, CacheManagerCrash
  <2>. QED
    BY <1>2, <2>1, <2>2, <2>3, <2>4 DEF CacheManagerStep, CacheNext
<1>3. CASE ConnectorStep
  <2>1. swapiLog \subseteq swapiLog'
    BY <1>3 DEF ConnectorStep, ConnectorNext, FetchDataCached, connectorVars, FetchDataMissing,
         FetchDataCacheDown, SwapiAnswers, SwapiFails, SwapiConnectorCrash
  <2>. QED
    BY <1>3, <2>1, DownloadedGrows DEF ConnectorStep, cacheVars
<1>4. CASE SchedulerStep
  BY <1>4, DownloadedGrows DEF SchedulerStep, cacheVars, connectorVars
<1>5. CASE GatewayStep \/ UNCHANGED vars
  BY <1>5, DownloadedGrows DEF GatewayStep, GatewayNext, vars, cacheVars, connectorVars
<1>6. CASE RestartStep
  BY <1>6, RestartFacts, DownloadedGrows
<1>. QED
  BY <1>1, <1>2, <1>3, <1>4, <1>5, <1>6 DEF Next

\* Handlers that keep or drop their reads keep the reads cached.
LEMMA ReadsKept ==
    ASSUME ReadsAreCached, request' = request, resources \subseteq resources', createRead' = createRead,
           \A s \in SubqueryId : handling'[s].read = handling[s].read \/ handling'[s].read = Unread
    PROVE  ReadsAreCached'
<1>1. \A s \in SubqueryId : PathOf(s)' = PathOf(s) /\ SubqueriesOf(QueryOf(s))' = SubqueriesOf(QueryOf(s))
  BY DEF PathOf, SubqueriesOf, QueryOf
<1>2. ASSUME NEW s \in SubqueryId, NEW t \in SubqueriesOf(QueryOf(s)), handling'[s].read[t[2]] = "data"
      PROVE  PathOf(t) \in resources
  <2>1. t \in SubqueryId /\ t[2] \in 1 .. MaxSubqueries
    BY SubqueryIdFacts, SubqueriesFacts
  <2>2. handling'[s].read # Unread
    BY <1>2, <2>1 DEF Unread
  <2>. QED
    BY <1>2, <2>2 DEF ReadsAreCached
<1>3. \A s \in SubqueryId : \A t \in SubqueriesOf(QueryOf(s)) : t \in SubqueryId
  BY DEF SubqueriesOf
<1>. QED
  BY <1>1, <1>2, <1>3 DEF ReadsAreCached

\* A cache read, fresh or stale, only ever says "data" of what is cached.
LEMMA ReadsStep == IInv /\ [Next]_vars => ReadsAreCached'
<1> SUFFICES ASSUME IInv, [Next]_vars PROVE ReadsAreCached'
  OBVIOUS
<1> USE DEF IInv
<1>1. CASE QueryManagerStep
  <2>0. /\ resources' = resources /\ request' = request
        /\ \A s \in SubqueryId : PathOf(s)' = PathOf(s) /\ SubqueriesOf(QueryOf(s))' = SubqueriesOf(QueryOf(s))
    BY <1>1 DEF QueryManagerStep, cacheVars, PathOf, SubqueriesOf, QueryOf
  <2> \A s \in SubqueryId : \A t \in SubqueriesOf(QueryOf(s)) : t \in SubqueryId
    BY SubqueriesFacts, SubqueryIdFacts
  <2>1. ASSUME NEW q \in Query, CreateQuery(q) PROVE ReadsAreCached'
    BY <2>1, <2>0 DEF CreateQuery, ReadsAreCached, TypeOK, QueryTypeOK
  <2>2. ASSUME NEW q \in Query, NEW s \in SubqueriesOf(q), CreateReadCache(s) PROVE ReadsAreCached'
    BY <2>2, <2>0, SubqueriesFacts DEF CreateReadCache, ReadsAreCached, TypeOK, QueryTypeOK, CacheRead
  <2>3. ASSUME NEW q \in Query, CreateReadFails(q) PROVE ReadsAreCached'
    BY <2>3, <2>0 DEF CreateReadFails, ReadsAreCached, TypeOK, QueryTypeOK
  <2>4. ASSUME NEW q \in Query, CreateFromCache(q) PROVE ReadsAreCached'
    BY <2>4, <2>0 DEF CreateFromCache, ReadsAreCached, TypeOK, QueryTypeOK
  <2>5. ASSUME NEW q \in Query, SaveNewQuery(q) PROVE ReadsAreCached'
    BY <2>5, <2>0 DEF SaveNewQuery, ReadsAreCached, TypeOK, QueryTypeOK
  <2>6. ASSUME NEW q \in Query, SaveNewSubqueries(q) PROVE ReadsAreCached'
    BY <2>6, <2>0 DEF SaveNewSubqueries, ReadsAreCached, TypeOK, QueryTypeOK
  <2>7. ASSUME NEW q \in Query, ScheduleFetches(q) PROVE ReadsAreCached'
    BY <2>7, <2>0 DEF ScheduleFetches, ReadsAreCached, TypeOK, QueryTypeOK
  <2>8. ASSUME NEW m \in net, HandleResultLoad(m) PROVE ReadsAreCached'
    <3>1. \A s \in SubqueryId : handling'[s].read = handling[s].read \/ handling'[s].read = Unread
      BY <2>8 DEF HandleResultLoad, QueryManagerCrash, IdleHandler, TypeOK, QueryTypeOK
    <3>2. createRead' = createRead
      BY <2>8 DEF HandleResultLoad, QueryManagerCrash
    <3>. QED
      BY <2>0, <3>1, <3>2, ReadsKept
  <2>9. ASSUME NEW s \in Subqueries, NEW t \in SubqueriesOf(QueryOf(s)), HandleResultReadCache(s, t) PROVE ReadsAreCached'
    <3>1. s \in SubqueryId /\ t \in SubqueryId /\ t \in SubqueriesOf(QueryOf(s))
      BY SubqueriesFacts
    <3>2. ASSUME NEW s1 \in SubqueryId, NEW t1 \in SubqueriesOf(QueryOf(s1)), handling'[s1].read[t1[2]] = "data"
          PROVE  PathOf(t1) \in resources
      <4>1. CASE s1 = s /\ t1[2] = t[2]
        <5>1. t1 = t
          BY <3>1, <4>1, SubqueriesFacts, SubqueryIdFacts
        <5>2. handling[s] \in Handler /\ handling[s].read \in Reading /\ t[2] \in 1 .. MaxSubqueries
          BY <3>1, SubqueryIdFacts DEF TypeOK, QueryTypeOK, Handler
        <5>3. handling'[s].read[t[2]] = CacheRead(PathOf(t))
          BY <2>9, <3>1, <5>2 DEF HandleResultReadCache, TypeOK, QueryTypeOK, Reading, Handler
        <5>. QED
          BY <3>2, <4>1, <5>1, <5>3 DEF CacheRead
      <4>2. CASE ~(s1 = s /\ t1[2] = t[2])
        <5>1. handling'[s1].read[t1[2]] = handling[s1].read[t1[2]]
          <6>1. t1[2] \in 1 .. MaxSubqueries
            BY SubqueriesFacts, SubqueryIdFacts
          <6>2. handling[s] \in Handler /\ handling[s].read \in Reading
            BY <3>1 DEF TypeOK, QueryTypeOK, Handler
          <6>. QED
            BY <2>9, <3>1, <4>2, <6>1, <6>2 DEF HandleResultReadCache, TypeOK, QueryTypeOK, Reading, Handler
        <5>. QED
          BY <3>2, <5>1 DEF ReadsAreCached
      <4>. QED
        BY <4>1, <4>2
    <3>3. createRead' = createRead
      BY <2>9 DEF HandleResultReadCache
    <3>. QED
      BY <2>0, <3>2, <3>3 DEF ReadsAreCached
  <2>10. ASSUME NEW s \in Subqueries, HandleResultReadFails(s) PROVE ReadsAreCached'
    BY <2>10, <2>0, ReadsKept DEF HandleResultReadFails, QueryManagerCrash, IdleHandler
  <2>11. ASSUME NEW s \in Subqueries, HandleResultSaveQuery(s) PROVE ReadsAreCached'
    <3>1. \A s1 \in SubqueryId : handling'[s1].read = handling[s1].read \/ handling'[s1].read = Unread
      BY <2>11, SubqueriesFacts DEF HandleResultSaveQuery, TypeOK, QueryTypeOK, Handler
    <3>2. createRead' = createRead
      BY <2>11 DEF HandleResultSaveQuery
    <3>. QED
      BY <2>0, <3>1, <3>2, ReadsKept
  <2>12. ASSUME NEW s \in Subqueries, HandleResultSaveSubquery(s) PROVE ReadsAreCached'
    <3>1. \A s1 \in SubqueryId : handling'[s1].read = handling[s1].read \/ handling'[s1].read = Unread
      BY <2>12, SubqueriesFacts DEF HandleResultSaveSubquery, TypeOK, QueryTypeOK, Handler, IdleHandler
    <3>2. createRead' = createRead
      BY <2>12 DEF HandleResultSaveSubquery
    <3>. QED
      BY <2>0, <3>1, <3>2, ReadsKept
  <2>13. ASSUME NEW s \in Subqueries, NotifyCallback(s) PROVE ReadsAreCached'
    <3>1. \A s1 \in SubqueryId : handling'[s1].read = handling[s1].read \/ handling'[s1].read = Unread
      BY <2>13, SubqueriesFacts DEF NotifyCallback, TypeOK, QueryTypeOK, Handler, IdleHandler
    <3>2. createRead' = createRead
      BY <2>13 DEF NotifyCallback
    <3>. QED
      BY <2>0, <3>1, <3>2, ReadsKept
  <2>14. ASSUME NEW s \in Subqueries, CallbackResponds(s) PROVE ReadsAreCached'
    BY <2>14, <2>0 DEF CallbackResponds, ReadsAreCached, TypeOK, QueryTypeOK
  <2>15. ASSUME NEW s \in Subqueries, CallbackUnreachable(s) PROVE ReadsAreCached'
    BY <2>15, <2>0, ReadsKept DEF CallbackUnreachable, QueryManagerCrash, IdleHandler
  <2>16. ASSUME NEW q \in Query, CreateSaveFails(q) PROVE ReadsAreCached'
    BY <2>16, <2>0 DEF CreateSaveFails, ReadsAreCached, TypeOK, QueryTypeOK
  <2>17. ASSUME HandleResultDatabaseFails PROVE ReadsAreCached'
    BY <2>17, <2>0, ReadsKept DEF HandleResultDatabaseFails, QueryManagerCrash, IdleHandler
  <2>. QED
    BY <1>1, <2>1, <2>2, <2>3, <2>4, <2>5, <2>6, <2>7, <2>8, <2>9, <2>10, <2>11, <2>12, <2>13, <2>14, <2>15, <2>16, <2>17 DEF QueryManagerStep, QueryNext, CreateNext, HandleNext
<1>2. CASE CacheManagerStep
  <2>0. resources \subseteq resources'
    BY <1>2 DEF CacheManagerStep, CacheNext, UpdateCacheFind, UpdateCacheSave, UpdateCacheDuplicateKey, UpdateCacheFails,
         CacheManagerCrash
  <2>. QED
    BY <1>2, <2>0 DEF CacheManagerStep, ReadsAreCached, queryVars, SubqueriesOf, PathOf
<1>3. CASE ConnectorStep
  BY <1>3 DEF ConnectorStep, ReadsAreCached, queryVars, SubqueriesOf, PathOf, cacheVars
<1>4. CASE SchedulerStep
  BY <1>4 DEF SchedulerStep, ReadsAreCached, queryVars, SubqueriesOf, PathOf, cacheVars
<1>5. CASE GatewayStep \/ UNCHANGED vars
  BY <1>5 DEF GatewayStep, GatewayNext, vars, cacheVars, queryVars, ReadsAreCached, SubqueriesOf, PathOf
<1>6. CASE RestartStep
  BY <1>6, RestartFacts, ReadsKept DEF IdleHandler
<1>. QED
  BY <1>1, <1>2, <1>3, <1>4, <1>5, <1>6 DEF Next

\* Results are copied, never invented: the handlers and rows of a fetched
\* subquery hold the answer SWAPI gave to its one fetch.
LEMMA LogStep == IInv /\ [Next]_vars => ResultsAreLogged'
<1> SUFFICES ASSUME IInv, [Next]_vars PROVE ResultsAreLogged'
  OBVIOUS
<1> USE DEF IInv
<1>1. CASE QueryManagerStep
  <2>0. UNCHANGED <<updating, swapiLog>>
    BY <1>1 DEF QueryManagerStep, cacheVars, connectorVars, queryVars
  <2>1. ASSUME NEW q \in Query, CreateQuery(q) PROVE ResultsAreLogged'
    BY <2>1, <2>0 DEF CreateQuery, ResultsAreLogged, TypeOK, QueryTypeOK
  <2>2. ASSUME NEW q \in Query, NEW s \in SubqueriesOf(q), CreateReadCache(s) PROVE ResultsAreLogged'
    <3>1. s \in Subqueries /\ s \in SubqueryId /\ QueryOf(s) = q
      BY SubqueriesFacts
    <3>2. subqueryTable[s] = "none"
      BY <2>2, <3>1 DEF CreateReadCache, StagesInOrder
    <3>. QED
      BY <2>2, <2>0, <3>1, <3>2 DEF CreateReadCache, ResultsAreLogged, TypeOK, QueryTypeOK
  <2>3. ASSUME NEW q \in Query, CreateReadFails(q) PROVE ResultsAreLogged'
    BY <2>3, <2>0 DEF CreateReadFails, ResultsAreLogged, TypeOK, QueryTypeOK
  <2>4. ASSUME NEW q \in Query, CreateFromCache(q) PROVE ResultsAreLogged'
    BY <2>4, <2>0 DEF CreateFromCache, ResultsAreLogged, TypeOK, QueryTypeOK
  <2>5. ASSUME NEW q \in Query, SaveNewQuery(q) PROVE ResultsAreLogged'
    BY <2>5, <2>0 DEF SaveNewQuery, ResultsAreLogged, TypeOK, QueryTypeOK
  <2>6. ASSUME NEW q \in Query, SaveNewSubqueries(q) PROVE ResultsAreLogged'
    BY <2>6, <2>0, SubqueriesFacts DEF SaveNewSubqueries, ResultsAreLogged, TypeOK, QueryTypeOK
  <2>7. ASSUME NEW q \in Query, ScheduleFetches(q) PROVE ResultsAreLogged'
    BY <2>7, <2>0 DEF ScheduleFetches, ResultsAreLogged, Emitted
  <2>8. ASSUME NEW m \in net, HandleResultLoad(m) PROVE ResultsAreLogged'
    <3>1. m.subject = "receive" /\ m.id \in SubqueryId /\ [id |-> m.id, result |-> m.result] \in swapiLog
      BY <2>8 DEF HandleResultLoad, Arrives, TypeOK, NatsTypeOK, Delivery, ResultsAreLogged
    <3>2. \A s \in SubqueryId :
            handling'[s].pc = "idle" \/ handling'[s] = handling[s] \/ (s = m.id /\ handling'[s].result = m.result)
      BY <2>8 DEF HandleResultLoad, QueryManagerCrash, IdleHandler, TypeOK, QueryTypeOK
    <3>3. net' \subseteq net /\ UNCHANGED <<createRead, subqueryTable>>
      BY <2>8 DEF HandleResultLoad, QueryManagerCrash, Crash
    <3>. QED
      BY <2>0, <3>1, <3>2, <3>3 DEF ResultsAreLogged
  <2>9. ASSUME NEW s \in Subqueries, NEW t \in SubqueriesOf(QueryOf(s)), HandleResultReadCache(s, t) PROVE ResultsAreLogged'
    <3>1. s \in SubqueryId /\ \A h \in SubqueryId : handling[h] \in Handler
      BY SubqueriesFacts DEF TypeOK, QueryTypeOK
    <3>2. \A h \in SubqueryId : handling'[h].result = handling[h].result
                              /\ (handling'[h].pc # "idle" => handling[h].pc # "idle")
      BY <2>9, <3>1 DEF HandleResultReadCache, TypeOK, QueryTypeOK, Handler
    <3>3. UNCHANGED <<net, createRead, subqueryTable>>
      BY <2>9 DEF HandleResultReadCache
    <3>. QED
      BY <2>0, <3>2, <3>3 DEF ResultsAreLogged
  <2>10. ASSUME NEW s \in Subqueries, HandleResultReadFails(s) PROVE ResultsAreLogged'
    BY <2>10, <2>0 DEF HandleResultReadFails, ResultsAreLogged, TypeOK, QueryTypeOK, QueryManagerCrash, Crash, IdleHandler
  <2>11. ASSUME NEW s \in Subqueries, HandleResultSaveQuery(s) PROVE ResultsAreLogged'
    <3>1. s \in SubqueryId /\ \A h \in SubqueryId : handling[h] \in Handler
      BY SubqueriesFacts DEF TypeOK, QueryTypeOK
    <3>2. \A h \in SubqueryId : handling'[h].result = handling[h].result
                              /\ (handling'[h].pc # "idle" => handling[h].pc # "idle")
      BY <2>11, <3>1 DEF HandleResultSaveQuery, TypeOK, QueryTypeOK, Handler
    <3>3. UNCHANGED <<net, createRead, subqueryTable>>
      BY <2>11 DEF HandleResultSaveQuery
    <3>. QED
      BY <2>0, <3>2, <3>3 DEF ResultsAreLogged
  <2>12. ASSUME NEW s \in Subqueries, HandleResultSaveSubquery(s) PROVE ResultsAreLogged'
    <3>1. s \in SubqueryId /\ \A h \in SubqueryId : handling[h] \in Handler
      BY SubqueriesFacts DEF TypeOK, QueryTypeOK
    <3>2. [id |-> s, result |-> handling[s].result] \in swapiLog
      BY <2>12, <3>1 DEF HandleResultSaveSubquery, ResultsAreLogged
    <3>3. \A h \in SubqueryId : handling'[h].pc # "idle" =>
                handling[h].pc # "idle" /\ handling'[h].result = handling[h].result
      BY <2>12, <3>1 DEF HandleResultSaveSubquery, IdleHandler, TypeOK, QueryTypeOK, Handler
    <3>4. \A h \in SubqueryId : subqueryTable'[h] = IF h = s THEN handling[s].result ELSE subqueryTable[h]
      BY <2>12, <3>1 DEF HandleResultSaveSubquery, TypeOK, QueryTypeOK
    <3>5. UNCHANGED <<net, createRead>>
      BY <2>12 DEF HandleResultSaveSubquery
    <3>. QED
      BY <2>0, <3>1, <3>2, <3>3, <3>4, <3>5 DEF ResultsAreLogged
  <2>13. ASSUME NEW s \in Subqueries, NotifyCallback(s) PROVE ResultsAreLogged'
    BY <2>13, <2>0, SubqueriesFacts DEF NotifyCallback, ResultsAreLogged, TypeOK, QueryTypeOK, IdleHandler
  <2>14. ASSUME NEW s \in Subqueries, CallbackResponds(s) PROVE ResultsAreLogged'
    BY <2>14, <2>0 DEF CallbackResponds, ResultsAreLogged, TypeOK, QueryTypeOK
  <2>15. ASSUME NEW s \in Subqueries, CallbackUnreachable(s) PROVE ResultsAreLogged'
    BY <2>15, <2>0 DEF CallbackUnreachable, ResultsAreLogged, TypeOK, QueryTypeOK, QueryManagerCrash, Crash, IdleHandler
  <2>16. ASSUME NEW q \in Query, CreateSaveFails(q) PROVE ResultsAreLogged'
    BY <2>16, <2>0 DEF CreateSaveFails, ResultsAreLogged, TypeOK, QueryTypeOK
  <2>17. ASSUME HandleResultDatabaseFails PROVE ResultsAreLogged'
    BY <2>17, <2>0 DEF HandleResultDatabaseFails, ResultsAreLogged, TypeOK, QueryTypeOK, QueryManagerCrash, Crash, IdleHandler
  <2>. QED
    BY <1>1, <2>1, <2>2, <2>3, <2>4, <2>5, <2>6, <2>7, <2>8, <2>9, <2>10, <2>11, <2>12, <2>13, <2>14, <2>15, <2>16, <2>17 DEF QueryManagerStep, QueryNext, CreateNext, HandleNext
<1>2. CASE CacheManagerStep
  <2>0. UNCHANGED <<swapiLog, handling, createRead, subqueryTable>>
    BY <1>2 DEF CacheManagerStep, cacheVars, connectorVars, queryVars
  <2>1. ASSUME NEW m \in net, UpdateCacheFind(m) PROVE ResultsAreLogged'
    BY <2>1, <2>0 DEF UpdateCacheFind, ResultsAreLogged, Arrives
  <2>2. ASSUME NEW u \in updating, UpdateCacheSave(u) PROVE ResultsAreLogged'
    BY <2>2, <2>0 DEF UpdateCacheSave, ResultsAreLogged
  <2>3. ASSUME NEW u \in updating, UpdateCacheDuplicateKey(u) PROVE ResultsAreLogged'
    BY <2>3, <2>0 DEF UpdateCacheDuplicateKey, ResultsAreLogged, CacheManagerCrash, Crash
  <2>4. ASSUME UpdateCacheFails PROVE ResultsAreLogged'
    BY <2>4, <2>0 DEF UpdateCacheFails, ResultsAreLogged, CacheManagerCrash, Crash
  <2>. QED
    BY <1>2, <2>1, <2>2, <2>3, <2>4 DEF CacheManagerStep, CacheNext
<1>3. CASE ConnectorStep
  <2>0. UNCHANGED <<updating, handling, createRead, subqueryTable>>
    BY <1>3 DEF ConnectorStep, cacheVars, connectorVars, queryVars
  <2>1. ASSUME NEW m \in net, FetchDataCached(m) PROVE ResultsAreLogged'
    BY <2>1, <2>0 DEF FetchDataCached, ResultsAreLogged, connectorVars
  <2>2. ASSUME NEW m \in net, FetchDataMissing(m) PROVE ResultsAreLogged'
    BY <2>2, <2>0 DEF FetchDataMissing, ResultsAreLogged
  <2>3. ASSUME NEW m \in net, FetchDataCacheDown(m) PROVE ResultsAreLogged'
    BY <2>3, <2>0 DEF FetchDataCacheDown, ResultsAreLogged, SwapiConnectorCrash, Crash
  <2>4. ASSUME NEW s \in fetching, NEW r \in SwapiResults, SwapiAnswers(s, r) PROVE ResultsAreLogged'
    BY <2>4, <2>0 DEF SwapiAnswers, ResultsAreLogged, Emitted
  <2>5. ASSUME NEW s \in fetching, SwapiFails(s) PROVE ResultsAreLogged'
    BY <2>5, <2>0 DEF SwapiFails, ResultsAreLogged, SwapiConnectorCrash, Crash
  <2>. QED
    BY <1>3, <2>1, <2>2, <2>3, <2>4, <2>5 DEF ConnectorStep, ConnectorNext
<1>4. CASE SchedulerStep
  <2>0. UNCHANGED <<updating, swapiLog, handling, createRead, subqueryTable>>
    BY <1>4 DEF SchedulerStep, cacheVars, connectorVars, queryVars
  <2>1. ASSUME NEW m \in net, Dispatch(m) PROVE ResultsAreLogged'
    BY <2>1, <2>0 DEF Dispatch, ResultsAreLogged, Emitted
  <2>. QED
    BY <1>4, <2>1 DEF SchedulerStep
<1>5. CASE GatewayStep \/ UNCHANGED vars
  BY <1>5 DEF GatewayStep, GatewayNext, vars, cacheVars, connectorVars, queryVars, ResultsAreLogged
<1>6. CASE RestartStep
  <2>1. /\ net' \subseteq net /\ UNCHANGED <<updating, swapiLog, createRead, subqueryTable>>
        /\ \A s \in SubqueryId : handling'[s] = handling[s] \/ handling'[s] = IdleHandler
    BY <1>6, RestartFacts
  <2>2. \A s \in SubqueryId : handling'[s].pc # "idle" => handling'[s] = handling[s]
    BY <2>1 DEF IdleHandler
  <2>. QED
    BY <2>1, <2>2 DEF ResultsAreLogged
<1>. QED
  BY <1>1, <1>2, <1>3, <1>4, <1>5, <1>6 DEF Next

\* No step takes data out of a row: the creation saves each row first, and the
\* handlers of a subquery all save the one result SWAPI gave.
LEMMA RowsStep ==
    IInv /\ [Next]_vars =>
        \A s \in SubqueryId : subqueryTable[s] = "data" => subqueryTable'[s] = "data"
<1> SUFFICES ASSUME IInv, [Next]_vars, NEW s \in SubqueryId, subqueryTable[s] = "data"
             PROVE  subqueryTable'[s] = "data"
  OBVIOUS
<1> USE DEF IInv
<1>1. ASSUME NEW q \in Query, SaveNewSubqueries(q) PROVE subqueryTable'[s] = "data"
  <2>1. s \notin SubqueriesOf(q)
    BY <1>1, SubqueriesFacts DEF SaveNewSubqueries, StagesInOrder
  <2>. QED
    BY <1>1, <2>1 DEF SaveNewSubqueries
<1>2. ASSUME NEW h \in Subqueries, HandleResultSaveSubquery(h) PROVE subqueryTable'[s] = "data"
  <2>1. h \in SubqueryId /\ subqueryTable'[s] = IF s = h THEN handling[h].result ELSE subqueryTable[s]
    BY <1>2, SubqueriesFacts DEF HandleResultSaveSubquery, TypeOK, QueryTypeOK
  <2>2. h \in Touched
    BY <1>2, <2>1 DEF HandleResultSaveSubquery, Touched
  <2>3. createRead[h] = "null"
    BY <2>2 DEF TouchedAreTargets, TargetSubqueries
  <2>4. [id |-> h, result |-> handling[h].result] \in swapiLog
    BY <1>2, <2>1 DEF HandleResultSaveSubquery, ResultsAreLogged
  <2>5. CASE s = h
    <3>1. [id |-> h, result |-> "data"] \in swapiLog
      BY <2>1, <2>3, <2>5 DEF ResultsAreLogged
    <3>. QED
      BY <2>1, <2>4, <2>5, <3>1 DEF OneFetchEach
  <2>. QED
    BY <2>1, <2>5
<1>3. CASE QueryManagerStep
  <2>1. ASSUME NEW q \in Query, CreateNext(q) PROVE subqueryTable'[s] = "data"
    BY <1>1, <2>1 DEF CreateNext, CreateQuery, CreateReadCache, CreateReadFails, CreateSaveFails, CreateFromCache,
         SaveNewQuery, ScheduleFetches
  <2>2. ASSUME NEW m \in net, HandleResultLoad(m) PROVE subqueryTable'[s] = "data"
    BY <2>2 DEF HandleResultLoad, QueryManagerCrash
  <2>3. ASSUME NEW h \in Subqueries, HandleNext(h) PROVE subqueryTable'[s] = "data"
    BY <1>2, <2>3 DEF HandleNext, HandleResultReadCache, HandleResultReadFails, HandleResultSaveQuery,
         NotifyCallback, CallbackResponds, CallbackUnreachable, QueryManagerCrash
  <2>4. ASSUME HandleResultDatabaseFails PROVE subqueryTable'[s] = "data"
    BY <1>1, <2>4 DEF HandleResultDatabaseFails, QueryManagerCrash
  <2>. QED
    BY <1>3, <2>1, <2>2, <2>3, <2>4 DEF QueryManagerStep, QueryNext
<1>4. CASE CacheManagerStep \/ ConnectorStep \/ SchedulerStep \/ RestartStep \/ GatewayStep \/ UNCHANGED vars
  BY <1>4, RestartFacts DEF CacheManagerStep, ConnectorStep, SchedulerStep, GatewayStep, GatewayNext, vars, queryVars
<1>. QED
  BY <1>3, <1>4 DEF Next

\* A handler completes a query only with data in hand.
LEMMA CompletionStep == IInv /\ [Next]_vars => CompletionHoldsData'
<1> SUFFICES ASSUME IInv, [Next]_vars PROVE CompletionHoldsData'
  OBVIOUS
<1> USE DEF IInv
<1>1. CASE QueryManagerStep
  <2>1. ASSUME NEW q \in Query, CreateQuery(q) PROVE CompletionHoldsData'
    BY <2>1 DEF CreateQuery, CompletionHoldsData
  <2>2. ASSUME NEW q \in Query, NEW s \in SubqueriesOf(q), CreateReadCache(s) PROVE CompletionHoldsData'
    BY <2>2 DEF CreateReadCache, CompletionHoldsData
  <2>3. ASSUME NEW q \in Query, CreateReadFails(q) PROVE CompletionHoldsData'
    BY <2>3 DEF CreateReadFails, CompletionHoldsData
  <2>4. ASSUME NEW q \in Query, CreateFromCache(q) PROVE CompletionHoldsData'
    BY <2>4 DEF CreateFromCache, CompletionHoldsData
  <2>5. ASSUME NEW q \in Query, SaveNewQuery(q) PROVE CompletionHoldsData'
    BY <2>5 DEF SaveNewQuery, CompletionHoldsData
  <2>6. ASSUME NEW q \in Query, SaveNewSubqueries(q) PROVE CompletionHoldsData'
    BY <2>6, RowsStep DEF SaveNewSubqueries, CompletionHoldsData
  <2>7. ASSUME NEW q \in Query, ScheduleFetches(q) PROVE CompletionHoldsData'
    BY <2>7 DEF ScheduleFetches, CompletionHoldsData
  <2>8. ASSUME NEW m \in net, HandleResultLoad(m) PROVE CompletionHoldsData'
    BY <2>8 DEF HandleResultLoad, CompletionHoldsData, TypeOK, QueryTypeOK, QueryManagerCrash, IdleHandler
  <2>9. ASSUME NEW s \in Subqueries, NEW t \in SubqueriesOf(QueryOf(s)), HandleResultReadCache(s, t) PROVE CompletionHoldsData'
    <3>1. s \in SubqueryId /\ \A h \in SubqueryId : handling[h] \in Handler
      BY SubqueriesFacts DEF TypeOK, QueryTypeOK
    <3>2. \A h \in SubqueryId : /\ handling'[h].result = handling[h].result
                                /\ handling'[h].pc = handling[h].pc
                                /\ handling'[h].outcome = handling[h].outcome
      BY <2>9, <3>1 DEF HandleResultReadCache, TypeOK, QueryTypeOK, Handler
    <3>3. subqueryTable' = subqueryTable
      BY <2>9 DEF HandleResultReadCache
    <3>. QED
      BY <3>2, <3>3 DEF CompletionHoldsData
  <2>10. ASSUME NEW s \in Subqueries, HandleResultReadFails(s) PROVE CompletionHoldsData'
    BY <2>10 DEF HandleResultReadFails, CompletionHoldsData, QueryManagerCrash, IdleHandler
  <2>11. ASSUME NEW s \in Subqueries, HandleResultSaveQuery(s) PROVE CompletionHoldsData'
    <3>1. s \in SubqueryId /\ \A h \in SubqueryId : handling[h] \in Handler
      BY SubqueriesFacts DEF TypeOK, QueryTypeOK
    <3>2. \A h \in SubqueryId : h # s => handling'[h] = handling[h]
      BY <2>11, <3>1 DEF HandleResultSaveQuery, TypeOK, QueryTypeOK
    <3>3. /\ handling'[s].pc = "saving" /\ handling'[s].result = handling[s].result
          /\ handling'[s].outcome = "COMPLETED" => HaveAllResults(s)
      BY <2>11, <3>1 DEF HandleResultSaveQuery, TypeOK, QueryTypeOK, Handler
    <3>4. HaveAllResults(s) => handling[s].result = "data"
      BY SubqueriesFacts DEF HaveAllResults
    <3>5. subqueryTable' = subqueryTable
      BY <2>11 DEF HandleResultSaveQuery
    <3>. QED
      BY <3>1, <3>2, <3>3, <3>4, <3>5 DEF CompletionHoldsData
  <2>12. ASSUME NEW s \in Subqueries, HandleResultSaveSubquery(s) PROVE CompletionHoldsData'
    <3>1. s \in SubqueryId /\ \A h \in SubqueryId : handling[h] \in Handler
      BY SubqueriesFacts DEF TypeOK, QueryTypeOK
    <3>2. \A h \in SubqueryId : h # s => handling'[h] = handling[h]
      BY <2>12, <3>1 DEF HandleResultSaveSubquery, TypeOK, QueryTypeOK
    <3>3. subqueryTable'[s] = handling[s].result
      BY <2>12, <3>1 DEF HandleResultSaveSubquery, TypeOK, QueryTypeOK
    <3>4. \/ handling'[s].pc = "idle"
          \/ /\ handling'[s].pc = "notifying" /\ handling[s].outcome = "COMPLETED"
             /\ handling'[s].outcome = handling[s].outcome /\ handling'[s].result = handling[s].result
      BY <2>12, <3>1 DEF HandleResultSaveSubquery, IdleHandler, TypeOK, QueryTypeOK, Handler
    <3>5. handling[s].pc = "saving"
      BY <2>12 DEF HandleResultSaveSubquery
    <3>. QED
      BY <3>1, <3>2, <3>3, <3>4, <3>5, RowsStep DEF CompletionHoldsData
  <2>13. ASSUME NEW s \in Subqueries, NotifyCallback(s) PROVE CompletionHoldsData'
    BY <2>13, SubqueriesFacts DEF NotifyCallback, CompletionHoldsData, TypeOK, QueryTypeOK, IdleHandler
  <2>14. ASSUME NEW s \in Subqueries, CallbackResponds(s) PROVE CompletionHoldsData'
    BY <2>14 DEF CallbackResponds, CompletionHoldsData
  <2>15. ASSUME NEW s \in Subqueries, CallbackUnreachable(s) PROVE CompletionHoldsData'
    BY <2>15 DEF CallbackUnreachable, CompletionHoldsData, QueryManagerCrash, IdleHandler
  <2>16. ASSUME NEW q \in Query, CreateSaveFails(q) PROVE CompletionHoldsData'
    BY <2>16 DEF CreateSaveFails, CompletionHoldsData
  <2>17. ASSUME HandleResultDatabaseFails PROVE CompletionHoldsData'
    BY <2>17 DEF HandleResultDatabaseFails, CompletionHoldsData, QueryManagerCrash, IdleHandler
  <2>. QED
    BY <1>1, <2>1, <2>2, <2>3, <2>4, <2>5, <2>6, <2>7, <2>8, <2>9, <2>10, <2>11, <2>12, <2>13, <2>14, <2>15, <2>16, <2>17 DEF QueryManagerStep, QueryNext, CreateNext, HandleNext
<1>2. CASE CacheManagerStep
  BY <1>2 DEF CacheManagerStep, CompletionHoldsData, queryVars
<1>3. CASE ConnectorStep
  BY <1>3 DEF ConnectorStep, CompletionHoldsData, queryVars
<1>4. CASE SchedulerStep
  BY <1>4 DEF SchedulerStep, CompletionHoldsData, queryVars
<1>5. CASE GatewayStep \/ UNCHANGED vars
  BY <1>5 DEF GatewayStep, GatewayNext, vars, queryVars, CompletionHoldsData
<1>6. CASE RestartStep
  BY <1>6, RestartFacts DEF CompletionHoldsData, IdleHandler
<1>. QED
  BY <1>1, <1>2, <1>3, <1>4, <1>5, <1>6 DEF Next

\* What SWAPI answered stays on record, and payloads never change.
LEMMA LogGrows == [Next]_vars => request' = request /\ swapiLog \subseteq swapiLog'
<1> SUFFICES ASSUME [Next]_vars PROVE request' = request /\ swapiLog \subseteq swapiLog'
  OBVIOUS
<1>1. CASE ConnectorStep
  BY <1>1 DEF ConnectorStep, ConnectorNext, FetchDataCached, connectorVars, FetchDataMissing,
       FetchDataCacheDown, SwapiAnswers, SwapiFails, SwapiConnectorCrash
<1>2. CASE QueryManagerStep \/ CacheManagerStep \/ SchedulerStep \/ RestartStep \/ GatewayStep \/ UNCHANGED vars
  BY <1>2 DEF QueryManagerStep, CacheManagerStep, SchedulerStep, RestartStep, RestartCacheManager, GatewayStep, GatewayNext, vars,
     connectorVars
<1>. QED
  BY <1>1, <1>2 DEF Next

\* A handler that finds all results, in its event and in its possibly stale cache
\* reads, completes a query whose resources were all served.
LEMMA HaveAllIsDownloaded ==
    ASSUME IInv, NEW s \in Subqueries, handling[s].pc = "reading", HaveAllResults(s),
           NEW t \in SubqueriesOf(QueryOf(s))
    PROVE  PathOf(t) \in Downloaded
<1> USE DEF IInv
<1>1. s \in SubqueryId
  BY SubqueriesFacts
<1>2. CASE t = s
  <2>1. handling[s].result = "data"
    BY <1>2 DEF HaveAllResults
  <2>. QED
    BY <1>1, <1>2, <2>1, LoggedIsDownloaded DEF ResultsAreLogged
<1>3. CASE t # s
  BY <1>1, <1>3 DEF HaveAllResults, ReadsAreCached, CacheIsDownloaded
<1>. QED
  BY <1>2, <1>3

\* A query is marked COMPLETED only when all its resources were served, and stays
\* covered as the log grows.
LEMMA CompletedStep == IInv /\ [Next]_vars => CompletedIsDownloaded'
<1> SUFFICES ASSUME IInv, [Next]_vars PROVE CompletedIsDownloaded'
  OBVIOUS
<1> USE DEF IInv
<1>0. /\ Downloaded \subseteq Downloaded'
      /\ Subqueries' = Subqueries
      /\ \A s \in Subqueries : PathOf(s)' = PathOf(s) /\ QueryOf(s) \in Query
  BY LogGrows, DownloadedGrows, SubqueriesFacts DEF Subqueries, PathOf
<1>1. ASSUME \A q \in Query : queryTable'[q] = "COMPLETED" => queryTable[q] = "COMPLETED"
      PROVE  CompletedIsDownloaded'
  BY <1>0, <1>1 DEF CompletedIsDownloaded, QueryOf
<1>2. ASSUME NEW s \in Subqueries, HandleResultSaveQuery(s) PROVE CompletedIsDownloaded'
  <2>1. \A q \in Query \ {QueryOf(s)} : queryTable'[q] = queryTable[q]
    BY <1>2 DEF HandleResultSaveQuery, TypeOK, QueryTypeOK
  <2>2. queryTable'[QueryOf(s)] = "COMPLETED" => HaveAllResults(s)
    BY <1>0, <1>2 DEF HandleResultSaveQuery, TypeOK, QueryTypeOK
  <2>3. handling[s].pc = "reading"
    BY <1>2 DEF HandleResultSaveQuery
  <2>4. ASSUME NEW t \in Subqueries, QueryOf(t) = QueryOf(s), HaveAllResults(s)
        PROVE  PathOf(t) \in Downloaded
    BY <2>3, <2>4, HaveAllIsDownloaded, SubqueriesFacts
  <2>. QED
    BY <1>0, <2>1, <2>2, <2>4 DEF CompletedIsDownloaded, QueryOf
<1>3. CASE QueryManagerStep
  <2>1. ASSUME NEW q \in Query, CreateNext(q) PROVE CompletedIsDownloaded'
    BY <1>1, <2>1 DEF CreateNext, CreateQuery, CreateReadCache, CreateReadFails, CreateSaveFails, CreateFromCache,
         SaveNewQuery, SaveNewSubqueries, ScheduleFetches, TypeOK, QueryTypeOK
  <2>2. ASSUME NEW m \in net, HandleResultLoad(m) PROVE CompletedIsDownloaded'
    BY <1>1, <2>2 DEF HandleResultLoad, QueryManagerCrash
  <2>3. ASSUME NEW s \in Subqueries, HandleNext(s) PROVE CompletedIsDownloaded'
    BY <1>1, <1>2, <2>3 DEF HandleNext, HandleResultReadCache, HandleResultReadFails, NotifyCallback,
         HandleResultSaveSubquery, CallbackResponds, CallbackUnreachable, QueryManagerCrash
  <2>4. ASSUME HandleResultDatabaseFails PROVE CompletedIsDownloaded'
    BY <1>1, <2>4 DEF HandleResultDatabaseFails, QueryManagerCrash
  <2>. QED
    BY <1>3, <2>1, <2>2, <2>3, <2>4 DEF QueryManagerStep, QueryNext
<1>4. CASE CacheManagerStep \/ ConnectorStep \/ SchedulerStep \/ RestartStep \/ GatewayStep \/ UNCHANGED vars
  BY <1>1, <1>4, RestartFacts DEF CacheManagerStep, ConnectorStep, SchedulerStep, GatewayStep, GatewayNext, vars, queryVars
<1>. QED
  BY <1>3, <1>4 DEF Next

\* A callback is posted after the save of its subquery, and no later save removes
\* the result.
LEMMA NotifiedStep == IInv /\ [Next]_vars => NotifiedIsStored'
<1> SUFFICES ASSUME IInv, [Next]_vars PROVE NotifiedIsStored'
  OBVIOUS
<1> USE DEF IInv
<1>0. \A n \in notified : n.id \in SubqueryId
  BY DEF TypeOK, QueryTypeOK
<1>1. ASSUME notified' = notified PROVE NotifiedIsStored'
  BY <1>0, <1>1, RowsStep DEF NotifiedIsStored
<1>2. ASSUME NEW s \in Subqueries, NotifyCallback(s) PROVE NotifiedIsStored'
  <2>1. s \in SubqueryId /\ subqueryTable[s] = "data"
    BY <1>2, SubqueriesFacts DEF NotifyCallback, CompletionHoldsData
  <2>2. \A n \in notified' : n \in notified \/ n.id = s
    BY <1>2 DEF NotifyCallback
  <2>. QED
    BY <1>0, <2>1, <2>2, RowsStep DEF NotifiedIsStored
<1>3. CASE QueryManagerStep
  <2>1. ASSUME NEW q \in Query, CreateNext(q) PROVE NotifiedIsStored'
    BY <1>1, <2>1 DEF CreateNext, CreateQuery, CreateReadCache, CreateReadFails, CreateSaveFails, CreateFromCache,
         SaveNewQuery, SaveNewSubqueries, ScheduleFetches
  <2>2. ASSUME NEW m \in net, HandleResultLoad(m) PROVE NotifiedIsStored'
    BY <1>1, <2>2 DEF HandleResultLoad, QueryManagerCrash
  <2>3. ASSUME NEW s \in Subqueries, HandleNext(s) PROVE NotifiedIsStored'
    <3>1. CASE HandleResultSaveSubquery(s)
      BY <1>1, <3>1 DEF HandleResultSaveSubquery
    <3>2. CASE ~HandleResultSaveSubquery(s) /\ ~NotifyCallback(s)
      BY <1>1, <2>3, <3>2 DEF HandleNext, HandleResultReadCache, HandleResultReadFails,
           HandleResultSaveQuery, CallbackResponds, CallbackUnreachable, QueryManagerCrash
    <3>. QED
      BY <1>2, <3>1, <3>2
  <2>4. ASSUME HandleResultDatabaseFails PROVE NotifiedIsStored'
    BY <1>1, <2>4 DEF HandleResultDatabaseFails, QueryManagerCrash
  <2>. QED
    BY <1>3, <2>1, <2>2, <2>3, <2>4 DEF QueryManagerStep, QueryNext
<1>4. CASE CacheManagerStep \/ ConnectorStep \/ SchedulerStep \/ RestartStep \/ GatewayStep \/ UNCHANGED vars
  BY <1>1, <1>4, RestartFacts DEF CacheManagerStep, ConnectorStep, SchedulerStep, GatewayStep, GatewayNext, vars, queryVars
<1>. QED
  BY <1>3, <1>4 DEF Next

\* How a query was answered, and what was read to answer it, never changes.
LEMMA AnswersFinal ==
    IInv /\ [Next]_vars =>
        /\ \A q \in Query : creating[q] \in {"answered", "cached", "failed"} => creating'[q] = creating[q]
        /\ \A s \in SubqueryId : creating[QueryOf(s)] # "reading" => createRead'[s] = createRead[s]
<1> DEFINE Final == /\ \A q \in Query : creating[q] \in {"answered", "cached", "failed"} => creating'[q] = creating[q]
                    /\ \A s \in SubqueryId : creating[QueryOf(s)] # "reading" => createRead'[s] = createRead[s]
<1> SUFFICES ASSUME IInv, [Next]_vars PROVE Final
  OBVIOUS
<1> USE DEF IInv
<1>1. CASE QueryManagerStep
  <2>1. ASSUME NEW q \in Query, CreateNext(q) PROVE Final
    BY <2>1, SubqueriesFacts DEF CreateNext, CreateQuery, CreateReadCache, CreateReadFails, CreateSaveFails,
         CreateFromCache, SaveNewQuery, SaveNewSubqueries, ScheduleFetches, TypeOK, QueryTypeOK
  <2>2. ASSUME NEW m \in net, HandleResultLoad(m) PROVE Final
    BY <2>2 DEF HandleResultLoad, QueryManagerCrash
  <2>3. ASSUME NEW s \in Subqueries, HandleNext(s) PROVE Final
    BY <2>3 DEF HandleNext, HandleResultReadCache, HandleResultReadFails, HandleResultSaveQuery,
         HandleResultSaveSubquery, NotifyCallback, CallbackResponds, CallbackUnreachable, QueryManagerCrash
  <2>4. ASSUME HandleResultDatabaseFails PROVE Final
    BY <2>4 DEF HandleResultDatabaseFails, QueryManagerCrash
  <2>. QED
    BY <1>1, <2>1, <2>2, <2>3, <2>4 DEF QueryManagerStep, QueryNext
<1>2. CASE CacheManagerStep \/ ConnectorStep \/ SchedulerStep \/ GatewayStep \/ UNCHANGED vars
  BY <1>2 DEF CacheManagerStep, ConnectorStep, SchedulerStep, GatewayStep, vars, queryVars
<1>3. CASE RestartStep
  BY <1>3, RestartFacts
<1>. QED
  BY <1>1, <1>2, <1>3 DEF Next

\* No query row is ever deleted.
LEMMA QueryRowsStay ==
    IInv /\ [Next]_vars => \A q \in Query : queryTable[q] # "none" => queryTable'[q] # "none"
<1> SUFFICES ASSUME IInv, [Next]_vars, NEW q \in Query, queryTable[q] # "none"
             PROVE  queryTable'[q] # "none"
  OBVIOUS
<1> USE DEF IInv, TypeOK, QueryTypeOK
<1>1. CASE QueryManagerStep
  <2>1. ASSUME NEW r \in Query, CreateNext(r) PROVE queryTable'[q] # "none"
    BY <2>1 DEF CreateNext, CreateQuery, CreateReadCache, CreateReadFails, CreateSaveFails,
         CreateFromCache, SaveNewQuery, SaveNewSubqueries, ScheduleFetches
  <2>2. ASSUME NEW m \in net, HandleResultLoad(m) PROVE queryTable'[q] # "none"
    BY <2>2 DEF HandleResultLoad, QueryManagerCrash
  <2>3. ASSUME NEW s \in Subqueries, HandleNext(s) PROVE queryTable'[q] # "none"
    BY <2>3 DEF HandleNext, HandleResultReadCache, HandleResultReadFails, HandleResultSaveQuery,
         HandleResultSaveSubquery, NotifyCallback, CallbackResponds, CallbackUnreachable, QueryManagerCrash
  <2>4. ASSUME HandleResultDatabaseFails PROVE queryTable'[q] # "none"
    BY <2>4 DEF HandleResultDatabaseFails, QueryManagerCrash
  <2>. QED
    BY <1>1, <2>1, <2>2, <2>3, <2>4 DEF QueryManagerStep, QueryNext
<1>2. CASE CacheManagerStep \/ ConnectorStep \/ SchedulerStep \/ GatewayStep \/ UNCHANGED vars
  BY <1>2 DEF CacheManagerStep, ConnectorStep, SchedulerStep, GatewayStep, vars, queryVars
<1>3. CASE RestartStep
  BY <1>3, RestartFacts
<1>. QED
  BY <1>1, <1>2, <1>3 DEF Next

\* What a query is answered with was read from the cache and saved with its rows.
LEMMA AnswersStep == IInv /\ [Next]_vars => AnswersHold'
<1> SUFFICES ASSUME IInv, [Next]_vars PROVE AnswersHold'
  OBVIOUS
<1> USE DEF IInv
<1>0. /\ Subqueries' = Subqueries
      /\ \A s \in Subqueries : s \in SubqueryId /\ QueryOf(s) \in Query /\ s \in SubqueriesOf(QueryOf(s))
      /\ \A s \in SubqueryId : subqueryTable[s] = "data" => subqueryTable'[s] = "data"
      /\ \A s \in SubqueryId : creating[QueryOf(s)] # "reading" => createRead'[s] = createRead[s]
      /\ \A q \in Query : queryTable[q] # "none" => queryTable'[q] # "none"
  BY LogGrows, SubqueriesFacts, RowsStep, AnswersFinal, QueryRowsStay DEF Subqueries
<1>1. ASSUME \A q \in Query : \/ creating'[q] = creating[q]
                             \/ creating'[q] \notin {"cached", "query", "subqueries", "answered"}
      PROVE  AnswersHold'
  BY <1>0, <1>1 DEF AnswersHold, QueryOf
<1>2. CASE QueryManagerStep
  <2>1. ASSUME NEW q \in Query, CreateNext(q) PROVE AnswersHold'
    <3>1. CASE CreateFromCache(q)
      BY <1>0, <3>1 DEF CreateFromCache, AnswersHold, TypeOK, QueryTypeOK
    <3>2. CASE SaveNewSubqueries(q)
      BY <1>0, <3>2 DEF SaveNewSubqueries, AnswersHold, TypeOK, QueryTypeOK
    <3>3. CASE ScheduleFetches(q)
      BY <1>0, <3>3 DEF ScheduleFetches, AnswersHold, TypeOK, QueryTypeOK
    <3>4. CASE SaveNewQuery(q)
      BY <1>0, <3>4 DEF SaveNewQuery, AnswersHold, TypeOK, QueryTypeOK
    <3>5. CASE CreateQuery(q) \/ (\E s \in SubqueriesOf(q) : CreateReadCache(s)) \/ CreateReadFails(q) \/ CreateSaveFails(q)
      BY <1>1, <3>5 DEF CreateQuery, CreateReadCache, CreateReadFails, CreateSaveFails, TypeOK, QueryTypeOK
    <3>. QED
      BY <2>1, <3>1, <3>2, <3>3, <3>4, <3>5 DEF CreateNext
  <2>2. ASSUME NEW m \in net, HandleResultLoad(m) PROVE AnswersHold'
    BY <1>1, <2>2 DEF HandleResultLoad, QueryManagerCrash
  <2>3. ASSUME NEW s \in Subqueries, HandleNext(s) PROVE AnswersHold'
    BY <1>1, <2>3 DEF HandleNext, HandleResultReadCache, HandleResultReadFails, HandleResultSaveQuery,
         HandleResultSaveSubquery, NotifyCallback, CallbackResponds, CallbackUnreachable, QueryManagerCrash
  <2>4. ASSUME HandleResultDatabaseFails PROVE AnswersHold'
    BY <1>1, <2>4 DEF HandleResultDatabaseFails, QueryManagerCrash
  <2>. QED
    BY <1>2, <2>1, <2>2, <2>3, <2>4 DEF QueryManagerStep, QueryNext
<1>3. CASE CacheManagerStep \/ ConnectorStep \/ SchedulerStep \/ GatewayStep \/ UNCHANGED vars
  BY <1>1, <1>3 DEF CacheManagerStep, ConnectorStep, SchedulerStep, GatewayStep, vars, queryVars
<1>4. CASE RestartStep
  BY <1>1, <1>4, RestartFacts
<1>. QED
  BY <1>2, <1>3, <1>4 DEF Next

\* Only the gateway tells a consumer anything.
LEMMA OthersAreSilent == [Next]_vars /\ ~GatewayStep => consumer' = consumer
BY DEF Next, QueryManagerStep, CacheManagerStep, ConnectorStep, SchedulerStep, RestartStep, vars

\* A response tells what is in the rows of an answered query, and rows keep their
\* results.
LEMMA ConsumersStep ==
    IInv /\ [Next]_vars =>
        /\ ConsumersKnow'
        /\ \A q \in Query : consumer[q].found \subseteq consumer'[q].found
<1> DEFINE Rows(q) == {s \in SubqueriesOf(q) : subqueryTable[s] = "data"}
           Known(q) == /\ consumer[q].id # "unknown"
                       /\ consumer[q].id = "given" => creating[q] = "answered" /\ consumer[q].found \subseteq Rows(q)
                       /\ consumer[q].id \in {"none", "error"} => consumer[q].found = {}
<1> SUFFICES ASSUME IInv, [Next]_vars, NEW q \in Query
             PROVE  Known(q)' /\ consumer[q].found \subseteq consumer'[q].found
  BY DEF ConsumersKnow
<1> USE DEF IInv
<1>0. /\ Rows(q) \subseteq Rows(q)'
      /\ creating[q] = "answered" => creating'[q] = "answered"
  <2>1. SubqueriesOf(q)' = SubqueriesOf(q) /\ SubqueriesOf(q) \subseteq SubqueryId
    BY LogGrows DEF SubqueriesOf
  <2>. QED
    BY <2>1, RowsStep, AnswersFinal
<1>1. Known(q)
  BY DEF ConsumersKnow
<1>2. ASSUME consumer'[q] = consumer[q]
      PROVE  Known(q)' /\ consumer[q].found \subseteq consumer'[q].found
  BY <1>0, <1>1, <1>2
<1> HIDE DEF Rows
<1>3. CASE GatewayStep
  <2>0. Rows(q)' = Rows(q) /\ consumer \in [Query -> View] /\ creating' = creating
    BY <1>3 DEF GatewayStep, queryVars, Rows, SubqueriesOf, TypeOK, GatewayTypeOK
  <2>1. CASE RespondStored(q)
    <3>1. {s \in SubqueriesOf(q) : createRead[s] = "data"} \subseteq Rows(q)
      BY <2>1, SubqueriesFacts DEF RespondStored, AnswersHold, Rows
    <3>2. consumer'[q] = [id |-> "given", status |-> "PENDING",
                          found |-> {s \in SubqueriesOf(q) : createRead[s] = "data"}]
      BY <2>0, <2>1 DEF RespondStored
    <3>3. consumer[q].found = {} /\ creating[q] = "answered"
      BY <1>1, <2>1 DEF RespondStored
    <3>. QED
      BY <2>0, <3>1, <3>2, <3>3
  <2>2. CASE RespondCached(q)
    <3>1. consumer'[q] = [id |-> "blank", status |-> "COMPLETED", found |-> SubqueriesOf(q)]
      BY <2>0, <2>2 DEF RespondCached
    <3>2. consumer[q].found = {}
      BY <1>1, <2>2 DEF RespondCached
    <3>. QED
      BY <3>1, <3>2
  <2>3. CASE RespondError(q)
    <3>1. consumer[q] \in View /\ consumer'[q] = [consumer[q] EXCEPT !.id = "error"]
      BY <2>0, <2>3 DEF RespondError
    <3>2. consumer'[q].id = "error" /\ consumer'[q].found = consumer[q].found
      BY <3>1 DEF View
    <3>3. consumer[q].found = {}
      BY <1>1, <2>3 DEF RespondError
    <3>. QED
      BY <3>2, <3>3
  <2>4. CASE GetQuery(q)
    <3>1. consumer[q].id = "given" /\ creating[q] = "answered" /\ consumer[q].found \subseteq Rows(q)
      BY <1>1, <2>4 DEF GetQuery
    <3>2. CASE queryTable[q] # "none"
      <4>1. consumer'[q] = [id |-> "given", status |-> queryTable[q], found |-> Rows(q)]
        BY <2>0, <2>4, <3>2 DEF GetQuery, FetchQueryResults, Rows
      <4>. QED
        BY <2>0, <3>1, <4>1
    <3>3. CASE queryTable[q] = "none"
      BY <3>1, <3>3 DEF AnswersHold
    <3>. QED
      BY <3>2, <3>3
  <2>5. CASE ~(RespondStored(q) \/ RespondCached(q) \/ RespondError(q) \/ GetQuery(q))
    <3>1. consumer'[q] = consumer[q]
      BY <1>3, <2>0, <2>5 DEF GatewayStep, GatewayNext, RespondStored, RespondCached, RespondError, GetQuery
    <3>. QED
      BY <1>2, <3>1
  <2>. QED
    BY <2>1, <2>2, <2>3, <2>4, <2>5
<1>4. CASE ~GatewayStep
  BY <1>2, <1>4, OthersAreSilent
<1>. QED
  BY <1>3, <1>4

\* COMPLETED is only shown of what was downloaded.
LEMMA CompletedSeenStep == IInv /\ [Next]_vars => CompletedSeenIsDownloaded'
<1> SUFFICES ASSUME IInv, [Next]_vars PROVE CompletedSeenIsDownloaded'
  OBVIOUS
<1> USE DEF IInv
<1>0. /\ Downloaded \subseteq Downloaded'
      /\ Subqueries' = Subqueries
      /\ \A s \in Subqueries : /\ s \in SubqueryId /\ QueryOf(s) \in Query /\ QueryOf(s)' = QueryOf(s)
                                /\ PathOf(s)' = PathOf(s) /\ s \in SubqueriesOf(QueryOf(s))
  BY LogGrows, DownloadedGrows, SubqueriesFacts DEF Subqueries, PathOf, QueryOf
<1>1. ASSUME NEW s \in Subqueries, consumer'[QueryOf(s)].status = "COMPLETED"
      PROVE  PathOf(s) \in Downloaded
  <2> DEFINE q == QueryOf(s)
  <2>0. q \in Query
    BY <1>0
  <2> HIDE DEF q
  <2>1. CASE consumer'[q].status = consumer[q].status
    BY <1>1, <2>1 DEF CompletedSeenIsDownloaded, q
  <2>2. CASE consumer'[q].status # consumer[q].status
    <3>1. GatewayStep /\ consumer \in [Query -> View]
      BY <2>2, OthersAreSilent DEF TypeOK, GatewayTypeOK
    <3>2. \/ RespondStored(q) \/ RespondCached(q) \/ GetQuery(q)
      BY <2>0, <2>2, <3>1 DEF GatewayStep, GatewayNext, RespondStored, RespondCached, RespondError, GetQuery, View
    <3>3. ~RespondStored(q)
      BY <1>1, <2>0, <3>1 DEF RespondStored, q
    <3>4. CASE RespondCached(q)
      <4>1. createRead[s] = "data"
        BY <3>4 DEF RespondCached, AnswersHold, q
      <4>. QED
        BY <1>0, <4>1 DEF ReadsAreCached, CacheIsDownloaded
    <3>5. CASE GetQuery(q)
      <4>1. consumer'[q].status = queryTable[q] \/ consumer'[q].status = consumer[q].status
        BY <2>0, <3>1, <3>5 DEF GetQuery, FetchQueryResults, View
      <4>. QED
        BY <1>1, <2>2, <4>1 DEF CompletedIsDownloaded, q
    <3>. QED
      BY <3>2, <3>3, <3>4, <3>5
  <2>. QED
    BY <2>1, <2>2
<1>. QED
  BY <1>0, <1>1 DEF CompletedSeenIsDownloaded

\* Before anything is created nothing is stored, cached or in flight.
LEMMA InitIInv == Init => IInv
<1> SUFFICES ASSUME Init PROVE IInv
  OBVIOUS
<1> USE DEF Init, NatsInit, CacheInit, ConnectorInit, QueryInit, GatewayInit
<1>1. TypeOK /\ DownHaveDied
  <2>1. handling \in [SubqueryId -> Handler]
    BY HandlerType
  <2>2. NoView \in View
    BY DEF NoView, View, Status
  <2>. QED
    BY <2>1, <2>2 DEF TypeOK, GatewayTypeOK, NatsTypeOK, CacheTypeOK, ConnectorTypeOK, QueryTypeOK, CreateStep, CacheReads,
       DownHaveDied
<1>2. Touched = {}
  BY DEF Touched, IdleHandler
<1>3. StagesInOrder
  BY SubqueriesFacts DEF StagesInOrder
<1>4. TouchedAreTargets /\ OneFetchEach /\ CacheIsDownloaded
  BY <1>2 DEF TouchedAreTargets, OneFetchEach, CacheIsDownloaded
<1>5. ReadsAreCached
  <2>1. \A s \in SubqueryId : \A t \in SubqueriesOf(QueryOf(s)) : t[2] \in 1 .. MaxSubqueries
    BY SubqueryIdFacts, SubqueriesFacts
  <2>. QED
    BY <2>1 DEF ReadsAreCached, IdleHandler, Unread
<1>6. ResultsAreLogged /\ CompletionHoldsData
  BY DEF ResultsAreLogged, CompletionHoldsData, IdleHandler
<1>7. CompletedIsDownloaded /\ NotifiedIsStored
  BY SubqueriesFacts DEF CompletedIsDownloaded, NotifiedIsStored
<1>8. AnswersHold /\ ConsumersKnow /\ CompletedSeenIsDownloaded
  BY SubqueriesFacts DEF AnswersHold, ConsumersKnow, CompletedSeenIsDownloaded, NoView
<1>. QED
  BY <1>1, <1>3, <1>4, <1>5, <1>6, <1>7, <1>8 DEF IInv

\* Every step keeps it.
LEMMA IInvStep == IInv /\ [Next]_vars => IInv'
BY TypeStep, StagesStep, TouchedStep, OneFetchStep, CacheStep, ReadsStep, LogStep, CompletionStep,
   CompletedStep, NotifiedStep, AnswersStep, ConsumersStep, CompletedSeenStep DEF IInv

\* IInv is an invariant.
THEOREM Invariance == Spec => []IInv
BY InitIInv, IInvStep, PTL DEF Spec

\* A nonempty set of numbers has a least one.
LEMMA LeastNumber ==
    ASSUME NEW T \in SUBSET Nat, T # {}
    PROVE  \E x \in T : \A y \in T : ~(y < x)
<1> DEFINE Less == {ss \in Nat \X Nat : ss[1] < ss[2]}
<1>1. IsWellFoundedOn(Less, Nat)
  BY NatLessThanWellFounded DEF OpToRel
<1> HIDE DEF Less
<1>2. PICK x \in T : \A y \in T : ~(<<y, x>> \in Less)
  BY <1>1, WFMin
<1>3. \A y \in T : y < x => <<y, x>> \in Less
  BY DEF Less
<1>. QED
  BY <1>2, <1>3

\* Deduplication drops no path.
LEMMA TargetOnEveryPath ==
    ASSUME NEW q \in Query, NEW s \in SubqueriesOf(q), createRead[s] = "null"
    PROVE  \E t \in TargetSubqueries(q) : PathOf(t) = PathOf(s)
<1> DEFINE Same == {t \in SubqueriesOf(q) : PathOf(t) = PathOf(s) /\ createRead[t] = "null"}
<1>1. \A t \in Same : t[2] \in Nat
  BY SubqueriesFacts, SubqueryIdFacts
<1>2. PICK i \in {t[2] : t \in Same} : \A j \in {t[2] : t \in Same} : ~(j < i)
  <2>1. {t[2] : t \in Same} \in SUBSET Nat /\ {t[2] : t \in Same} # {}
    BY <1>1
  <2>. QED
    BY <2>1, LeastNumber
<1>3. PICK t \in Same : t[2] = i
  BY <1>2
<1>4. ~\E r \in SubqueriesOf(q) : r[2] < t[2] /\ PathOf(r) = PathOf(t) /\ createRead[r] = "null"
  BY <1>2, <1>3
<1>. QED
  BY <1>3, <1>4 DEF TargetSubqueries

\* The dead stay on record, and the cache only grows.
LEMMA Monotone == [Next]_vars => died \subseteq died' /\ resources \subseteq resources'
<1> SUFFICES ASSUME [Next]_vars PROVE died \subseteq died' /\ resources \subseteq resources'
  OBVIOUS
<1>1. died \subseteq died'
  BY DEF Next, RecordDeaths, vars
<1>2. CASE CacheManagerStep
  BY <1>1, <1>2 DEF CacheManagerStep, CacheNext, UpdateCacheFind, UpdateCacheSave, UpdateCacheDuplicateKey,
       UpdateCacheFails, CacheManagerCrash
<1>3. CASE QueryManagerStep \/ ConnectorStep \/ SchedulerStep \/ RestartStep \/ GatewayStep \/ UNCHANGED vars
  BY <1>1, <1>3 DEF QueryManagerStep, ConnectorStep, SchedulerStep, RestartStep, RestartCacheManager, GatewayStep, GatewayNext, vars, cacheVars
<1>. QED
  BY <1>2, <1>3 DEF Next

\* Who crashes is on record.
LEMMA CrashIsDeath ==
    ASSUME NEW svc \in Services, DownHaveDied, [Next]_vars, Crash(svc)
    PROVE  svc \in died'
BY DEF Crash, DownHaveDied, Next, RecordDeaths, vars

\* Who never died runs.
LEMMA OthersRun ==
    ASSUME IInv, [Next]_vars, died' \subseteq {"query-manager"}
    PROVE  {"cache-manager", "swapi-connector", "request-scheduler"} \subseteq up
BY Monotone, AggregationServices DEF IInv, DownHaveDied

\* Nothing on its way to the cache passes through the query manager.
LEMMA QueryManagerCrashMoves ==
    ASSUME TypeOK, QueryManagerCrash, UNCHANGED <<updating, fetching>>,
           NEW t \in SubqueryId, InPipeline(t)
    PROVE  InPipeline(t)'
<1>1. \A m \in net : m.subject \in {"schedule-fetch", "fetch"} => m.to # "query-manager"
  BY DEF TypeOK, NatsTypeOK, Delivery, Subscribers, Subscriptions
<1>2. \A m \in net : m.to # "query-manager" => m \in net'
  BY DEF QueryManagerCrash, Crash
<1>. QED
  BY <1>1, <1>2 DEF InPipeline

\* Unless a process other than the query manager dies, a subquery on its way to the cache stays on its
\* way until its path is cached or SWAPI answered it with nothing.
LEMMA PipelineStep ==
    ASSUME IInv, [Next]_vars, died' \subseteq {"query-manager"}, NEW t \in SubqueryId, InPipeline(t)
    PROVE  \/ InPipeline(t)'
           \/ PathOf(t) \in resources'
           \/ [id |-> t, result |-> "null"] \in swapiLog'
<1> DEFINE Moved == \/ InPipeline(t)'
                    \/ PathOf(t) \in resources'
                    \/ [id |-> t, result |-> "null"] \in swapiLog'
<1> USE DEF IInv
<1>1. CASE QueryManagerStep
  <2>0. request' = request /\ UNCHANGED <<updating, fetching>>
    BY <1>1 DEF QueryManagerStep, cacheVars, connectorVars, queryVars
  <2>1. ASSUME NEW q \in Query, CreateQuery(q) PROVE Moved
    BY <2>1, <2>0 DEF CreateQuery, InPipeline
  <2>2. ASSUME NEW q \in Query, NEW s \in SubqueriesOf(q), CreateReadCache(s) PROVE Moved
    BY <2>2, <2>0 DEF CreateReadCache, InPipeline
  <2>3. ASSUME NEW q \in Query, CreateReadFails(q) PROVE Moved
    BY <2>3, <2>0 DEF CreateReadFails, InPipeline
  <2>4. ASSUME NEW q \in Query, CreateFromCache(q) PROVE Moved
    BY <2>4, <2>0 DEF CreateFromCache, InPipeline
  <2>5. ASSUME NEW q \in Query, SaveNewQuery(q) PROVE Moved
    BY <2>5, <2>0 DEF SaveNewQuery, InPipeline
  <2>6. ASSUME NEW q \in Query, SaveNewSubqueries(q) PROVE Moved
    BY <2>6, <2>0 DEF SaveNewSubqueries, InPipeline
  <2>7. ASSUME NEW q \in Query, ScheduleFetches(q) PROVE Moved
    BY <2>7, <2>0 DEF ScheduleFetches, InPipeline
  <2>8. ASSUME NEW m \in net, HandleResultLoad(m) PROVE Moved
    <3>1. CASE QueryManagerCrash
      BY <2>0, <3>1, QueryManagerCrashMoves
    <3>2. CASE ~QueryManagerCrash
      BY <2>8, <2>0, <3>2 DEF HandleResultLoad, Arrives, InPipeline
    <3>. QED
      BY <3>1, <3>2
  <2>9. ASSUME NEW s \in Subqueries, NEW r \in SubqueriesOf(QueryOf(s)), HandleResultReadCache(s, r) PROVE Moved
    BY <2>9, <2>0 DEF HandleResultReadCache, InPipeline
  <2>10. ASSUME NEW s \in Subqueries, HandleResultReadFails(s) PROVE Moved
    BY <2>10, <2>0, QueryManagerCrashMoves DEF HandleResultReadFails
  <2>11. ASSUME NEW s \in Subqueries, HandleResultSaveQuery(s) PROVE Moved
    BY <2>11, <2>0 DEF HandleResultSaveQuery, InPipeline
  <2>12. ASSUME NEW s \in Subqueries, HandleResultSaveSubquery(s) PROVE Moved
    BY <2>12, <2>0 DEF HandleResultSaveSubquery, InPipeline
  <2>13. ASSUME NEW s \in Subqueries, NotifyCallback(s) PROVE Moved
    BY <2>13, <2>0 DEF NotifyCallback, InPipeline
  <2>14. ASSUME NEW s \in Subqueries, CallbackResponds(s) PROVE Moved
    BY <2>14, <2>0 DEF CallbackResponds, InPipeline
  <2>15. ASSUME NEW s \in Subqueries, CallbackUnreachable(s) PROVE Moved
    BY <2>15, <2>0, QueryManagerCrashMoves DEF CallbackUnreachable
  <2>16. ASSUME NEW q \in Query, CreateSaveFails(q) PROVE Moved
    BY <2>16, <2>0 DEF CreateSaveFails, InPipeline
  <2>17. ASSUME HandleResultDatabaseFails PROVE Moved
    BY <2>17, <2>0, QueryManagerCrashMoves DEF HandleResultDatabaseFails
  <2>. QED
    BY <1>1, <2>1, <2>2, <2>3, <2>4, <2>5, <2>6, <2>7, <2>8, <2>9, <2>10, <2>11, <2>12, <2>13, <2>14, <2>15, <2>16, <2>17 DEF QueryManagerStep, QueryNext, CreateNext, HandleNext
<1>2. CASE CacheManagerStep
  <2>0. request' = request /\ UNCHANGED <<fetching>>
    BY <1>2 DEF CacheManagerStep, cacheVars, connectorVars, queryVars
  <2>1. ASSUME NEW m \in net, UpdateCacheFind(m) PROVE Moved
    <3>1. net' = net \ {m} /\ updating \subseteq updating'
      BY <2>1 DEF UpdateCacheFind
    <3>2. CASE m.id = t /\ m.result = "data"
      <4>1. [id |-> m.id, existing |-> PathOf(m.id) \in resources] \in updating'
        BY <2>1, <3>2, Zenon DEF UpdateCacheFind
      <4>2. \E u \in updating' : u.id = t
        BY <3>2, <4>1
      <4>. QED
        BY <4>2 DEF InPipeline
    <3>3. CASE ~(m.id = t /\ m.result = "data")
      <4>1. m.to = "cache-manager" /\ m.subject = "receive"
        BY <2>1 DEF UpdateCacheFind, Arrives
      <4>2. ASSUME NEW n \in net, n.id = t,
                   n.subject \in {"schedule-fetch", "fetch"} \/ (n.to = "cache-manager" /\ n.result = "data")
            PROVE  n \in net'
        BY <3>1, <3>3, <4>1, <4>2
      <4>. QED
        BY <2>0, <3>1, <4>2 DEF InPipeline
    <3>. QED
      BY <3>2, <3>3
  <2>2. ASSUME NEW u \in updating, UpdateCacheSave(u) PROVE Moved
    BY <2>2, <2>0 DEF UpdateCacheSave, InPipeline
  <2>3. ASSUME NEW u \in updating, UpdateCacheDuplicateKey(u) PROVE Moved
    BY <2>3, <2>0, CrashIsDeath, AggregationServices DEF UpdateCacheDuplicateKey, CacheManagerCrash
  <2>4. ASSUME UpdateCacheFails PROVE Moved
    BY <2>4, <2>0, CrashIsDeath, AggregationServices DEF UpdateCacheFails, CacheManagerCrash
  <2>. QED
    BY <1>2, <2>1, <2>2, <2>3, <2>4 DEF CacheManagerStep, CacheNext
<1>3. CASE ConnectorStep
  <2>0. request' = request /\ UNCHANGED <<resources, updating>>
    BY <1>3 DEF ConnectorStep, cacheVars, connectorVars, queryVars
  <2>1. ASSUME NEW m \in net, FetchDataCached(m) PROVE Moved
    <3>1. PathOf(m.id) \in resources
      BY <2>1 DEF FetchDataCached, Arrives, CacheRead
    <3>2. CASE m.id = t
      BY <2>1, <2>0, <3>1, <3>2 DEF FetchDataCached
    <3>3. CASE m.id # t
      BY <2>1, <2>0, <3>3 DEF FetchDataCached, InPipeline, connectorVars
    <3>. QED
      BY <3>2, <3>3
  <2>2. ASSUME NEW m \in net, FetchDataMissing(m) PROVE Moved
    <3>1. m.subject = "fetch"
      BY <2>2 DEF FetchDataMissing, Arrives
    <3>2. CASE m.id = t
      BY <2>2, <2>0, <3>1, <3>2 DEF FetchDataMissing, InPipeline
    <3>3. CASE m.id # t
      BY <2>2, <2>0, <3>3 DEF FetchDataMissing, InPipeline
    <3>. QED
      BY <3>2, <3>3
  <2>3. ASSUME NEW m \in net, FetchDataCacheDown(m) PROVE Moved
    BY <2>3, <2>0, CrashIsDeath, AggregationServices DEF FetchDataCacheDown, SwapiConnectorCrash
  <2>4. ASSUME NEW s \in fetching, NEW r \in SwapiResults, SwapiAnswers(s, r) PROVE Moved
    <3>1. CASE s = t /\ r = "data"
      <4>1. "cache-manager" \in Subscribers("receive") \cap up
        <5>1. "cache-manager" \in up
          BY OthersRun
        <5>. QED
          BY <5>1, AggregationServices DEF Subscribers, Subscriptions
      <4>2. [to |-> "cache-manager", subject |-> "receive", id |-> t, result |-> "data"] \in net'
        BY <2>4, <3>1, <4>1 DEF SwapiAnswers, Emitted
      <4>. QED
        BY <4>2 DEF InPipeline
    <3>2. CASE s = t /\ r = "null"
      BY <2>4, <3>2 DEF SwapiAnswers
    <3>3. CASE s # t
      BY <2>4, <2>0, <3>3 DEF SwapiAnswers, InPipeline
    <3>. QED
      BY <3>1, <3>2, <3>3, SwapiAssumption DEF Result
  <2>5. ASSUME NEW s \in fetching, SwapiFails(s) PROVE Moved
    BY <2>5, <2>0, CrashIsDeath, AggregationServices DEF SwapiFails, SwapiConnectorCrash
  <2>. QED
    BY <1>3, <2>1, <2>2, <2>3, <2>4, <2>5 DEF ConnectorStep, ConnectorNext
<1>4. CASE SchedulerStep
  <2>0. request' = request /\ UNCHANGED <<updating, fetching>>
    BY <1>4 DEF SchedulerStep, cacheVars, connectorVars, queryVars
  <2>1. ASSUME NEW m \in net, Dispatch(m) PROVE Moved
    <3>1. CASE m.id = t
      <4>1. "swapi-connector" \in Subscribers("fetch") \cap up
        <5>1. "swapi-connector" \in up
          BY OthersRun
        <5>. QED
          BY <5>1, AggregationServices DEF Subscribers, Subscriptions
      <4>2. [to |-> "swapi-connector", subject |-> "fetch", id |-> t, result |-> m.result] \in net'
        BY <2>1, <3>1, <4>1 DEF Dispatch, Emitted
      <4>. QED
        BY <4>2 DEF InPipeline
    <3>2. CASE m.id # t
      BY <2>1, <2>0, <3>2 DEF Dispatch, InPipeline
    <3>. QED
      BY <3>1, <3>2
  <2>. QED
    BY <1>4, <2>1 DEF SchedulerStep
<1>5. CASE GatewayStep \/ UNCHANGED vars
  BY <1>5 DEF GatewayStep, GatewayNext, vars, cacheVars, connectorVars, InPipeline
<1>6. CASE RestartStep
  <2>1. ~RestartCacheManager
    BY OthersRun DEF RestartCacheManager, Start
  <2>. QED
    BY <1>6, <2>1 DEF RestartStep, InPipeline, cacheVars, connectorVars
<1>. QED
  BY <1>1, <1>2, <1>3, <1>4, <1>5, <1>6 DEF Next

\* Scheduling accounts for every path of the query.
LEMMA ScheduleStep ==
    ASSUME IInv, "request-scheduler" \in up, NEW q \in Query, ScheduleFetches(q), request' = request, resources' = resources,
           NEW s \in SubqueriesOf(q)
    PROVE  \/ PathOf(s) \in resources'
           \/ \E t \in SubqueriesOf(q) : PathOf(t) = PathOf(s) /\ InPipeline(t)'
<1> USE DEF IInv
<1>1. s \in Subqueries /\ s \in SubqueryId /\ QueryOf(s) = q
  BY SubqueriesFacts
<1>2. createRead[s] \in Result
  BY <1>1 DEF ScheduleFetches, StagesInOrder, TypeOK, QueryTypeOK, CacheReads
<1>3. CASE createRead[s] = "data"
  BY <1>1, <1>3 DEF ReadsAreCached
<1>4. CASE createRead[s] = "null"
  <2>1. PICK t \in TargetSubqueries(q) : PathOf(t) = PathOf(s)
    BY <1>4, TargetOnEveryPath
  <2>2. "request-scheduler" \in Subscribers("schedule-fetch") \cap up
    BY AggregationServices DEF Subscribers, Subscriptions
  <2>3. [to |-> "request-scheduler", subject |-> "schedule-fetch", id |-> t, result |-> "null"] \in net'
    BY <2>2 DEF ScheduleFetches, Emitted
  <2>4. InPipeline(t)'
    BY <2>3 DEF InPipeline
  <2>. QED
    BY <2>1, <2>4 DEF TargetSubqueries
<1>. QED
  BY <1>2, <1>3, <1>4 DEF Result

\* A step that answers a query accounts for its paths, and every other step keeps
\* them accounted for while only the query manager dies.
LEMMA NoFetchLostStep == IInv /\ NoFetchLost /\ [Next]_vars => NoFetchLost'
<1> SUFFICES ASSUME IInv, NoFetchLost, [Next]_vars, died' \subseteq {"query-manager"},
                    NEW q \in Query, creating'[q] = "answered", NEW s \in SubqueriesOf(q)
             PROVE  \/ PathOf(s) \in resources'
                    \/ \E t \in SubqueriesOf(q) :
                        /\ PathOf(t) = PathOf(s)
                        /\ InPipeline(t)' \/ [id |-> t, result |-> "null"] \in swapiLog'
  <2>1. [Next]_vars => request' = request
    BY LogGrows
  <2>2. [Next]_vars =>
            /\ \A q \in Query : SubqueriesOf(q)' = SubqueriesOf(q)
            /\ \A s \in SubqueryId : PathOf(s)' = PathOf(s)
    BY <2>1 DEF SubqueriesOf, PathOf
  <2>3. \A q \in Query : SubqueriesOf(q) \subseteq SubqueryId
    BY DEF SubqueriesOf
  <2>. QED
    BY <2>2, <2>3 DEF NoFetchLost
<1>1. died \subseteq {"query-manager"} /\ "request-scheduler" \in up
  BY Monotone, OthersRun
<1>2. CASE creating[q] = "answered"
  <2>1. CASE PathOf(s) \in resources
    BY <2>1, Monotone
  <2>2. ASSUME NEW t \in SubqueriesOf(q), PathOf(t) = PathOf(s),
               InPipeline(t) \/ [id |-> t, result |-> "null"] \in swapiLog
        PROVE  \/ PathOf(s) \in resources'
               \/ InPipeline(t)' \/ [id |-> t, result |-> "null"] \in swapiLog'
    <3>1. t \in SubqueryId
      BY DEF SubqueriesOf
    <3>. QED
      BY <2>2, <3>1, PipelineStep, LogGrows
  <2>. QED
    BY <1>1, <1>2, <2>1, <2>2 DEF NoFetchLost
<1>3. CASE creating[q] # "answered"
  <2>1. ScheduleFetches(q) /\ request' = request /\ resources' = resources
    <3>1. creating'[q] # creating[q] /\ creating \in [Query -> CreateStep]
      BY <1>3 DEF IInv, TypeOK, QueryTypeOK
    <3>2. QueryManagerStep
      BY <1>3, <3>1, RestartFacts DEF IInv, Next, CacheManagerStep, ConnectorStep, SchedulerStep, GatewayStep, GatewayNext, vars, queryVars
    <3>3. ~QueryManagerCrash
      BY <1>3 DEF QueryManagerCrash
    <3>4. \E r \in Query : CreateNext(r)
      BY <3>1, <3>2, <3>3 DEF QueryManagerStep, QueryNext, HandleNext, HandleResultLoad, HandleResultReadCache,
           HandleResultReadFails, HandleResultDatabaseFails, HandleResultSaveQuery, HandleResultSaveSubquery, NotifyCallback,
           CallbackResponds, CallbackUnreachable
    <3>5. ScheduleFetches(q)
      BY <1>3, <3>1, <3>4 DEF CreateNext, CreateQuery, CreateReadCache, CreateReadFails, CreateSaveFails, CreateFromCache,
           SaveNewQuery, SaveNewSubqueries, ScheduleFetches
    <3>. QED
      BY <3>2, <3>5 DEF QueryManagerStep, cacheVars
  <2>. QED
    BY <1>1, <2>1, ScheduleStep
<1>. QED
  BY <1>2, <1>3

-----------------------------------------------------------------------------
(* The properties *)

\* Every variable keeps its type; in particular no row is ever filled with a cache
\* read that was not answered.
THEOREM TypeCorrectness == Spec => []TypeOK
BY Invariance, PTL DEF IInv

\* A query is COMPLETED only when SWAPI served all its resources.
THEOREM CompletedDownloaded == Spec => []CompletedIsDownloaded
BY Invariance, PTL DEF IInv

\* Who is notified finds the result stored.
THEOREM NotifiedStored == Spec => []NotifiedIsStored
BY Invariance, PTL DEF IInv

\* Results never overtake the rows they belong to, so the two findOneOrFail calls
\* of handleSubqueryResultAsync find them.
THEOREM RowsFirst == Spec => []RowsPrecedeFetches
<1>1. IInv => RowsPrecedeFetches
  <2> SUFFICES ASSUME IInv, NEW s \in {m.id : m \in net} \cup fetching
               PROVE  queryTable[QueryOf(s)] # "none" /\ subqueryTable[s] # "none"
    BY DEF RowsPrecedeFetches
  <2>1. s \in Touched
    BY DEF Touched
  <2>2. s \in SubqueryId
    BY <2>1, TouchedType DEF IInv
  <2>3. creating[QueryOf(s)] = "answered" /\ s \in SubqueriesOf(QueryOf(s))
    BY <2>1 DEF IInv, TouchedAreTargets, TargetSubqueries
  <2>4. s \in Subqueries
    BY <2>2, <2>3, SubqueryIdFacts, SubqueriesFacts
  <2>. QED
    BY <2>3, <2>4 DEF IInv, StagesInOrder
<1>. QED
  BY <1>1, Invariance, PTL

\* Every fetch is of the first subquery of its query and path that found nothing cached.
LEMMA TargetsAreSingle == IInv => FetchedOncePerQuery
<1> SUFFICES ASSUME IInv, NEW s \in Fetched, NEW t \in Fetched
             PROVE  /\ createRead[s] = "null"
                    /\ QueryOf(s) = QueryOf(t) /\ PathOf(s) = PathOf(t) => s = t
  BY DEF FetchedOncePerQuery, IInv
<1>1. s \in Touched /\ t \in Touched
  BY DEF Fetched, Touched
<1>2. s \in TargetSubqueries(QueryOf(s)) /\ t \in TargetSubqueries(QueryOf(t))
  BY <1>1 DEF IInv, TouchedAreTargets
<1>3. s \in SubqueryId /\ t \in SubqueryId
  BY <1>1, TouchedType DEF IInv
<1>4. s[2] \in Nat /\ t[2] \in Nat /\ s = <<QueryOf(s), s[2]>> /\ t = <<QueryOf(t), t[2]>>
  BY <1>3, SubqueryIdFacts
<1>5. QueryOf(s) = QueryOf(t) /\ PathOf(s) = PathOf(t) => ~(s[2] < t[2]) /\ ~(t[2] < s[2])
  BY <1>2 DEF TargetSubqueries
<1>. QED
  BY <1>2, <1>4, <1>5 DEF TargetSubqueries

\* No resource is fetched twice for one query.
THEOREM FetchedOnce == Spec => []FetchedOncePerQuery
BY TargetsAreSingle, Invariance, PTL

\* No path of an answered query is forgotten while no process but the query manager has died,
\* however often that one died and was started again.
THEOREM FetchesKept == Spec => []NoFetchLost
<1>1. Init => NoFetchLost
  BY DEF Init, QueryInit, NoFetchLost
<1>2. IInv /\ NoFetchLost /\ [Next]_vars => NoFetchLost'
  BY NoFetchLostStep
<1>. QED
  BY <1>1, <1>2, Invariance, PTL DEF Spec

\* No step of any handler takes a stored result away.
THEOREM RowsKeepResults == Spec => ResultsNeverLost
<1>1. IInv /\ [Next]_vars => [\A s \in SubqueryId : subqueryTable[s] = "data" => subqueryTable'[s] = "data"]_subqueryTable
  BY RowsStep
<1>. QED
  BY <1>1, Invariance, PTL DEF Spec, ResultsNeverLost

\* An id is given out for rows that are stored.
LEMMA GivenAreStored == IInv => GivenIdsAreKnown
<1> SUFFICES ASSUME IInv, NEW q \in Query
             PROVE  /\ consumer[q].id # "unknown"
                    /\ consumer[q].id = "given" =>
                          /\ FetchQueryResults(q).status # "none"
                          /\ DOMAIN FetchQueryResults(q).results = SubqueriesOf(q)
  BY DEF GivenIdsAreKnown
<1>1. consumer[q].id = "given" => queryTable[q] # "none" /\ \A s \in SubqueriesOf(q) : subqueryTable[s] # "none"
  BY SubqueriesFacts DEF IInv, ConsumersKnow, AnswersHold, StagesInOrder
<1>. QED
  BY <1>1 DEF IInv, ConsumersKnow, FetchQueryResults

\* An id that was given out finds its query and every subquery of it.
THEOREM IdsKnown == Spec => []GivenIdsAreKnown
BY GivenAreStored, Invariance, PTL

\* COMPLETED is only shown when SWAPI served everything.
THEOREM CompletedSeen == Spec => []CompletedSeenIsDownloaded
BY Invariance, PTL DEF IInv

\* A result once shown is shown for ever.
THEOREM ResultsStay == Spec => SeenResultsStay
<1>1. IInv /\ [Next]_vars => [\A q \in Query : consumer[q].found \subseteq consumer'[q].found]_consumer
  BY ConsumersStep
<1>. QED
  BY <1>1, Invariance, PTL DEF Spec, SeenResultsStay

=============================================================================
