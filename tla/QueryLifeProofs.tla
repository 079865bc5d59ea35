--------------------------- MODULE QueryLifeProofs ---------------------------
(***************************************************************************)
(* Aggregation implements QueryLife, for any queries, paths and payloads:  *)
(* every step of the engine is a step of a query's life, or a stutter.     *)
(***************************************************************************)
EXTENDS AggregationProofs

Step == [Life!LifeNext]_(Life!lifeVars)

Found == {s \in SubqueryId : subqueryTable[s] = "data"}

\* What the payloads say does not change.
LEMMA PathsStay ==
    ASSUME [Next]_vars
    PROVE  /\ Subqueries' = Subqueries
           /\ [s \in Subqueries |-> PathOf(s)]' = [s \in Subqueries |-> PathOf(s)]
BY LogGrows DEF Subqueries, PathOf

\* A step that neither logs, answers, judges nor records is a stutter.
LEMMA Silent ==
    ASSUME [Next]_vars, swapiLog' = swapiLog, UNCHANGED <<queryTable, subqueryTable>>,
           \A q \in Query : AnswerOf(q)' = AnswerOf(q)
    PROVE  Step
<1>1. Downloaded' = Downloaded
  BY LogGrows DEF Downloaded, PathOf
<1>2. [q \in Query |-> AnswerOf(q)]' = [q \in Query |-> AnswerOf(q)]
  OBVIOUS
<1>. QED
  BY <1>1, <1>2, PathsStay DEF Step, Life!lifeVars

\* Only what was served of a query makes AllServed.
LEMMA AllServedFacts ==
    ASSUME NEW q \in Query, \A s \in SubqueriesOf(q) : PathOf(s) \in Downloaded
    PROVE  Life!AllServed(q)
BY SubqueriesFacts DEF Life!AllServed

\* Recording results of subqueries is a step.
LEMMA RecordIsLife ==
    ASSUME [Next]_vars, swapiLog' = swapiLog, queryTable' = queryTable,
           \A q \in Query : AnswerOf(q)' = AnswerOf(q),
           NEW q \in Query, queryTable[q] # "none",
           NEW results,
           \A s \in results : s \in Subqueries /\ QueryOf(s) = q /\ PathOf(s) \in Downloaded,
           Found' = Found \cup results
    PROVE  Step
<1>1. results \in SUBSET DOMAIN [s \in Subqueries |-> PathOf(s)]
  OBVIOUS
<1>2. Downloaded' = Downloaded
  BY LogGrows DEF Downloaded, PathOf
<1>3. [r \in Query |-> AnswerOf(r)]' = [r \in Query |-> AnswerOf(r)]
  OBVIOUS
<1>4. Life!Record(q, results)
  BY <1>2, <1>3, PathsStay DEF Life!Record, Found
<1>. QED
  BY <1>1, <1>4 DEF Step, Life!LifeNext

\* A step of the creation of a query.
LEMMA CreateIsLife ==
    ASSUME IInv, QueryManagerStep, [Next]_vars, NEW q \in Query, CreateNext(q)
    PROVE  Step
<1> USE DEF IInv, TypeOK, QueryTypeOK
<1>0. swapiLog' = swapiLog /\ request' = request /\ Downloaded' = Downloaded
  BY DEF QueryManagerStep, connectorVars, Downloaded, PathOf
<1>1. ASSUME NEW how \in {"id", "results", "error"}, UNCHANGED <<queryTable, subqueryTable>>,
             AnswerOf(q) = "none", AnswerOf(q)' = how,
             \A r \in Query \ {q} : AnswerOf(r)' = AnswerOf(r),
             how = "id" => queryTable[q] # "none", how = "results" => Life!AllServed(q)
      PROVE  Step
  <2>1. [r \in Query |-> AnswerOf(r)]' = [[r \in Query |-> AnswerOf(r)] EXCEPT ![q] = how]
    BY <1>1
  <2>2. Life!Answer(q, how)
    BY <1>0, <1>1, <2>1, PathsStay DEF Life!Answer
  <2>. QED
    BY <1>1, <2>2 DEF Step, Life!LifeNext
<1>2. CASE CreateQuery(q) \/ \E s \in SubqueriesOf(q) : CreateReadCache(s)
  BY <1>0, <1>2, Silent DEF CreateQuery, CreateReadCache, AnswerOf
<1>3. CASE CreateReadFails(q) \/ CreateSaveFails(q)
  BY <1>1, <1>3 DEF CreateReadFails, CreateSaveFails, AnswerOf
<1>4. CASE CreateFromCache(q)
  <2>1. \A s \in SubqueriesOf(q) : PathOf(s) \in Downloaded
    BY <1>4, SubqueriesFacts DEF CreateFromCache, ReadsAreCached, CacheIsDownloaded
  <2>2. Life!AllServed(q)
    BY <2>1, AllServedFacts
  <2>. QED
    BY <1>1, <1>4, <2>2 DEF CreateFromCache, AnswerOf
<1>5. CASE SaveNewQuery(q)
  <2>1. [r \in Query |-> AnswerOf(r)]' = [r \in Query |-> AnswerOf(r)]
    BY <1>5 DEF SaveNewQuery, AnswerOf
  <2>2. Life!Judge(q, "PENDING")
    BY <1>0, <1>5, <2>1, PathsStay DEF SaveNewQuery, Life!Judge
  <2>. QED
    BY <2>2 DEF Step, Life!LifeNext
<1>6. CASE SaveNewSubqueries(q)
  <2>1. \A r \in Query : AnswerOf(r)' = AnswerOf(r)
    BY <1>6 DEF SaveNewSubqueries, AnswerOf
  <2>2. \A s \in SubqueriesOf(q) : s \in Subqueries /\ s \in SubqueryId /\ QueryOf(s) = q /\ subqueryTable[s] = "none"
    BY <1>6, SubqueriesFacts DEF SaveNewSubqueries, StagesInOrder
  <2>3. Found' = Found \cup {s \in SubqueriesOf(q) : createRead[s] = "data"}
    BY <1>6, <2>2 DEF SaveNewSubqueries, Found
  <2>4. \A s \in {t \in SubqueriesOf(q) : createRead[t] = "data"} :
            s \in Subqueries /\ QueryOf(s) = q /\ PathOf(s) \in Downloaded
    BY <2>2 DEF ReadsAreCached, CacheIsDownloaded
  <2>5. queryTable[q] # "none" /\ queryTable' = queryTable
    BY <1>6 DEF SaveNewSubqueries, AnswersHold
  <2>. QED
    BY <1>0, <2>1, <2>3, <2>4, <2>5, RecordIsLife
<1>7. CASE ScheduleFetches(q)
  BY <1>1, <1>7 DEF ScheduleFetches, AnswerOf, AnswersHold
<1>. QED
  BY <1>2, <1>3, <1>4, <1>5, <1>6, <1>7 DEF CreateNext

\* A step of the handling of a result.
LEMMA HandleIsLife ==
    ASSUME IInv, QueryManagerStep, [Next]_vars, NEW s \in Subqueries, HandleNext(s)
    PROVE  Step
<1> USE DEF IInv, TypeOK, QueryTypeOK
<1>0. /\ swapiLog' = swapiLog /\ request' = request /\ Downloaded' = Downloaded
      /\ s \in SubqueryId /\ QueryOf(s) \in Query
  BY SubqueriesFacts DEF QueryManagerStep, connectorVars, Downloaded, PathOf
<1>1. CASE HandleResultSaveQuery(s)
  <2>1. [r \in Query |-> AnswerOf(r)]' = [r \in Query |-> AnswerOf(r)]
    BY <1>1 DEF HandleResultSaveQuery, AnswerOf
  <2>2. PICK verdict \in Status :
            /\ verdict = "COMPLETED" => HaveAllResults(s)
            /\ queryTable' = [queryTable EXCEPT ![QueryOf(s)] = verdict]
    BY <1>1 DEF HandleResultSaveQuery, Status
  <2>3. ASSUME HaveAllResults(s) PROVE Life!AllServed(QueryOf(s))
    <3>1. \A t \in SubqueriesOf(QueryOf(s)) : PathOf(t) \in Downloaded
      BY <1>1, <2>3, HaveAllIsDownloaded DEF HandleResultSaveQuery
    <3>. QED
      BY <1>0, <3>1, AllServedFacts
  <2>4. Life!Judge(QueryOf(s), verdict)
    BY <1>0, <1>1, <2>1, <2>2, <2>3, PathsStay DEF HandleResultSaveQuery, Life!Judge
  <2>. QED
    BY <1>0, <2>4 DEF Step, Life!LifeNext, Status
<1>2. CASE HandleResultSaveSubquery(s)
  <2>1. \A r \in Query : AnswerOf(r)' = AnswerOf(r)
    BY <1>2 DEF HandleResultSaveSubquery, AnswerOf
  <2>2. /\ queryTable' = queryTable
        /\ subqueryTable' = [subqueryTable EXCEPT ![s] = handling[s].result]
    BY <1>2 DEF HandleResultSaveSubquery
  <2>3. queryTable[QueryOf(s)] # "none"
    BY <1>0, <1>2 DEF HandleResultSaveSubquery, TouchedAreTargets, Touched, AnswersHold
  <2>4. CASE handling[s].result = "data"
    <3>1. Found' = Found \cup {s}
      BY <1>0, <2>2, <2>4 DEF Found
    <3>2. PathOf(s) \in Downloaded
      BY <1>0, <1>2, <2>4, LoggedIsDownloaded DEF HandleResultSaveSubquery, ResultsAreLogged
    <3>3. PICK results : results = {s}
      OBVIOUS
    <3>4. /\ Found' = Found \cup results
          /\ \A t \in results : t \in Subqueries /\ QueryOf(t) = QueryOf(s) /\ PathOf(t) \in Downloaded
      BY <3>1, <3>2, <3>3
    <3>5. swapiLog' = swapiLog /\ queryTable' = queryTable
      BY <1>0, <2>2
    <3>. QED
      BY <1>0, <2>1, <2>3, <3>4, <3>5, RecordIsLife
  <2>5. CASE handling[s].result # "data"
    <3>1. subqueryTable[s] # "data"
      BY <1>0, <2>2, <2>5, RowsStep
    <3>2. Found' = Found
      BY <1>0, <2>2, <2>5, <3>1 DEF Found
    <3>. QED
      BY <1>0, <2>1, <2>2, <3>2, PathsStay DEF Step, Life!lifeVars, Found
  <2>. QED
    BY <2>4, <2>5
<1>3. CASE QueryManagerCrash
  BY <1>0, <1>3, Silent DEF QueryManagerCrash, AnswerOf
<1>4. CASE UNCHANGED <<creating, queryTable, subqueryTable>>
  BY <1>0, <1>4, Silent DEF AnswerOf
<1>. QED
  BY <1>1, <1>2, <1>3, <1>4 DEF HandleNext, HandleResultReadCache, HandleResultReadFails, NotifyCallback,
       CallbackResponds, CallbackUnreachable

\* An answer of SWAPI serves a path, or nothing.
LEMMA AnswerIsLife ==
    ASSUME IInv, ConnectorStep, [Next]_vars,
           NEW s \in fetching, NEW r \in SwapiResults, SwapiAnswers(s, r)
    PROVE  Step
<1>1. UNCHANGED <<request, queryTable, subqueryTable, creating>>
  BY DEF ConnectorStep, queryVars
<1>2. s \in Subqueries /\ PathOf(s) \in Path
  <2>1. s \in SubqueryId /\ request \in Workloads
    BY DEF IInv, TypeOK, ConnectorTypeOK
  <2>2. s \in TargetSubqueries(QueryOf(s))
    BY DEF IInv, TouchedAreTargets, Touched
  <2>. QED
    BY <2>1, <2>2, SubqueryIdFacts, SubqueriesFacts, PathOfType DEF TargetSubqueries
<1>3. [q \in Query |-> AnswerOf(q)]' = [q \in Query |-> AnswerOf(q)]
  BY <1>1 DEF AnswerOf
<1>4. CASE r = "data"
  <2>1. Downloaded' = Downloaded \cup {PathOf(s)}
    <3>1. swapiLog' = swapiLog \cup {[id |-> s, result |-> "data"]}
      BY <1>4 DEF SwapiAnswers
    <3>2. \A l \in swapiLog : PathOf(l.id)' = PathOf(l.id)
      BY <1>1 DEF PathOf
    <3>3. PathOf(s)' = PathOf(s)
      BY <1>1 DEF PathOf
    <3>4. ASSUME NEW p \in Downloaded' PROVE p \in Downloaded \cup {PathOf(s)}
      <4>1. PICK l \in swapiLog' : l.result = "data" /\ p = PathOf(l.id)'
        BY <3>4 DEF Downloaded
      <4>. QED
        BY <3>1, <3>2, <3>3, <4>1 DEF Downloaded
    <3>5. PathOf(s)' \in Downloaded'
      <4> DEFINE answered == [id |-> s, result |-> "data"]
      <4>1. answered \in swapiLog' /\ answered.id = s /\ answered.result = "data"
        BY <3>1
      <4> HIDE DEF answered
      <4>. QED
        BY <4>1 DEF Downloaded
    <3>6. Downloaded \subseteq Downloaded'
      BY <1>1, <3>1, DownloadedGrows
    <3>. QED
      BY <3>3, <3>4, <3>5, <3>6
  <2>2. Life!Serve(PathOf(s))
    BY <1>1, <1>3, <2>1, PathsStay DEF Life!Serve
  <2>. QED
    BY <1>2, <2>2 DEF Step, Life!LifeNext
<1>5. CASE r # "data"
  <2>1. Downloaded' = Downloaded
    BY <1>1, <1>5 DEF SwapiAnswers, Downloaded, PathOf
  <2>. QED
    BY <1>1, <1>3, <2>1, PathsStay DEF Step, Life!lifeVars
<1>. QED
  BY <1>4, <1>5

\* Every step of the engine.
LEMMA StepIsLife == IInv /\ [Next]_vars => Step
<1> SUFFICES ASSUME IInv, [Next]_vars PROVE Step
  OBVIOUS
<1>1. CASE QueryManagerStep
  <2>0. swapiLog' = swapiLog
    BY <1>1 DEF QueryManagerStep, connectorVars
  <2>1. ASSUME NEW m \in net, HandleResultLoad(m) PROVE Step
    BY <2>0, <2>1, Silent DEF HandleResultLoad, QueryManagerCrash, AnswerOf
  <2>2. ASSUME HandleResultDatabaseFails PROVE Step
    BY <2>0, <2>2, Silent DEF HandleResultDatabaseFails, QueryManagerCrash, AnswerOf
  <2>. QED
    BY <1>1, <2>1, <2>2, CreateIsLife, HandleIsLife DEF QueryManagerStep, QueryNext
<1>2. CASE ConnectorStep
  <2>0. UNCHANGED <<queryTable, subqueryTable, creating>>
    BY <1>2 DEF ConnectorStep, queryVars
  <2>1. ASSUME swapiLog' = swapiLog PROVE Step
    BY <2>0, <2>1, Silent DEF AnswerOf
  <2>. QED
    BY <1>2, <2>1, AnswerIsLife DEF ConnectorStep, ConnectorNext, FetchDataCached, FetchDataMissing,
         FetchDataCacheDown, SwapiFails, SwapiConnectorCrash, connectorVars
<1>3. CASE CacheManagerStep \/ SchedulerStep \/ GatewayStep \/ UNCHANGED vars
  BY <1>3, Silent DEF CacheManagerStep, SchedulerStep, GatewayStep, vars, queryVars, connectorVars, AnswerOf
<1>4. CASE RestartStep
  BY <1>4, RestartFacts, Silent DEF IInv, TypeOK, QueryTypeOK, AnswerOf
<1>. QED
  BY <1>1, <1>2, <1>3, <1>4 DEF Next

\* Handlers that overlap, share a cache, fail or are restarted never take back an
\* answer or a result of a query, and never complete it on anything SWAPI did not serve.
THEOREM EngineKeepsLife == Spec => LifeKept
<1>1. Init => Life!LifeInit
  BY DEF Init, ConnectorInit, QueryInit, Life!LifeInit, Downloaded, AnswerOf
<1>2. IInv /\ [Next]_vars => [Life!LifeNext]_(Life!lifeVars)
  BY StepIsLife DEF Step
<1>. QED
  BY <1>1, <1>2, Invariance, PTL DEF Spec, LifeKept, Life!LifeSpec

=============================================================================
