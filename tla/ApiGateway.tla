----------------------------- MODULE ApiGateway ------------------------------
(***************************************************************************)
(* The API gateway, seen by the consumer of each query: it relays a POST   *)
(* as QUERY_CREATE and a GET as QUERY_READ, and turns the reply, or its    *)
(* absence, into an HTTP response.  It keeps no state: what is modelled    *)
(* is the last response each consumer got.  A POST the query manager is    *)
(* not there for, or a GET it cannot answer, is refused and changes        *)
(* nothing; a reply that never comes is awaited for ever.                  *)
(***************************************************************************)
EXTENDS QueryManager

CONSTANT Observed      \* the queries whose consumer is followed

ASSUME ObservedAssumption == Observed \subseteq Query

VARIABLE consumer      \* the last response to the consumer of each query

\* id: what the response identified the query by.  found: the subqueries it had a
\* result for.
View == [id : {"none", "given", "blank", "error", "unknown"}, status : Status,
         found : SUBSET SubqueryId]

NoView == [id |-> "none", status |-> "PENDING", found |-> {}]

GatewayTypeOK == consumer \in [Query -> View]

GatewayInit == consumer = [q \in Query |-> NoView]

\* The reply to a QUERY_CREATE that stored the query, relayed: what the cache did
\* not hold is still missing in it.
RespondStored(q) ==
    /\ consumer[q].id = "none"
    /\ creating[q] = "answered"
    /\ consumer' = [consumer EXCEPT ![q] =
            [id |-> "given", status |-> "PENDING",
             found |-> {s \in SubqueriesOf(q) : createRead[s] = "data"}]]

\* Mutant of RespondCached: the id that was minted is not blanked.
RespondCachedWithId(q) ==
    /\ consumer[q].id = "none"
    /\ creating[q] = "cached"
    /\ consumer' = [consumer EXCEPT ![q] =
            [id |-> "given", status |-> "COMPLETED", found |-> SubqueriesOf(q)]]

\* The reply to one that was answered from the cache: nothing to poll for.
RespondCached(q) ==
    /\ consumer[q].id = "none"
    /\ creating[q] = "cached"
    /\ consumer' = [consumer EXCEPT ![q] =
            [id |-> "blank", status |-> "COMPLETED", found |-> SubqueriesOf(q)]]

\* The error reply becomes an RpcException, and that a status 500.
RespondError(q) ==
    /\ consumer[q].id = "none"
    /\ creating[q] = "failed"
    /\ consumer' = [consumer EXCEPT ![q].id = "error"]

\* GET /query/:id with the id that was given; an id without a row is a 404.
GetQuery(q) ==
    /\ "query-manager" \in up
    /\ consumer[q].id = "given"
    /\ consumer' = [consumer EXCEPT ![q] =
            IF FetchQueryResults(q).status = "none"
            THEN [@ EXCEPT !.id = "unknown"]
            ELSE [id |-> "given", status |-> FetchQueryResults(q).status,
                  found |-> {s \in SubqueriesOf(q) : subqueryTable[s] = "data"}]]

GatewayNext ==
    /\ \E q \in Observed : \/ RespondStored(q) \/ RespondCached(q) \/ RespondError(q)
                           \/ GetQuery(q)
    /\ UNCHANGED <<net, up>>

-----------------------------------------------------------------------------
(* What consumers count on *)

\* An id that a consumer was given is never answered "Unknown query ID", and a poll
\* lists every subquery, however creations fail half-way, crash or find everything
\* cached: ids are only given out after both saves, and blanked when nothing is stored
\* (fetchQueryRequestResultsFromDataSource, fetchQueryRequestResultsFromCache).
GivenIdsAreKnown ==
    \A q \in Query :
        /\ consumer[q].id # "unknown"
        /\ consumer[q].id = "given" =>
            /\ FetchQueryResults(q).status # "none"
            /\ DOMAIN FetchQueryResults(q).results = SubqueriesOf(q)

\* A result that a consumer has seen, in the response to its POST or in a poll, is
\* in every later poll, although each handler saves rows it loaded before its reads.
SeenResultsStay ==
    [][\A q \in Query : consumer[q].found \subseteq consumer'[q].found]_consumer

=============================================================================
