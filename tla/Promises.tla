------------------------------ MODULE Promises ------------------------------
(***************************************************************************)
(* What the repository's documentation and tests say of the aggregation    *)
(* engine, for the statements the code does not keep.                      *)
(***************************************************************************)
EXTENDS Aggregation

\* Something is still running that could change the status of q.
Processing(q) ==
    \E s \in SubqueriesOf(q) :
        \/ \E m \in net : m.id = s
        \/ s \in fetching
        \/ handling[s].pc # "idle"

\* "PENDING means the query is still processing; some results are still being
\* fetched" (query.dto.ts): when no process ever died, a PENDING query has work
\* in flight.
PendingIsProcessing ==
    died = {} => \A q \in Query :
        creating[q] = "answered" /\ queryTable[q] = "PENDING" => Processing(q)

\* "COMPLETED means the query is finished" (query.dto.ts): it stays COMPLETED.
CompletedIsFinal ==
    [][\A q \in Query : queryTable[q] = "COMPLETED" => queryTable'[q] = "COMPLETED"]_queryTable

\* "... and all results are available" (query.dto.ts): once the handlers of a
\* COMPLETED query have returned, polling it gives a result for every subquery.
CompletedResultsAvailable ==
    \A q \in Query :
        /\ "query-manager" \in up
        /\ FetchQueryResults(q).status = "COMPLETED"
        /\ \A s \in SubqueriesOf(q) : handling[s].pc = "idle"
        => \A s \in SubqueriesOf(q) : FetchQueryResults(q).results[s] = "data"

\* "The message queue will hold messages if the downstream service is down, until
\* such time it is ready to begin processing again" (README.md): as long as the
\* aggregation engine runs, a resource that was asked for is cached, known to be
\* empty, or still going to be fetched, whatever SWAPI answers.
FetchSurvivesOutage ==
    died \subseteq {"swapi-connector"} =>
        \A s \in Subqueries : creating[QueryOf(s)] = "answered" =>
            \/ Cached(s)
            \/ \E t \in SubqueriesOf(QueryOf(s)) :
                /\ PathOf(t) = PathOf(s)
                /\ InPipeline(t) \/ [id |-> t, result |-> "null"] \in swapiLog

=============================================================================
