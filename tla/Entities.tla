------------------------------ MODULE Entities ------------------------------
(***************************************************************************)
(* The three entities every microservice exchanges: a Query is what one    *)
(* consumer POSTs, a Subquery is one resource path of a query, a resource  *)
(* is the document SWAPI serves at a path.  Ids are UUIDs minted by the    *)
(* query manager, so an id here is simply the pair <<query, position>>.    *)
(* The payload of a resource is abstracted to the one thing the code ever  *)
(* tests, its truthiness: "data" or "null".                                *)
(***************************************************************************)
EXTENDS Naturals, Sequences

CONSTANTS
    Query,           \* the queries consumers may create
    Path,            \* the SWAPI resource paths
    MaxSubqueries,   \* bound on the subqueries of one query
    Workloads        \* what the consumers may POST: a payload for each query

CreateQueryRequestDto == [subqueries : Seq(Path), callbackUrl : BOOLEAN]

ASSUME WorkloadsAssumption ==
    /\ MaxSubqueries \in Nat
    /\ \A w \in Workloads :
        /\ w \in [Query -> CreateQueryRequestDto]
        /\ \A q \in Query : Len(w[q].subqueries) <= MaxSubqueries

VARIABLE request     \* request[q]: what the consumer of q POSTs; never changes

SubqueryId == Query \X (1 .. MaxSubqueries)

Result == {"null", "data"}

QueryOf(s) == s[1]

PathOf(s) == request[s[1]].subqueries[s[2]]

SubqueriesOf(q) == {s \in SubqueryId : s[1] = q /\ s[2] \in DOMAIN request[q].subqueries}

Subqueries == {s \in SubqueryId : s[2] \in DOMAIN request[s[1]].subqueries}

=============================================================================
