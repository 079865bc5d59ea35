------------------------------ MODULE QueryLife -------------------------------
(***************************************************************************)
(* What a query is to its consumer, whatever services, messages, caches    *)
(* and crashes are behind it: it is answered at most once, it is COMPLETED *)
(* only when everything it asks for was served, and the results recorded   *)
(* for it only grow.                                                       *)
(***************************************************************************)
EXTENDS Naturals

CONSTANTS
    Query,         \* the queries
    Path,          \* the resources
    QueryOf(_)     \* the query a subquery belongs to

VARIABLES
    path,       \* the path each subquery asks for
    served,     \* the paths SWAPI served so far
    answer,     \* how each query was answered
    status,     \* the status recorded for each query, "none" if it is not recorded
    found       \* the subqueries with a recorded result

lifeVars == <<path, served, answer, status, found>>

AllServed(q) == \A s \in DOMAIN path : QueryOf(s) = q => path[s] \in served

LifeInit ==
    /\ served = {}
    /\ answer = [q \in Query |-> "none"]
    /\ status = [q \in Query |-> "none"]
    /\ found = {}

\* SWAPI serves a resource.
Serve(p) ==
    /\ served' = served \cup {p}
    /\ UNCHANGED <<path, answer, status, found>>

\* A query is recorded, and from then on judged any number of times.
Judge(q, verdict) ==
    /\ verdict = "COMPLETED" => AllServed(q)
    /\ status' = [status EXCEPT ![q] = verdict]
    /\ UNCHANGED <<path, served, answer, found>>

\* Results of a recorded query are recorded.
Record(q, results) ==
    /\ status[q] # "none"
    /\ \A s \in results : QueryOf(s) = q /\ path[s] \in served
    /\ found' = found \cup results
    /\ UNCHANGED <<path, served, answer, status>>

\* Its consumer gets the id of a recorded query, or all the results, or an error.
Answer(q, how) ==
    /\ answer[q] = "none"
    /\ how = "id" => status[q] # "none"
    /\ how = "results" => AllServed(q)
    /\ answer' = [answer EXCEPT ![q] = how]
    /\ UNCHANGED <<path, served, status, found>>

LifeNext ==
    \/ \E p \in Path : Serve(p)
    \/ \E q \in Query :
        \/ \E verdict \in {"PENDING", "COMPLETED"} : Judge(q, verdict)
        \/ \E results \in SUBSET DOMAIN path : Record(q, results)
        \/ \E how \in {"id", "results", "error"} : Answer(q, how)

LifeSpec == LifeInit /\ [][LifeNext]_lifeVars

=============================================================================
