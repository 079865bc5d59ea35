--------------------------- MODULE MCAggregation ----------------------------
(***************************************************************************)
(* Instances of Aggregation for TLC: payloads over small sets of paths.    *)
(***************************************************************************)
EXTENDS Promises, TLC

Payloads(lengths, callbacks) ==
    [subqueries : UNION {[1 .. n -> Path] : n \in lengths}, callbackUrl : callbacks]

\* Two queries of one and of two subqueries that start with the same path, or
\* one of three and an empty one; the same path twice or thrice included.
CompetingWorkloads ==
    {w \in [Query -> Payloads(0 .. 3, {TRUE})] :
        \E q, r \in Query :
            LET a == w[q].subqueries
                b == w[r].subqueries
            IN  /\ q # r
                /\ \/ Len(a) = 0 /\ Len(b) = 3
                   \/ Len(a) = 1 /\ Len(b) = 2 /\ a[1] = b[1]}

\* Two subqueries in every query.
PairWorkloads == [Query -> Payloads({2}, {TRUE})]

\* One query of two subqueries, the others of one, which all start with the
\* same path.
UnevenWorkloads ==
    LET q == CHOOSE x \in Query : TRUE
        p == CHOOSE x \in Path : TRUE
    IN  {w \in [Query -> Payloads(1 .. 2, {FALSE})] :
            \A r \in Query : /\ Len(w[r].subqueries) = IF r = q THEN 2 ELSE 1
                             /\ w[r].subqueries[1] = p}

Symmetry == Permutations(Query) \cup Permutations(Path)

=============================================================================
