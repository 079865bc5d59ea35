--------------------------- MODULE MCRateLimiting ----------------------------
(***************************************************************************)
(* Instances of RateLimiting for TLC.                                      *)
(***************************************************************************)
EXTENDS LimitPromises, TLC

\* One subquery in each query, so that the queries are interchangeable.
SingleWorkloads ==
    {[q \in Query |-> [subqueries |-> <<p>>, callbackUrl |-> FALSE]] : p \in Path}

\* A query of two subqueries, the others of one.
MixedWorkloads ==
    LET pair == CHOOSE q \in Query : TRUE
        paths == CHOOSE s \in [1 .. 2 -> Path] : s[1] # s[2]
    IN  {[q \in Query |-> [subqueries |-> IF q = pair THEN paths ELSE <<paths[1]>>,
                           callbackUrl |-> FALSE]]}

Symmetry == Permutations(Query)

=============================================================================
