------------------------------ MODULE MCSystem --------------------------------
(***************************************************************************)
(* Instances of System for TLC.                                            *)
(***************************************************************************)
EXTENDS System, TLC

\* Queries of two subqueries, or empty ones, which are answered at once.
PairWorkloads ==
    [Query -> [subqueries : UNION {[1 .. n -> Path] : n \in {0, 2}}, callbackUrl : {FALSE}]]

Symmetry == Permutations(Path)

=============================================================================
