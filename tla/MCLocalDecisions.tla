-------------------------- MODULE MCLocalDecisions --------------------------
(* Decisions 1 and 2 are about one finding, 3 and 4 about another.          *)
EXTENDS LocalDecisions, TLC

MCKeyOf == [d \in Decision |-> (d + 1) \div 2]

Interchangeable == Permutations(Process)

=============================================================================
