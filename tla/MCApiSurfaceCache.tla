-------------------------- MODULE MCApiSurfaceCache --------------------------
(* Two scans, in one environment or in two.                                 *)
EXTENDS ApiSurfaceCache

CONSTANTS p1, p2, e1, e2

MCEnvironments == {[p \in Process |-> e1],
                   [p \in Process |-> IF p = p1 THEN e1 ELSE e2]}

=============================================================================
