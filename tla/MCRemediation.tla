---------------------------- MODULE MCRemediation ----------------------------
(* Two files; the first may have two fixes.                                 *)
EXTENDS Remediation

CONSTANTS f1, f2, t1, t2, t3

MCFileOf == [t \in {t1, t2, t3} |-> IF t = t3 THEN f2 ELSE f1]

=============================================================================
