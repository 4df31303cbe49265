--------------------------- MODULE MCMutationGuard ---------------------------
(* Instances of MutationGuard for TLC: the inodes are numerous enough for   *)
(* every process to remember one of them while one more is on disk.         *)
EXTENDS MutationGuard, TLC

MCInode == 1 .. (Cardinality(Process) + 1)

=============================================================================
