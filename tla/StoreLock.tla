------------------------------ MODULE StoreLock ------------------------------
(***************************************************************************)
(* What the directory locks of skylos promise to the code they guard: one  *)
(* process at a time is in the guarded section, until some lock has been   *)
(* there long enough to be taken for abandoned.  From then on another      *)
(* process may be let in as well.  The lock of the audit store             *)
(* (MutationGuard) and the lock of the project caches (CacheLock) are      *)
(* checked and proved to implement this; LocalDecisions is built on it.    *)
(***************************************************************************)
CONSTANT Process

VARIABLES
    holders,  \* the processes in the guarded section
    overdue   \* has some lock reached the age at which it may be reclaimed?

vars == <<holders, overdue>>

Init == holders = {} /\ overdue = FALSE

\* The lock is acquired.
Enter(p) ==
    /\ p \notin holders
    /\ holders = {} \/ overdue
    /\ holders' = holders \cup {p}
    /\ UNCHANGED overdue

\* The section ends, with a return, an exception or the death of the process.
Leave(p) ==
    /\ p \in holders
    /\ holders' = holders \ {p}
    /\ UNCHANGED overdue

\* A lock grows old enough to be reclaimed.
BecomeOverdue ==
    /\ overdue' = TRUE
    /\ UNCHANGED holders

Next ==
    \/ \E p \in Process : Enter(p) \/ Leave(p)
    \/ BecomeOverdue

Spec == Init /\ [][Next]_vars

=============================================================================
