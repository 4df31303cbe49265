------------------------------ MODULE CacheLock ------------------------------
(***************************************************************************)
(* project_cache_lock (skylos/core/safe_cache_io.py): the directory lock   *)
(* around every change of the local review decisions and of the API        *)
(* surface caches.  It is the protocol of the audit store's guard with     *)
(* another end: a holder that lost its lock is not told, it returns as if  *)
(* nothing had happened.  One action is one file-system call.              *)
(*                                                                         *)
(* A process is named by where it stands:                                  *)
(*   idle     outside, its next call of os.mkdir the first                 *)
(*   create   about to call os.mkdir again                                 *)
(*   confirm  mkdir succeeded, about to lstat what it made                 *)
(*   inspect  mkdir failed, about to lstat                                 *)
(*   judge    holds the lstat of a lock, about to compare it               *)
(*   reclaim  found the same stale directory again, about to rmdir it      *)
(*   wait     about to look at its deadline                                *)
(*   body     in the guarded section, until the lstat of the release       *)
(*   unlink   found its own inode, about to rmdir it                       *)
(***************************************************************************)
EXTENDS Naturals

CONSTANTS
    Process,     \* the processes that share the project
    Inode,       \* the directory identities; the file system may reuse one
    None,        \* no directory
    StaleAge,    \* PROJECT_CACHE_LOCK_STALE_SECONDS, in ticks
    Timeout,     \* timeout_seconds, in ticks
    MaxCrashes   \* bound: how often a process may die

ASSUME CacheLockConstants ==
    /\ None \notin Inode
    /\ StaleAge \in Nat \ {0}
    /\ Timeout \in Nat
    /\ MaxCrashes \in Nat

VARIABLES
    dir,      \* the lock directory; dir.ino = None when there is none
    pc,       \* where each process stands
    own,      \* owned: the inode a holder took for its own
    seen,     \* existing: the last lstat of somebody's lock
    waited,   \* time since the acquisition began
    crashes,  \* how many processes have died
    overdue   \* history: a lock, or a look at one, has reached the stale age

vars == <<dir, pc, own, seen, waited, crashes, overdue>>

-----------------------------------------------------------------------------
Stat == [ino : Inode \cup {None}, age : 0 .. StaleAge]
NoStat == [ino |-> None, age |-> 0]

Acquiring == {"create", "inspect", "judge", "reclaim", "wait"}
Holding   == {"confirm", "body", "unlink"}

Present == dir.ino # None

Older(age) == IF age < StaleAge THEN age + 1 ELSE age

TypeOK ==
    /\ dir \in Stat
    /\ pc \in [Process -> {"idle"} \cup Acquiring \cup Holding]
    /\ own \in [Process -> Inode \cup {None}]
    /\ seen \in [Process -> Stat]
    /\ waited \in [Process -> 0 .. Timeout]
    /\ crashes \in 0 .. MaxCrashes
    /\ overdue \in BOOLEAN

Init ==
    /\ dir = NoStat
    /\ pc = [p \in Process |-> "idle"]
    /\ own = [p \in Process |-> None]
    /\ seen = [p \in Process |-> NoStat]
    /\ waited = [p \in Process |-> 0]
    /\ crashes = 0
    /\ overdue = FALSE

-----------------------------------------------------------------------------
(* Steps of one process.                                                   *)

GoTo(p, to) == pc' = [pc EXCEPT ![p] = to]

\* Return to the caller, with or without the lock: the locals are gone.
Return(p) ==
    /\ GoTo(p, "idle")
    /\ own' = [own EXCEPT ![p] = None]
    /\ seen' = [seen EXCEPT ![p] = NoStat]
    /\ waited' = [waited EXCEPT ![p] = 0]

MakeDir(p) ==
    /\ pc[p] \in {"idle", "create"}
    /\ ~Present
    /\ \E ino \in Inode : dir' = [ino |-> ino, age |-> 0]
    /\ GoTo(p, "confirm")
    /\ UNCHANGED <<own, seen, waited, crashes, overdue>>

DirExists(p) ==
    /\ pc[p] \in {"idle", "create"}
    /\ Present
    /\ GoTo(p, "inspect")
    /\ UNCHANGED <<dir, own, seen, waited, crashes, overdue>>

\* Mutant of ConfirmDir: the owner keeps its pid, not what lstat returned.
ConfirmDirAsPid(p) ==
    /\ pc[p] = "confirm"
    /\ Present
    /\ own' = [own EXCEPT ![p] = p]
    /\ waited' = [waited EXCEPT ![p] = 0]
    /\ GoTo(p, "body")
    /\ UNCHANGED <<dir, seen, crashes, overdue>>

\* The lstat after mkdir takes whatever directory is there for the one made.
ConfirmDir(p) ==
    /\ pc[p] = "confirm"
    /\ Present
    /\ own' = [own EXCEPT ![p] = dir.ino]
    /\ waited' = [waited EXCEPT ![p] = 0]
    /\ GoTo(p, "body")
    /\ UNCHANGED <<dir, seen, crashes, overdue>>

ConfirmMissing(p) ==
    /\ pc[p] = "confirm"
    /\ ~Present
    /\ Return(p)
    /\ UNCHANGED <<dir, crashes, overdue>>

InspectDir(p) ==
    /\ pc[p] = "inspect"
    /\ Present
    /\ seen' = [seen EXCEPT ![p] = dir]
    /\ GoTo(p, "judge")
    /\ UNCHANGED <<dir, own, waited, crashes, overdue>>

\* Gone between mkdir and lstat: try again at once, the deadline unread.
InspectMissing(p) ==
    /\ pc[p] = "inspect"
    /\ ~Present
    /\ GoTo(p, "create")
    /\ UNCHANGED <<dir, own, seen, waited, crashes, overdue>>

\* Mutant of MayReclaim: the age of the lock is not looked at.
MayReclaimAnyAge(p) == dir.ino = seen[p].ino

\* Is the lock seen stale, and is the directory there now the one seen?
MayReclaim(p) == seen[p].age >= StaleAge /\ dir.ino = seen[p].ino

Judge(p) ==
    /\ pc[p] = "judge"
    /\ GoTo(p, IF MayReclaim(p) THEN "reclaim" ELSE "wait")
    /\ seen' = [seen EXCEPT ![p] = NoStat]
    /\ UNCHANGED <<dir, own, waited, crashes, overdue>>

\* os.rmdir names the path, not the inode that was compared a moment ago.
Reclaim(p) ==
    /\ pc[p] = "reclaim"
    /\ dir' = NoStat
    /\ GoTo(p, IF Present THEN "create" ELSE "wait")
    /\ UNCHANGED <<own, seen, waited, crashes, overdue>>

Poll(p) ==
    /\ pc[p] = "wait"
    /\ waited[p] < Timeout
    /\ GoTo(p, "create")
    /\ UNCHANGED <<dir, own, seen, waited, crashes, overdue>>

TimeOut(p) ==
    /\ pc[p] = "wait"
    /\ waited[p] >= Timeout
    /\ Return(p)
    /\ UNCHANGED <<dir, crashes, overdue>>

\* A lock that is not the holder's own is left alone, without a word.
CheckOwned(p) ==
    /\ pc[p] = "body"
    /\ IF dir.ino = own[p]
         THEN GoTo(p, "unlink") /\ UNCHANGED <<own, seen, waited>>
         ELSE Return(p)
    /\ UNCHANGED <<dir, crashes, overdue>>

Unlink(p) ==
    /\ pc[p] = "unlink"
    /\ dir' = NoStat
    /\ Return(p)
    /\ UNCHANGED <<crashes, overdue>>

Step(p) ==
    \/ MakeDir(p) \/ DirExists(p) \/ ConfirmDir(p) \/ ConfirmMissing(p)
    \/ InspectDir(p) \/ InspectMissing(p) \/ Judge(p) \/ Reclaim(p)
    \/ Poll(p) \/ TimeOut(p) \/ CheckOwned(p) \/ Unlink(p)

\* A process dies; its lock directory stays.
Crash(p) ==
    /\ crashes < MaxCrashes
    /\ pc[p] # "idle"
    /\ crashes' = crashes + 1
    /\ Return(p)
    /\ UNCHANGED <<dir, overdue>>

\* Time passes: the lock and the looks at it age, deadlines come closer.
Tick ==
    /\ dir' = IF Present THEN [dir EXCEPT !.age = Older(@)] ELSE dir
    /\ seen' = [p \in Process |->
                  IF pc[p] = "judge" THEN [seen[p] EXCEPT !.age = Older(@)]
                  ELSE seen[p]]
    /\ waited' = [p \in Process |->
                    IF pc[p] \in Acquiring /\ waited[p] < Timeout
                    THEN waited[p] + 1 ELSE waited[p]]
    /\ overdue' = \/ overdue \/ dir'.age = StaleAge
                  \/ \E p \in Process : seen'[p].age = StaleAge
    /\ UNCHANGED <<pc, own, crashes>>

Next ==
    \/ \E p \in Process : Step(p) \/ Crash(p)
    \/ Tick

Spec == Init /\ [][Next]_vars

-----------------------------------------------------------------------------
(* Properties.                                                             *)

Lock == INSTANCE StoreLock WITH
          holders <- {p \in Process : pc[p] = "body"}

\* The file-system calls of project_cache_lock implement the abstract lock:
\* one process in the section until a lock, or somebody's look at a lock, is
\* an hour old, whatever the processes do in between and whoever dies.
ImplementsStoreLock == Lock!Spec

=============================================================================
