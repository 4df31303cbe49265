---------------------------- MODULE MutationGuard ----------------------------
(***************************************************************************)
(* The directory lock with which every process that changes the records of *)
(* one Deep Audit project (skylos/audit/store.py) guards its               *)
(* read-modify-write: os.mkdir creates the lock, os.rmdir releases it, and *)
(* a waiter may reclaim a lock directory that is older than                *)
(* MUTATION_LOCK_STALE_SECONDS.  One action is one file-system call, so    *)
(* every interleaving of the calls of several processes is a behaviour.    *)
(*                                                                         *)
(* A process is any thread or program that calls _mutation_guard.  It is   *)
(* named by where it stands:                                               *)
(*   idle     outside the guard, its next call of os.mkdir the first       *)
(*   create   about to call os.mkdir again     (_try_create_mutation_guard)*)
(*   confirm  mkdir succeeded, about to lstat what it made                 *)
(*   inspect  mkdir failed, about to lstat     (_existing_mutation_guard)  *)
(*   judge    holds the lstat of a lock        (_remove_stale_...)         *)
(*   reclaim  found the same inode again, about to rmdir it                *)
(*   wait     about to check its deadline      (_wait_for_mutation_guard)  *)
(*   body     in the guarded section, until the lstat of the release       *)
(*   unlink   found its own inode, about to rmdir it                       *)
(***************************************************************************)
EXTENDS Naturals, FiniteSets

CONSTANTS
    Process,      \* the processes that share the project
    Inode,        \* the directory identities (st_dev, st_ino)
    None,         \* no directory, no owner
    StaleAge,     \* MUTATION_LOCK_STALE_SECONDS, in ticks
    Timeout,      \* MUTATION_LOCK_TIMEOUT_SECONDS, in ticks
    MaxCrashes,   \* bound: how often a process may die
    InodeReuse,   \* may a new directory get an inode somebody still remembers?
    ShortBodies   \* does every live holder release before its lock is stale?

ASSUME GuardConstants ==
    /\ None \notin Inode \cup Process
    /\ StaleAge \in Nat \ {0}
    /\ Timeout \in Nat
    /\ MaxCrashes \in Nat
    /\ InodeReuse \in BOOLEAN
    /\ ShortBodies \in BOOLEAN

VARIABLES
    dir,        \* the lock directory; dir.ino = None when there is none
    pc,         \* where each process stands
    own,        \* owned_stat: the inode a holder took for its own
    seen,       \* existing: the last lstat of somebody else's lock
    waited,     \* time since the acquisition began
    crashes,    \* how many processes have died
    staleSeen,  \* history: a lock directory (where inodes are reused, also a
                \* look at one) has reached the stale age
    lost        \* history: holders whose lock was removed before they checked

vars == <<dir, pc, own, seen, waited, crashes, staleSeen, lost>>

-----------------------------------------------------------------------------
(* Types and helpers.  dir.by, the process that made the directory and     *)
(* still runs, is not on disk: only ShortBodies and the properties read it. *)

Dir  == [ino : Inode \cup {None}, age : 0 .. StaleAge, by : Process \cup {None}]
Stat == [ino : Inode \cup {None}, age : 0 .. StaleAge]

NoDir  == [ino |-> None, age |-> 0, by |-> None]
NoStat == [ino |-> None, age |-> 0]

Acquiring == {"create", "inspect", "judge", "reclaim", "wait"}
Holding   == {"confirm", "body", "unlink"}

Present == dir.ino # None

\* Inodes that some process still holds in a stat result.
Remembered == {own[p] : p \in Process} \cup {seen[p].ino : p \in Process}

FreeInode == IF InodeReuse THEN Inode ELSE Inode \ Remembered

\* A holder that has entered its body and not yet checked its lock.
Unchecked(ino) == {p \in Process : pc[p] = "body" /\ own[p] = ino}

\* Older by one tick; ages beyond StaleAge are all alike.
Older(age) == IF age < StaleAge THEN age + 1 ELSE age

TypeOK ==
    /\ dir \in Dir
    /\ pc \in [Process -> {"idle"} \cup Acquiring \cup Holding]
    /\ own \in [Process -> Inode \cup {None}]
    /\ seen \in [Process -> Stat]
    /\ waited \in [Process -> 0 .. Timeout]
    /\ crashes \in 0 .. MaxCrashes
    /\ staleSeen \in BOOLEAN
    /\ lost \in SUBSET Process

Init ==
    /\ dir = NoDir
    /\ pc = [p \in Process |-> "idle"]
    /\ own = [p \in Process |-> None]
    /\ seen = [p \in Process |-> NoStat]
    /\ waited = [p \in Process |-> 0]
    /\ crashes = 0
    /\ staleSeen = FALSE
    /\ lost = {}

-----------------------------------------------------------------------------
(* Steps of one process.                                                   *)

GoTo(p, to) == pc' = [pc EXCEPT ![p] = to]

\* A stat result is of no more use once it has been judged.
Forget(p) == seen' = [seen EXCEPT ![p] = NoStat]

\* Leave the guard, by returning or by raising: the locals are gone.
Leave(p) ==
    /\ GoTo(p, "idle")
    /\ own' = [own EXCEPT ![p] = None]
    /\ seen' = [seen EXCEPT ![p] = NoStat]
    /\ waited' = [waited EXCEPT ![p] = 0]
    /\ lost' = lost \ {p}
    /\ UNCHANGED <<crashes, staleSeen>>

\* The lock directory goes away, whoever made it.
RemoveDir ==
    /\ dir' = NoDir
    /\ lost' = lost \cup Unchecked(dir.ino)

\* Mutant of MakeDir: os.makedirs(..., exist_ok=True).
MakeDirExistOk(p) ==
    /\ pc[p] \in {"idle", "create"}
    /\ \E ino \in FreeInode :
         dir' = IF Present THEN dir ELSE [ino |-> ino, age |-> 0, by |-> p]
    /\ GoTo(p, "confirm")
    /\ UNCHANGED <<own, seen, waited, crashes, staleSeen, lost>>

\* os.mkdir: atomic, and the only way a lock directory comes to be.
MakeDir(p) ==
    /\ pc[p] \in {"idle", "create"}
    /\ ~Present
    /\ \E ino \in FreeInode : dir' = [ino |-> ino, age |-> 0, by |-> p]
    /\ GoTo(p, "confirm")
    /\ UNCHANGED <<own, seen, waited, crashes, staleSeen, lost>>

DirExists(p) ==
    /\ pc[p] \in {"idle", "create"}
    /\ Present
    /\ GoTo(p, "inspect")
    /\ UNCHANGED <<dir, own, seen, waited, crashes, staleSeen, lost>>

\* Mutant of ConfirmDir: the owner's pid is kept, not the directory's identity.
ConfirmDirAsPid(p) ==
    /\ pc[p] = "confirm"
    /\ Present
    /\ own' = [own EXCEPT ![p] = p]
    /\ waited' = [waited EXCEPT ![p] = 0]
    /\ GoTo(p, "body")
    /\ UNCHANGED <<dir, seen, crashes, staleSeen, lost>>

\* The lstat after mkdir takes whatever directory is there for the one made.
ConfirmDir(p) ==
    /\ pc[p] = "confirm"
    /\ Present
    /\ own' = [own EXCEPT ![p] = dir.ino]
    /\ waited' = [waited EXCEPT ![p] = 0]
    /\ GoTo(p, "body")
    /\ UNCHANGED <<dir, seen, crashes, staleSeen, lost>>

ConfirmMissing(p) ==
    /\ pc[p] = "confirm"
    /\ ~Present
    /\ Leave(p)
    /\ UNCHANGED dir

InspectDir(p) ==
    /\ pc[p] = "inspect"
    /\ Present
    /\ seen' = [seen EXCEPT ![p] = [ino |-> dir.ino, age |-> dir.age]]
    /\ GoTo(p, "judge")
    /\ UNCHANGED <<dir, own, waited, crashes, staleSeen, lost>>

\* Gone between mkdir and lstat: try again at once, the deadline unread.
InspectMissing(p) ==
    /\ pc[p] = "inspect"
    /\ ~Present
    /\ GoTo(p, "create")
    /\ UNCHANGED <<dir, own, seen, waited, crashes, staleSeen, lost>>

\* Mutant of MayReclaim: older than the age at which a lock is already stale.
MayReclaimOlder(p) == seen[p].age > StaleAge /\ dir.ino = seen[p].ino

\* Mutant of MayReclaim: the age of the lock is not looked at.
MayReclaimAnyAge(p) == dir.ino = seen[p].ino

\* Is the lock seen stale, and is the directory there now the one seen?
MayReclaim(p) == seen[p].age >= StaleAge /\ dir.ino = seen[p].ino

JudgeStale(p) ==
    /\ pc[p] = "judge"
    /\ MayReclaim(p)
    /\ GoTo(p, "reclaim")
    /\ Forget(p)
    /\ UNCHANGED <<dir, own, waited, crashes, staleSeen, lost>>

JudgeLive(p) ==
    /\ pc[p] = "judge"
    /\ ~MayReclaim(p)
    /\ GoTo(p, "wait")
    /\ Forget(p)
    /\ UNCHANGED <<dir, own, waited, crashes, staleSeen, lost>>

\* os.rmdir names the path, not the inode that was compared a moment ago.
Reclaim(p) ==
    /\ pc[p] = "reclaim"
    /\ Present
    /\ RemoveDir
    /\ GoTo(p, "create")
    /\ UNCHANGED <<own, seen, waited, crashes, staleSeen>>

ReclaimMissing(p) ==
    /\ pc[p] = "reclaim"
    /\ ~Present
    /\ GoTo(p, "wait")
    /\ UNCHANGED <<dir, own, seen, waited, crashes, staleSeen, lost>>

Poll(p) ==
    /\ pc[p] = "wait"
    /\ waited[p] < Timeout
    /\ GoTo(p, "create")
    /\ UNCHANGED <<dir, own, seen, waited, crashes, staleSeen, lost>>

TimeOut(p) ==
    /\ pc[p] = "wait"
    /\ waited[p] >= Timeout
    /\ Leave(p)
    /\ UNCHANGED dir

\* Mutant of StillOwned: the release looks only for a lock, not for its own.
StillOwnedByPath(p) == Present

StillOwned(p) == dir.ino = own[p]

CheckOwned(p) ==
    /\ pc[p] = "body"
    /\ StillOwned(p)
    /\ GoTo(p, "unlink")
    /\ UNCHANGED <<dir, own, seen, waited, crashes, staleSeen, lost>>

\* RuntimeError: the lock disappeared, or its ownership changed, while held.
CheckLost(p) ==
    /\ pc[p] = "body"
    /\ ~StillOwned(p)
    /\ Leave(p)
    /\ UNCHANGED dir

\* The rmdir of the release; FileNotFoundError when somebody was faster.
Unlink(p) ==
    /\ pc[p] = "unlink"
    /\ dir' = NoDir
    /\ GoTo(p, "idle")
    /\ own' = [own EXCEPT ![p] = None]
    /\ seen' = [seen EXCEPT ![p] = NoStat]
    /\ waited' = [waited EXCEPT ![p] = 0]
    /\ lost' = (lost \cup Unchecked(dir.ino)) \ {p}
    /\ UNCHANGED <<crashes, staleSeen>>

-----------------------------------------------------------------------------
(* The environment.                                                        *)

\* A process dies; its lock directory stays.
Crash(p) ==
    /\ crashes < MaxCrashes
    /\ pc[p] # "idle"
    /\ crashes' = crashes + 1
    /\ GoTo(p, "idle")
    /\ own' = [own EXCEPT ![p] = None]
    /\ seen' = [seen EXCEPT ![p] = NoStat]
    /\ waited' = [waited EXCEPT ![p] = 0]
    /\ dir' = IF dir.by = p THEN [dir EXCEPT !.by = None] ELSE dir
    /\ lost' = lost \ {p}
    /\ UNCHANGED staleSeen

AgedDir == IF Present THEN [dir EXCEPT !.age = Older(@)] ELSE dir

\* Time passes: directories and stat results age, deadlines come closer.
Tick ==
    /\ ShortBodies => dir.by = None \/ AgedDir.age < StaleAge
    /\ dir' = AgedDir
    /\ seen' = [p \in Process |->
                  IF seen[p].ino = None THEN seen[p]
                  ELSE [seen[p] EXCEPT !.age = Older(@)]]
    /\ waited' = [p \in Process |->
                    IF pc[p] \in Acquiring /\ waited[p] < Timeout
                    THEN waited[p] + 1 ELSE waited[p]]
    /\ staleSeen' = \/ staleSeen
                    \/ dir'.age = StaleAge
                    \/ InodeReuse /\ \E p \in Process : seen'[p].age = StaleAge
    /\ UNCHANGED <<pc, own, crashes, lost>>

Acquire(p) ==
    \/ MakeDir(p) \/ DirExists(p) \/ ConfirmDir(p) \/ ConfirmMissing(p)
    \/ InspectDir(p) \/ InspectMissing(p) \/ JudgeStale(p) \/ JudgeLive(p)
    \/ Reclaim(p) \/ ReclaimMissing(p) \/ Poll(p) \/ TimeOut(p)

Release(p) ==
    \/ CheckOwned(p) \/ CheckLost(p) \/ Unlink(p)

Step(p) == Acquire(p) \/ Release(p)

Next ==
    \/ \E p \in Process : Step(p) \/ Crash(p)
    \/ Tick

Spec == Init /\ [][Next]_vars

\* Processes run, mutations keep coming and the clock advances; nobody has to
\* die.
Fairness ==
    /\ \A p \in Process : WF_vars(Step(p))
    /\ WF_vars(Tick)

FairSpec == Spec /\ Fairness

-----------------------------------------------------------------------------
(* Properties.                                                             *)

\* Until some lock directory has grown old enough to be reclaimed, no two
\* processes are in the guarded section and the one that is there finds its
\* own directory when it releases: mkdir and rmdir alone serialize.  Where the
\* file system gives a directory an inode that a waiter still remembers, the
\* waiter's old lstat may pass for one of the new lock, so that what it saw
\* must be young as well.
SerializedUntilStale ==
    ~staleSeen =>
      \A p, q \in Process :
        /\ pc[p] = "body" => own[p] = dir.ino
        /\ pc[p] = "body" /\ pc[q] = "body" => p = q

\* A holder whose lock directory was removed while its body ran does not take
\* the directory that came after it for its own: it ends in the RuntimeError
\* of _release_mutation_guard, not in a silent return that also removes the
\* lock of another process.  Two windows are outside: a lock removed before
\* the lstat that confirms it (store.py:708), after which its maker takes the
\* next one for its own, and one removed between the lstat and the rmdir of
\* the release (store.py:804, 822).
LostLockIsReported ==
    \A p \in lost : pc[p] = "body" /\ own[p] # dir.ino

Lock == INSTANCE StoreLock WITH
          holders <- {p \in Process : pc[p] = "body"},
          overdue <- staleSeen

\* The file-system calls of the guard implement the abstract lock: to whoever
\* reads and writes the audit store under it, another process is there only
\* after a lock directory has outlived MUTATION_LOCK_STALE_SECONDS.
ImplementsStoreLock == Lock!Spec

\* No lock stays for ever, whoever died holding it: it is released, or it
\* grows stale and a waiter reclaims it.
GuardEventuallyFree == []<>(~Present)

\* "A non-empty or replaced lock fails closed and falls through to the
\* bounded wait" (store.py:744-746): a waiter only ever removes a lock
\* directory that was stale.
ReplacedLockFailsClosed ==
    [][\A p \in Process : Reclaim(p) => dir.age = StaleAge]_vars

=============================================================================
