-------------------------- MODULE MutationGuardProofs --------------------------
(***************************************************************************)
(* For every number of processes, every staleness age and every timeout:   *)
(* the guard serializes its bodies until a lock directory, or where inodes *)
(* are reused a look at one, has grown stale.  That a holder whose lock was *)
(* removed while its body ran says so can be undone by one thing alone: a  *)
(* new lock directory with the very identity of the removed one.           *)
(***************************************************************************)
EXTENDS MutationGuard, TLAPS

-----------------------------------------------------------------------------

\* The initial state is typed.
LEMMA GuardInit == Init => TypeOK
<1> SUFFICES ASSUME Init PROVE TypeOK
  OBVIOUS
<1>1. dir \in Dir
  BY GuardConstants DEF Init, Dir, NoDir
<1>2. seen \in [Process -> Stat]
  BY GuardConstants DEF Init, Stat, NoStat
<1>3. /\ pc \in [Process -> {"idle"} \cup Acquiring \cup Holding]
      /\ own \in [Process -> Inode \cup {None}]
      /\ staleSeen \in BOOLEAN
      /\ lost \in SUBSET Process
  BY DEF Init
<1>4. waited \in [Process -> 0 .. Timeout] /\ crashes \in 0 .. MaxCrashes
  BY GuardConstants DEF Init
<1> QED
  BY <1>1, <1>2, <1>3, <1>4 DEF TypeOK

\* Every step keeps the types.
LEMMA GuardTypes == TypeOK /\ [Next]_vars => TypeOK'
<1> SUFFICES ASSUME TypeOK, [Next]_vars PROVE TypeOK'
  OBVIOUS
<1> USE DEF TypeOK, Acquiring, Holding, GoTo
<1>1. ASSUME NEW p \in Process, MakeDir(p) PROVE TypeOK'
  <2>1. dir' \in Dir
    BY <1>1, GuardConstants DEF MakeDir, FreeInode, Dir
  <2> QED
    BY <1>1, <2>1 DEF MakeDir
<1>2. ASSUME NEW p \in Process,
             DirExists(p) \/ InspectMissing(p) \/ ReclaimMissing(p)
               \/ Poll(p) \/ CheckOwned(p)
      PROVE  TypeOK'
  BY <1>2 DEF DirExists, InspectMissing, ReclaimMissing, Poll, CheckOwned
<1>3. ASSUME NEW p \in Process, ConfirmDir(p) PROVE TypeOK'
  BY <1>3, GuardConstants DEF ConfirmDir, Dir
<1>4. ASSUME NEW p \in Process, InspectDir(p) PROVE TypeOK'
  BY <1>4 DEF InspectDir, Dir, Stat
<1>5. ASSUME NEW p \in Process, JudgeStale(p) \/ JudgeLive(p) PROVE TypeOK'
  <2>1. seen' \in [Process -> Stat]
    <3>1. NoStat \in Stat /\ Forget(p)
      BY <1>5, GuardConstants DEF NoStat, Stat, JudgeStale, JudgeLive
    <3> QED
      BY <3>1 DEF Forget
  <2>2. CASE JudgeStale(p)
    BY <2>1, <2>2 DEF JudgeStale
  <2>3. CASE JudgeLive(p)
    BY <2>1, <2>3 DEF JudgeLive
  <2> QED
    BY <1>5, <2>2, <2>3
<1>6. ASSUME NEW p \in Process,
             ConfirmMissing(p) \/ TimeOut(p) \/ CheckLost(p)
      PROVE  TypeOK'
  <2>1. Leave(p) /\ dir' = dir
    BY <1>6 DEF ConfirmMissing, TimeOut, CheckLost
  <2> QED
    BY <2>1, GuardConstants DEF Leave, NoStat, Stat
<1>7. ASSUME NEW p \in Process, Reclaim(p) PROVE TypeOK'
  BY <1>7, GuardConstants DEF Reclaim, RemoveDir, Unchecked, NoDir, Dir
<1>8. ASSUME NEW p \in Process, Unlink(p) PROVE TypeOK'
  BY <1>8, GuardConstants DEF Unlink, Unchecked, NoDir, Dir, NoStat, Stat
<1>9. ASSUME NEW p \in Process, Crash(p) PROVE TypeOK'
  BY <1>9, GuardConstants DEF Crash, Dir, NoStat, Stat
<1>10. CASE Tick
  <2>1. dir' \in Dir
    BY <1>10, GuardConstants DEF Tick, AgedDir, Older, Dir
  <2>2. seen' \in [Process -> Stat]
    BY <1>10, GuardConstants DEF Tick, Older, Stat
  <2>3. waited' \in [Process -> 0 .. Timeout]
    BY <1>10, GuardConstants DEF Tick
  <2>4. staleSeen' \in BOOLEAN
    BY <1>10 DEF Tick
  <2> QED
    BY <1>10, <2>1, <2>2, <2>3, <2>4 DEF Tick
<1>11. CASE UNCHANGED vars
  BY <1>11 DEF vars
<1> QED
  BY <1>1, <1>2, <1>3, <1>4, <1>5, <1>6, <1>7, <1>8, <1>9, <1>10, <1>11
     DEF Next, Step, Acquire, Release

\* Every variable keeps its type.
THEOREM GuardTypeCorrect == Spec => []TypeOK
<1> QED
  BY GuardInit, GuardTypes, PTL DEF Spec

-----------------------------------------------------------------------------
(* The inductive invariant.  That holders own the directory on disk is not  *)
(* inductive: it must be known that a stat result which still names the     *)
(* directory on disk is as old as that directory, so that nobody can judge  *)
(* a young lock stale.                                                      *)

\* What is absent has no age; a stat result that names the directory on disk
\* has its age, unless it is of an earlier directory with the same inode.
SeenIsAsOld ==
    /\ ~Present => dir.age = 0
    /\ \A p \in Process : seen[p].ino = None => seen[p].age = 0
    /\ ~InodeReuse =>
         \A p \in Process : seen[p].ino = dir.ino => seen[p].age = dir.age

\* No lock has grown stale, and where inodes are reused no look at one has, so
\* nobody is about to reclaim one.
NothingStale ==
    ~staleSeen =>
      /\ dir.age < StaleAge
      /\ \A p \in Process : pc[p] # "reclaim"
      /\ InodeReuse => \A p \in Process : seen[p].age < StaleAge

\* The holder of the lock is the process that made the directory on disk.
HolderMadeDir ==
    ~staleSeen =>
      \A p \in Process : pc[p] \in Holding =>
        /\ Present /\ dir.by = p
        /\ pc[p] \in {"body", "unlink"} => own[p] = dir.ino

\* A body runs with an identity to compare.
BodyOwns == \A p \in Process : pc[p] = "body" => own[p] # None

GuardInv ==
    /\ TypeOK
    /\ SeenIsAsOld
    /\ NothingStale
    /\ HolderMadeDir
    /\ BodyOwns

\* A new directory has an identity that no stat result names, unless inodes are
\* reused; time passes for the directory and the stat results alike.
LEMMA SeenStaysAsOld ==
    ASSUME TypeOK, SeenIsAsOld, [Next]_vars
    PROVE  SeenIsAsOld'
<1>1. ASSUME NEW p \in Process,
             DirExists(p) \/ ConfirmDir(p) \/ InspectMissing(p)
               \/ ReclaimMissing(p) \/ Poll(p) \/ CheckOwned(p)
      PROVE  SeenIsAsOld'
  BY <1>1, GuardConstants DEF DirExists, ConfirmDir, InspectMissing,
       ReclaimMissing, Poll, CheckOwned, StillOwned, SeenIsAsOld, Present
\* The new directory's identity is nobody's.
<1>2. ASSUME NEW p \in Process, MakeDir(p)
      PROVE  SeenIsAsOld'
  BY <1>2, GuardConstants DEF MakeDir, SeenIsAsOld, Present, FreeInode,
       Remembered, TypeOK, Dir, Stat
<1>3. ASSUME NEW p \in Process, InspectDir(p)
      PROVE  SeenIsAsOld'
  BY <1>3, GuardConstants DEF InspectDir, SeenIsAsOld, Present, TypeOK, Dir,
       Stat
<1>4. ASSUME NEW p \in Process, JudgeStale(p) \/ JudgeLive(p)
      PROVE  SeenIsAsOld'
  BY <1>4, GuardConstants DEF JudgeStale, MayReclaim, JudgeLive, SeenIsAsOld,
       Present, Forget, NoStat, TypeOK, Dir, Stat
<1>5. ASSUME NEW p \in Process,
             ConfirmMissing(p) \/ TimeOut(p) \/ CheckLost(p)
      PROVE  SeenIsAsOld'
  <2>1. Leave(p) /\ dir' = dir
    BY <1>5 DEF ConfirmMissing, TimeOut, CheckLost
  <2> QED
    BY <2>1, GuardConstants
       DEF SeenIsAsOld, Present, Leave, NoStat, TypeOK, Stat
<1>6. ASSUME NEW p \in Process, Reclaim(p)
      PROVE  SeenIsAsOld'
  BY <1>6, GuardConstants DEF Reclaim, SeenIsAsOld, Present, RemoveDir, NoDir,
       TypeOK, Dir, Stat
<1>7. ASSUME NEW p \in Process, Unlink(p)
      PROVE  SeenIsAsOld'
  BY <1>7, GuardConstants DEF Unlink, SeenIsAsOld, Present, NoDir, NoStat,
       TypeOK, Dir, Stat
<1>8. ASSUME NEW p \in Process, Crash(p)
      PROVE  SeenIsAsOld'
  BY <1>8, GuardConstants DEF Crash, SeenIsAsOld, Present, NoStat, TypeOK,
       Dir, Stat
<1>9. CASE Tick
  BY <1>9, GuardConstants DEF Tick, AgedDir, Older, SeenIsAsOld, Present,
       TypeOK, Dir, Stat
<1>10. CASE UNCHANGED vars
  BY <1>10 DEF vars, SeenIsAsOld, Present
<1> QED
  BY <1>1, <1>2, <1>3, <1>4, <1>5, <1>6, <1>7, <1>8, <1>9, <1>10
     DEF Next, Step, Acquire, Release

\* A waiter is about to reclaim only what it saw stale and has found again, and
\* then the directory on disk is that old.
LEMMA StaleIsNoticed ==
    ASSUME TypeOK, SeenIsAsOld, NothingStale, [Next]_vars
    PROVE  NothingStale'
<1> USE DEF TypeOK, NothingStale, GoTo
<1>1. NoStat.age < StaleAge /\ NoDir.age < StaleAge
  BY GuardConstants DEF NoStat, NoDir
<1>2. ASSUME NEW p \in Process, MakeDir(p) PROVE NothingStale'
  BY <1>2, GuardConstants DEF MakeDir
<1>3. ASSUME NEW p \in Process,
             \/ DirExists(p) \/ ConfirmDir(p) \/ InspectMissing(p)
             \/ ReclaimMissing(p) \/ Poll(p) \/ CheckOwned(p)
      PROVE  NothingStale'
  BY <1>3 DEF DirExists, ConfirmDir, InspectMissing, ReclaimMissing, Poll,
       CheckOwned
<1>4. ASSUME NEW p \in Process, InspectDir(p) PROVE NothingStale'
  BY <1>4 DEF InspectDir
<1>5. ASSUME NEW p \in Process, JudgeLive(p) PROVE NothingStale'
  BY <1>1, <1>5 DEF JudgeLive, Forget
\* Nobody finds a stale lock when there is none.
<1>6. ASSUME NEW p \in Process, JudgeStale(p) PROVE NothingStale'
  <2>1. seen[p].age >= StaleAge /\ dir.ino = seen[p].ino
        /\ staleSeen' = staleSeen
    BY <1>6 DEF JudgeStale, MayReclaim
  <2>2. seen[p].age \in Nat /\ dir.age \in Nat
    BY DEF Dir, Stat
  <2>3. CASE InodeReuse
    BY <2>1, <2>2, <2>3, GuardConstants
  <2>4. CASE ~InodeReuse
    <3>1. seen[p].age = dir.age
      BY <2>1, <2>4 DEF SeenIsAsOld
    <3> QED
      BY <2>1, <2>2, <3>1, GuardConstants
  <2> QED
    BY <2>3, <2>4
<1>7. ASSUME NEW p \in Process, Reclaim(p) PROVE NothingStale'
  BY <1>1, <1>7 DEF Reclaim, RemoveDir
<1>8. ASSUME NEW p \in Process,
             \/ ConfirmMissing(p) \/ TimeOut(p) \/ CheckLost(p)
             \/ Unlink(p) \/ Crash(p)
      PROVE  NothingStale'
  <2>1. staleSeen' = staleSeen /\ pc'[p] # "reclaim"
    BY <1>8 DEF ConfirmMissing, TimeOut, CheckLost, Unlink, Crash, Leave
  <2>2. dir'.age \in {dir.age, NoDir.age}
    BY <1>8 DEF ConfirmMissing, TimeOut, CheckLost, Unlink, Crash, Leave, Dir
  <2>3. \A q \in Process : /\ seen'[q] \in {seen[q], NoStat}
                           /\ q # p => pc'[q] = pc[q]
    BY <1>8 DEF ConfirmMissing, TimeOut, CheckLost, Unlink, Crash, Leave
  <2> QED
    BY <1>1, <2>1, <2>2, <2>3
<1>9. CASE Tick
  <2>1. /\ dir'.age \in 0 .. StaleAge
        /\ \A p \in Process : seen'[p].age \in 0 .. StaleAge
    BY GuardTypes DEF Dir, Stat
  <2>2. ~staleSeen' =>
          /\ ~staleSeen /\ dir'.age # StaleAge
          /\ InodeReuse => \A p \in Process : seen'[p].age # StaleAge
    BY <1>9 DEF Tick
  <2>3. pc' = pc
    BY <1>9 DEF Tick
  <2>4. ~staleSeen' => dir'.age < StaleAge
    BY <2>1, <2>2, GuardConstants
  <2>5. ~staleSeen' /\ InodeReuse =>
          \A p \in Process : seen'[p].age < StaleAge
    <3> SUFFICES ASSUME ~staleSeen', InodeReuse, NEW p \in Process
                 PROVE  seen'[p].age < StaleAge
      OBVIOUS
    <3>1. seen'[p].age # StaleAge
      BY <2>2
    <3>2. seen'[p].age \in 0 .. StaleAge
      BY <2>1
    <3> DEFINE age == seen'[p].age
    <3> HIDE DEF age
    <3>3. age \in 0 .. StaleAge /\ age # StaleAge => age < StaleAge
      BY GuardConstants
    <3> QED
      BY <3>1, <3>2, <3>3 DEF age
  <2> QED
    BY <2>2, <2>3, <2>4, <2>5
<1>10. CASE UNCHANGED vars
  BY <1>10 DEF vars
<1> QED
  BY <1>2, <1>3, <1>4, <1>5, <1>6, <1>7, <1>8, <1>9, <1>10
     DEF Next, Step, Acquire, Release

\* While no lock has grown stale, only the holder removes the directory, so no
\* other process can make one.
LEMMA HolderKeepsDir ==
    ASSUME TypeOK, NothingStale, HolderMadeDir, [Next]_vars
    PROVE  HolderMadeDir'
<1>1. ASSUME NEW p \in Process,
             DirExists(p) \/ InspectDir(p) \/ InspectMissing(p)
               \/ ReclaimMissing(p) \/ Poll(p) \/ JudgeStale(p)
               \/ JudgeLive(p) \/ CheckOwned(p)
      PROVE  HolderMadeDir'
  BY <1>1, GuardConstants DEF DirExists, InspectDir, InspectMissing,
       ReclaimMissing, Poll, JudgeStale, MayReclaim, JudgeLive, CheckOwned,
       StillOwned, HolderMadeDir, Present, Holding, GoTo, TypeOK
\* There is no holder when there is no directory.
<1>2. ASSUME NEW p \in Process, MakeDir(p)
      PROVE  HolderMadeDir'
  BY <1>2, GuardConstants DEF MakeDir, HolderMadeDir, Present, Holding, GoTo,
       TypeOK, FreeInode, Dir
<1>3. ASSUME NEW p \in Process, ConfirmDir(p)
      PROVE  HolderMadeDir'
  BY <1>3, GuardConstants DEF ConfirmDir, HolderMadeDir, Present, Holding,
       GoTo, TypeOK
<1>4. ASSUME NEW p \in Process,
             ConfirmMissing(p) \/ TimeOut(p) \/ CheckLost(p)
      PROVE  HolderMadeDir'
  BY <1>4, GuardConstants DEF ConfirmMissing, TimeOut, CheckLost,
       HolderMadeDir, Present, Holding, GoTo, TypeOK, Leave
\* Nobody reclaims.
<1>5. ASSUME NEW p \in Process, Reclaim(p)
      PROVE  HolderMadeDir'
  BY <1>5, GuardConstants DEF Reclaim, HolderMadeDir, Present, Holding, GoTo,
       TypeOK, NothingStale
\* The holder that removes the directory is the only one.
<1>6. ASSUME NEW p \in Process, Unlink(p)
      PROVE  HolderMadeDir'
  BY <1>6, GuardConstants DEF Unlink, HolderMadeDir, Present, Holding, GoTo,
       TypeOK
<1>7. ASSUME NEW p \in Process, Crash(p)
      PROVE  HolderMadeDir'
  BY <1>7, GuardConstants DEF Crash, HolderMadeDir, Present, Holding, GoTo,
       TypeOK, Dir
<1>8. CASE Tick
  BY <1>8, GuardConstants DEF Tick, AgedDir, HolderMadeDir, Present, Holding,
       TypeOK, Dir
<1>9. CASE UNCHANGED vars
  BY <1>9 DEF vars, HolderMadeDir, Present, Holding, GoTo, TypeOK
<1> QED
  BY <1>1, <1>2, <1>3, <1>4, <1>5, <1>6, <1>7, <1>8, <1>9
     DEF Next, Step, Acquire, Release

\* A body begins with the identity of a directory that is there.
LEMMA BodyStaysOwner ==
    ASSUME TypeOK, BodyOwns, [Next]_vars
    PROVE  BodyOwns'
<1>1. ASSUME NEW p \in Process,
             MakeDir(p) \/ DirExists(p) \/ InspectDir(p)
               \/ InspectMissing(p) \/ ReclaimMissing(p) \/ Poll(p)
               \/ JudgeStale(p) \/ JudgeLive(p) \/ Reclaim(p)
               \/ CheckOwned(p)
      PROVE  BodyOwns'
  BY <1>1 DEF MakeDir, DirExists, InspectDir, InspectMissing, ReclaimMissing,
       Poll, JudgeStale, MayReclaim, JudgeLive, Reclaim, CheckOwned,
       StillOwned, BodyOwns, GoTo, TypeOK
<1>2. ASSUME NEW p \in Process, ConfirmDir(p)
      PROVE  BodyOwns'
  BY <1>2 DEF ConfirmDir, BodyOwns, GoTo, TypeOK, Present
<1>3. ASSUME NEW p \in Process,
             ConfirmMissing(p) \/ TimeOut(p) \/ CheckLost(p)
      PROVE  BodyOwns'
  BY <1>3 DEF ConfirmMissing, TimeOut, CheckLost, BodyOwns, GoTo, TypeOK,
       Leave
<1>4. ASSUME NEW p \in Process, Unlink(p) \/ Crash(p)
      PROVE  BodyOwns'
  BY <1>4 DEF Unlink, Crash, BodyOwns, GoTo, TypeOK
<1>5. CASE Tick
  BY <1>5 DEF Tick, BodyOwns
<1>6. CASE UNCHANGED vars
  BY <1>6 DEF vars, BodyOwns, GoTo, TypeOK
<1> QED
  BY <1>1, <1>2, <1>3, <1>4, <1>5, <1>6
     DEF Next, Step, Acquire, Release

\* No new lock directory has the identity of one that was removed while the
\* body of its holder, which still runs, goes on.
NoIdentityReturns ==
    \A p \in Process : MakeDir(p) => \A q \in lost : dir'.ino # own[q]

\* What the loser of a lock remembers is not on disk and does not come back.
LEMMA LostStaysLost ==
    ASSUME TypeOK, BodyOwns, LostLockIsReported,
           [Next]_vars, [NoIdentityReturns]_vars
    PROVE  LostLockIsReported'
<1>1. ASSUME NEW p \in Process,
             DirExists(p) \/ InspectDir(p) \/ InspectMissing(p)
               \/ ReclaimMissing(p) \/ Poll(p) \/ JudgeStale(p)
               \/ JudgeLive(p) \/ CheckOwned(p)
      PROVE  LostLockIsReported'
  BY <1>1, GuardConstants DEF DirExists, InspectDir, InspectMissing,
       ReclaimMissing, Poll, JudgeStale, MayReclaim, JudgeLive, CheckOwned,
       StillOwned, LostLockIsReported, GoTo, TypeOK
\* The new directory's identity is not a loser's.
<1>2. ASSUME NEW p \in Process, MakeDir(p)
      PROVE  LostLockIsReported'
  <2>1. NoIdentityReturns
    BY <1>2 DEF MakeDir, GoTo, TypeOK, vars
  <2> QED
    BY <1>2, <2>1 DEF NoIdentityReturns, MakeDir, LostLockIsReported, GoTo,
         TypeOK
<1>3. ASSUME NEW p \in Process, ConfirmDir(p)
      PROVE  LostLockIsReported'
  BY <1>3, GuardConstants DEF ConfirmDir, LostLockIsReported, GoTo, TypeOK
<1>4. ASSUME NEW p \in Process,
             ConfirmMissing(p) \/ TimeOut(p) \/ CheckLost(p)
      PROVE  LostLockIsReported'
  BY <1>4, GuardConstants DEF ConfirmMissing, TimeOut, CheckLost,
       LostLockIsReported, GoTo, TypeOK, Leave
<1>5. ASSUME NEW p \in Process, Reclaim(p)
      PROVE  LostLockIsReported'
  BY <1>5, GuardConstants DEF Reclaim, LostLockIsReported, GoTo, TypeOK,
       RemoveDir, NoDir, Unchecked, BodyOwns
<1>6. ASSUME NEW p \in Process, Unlink(p)
      PROVE  LostLockIsReported'
  BY <1>6, GuardConstants DEF Unlink, LostLockIsReported, GoTo, TypeOK, NoDir,
       Unchecked, BodyOwns
<1>7. ASSUME NEW p \in Process, Crash(p)
      PROVE  LostLockIsReported'
  BY <1>7, GuardConstants DEF Crash, LostLockIsReported, GoTo, TypeOK, Dir
<1>8. CASE Tick
  BY <1>8, GuardConstants DEF Tick, AgedDir, LostLockIsReported, TypeOK, Dir
<1>9. CASE UNCHANGED vars
  BY <1>9 DEF vars, LostLockIsReported, GoTo, TypeOK
<1> QED
  BY <1>1, <1>2, <1>3, <1>4, <1>5, <1>6, <1>7, <1>8, <1>9
     DEF Next, Step, Acquire, Release

\* Every behaviour keeps the inductive invariant.
THEOREM GuardInvariant == Spec => []GuardInv
<1>1. Init => GuardInv
  <2> SUFFICES ASSUME Init PROVE GuardInv
    OBVIOUS
  <2>1. TypeOK
    BY GuardInit
  <2>2. SeenIsAsOld
    BY DEF Init, SeenIsAsOld, NoDir, NoStat
  <2>3. NothingStale
    BY GuardConstants DEF Init, NothingStale, NoDir, NoStat
  <2> QED
    BY <2>1, <2>2, <2>3
       DEF Init, GuardInv, HolderMadeDir, Holding, BodyOwns
<1>2. GuardInv /\ [Next]_vars => GuardInv'
  BY GuardTypes, SeenStaysAsOld, StaleIsNoticed, HolderKeepsDir,
     BodyStaysOwner DEF GuardInv
<1> QED
  BY <1>1, <1>2, PTL DEF Spec

\* The bodies of the guard exclude each other, and find their own lock when
\* they release, until a lock directory (or a look at one, where inodes are
\* reused) has outlived MUTATION_LOCK_STALE_SECONDS (store.py:700-824).
THEOREM Serialized == Spec => []SerializedUntilStale
<1>1. GuardInv => SerializedUntilStale
  BY DEF GuardInv, HolderMadeDir, Holding, SerializedUntilStale
<1> QED
  BY <1>1, GuardInvariant, PTL

\* A holder whose lock was removed while its body ran leaves the guard by the
\* RuntimeError of _release_mutation_guard (store.py:800-821), stale locks or
\* not, as long as no later lock directory is given the identity of the
\* removed one; a file system that does so hides the loss.
THEOREM LossIsReported ==
    Spec /\ [][NoIdentityReturns]_vars => []LostLockIsReported
<1>1. Init => LostLockIsReported
  BY DEF Init, LostLockIsReported
<1>2. GuardInv /\ LostLockIsReported /\ [Next]_vars /\ [NoIdentityReturns]_vars
        => LostLockIsReported'
  BY LostStaysLost DEF GuardInv
<1> QED
  BY <1>1, <1>2, GuardInvariant, PTL DEF Spec

\* In particular where no new directory gets an identity that is remembered.
COROLLARY LossIsReportedWithoutReuse ==
    ~InodeReuse => (Spec => []LostLockIsReported)
<1> SUFFICES ASSUME ~InodeReuse PROVE Spec => []LostLockIsReported
  OBVIOUS
<1>1. GuardInv /\ [Next]_vars => [NoIdentityReturns]_vars
  BY DEF GuardInv, TypeOK, NoIdentityReturns, MakeDir, FreeInode, Remembered,
         Dir
<1> QED
  BY <1>1, LossIsReported, GuardInvariant, PTL DEF Spec

\* The guard is an implementation of the abstract lock: every step of a body's
\* begin or end is one of Enter and Leave, and every other step a stutter or
\* the moment a lock grows stale (store.py:700-824).
THEOREM GuardImplementsStoreLock == Spec => ImplementsStoreLock
<1> DEFINE Inside == {p \in Process : pc[p] = "body"}
<1>1. Init => Lock!Init
  BY DEF Init, Lock!Init
<1>2. GuardInv /\ [Next]_vars => [Lock!Next]_Lock!vars
  <2> SUFFICES ASSUME GuardInv, [Next]_vars
               PROVE  [Lock!Next]_Lock!vars
    OBVIOUS
  <2> USE DEF GuardInv, TypeOK, GoTo
  <2>1. ASSUME NEW p \in Process,
               \/ MakeDir(p) \/ DirExists(p) \/ InspectDir(p)
               \/ InspectMissing(p) \/ JudgeStale(p) \/ JudgeLive(p)
               \/ Reclaim(p) \/ ReclaimMissing(p) \/ Poll(p)
        PROVE  UNCHANGED Lock!vars
    <3>1. pc[p] # "body" /\ pc'[p] # "body" /\ staleSeen' = staleSeen
      BY <2>1 DEF MakeDir, DirExists, InspectDir, InspectMissing, JudgeStale,
           JudgeLive, Reclaim, ReclaimMissing, Poll
    <3>2. \A q \in Process : q # p => pc'[q] = pc[q]
      BY <2>1 DEF MakeDir, DirExists, InspectDir, InspectMissing, JudgeStale,
           JudgeLive, Reclaim, ReclaimMissing, Poll
    <3> QED
      BY <3>1, <3>2 DEF Lock!vars
  \* Until a lock is stale, the process that comes in finds nobody.
  <2>2. ASSUME NEW p \in Process, ConfirmDir(p) PROVE Lock!Enter(p)
    <3>1. pc[p] = "confirm" /\ pc' = [pc EXCEPT ![p] = "body"]
          /\ staleSeen' = staleSeen
      BY <2>2 DEF ConfirmDir
    <3>2. Inside' = Inside \cup {p} /\ p \notin Inside
      BY <3>1
    <3>3. Inside = {} \/ staleSeen
      BY <3>1 DEF HolderMadeDir, Holding
    <3> QED
      BY <3>1, <3>2, <3>3 DEF Lock!Enter
  \* Every way out of a body, and every way a process gives up.
  <2>3. ASSUME NEW p \in Process,
               \/ ConfirmMissing(p) \/ TimeOut(p) \/ CheckOwned(p)
               \/ CheckLost(p) \/ Unlink(p) \/ Crash(p)
        PROVE  Lock!Leave(p) \/ UNCHANGED Lock!vars
    <3>1. /\ pc'[p] # "body" /\ staleSeen' = staleSeen
          /\ \A q \in Process : q # p => pc'[q] = pc[q]
      BY <2>3 DEF ConfirmMissing, TimeOut, CheckOwned, CheckLost, Unlink,
           Crash, Leave
    <3>2. Inside' = Inside \ {p}
      BY <3>1
    <3>3. p \notin Inside => Inside' = Inside
      BY <3>2
    <3> QED
      BY <3>1, <3>2, <3>3 DEF Lock!Leave, Lock!vars
  <2>4. CASE Tick
    <3>1. Inside' = Inside /\ staleSeen' \in BOOLEAN
      BY <2>4, GuardTypes DEF Tick
    <3>2. staleSeen => staleSeen'
      BY <2>4 DEF Tick
    <3>3. staleSeen' = TRUE \/ staleSeen' = staleSeen
      BY <3>1, <3>2
    <3> QED
      BY <3>1, <3>3 DEF Lock!Next, Lock!BecomeOverdue, Lock!vars
  <2>5. CASE UNCHANGED vars
    BY <2>5 DEF vars, Lock!vars
  <2> QED
    BY <2>1, <2>2, <2>3, <2>4, <2>5
       DEF Next, Step, Acquire, Release, Lock!Next
<1> QED
  BY <1>1, <1>2, GuardInvariant, PTL
     DEF Spec, ImplementsStoreLock, Lock!Spec

=============================================================================
