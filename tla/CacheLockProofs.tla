--------------------------- MODULE CacheLockProofs ---------------------------
(***************************************************************************)
(* For every number of processes, every staleness age and every timeout,   *)
(* and even where the file system reuses the identity of a directory at    *)
(* once: project_cache_lock implements the abstract lock.                  *)
(***************************************************************************)
EXTENDS CacheLock, TLAPS

-----------------------------------------------------------------------------

\* The initial state is typed.
LEMMA CacheLockInit == Init => TypeOK
<1> SUFFICES ASSUME Init PROVE TypeOK
  OBVIOUS
<1>1. NoStat \in Stat
  BY CacheLockConstants DEF NoStat, Stat
<1>2. 0 \in 0 .. Timeout /\ 0 \in 0 .. MaxCrashes
  BY CacheLockConstants
<1>3. dir \in Stat /\ seen \in [Process -> Stat]
  BY <1>1 DEF Init
<1>4. waited \in [Process -> 0 .. Timeout] /\ crashes \in 0 .. MaxCrashes
  BY <1>2 DEF Init
<1> QED
  BY <1>3, <1>4 DEF Init, TypeOK

\* Every step keeps the types.
LEMMA CacheLockTypes == TypeOK /\ [Next]_vars => TypeOK'
<1> SUFFICES ASSUME TypeOK, [Next]_vars PROVE TypeOK'
  OBVIOUS
<1> USE DEF TypeOK, Acquiring, Holding, GoTo
<1>1. NoStat \in Stat /\ 0 \in 0 .. Timeout
  BY CacheLockConstants DEF NoStat, Stat
<1>2. ASSUME NEW p \in Process, MakeDir(p) PROVE TypeOK'
  <2>1. dir' \in Stat
    BY <1>2, CacheLockConstants DEF MakeDir, Stat
  <2> QED
    BY <1>2, <2>1 DEF MakeDir
<1>3. ASSUME NEW p \in Process,
             DirExists(p) \/ InspectMissing(p) \/ Poll(p)
      PROVE  TypeOK'
  BY <1>3 DEF DirExists, InspectMissing, Poll
<1>4. ASSUME NEW p \in Process, ConfirmDir(p) PROVE TypeOK'
  BY <1>4, <1>1 DEF ConfirmDir, Stat
<1>5. ASSUME NEW p \in Process, InspectDir(p) PROVE TypeOK'
  BY <1>5 DEF InspectDir
<1>6. ASSUME NEW p \in Process, Judge(p) PROVE TypeOK'
  BY <1>6, <1>1 DEF Judge
<1>7. ASSUME NEW p \in Process, Reclaim(p) PROVE TypeOK'
  BY <1>7, <1>1 DEF Reclaim
<1>8. ASSUME NEW p \in Process,
             ConfirmMissing(p) \/ TimeOut(p) \/ Unlink(p)
      PROVE  TypeOK'
  BY <1>8, <1>1 DEF ConfirmMissing, TimeOut, Unlink, Return
<1>9. ASSUME NEW p \in Process, CheckOwned(p) PROVE TypeOK'
  <2>1. CASE dir.ino = own[p]
    BY <1>9, <2>1 DEF CheckOwned
  <2>2. CASE dir.ino # own[p]
    BY <1>9, <2>2, <1>1 DEF CheckOwned, Return
  <2> QED
    BY <2>1, <2>2
<1>10. ASSUME NEW p \in Process, Crash(p) PROVE TypeOK'
  BY <1>10, <1>1, CacheLockConstants DEF Crash, Return
<1>11. CASE Tick
  <2>1. dir' \in Stat
    BY <1>11, CacheLockConstants DEF Tick, Older, Stat
  <2>2. seen' \in [Process -> Stat]
    BY <1>11, CacheLockConstants DEF Tick, Older, Stat
  <2>3. waited' \in [Process -> 0 .. Timeout]
    BY <1>11, CacheLockConstants DEF Tick
  <2>4. overdue' \in BOOLEAN
    BY <1>11 DEF Tick
  <2> QED
    BY <1>11, <2>1, <2>2, <2>3, <2>4 DEF Tick
<1>12. CASE UNCHANGED vars
  BY <1>12 DEF vars
<1> QED
  BY <1>2, <1>3, <1>4, <1>5, <1>6, <1>7, <1>8, <1>9, <1>10, <1>11, <1>12
     DEF Next, Step

\* Every variable keeps its type.
THEOREM CacheLockTypeCorrect == Spec => []TypeOK
<1> QED
  BY CacheLockInit, CacheLockTypes, PTL DEF Spec

-----------------------------------------------------------------------------
(* The inductive invariant.  Exclusion of the bodies is not inductive: it   *)
(* rests on the directory being there from one mkdir to the rmdir of the    *)
(* same process, and that on nobody being about to reclaim it.              *)

\* Nothing has grown stale, so nobody is about to reclaim a lock.
NothingStale ==
    ~overdue =>
      /\ dir.age < StaleAge
      /\ \A p \in Process : seen[p].age < StaleAge /\ pc[p] # "reclaim"

\* The process that made the directory is the only one to hold it.
OneHolder ==
    ~overdue =>
      \A p, q \in Process :
        pc[p] \in Holding =>
          Present /\ (pc[q] \in Holding => p = q)

CacheLockInv == TypeOK /\ NothingStale /\ OneHolder

\* A waiter is about to reclaim only what it saw stale.
LEMMA StaleIsNoticed ==
    ASSUME TypeOK, NothingStale, [Next]_vars
    PROVE  NothingStale'
<1> USE DEF TypeOK, NothingStale, GoTo
<1>1. NoStat.age < StaleAge
  BY CacheLockConstants DEF NoStat
<1>2. ASSUME NEW p \in Process, MakeDir(p) PROVE NothingStale'
  BY <1>2, CacheLockConstants DEF MakeDir
<1>3. ASSUME NEW p \in Process,
             \/ DirExists(p) \/ ConfirmDir(p) \/ InspectMissing(p) \/ Poll(p)
      PROVE  NothingStale'
  BY <1>3 DEF DirExists, ConfirmDir, InspectMissing, Poll
<1>4. ASSUME NEW p \in Process, InspectDir(p) PROVE NothingStale'
  BY <1>4 DEF InspectDir
<1>5. ASSUME NEW p \in Process, Judge(p) PROVE NothingStale'
  <2>1. ~overdue => ~MayReclaim(p)
    BY CacheLockConstants DEF MayReclaim, Stat
  <2> QED
    BY <1>5, <1>1, <2>1 DEF Judge
<1>6. ASSUME NEW p \in Process, Reclaim(p) PROVE NothingStale'
  BY <1>6, <1>1 DEF Reclaim
<1>7. ASSUME NEW p \in Process,
             \/ ConfirmMissing(p) \/ TimeOut(p) \/ CheckOwned(p)
             \/ Unlink(p) \/ Crash(p)
      PROVE  NothingStale'
  <2>1. overdue' = overdue /\ pc'[p] # "reclaim" /\ dir' \in {dir, NoStat}
    BY <1>7 DEF ConfirmMissing, TimeOut, CheckOwned, Unlink, Crash, Return
  <2>2. \A q \in Process : /\ seen'[q] \in {seen[q], NoStat}
                           /\ q # p => pc'[q] = pc[q]
    BY <1>7 DEF ConfirmMissing, TimeOut, CheckOwned, Unlink, Crash, Return
  <2> QED
    BY <1>1, <2>1, <2>2
<1>8. CASE Tick
  <2>1. dir'.age \in 0 .. StaleAge
        /\ \A p \in Process : seen'[p].age \in 0 .. StaleAge
    BY CacheLockTypes DEF Stat
  <2>2. ~overdue' => /\ ~overdue /\ dir'.age # StaleAge
                     /\ \A p \in Process : seen'[p].age # StaleAge
    BY <1>8 DEF Tick
  <2>3. pc' = pc
    BY <1>8 DEF Tick
  <2> QED
    BY <2>1, <2>2, <2>3, CacheLockConstants
<1>9. CASE UNCHANGED vars
  BY <1>9 DEF vars
<1> QED
  BY <1>2, <1>3, <1>4, <1>5, <1>6, <1>7, <1>8, <1>9 DEF Next, Step

\* Only the holder removes the directory while nothing is stale.
LEMMA HolderStaysAlone ==
    ASSUME TypeOK, NothingStale, OneHolder, [Next]_vars
    PROVE  OneHolder'
<1> USE DEF TypeOK, OneHolder, GoTo, Holding
\* There is no holder when there is no directory.
<1>1. ASSUME NEW p \in Process, MakeDir(p) PROVE OneHolder'
  BY <1>1, CacheLockConstants DEF MakeDir, Present
<1>2. ASSUME NEW p \in Process,
             \/ DirExists(p) \/ InspectDir(p) \/ InspectMissing(p)
             \/ Judge(p) \/ Poll(p)
      PROVE  OneHolder'
  BY <1>2
     DEF DirExists, InspectDir, InspectMissing, Judge, Poll, Present
<1>3. ASSUME NEW p \in Process, ConfirmDir(p) PROVE OneHolder'
  BY <1>3 DEF ConfirmDir, Present
\* Nobody reclaims.
<1>4. ASSUME NEW p \in Process, Reclaim(p) PROVE OneHolder'
  BY <1>4 DEF Reclaim, NothingStale
<1>5. ASSUME NEW p \in Process,
             \/ ConfirmMissing(p) \/ TimeOut(p) \/ CheckOwned(p) \/ Crash(p)
      PROVE  OneHolder'
  <2>1. /\ dir' = dir /\ overdue' = overdue
        /\ pc'[p] \in {"idle", "unlink"}
        /\ pc'[p] = "unlink" => pc[p] = "body"
        /\ \A q \in Process : q # p => pc'[q] = pc[q]
    BY <1>5 DEF ConfirmMissing, TimeOut, CheckOwned, Crash, Return
  <2> QED
    BY <2>1 DEF Present
\* The holder that removes the directory is the only one.
<1>6. ASSUME NEW p \in Process, Unlink(p) PROVE OneHolder'
  BY <1>6 DEF Unlink, Return
<1>7. CASE Tick
  BY <1>7 DEF Tick, Present, Stat
<1>8. CASE UNCHANGED vars
  BY <1>8 DEF vars, Present
<1> QED
  BY <1>1, <1>2, <1>3, <1>4, <1>5, <1>6, <1>7, <1>8 DEF Next, Step

\* Every behaviour keeps the inductive invariant.
LEMMA CacheLockInvariant == Spec => []CacheLockInv
<1>1. Init => CacheLockInv
  BY CacheLockInit, CacheLockConstants
     DEF Init, CacheLockInv, NothingStale, OneHolder, Holding, NoStat
<1>2. CacheLockInv /\ [Next]_vars => CacheLockInv'
  BY CacheLockTypes, StaleIsNoticed, HolderStaysAlone DEF CacheLockInv
<1> QED
  BY <1>1, <1>2, PTL DEF Spec

\* project_cache_lock is an implementation of the abstract lock: whoever
\* enters finds nobody in the section, or a lock has been there for
\* PROJECT_CACHE_LOCK_STALE_SECONDS (safe_cache_io.py:515-620).
THEOREM CacheLockImplementsStoreLock == Spec => ImplementsStoreLock
<1> DEFINE Inside == {p \in Process : pc[p] = "body"}
<1>1. Init => Lock!Init
  BY DEF Init, Lock!Init
<1>2. CacheLockInv /\ [Next]_vars => [Lock!Next]_Lock!vars
  <2> SUFFICES ASSUME CacheLockInv, [Next]_vars
               PROVE  [Lock!Next]_Lock!vars
    OBVIOUS
  <2> USE DEF CacheLockInv, TypeOK, GoTo
  <2>1. ASSUME NEW p \in Process,
               \/ MakeDir(p) \/ DirExists(p) \/ InspectDir(p)
               \/ InspectMissing(p) \/ Judge(p) \/ Reclaim(p) \/ Poll(p)
        PROVE  UNCHANGED Lock!vars
    <3>1. pc[p] # "body" /\ pc'[p] # "body" /\ overdue' = overdue
      BY <2>1 DEF MakeDir, DirExists, InspectDir, InspectMissing, Judge,
           Reclaim, Poll
    <3>2. \A q \in Process : q # p => pc'[q] = pc[q]
      BY <2>1 DEF MakeDir, DirExists, InspectDir, InspectMissing, Judge,
           Reclaim, Poll
    <3> QED
      BY <3>1, <3>2 DEF Lock!vars
  <2>2. ASSUME NEW p \in Process, ConfirmDir(p) PROVE Lock!Enter(p)
    <3>1. pc[p] = "confirm" /\ pc' = [pc EXCEPT ![p] = "body"]
          /\ overdue' = overdue
      BY <2>2 DEF ConfirmDir
    <3>2. Inside' = Inside \cup {p} /\ p \notin Inside
      BY <3>1
    <3>3. Inside = {} \/ overdue
      BY <3>1 DEF OneHolder, Holding
    <3> QED
      BY <3>1, <3>2, <3>3 DEF Lock!Enter
  <2>3. ASSUME NEW p \in Process,
               \/ ConfirmMissing(p) \/ TimeOut(p) \/ CheckOwned(p)
               \/ Unlink(p) \/ Crash(p)
        PROVE  Lock!Leave(p) \/ UNCHANGED Lock!vars
    <3>1. /\ pc'[p] # "body" /\ overdue' = overdue
          /\ \A q \in Process : q # p => pc'[q] = pc[q]
      BY <2>3 DEF ConfirmMissing, TimeOut, CheckOwned, Unlink, Crash, Return
    <3>2. Inside' = Inside \ {p}
      BY <3>1
    <3>3. p \notin Inside => Inside' = Inside
      BY <3>2
    <3> QED
      BY <3>1, <3>2, <3>3 DEF Lock!Leave, Lock!vars
  <2>4. CASE Tick
    <3>1. Inside' = Inside /\ overdue' \in BOOLEAN
      BY <2>4, CacheLockTypes DEF Tick
    <3>2. overdue => overdue'
      BY <2>4 DEF Tick
    <3>3. overdue' = TRUE \/ overdue' = overdue
      BY <3>1, <3>2
    <3> QED
      BY <3>1, <3>3 DEF Lock!Next, Lock!BecomeOverdue, Lock!vars
  <2>5. CASE UNCHANGED vars
    BY <2>5 DEF vars, Lock!vars
  <2> QED
    BY <2>1, <2>2, <2>3, <2>4, <2>5 DEF Next, Step, Lock!Next
<1> QED
  BY <1>1, <1>2, CacheLockInvariant, PTL
     DEF Spec, ImplementsStoreLock, Lock!Spec

=============================================================================
