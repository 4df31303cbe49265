------------------------- MODULE ApiSurfaceCacheProofs -------------------------
(***************************************************************************)
(* For any numbers of scans, modules, environments and captures: the scans *)
(* that share the two caches use the lock as CacheLock has it, and while   *)
(* it excludes them no surface is replaced by an older one, none is lost,  *)
(* and the older file never mixes environments.                            *)
(***************************************************************************)
EXTENDS ApiSurfaceCache, CacheLockProofs

-----------------------------------------------------------------------------
(* The sessions use the lock.                                              *)

\* A step of the caches is a step of the lock, or leaves it alone.
LEMMA CacheStepsUseTheLock == [CacheNext]_allVars => [Next]_vars
<1> SUFFICES ASSUME [CacheNext]_allVars PROVE [Next]_vars
  OBVIOUS
<1>1. ASSUME NEW p \in Process,
             \/ \E m \in Module : Ask(p, m)
             \/ NoteState(p) \/ Build(p) \/ Enter(p) \/ Flush(p)
             \/ Transaction(p)
      PROVE  UNCHANGED vars
  BY <1>1
     DEF Ask, NoteState, Build, Enter, Flush, Transaction, LoadModules,
         SaveModules, LoadSurfaces, SaveSurfaces
<1>2. ASSUME NEW p \in Process, LockStep(p) PROVE Next
  BY <1>2 DEF LockStep, Next
<1>3. ASSUME NEW p \in Process, Die(p) PROVE Next \/ UNCHANGED vars
  BY <1>3 DEF Die, Next
<1>4. CASE Time
  BY <1>4 DEF Time, Next
<1>5. CASE UNCHANGED allVars
  BY <1>5 DEF allVars
<1> QED
  BY <1>1, <1>2, <1>3, <1>4, <1>5 DEF CacheNext

\* The caches with their lock are an instance of the lock's own behaviours.
LEMMA CachesRefineLock == CacheSpec => Spec
<1>1. CacheInit => Init
  BY DEF CacheInit
<1> QED
  BY <1>1, CacheStepsUseTheLock, PTL DEF CacheSpec, Spec

\* To whoever reads and writes the caches, project_cache_lock is the abstract
\* lock: one flush at a time, until a lock is overdue.
THEOREM CachesImplementStoreLock == CacheSpec => ImplementsStoreLock
<1> QED
  BY CachesRefineLock, CacheLockImplementsStoreLock

-----------------------------------------------------------------------------
(* Types.                                                                  *)

\* What has been merged is a map.
LEMMA MergedIsMap ==
    ASSUME NEW current \in Map, NEW pending \in Map, NEW observed
    PROVE  Merged(current, pending, observed) \in Map
  BY DEF Merged, Map

LEMMA NewSessionTyped == NewSession \in Session /\ NoMap \in Map
<1>1. NoMap \in Map
  BY DEF NoMap, Map
<1> QED
  BY <1>1 DEF NewSession, Session

\* The state of the lock that goes with where a session stands.
AtLock(stage, at) ==
    /\ stage \in Scanning => at = "idle"
    /\ stage \in Guarded => at = "body"
    /\ stage = "leave" => at \in {"body", "unlink"}

Typed(s) ==
    /\ s \in Session
    /\ s.at \in {"stat", "build", "enter"} => s.module \in Module
    /\ s.at = "enter" => s.built \in Surface

\* A step of one session, outside the lock, keeps the types.
LEMMA SessionStepTypes ==
    ASSUME CacheTypeOK, NEW p \in Process, NEW s,
           Typed(s), AtLock(s.at, pc[p]), Set(p, s),
           UNCHANGED <<vars, environment>>,
           modules' \in [env : Env \cup {Nothing}, of : Map],
           surfaces' \in Map, captures' \in 0 .. MaxCaptures
    PROVE  CacheTypeOK'
<1>1. TypeOK'
  BY DEF CacheTypeOK, TypeOK, vars
<1>2. session' \in [Process -> Session]
  BY DEF CacheTypeOK, Set, Typed
<1>3. ASSUME NEW q \in Process
      PROVE  Typed(session'[q]) /\ AtLock(session'[q].at, pc'[q])
  <2>1. pc' = pc
    BY DEF vars
  <2>2. CASE q = p
    BY <2>1, <2>2 DEF CacheTypeOK, Set
  <2>3. CASE q # p
    BY <2>1, <2>3 DEF CacheTypeOK, Set, Typed, AtLock
  <2> QED
    BY <2>2, <2>3
<1> QED
  BY <1>1, <1>2, <1>3 DEF CacheTypeOK, Typed, AtLock

\* A capture may be found or not: either way the session stays a session.
LEMMA LookedTyped ==
    ASSUME NEW p \in Process, NEW s \in Session
    PROVE  /\ Looked(p, s) \in Session
           /\ Looked(p, s).at \in {"scan", "build"}
           /\ Looked(p, s).module = s.module
<1> DEFINE found == s.view[s.module]
           at == IF found # Nothing /\ found.env = environment[p]
                 THEN "scan" ELSE "build"
<1>1. Looked(p, s) = [s EXCEPT !.at = at]
  BY DEF Looked
<1>2. at \in {"scan", "build"}
  OBVIOUS
<1> HIDE DEF at
<1> QED
  BY <1>1, <1>2 DEF Session

\* The steps of a scan keep the types.
LEMMA ScanTypes ==
    ASSUME CacheTypeOK, NEW p \in Process,
           \/ \E m \in Module : Ask(p, m)
           \/ NoteState(p) \/ Build(p) \/ Enter(p) \/ Flush(p)
    PROVE  CacheTypeOK'
<1>1. /\ session[p] \in Session
      /\ modules \in [env : Env \cup {Nothing}, of : Map]
      /\ surfaces \in Map /\ captures \in 0 .. MaxCaptures
      /\ environment[p] \in Env
      /\ session[p].at \in Scanning => pc[p] = "idle"
  BY ApiSurfaceCacheConstants DEF CacheTypeOK
<1>2. ASSUME NEW m \in Module, Ask(p, m) PROVE CacheTypeOK'
  <2> DEFINE s == [session[p] EXCEPT !.asked = @ \cup {m}, !.module = m]
             view == Merged(surfaces, s.pending, s.seen)
             read == [s EXCEPT !.at = "stat", !.view = view]
  <2>1. s \in Session /\ s.at = "scan" /\ s.module = m
    BY <1>1, <1>2 DEF Session, Ask, At
  <2>2. view \in Map
    <3>1. s.pending \in Map
      BY <2>1 DEF Session
    <3> HIDE DEF s
    <3> QED
      BY <1>1, <3>1, MergedIsMap
  <2> HIDE DEF s, view
  <2>3. read \in Session /\ read.at = "stat" /\ read.module \in Module
    BY <2>1, <2>2 DEF Session
  <2>4. /\ Set(p, IF s.fresh THEN Looked(p, s) ELSE read)
        /\ UNCHANGED <<vars, environment, modules, surfaces, captures>>
        /\ pc[p] = "idle"
    BY <1>1, <1>2 DEF Ask, At, Scanning, s, view
  <2>5. CASE s.fresh
    <3>1. Typed(Looked(p, s)) /\ AtLock(Looked(p, s).at, pc[p])
      BY <2>1, <2>4, LookedTyped DEF Typed, AtLock, Scanning, Guarded
    <3> QED
      BY <1>1, <2>4, <2>5, <3>1, SessionStepTypes
  <2>6. CASE ~s.fresh
    <3>1. Typed(read) /\ AtLock(read.at, pc[p])
      BY <2>3, <2>4 DEF Typed, AtLock, Scanning, Guarded
    <3> HIDE DEF read
    <3> QED
      BY <1>1, <2>4, <2>6, <3>1, SessionStepTypes
  <2> QED
    BY <2>5, <2>6
<1>3. CASE NoteState(p)
  <2> DEFINE s == [session[p] EXCEPT !.fresh = TRUE]
  <2>1. s \in Session /\ s.module \in Module
    BY <1>1, <1>3 DEF Session, NoteState, At, CacheTypeOK
  <2>2. /\ Set(p, Looked(p, s))
        /\ UNCHANGED <<vars, environment, modules, surfaces, captures>>
        /\ pc[p] = "idle"
    BY <1>1, <1>3 DEF NoteState, At, Scanning
  <2> HIDE DEF s
  <2>3. Typed(Looked(p, s)) /\ AtLock(Looked(p, s).at, pc[p])
    BY <2>1, <2>2, LookedTyped DEF Typed, AtLock, Scanning, Guarded
  <2> QED
    BY <1>1, <2>2, <2>3, SessionStepTypes
<1>4. CASE Build(p)
  <2> DEFINE surface == [env |-> environment[p], at |-> captures + 1]
             found == [session[p] EXCEPT !.at = "enter", !.built = surface]
             none == [session[p] EXCEPT !.at = "scan", !.module = Nothing]
  <2>1. pc[p] = "idle" /\ UNCHANGED <<vars, environment, modules, surfaces>>
    BY <1>1, <1>4 DEF Build, At, Scanning
  <2>2. CASE captures < MaxCaptures /\ captures' = captures + 1
             /\ Set(p, found)
    <3>1. surface \in Surface /\ captures' \in 0 .. MaxCaptures
      BY <1>1, <2>2, ApiSurfaceCacheConstants DEF Surface
    <3>2. session[p].module \in Module
      BY <1>4 DEF CacheTypeOK, Build, At
    <3> HIDE DEF surface
    <3>3. Typed(found) /\ AtLock(found.at, pc[p])
      BY <1>1, <2>1, <3>1, <3>2
         DEF Session, Typed, AtLock, Scanning, Guarded
    <3> HIDE DEF found
    <3> QED
      BY <1>1, <2>1, <2>2, <3>1, <3>3, SessionStepTypes
  <2>3. CASE Set(p, none) /\ UNCHANGED captures
    <3>1. Typed(none) /\ AtLock(none.at, pc[p])
      BY <1>1, <2>1 DEF Session, Typed, AtLock, Scanning, Guarded
    <3> HIDE DEF none
    <3> QED
      BY <1>1, <2>1, <2>3, <3>1, SessionStepTypes
  <2> QED
    BY <1>4, <2>2, <2>3 DEF Build
<1>5. CASE Enter(p)
  <2> DEFINE m == session[p].module
             known == IF session[p].known = Nothing THEN ModulesFor(p)
                      ELSE session[p].known
             s == [session[p] EXCEPT
             !.at = "scan", !.module = Nothing, !.built = Nothing,
             !.known = known,
             !.seenOld[m] = IF known[m] # Nothing THEN known[m] ELSE @,
             !.seen[m] = IF session[p].view[m] # Nothing
                           THEN session[p].view[m] ELSE @,
             !.view[m] = session[p].built,
             !.pending[m] = session[p].built]
  <2>1. /\ Set(p, s) /\ pc[p] = "idle"
        /\ UNCHANGED <<vars, environment, modules, surfaces, captures>>
    BY <1>1, <1>5 DEF Enter, At, Scanning
  <2>2. m \in Module /\ session[p].built \in Surface
    BY <1>5 DEF CacheTypeOK, Enter, At
  <2>3. known \in Map
    BY <1>1, NewSessionTyped DEF ModulesFor, Session
  <2> HIDE DEF m, known
  <2>4. s \in Session /\ s.at = "scan"
    <3> DEFINE old == [session[p].seenOld EXCEPT ![m] =
                         IF known[m] # Nothing THEN known[m] ELSE @]
               new == [session[p].seen EXCEPT ![m] =
                         IF session[p].view[m] # Nothing
                         THEN session[p].view[m] ELSE @]
               view == [session[p].view EXCEPT ![m] = session[p].built]
               pending == [session[p].pending EXCEPT ![m] = session[p].built]
    <3>1. /\ session[p].seenOld \in Map /\ session[p].seen \in Map
          /\ session[p].view \in Map /\ session[p].pending \in Map
      BY <1>1 DEF Session
    <3>2. old \in Map /\ new \in Map
      BY <2>2, <2>3, <3>1 DEF Map
    <3>3. view \in Map /\ pending \in Map
      BY <2>2, <3>1 DEF Map
    <3>4. s = [session[p] EXCEPT
                 !.at = "scan", !.module = Nothing, !.built = Nothing,
                 !.known = known, !.seenOld = old, !.seen = new,
                 !.view = view, !.pending = pending]
      BY <1>1 DEF Session
    <3> HIDE DEF s, old, new, view, pending
    <3> QED
      BY <1>1, <2>3, <3>2, <3>3, <3>4 DEF Session
  <2> HIDE DEF s
  <2>5. Typed(s) /\ AtLock(s.at, pc[p])
    BY <2>1, <2>4 DEF Typed, AtLock, Scanning, Guarded
  <2> QED
    BY <1>1, <2>1, <2>5, SessionStepTypes
<1>6. CASE Flush(p)
  <2> DEFINE s == [NewSession EXCEPT !.at = "lock",
                     !.pending = session[p].pending,
                     !.seen = session[p].seen,
                     !.seenOld = session[p].seenOld]
  <2>1. /\ Set(p, NewSession) \/ Set(p, s)
        /\ pc[p] = "idle"
        /\ UNCHANGED <<vars, environment, modules, surfaces, captures>>
    BY <1>1, <1>6 DEF Flush, At, Scanning
  <2>2. Typed(s) /\ AtLock(s.at, pc[p])
    BY <1>1, <2>1, NewSessionTyped
       DEF Session, NewSession, Typed, AtLock, Scanning, Guarded
  <2>3. Typed(NewSession) /\ AtLock(NewSession.at, pc[p])
    BY <2>1, NewSessionTyped
       DEF NewSession, Typed, AtLock, Scanning, Guarded
  <2> HIDE DEF s
  <2> QED
    BY <1>1, <2>1, <2>2, <2>3, SessionStepTypes
<1> QED
  BY <1>2, <1>3, <1>4, <1>5, <1>6

\* Where the lock takes a process that has it.
LEMMA StepsOfTheLock ==
    ASSUME TypeOK, NEW p \in Process, Step(p)
    PROVE  /\ \A q \in Process : q # p => pc'[q] = pc[q]
           /\ pc[p] = "body" => pc'[p] \in {"idle", "unlink"}
           /\ pc[p] = "unlink" => pc'[p] = "idle"
           /\ overdue' = overdue
<1> USE DEF TypeOK, GoTo
<1>1. CASE \/ MakeDir(p) \/ DirExists(p) \/ ConfirmDir(p) \/ InspectDir(p)
           \/ InspectMissing(p) \/ Judge(p) \/ Reclaim(p) \/ Poll(p)
  BY <1>1 DEF MakeDir, DirExists, ConfirmDir, InspectDir, InspectMissing,
       Judge, Reclaim, Poll
<1>2. CASE \/ ConfirmMissing(p) \/ TimeOut(p) \/ CheckOwned(p) \/ Unlink(p)
  BY <1>2 DEF ConfirmMissing, TimeOut, CheckOwned, Unlink, Return
<1> QED
  BY <1>1, <1>2 DEF Step

\* The state is typed when the lock is and every session is.
LEMMA AllTyped ==
    ASSUME TypeOK', environment' \in Environments,
           modules' \in [env : Env \cup {Nothing}, of : Map],
           surfaces' \in Map, captures' \in 0 .. MaxCaptures,
           session' \in [Process -> Session],
           \A q \in Process :
             Typed(session'[q]) /\ AtLock(session'[q].at, pc'[q])
    PROVE  CacheTypeOK'
  BY DEF CacheTypeOK, Typed, AtLock

LEMMA OldTyped ==
    ASSUME CacheTypeOK, NEW q \in Process
    PROVE  Typed(session[q]) /\ AtLock(session[q].at, pc[q])
  BY DEF CacheTypeOK, Typed, AtLock

\* The steps that move the lock keep the types.
LEMMA LockTypes ==
    ASSUME CacheTypeOK, NEW p \in Process, LockStep(p)
    PROVE  CacheTypeOK'
<1> DEFINE s == session'[p]
           old == session[p]
<1>1. /\ old \in Session /\ old.at \in {"lock", "leave"} /\ Step(p)
      /\ AtLock(old.at, pc[p])
      /\ UNCHANGED <<environment, modules, surfaces, captures>>
  BY OldTyped DEF LockStep, CacheTypeOK
<1>2. TypeOK /\ TypeOK'
  BY <1>1, CacheLockTypes DEF CacheTypeOK, Next
<1>3. /\ s = IF pc'[p] = "idle" THEN NewSession
             ELSE IF pc'[p] = "body" THEN [old EXCEPT !.at = "modules"]
             ELSE old
      /\ session' = [session EXCEPT ![p] = s]
  BY DEF LockStep, Along, Set, CacheTypeOK
<1>4. Typed(s) /\ AtLock(s.at, pc'[p])
  <2>1. CASE pc'[p] = "idle"
    BY <1>3, <2>1, NewSessionTyped
       DEF NewSession, Typed, AtLock, Scanning, Guarded
  <2>2. CASE pc'[p] = "body"
    BY <1>1, <1>3, <2>2 DEF Session, Typed, AtLock, Scanning, Guarded
  <2>3. CASE pc'[p] \notin {"idle", "body"}
    <3>1. old.at = "leave" => pc'[p] = "unlink"
      BY <1>1, <1>2, <2>3, StepsOfTheLock DEF AtLock
    <3> QED
      BY <1>1, <1>3, <2>3, <3>1 DEF Typed, AtLock, Scanning, Guarded
  <2> QED
    BY <2>1, <2>2, <2>3
<1> HIDE DEF s, old
<1>5. ASSUME NEW q \in Process
      PROVE  Typed(session'[q]) /\ AtLock(session'[q].at, pc'[q])
  <2>1. CASE q = p
    BY <1>4, <2>1 DEF s
  <2>2. CASE q # p
    <3>1. session'[q] = session[q] /\ pc'[q] = pc[q]
      BY <1>1, <1>2, <1>3, <2>2, StepsOfTheLock DEF CacheTypeOK
    <3> QED
      BY <3>1, OldTyped
  <2> QED
    BY <2>1, <2>2
<1>6. session' \in [Process -> Session]
  BY <1>3, <1>4 DEF CacheTypeOK, Typed
<1> QED
  BY <1>1, <1>2, <1>5, <1>6, AllTyped DEF CacheTypeOK

\* So do the steps in the guarded section.
LEMMA TransactionTypes ==
    ASSUME CacheTypeOK, NEW p \in Process, Transaction(p)
    PROVE  CacheTypeOK'
<1>1. /\ session[p] \in Session
      /\ modules \in [env : Env \cup {Nothing}, of : Map]
      /\ surfaces \in Map /\ captures \in 0 .. MaxCaptures
      /\ environment[p] \in Env
      /\ session[p].at \in Guarded => pc[p] = "body"
  BY ApiSurfaceCacheConstants DEF CacheTypeOK
<1>2. /\ session[p].pending \in Map /\ session[p].draft \in Map
      /\ ModulesFor(p) \in Map
  BY <1>1, NewSessionTyped DEF Session, ModulesFor
<1>3. CASE LoadModules(p)
  <2> DEFINE draft == Merged(ModulesFor(p), session[p].pending,
                             session[p].seenOld)
             s == [session[p] EXCEPT !.at = "saveModules", !.seenOld = NoMap,
                                     !.draft = draft]
  <2>1. draft \in Map
    BY <1>2, MergedIsMap
  <2>2. /\ Set(p, s) /\ pc[p] = "body"
        /\ UNCHANGED <<vars, environment, modules, surfaces, captures>>
    BY <1>1, <1>3 DEF LoadModules, At, Guarded
  <2> HIDE DEF draft
  <2>3. Typed(s) /\ AtLock(s.at, pc[p])
    BY <1>1, <2>1, <2>2, NewSessionTyped
       DEF Session, Typed, AtLock, Scanning, Guarded
  <2> HIDE DEF s
  <2> QED
    BY <1>1, <2>2, <2>3, SessionStepTypes
<1>4. CASE SaveModules(p)
  <2> DEFINE s == [session[p] EXCEPT !.at = "surfaces", !.draft = NoMap]
  <2>1. /\ Set(p, s) /\ pc[p] = "body"
        /\ UNCHANGED <<vars, environment, surfaces, captures>>
        /\ modules' \in [env : Env \cup {Nothing}, of : Map]
    BY <1>1, <1>2, <1>4 DEF SaveModules, At, Guarded
  <2>2. Typed(s) /\ AtLock(s.at, pc[p])
    BY <1>1, <2>1, NewSessionTyped
       DEF Session, Typed, AtLock, Scanning, Guarded
  <2> HIDE DEF s
  <2> QED
    BY <1>1, <2>1, <2>2, SessionStepTypes
<1>5. CASE LoadSurfaces(p)
  <2> DEFINE draft == Merged(surfaces, session[p].pending, session[p].seen)
             s == [NewSession EXCEPT !.at = "saveSurfaces", !.draft = draft]
  <2>1. draft \in Map
    BY <1>1, <1>2, MergedIsMap
  <2>2. /\ Set(p, s) /\ pc[p] = "body"
        /\ UNCHANGED <<vars, environment, modules, surfaces, captures>>
    BY <1>1, <1>5 DEF LoadSurfaces, At, Guarded
  <2> HIDE DEF draft
  <2>3. Typed(s) /\ AtLock(s.at, pc[p])
    BY <2>1, <2>2, NewSessionTyped
       DEF NewSession, Session, Typed, AtLock, Scanning, Guarded
  <2> HIDE DEF s
  <2> QED
    BY <1>1, <2>2, <2>3, SessionStepTypes
<1>6. CASE SaveSurfaces(p)
  <2> DEFINE s == [NewSession EXCEPT !.at = "leave"]
  <2>1. /\ UNCHANGED <<vars, environment, modules, captures>>
        /\ pc[p] = "body" /\ surfaces' \in Map
    BY <1>1, <1>2, <1>6 DEF SaveSurfaces, At, Guarded
  <2>2. Typed(s) /\ AtLock(s.at, pc[p])
    BY <2>1, NewSessionTyped
       DEF NewSession, Session, Typed, AtLock, Scanning, Guarded
  <2>3. CASE Set(p, s)
    <3> HIDE DEF s
    <3> QED
      BY <1>1, <2>1, <2>2, <2>3, SessionStepTypes
  <2>4. CASE session' = [q \in Process |->
               IF q = p THEN s ELSE [session[q] EXCEPT !.fresh = FALSE]]
    <3>1. ASSUME NEW q \in Process
          PROVE  Typed(session'[q]) /\ AtLock(session'[q].at, pc'[q])
      <4>1. pc' = pc
        BY <2>1 DEF vars
      <4>2. CASE q = p
        BY <2>2, <2>4, <4>1, <4>2
      <4>3. CASE q # p
        <5>1. session'[q] = [session[q] EXCEPT !.fresh = FALSE]
          BY <2>4, <4>3
        <5>2. Typed(session[q]) /\ AtLock(session[q].at, pc'[q])
          BY <4>1, OldTyped
        <5> QED
          BY <5>1, <5>2 DEF Typed, AtLock, Session
      <4> QED
        BY <4>2, <4>3
    <3>2. session' \in [Process -> Session]
      BY <2>4, <3>1 DEF Typed
    <3>3. TypeOK'
      BY <2>1 DEF CacheTypeOK, TypeOK, vars
    <3> QED
      BY <1>1, <2>1, <3>1, <3>2, <3>3, AllTyped DEF CacheTypeOK
  <2> QED
    BY <1>6, <2>3, <2>4 DEF SaveSurfaces
<1> QED
  BY <1>3, <1>4, <1>5, <1>6 DEF Transaction

\* A death is a return to the start.
LEMMA DeathTypes ==
    ASSUME CacheTypeOK, NEW p \in Process, Die(p)
    PROVE  CacheTypeOK'
<1>1. /\ session' = [session EXCEPT ![p] = NewSession]
      /\ UNCHANGED <<environment, modules, surfaces, captures>>
  BY DEF Die, Set
<1>2. TypeOK /\ TypeOK'
  BY CacheLockTypes DEF CacheTypeOK, Die, Next
<1>3. pc'[p] = "idle" /\ \A q \in Process : q # p => pc'[q] = pc[q]
  BY <1>2 DEF Die, Crash, Return, GoTo, vars, TypeOK
<1>4. ASSUME NEW q \in Process
      PROVE  Typed(session'[q]) /\ AtLock(session'[q].at, pc'[q])
  <2>1. CASE q = p
    <3>1. session'[q] = NewSession /\ pc'[q] = "idle"
      BY <1>1, <1>3, <2>1 DEF CacheTypeOK
    <3> QED
      BY <3>1, NewSessionTyped
         DEF NewSession, Typed, AtLock, Scanning, Guarded
  <2>2. CASE q # p
    <3>1. session'[q] = session[q] /\ pc'[q] = pc[q]
      BY <1>1, <1>3, <2>2 DEF CacheTypeOK
    <3> QED
      BY <3>1, OldTyped
  <2> QED
    BY <2>1, <2>2
<1>5. session' \in [Process -> Session]
  BY <1>1, NewSessionTyped DEF CacheTypeOK
<1> QED
  BY <1>1, <1>2, <1>4, <1>5, AllTyped DEF CacheTypeOK

LEMMA CacheTypes == CacheTypeOK /\ [CacheNext]_allVars => CacheTypeOK'
<1> SUFFICES ASSUME CacheTypeOK, [CacheNext]_allVars PROVE CacheTypeOK'
  OBVIOUS
<1>1. CASE Time
  <2>1. TypeOK'
    BY <1>1, CacheLockTypes DEF CacheTypeOK, Time, Next
  <2>2. pc' = pc /\ UNCHANGED cacheVars
    BY <1>1 DEF Time, Tick
  <2> QED
    BY <2>1, <2>2 DEF CacheTypeOK, cacheVars
<1>2. CASE UNCHANGED allVars
  BY <1>2 DEF CacheTypeOK, TypeOK, allVars, vars, cacheVars
<1> QED
  BY <1>1, <1>2, ScanTypes, LockTypes, TransactionTypes, DeathTypes
     DEF CacheNext

LEMMA CacheInitTyped == CacheInit => CacheTypeOK
<1> SUFFICES ASSUME CacheInit PROVE CacheTypeOK
  OBVIOUS
<1>1. TypeOK /\ pc = [p \in Process |-> "idle"]
  BY CacheLockInit DEF CacheInit, Init
<1>2. \A p \in Process : session[p] = NewSession
  BY DEF CacheInit
<1>3. NewSession.at = "scan"
  BY DEF NewSession
<1>4. /\ modules \in [env : Env \cup {Nothing}, of : Map]
      /\ surfaces \in Map /\ session \in [Process -> Session]
  BY NewSessionTyped DEF CacheInit
<1>5. captures \in 0 .. MaxCaptures
  BY ApiSurfaceCacheConstants DEF CacheInit
<1> QED
  BY <1>1, <1>2, <1>3, <1>4, <1>5
     DEF CacheInit, CacheTypeOK, Scanning, Guarded

\* Every cache and every session keeps its type, and a session stands where
\* the lock lets it.
THEOREM CacheTypeCorrect == CacheSpec => []CacheTypeOK
<1> QED
  BY CacheInitTyped, CacheTypes, PTL DEF CacheSpec

-----------------------------------------------------------------------------
(* The inductive invariant.  That a save does not undo a save is not        *)
(* inductive: it rests on what was observed being older than what was       *)
(* captured after it, in every session, and on nobody else saving between   *)
(* the read and the replacement of a file.                                  *)

UpTo(map, n) == \A m \in Module : Captured(map[m]) <= n
Of(map, e) == \A m \in Module : map[m] # Nothing => map[m].env = e

\* A session knows of no capture that is yet to come.
Dated(s, n) ==
    /\ UpTo(s.view, n) /\ UpTo(s.seen, n) /\ UpTo(s.pending, n)
    /\ s.at = "saveSurfaces" => UpTo(s.draft, n)
    /\ s.at = "enter" => s.built.at <= n

\* What it captured is newer than what it saw before.
AfterSeen(s) ==
    /\ \A m \in Module :
         s.pending[m] # Nothing => Captured(s.seen[m]) < Captured(s.pending[m])
    /\ s.at = "enter" =>
         \A m \in Module : /\ Captured(s.view[m]) < s.built.at
                           /\ Captured(s.seen[m]) < s.built.at

\* What it captured is of its environment, and so is what it saves.
MineOnly(s, e) ==
    /\ Of(s.pending, e)
    /\ s.at = "enter" => s.built.env = e
    /\ s.at = "saveModules" => Of(s.draft, e)

SessionInv(s, e, n) == Dated(s, n) /\ AfterSeen(s) /\ MineOnly(s, e)

FilesInv == UpTo(surfaces, captures) /\ OneEnvironment

\* Until a lock is overdue, the file is still the one that was merged into.
DraftInv(p) ==
    ~overdue =>
      /\ At(p, "saveSurfaces") =>
           \A m \in Module :
             Captured(session[p].draft[m]) >= Captured(surfaces[m])
      /\ At(p, "saveModules") /\ modules.env = environment[p] =>
           \A m \in Module :
             modules.of[m] # Nothing => session[p].draft[m] # Nothing

CacheInv ==
    /\ CacheTypeOK
    /\ FilesInv
    /\ \A p \in Process : SessionInv(session[p], environment[p], captures)
    /\ \A p \in Process : DraftInv(p)

-----------------------------------------------------------------------------
(* Captures and merges.                                                    *)

LEMMA CapturesAreNumbers ==
    ASSUME NEW map \in Map PROVE \A m \in Module : Captured(map[m]) \in Nat
<1>1. \A m \in Module : map[m] = Nothing \/ map[m].at \in 1 .. MaxCaptures
  BY DEF Map, Surface
<1> QED
  BY <1>1, ApiSurfaceCacheConstants DEF Captured

LEMMA NothingIsEarly ==
    ASSUME NEW n \in Nat, NEW e PROVE UpTo(NoMap, n) /\ Of(NoMap, e)
  BY DEF UpTo, Of, NoMap, Captured

\* A merge brings in nothing that is not in one of the two maps.
LEMMA MergedFrom ==
    ASSUME NEW current \in Map, NEW pending \in Map, NEW observed
    PROVE  LET merged == Merged(current, pending, observed)
           IN  /\ \A n \in Nat : UpTo(current, n) /\ UpTo(pending, n)
                                  => UpTo(merged, n)
               /\ \A e \in Env : Of(current, e) /\ Of(pending, e)
                                  => Of(merged, e)
               /\ \A m \in Module :
                    current[m] # Nothing => merged[m] # Nothing
  BY DEF Merged, UpTo, Of

\* A merge of what is newer than what was observed goes forward.
LEMMA MergedForward ==
    ASSUME NEW current \in Map, NEW pending \in Map, NEW observed \in Map,
           \A m \in Module : pending[m] # Nothing =>
             Captured(observed[m]) < Captured(pending[m])
    PROVE  \A m \in Module :
             Captured(Merged(current, pending, observed)[m])
               >= Captured(current[m])
<1> TAKE m \in Module
<1>1. Captured(current[m]) \in Nat /\ Captured(pending[m]) \in Nat
  BY CapturesAreNumbers
<1>2. Merged(current, pending, observed)[m] =
        IF pending[m] # Nothing /\ current[m] = observed[m] THEN pending[m]
        ELSE current[m]
  BY DEF Merged
<1> QED
  BY <1>1, <1>2

-----------------------------------------------------------------------------
(* One session at a time.                                                  *)

StepOf(p) ==
    \/ \E m \in Module : Ask(p, m)
    \/ NoteState(p) \/ Build(p) \/ Enter(p) \/ Flush(p)
    \/ LockStep(p) \/ Transaction(p) \/ Die(p)

Alike(s, t) == s = t \/ s = [t EXCEPT !.fresh = FALSE]

\* A step of one session does to another no more than make its view old.
LEMMA OneSessionSteps ==
    ASSUME CacheTypeOK, NEW p \in Process, StepOf(p)
    PROVE  /\ UNCHANGED <<environment, overdue>>
           /\ \A q \in Process : q # p => Alike(session'[q], session[q])
<1> USE DEF CacheTypeOK
<1>1. ASSUME NEW s, Set(p, s)
      PROVE  \A q \in Process : q # p => Alike(session'[q], session[q])
  BY <1>1 DEF Set, Alike
<1>2. ASSUME NEW m \in Module, Ask(p, m) PROVE \E s : Set(p, s)
  BY <1>2 DEF Ask
<1>3. CASE NoteState(p) \/ Build(p) \/ Enter(p) \/ Flush(p)
  <2>1. \E s : Set(p, s)
    BY <1>3 DEF NoteState, Build, Enter, Flush
  <2> QED
    BY <1>1, <1>3, <2>1 DEF NoteState, Build, Enter, Flush, vars
<1>4. CASE LockStep(p)
  <2>1. (\E s : Set(p, s)) /\ overdue' = overdue
    BY <1>4, StepsOfTheLock DEF LockStep, Along
  <2> QED
    BY <1>1, <1>4, <2>1 DEF LockStep
<1>5. CASE LoadModules(p) \/ SaveModules(p) \/ LoadSurfaces(p)
  <2>1. \E s : Set(p, s)
    BY <1>5 DEF LoadModules, SaveModules, LoadSurfaces
  <2> QED
    BY <1>1, <1>5, <2>1 DEF LoadModules, SaveModules, LoadSurfaces, vars
<1>6. CASE SaveSurfaces(p)
  <2>1. \/ \E s : Set(p, s)
        \/ \A q \in Process : q # p => Alike(session'[q], session[q])
    BY <1>6 DEF SaveSurfaces, Alike
  <2> QED
    BY <1>1, <1>6, <2>1 DEF SaveSurfaces, vars
<1>7. CASE Die(p)
  <2>1. (\E s : Set(p, s)) /\ overdue' = overdue
    BY <1>7 DEF Die, Crash, vars
  <2> QED
    BY <1>1, <1>7, <2>1 DEF Die
<1>8. ASSUME NEW m \in Module, Ask(p, m)
      PROVE  UNCHANGED <<environment, overdue>>
  BY <1>8 DEF Ask, vars
<1> QED
  BY <1>1, <1>2, <1>3, <1>4, <1>5, <1>6, <1>7, <1>8 DEF StepOf, Transaction

LEMMA AlikeFields ==
    ASSUME NEW t \in Session, NEW s, Alike(s, t)
    PROVE  /\ s.at = t.at /\ s.built = t.built /\ s.view = t.view
           /\ s.pending = t.pending /\ s.seen = t.seen /\ s.draft = t.draft
  BY DEF Alike, Session

\* A session that is as it was is still right when more has been captured.
LEMMA StillRight ==
    ASSUME NEW t \in Session, NEW s, Alike(s, t), NEW e,
           NEW m \in Nat, NEW n \in Nat, m <= n, Typed(t),
           SessionInv(t, e, m)
    PROVE  SessionInv(s, e, n)
<1>1. /\ s.at = t.at /\ s.built = t.built /\ s.view = t.view
      /\ s.pending = t.pending /\ s.seen = t.seen /\ s.draft = t.draft
  BY AlikeFields
<1>2. ASSUME NEW map \in Map, UpTo(map, m) PROVE UpTo(map, n)
  BY <1>2, CapturesAreNumbers DEF UpTo
<1>3. t.view \in Map /\ t.seen \in Map /\ t.pending \in Map /\ t.draft \in Map
  BY DEF Session
<1>4. t.at = "enter" => t.built.at \in Nat
  BY ApiSurfaceCacheConstants DEF Typed, Surface
<1>5. Dated(s, n)
  BY <1>1, <1>2, <1>3, <1>4 DEF SessionInv, Dated
<1>6. AfterSeen(s) /\ MineOnly(s, e)
  BY <1>1 DEF SessionInv, AfterSeen, MineOnly
<1> QED
  BY <1>5, <1>6 DEF SessionInv

LEMMA Between ==
    ASSUME NEW t, NEW s, NEW e, NEW n, SessionInv(t, e, n), UpTo(s.view, n),
           s.seen = t.seen, s.pending = t.pending,
           s.at \notin {"enter", "saveModules", "saveSurfaces"}
    PROVE  SessionInv(s, e, n)
  BY DEF SessionInv, Dated, AfterSeen, MineOnly

LEMMA NewSessionRight ==
    ASSUME NEW e, NEW n \in Nat
    PROVE  /\ SessionInv(NewSession, e, n)
           /\ SessionInv([NewSession EXCEPT !.at = "leave"], e, n)
<1>1. UpTo(NoMap, n) /\ Of(NoMap, e) /\ \A m \in Module : NoMap[m] = Nothing
  BY NothingIsEarly DEF NoMap
<1> QED
  BY <1>1 DEF NewSession, SessionInv, Dated, AfterSeen, MineOnly

LEMMA LookedRight ==
    ASSUME NEW p \in Process, NEW s \in Session, NEW e, NEW n,
           SessionInv(s, e, n)
    PROVE  SessionInv(Looked(p, s), e, n)
<1> DEFINE found == s.view[s.module]
           at == IF found # Nothing /\ found.env = environment[p]
                 THEN "scan" ELSE "build"
           t == [s EXCEPT !.at = at]
<1>1. Looked(p, s) = t
  BY DEF Looked
<1>2. at \in {"scan", "build"}
  OBVIOUS
<1> HIDE DEF at
<1>3. /\ t.view = s.view /\ t.seen = s.seen /\ t.pending = s.pending
      /\ t.at = at
  BY DEF Session
<1>4. UpTo(s.view, n)
  BY DEF SessionInv, Dated
<1> HIDE DEF t
<1>5. SessionInv(t, e, n)
  BY <1>2, <1>3, <1>4, Between
<1> QED
  BY <1>1, <1>5

\* The steps of a scan: what is captured is newer than all that was seen.
LEMMA ScanRight ==
    ASSUME CacheInv, NEW p \in Process,
           \/ \E m \in Module : Ask(p, m)
           \/ NoteState(p) \/ Build(p) \/ Enter(p) \/ Flush(p)
    PROVE  /\ SessionInv(session'[p], environment[p], captures')
           /\ captures' \in Nat /\ captures <= captures'
           /\ UNCHANGED <<modules, surfaces>>
<1> DEFINE old == session[p]
           e == environment[p]
<1>1. /\ old \in Session /\ Typed(old) /\ captures \in Nat
      /\ SessionInv(old, e, captures)
      /\ surfaces \in Map /\ UpTo(surfaces, captures)
      /\ \A s : Set(p, s) => session'[p] = s
  BY OldTyped, ApiSurfaceCacheConstants
     DEF CacheInv, CacheTypeOK, FilesInv, Set
<1>2. /\ old.view \in Map /\ old.seen \in Map /\ old.pending \in Map
      /\ UpTo(old.view, captures) /\ UpTo(old.seen, captures)
      /\ UpTo(old.pending, captures) /\ AfterSeen(old) /\ MineOnly(old, e)
  BY <1>1 DEF Session, SessionInv, Dated
<1>3. ASSUME NEW m \in Module, Ask(p, m)
      PROVE  SessionInv(session'[p], e, captures)
             /\ UNCHANGED <<captures, modules, surfaces>>
  <2> DEFINE s == [old EXCEPT !.asked = @ \cup {m}, !.module = m]
             view == Merged(surfaces, s.pending, s.seen)
             read == [s EXCEPT !.at = "stat", !.view = view]
  <2>1. /\ s \in Session /\ s.at = "scan" /\ s.view = old.view
        /\ s.seen = old.seen /\ s.pending = old.pending
    BY <1>1, <1>3 DEF Session, Ask, At
  <2>2. Set(p, IF s.fresh THEN Looked(p, s) ELSE read)
        /\ UNCHANGED <<captures, modules, surfaces>>
    BY <1>3 DEF Ask
  <2> HIDE DEF s
  <2>3. SessionInv(s, e, captures)
    BY <1>1, <1>2, <2>1, Between
  <2>4. SessionInv(Looked(p, s), e, captures)
    BY <2>1, <2>3, LookedRight
  <2>5. UpTo(view, captures)
    BY <1>1, <1>2, <2>1, MergedFrom
  <2> HIDE DEF view
  <2>6. /\ read.view = view /\ read.seen = s.seen
        /\ read.pending = s.pending /\ read.at = "stat"
    BY <2>1 DEF Session
  <2> HIDE DEF read
  <2>7. SessionInv(read, e, captures)
    BY <2>3, <2>5, <2>6, Between
  <2> QED
    BY <1>1, <2>2, <2>4, <2>7
<1>4. CASE NoteState(p)
  <2> DEFINE s == [old EXCEPT !.fresh = TRUE]
  <2>1. /\ s \in Session /\ s.at = "stat" /\ s.view = old.view
        /\ s.seen = old.seen /\ s.pending = old.pending
    BY <1>1, <1>4 DEF Session, NoteState, At
  <2>2. Set(p, Looked(p, s)) /\ UNCHANGED <<captures, modules, surfaces>>
    BY <1>4 DEF NoteState
  <2> HIDE DEF s
  <2>3. SessionInv(s, e, captures)
    BY <1>1, <1>2, <2>1, Between
  <2> QED
    BY <1>1, <2>1, <2>2, <2>3, LookedRight
<1>5. CASE Build(p)
  <2> DEFINE surface == [env |-> e, at |-> captures + 1]
             found == [old EXCEPT !.at = "enter", !.built = surface]
             none == [old EXCEPT !.at = "scan", !.module = Nothing]
  <2>1. CASE captures' = captures + 1 /\ Set(p, found)
             /\ UNCHANGED <<modules, surfaces>>
    <3>1. /\ found.at = "enter" /\ found.built = surface
          /\ found.view = old.view /\ found.seen = old.seen
          /\ found.pending = old.pending
      BY <1>1 DEF Session
    <3>2. surface.env = e /\ surface.at = captures + 1
      OBVIOUS
    <3> HIDE DEF found, surface
    <3>3. ASSUME NEW map \in Map, UpTo(map, captures)
          PROVE  /\ UpTo(map, captures + 1)
                 /\ \A m \in Module : Captured(map[m]) < captures + 1
      BY <1>1, <3>3, CapturesAreNumbers DEF UpTo
    <3>4. Dated(found, captures + 1)
      BY <1>1, <1>2, <3>1, <3>2, <3>3 DEF Dated
    <3>5. AfterSeen(found) /\ MineOnly(found, e)
      BY <1>2, <3>1, <3>2, <3>3 DEF AfterSeen, MineOnly
    <3> QED
      BY <1>1, <2>1, <3>4, <3>5 DEF SessionInv
  <2>2. CASE Set(p, none) /\ UNCHANGED <<captures, modules, surfaces>>
    <3>1. /\ none.at = "scan" /\ none.view = old.view
          /\ none.seen = old.seen /\ none.pending = old.pending
      BY <1>1 DEF Session
    <3> HIDE DEF none
    <3> QED
      BY <1>1, <1>2, <2>2, <3>1, Between
  <2> QED
    BY <1>5, <2>1, <2>2 DEF Build
<1>6. CASE Enter(p)
  <2> DEFINE m == old.module
             built == old.built
             known == IF old.known = Nothing THEN ModulesFor(p) ELSE old.known
             older == [old.seenOld EXCEPT ![m] =
                         IF known[m] # Nothing THEN known[m] ELSE @]
             saw == [old.seen EXCEPT ![m] =
                       IF old.view[m] # Nothing THEN old.view[m] ELSE @]
             view == [old.view EXCEPT ![m] = built]
             pending == [old.pending EXCEPT ![m] = built]
             s == [old EXCEPT
                     !.at = "scan", !.module = Nothing, !.built = Nothing,
                     !.known = known, !.seenOld = older, !.seen = saw,
                     !.view = view, !.pending = pending]
  <2>1. /\ m \in Module /\ built \in Surface /\ old.at = "enter"
        /\ built.env = e /\ built.at <= captures
        /\ Captured(old.view[m]) < built.at
        /\ Captured(old.seen[m]) < built.at
    BY <1>1, <1>2, <1>6
       DEF Typed, Enter, At, AfterSeen, MineOnly, SessionInv, Dated
  <2>2. Set(p, s) /\ UNCHANGED <<captures, modules, surfaces>>
    <3>1. UNCHANGED <<captures, modules, surfaces>>
      BY <1>6 DEF Enter
    <3>2. Set(p, [old EXCEPT
             !.at = "scan", !.module = Nothing, !.built = Nothing,
             !.known = known,
             !.seenOld[m] = IF known[m] # Nothing THEN known[m] ELSE @,
             !.seen[m] = IF old.view[m] # Nothing THEN old.view[m] ELSE @,
             !.view[m] = built,
             !.pending[m] = built])
      BY <1>6 DEF Enter
    <3>3. [old EXCEPT
             !.at = "scan", !.module = Nothing, !.built = Nothing,
             !.known = known,
             !.seenOld[m] = IF known[m] # Nothing THEN known[m] ELSE @,
             !.seen[m] = IF old.view[m] # Nothing THEN old.view[m] ELSE @,
             !.view[m] = built,
             !.pending[m] = built] = s
      <4>1. old \in Session
        BY <1>1
      <4> HIDE DEF old, m, built, known
      <4> QED
        BY <4>1 DEF Session
    <3> QED
      BY <3>1, <3>2, <3>3
  <2>3. /\ s.at = "scan" /\ s.seen = saw /\ s.view = view
        /\ s.pending = pending
    <3>1. old \in Session
      BY <1>1
    <3> HIDE DEF old, known, older, saw, view, pending
    <3> QED
      BY <3>1 DEF Session
  <2>4. Captured(built) = built.at \/ Captured(built) = 0
    BY DEF Captured
  <2>5. /\ \A k \in Module : k # m => /\ saw[k] = old.seen[k]
                                      /\ view[k] = old.view[k]
                                      /\ pending[k] = old.pending[k]
        /\ saw[m] \in {old.seen[m], old.view[m]}
        /\ view[m] = built /\ pending[m] = built
    BY <1>2, <2>1 DEF Map
  <2> HIDE DEF m, built, saw, view, pending, s
  <2>6. built.at \in Nat
    BY <2>1, ApiSurfaceCacheConstants DEF Surface
  <2>7. UpTo(saw, captures) /\ UpTo(view, captures) /\ UpTo(pending, captures)
    BY <1>1, <1>2, <2>1, <2>4, <2>5, <2>6 DEF UpTo
  <2>8. built # Nothing => Captured(built) = built.at
    BY DEF Captured
  <2>9. AfterSeen(s)
    BY <1>2, <2>1, <2>3, <2>5, <2>8 DEF AfterSeen
  <2>10. MineOnly(s, e)
    BY <1>2, <2>1, <2>3, <2>5 DEF MineOnly, Of
  <2>11. SessionInv(s, e, captures)
    BY <2>3, <2>7, <2>9, <2>10 DEF SessionInv, Dated
  <2> QED
    BY <1>1, <2>2, <2>11
<1>7. CASE Flush(p)
  <2> DEFINE s == [NewSession EXCEPT !.at = "lock",
                     !.pending = old.pending,
                     !.seen = old.seen, !.seenOld = old.seenOld]
  <2>1. (Set(p, NewSession) \/ Set(p, s))
        /\ UNCHANGED <<captures, modules, surfaces>>
    BY <1>7 DEF Flush
  <2>2. /\ s.at = "lock" /\ s.view = NoMap /\ s.seen = old.seen
        /\ s.pending = old.pending
    BY DEF NewSession
  <2> HIDE DEF s
  <2>3. SessionInv(s, e, captures)
    BY <1>1, <2>2, NothingIsEarly, Between
  <2> QED
    BY <1>1, <2>1, <2>3, NewSessionRight
<1> QED
  BY <1>1, <1>3, <1>4, <1>5, <1>6, <1>7

\* The steps of a flush, and a death.
LEMMA FlushRight ==
    ASSUME CacheInv, NEW p \in Process,
           LockStep(p) \/ Transaction(p) \/ Die(p)
    PROVE  SessionInv(session'[p], environment[p], captures)
           /\ captures' = captures
<1> DEFINE old == session[p]
           e == environment[p]
<1>1. /\ old \in Session /\ captures \in Nat /\ e \in Env
      /\ SessionInv(old, e, captures)
      /\ surfaces \in Map /\ UpTo(surfaces, captures)
      /\ \A s : Set(p, s) => session'[p] = s
  BY ApiSurfaceCacheConstants DEF CacheInv, CacheTypeOK, FilesInv, Set
<1>2. /\ old.view \in Map /\ old.seen \in Map /\ old.pending \in Map
      /\ UpTo(old.view, captures) /\ UpTo(old.seen, captures)
      /\ UpTo(old.pending, captures) /\ AfterSeen(old) /\ MineOnly(old, e)
  BY <1>1 DEF Session, SessionInv, Dated
<1>3. SessionInv(NewSession, e, captures)
      /\ SessionInv([NewSession EXCEPT !.at = "leave"], e, captures)
  BY <1>1, NewSessionRight
<1>4. CASE LockStep(p)
  <2> DEFINE s == [old EXCEPT !.at = "modules"]
  <2>1. s.at = "modules" /\ s.view = old.view /\ s.seen = old.seen
        /\ s.pending = old.pending
    BY <1>1 DEF Session
  <2>2. (Set(p, NewSession) \/ Set(p, s) \/ Set(p, old))
        /\ captures' = captures
    BY <1>4 DEF LockStep, Along
  <2> HIDE DEF s
  <2>3. SessionInv(s, e, captures)
    BY <1>1, <1>2, <2>1, Between
  <2> QED
    BY <1>1, <1>3, <2>2, <2>3
<1>5. CASE LoadModules(p)
  <2> DEFINE file == ModulesFor(p)
             draft == Merged(file, old.pending, old.seenOld)
             s == [old EXCEPT !.at = "saveModules", !.seenOld = NoMap,
                              !.draft = draft]
  <2>1. file \in Map /\ Of(file, e)
    BY <1>1, NewSessionTyped, NothingIsEarly
       DEF CacheInv, CacheTypeOK, FilesInv, OneEnvironment, ModulesFor, Of
  <2> HIDE DEF file
  <2>2. Of(draft, e)
    BY <1>1, <1>2, <2>1, MergedFrom DEF MineOnly
  <2>3. Set(p, s) /\ captures' = captures
    BY <1>5 DEF LoadModules, file
  <2> HIDE DEF draft
  <2>4. /\ s.at = "saveModules" /\ s.view = old.view /\ s.seen = old.seen
        /\ s.pending = old.pending /\ s.draft = draft
    BY <1>1 DEF Session
  <2> HIDE DEF s
  <2>5. SessionInv(s, e, captures)
    BY <1>2, <2>2, <2>4 DEF SessionInv, Dated, AfterSeen, MineOnly
  <2> QED
    BY <1>1, <2>3, <2>5
<1>6. CASE SaveModules(p)
  <2> DEFINE s == [old EXCEPT !.at = "surfaces", !.draft = NoMap]
  <2>1. s.at = "surfaces" /\ s.view = old.view /\ s.seen = old.seen
        /\ s.pending = old.pending
    BY <1>1 DEF Session
  <2>2. Set(p, s) /\ captures' = captures
    BY <1>6 DEF SaveModules
  <2> HIDE DEF s
  <2>3. SessionInv(s, e, captures)
    BY <1>1, <1>2, <2>1, Between
  <2> QED
    BY <1>1, <2>2, <2>3
<1>7. CASE LoadSurfaces(p)
  <2> DEFINE draft == Merged(surfaces, old.pending, old.seen)
             s == [NewSession EXCEPT !.at = "saveSurfaces", !.draft = draft]
  <2>1. UpTo(draft, captures)
    BY <1>1, <1>2, MergedFrom
  <2>2. Set(p, s) /\ captures' = captures
    BY <1>7 DEF LoadSurfaces
  <2> HIDE DEF draft
  <2>3. /\ s.at = "saveSurfaces" /\ s.view = NoMap /\ s.seen = NoMap
        /\ s.pending = NoMap /\ s.draft = draft
    BY DEF NewSession
  <2>4. UpTo(NoMap, captures) /\ Of(NoMap, e)
        /\ \A m \in Module : NoMap[m] = Nothing
    BY <1>1, NothingIsEarly DEF NoMap
  <2> HIDE DEF s
  <2>5. SessionInv(s, e, captures)
    BY <2>1, <2>3, <2>4 DEF SessionInv, Dated, AfterSeen, MineOnly
  <2> QED
    BY <1>1, <2>2, <2>5
<1>8. CASE SaveSurfaces(p)
  <2>1. session'[p] = [NewSession EXCEPT !.at = "leave"]
        /\ captures' = captures
    BY <1>1, <1>8 DEF SaveSurfaces
  <2> QED
    BY <1>3, <2>1
<1>9. CASE Die(p)
  BY <1>1, <1>3, <1>9 DEF Die
<1> QED
  BY <1>4, <1>5, <1>6, <1>7, <1>8, <1>9 DEF Transaction

\* Which step leads to a save, and which changes a file.
LEMMA SavesAndLoads ==
    ASSUME CacheTypeOK, NEW p \in Process, StepOf(p)
    PROVE  /\ session'[p].at = "saveSurfaces" => LoadSurfaces(p)
           /\ session'[p].at = "saveModules" => LoadModules(p)
           /\ surfaces' # surfaces => SaveSurfaces(p)
           /\ modules' # modules => SaveModules(p)
<1>1. session[p] \in Session /\ \A s : Set(p, s) => session'[p] = s
  BY DEF CacheTypeOK, Set
<1>2. ASSUME NEW m \in Module, Ask(p, m)
      PROVE  /\ session'[p].at \in {"scan", "stat", "build"}
             /\ UNCHANGED <<surfaces, modules>>
  <2> DEFINE s == [session[p] EXCEPT !.asked = @ \cup {m}, !.module = m]
             read == [s EXCEPT !.at = "stat",
                              !.view = Merged(surfaces, s.pending, s.seen)]
  <2>1. Set(p, IF s.fresh THEN Looked(p, s) ELSE read)
        /\ UNCHANGED <<surfaces, modules>>
    BY <1>2 DEF Ask
  <2>2. s \in Session /\ read.at = "stat"
    BY <1>1 DEF Session
  <2>3. Looked(p, s).at \in {"scan", "build"}
    BY <2>2, LookedTyped
  <2> HIDE DEF s, read
  <2> QED
    BY <1>1, <2>1, <2>2, <2>3
<1>3. CASE NoteState(p)
  <2> DEFINE s == [session[p] EXCEPT !.fresh = TRUE]
  <2>1. Set(p, Looked(p, s)) /\ UNCHANGED <<surfaces, modules>>
    BY <1>3 DEF NoteState
  <2>2. s \in Session
    BY <1>1 DEF Session
  <2> HIDE DEF s
  <2> QED
    BY <1>1, <2>1, <2>2, LookedTyped
<1>4. CASE Build(p) \/ Enter(p) \/ Flush(p)
  <2>1. Build(p) => session'[p].at \in {"enter", "scan"}
    BY <1>1 DEF Build, Session
  <2>2. ASSUME Enter(p) PROVE session'[p].at = "scan"
    <3> DEFINE t == session[p]
               m == t.module
               known == IF t.known = Nothing THEN ModulesFor(p) ELSE t.known
               s == [t EXCEPT
                       !.at = "scan", !.module = Nothing, !.built = Nothing,
                       !.known = known,
                       !.seenOld[m] = IF known[m] # Nothing THEN known[m]
                                      ELSE @,
                       !.seen[m] = IF t.view[m] # Nothing THEN t.view[m]
                                   ELSE @,
                       !.view[m] = t.built,
                       !.pending[m] = t.built]
    <3>1. Set(p, s)
      BY <2>2 DEF Enter
    <3>2. s.at = "scan"
      <4>1. t \in Session
        BY <1>1
      <4> HIDE DEF t, m, known
      <4> QED
        BY <4>1 DEF Session
    <3> HIDE DEF s
    <3> QED
      BY <1>1, <3>1, <3>2
  <2>3. ASSUME Flush(p) PROVE session'[p].at \in {"scan", "lock"}
    <3> DEFINE t == session[p]
               s == [NewSession EXCEPT !.at = "lock",
                       !.pending = t.pending,
                       !.seen = t.seen, !.seenOld = t.seenOld]
    <3>1. Set(p, NewSession) \/ Set(p, s)
      BY <2>3 DEF Flush
    <3>2. NewSession.at = "scan" /\ s.at = "lock"
      BY DEF NewSession
    <3> HIDE DEF s
    <3> QED
      BY <1>1, <3>1, <3>2
  <2> QED
    BY <1>4, <2>1, <2>2, <2>3 DEF Build, Enter, Flush
<1>5. CASE LockStep(p)
  <2>1. session'[p].at \in {"scan", "modules", "lock", "leave"}
    BY <1>1, <1>5 DEF LockStep, Along, NewSession, Session
  <2> QED
    BY <1>5, <2>1 DEF LockStep
<1>6. CASE Transaction(p)
  <2>1. LoadModules(p) => session'[p].at = "saveModules"
    BY <1>1 DEF LoadModules, Session
  <2>2. SaveModules(p) => session'[p].at = "surfaces"
    BY <1>1 DEF SaveModules, Session
  <2>3. LoadSurfaces(p) => session'[p].at = "saveSurfaces"
    BY <1>1 DEF LoadSurfaces, NewSession
  <2>4. SaveSurfaces(p) => session'[p].at = "leave"
    BY <1>1 DEF SaveSurfaces, NewSession, CacheTypeOK
  <2> QED
    BY <1>6, <2>1, <2>2, <2>3, <2>4
       DEF Transaction, LoadModules, SaveModules, LoadSurfaces, SaveSurfaces
<1>7. CASE Die(p)
  BY <1>1, <1>7 DEF Die, NewSession
<1> QED
  BY <1>2, <1>3, <1>4, <1>5, <1>6, <1>7 DEF StepOf

LEMMA FilesRight ==
    ASSUME CacheInv, NEW p \in Process, StepOf(p)
    PROVE  FilesInv'
<1>1. /\ CacheTypeOK /\ FilesInv
      /\ SessionInv(session[p], environment[p], captures)
  BY DEF CacheInv
<1>2. captures \in Nat /\ captures' \in Nat /\ captures <= captures'
  <2>1. captures \in Nat
    BY <1>1, ApiSurfaceCacheConstants DEF CacheTypeOK
  <2>2. CASE LockStep(p) \/ Transaction(p) \/ Die(p)
    BY <2>1, <2>2, FlushRight
  <2>3. CASE \/ \E m \in Module : Ask(p, m)
             \/ NoteState(p) \/ Build(p) \/ Enter(p) \/ Flush(p)
    BY <2>1, <2>3, ScanRight
  <2> QED
    BY <2>2, <2>3 DEF StepOf
<1>3. ASSUME NEW map \in Map, UpTo(map, captures)
      PROVE  UpTo(map, captures')
  BY <1>2, <1>3, CapturesAreNumbers DEF UpTo
<1>4. UpTo(surfaces', captures')
  <2>1. CASE surfaces' = surfaces
    BY <1>1, <1>3, <2>1 DEF CacheTypeOK, FilesInv
  <2>2. CASE surfaces' # surfaces
    <3>1. surfaces' = session[p].draft /\ session[p].at = "saveSurfaces"
      BY <1>1, <2>2, SavesAndLoads DEF SaveSurfaces, At
    <3>2. session[p].draft \in Map
      BY <1>1 DEF CacheTypeOK, Session
    <3> QED
      BY <1>1, <1>3, <3>1, <3>2 DEF SessionInv, Dated
  <2> QED
    BY <2>1, <2>2
<1>5. OneEnvironment'
  <2>1. CASE modules' = modules
    BY <1>1, <2>1 DEF FilesInv, OneEnvironment
  <2>2. CASE modules' # modules
    <3>1. /\ modules' = [env |-> environment[p], of |-> session[p].draft]
          /\ session[p].at = "saveModules"
      BY <1>1, <2>2, SavesAndLoads DEF SaveModules, At
    <3>2. Of(session[p].draft, environment[p])
      BY <1>1, <3>1 DEF SessionInv, MineOnly
    <3> QED
      BY <3>1, <3>2 DEF Of, OneEnvironment
  <2> QED
    BY <2>1, <2>2
<1> QED
  BY <1>4, <1>5 DEF FilesInv

\* What is about to be saved stays ahead of the file: the step that merged it
\* read the file, and nobody else replaces it meanwhile.
LEMMA DraftRight ==
    ASSUME CacheInv, OneHolder, NEW p \in Process, StepOf(p),
           NEW q \in Process
    PROVE  DraftInv(q)'
<1> SUFFICES ASSUME ~overdue'
             PROVE  /\ session'[q].at = "saveSurfaces" =>
                         \A m \in Module : Captured(session'[q].draft[m])
                                             >= Captured(surfaces'[m])
                    /\ session'[q].at = "saveModules"
                       /\ modules'.env = environment'[q] =>
                         \A m \in Module :
                           modules'.of[m] # Nothing =>
                             session'[q].draft[m] # Nothing
  BY DEF DraftInv, At
<1>1. /\ CacheTypeOK /\ session[q] \in Session /\ DraftInv(q)
      /\ SessionInv(session[p], environment[p], captures)
      /\ \A s : Set(p, s) => session'[p] = s
  BY DEF CacheInv, CacheTypeOK, Set
<1>2. /\ ~overdue /\ environment' = environment
      /\ q # p => Alike(session'[q], session[q])
  BY <1>1, OneSessionSteps
<1>3. ASSUME q = p, session'[q].at = "saveSurfaces"
      PROVE  \A m \in Module :
               Captured(session'[q].draft[m]) >= Captured(surfaces'[m])
  <2> DEFINE merged == Merged(surfaces, session[p].pending, session[p].seen)
             s == [NewSession EXCEPT !.at = "saveSurfaces", !.draft = merged]
  <2>1. Set(p, s) /\ surfaces' = surfaces
    BY <1>1, <1>3, SavesAndLoads DEF LoadSurfaces
  <2>2. s.draft = merged
    BY DEF NewSession
  <2> HIDE DEF s
  <2>3. session'[q].draft = merged
    BY <1>1, <1>3, <2>1, <2>2
  <2>4. /\ surfaces \in Map /\ session[p].pending \in Map
        /\ session[p].seen \in Map
    BY <1>1 DEF CacheTypeOK, Session
  <2>5. \A m \in Module : session[p].pending[m] # Nothing =>
          Captured(session[p].seen[m]) < Captured(session[p].pending[m])
    BY <1>1 DEF SessionInv, AfterSeen
  <2>6. \A m \in Module : Captured(merged[m]) >= Captured(surfaces[m])
    BY <2>4, <2>5, MergedForward
  <2> QED
    BY <2>1, <2>3, <2>6
<1>4. ASSUME q = p, session'[q].at = "saveModules",
             modules'.env = environment'[q]
      PROVE  \A m \in Module :
               modules'.of[m] # Nothing => session'[q].draft[m] # Nothing
  <2> DEFINE merged == Merged(ModulesFor(p), session[p].pending,
                              session[p].seenOld)
             s == [session[p] EXCEPT !.at = "saveModules", !.seenOld = NoMap,
                                     !.draft = merged]
  <2>1. Set(p, s) /\ modules' = modules
    BY <1>1, <1>4, SavesAndLoads DEF LoadModules
  <2>2. s.draft = merged
    BY <1>1, <1>4 DEF Session
  <2> HIDE DEF s
  <2>3. session'[q].draft = merged
    BY <1>1, <1>4, <2>1, <2>2
  <2>4. ModulesFor(p) = modules.of
    BY <1>2, <1>4, <2>1 DEF ModulesFor
  <2>5. modules.of \in Map /\ session[p].pending \in Map
    BY <1>1 DEF CacheTypeOK, Session
  <2>6. \A m \in Module : modules.of[m] # Nothing => merged[m] # Nothing
    BY <2>4, <2>5, MergedFrom
  <2> QED
    BY <2>1, <2>3, <2>6
<1>5. ASSUME q # p, session[q].at \in {"saveSurfaces", "saveModules"}
      PROVE  surfaces' = surfaces /\ modules' = modules
  <2>1. ~ session[p].at \in {"saveSurfaces", "saveModules"}
    BY <1>1, <1>2, <1>5 DEF CacheTypeOK, OneHolder, Holding, Guarded
  <2> QED
    BY <1>1, <2>1, SavesAndLoads DEF SaveSurfaces, SaveModules, At
<1>6. CASE q # p
  <2>1. session'[q].at = session[q].at /\ session'[q].draft = session[q].draft
    BY <1>1, <1>2, <1>6, AlikeFields
  <2> QED
    BY <1>1, <1>2, <1>5, <1>6, <2>1 DEF DraftInv, At
<1> QED
  BY <1>3, <1>4, <1>6

LEMMA CacheInvStep ==
    CacheInv /\ OneHolder /\ [CacheNext]_allVars => CacheInv'
<1> SUFFICES ASSUME CacheInv, OneHolder, [CacheNext]_allVars
             PROVE  CacheInv'
  OBVIOUS
<1>1. CacheTypeOK'
  BY CacheTypes DEF CacheInv
<1>2. ASSUME NEW p \in Process, StepOf(p) PROVE CacheInv'
  <2>1. /\ UNCHANGED <<environment, overdue>>
        /\ \A q \in Process : q # p => Alike(session'[q], session[q])
    BY <1>2, OneSessionSteps DEF CacheInv
  <2>2. captures \in Nat
    BY ApiSurfaceCacheConstants DEF CacheInv, CacheTypeOK
  <2>3. /\ SessionInv(session'[p], environment[p], captures')
        /\ captures' \in Nat /\ captures <= captures'
    <3>1. CASE LockStep(p) \/ Transaction(p) \/ Die(p)
      BY <2>2, <3>1, FlushRight
    <3>2. CASE \/ \E m \in Module : Ask(p, m)
               \/ NoteState(p) \/ Build(p) \/ Enter(p) \/ Flush(p)
      BY <3>2, ScanRight
    <3> QED
      BY <1>2, <3>1, <3>2 DEF StepOf
  <2>4. ASSUME NEW q \in Process, q # p
        PROVE  SessionInv(session'[q], environment[q], captures')
    <3>1. /\ session[q] \in Session /\ Typed(session[q])
          /\ SessionInv(session[q], environment[q], captures)
      BY OldTyped DEF CacheInv, CacheTypeOK
    <3> QED
      BY <2>1, <2>2, <2>3, <2>4, <3>1, StillRight
  <2>5. \A q \in Process : DraftInv(q)'
    BY <1>2, DraftRight
  <2> QED
    BY <1>1, <1>2, <2>1, <2>3, <2>4, <2>5, FilesRight DEF CacheInv
<1>3. CASE UNCHANGED cacheVars /\ (overdue => overdue')
  <2>1. FilesInv'
    BY <1>3 DEF CacheInv, FilesInv, OneEnvironment, cacheVars
  <2>2. \A p \in Process :
          SessionInv(session[p], environment[p], captures)'
    BY <1>3 DEF CacheInv, cacheVars
  <2>3. \A p \in Process : DraftInv(p)'
    BY <1>3 DEF CacheInv, DraftInv, At, cacheVars
  <2> QED
    BY <1>1, <2>1, <2>2, <2>3 DEF CacheInv
<1>4. CASE Time
  BY <1>3, <1>4 DEF Time, Tick
<1>5. CASE UNCHANGED allVars
  BY <1>3, <1>5 DEF allVars, vars, cacheVars
<1> QED
  BY <1>2, <1>4, <1>5 DEF CacheNext, StepOf

LEMMA CacheInvariant == CacheSpec => []CacheInv
<1>1. CacheInit => CacheInv
  <2> SUFFICES ASSUME CacheInit PROVE CacheInv
    OBVIOUS
  <2>1. CacheTypeOK
    BY CacheInitTyped
  <2>2. /\ surfaces = NoMap /\ captures = 0 /\ modules.of = NoMap
        /\ \A p \in Process : session[p] = NewSession
    BY DEF CacheInit
  <2>3. FilesInv
    BY <2>2, NothingIsEarly DEF FilesInv, OneEnvironment, NoMap
  <2>4. \A p \in Process : SessionInv(session[p], environment[p], captures)
    BY <2>2, NewSessionRight
  <2>5. \A p \in Process : DraftInv(p)
    BY <2>2 DEF DraftInv, At, NewSession
  <2> QED
    BY <2>1, <2>3, <2>4, <2>5 DEF CacheInv
<1>2. CacheSpec => []OneHolder
  <2>1. CacheLockInv => OneHolder
    BY DEF CacheLockInv
  <2> QED
    BY <2>1, CachesRefineLock, CacheLockInvariant, PTL
<1> QED
  BY <1>1, <1>2, CacheInvStep, PTL DEF CacheSpec

-----------------------------------------------------------------------------
(* What the caches promise.                                                *)

\* The older file never mixes environments, even when a lock was lost.
THEOREM EnvironmentsStayApart == CacheSpec => []OneEnvironment
<1>1. CacheInv => OneEnvironment
  BY DEF CacheInv, FilesInv
<1> QED
  BY <1>1, CacheInvariant, PTL

\* What a step does to the two files, until a lock is overdue.
LEMMA SavesKeep ==
    ASSUME CacheInv, [CacheNext]_allVars, ~overdue'
    PROVE  /\ \A m \in Module :
                Captured(surfaces'[m]) >= Captured(surfaces[m])
           /\ modules'.env = modules.env => \A m \in Module :
                modules.of[m] # Nothing => modules'.of[m] # Nothing
<1>1. \A m \in Module : Captured(surfaces[m]) \in Nat
  BY CapturesAreNumbers DEF CacheInv, CacheTypeOK
<1>2. CASE UNCHANGED <<surfaces, modules>>
  BY <1>1, <1>2
<1>3. ASSUME NEW p \in Process, StepOf(p)
      PROVE  /\ \A m \in Module :
                  Captured(surfaces'[m]) >= Captured(surfaces[m])
             /\ modules'.env = modules.env => \A m \in Module :
                  modules.of[m] # Nothing => modules'.of[m] # Nothing
  <2>1. CacheTypeOK /\ DraftInv(p) /\ ~overdue
    BY <1>3, OneSessionSteps DEF CacheInv
  <2>2. surfaces' # surfaces =>
          surfaces' = session[p].draft /\ At(p, "saveSurfaces")
    BY <1>3, <2>1, SavesAndLoads DEF SaveSurfaces
  <2>3. modules' # modules =>
          /\ modules' = [env |-> environment[p], of |-> session[p].draft]
          /\ At(p, "saveModules")
    BY <1>3, <2>1, SavesAndLoads DEF SaveModules
  <2> QED
    BY <1>1, <2>1, <2>2, <2>3 DEF DraftInv
<1>4. CASE Time \/ UNCHANGED allVars
  BY <1>2, <1>4 DEF Time, allVars, cacheVars
<1> QED
  BY <1>3, <1>4 DEF CacheNext, StepOf

\* "A stale cache session does not replace a newer module"
\* (test_api_signature_hallucination.py:685): however long ago a scan looked,
\* its save replaces no surface by an older one, and loses none.
THEOREM SurfacesNeverOlder == CacheSpec => SurfacesMoveForward
<1>1. CacheInv /\ [CacheNext]_allVars =>
        [~overdue' => \A m \in Module :
           Captured(surfaces'[m]) >= Captured(surfaces[m])]_allVars
  BY SavesKeep
<1> QED
  BY <1>1, CacheInvariant, PTL DEF CacheSpec, SurfacesMoveForward

\* A save keeps every module of the older file of its environment.
THEOREM ModulesNeverLost == CacheSpec => ModulesKept
<1>1. CacheInv /\ [CacheNext]_allVars =>
        [~overdue' /\ modules'.env = modules.env => \A m \in Module :
           modules.of[m] # Nothing => modules'.of[m] # Nothing]_allVars
  BY SavesKeep
<1> QED
  BY <1>1, CacheInvariant, PTL DEF CacheSpec, ModulesKept

=============================================================================
