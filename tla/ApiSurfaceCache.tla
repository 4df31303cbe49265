--------------------------- MODULE ApiSurfaceCache ---------------------------
(***************************************************************************)
(* PythonApiSurfaceCacheSession (skylos/core/python_api_surface.py) and    *)
(* the lock it works under (CacheLock): every scan of a project looks up   *)
(* the surfaces of imported modules in two cache files, captures those     *)
(* that are missing, and merges what it captured into both files when it   *)
(* ends.  Scans of several processes, in several environments, do so at    *)
(* the same time.                                                          *)
(*                                                                         *)
(* A session is named by where it stands:                                  *)
(*   scan         between two modules                                      *)
(*   stat         has read api_symbol_truth.json, about to stat it         *)
(*   build        found nothing of its environment, about to import        *)
(*   enter        has captured a surface, about to enter it in its maps    *)
(*   lock         in flush, acquiring the lock                             *)
(*   modules      has the lock, about to read python_api_surface.json      *)
(*   saveModules  about to replace it                                      *)
(*   surfaces     about to read api_symbol_truth.json                      *)
(*   saveSurfaces about to replace it                                      *)
(*   leave        about to release the lock                                *)
(* A session is used for one scan and flushed once, at its end.            *)
(***************************************************************************)
EXTENDS CacheLock

CONSTANTS
    Module,       \* the modules the project imports
    Env,          \* the environments of the interpreters
    Environments, \* the ways in which processes may run in environments
    Nothing,      \* no surface
    MaxCaptures   \* bound: how many surfaces are captured

ASSUME ApiSurfaceCacheConstants ==
    /\ Environments \subseteq [Process -> Env]
    /\ MaxCaptures \in Nat

VARIABLES
    environment, \* the environment of each process
    modules,     \* python_api_surface.json: its environment, its surfaces
    surfaces,    \* api_symbol_truth.json: the surface of each module
    session,     \* the session of each process
    captures     \* history: how many surfaces were captured

cacheVars == <<environment, modules, surfaces, session, captures>>
allVars == <<vars, cacheVars>>

-----------------------------------------------------------------------------
\* A surface is known by its environment and by when it was captured.
Surface == [env : Env, at : 1 .. MaxCaptures]
Map == [Module -> Surface \cup {Nothing}]
NoMap == [m \in Module |-> Nothing]

Session ==
    [at      : {"scan", "stat", "build", "enter", "lock", "modules",
                "saveModules", "surfaces", "saveSurfaces", "leave"},
     asked   : SUBSET Module,          \* modules the scan has come across
     module  : Module \cup {Nothing},  \* the one it looks up
     built   : Surface \cup {Nothing}, \* what it has just captured
     view    : Map,                    \* _shared_surface_map
     fresh   : BOOLEAN,  \* is the file as it was when its state was noted?
     known   : Map \cup {Nothing},     \* _python_module_map
     pending : Map,                    \* what is to be flushed
     seen    : Map,                    \* _observed_shared_surfaces
     seenOld : Map,                    \* _observed_python_modules
     draft   : Map]                    \* the merged map, about to be saved

NewSession ==
    [at |-> "scan", asked |-> {}, module |-> Nothing, built |-> Nothing,
     view |-> NoMap, fresh |-> FALSE, known |-> Nothing, pending |-> NoMap,
     seen |-> NoMap, seenOld |-> NoMap, draft |-> NoMap]

Scanning == {"scan", "stat", "build", "enter"}
Guarded == {"modules", "saveModules", "surfaces", "saveSurfaces"}

CacheTypeOK ==
    /\ TypeOK
    /\ environment \in Environments
    /\ modules \in [env : Env \cup {Nothing}, of : Map]
    /\ surfaces \in Map
    /\ session \in [Process -> Session]
    /\ captures \in 0 .. MaxCaptures
    /\ \A p \in Process :
         /\ session[p].at \in Scanning => pc[p] = "idle"
         /\ session[p].at \in Guarded => pc[p] = "body"
         /\ session[p].at = "leave" => pc[p] \in {"body", "unlink"}
         /\ session[p].at \in {"stat", "build", "enter"} =>
              session[p].module \in Module
         /\ session[p].at = "enter" => session[p].built \in Surface

CacheInit ==
    /\ Init
    /\ environment \in Environments
    /\ modules = [env |-> Nothing, of |-> NoMap]
    /\ surfaces = NoMap
    /\ session = [p \in Process |-> NewSession]
    /\ captures = 0

-----------------------------------------------------------------------------
\* Mutant of Merged: what the session captured replaces what is there.
MergedOver(current, pending, observed) ==
    [m \in Module |-> IF pending[m] # Nothing THEN pending[m] ELSE current[m]]

\* _merge_unchanged_entries: a capture goes in where the file has what the
\* session saw before it, or still nothing.
Merged(current, pending, observed) ==
    [m \in Module |->
       IF pending[m] # Nothing /\ current[m] = observed[m] THEN pending[m]
       ELSE current[m]]

Set(p, s) == session' = [session EXCEPT ![p] = s]
At(p, stage) == session[p].at = stage

\* load_surface, once it has a map: a surface of its own environment will do.
Looked(p, s) ==
    LET found == s.view[s.module]
    IN  [s EXCEPT !.at = IF found # Nothing /\ found.env = environment[p]
                           THEN "scan" ELSE "build"]

\* The scan comes across a module.  The file is read again when its state is
\* not the one that was noted.
Ask(p, m) ==
    /\ At(p, "scan")
    /\ m \notin session[p].asked
    /\ LET s == [session[p] EXCEPT !.asked = @ \cup {m}, !.module = m]
       IN  Set(p, IF s.fresh THEN Looked(p, s)
                  ELSE [s EXCEPT !.at = "stat",
                               !.view = Merged(surfaces, s.pending, s.seen)])
    /\ UNCHANGED <<vars, environment, modules, surfaces, captures>>

\* The state is noted after the read: a file replaced in between passes for
\* the one that was read.
NoteState(p) ==
    /\ At(p, "stat")
    /\ Set(p, Looked(p, [session[p] EXCEPT !.fresh = TRUE]))
    /\ UNCHANGED <<vars, environment, modules, surfaces, captures>>

\* build_python_api_surface: the module is imported and inspected, or cannot.
Build(p) ==
    /\ At(p, "build")
    /\ \/ /\ captures < MaxCaptures
          /\ captures' = captures + 1
          /\ Set(p, [session[p] EXCEPT !.at = "enter",
                       !.built = [env |-> environment[p], at |-> captures']])
       \/ /\ Set(p, [session[p] EXCEPT !.at = "scan", !.module = Nothing])
          /\ UNCHANGED captures
    /\ UNCHANGED <<vars, environment, modules, surfaces>>

\* Mutant of ModulesFor: the environment of the file is not compared.
ModulesForAny(p) == modules.of

\* load_python_api_surface_cache: the file of another environment is empty.
ModulesFor(p) == IF modules.env = environment[p] THEN modules.of ELSE NoMap

\* What is replaced is noted.  The older map is read when the first surface
\* has been captured, and never again.
Enter(p) ==
    /\ At(p, "enter")
    /\ LET s == session[p]
           m == s.module
           known == IF s.known = Nothing THEN ModulesFor(p) ELSE s.known
       IN  Set(p, [s EXCEPT
             !.at = "scan", !.module = Nothing, !.built = Nothing,
             !.known = known,
             !.seenOld[m] = IF known[m] # Nothing THEN known[m] ELSE @,
             !.seen[m] = IF s.view[m] # Nothing THEN s.view[m] ELSE @,
             !.view[m] = s.built,
             !.pending[m] = s.built])
    /\ UNCHANGED <<vars, environment, modules, surfaces, captures>>

\* The scan ends; without a capture there is nothing to flush.  What only a
\* scan reads is of no more use.
Flush(p) ==
    /\ At(p, "scan")
    /\ LET s == session[p]
       IN  Set(p, IF s.pending = NoMap THEN NewSession
                  ELSE [NewSession EXCEPT !.at = "lock",
                          !.pending = s.pending,
                          !.seen = s.seen, !.seenOld = s.seenOld])
    /\ UNCHANGED <<vars, environment, modules, surfaces, captures>>

-----------------------------------------------------------------------------
(* The lock: the steps of CacheLock, and where they take the flush.  A      *)
(* flush that does not get the lock returns, and its session is gone with   *)
(* all it captured.                                                         *)

Along(p) ==
    Set(p, IF pc'[p] = "idle" THEN NewSession
           ELSE IF pc'[p] = "body" THEN [session[p] EXCEPT !.at = "modules"]
           ELSE session[p])

LockStep(p) ==
    /\ session[p].at \in {"lock", "leave"}
    /\ Step(p)
    /\ Along(p)
    /\ UNCHANGED <<environment, modules, surfaces, captures>>

\* Mutant of LoadModules: the file becomes what is pending.
LoadModulesAnew(p) ==
    /\ At(p, "modules")
    /\ Set(p, [session[p] EXCEPT !.at = "saveModules",
                 !.draft = session[p].pending])
    /\ UNCHANGED <<vars, environment, modules, surfaces, captures>>

LoadModules(p) ==
    /\ At(p, "modules")
    /\ Set(p, [session[p] EXCEPT !.at = "saveModules", !.seenOld = NoMap,
                 !.draft = Merged(ModulesFor(p), session[p].pending,
                                  session[p].seenOld)])
    /\ UNCHANGED <<vars, environment, modules, surfaces, captures>>

\* A save that fails is not the end of the flush.
SaveModules(p) ==
    /\ At(p, "saveModules")
    /\ \/ modules' = [env |-> environment[p], of |-> session[p].draft]
       \/ UNCHANGED modules
    /\ Set(p, [session[p] EXCEPT !.at = "surfaces", !.draft = NoMap])
    /\ UNCHANGED <<vars, environment, surfaces, captures>>

LoadSurfaces(p) ==
    /\ At(p, "surfaces")
    /\ Set(p, [NewSession EXCEPT !.at = "saveSurfaces",
                 !.draft = Merged(surfaces, session[p].pending,
                                  session[p].seen)])
    /\ UNCHANGED <<vars, environment, modules, surfaces, captures>>

\* The file is replaced, which every other session notices by its state.
SaveSurfaces(p) ==
    /\ At(p, "saveSurfaces")
    /\ \/ /\ surfaces' = session[p].draft
          /\ session' = [q \in Process |->
               IF q = p THEN [NewSession EXCEPT !.at = "leave"]
               ELSE [session[q] EXCEPT !.fresh = FALSE]]
       \/ /\ Set(p, [NewSession EXCEPT !.at = "leave"])
          /\ UNCHANGED surfaces
    /\ UNCHANGED <<vars, environment, modules, captures>>

Transaction(p) ==
    \/ LoadModules(p) \/ SaveModules(p) \/ LoadSurfaces(p) \/ SaveSurfaces(p)

\* The process dies, in a flush or in a scan, or the scan is left without one.
Die(p) ==
    /\ IF pc[p] = "idle" THEN UNCHANGED vars ELSE Crash(p)
    /\ Set(p, NewSession)
    /\ UNCHANGED <<environment, modules, surfaces, captures>>

Time == Tick /\ UNCHANGED cacheVars

CacheNext ==
    \/ \E p \in Process :
         \/ \E m \in Module : Ask(p, m)
         \/ NoteState(p) \/ Build(p) \/ Enter(p) \/ Flush(p)
         \/ LockStep(p) \/ Transaction(p) \/ Die(p)
    \/ Time

CacheSpec == CacheInit /\ [][CacheNext]_allVars

-----------------------------------------------------------------------------
(* Properties.                                                             *)

Captured(surface) == IF surface = Nothing THEN 0 ELSE surface.at

\* "A stale cache session does not replace a newer module"
\* (test_api_signature_hallucination.py:685): until a lock is overdue, no scan
\* replaces a surface by one that was captured earlier, or loses one, however
\* long ago it looked, and whatever file it took for the one it had read.
SurfacesMoveForward ==
    [][~overdue' => \A m \in Module :
         Captured(surfaces'[m]) >= Captured(surfaces[m])]_allVars

\* No scan loses a surface from the older file, as long as that file stays
\* with its environment.
ModulesKept ==
    [][~overdue' /\ modules'.env = modules.env => \A m \in Module :
         modules.of[m] # Nothing => modules'.of[m] # Nothing]_allVars

\* The older file never mixes environments, even when a lock was lost.
OneEnvironment ==
    \A m \in Module :
      modules.of[m] # Nothing => modules.of[m].env = modules.env

=============================================================================
