----------------------------- MODULE AgentCenter -----------------------------
(***************************************************************************)
(* The agent command center (skylos/agents/center.py) and its HTTP service *)
(* (skylos/agents/service.py): one JSON file holds the findings of the     *)
(* last analysis, the file signatures and the review digest that decide    *)
(* whether it may be reused, and the user's triage.  Threads of the        *)
(* service take turns under one lock; `skylos agent watch` and `skylos     *)
(* agent triage` use the same file and no lock at all.                     *)
(*                                                                         *)
(* A client is named by where it stands:                                   *)
(*   idle      not in a call                                               *)
(*   load      about to read the state file                                *)
(*   edit      holds a state, about to set or clear a triage entry in it   *)
(*   sign      about to look at signatures and review digest, and to       *)
(*             decide whether the state it read may be reused              *)
(*   analyse   about to analyse the sources                                *)
(*   apply     about to apply the review decisions and compose the state   *)
(*   truncate  about to open the state file for writing                    *)
(*   write     has emptied the state file, about to fill it                *)
(*                                                                         *)
(* Sources and reviews are counted: a signature is the number of edits, the *)
(* review digest the parity of the number of changes, since a decision     *)
(* that is recorded and restored leaves the digest as it was.              *)
(***************************************************************************)
EXTENDS Naturals

CONSTANTS
    Thread,     \* clients of the service, which share its lock
    Watch,      \* clients that use the file directly: agent watch
    Action,     \* the action ids a user triages
    NoState,    \* the state file does not exist
    Torn,       \* the state file does not hold the whole of a state
    NoJob,      \* the job of an idle client
    Free,       \* nobody has the lock of the service
    MaxEdits,   \* bound: changes of the sources
    MaxReviews, \* bound: changes of the review decisions
    MaxClock,   \* bound: the end of time, in units of a snooze
    MaxFailures \* bound: calls that raise, and processes that die

ASSUME AgentCenterConstants ==
    /\ Thread \cap Watch = {}
    /\ Free \notin Thread
    /\ MaxEdits \in Nat /\ MaxReviews \in Nat /\ MaxClock \in Nat
    /\ MaxFailures \in Nat

VARIABLES
    source,    \* how often the sources were edited
    reviews,   \* how often the review decisions changed
    now,       \* the clock
    file,      \* the state file
    lock,      \* AgentServiceController._lock
    pc,        \* where each client stands
    job,       \* what each client was asked to do
    draft,     \* the state a client read, builds and saves
    failures,  \* how many calls have failed
    wanted,    \* history: the triage the service has carried out, as long as
               \* nothing is spoiled
    spoiled    \* history: has somebody written without the lock, or died
               \* in the middle of a write?

vars == <<source, reviews, now, file, lock, pc, job, draft, failures, wanted,
          spoiled>>

-----------------------------------------------------------------------------
Client == Thread \cup Watch

\* A triage entry is the time until which it hides its action: 0 is no entry,
\* Forever a dismissal.  A snooze taken at MaxClock does not end in the bound.
Forever == MaxClock + 2
Triage == [Action -> 0 .. Forever]
NoTriage == [a \in Action |-> 0]

State == [signed   : 0 .. MaxEdits,    \* file_signatures
          analysed : 0 .. MaxEdits,    \* the sources the findings are of
          digest   : 0 .. MaxReviews,  \* the reviews of review_state_revision
          reviewed : 0 .. MaxReviews,  \* the reviews the findings follow
          triage   : Triage]

ASSUME AgentCenterFile == NoState \notin State /\ Torn \notin State

\* What _load_refresh_context works with when nothing can be loaded.
Blank == [signed |-> 0, analysed |-> 0, digest |-> 0, reviewed |-> 0,
          triage |-> NoTriage]

\* A job: a refresh, forced or not, or a triage of one action.  A triage that
\* finds no state becomes forced until it has made one.
Job == [kind : {"refresh", "dismiss", "snooze", "restore"}, of : Action,
        force : BOOLEAN]

\* The service always forces a refresh, and a watch its first only, which is
\* like one that finds the sources changed.
Requests(p) ==
    {j \in Job : IF p \in Thread THEN j.force <=> j.kind = "refresh"
                ELSE j.kind = "refresh" /\ ~j.force}

Loaded == file # NoState /\ file # Torn

TypeOK ==
    /\ source \in 0 .. MaxEdits
    /\ reviews \in 0 .. MaxReviews
    /\ now \in 0 .. MaxClock
    /\ file \in State \cup {NoState, Torn}
    /\ lock \in Thread \cup {Free}
    /\ pc \in [Client -> {"idle", "load", "edit", "sign", "analyse", "apply",
                          "truncate", "write"}]
    /\ job \in [Client -> Job \cup {NoJob}]
    /\ draft \in [Client -> State \cup {NoState}]
    /\ failures \in 0 .. MaxFailures
    /\ wanted \in Triage
    /\ spoiled \in BOOLEAN
    /\ \A p \in Thread : pc[p] # "idle" <=> lock = p
    /\ \A p \in Client : pc[p] # "idle" => job[p] \in Job
    /\ \A p \in Client :
         pc[p] \notin {"idle", "load", "sign"} => draft[p] \in State
    /\ \A p \in Client : pc[p] = "edit" => job[p].kind # "refresh"

Init ==
    /\ source = 0 /\ reviews = 0 /\ now = 0
    /\ file = NoState
    /\ lock = Free
    /\ pc = [p \in Client |-> "idle"]
    /\ job = [p \in Client |-> NoJob]
    /\ draft = [p \in Client |-> NoState]
    /\ failures = 0
    /\ wanted = NoTriage
    /\ spoiled = FALSE

-----------------------------------------------------------------------------
(* Triage.                                                                 *)

\* normalize_triage_map: a snooze whose time has come is dropped.
Normalized(triage) ==
    [a \in Action |-> IF triage[a] > now THEN triage[a] ELSE 0]

\* The triage with one entry set or cleared.
Triaged(triage, j) ==
    [Normalized(triage) EXCEPT
       ![j.of] = CASE j.kind = "dismiss" -> Forever
                   [] j.kind = "snooze"  -> now + 1
                   [] j.kind = "restore" -> 0]

-----------------------------------------------------------------------------
(* Steps of a client.                                                      *)

GoTo(p, to) == pc' = [pc EXCEPT ![p] = to]
Keep(p, state) == draft' = [draft EXCEPT ![p] = state]

\* The call is over; a thread of the service leaves the lock.
Leave(p) ==
    /\ GoTo(p, "idle")
    /\ job' = [job EXCEPT ![p] = NoJob]
    /\ Keep(p, NoState)
    /\ lock' = IF lock = p THEN Free ELSE lock

\* The world outside a client's own step.
Outside == <<source, reviews, now, failures>>

\* From here on the file may hold any triage.
Spoil == spoiled' = TRUE /\ wanted' = NoTriage

\* Mutant of Begin: the service does not take its lock.
BeginUnlocked(p, j) ==
    /\ pc[p] = "idle"
    /\ GoTo(p, "load")
    /\ job' = [job EXCEPT ![p] = j]
    /\ UNCHANGED <<Outside, file, lock, draft, wanted, spoiled>>

Begin(p, j) ==
    /\ pc[p] = "idle"
    /\ IF p \in Thread THEN lock = Free /\ lock' = p ELSE UNCHANGED lock
    /\ GoTo(p, "load")
    /\ job' = [job EXCEPT ![p] = j]
    /\ UNCHANGED <<Outside, file, draft, wanted, spoiled>>

\* A triage needs a state: one is made first, except for a restore, which
\* raises.
LoadForTriage(p) ==
    IF Loaded
    THEN GoTo(p, "edit") /\ Keep(p, file) /\ UNCHANGED <<job, lock>>
    ELSE IF job[p].kind = "restore"
    THEN Leave(p)
    ELSE /\ GoTo(p, "sign")
         /\ job' = [job EXCEPT ![p].force = TRUE]
         /\ UNCHANGED <<draft, lock>>

\* load_agent_state: what cannot be parsed is as good as nothing.
Load(p) ==
    /\ pc[p] = "load"
    /\ IF job[p].kind = "refresh"
         THEN /\ GoTo(p, "sign")
              /\ Keep(p, IF Loaded THEN file ELSE NoState)
              /\ UNCHANGED <<job, lock>>
         ELSE LoadForTriage(p)
    /\ UNCHANGED <<Outside, file, wanted, spoiled>>

Previous(p) == IF draft[p] = NoState THEN Blank ELSE draft[p]

\* _maybe_reuse_previous_state
MayReuse(p) ==
    /\ ~job[p].force
    /\ draft[p] # NoState
    /\ Previous(p).signed = source
    /\ Previous(p).digest % 2 = reviews % 2

\* Mutant of Reuse: that a snooze is over is no reason to save.
ReuseAsIs(p) ==
    /\ pc[p] = "sign"
    /\ MayReuse(p)
    /\ Leave(p)
    /\ UNCHANGED <<Outside, file, wanted, spoiled>>

Reuse(p) ==
    /\ pc[p] = "sign"
    /\ MayReuse(p)
    /\ LET triage == Normalized(draft[p].triage)
       IN  IF triage = draft[p].triage
             THEN Leave(p)
             ELSE /\ GoTo(p, "truncate")
                  /\ Keep(p, [draft[p] EXCEPT !.triage = triage])
                  /\ UNCHANGED <<lock, job>>
    /\ UNCHANGED <<Outside, file, wanted, spoiled>>

\* The signatures and the digest are those from before the analysis.  They are
\* taken one after the other (center.py:572, 580), here in one step; nothing
\* compares the one with the other.
Sign(p) ==
    /\ pc[p] = "sign"
    /\ ~MayReuse(p)
    /\ Keep(p, [Blank EXCEPT !.signed = source, !.digest = reviews,
                            !.triage = Normalized(Previous(p).triage)])
    /\ GoTo(p, "analyse")
    /\ UNCHANGED <<Outside, file, lock, job, wanted, spoiled>>

Analyse(p) ==
    /\ pc[p] = "analyse"
    /\ Keep(p, [draft[p] EXCEPT !.analysed = source])
    /\ GoTo(p, "apply")
    /\ UNCHANGED <<Outside, file, lock, job, wanted, spoiled>>

\* Mutant of Apply: the state carries the signatures of the end.
ApplyAndSign(p) ==
    /\ pc[p] = "apply"
    /\ Keep(p, [draft[p] EXCEPT !.reviewed = reviews, !.signed = source,
                                !.triage = Normalized(@)])
    /\ GoTo(p, "truncate")
    /\ UNCHANGED <<Outside, file, lock, job, wanted, spoiled>>

\* apply_trusted_review_decisions, compose_agent_state
Apply(p) ==
    /\ pc[p] = "apply"
    /\ Keep(p, [draft[p] EXCEPT !.reviewed = reviews,
                                !.triage = Normalized(@)])
    /\ GoTo(p, "truncate")
    /\ UNCHANGED <<Outside, file, lock, job, wanted, spoiled>>

\* update_action_triage, clear_action_triage: one entry of the state in hand.
Edit(p) ==
    /\ pc[p] = "edit"
    /\ Keep(p, [draft[p] EXCEPT !.triage = Triaged(@, job[p])])
    /\ GoTo(p, "truncate")
    /\ UNCHANGED <<Outside, file, lock, job, wanted, spoiled>>

\* Path.write_text opens the file with "w" ...
Truncate(p) ==
    /\ pc[p] = "truncate"
    /\ file' = Torn
    /\ IF p \in Thread THEN UNCHANGED <<wanted, spoiled>> ELSE Spoil
    /\ GoTo(p, "write")
    /\ UNCHANGED <<Outside, lock, job, draft>>

\* ... and fills it.  A triage that had to make a state edits it now.
Write(p) ==
    /\ pc[p] = "write"
    /\ file' = draft[p]
    /\ IF job[p].kind # "refresh" /\ job[p].force
         THEN /\ GoTo(p, "edit")
              /\ job' = [job EXCEPT ![p].force = FALSE]
              /\ UNCHANGED <<lock, draft, wanted>>
         ELSE /\ Leave(p)
              /\ wanted' = IF job[p].kind = "refresh" \/ spoiled THEN wanted
                           ELSE [wanted EXCEPT ![job[p].of] =
                                   draft[p].triage[job[p].of]]
    /\ UNCHANGED <<Outside, spoiled>>

\* Mutant of Fail: an exception leaves the lock of the service taken.
FailLocked(p) ==
    /\ pc[p] # "idle"
    /\ failures < MaxFailures
    /\ failures' = failures + 1
    /\ IF pc[p] = "write" THEN Spoil ELSE UNCHANGED <<wanted, spoiled>>
    /\ GoTo(p, "idle")
    /\ job' = [job EXCEPT ![p] = NoJob]
    /\ Keep(p, NoState)
    /\ UNCHANGED <<source, reviews, now, file, lock>>

\* A call raises, or its process dies: the state file stays as it is.
Fail(p) ==
    /\ pc[p] # "idle"
    /\ failures < MaxFailures
    /\ failures' = failures + 1
    /\ IF pc[p] = "write" THEN Spoil ELSE UNCHANGED <<wanted, spoiled>>
    /\ Leave(p)
    /\ UNCHANGED <<source, reviews, now, file>>

-----------------------------------------------------------------------------
(* The environment.                                                        *)

EditSource ==
    /\ source < MaxEdits
    /\ source' = source + 1
    /\ UNCHANGED <<reviews, now, file, lock, pc, job, draft, failures, wanted,
                   spoiled>>

\* A review decision is recorded or, every other time, restored.
ChangeReview ==
    /\ reviews < MaxReviews
    /\ reviews' = reviews + 1
    /\ UNCHANGED <<source, now, file, lock, pc, job, draft, failures, wanted,
                   spoiled>>

Tick ==
    /\ now < MaxClock
    /\ now' = now + 1
    /\ UNCHANGED <<source, reviews, file, lock, pc, job, draft, failures,
                   wanted, spoiled>>

Work(p) ==
    \/ Load(p) \/ Reuse(p) \/ Sign(p) \/ Analyse(p) \/ Apply(p) \/ Edit(p)
    \/ Truncate(p) \/ Write(p)

Ask(p) == \E j \in Requests(p) : Begin(p, j)

Next ==
    \/ \E p \in Client : Ask(p) \/ Work(p) \/ Fail(p)
    \/ EditSource \/ ChangeReview \/ Tick

Spec == Init /\ [][Next]_vars

\* Calls go on once they have begun, and a watch asks again and again.
Fairness ==
    /\ \A p \in Client : WF_vars(Work(p))
    /\ \A p \in Watch : WF_vars(Ask(p))

FairSpec == Spec /\ Fairness

-----------------------------------------------------------------------------
(* Properties.                                                             *)

\* While only the service writes, and none of its calls ends in the middle of
\* a write, the triage in the file is the triage it carried out: no refresh,
\* however long its analysis, brings back an older one.
TriageKept ==
    lock = Free /\ ~spoiled =>
      IF file = NoState THEN wanted = NoTriage
      ELSE Loaded /\ Normalized(file.triage) = Normalized(wanted)

\* A state is reused only if its findings are of the sources that are there
\* now, whatever was edited while they were analysed; and they follow the
\* reviews in force now, whatever was decided meanwhile, unless so much was
\* decided since they were signed that the digest may have come back.
ReuseIsCurrent ==
    [][\A p \in Client : Reuse(p) =>
         /\ draft[p].analysed = source
         /\ reviews < draft[p].digest + 2 => draft[p].reviewed = reviews]_vars

\* A snooze that is over leaves the file, as long as a watch runs.
SnoozesEnd ==
    \A a \in Action :
      (Loaded /\ file.triage[a] # 0 /\ file.triage[a] <= now)
        ~> (Loaded /\ (file.triage[a] = 0 \/ file.triage[a] > now))

=============================================================================
