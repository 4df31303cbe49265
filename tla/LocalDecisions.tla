--------------------------- MODULE LocalDecisions ---------------------------
(***************************************************************************)
(* The store of local review decisions (skylos/core/review_decisions.py):  *)
(* a developer marks a finding as a false positive or an accepted risk,    *)
(* or restores it.  Each call reads the whole bundle and replaces it, both *)
(* under project_cache_lock, here the abstract lock of StoreLock.          *)
(*                                                                         *)
(* A process is named by where it stands:                                  *)
(*   idle     not in a call                                                *)
(*   locking  asked for the lock                                           *)
(*   reading  got it, about to load the bundle                             *)
(*   writing  changed its copy, about to save it                           *)
(*   saved    saved, about to leave the lock and return                    *)
(*   failed   refused or failed to save, about to leave the lock           *)
(*                                                                         *)
(* Expiry is left out: it is a field of a record that no call changes, and *)
(* a record supersedes expired and unexpired ones alike.                   *)
(***************************************************************************)
EXTENDS Naturals, FiniteSets

CONSTANTS
    Process,         \* the programs and threads that author decisions
    Decision,        \* the decision ids
    KeyOf,           \* [Decision -> key]: the finding a decision is about
    NoView,          \* the copy of a process that has read nothing
    NoCall,          \* the call of an idle process
    MaxDecisions,    \* MAX_DECISIONS
    RecordSize,      \* bytes of a record, in units
    RevocationSize,  \* bytes of revoked_at and revoked_reason, in units
    MaxBundle        \* MAX_BUNDLE_BYTES, in units

ASSUME LocalDecisionsConstants ==
    /\ MaxDecisions \in Nat
    /\ RecordSize \in Nat
    /\ RevocationSize \in Nat
    /\ MaxBundle \in Nat

VARIABLES
    store,     \* the bundle on disk: what has become of each decision
    holders,   \* the processes in the guarded section
    overdue,   \* has a lock been there long enough to be reclaimed?
    pc,        \* where each process stands
    call,      \* what it was asked to do
    view,      \* payload: its copy of the bundle
    recorded,  \* history: decisions whose record was acknowledged
    restored   \* history: decisions whose restore was acknowledged

vars == <<store, holders, overdue, pc, call, view, recorded, restored>>

Lock == INSTANCE StoreLock
Ledger == INSTANCE DecisionLedger WITH decisions <- store

-----------------------------------------------------------------------------
Bundle == [Decision -> {"absent", "standing", "revoked"}]
Call == [op : {"record", "restore"}, of : Decision]

Stored(s) == {d \in Decision : s[d] # "absent"}
Revoked(s) == {d \in Decision : s[d] = "revoked"}

Size(s) ==
    RecordSize * Cardinality(Stored(s))
      + RevocationSize * Cardinality(Revoked(s))

\* A file over MAX_BUNDLE_BYTES loads as nothing, which its callers take for
\* an invalid store because the file is there.
Readable(s) == Size(s) <= MaxBundle

TypeOK ==
    /\ store \in Bundle
    /\ holders \in SUBSET Process
    /\ overdue \in BOOLEAN
    /\ pc \in [Process -> {"idle", "locking", "reading", "writing", "saved",
                           "failed"}]
    /\ call \in [Process -> Call \cup {NoCall}]
    /\ view \in [Process -> Bundle \cup {NoView}]
    /\ recorded \in SUBSET Decision
    /\ restored \in SUBSET Decision
    /\ holders = {p \in Process : pc[p] \notin {"idle", "locking"}}
    /\ \A p \in Process : pc[p] # "idle" => call[p] \in Call
    /\ \A p \in Process : pc[p] = "writing" => view[p] \in Bundle

Init ==
    /\ store = [d \in Decision |-> "absent"]
    /\ Lock!Init
    /\ pc = [p \in Process |-> "idle"]
    /\ call = [p \in Process |-> NoCall]
    /\ view = [p \in Process |-> NoView]
    /\ recorded = {}
    /\ restored = {}

-----------------------------------------------------------------------------
GoTo(p, to) == pc' = [pc EXCEPT ![p] = to]

\* Leave the call: its locals are gone.
Return(p) ==
    /\ GoTo(p, "idle")
    /\ call' = [call EXCEPT ![p] = NoCall]
    /\ view' = [view EXCEPT ![p] = NoView]

Begin(p, c) ==
    /\ pc[p] = "idle"
    /\ GoTo(p, "locking")
    /\ call' = [call EXCEPT ![p] = c]
    /\ UNCHANGED <<store, holders, overdue, view, recorded, restored>>

Acquire(p) ==
    /\ pc[p] = "locking"
    /\ Lock!Enter(p)
    /\ GoTo(p, "reading")
    /\ UNCHANGED <<store, call, view, recorded, restored>>

\* Mutant of Busy: whether the lock was acquired is not looked at.
BusyAnyway(p) ==
    /\ pc[p] = "locking"
    /\ GoTo(p, "reading")
    /\ holders' = holders \cup {p}
    /\ UNCHANGED <<store, overdue, call, view, recorded, restored>>

\* "local review decision store is busy or unsafe"
Busy(p) ==
    /\ pc[p] = "locking"
    /\ Return(p)
    /\ UNCHANGED <<store, holders, overdue, recorded, restored>>

\* A decision id is used once, and a restored decision stays restored.
Possible(s, c) ==
    IF c.op = "record"
    THEN s[c.of] = "absent" /\ Cardinality(Stored(s)) < MaxDecisions
    ELSE s[c.of] = "standing"

\* Load the bundle and check the request against it; a refusal leaves the
\* section with an error, or with False.
Read(p) ==
    /\ pc[p] = "reading"
    /\ IF Readable(store) /\ Possible(store, call[p])
         THEN GoTo(p, "writing") /\ view' = [view EXCEPT ![p] = store]
         ELSE GoTo(p, "failed") /\ UNCHANGED view
    /\ UNCHANGED <<store, holders, overdue, call, recorded, restored>>

\* Mutant of Superseded: the older decision on the finding is left standing.
SupersededNone(s, d) == [s EXCEPT ![d] = "standing"]

\* The copy with the new record: every standing one of its key is revoked.
Superseded(s, d) ==
    [e \in Decision |->
       IF e = d THEN "standing"
       ELSE IF s[e] = "standing" /\ KeyOf[e] = KeyOf[d] THEN "revoked"
       ELSE s[e]]

\* Mutant of Changed: restoring removes the record.
ChangedByRemoval(s, c) ==
    IF c.op = "record" THEN Superseded(s, c.of)
    ELSE [s EXCEPT ![c.of] = "absent"]

Changed(s, c) ==
    IF c.op = "record" THEN Superseded(s, c.of)
    ELSE [s EXCEPT ![c.of] = "revoked"]

\* save_project_json_cache: a temporary file, then os.replace.  Nothing looks
\* at its size.
Write(p) ==
    /\ pc[p] = "writing"
    /\ store' = Changed(view[p], call[p])
    /\ GoTo(p, "saved")
    /\ view' = [view EXCEPT ![p] = NoView]
    /\ UNCHANGED <<holders, overdue, call, recorded, restored>>

WriteFails(p) ==
    /\ pc[p] = "writing"
    /\ GoTo(p, "failed")
    /\ view' = [view EXCEPT ![p] = NoView]
    /\ UNCHANGED <<store, holders, overdue, call, recorded, restored>>

\* Leave the lock and return: the caller knows that its decision was saved.
Acknowledge(p) ==
    /\ pc[p] = "saved"
    /\ Lock!Leave(p)
    /\ Return(p)
    /\ IF call[p].op = "record"
         THEN recorded' = recorded \cup {call[p].of} /\ UNCHANGED restored
         ELSE restored' = restored \cup {call[p].of} /\ UNCHANGED recorded
    /\ UNCHANGED store

\* Mutant of Refuse: an error returns without leaving the lock.
RefuseLocked(p) ==
    /\ pc[p] = "failed"
    /\ Return(p)
    /\ UNCHANGED <<store, holders, overdue, recorded, restored>>

Refuse(p) ==
    /\ pc[p] = "failed"
    /\ Lock!Leave(p)
    /\ Return(p)
    /\ UNCHANGED <<store, recorded, restored>>

\* A process dies; that its lock stays until it is overdue is left out here,
\* which only lets more happen.
Crash(p) ==
    /\ pc[p] # "idle"
    /\ IF p \in holders THEN Lock!Leave(p) ELSE UNCHANGED <<holders, overdue>>
    /\ Return(p)
    /\ UNCHANGED <<store, recorded, restored>>

LockGrowsOld ==
    /\ ~overdue
    /\ Lock!BecomeOverdue
    /\ UNCHANGED <<store, pc, call, view, recorded, restored>>

Step(p) ==
    \/ \E c \in Call : Begin(p, c)
    \/ Acquire(p) \/ Busy(p) \/ Read(p) \/ Write(p) \/ WriteFails(p)
    \/ Acknowledge(p) \/ Refuse(p)

Next ==
    \/ \E p \in Process : Step(p) \/ Crash(p)
    \/ LockGrowsOld

Spec == Init /\ [][Next]_vars

-----------------------------------------------------------------------------
(* Properties.                                                             *)

\* What the caller was told stays true until a lock is an hour old: a recorded
\* decision is in the store, whoever has rewritten the whole bundle since, and
\* a restored finding does not go back into hiding.
AcknowledgedKept ==
    ~overdue =>
      /\ \A d \in recorded : store[d] # "absent"
      /\ \A d \in restored : store[d] = "revoked"

\* No finding ever has two standing local decisions, robbed writers included:
\* a second one makes the match ambiguous, and a reviewed finding comes back.
NeverAmbiguous == Ledger!OnePerKey(store)

\* Authoring is one decision after the other, each on top of the last.
ImplementsLedger == Ledger!Spec

\* "local review decision store is full" (review_decisions.py:872-873): a
\* store that accepted a record can be loaded again; what ends the growth is
\* the limit on the number of decisions, which refuses the next one.
SavedIsReadable == Readable(store)

=============================================================================
