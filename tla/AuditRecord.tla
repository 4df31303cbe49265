----------------------------- MODULE AuditRecord -----------------------------
(***************************************************************************)
(* The life of one file's Deep Audit record (skylos/audit/store.py) under  *)
(* the processes that share it:                                            *)
(*   scanners   run_deep_audit_scan (candidates.py): read the source, mark *)
(*              a deleted file, upsert the record;                         *)
(*   workers    process_deep_audit_records (processor.py): snapshot the    *)
(*              record, claim it, read the source, let the model examine   *)
(*              it, commit or report an error - or mark the record         *)
(*              unsupported or secret-bearing;                             *)
(*   verifiers  revalidate_deep_audit_findings (revalidator.py): read a    *)
(*              finding, judge it, append the verdict;                     *)
(*   an editor  that changes or removes the source at any time.            *)
(* Records of different files share nothing but the mutation guard, so one *)
(* file is enough.  What the store does under its guard is one action      *)
(* (module MutationGuard shows when that is justified); everything else is *)
(* a step of its own, and in particular a lock-free read is a step.        *)
(* Hashes stand for the content they are computed from.                    *)
(***************************************************************************)
EXTENDS Naturals, FiniteSets

CONSTANTS
    Content,        \* source texts, which is to say their hashes
    None,           \* no source, no owner, no lease
    Config,         \* config_hash values
    CandidateSets,  \* what candidate discovery may find in the file
    Secret,         \* candidates that are redacted or carry a SKY-S rule
    FindingId,      \* audit_finding_id values
    Model,          \* model and provider of a run
    Run,            \* run_id values
    Lease,          \* lock_lease_id values; a fresh one is always available
    Worker, Scanner, Verifier,
    RunReuse,       \* may a caller give two runs the same run_id?
    ModelOf,        \* the model of a worker
    Investigators,  \* workers whose analyzer investigates the repository
    Forcing,        \* workers started with force
    IsPython,       \* is the file a Python source?
    Timely,         \* does every live worker finish before its lease is stale?
    LeaseStale,     \* stale_after_seconds, in ticks
    MaxEdits, MaxScans, MaxVerdicts, MaxCrashes  \* bounds on the environment

ASSUME RecordConstants ==
    /\ None \notin Content \cup Run \cup Lease \cup Model
    /\ RunReuse \in BOOLEAN
    /\ ModelOf \in [Worker -> Model]
    /\ Investigators \subseteq Worker
    /\ Forcing \subseteq Worker
    /\ IsPython \in BOOLEAN
    /\ Timely \in BOOLEAN
    /\ LeaseStale \in Nat \ {0}
    /\ MaxEdits \in Nat /\ MaxScans \in Nat
    /\ MaxVerdicts \in Nat /\ MaxCrashes \in Nat

VARIABLES
    source,     \* the file in the working tree now; None when there is none
    record,     \* the record on disk; status "none" when there is none
    worker,     \* the local state of each process_deep_audit_records
    scanner,    \* the local state of each scan
    verifier,   \* the local state of each revalidation
    spent       \* how much of each bound has been used

vars == <<source, record, worker, scanner, verifier, spent>>

-----------------------------------------------------------------------------
(* Records.                                                                *)

\* STATUS_* of types.py.
Status == {"none", "pending", "processing", "analyzed", "error",
           "not_analyzed", "skipped", "deleted"}

\* A file_hash and a set of candidates, as far as there is a file or a record.
Hash  == Content \cup {None}
Cands == CandidateSets \cup {{}}

\* A finding keeps the hash of the source it was first established against.
Finding == [id : FindingId, origin : Hash]

\* An "agent_process" history entry: the model, whether it investigated the
\* repository, and what it examined.
Wave == [model : Model, deep : BOOLEAN, text : Hash, cands : Cands]

NoWave == [model |-> None, deep |-> FALSE, text |-> None, cands |-> {}]

\* A revalidation entry: which finding, for which source.
Verdict == [finding : Finding, hash : Hash]

\* waves is the analysis history as far as it is about completed analyses,
\* last its latest entry; age is the time since locked_at.
Record ==
    [status : Status, hash : Hash, config : Config \cup {None},
     cands : Cands, findings : SUBSET Finding,
     waves : SUBSET Wave, last : Wave \cup {NoWave},
     verdicts : SUBSET Verdict,
     run : Run \cup {None}, lease : Lease \cup {None}, age : 0 .. LeaseStale]

NoRecord ==
    [status |-> "none", hash |-> None, config |-> None, cands |-> {},
     findings |-> {}, waves |-> {}, last |-> NoWave, verdicts |-> {},
     run |-> None, lease |-> None, age |-> 0]

Unlocked(rec, status) ==
    [rec EXCEPT !.status = status, !.run = None, !.lease = None, !.age = 0]

\* What a commit takes from the worker's copy and must not lose from the disk.
\* The candidates, which it takes from the copy too (store.py:556), are not
\* among it: a rescan of the same text and configuration replaces those of a
\* record in processing (store.py:445), and the commit puts the old ones back.
Durable(rec) ==
    <<rec.hash, rec.config, rec.findings, rec.waves, rec.last, rec.verdicts>>

-----------------------------------------------------------------------------
(* Local states.                                                           *)

\* A worker is: idle; queued with a snapshot taken; claimed with a lease;
\* copied with its own copy of the record; analyzing a source it has read;
\* failing with an exception in hand; marking, about to read the record it
\* will mark, and writing what it read; or closing, about to sum up its run.
WorkerPc == {"idle", "queued", "claimed", "copied", "analyzing", "failing",
             "marking", "writing", "closing"}

WorkerState ==
    [pc : WorkerPc, run : Run \cup {None}, inactive : BOOLEAN,
     lease : Lease \cup {None}, copy : Record, text : Hash, clean : BOOLEAN]

IdleWorker ==
    [pc |-> "idle", run |-> None, inactive |-> FALSE, lease |-> None,
     copy |-> NoRecord, text |-> None, clean |-> TRUE]

ScannerState ==
    [pc : {"idle", "collected", "marked"}, hash : Hash,
     config : Config \cup {None}, cands : Cands]

IdleScanner == [pc |-> "idle", hash |-> None, config |-> None, cands |-> {}]

VerifierState ==
    [pc : {"idle", "judging"}, hash : Hash,
     config : Config \cup {None}, of : SUBSET Finding]

IdleVerifier == [pc |-> "idle", hash |-> None, config |-> None, of |-> {}]

TypeOK ==
    /\ source \in Hash
    /\ record \in Record
    /\ worker \in [Worker -> WorkerState]
    /\ scanner \in [Scanner -> ScannerState]
    /\ verifier \in [Verifier -> VerifierState]
    /\ spent \in [edits : 0 .. MaxEdits, scans : 0 .. MaxScans,
                  verdicts : 0 .. MaxVerdicts, crashes : 0 .. MaxCrashes]

Init ==
    /\ source \in Content
    /\ record = NoRecord
    /\ worker = [w \in Worker |-> IdleWorker]
    /\ scanner = [s \in Scanner |-> IdleScanner]
    /\ verifier = [v \in Verifier |-> IdleVerifier]
    /\ spent = [edits |-> 0, scans |-> 0, verdicts |-> 0, crashes |-> 0]

Exists == record.status # "none"

-----------------------------------------------------------------------------
(* Scans.                                                                  *)

\* Read the sources and discover candidates; they depend on other files too,
\* so the same text may yield different candidates in different scans.
Collect(s) ==
    /\ scanner[s].pc = "idle"
    /\ spent.scans < MaxScans
    /\ \E config \in Config, cands \in CandidateSets :
         scanner' = [scanner EXCEPT ![s] =
                       [pc |-> "collected", hash |-> source,
                        config |-> config, cands |-> cands]]
    /\ spent' = [spent EXCEPT !.scans = @ + 1]
    /\ UNCHANGED <<source, record, worker, verifier>>

\* mark_deleted_records, for the file when its record exists.
MarkDeleted(s) ==
    /\ scanner[s].pc = "collected"
    /\ record' = IF Exists /\ source = None /\ record.status # "deleted"
                 THEN Unlocked(record, "deleted") ELSE record
    /\ scanner' = [scanner EXCEPT ![s] =
                     IF scanner[s].hash = None THEN IdleScanner
                     ELSE [scanner[s] EXCEPT !.pc = "marked"]]
    /\ UNCHANGED <<source, worker, verifier, spent>>

MatchesScan(scan) == record.hash = scan.hash /\ record.config = scan.config

\* Mutant of ScanRecordStatus: not one of the statuses of types.py.
ScanRecordStatusUnsupported(scan) ==
    CASE MatchesScan(scan) /\ record.status = "processing" -> "processing"
      [] MatchesScan(scan) /\ record.status \in {"analyzed", "error"}
           /\ record.cands = scan.cands -> record.status
      [] OTHER -> IF scan.cands = {} THEN "unsupported" ELSE "pending"

\* Mutant of ScanRecordStatus: hash and configuration decide alone.
ScanRecordStatusByHash(scan) ==
    CASE MatchesScan(scan) /\ record.status \in {"processing", "analyzed",
                                                 "error"} -> record.status
      [] OTHER -> IF scan.cands = {} THEN "not_analyzed" ELSE "pending"

ScanRecordStatus(scan) ==
    CASE MatchesScan(scan) /\ record.status = "processing" -> "processing"
      [] MatchesScan(scan) /\ record.status \in {"analyzed", "error"}
           /\ record.cands = scan.cands -> record.status
      [] OTHER -> IF scan.cands = {} THEN "not_analyzed" ELSE "pending"

\* _upsert_scan_record_unlocked: findings, history and verdicts are kept
\* whatever changed, the lock only with the processing status.
ScannedRecord(scan) ==
    LET status == ScanRecordStatus(scan)
        kept   == IF status = "processing" THEN record
                  ELSE Unlocked(record, status)
    IN [kept EXCEPT !.hash = scan.hash, !.config = scan.config,
                    !.cands = scan.cands]

Upsert(s) ==
    /\ scanner[s].pc = "marked"
    /\ record' = ScannedRecord(scanner[s])
    /\ scanner' = [scanner EXCEPT ![s] = IdleScanner]
    /\ UNCHANGED <<source, worker, verifier, spent>>

-----------------------------------------------------------------------------
(* Runs of the processor: which records to work on.                        *)

Holistic(w) == w \in Investigators

\* Mutant of ContextIsCurrent: the files the analysis read are not compared.
ContextIsCurrentUnread(w) ==
    /\ record.last # NoWave
    /\ record.last.model = ModelOf[w]
    /\ Holistic(w) => record.last.deep

\* agent_context_is_current: the latest analysis was by this model and, where
\* it recorded the files it read, they have not changed since.
ContextIsCurrent(w) ==
    /\ record.last # NoWave
    /\ record.last.model = ModelOf[w]
    /\ Holistic(w) => record.last.deep
    /\ record.last.deep => record.last.text = source

IsActive(w) ==
    \/ record.status \in {"pending", "processing", "error"}
    \/ /\ w \in Forcing
       /\ record.status \in {"analyzed", "not_analyzed", "skipped"}

\* An investigator compares the digest of the whole repository: when it has
\* changed elsewhere, the analysis is repeated though this file is the same.
ShouldProcess(w, elsewhere) ==
    \/ record.status \in {"pending", "processing", "error"}
    \/ record.status = "analyzed" /\ (w \in Forcing \/ ~ContextIsCurrent(w))
    \/ record.status = "analyzed" /\ Holistic(w) /\ elsewhere
    \/ record.status = "not_analyzed" /\ Holistic(w)

Considered(w) ==
    /\ Exists
    /\ record.status # "deleted"
    /\ record.cands # {} \/ Holistic(w)

Unsupported(w) == ~Holistic(w) /\ ~IsPython

SecretBearing == record.cands \cap Secret # {}

MayMark(w) == Unsupported(w) \/ SecretBearing

\* What becomes of the file when a run reads the records.
Disposition(w, elsewhere) ==
    CASE Considered(w) /\ MayMark(w) /\ IsActive(w) -> "marking"
      [] Considered(w) /\ ~MayMark(w)
           /\ ShouldProcess(w, elsewhere) -> "queued"
      [] OTHER -> "closing"

\* The lock-free snapshot a run decides from.
Snapshot(w) ==
    /\ worker[w].pc = "idle"
    /\ \E elsewhere \in BOOLEAN :
         worker' = [worker EXCEPT ![w] =
                      [IdleWorker EXCEPT
                         !.pc = Disposition(w, elsewhere),
                         !.inactive = record.status \in
                                        {"analyzed", "not_analyzed"}]]
    /\ UNCHANGED <<source, record, scanner, verifier, spent>>

-----------------------------------------------------------------------------
(* Runs of the processor: a claimed file.                                  *)

\* A run makes up its run_id, unless its caller gave it one.
KnownRun == {record.run} \cup {worker[w].run : w \in Worker}

FreeRun == IF RunReuse THEN Run ELSE Run \ KnownRun

\* Mutant of Claimable: the lease of another run never grows stale.
ClaimableByOwner(w, run) ==
    /\ \/ record.status \in {"pending", "processing", "error"}
       \/ worker[w].inactive /\ record.status \in {"analyzed", "not_analyzed"}
    /\ record.status # "processing" \/ record.run \in {None, run}

Claimable(w, run) ==
    /\ \/ record.status \in {"pending", "processing", "error"}
       \/ worker[w].inactive /\ record.status \in {"analyzed", "not_analyzed"}
    /\ \/ record.status # "processing"
       \/ record.run \in {None, run}
       \/ record.age >= LeaseStale

\* Leases somebody still knows; uuid4 never repeats one of them.
KnownLease == {record.lease} \cup {worker[w].lease : w \in Worker}

\* The run_id is as old as the run, but matters from here on.
AcquireLease(w) ==
    /\ worker[w].pc = "queued"
    /\ \E run \in FreeRun, lease \in Lease \ KnownLease :
         /\ Claimable(w, run)
         /\ record' = [record EXCEPT !.status = "processing", !.run = run,
                                     !.lease = lease, !.age = 0]
         /\ worker' = [worker EXCEPT ![w] =
                          [IdleWorker EXCEPT !.pc = "claimed", !.run = run,
                                             !.lease = lease]]
    /\ UNCHANGED <<source, scanner, verifier, spent>>

\* The file counts as locked, and the run goes on without it.
GiveUp(w) == worker' = [worker EXCEPT ![w] =
                          [IdleWorker EXCEPT !.pc = "closing", !.clean = FALSE]]

LeaseRefused(w) ==
    /\ worker[w].pc = "queued"
    /\ \E run \in FreeRun : ~Claimable(w, run)
    /\ GiveUp(w)
    /\ UNCHANGED <<source, record, scanner, verifier, spent>>

HoldsLease(w) == record.lease = worker[w].lease

ReadBack(w) ==
    /\ worker[w].pc = "claimed"
    /\ HoldsLease(w)
    /\ worker' = [worker EXCEPT ![w].pc = "copied", ![w].copy = record]
    /\ UNCHANGED <<source, record, scanner, verifier, spent>>

ReadBackLost(w) ==
    /\ worker[w].pc = "claimed"
    /\ ~HoldsLease(w)
    /\ GiveUp(w)
    /\ UNCHANGED <<source, record, scanner, verifier, spent>>

\* _read_current_record_source: unreadable or changed sources are refused.
SourceAccepted(w) == source # None /\ source = worker[w].copy.hash

\* After an exception only the claim is used.
Failing(w) == [IdleWorker EXCEPT !.pc = "failing", !.run = worker[w].run,
                                 !.lease = worker[w].lease]

ReadSource(w) ==
    /\ worker[w].pc = "copied"
    /\ worker' = [worker EXCEPT ![w] =
                    IF SourceAccepted(w)
                    THEN [worker[w] EXCEPT !.pc = "analyzing", !.text = source]
                    ELSE Failing(w)]
    /\ UNCHANGED <<source, record, scanner, verifier, spent>>

AnalysisFails(w) ==
    /\ worker[w].pc = "analyzing"
    /\ worker' = [worker EXCEPT ![w] = Failing(w)]
    /\ UNCHANGED <<source, record, scanner, verifier, spent>>

\* Mutant of Provenance: every finding is stamped with the present source.
ProvenanceRestamped(copy, found) ==
    {[id |-> id, origin |-> copy.hash] : id \in found}

\* The findings of a result: those known before keep their origin.
Provenance(copy, found) ==
    {f \in copy.findings : f.id \in found} \cup
    {[id |-> id, origin |-> copy.hash] :
       id \in found \ {f.id : f \in copy.findings}}

\* An analyzer without _analyze_whole_file reads the file once more
\* (processor.py:895); the wave nevertheless records the text read before.
WaveOf(w) == [model |-> ModelOf[w], deep |-> Holistic(w),
              text |-> worker[w].text, cands |-> worker[w].copy.cands]

\* The worker's copy, as it is when it hands it to commit_claimed_record.
Result(w, found) ==
    [Unlocked(worker[w].copy, "analyzed") EXCEPT
       !.findings = Provenance(worker[w].copy, found),
       !.waves = @ \cup {WaveOf(w)}, !.last = WaveOf(w)]

\* Mutant of Fenced: the run_id is fence enough.
FencedByRun(w) ==
    /\ record.status = "processing"
    /\ record.run = worker[w].run

Fenced(w) ==
    /\ record.status = "processing"
    /\ record.run = worker[w].run
    /\ HoldsLease(w)

Commit(w) ==
    /\ worker[w].pc = "analyzing"
    /\ Fenced(w)
    /\ \E found \in SUBSET FindingId : record' = Result(w, found)
    /\ worker' = [worker EXCEPT ![w] = [IdleWorker EXCEPT !.pc = "closing"]]
    /\ UNCHANGED <<source, scanner, verifier, spent>>

\* The claim was superseded: the result is dropped.
CommitRefused(w) ==
    /\ worker[w].pc = "analyzing"
    /\ ~Fenced(w)
    /\ GiveUp(w)
    /\ UNCHANGED <<source, record, scanner, verifier, spent>>

\* mark_error with a run_id; a superseded worker changes nothing.
MarkError(w) ==
    /\ worker[w].pc = "failing"
    /\ record' = IF Fenced(w) THEN Unlocked(record, "error") ELSE record
    /\ GiveUp(w)
    /\ UNCHANGED <<source, scanner, verifier, spent>>

-----------------------------------------------------------------------------
(* Runs of the processor: marked files, and the end of a run.              *)

\* _mark_unsupported and _mark_secret_skipped read without the guard ...
MarkRead(w) ==
    /\ worker[w].pc = "marking"
    /\ worker' = [worker EXCEPT ![w].pc = "writing",
                    ![w].copy = Unlocked(record, IF Unsupported(w)
                                                 THEN "not_analyzed"
                                                 ELSE "skipped")]
    /\ UNCHANGED <<source, record, scanner, verifier, spent>>

\* ... and write what they read back, whatever happened in between.
MarkWrite(w) ==
    /\ worker[w].pc = "writing"
    /\ record' = worker[w].copy
    /\ worker' = [worker EXCEPT ![w] = [IdleWorker EXCEPT !.pc = "closing"]]
    /\ UNCHANGED <<source, scanner, verifier, spent>>

\* _is_unresolved_record
Unresolved(w) ==
    /\ Considered(w)
    /\ record.status = "analyzed" => ~ContextIsCurrent(w)

\* AuditProcessSummary.complete, as far as this file has a say in it: a change
\* elsewhere in the repository also keeps a run from being complete.
Complete(w) == worker[w].clean /\ ~Unresolved(w)

\* The run sums up and ends.
Summarize(w) ==
    /\ worker[w].pc = "closing"
    /\ worker' = [worker EXCEPT ![w] = IdleWorker]
    /\ UNCHANGED <<source, record, scanner, verifier, spent>>

-----------------------------------------------------------------------------
(* Revalidation.                                                           *)

\* Read a finding of a record and hand it to the verifier.  A record that is
\* deleted by now may have been listed before it was.
StartJudging(v) ==
    /\ verifier[v].pc = "idle"
    /\ spent.verdicts < MaxVerdicts
    /\ Exists /\ ~SecretBearing
    /\ \E f \in record.findings :
         verifier' = [verifier EXCEPT ![v] =
                        [pc |-> "judging", hash |-> record.hash,
                         config |-> record.config, of |-> {f}]]
    /\ spent' = [spent EXCEPT !.verdicts = @ + 1]
    /\ UNCHANGED <<source, record, worker, scanner>>

\* Mutant of MayAppend: a record in processing may be appended to.
MayAppendUnlocked(job) ==
    /\ record.status \notin {"none", "deleted"}
    /\ record.hash = job.hash
    /\ record.config = job.config
    /\ job.of \subseteq record.findings

\* append_revalidation_entry refuses a record that is being processed, is
\* deleted, or is no longer the one that was judged.
MayAppend(job) ==
    /\ record.status \notin {"none", "deleted", "processing"}
    /\ record.hash = job.hash
    /\ record.config = job.config
    /\ job.of \subseteq record.findings

AppendVerdict(v) ==
    /\ verifier[v].pc = "judging"
    /\ record' = IF MayAppend(verifier[v])
                 THEN [record EXCEPT !.verdicts = @ \cup
                         {[finding |-> f, hash |-> verifier[v].hash] :
                            f \in verifier[v].of}]
                 ELSE record
    /\ verifier' = [verifier EXCEPT ![v] = IdleVerifier]
    /\ UNCHANGED <<source, worker, scanner, spent>>

-----------------------------------------------------------------------------
(* The environment.                                                        *)

\* The file is edited, removed or created again.
Edit ==
    /\ spent.edits < MaxEdits
    /\ source' \in Hash \ {source}
    /\ spent' = [spent EXCEPT !.edits = @ + 1]
    /\ UNCHANGED <<record, worker, scanner, verifier>>

\* A worker dies; its claim stays on the record.
Crash(w) ==
    /\ worker[w].pc # "idle"
    /\ spent.crashes < MaxCrashes
    /\ worker' = [worker EXCEPT ![w] = IdleWorker]
    /\ spent' = [spent EXCEPT !.crashes = @ + 1]
    /\ UNCHANGED <<source, record, scanner, verifier>>

LiveClaim == \E w \in Worker : worker[w].lease # None /\ HoldsLease(w)

Tick ==
    /\ record.status = "processing"
    /\ record.age < LeaseStale
    /\ Timely => ~LiveClaim
    /\ record' = [record EXCEPT !.age = @ + 1]
    /\ UNCHANGED <<source, worker, scanner, verifier, spent>>

WorkerStep(w) ==
    \/ Snapshot(w) \/ AcquireLease(w) \/ LeaseRefused(w)
    \/ ReadBack(w) \/ ReadBackLost(w) \/ ReadSource(w) \/ AnalysisFails(w)
    \/ Commit(w) \/ CommitRefused(w) \/ MarkError(w)
    \/ MarkRead(w) \/ MarkWrite(w) \/ Summarize(w)

ScannerStep(s) == Collect(s) \/ MarkDeleted(s) \/ Upsert(s)

VerifierStep(v) == StartJudging(v) \/ AppendVerdict(v)

Next ==
    \/ \E w \in Worker : WorkerStep(w) \/ Crash(w)
    \/ \E s \in Scanner : ScannerStep(s)
    \/ \E v \in Verifier : VerifierStep(v)
    \/ Edit
    \/ Tick

Spec == Init /\ [][Next]_vars

\* The processor keeps being run, every run goes on to its end unless it
\* dies, and time passes.  Nobody has to scan, edit or verify.
Fairness ==
    /\ \A w \in Worker : WF_vars(WorkerStep(w))
    /\ WF_vars(Tick)

FairSpec == Spec /\ Fairness

-----------------------------------------------------------------------------
(* Properties.                                                             *)

\* While a worker's lease is the one on the record, the hash, configuration,
\* findings, analyses and verdicts on disk, which its whole-record commit
\* replaces, are those the worker copied: none that arrived in between can be
\* lost by it, and a scan of another text or configuration, or a deletion, has
\* taken the lease away.  The exception are the candidates: what a rescan of
\* the same text and configuration found meanwhile the commit does replace, by
\* the candidates that were analyzed.
CommitLosesNothing ==
    \A w \in Worker :
      worker[w].pc \in {"copied", "analyzing"} /\ HoldsLease(w)
        => Durable(record) = Durable(worker[w].copy)

\* An analyzed record was examined as it stands: its latest analysis read the
\* very source, and judged the very candidates, that the record now names.
\* Rescans, reclaims and late workers do not dress an old analysis up as one
\* of newer inputs.
AnalyzedAsRecorded ==
    record.status = "analyzed" =>
      /\ record.last.text = record.hash
      /\ record.last.cands = record.cands
      /\ record.last \in record.waves

\* "Discovery provenance is immutable" (processor.py:353): a commit never
\* gives a finding that is on disk another origin.
OriginKept ==
    [][\A w \in Worker : Commit(w) =>
         \A f \in record.findings, g \in record'.findings :
            f.id = g.id => f.origin = g.origin]_vars

\* When an investigating run says it is complete and the file is still in
\* scope, its record was analyzed from the source that is in the tree.
CompleteIsCurrent ==
    [][\A w \in Investigators :
         Summarize(w) /\ Complete(w) /\ Considered(w)
           => record.status = "analyzed" /\ record.hash = source]_vars

\* No claim stays for ever: a worker that dies leaves a lease that grows
\* stale, and another run takes the file over.
NoClaimForEver == record.status = "processing" ~> record.status # "processing"

\* Whatever scans, runs and verifiers do in whatever order, late workers and
\* reused run_ids included, what they have added to the history of the record
\* stays there: it is the marks alone, which write what they read without the
\* guard, that can take an analysis or a verdict away.
HistoryGrows ==
    [][(\A w \in Worker : ~MarkWrite(w))
         => /\ record.waves \subseteq record'.waves
            /\ record.verdicts \subseteq record'.verdicts]_vars

\* "Keep each analysis wave auditable" (processor.py:384): no step drops a
\* completed analysis from the record's history.
WavesKept == [][record.waves \subseteq record'.waves]_vars

=============================================================================
