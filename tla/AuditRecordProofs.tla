--------------------------- MODULE AuditRecordProofs ---------------------------
(***************************************************************************)
(* What the lease of a record promises, for every number of workers,       *)
(* scanners and verifiers, every source and every candidate set: a commit  *)
(* that is let through replaces exactly what the worker read, and so an    *)
(* analyzed record describes the inputs it names.                          *)
(***************************************************************************)
EXTENDS AuditRecord, TLAPS

-----------------------------------------------------------------------------
(* Types.                                                                  *)

\* Releasing the claim of a record leaves a record.
LEMMA UnlockedTyped ==
    ASSUME NEW rec \in Record, NEW status \in Status
    PROVE  Unlocked(rec, status) \in Record
<1>1. 0 \in 0 .. LeaseStale
  BY RecordConstants
<1> QED
  BY <1>1 DEF Unlocked, Record

\* The states everybody begins in are typed.
LEMMA IdleTyped ==
    /\ NoRecord \in Record
    /\ IdleWorker \in WorkerState
    /\ IdleScanner \in ScannerState
    /\ IdleVerifier \in VerifierState
<1>1. NoRecord \in Record
  BY RecordConstants DEF NoRecord, Record, Status, Hash, Cands
<1>2. IdleWorker \in WorkerState
  BY <1>1 DEF IdleWorker, WorkerState, WorkerPc, Hash
<1>3. IdleScanner \in ScannerState
  BY DEF IdleScanner, ScannerState, Hash, Cands
<1>4. IdleVerifier \in VerifierState
  BY DEF IdleVerifier, VerifierState, Hash
<1> QED
  BY <1>1, <1>2, <1>3, <1>4

\* The initial state is typed.
LEMMA RecordInit == Init => TypeOK
<1> SUFFICES ASSUME Init PROVE TypeOK
  OBVIOUS
<1>1. spent \in [edits : 0 .. MaxEdits, scans : 0 .. MaxScans,
                 verdicts : 0 .. MaxVerdicts, crashes : 0 .. MaxCrashes]
  BY RecordConstants DEF Init
<1> QED
  BY <1>1, IdleTyped DEF Init, TypeOK, Hash

\* Giving up is typed, whatever the worker was doing.
LEMMA GiveUpTyped ==
    ASSUME TypeOK, NEW w \in Worker, GiveUp(w)
    PROVE  worker' \in [Worker -> WorkerState]
<1>1. [IdleWorker EXCEPT !.pc = "closing", !.clean = FALSE] \in WorkerState
  BY IdleTyped DEF WorkerState, WorkerPc
<1> QED
  BY <1>1 DEF GiveUp, TypeOK

\* A worker that has finished goes on to close its run.
LEMMA ClosingTyped == [IdleWorker EXCEPT !.pc = "closing"] \in WorkerState
  BY IdleTyped DEF WorkerState, WorkerPc

\* What a scan writes is a record.
LEMMA ScannedTyped ==
    ASSUME TypeOK, NEW scan \in ScannerState
    PROVE  ScannedRecord(scan) \in Record
<1>1. record \in Record
  BY DEF TypeOK
<1>2. ScanRecordStatus(scan) \in Status
  BY <1>1 DEF ScanRecordStatus, Status, Record
<1> DEFINE kept == IF ScanRecordStatus(scan) = "processing" THEN record
                   ELSE Unlocked(record, ScanRecordStatus(scan))
<1>3. kept \in Record
  BY <1>1, <1>2, UnlockedTyped
<1>4. ScannedRecord(scan) =
        [kept EXCEPT !.hash = scan.hash, !.config = scan.config,
                     !.cands = scan.cands]
  BY DEF ScannedRecord
<1> HIDE DEF kept
<1> QED
  BY <1>3, <1>4 DEF Record, ScannerState

\* What a worker commits is a record.
LEMMA ResultTyped ==
    ASSUME TypeOK, NEW w \in Worker, NEW found \in SUBSET FindingId
    PROVE  /\ Result(w, found) \in Record
           /\ WaveOf(w) \in Wave
<1>1. worker[w] \in WorkerState /\ worker[w].copy \in Record
  BY DEF TypeOK, WorkerState
<1>2. WaveOf(w) \in Wave
  BY <1>1, RecordConstants DEF WaveOf, Wave, Holistic, WorkerState, Record
<1>3. Provenance(worker[w].copy, found) \in SUBSET Finding
  BY <1>1 DEF Provenance, Finding, Record
<1>4. Unlocked(worker[w].copy, "analyzed") \in Record
  BY <1>1, UnlockedTyped DEF Status
<1> QED
  BY <1>2, <1>3, <1>4 DEF Result, Record

-----------------------------------------------------------------------------
(* Types, step by step.                                                    *)

\* The steps of scanners keep the types.
LEMMA ScannerTypes ==
    ASSUME TypeOK, NEW s \in Scanner, ScannerStep(s)
    PROVE  TypeOK'
<1> USE DEF TypeOK
<1>1. scanner[s] \in ScannerState
  OBVIOUS
<1>2. CASE Collect(s)
  <2>1. PICK config \in Config, cands \in CandidateSets :
          scanner' = [scanner EXCEPT ![s] =
                        [pc |-> "collected", hash |-> source,
                         config |-> config, cands |-> cands]]
    BY <1>2 DEF Collect
  <2>2. [pc |-> "collected", hash |-> source, config |-> config,
         cands |-> cands] \in ScannerState
    BY DEF ScannerState, Cands
  <2>3. scanner' \in [Scanner -> ScannerState]
    BY <2>1, <2>2
  <2>4. spent' \in [edits : 0 .. MaxEdits, scans : 0 .. MaxScans,
                    verdicts : 0 .. MaxVerdicts, crashes : 0 .. MaxCrashes]
    BY <1>2, RecordConstants DEF Collect
  <2> QED
    BY <1>2, <2>3, <2>4 DEF Collect
<1>3. CASE MarkDeleted(s)
  <2>1. record' \in Record
    BY <1>3, UnlockedTyped DEF MarkDeleted, Status
  <2>2. [scanner[s] EXCEPT !.pc = "marked"] \in ScannerState
    BY <1>1 DEF ScannerState
  <2>3. scanner' \in [Scanner -> ScannerState]
    BY <1>3, <2>2, IdleTyped DEF MarkDeleted
  <2> QED
    BY <1>3, <2>1, <2>3 DEF MarkDeleted
<1>4. CASE Upsert(s)
  BY <1>1, <1>4, ScannedTyped, IdleTyped DEF Upsert
<1> QED
  BY <1>2, <1>3, <1>4 DEF ScannerStep

\* The steps of verifiers keep the types.
LEMMA VerifierTypes ==
    ASSUME TypeOK, NEW v \in Verifier, VerifierStep(v)
    PROVE  TypeOK'
<1> USE DEF TypeOK
<1>1. verifier[v] \in VerifierState
  OBVIOUS
<1>2. CASE StartJudging(v)
  <2>1. PICK f \in record.findings :
          verifier' = [verifier EXCEPT ![v] =
                         [pc |-> "judging", hash |-> record.hash,
                          config |-> record.config, of |-> {f}]]
    BY <1>2 DEF StartJudging
  <2>2. [pc |-> "judging", hash |-> record.hash, config |-> record.config,
         of |-> {f}] \in VerifierState
    BY DEF VerifierState, Record
  <2>3. spent' \in [edits : 0 .. MaxEdits, scans : 0 .. MaxScans,
                    verdicts : 0 .. MaxVerdicts, crashes : 0 .. MaxCrashes]
    BY <1>2, RecordConstants DEF StartJudging
  <2> QED
    BY <1>2, <2>1, <2>2, <2>3 DEF StartJudging
<1>3. CASE AppendVerdict(v)
  <2> DEFINE new == {[finding |-> f, hash |-> verifier[v].hash] :
                       f \in verifier[v].of}
  <2>1. new \in SUBSET Verdict
    BY <1>1 DEF VerifierState, Verdict
  <2>2. record' = record \/ record' = [record EXCEPT !.verdicts = @ \cup new]
    BY <1>3 DEF AppendVerdict
  <2> HIDE DEF new
  <2>3. record' \in Record
    BY <2>1, <2>2 DEF Record
  <2> QED
    BY <1>3, <2>3, IdleTyped DEF AppendVerdict
<1> QED
  BY <1>2, <1>3 DEF VerifierStep

\* The steps of workers keep the types.
LEMMA WorkerTypes ==
    ASSUME TypeOK, NEW w \in Worker, WorkerStep(w)
    PROVE  TypeOK'
<1> USE DEF TypeOK
<1>1. worker[w] \in WorkerState /\ worker[w].copy \in Record
  BY DEF WorkerState
<1>2. CASE Snapshot(w)
  <2> PICK elsewhere \in BOOLEAN :
        worker' = [worker EXCEPT ![w] =
                     [IdleWorker EXCEPT
                        !.pc = Disposition(w, elsewhere),
                        !.inactive = record.status \in
                                       {"analyzed", "not_analyzed"}]]
    BY <1>2 DEF Snapshot
  <2> DEFINE state == [IdleWorker EXCEPT
                         !.pc = Disposition(w, elsewhere),
                         !.inactive = record.status \in
                                        {"analyzed", "not_analyzed"}]
  <2>1. Disposition(w, elsewhere) \in WorkerPc
    BY DEF Disposition, WorkerPc
  <2>2. state \in WorkerState
    <3>1. ASSUME NEW pc \in WorkerPc, NEW inactive \in BOOLEAN
          PROVE  [IdleWorker EXCEPT !.pc = pc, !.inactive = inactive]
                   \in WorkerState
      BY IdleTyped DEF WorkerState
    <3>2. (record.status \in {"analyzed", "not_analyzed"}) \in BOOLEAN
      OBVIOUS
    <3> QED
      BY <2>1, <3>1, <3>2, Zenon
  <2>3. worker' = [worker EXCEPT ![w] = state]
    BY <1>2 DEF Snapshot
  <2> HIDE DEF state
  <2> QED
    BY <1>2, <2>2, <2>3 DEF Snapshot
<1>3. CASE AcquireLease(w)
  <2>1. PICK run \in Run, lease \in Lease :
          /\ record' = [record EXCEPT !.status = "processing", !.run = run,
                                      !.lease = lease, !.age = 0]
          /\ worker' = [worker EXCEPT ![w] =
                           [IdleWorker EXCEPT !.pc = "claimed", !.run = run,
                                              !.lease = lease]]
    BY <1>3 DEF AcquireLease, FreeRun
  <2>2. 0 \in 0 .. LeaseStale
    BY RecordConstants
  <2>3. record' \in Record
    BY <2>1, <2>2 DEF Record, Status
  <2>4. [IdleWorker EXCEPT !.pc = "claimed", !.run = run, !.lease = lease]
          \in WorkerState
    BY IdleTyped DEF WorkerState, WorkerPc
  <2>5. worker' \in [Worker -> WorkerState]
    BY <2>1, <2>4
  <2> QED
    BY <1>3, <2>3, <2>5 DEF AcquireLease
<1>4. CASE LeaseRefused(w) \/ ReadBackLost(w) \/ CommitRefused(w)
  BY <1>4, GiveUpTyped DEF LeaseRefused, ReadBackLost, CommitRefused
<1>5. CASE ReadBack(w)
  BY <1>1, <1>5 DEF ReadBack, WorkerState, WorkerPc
<1>6. CASE ReadSource(w) \/ AnalysisFails(w)
  <2>1. Failing(w) \in WorkerState
    BY <1>1, IdleTyped DEF Failing, WorkerState, WorkerPc
  <2>2. [worker[w] EXCEPT !.pc = "analyzing", !.text = source] \in WorkerState
    BY <1>1 DEF WorkerState, WorkerPc
  <2> QED
    BY <1>6, <2>1, <2>2 DEF ReadSource, AnalysisFails
<1>7. CASE Commit(w)
  BY <1>7, ResultTyped, ClosingTyped DEF Commit
<1>8. CASE MarkError(w)
  BY <1>8, UnlockedTyped, GiveUpTyped DEF MarkError, Status
<1>9. CASE MarkRead(w)
  <2> DEFINE copy == Unlocked(record, IF Unsupported(w) THEN "not_analyzed"
                                      ELSE "skipped")
  <2>1. copy \in Record
    BY UnlockedTyped DEF Status
  <2>2. worker' = [worker EXCEPT ![w].pc = "writing", ![w].copy = copy]
    BY <1>9 DEF MarkRead
  <2> HIDE DEF copy
  <2>3. worker' \in [Worker -> WorkerState]
    BY <1>1, <2>1, <2>2 DEF WorkerState, WorkerPc
  <2> QED
    BY <1>9, <2>3 DEF MarkRead
<1>10. CASE MarkWrite(w)
  BY <1>1, <1>10, ClosingTyped DEF MarkWrite
<1>11. CASE Summarize(w)
  BY <1>11, IdleTyped DEF Summarize
<1> QED
  BY <1>2, <1>3, <1>4, <1>5, <1>6, <1>7, <1>8, <1>9, <1>10, <1>11
     DEF WorkerStep

\* Every step keeps the types.
LEMMA RecordTypes == TypeOK /\ [Next]_vars => TypeOK'
<1> SUFFICES ASSUME TypeOK, [Next]_vars PROVE TypeOK'
  OBVIOUS
<1>1. ASSUME NEW w \in Worker, Crash(w) PROVE TypeOK'
  <2>1. spent' \in [edits : 0 .. MaxEdits, scans : 0 .. MaxScans,
                    verdicts : 0 .. MaxVerdicts, crashes : 0 .. MaxCrashes]
    BY <1>1, RecordConstants DEF TypeOK, Crash
  <2> QED
    BY <1>1, <2>1, IdleTyped DEF TypeOK, Crash
<1>2. CASE Edit
  <2>1. spent' \in [edits : 0 .. MaxEdits, scans : 0 .. MaxScans,
                    verdicts : 0 .. MaxVerdicts, crashes : 0 .. MaxCrashes]
    BY <1>2, RecordConstants DEF TypeOK, Edit
  <2> QED
    BY <1>2, <2>1 DEF TypeOK, Edit
<1>3. CASE Tick
  <2>1. record.age + 1 \in 0 .. LeaseStale
    BY <1>3, RecordConstants DEF TypeOK, Tick, Record
  <2>2. record' \in Record
    BY <1>3, <2>1 DEF TypeOK, Tick, Record
  <2> QED
    BY <1>3, <2>2 DEF TypeOK, Tick
<1>4. CASE UNCHANGED vars
  BY <1>4 DEF TypeOK, vars
<1> QED
  BY <1>1, <1>2, <1>3, <1>4, WorkerTypes, ScannerTypes, VerifierTypes DEF Next

\* Every variable keeps its type.
THEOREM RecordTypeCorrect == Spec => []TypeOK
<1> QED
  BY RecordInit, RecordTypes, PTL DEF Spec

-----------------------------------------------------------------------------
(* The inductive invariant.  That a commit loses nothing is preserved only  *)
(* because every way to change the record takes the lease away, finds a     *)
(* lease nobody knows, or leaves alone what a commit replaces; the latter   *)
(* needs to know what statuses a lease goes with, and what a mark writes.   *)

\* The workers that have a claim in hand.
Claiming == {"claimed", "copied", "analyzing", "failing"}

\* Only a record that is being processed is leased.
LeaseMeansProcessing == record.lease # None => record.status = "processing"

\* A worker with a claim in hand knows its lease.
ClaimHasLease ==
    \A w \in Worker : worker[w].pc \in Claiming => worker[w].lease # None

\* A mark carries neither a lease nor an analysis to the disk.
MarksAreUnlocked ==
    \A w \in Worker : worker[w].pc = "writing" =>
      /\ worker[w].copy.lease = None
      /\ worker[w].copy.status \notin {"analyzed", "processing"}

\* The source an analysis reads is the one its copy of the record names.
SourceAsCopied ==
    \A w \in Worker : worker[w].pc = "analyzing" =>
      worker[w].text = worker[w].copy.hash

\* A set of findings names one origin for each finding id.
OneOrigin(findings) == \A f, g \in findings : f.id = g.id => f = g

OriginsAreUnique ==
    /\ OneOrigin(record.findings)
    /\ \A w \in Worker : OneOrigin(worker[w].copy.findings)

RecordInv ==
    /\ TypeOK
    /\ LeaseMeansProcessing
    /\ ClaimHasLease
    /\ MarksAreUnlocked
    /\ SourceAsCopied
    /\ OriginsAreUnique
    /\ CommitLosesNothing
    /\ AnalyzedAsRecorded

\* A record that is leased after a step is, where a commit could lose anything,
\* as it was before, or it was leased in this very step.
LEMMA LeaseGuardsRecord ==
    ASSUME TypeOK, LeaseMeansProcessing, MarksAreUnlocked, [Next]_vars,
           record'.lease # None
    PROVE  \/ record'.lease = record.lease /\ Durable(record') = Durable(record)
           \/ \A w \in Worker : worker[w].lease # record'.lease
<1> DEFINE Same == /\ record'.lease = record.lease
                   /\ Durable(record') = Durable(record)
           Fresh == \A w \in Worker : worker[w].lease # record'.lease
<1>1. record \in Record
  BY DEF TypeOK
<1>2. ASSUME NEW status \in Status, record' = Unlocked(record, status)
      PROVE  FALSE
  BY <1>1, <1>2 DEF Unlocked, Record
<1>3. ASSUME NEW w \in Worker, WorkerStep(w) PROVE Same \/ Fresh
  <2>1. CASE AcquireLease(w)
    <3>1. PICK lease \in Lease \ KnownLease : record'.lease = lease
      BY <1>1, <2>1 DEF AcquireLease, Record
    <3> QED
      BY <3>1 DEF KnownLease
  <2>2. CASE Commit(w)
    <3>1. PICK found \in SUBSET FindingId : record' = Result(w, found)
      BY <2>2 DEF Commit
    <3>2. worker[w].copy \in Record
      BY DEF TypeOK, WorkerState
    <3> QED
      BY <3>1, <3>2 DEF Result, Unlocked, Record
  <2>3. CASE MarkError(w)
    BY <1>2, <2>3 DEF MarkError, Status
  <2>4. CASE MarkWrite(w)
    BY <2>4 DEF MarkWrite, MarksAreUnlocked
  <2>5. ASSUME record' = record PROVE Same \/ Fresh
    BY <2>5
  <2> QED
    BY <1>3, <2>1, <2>2, <2>3, <2>4, <2>5
       DEF WorkerStep, Snapshot, LeaseRefused, ReadBack, ReadBackLost,
           ReadSource, AnalysisFails, CommitRefused, MarkRead, Summarize
<1>4. ASSUME NEW s \in Scanner, ScannerStep(s) PROVE Same \/ Fresh
  <2>1. CASE Collect(s)
    BY <2>1 DEF Collect
  <2>2. CASE MarkDeleted(s)
    BY <1>2, <2>2 DEF MarkDeleted, Status
  <2>3. CASE Upsert(s)
    <3> DEFINE scan == scanner[s]
    <3>1. scan \in ScannerState
      BY DEF TypeOK
    <3>2. record' = ScannedRecord(scan)
      BY <2>3 DEF Upsert
    <3>3. ScanRecordStatus(scan) = "processing"
      <4>1. SUFFICES ASSUME ScanRecordStatus(scan) # "processing" PROVE FALSE
        OBVIOUS
      <4> QED
        BY <1>1, <3>2, <4>1 DEF ScannedRecord, Unlocked, Record
    <3>4. MatchesScan(scan)
      BY <3>3 DEF ScanRecordStatus
    <3> QED
      BY <1>1, <3>2, <3>3, <3>4 DEF ScannedRecord, MatchesScan, Durable, Record
  <2> QED
    BY <1>4, <2>1, <2>2, <2>3 DEF ScannerStep
<1>5. ASSUME NEW v \in Verifier, VerifierStep(v) PROVE Same \/ Fresh
  <2>1. CASE StartJudging(v)
    BY <2>1 DEF StartJudging
  <2>2. CASE AppendVerdict(v)
    <3>1. CASE ~MayAppend(verifier[v])
      BY <2>2, <3>1 DEF AppendVerdict
    <3>2. CASE MayAppend(verifier[v])
      <4>1. record.lease = None
        BY <3>2 DEF MayAppend, LeaseMeansProcessing
      <4>2. record'.lease = record.lease
        BY <1>1, <2>2, <3>2 DEF AppendVerdict, Record
      <4> QED
        BY <4>1, <4>2
    <3> QED
      BY <3>1, <3>2
  <2> QED
    BY <1>5, <2>1, <2>2 DEF VerifierStep
<1>6. CASE Tick
  BY <1>1, <1>6 DEF Tick, Durable, Record
<1>7. CASE Edit \/ UNCHANGED vars \/ \E w \in Worker : Crash(w)
  BY <1>7 DEF Edit, Crash, vars
<1> QED
  BY <1>3, <1>4, <1>5, <1>6, <1>7 DEF Next

\* Nobody changes the state of a worker but itself and its death.
LEMMA WorkersMoveAlone ==
    ASSUME TypeOK, [Next]_vars, NEW w \in Worker
    PROVE  worker'[w] = worker[w] \/ WorkerStep(w) \/ Crash(w)
<1>1. ASSUME NEW v \in Worker, v # w, WorkerStep(v) \/ Crash(v)
      PROVE  worker'[w] = worker[w]
  BY <1>1 DEF TypeOK, WorkerStep, Snapshot, AcquireLease, LeaseRefused,
       ReadBack, ReadBackLost, ReadSource, AnalysisFails, Commit, CommitRefused,
       MarkError, MarkRead, MarkWrite, Summarize, Crash, GiveUp
<1>2. CASE worker' = worker
  BY <1>2
<1> QED
  BY <1>1, <1>2
     DEF Next, ScannerStep, VerifierStep, Collect, MarkDeleted, Upsert,
         StartJudging, AppendVerdict, Edit, Tick, vars

\* Where a worker may stand after a step, and what it then has in its hands.
LEMMA WorkerMoves ==
    ASSUME TypeOK, [Next]_vars, NEW w \in Worker
    PROVE  \/ worker'[w] = worker[w]
           \/ /\ worker'[w].pc \in {"idle", "queued", "marking", "closing"}
              /\ worker'[w].copy = NoRecord
           \/ /\ worker'[w].pc = "claimed"
              /\ worker'[w].lease \in Lease
              /\ worker'[w].copy = NoRecord
           \/ ReadBack(w)
           \/ MarkRead(w)
           \/ /\ worker'[w].pc = "failing"
              /\ worker[w].pc \in {"copied", "analyzing"}
              /\ worker'[w].lease = worker[w].lease
              /\ worker'[w].copy = NoRecord
           \/ /\ worker'[w].pc = "analyzing"
              /\ worker[w].pc = "copied"
              /\ worker'[w].text = source
              /\ source = worker[w].copy.hash
              /\ worker'[w].lease = worker[w].lease
              /\ worker'[w].copy = worker[w].copy
<1> USE DEF TypeOK, WorkerState
<1>1. CASE Snapshot(w)
  <2>1. PICK elsewhere \in BOOLEAN :
          /\ worker'[w].pc = Disposition(w, elsewhere)
          /\ worker'[w].copy = NoRecord
    BY <1>1 DEF Snapshot, IdleWorker
  <2> QED
    BY <2>1 DEF Disposition
<1>2. CASE \/ LeaseRefused(w) \/ ReadBackLost(w)
           \/ CommitRefused(w) \/ MarkError(w)
  <2>1. GiveUp(w)
    BY <1>2 DEF LeaseRefused, ReadBackLost, CommitRefused, MarkError
  <2> QED
    BY <2>1 DEF GiveUp, IdleWorker
<1>3. CASE Commit(w) \/ MarkWrite(w) \/ Summarize(w) \/ Crash(w)
  <2>1. worker'[w].pc \in {"closing", "idle"} /\ worker'[w].copy = NoRecord
    BY <1>3 DEF Commit, MarkWrite, Summarize, Crash, IdleWorker
  <2> QED
    BY <2>1
<1>4. CASE AcquireLease(w)
  <2>1. PICK run \in FreeRun, lease \in Lease :
          worker' = [worker EXCEPT ![w] =
                       [IdleWorker EXCEPT !.pc = "claimed", !.run = run,
                                          !.lease = lease]]
    BY <1>4 DEF AcquireLease
  <2> QED
    BY <2>1 DEF IdleWorker
<1>5. CASE worker' = [worker EXCEPT ![w] = Failing(w)]
           /\ worker[w].pc \in {"copied", "analyzing"}
  BY <1>5 DEF Failing, IdleWorker
<1>6. CASE ReadSource(w) /\ SourceAccepted(w)
  BY <1>6 DEF ReadSource, SourceAccepted
<1>7. ReadSource(w) \/ AnalysisFails(w) =>
        \/ ReadSource(w) /\ SourceAccepted(w)
        \/ /\ worker' = [worker EXCEPT ![w] = Failing(w)]
           /\ worker[w].pc \in {"copied", "analyzing"}
  BY DEF ReadSource, AnalysisFails
<1> QED
  BY <1>1, <1>2, <1>3, <1>4, <1>5, <1>6, <1>7, WorkersMoveAlone DEF WorkerStep

\* How a worker may come to hold a copy of the record.
LEMMA CopyFromDisk ==
    ASSUME TypeOK, [Next]_vars, NEW w \in Worker,
           worker'[w].pc \in {"copied", "analyzing"}
    PROVE  \/ worker'[w].copy = record /\ UNCHANGED record
           \/ /\ worker[w].pc \in {"copied", "analyzing"}
              /\ worker'[w].lease = worker[w].lease
              /\ worker'[w].copy = worker[w].copy
<1> USE DEF TypeOK, WorkerState
<1>1. CASE ReadBack(w)
  BY <1>1 DEF ReadBack
<1>2. MarkRead(w) => worker'[w].pc = "writing"
  BY DEF MarkRead
<1> QED
  BY <1>1, <1>2, WorkerMoves

\* A commit that is let through still loses nothing after any step.
LEMMA NothingLost ==
    ASSUME TypeOK, LeaseMeansProcessing, ClaimHasLease, MarksAreUnlocked,
           CommitLosesNothing, [Next]_vars
    PROVE  CommitLosesNothing'
<1> SUFFICES ASSUME NEW w \in Worker,
                    worker'[w].pc \in {"copied", "analyzing"},
                    record'.lease = worker'[w].lease
             PROVE  Durable(record') = Durable(worker'[w].copy)
  BY DEF CommitLosesNothing, HoldsLease
<1>1. CASE worker'[w].copy = record /\ UNCHANGED record
  BY <1>1
<1>2. CASE /\ worker[w].pc \in {"copied", "analyzing"}
           /\ worker'[w].lease = worker[w].lease
           /\ worker'[w].copy = worker[w].copy
  <2>1. record'.lease # None
    BY <1>2 DEF ClaimHasLease, Claiming
  <2>2. record'.lease = record.lease /\ Durable(record') = Durable(record)
    BY <1>2, <2>1, LeaseGuardsRecord
  <2>3. Durable(record) = Durable(worker[w].copy)
    BY <1>2, <2>2 DEF CommitLosesNothing, HoldsLease
  <2> QED
    BY <1>2, <2>2, <2>3
<1> QED
  BY <1>1, <1>2, CopyFromDisk

\* A lease is on a record that is being processed, and known to its holder.
LEMMA ClaimsKept ==
    ASSUME RecordInv, [Next]_vars
    PROVE  LeaseMeansProcessing' /\ ClaimHasLease'
<1> USE DEF RecordInv
<1>1. record \in Record /\ worker \in [Worker -> WorkerState]
  BY DEF TypeOK
<1>2. LeaseMeansProcessing'
  <2>1. ASSUME NEW w \in Worker, WorkerStep(w) PROVE LeaseMeansProcessing'
    <3>1. CASE AcquireLease(w)
      <4>1. record'.status = "processing"
        BY <1>1, <3>1 DEF AcquireLease, Record
      <4> QED
        BY <4>1 DEF LeaseMeansProcessing
    <3>2. CASE Commit(w)
      <4>1. PICK found \in SUBSET FindingId : record' = Result(w, found)
        BY <3>2 DEF Commit
      <4>2. worker[w].copy \in Record
        BY <1>1 DEF WorkerState
      <4> QED
        BY <4>1, <4>2 DEF Result, Unlocked, Record, LeaseMeansProcessing
    <3>3. CASE MarkError(w)
      BY <1>1, <3>3 DEF MarkError, Unlocked, Record, LeaseMeansProcessing
    <3>4. CASE MarkWrite(w)
      BY <3>4 DEF MarkWrite, MarksAreUnlocked, LeaseMeansProcessing
    <3>5. CASE record' = record
      BY <3>5 DEF LeaseMeansProcessing
    <3> QED
      BY <2>1, <3>1, <3>2, <3>3, <3>4, <3>5
         DEF WorkerStep, Snapshot, LeaseRefused, ReadBack, ReadBackLost,
             ReadSource, AnalysisFails, CommitRefused, MarkRead, Summarize
  <2>2. ASSUME NEW s \in Scanner, ScannerStep(s) PROVE LeaseMeansProcessing'
    <3>1. CASE Upsert(s)
      <4>1. record' = ScannedRecord(scanner[s]) /\ scanner[s] \in ScannerState
        BY <3>1 DEF Upsert, TypeOK
      <4>2. CASE ScanRecordStatus(scanner[s]) = "processing"
        BY <1>1, <4>1, <4>2
           DEF ScannedRecord, ScanRecordStatus, LeaseMeansProcessing, Record
      <4>3. CASE ScanRecordStatus(scanner[s]) # "processing"
        BY <1>1, <4>1, <4>3
           DEF ScannedRecord, Unlocked, LeaseMeansProcessing, Record
      <4> QED
        BY <4>2, <4>3
    <3>2. CASE MarkDeleted(s)
      BY <1>1, <3>2 DEF MarkDeleted, Unlocked, LeaseMeansProcessing, Record
    <3>3. CASE Collect(s)
      BY <3>3 DEF Collect, LeaseMeansProcessing
    <3> QED
      BY <2>2, <3>1, <3>2, <3>3 DEF ScannerStep
  <2>3. ASSUME NEW v \in Verifier, VerifierStep(v) PROVE LeaseMeansProcessing'
    BY <1>1, <2>3 DEF VerifierStep, StartJudging, AppendVerdict,
         LeaseMeansProcessing, Record
  <2>4. CASE Tick
    BY <1>1, <2>4 DEF Tick, LeaseMeansProcessing, Record
  <2>5. CASE record' = record
    BY <2>5 DEF LeaseMeansProcessing
  <2> QED
    BY <2>1, <2>2, <2>3, <2>4, <2>5 DEF Next, Crash, Edit, vars
<1>3. ClaimHasLease'
  <2> SUFFICES ASSUME NEW w \in Worker, worker'[w].pc \in Claiming
               PROVE  worker'[w].lease # None
    BY DEF ClaimHasLease
  <2>1. CASE ReadBack(w)
    BY <1>1, <2>1 DEF ReadBack, ClaimHasLease, Claiming, WorkerState
  <2>2. MarkRead(w) => worker'[w].pc = "writing"
    BY <1>1 DEF MarkRead
  <2>3. CASE worker'[w] = worker[w]
    BY <2>3 DEF ClaimHasLease
  <2>4. CASE /\ worker[w].pc \in {"copied", "analyzing"}
             /\ worker'[w].lease = worker[w].lease
    BY <2>4 DEF ClaimHasLease, Claiming
  <2> QED
    BY <2>1, <2>2, <2>3, <2>4, WorkerMoves, RecordConstants DEF Claiming
<1> QED
  BY <1>2, <1>3

\* What a worker takes from the disk to mark it is unlocked, and the source it
\* analyzes is the one that its copy names.
LEMMA CopiesKept ==
    ASSUME RecordInv, [Next]_vars
    PROVE  MarksAreUnlocked' /\ SourceAsCopied'
<1> USE DEF RecordInv
<1>1. record \in Record /\ worker \in [Worker -> WorkerState]
  BY DEF TypeOK
<1>2. MarksAreUnlocked'
  <2> SUFFICES ASSUME NEW w \in Worker, worker'[w].pc = "writing"
               PROVE  /\ worker'[w].copy.lease = None
                      /\ worker'[w].copy.status \notin
                           {"analyzed", "processing"}
    BY DEF MarksAreUnlocked
  <2>1. CASE MarkRead(w)
    BY <1>1, <2>1 DEF MarkRead, Unlocked, Record, WorkerState
  <2>2. ReadBack(w) => worker'[w].pc = "copied"
    BY <1>1 DEF ReadBack, WorkerState
  <2>3. CASE worker'[w] = worker[w]
    BY <2>3 DEF MarksAreUnlocked
  <2> QED
    BY <2>1, <2>2, <2>3, WorkerMoves
<1>3. SourceAsCopied'
  <2> SUFFICES ASSUME NEW w \in Worker, worker'[w].pc = "analyzing"
               PROVE  worker'[w].text = worker'[w].copy.hash
    BY DEF SourceAsCopied
  <2>1. ReadBack(w) \/ MarkRead(w) => worker'[w].pc \in {"copied", "writing"}
    BY <1>1 DEF ReadBack, MarkRead, WorkerState
  <2>2. CASE worker'[w] = worker[w]
    BY <2>2 DEF SourceAsCopied
  <2> QED
    BY <2>1, <2>2, WorkerMoves
<1> QED
  BY <1>2, <1>3

\* What a step may write to the disk.
LEMMA RecordMoves ==
    ASSUME TypeOK, [Next]_vars
    PROVE  \/ /\ \/ record'.status = record.status
                 \/ record'.status # "analyzed"
              /\ <<record'.hash, record'.cands, record'.findings,
                   record'.waves, record'.last>> =
                 <<record.hash, record.cands, record.findings,
                   record.waves, record.last>>
           \/ \E s \in Scanner : Upsert(s)
           \/ \E w \in Worker : Commit(w) \/ MarkWrite(w)
<1>1. record \in Record
  BY DEF TypeOK
<1>2. ASSUME NEW w \in Worker, AcquireLease(w)
      PROVE  \E run, lease :
               record' = [record EXCEPT !.status = "processing",
                            !.run = run, !.lease = lease, !.age = 0]
  BY <1>2 DEF AcquireLease
<1>3. ASSUME NEW v \in Verifier, AppendVerdict(v)
      PROVE  \/ record' = record
             \/ \E new : record' = [record EXCEPT !.verdicts = new]
  BY <1>3 DEF AppendVerdict
<1>4. ASSUME \E status \in {"deleted", "error"} :
               record' = Unlocked(record, status)
      PROVE  /\ record'.status # "analyzed"
             /\ <<record'.hash, record'.cands, record'.findings,
                  record'.waves, record'.last>> =
                <<record.hash, record.cands, record.findings,
                  record.waves, record.last>>
  BY <1>1, <1>4 DEF Unlocked, Record
<1>5. \/ record' = record
      \/ \E status \in {"deleted", "error"} : record' = Unlocked(record, status)
      \/ \E w \in Worker : AcquireLease(w) \/ Commit(w) \/ MarkWrite(w)
      \/ \E s \in Scanner : Upsert(s)
      \/ \E v \in Verifier : AppendVerdict(v)
      \/ Tick
  BY DEF Next, WorkerStep, ScannerStep, VerifierStep, Snapshot, LeaseRefused,
         ReadBack, ReadBackLost, ReadSource, AnalysisFails, CommitRefused,
         MarkError, MarkRead, Summarize, Collect, MarkDeleted, StartJudging,
         Crash, Edit, vars
<1>6. CASE Tick
  BY <1>1, <1>6 DEF Tick, Record
<1>7. CASE \E w \in Worker : AcquireLease(w)
  BY <1>1, <1>2, <1>7 DEF Record
<1>8. CASE \E v \in Verifier : AppendVerdict(v)
  BY <1>1, <1>3, <1>8 DEF Record
<1> QED
  BY <1>4, <1>5, <1>6, <1>7, <1>8

\* Provenance keeps the origin of every finding it keeps, and names one origin
\* for each.
LEMMA ProvenanceKeepsOrigin ==
    ASSUME NEW copy \in Record, OneOrigin(copy.findings),
           NEW found \in SUBSET FindingId
    PROVE  /\ OneOrigin(Provenance(copy, found))
           /\ \A f \in copy.findings, g \in Provenance(copy, found) :
                f.id = g.id => f = g
  BY DEF OneOrigin, Provenance, Finding, Record

\* What a commit puts in the place of the record.
LEMMA CommitWrites ==
    ASSUME TypeOK, NEW w \in Worker, Commit(w)
    PROVE  /\ \E found \in SUBSET FindingId :
                record'.findings = Provenance(worker[w].copy, found)
           /\ record'.last = WaveOf(w)
           /\ record'.waves = worker[w].copy.waves \cup {WaveOf(w)}
           /\ record'.hash = worker[w].copy.hash
           /\ record'.cands = worker[w].copy.cands
<1>1. PICK found \in SUBSET FindingId : record' = Result(w, found)
  BY DEF Commit
<1>2. worker[w].copy \in Record
  BY DEF TypeOK, WorkerState
<1> QED
  BY <1>1, <1>2 DEF Result, Unlocked, Record

\* Neither the disk nor a copy ever names two origins for one finding.
LEMMA OriginsStayUnique ==
    ASSUME RecordInv, [Next]_vars
    PROVE  OriginsAreUnique'
<1> USE DEF RecordInv, OriginsAreUnique
<1>1. record \in Record /\ worker \in [Worker -> WorkerState]
  BY DEF TypeOK
<1>2. OneOrigin(record'.findings)
  <2>1. ASSUME NEW w \in Worker, Commit(w) PROVE OneOrigin(record'.findings)
    BY <1>1, <2>1, CommitWrites, ProvenanceKeepsOrigin DEF WorkerState
  <2>2. ASSUME NEW w \in Worker, MarkWrite(w) PROVE OneOrigin(record'.findings)
    BY <2>2 DEF MarkWrite
  <2>3. ASSUME NEW s \in Scanner, Upsert(s)
        PROVE  record'.findings = record.findings
    BY <1>1, <2>3 DEF Upsert, ScannedRecord, Unlocked, Record
  <2> QED
    BY <2>1, <2>2, <2>3, RecordMoves
<1>3. ASSUME NEW w \in Worker PROVE OneOrigin(worker'[w].copy.findings)
  <2>1. CASE worker'[w].copy = NoRecord
    BY <2>1 DEF NoRecord, OneOrigin
  <2>2. CASE ReadBack(w)
    BY <1>1, <2>2 DEF ReadBack, WorkerState
  <2>3. CASE MarkRead(w)
    BY <1>1, <2>3 DEF MarkRead, Unlocked, Record, WorkerState
  <2>4. CASE worker'[w].copy = worker[w].copy
    BY <2>4
  <2> QED
    BY <2>1, <2>2, <2>3, <2>4, WorkerMoves
<1> QED
  BY <1>2, <1>3

\* An analyzed record describes its inputs after any step.
LEMMA AnalysisStaysRecorded ==
    ASSUME RecordInv, [Next]_vars
    PROVE  AnalyzedAsRecorded'
<1> USE DEF RecordInv
<1>1. record \in Record /\ worker \in [Worker -> WorkerState]
  BY DEF TypeOK
<1>2. ASSUME NEW w \in Worker, Commit(w) PROVE AnalyzedAsRecorded'
  <2>1. worker[w].text = worker[w].copy.hash
    BY <1>2 DEF Commit, SourceAsCopied
  <2>2. /\ record'.last = WaveOf(w)
        /\ WaveOf(w) \in record'.waves
        /\ record'.hash = worker[w].copy.hash
        /\ record'.cands = worker[w].copy.cands
    BY <1>2, CommitWrites
  <2>3. /\ WaveOf(w).text = worker[w].text
        /\ WaveOf(w).cands = worker[w].copy.cands
    BY DEF WaveOf
  <2> QED
    BY <2>1, <2>2, <2>3 DEF AnalyzedAsRecorded
<1>3. ASSUME NEW w \in Worker, MarkWrite(w) PROVE AnalyzedAsRecorded'
  BY <1>3 DEF MarkWrite, MarksAreUnlocked, AnalyzedAsRecorded
<1>4. ASSUME NEW s \in Scanner, Upsert(s) PROVE AnalyzedAsRecorded'
  <2> DEFINE scan == scanner[s]
  <2> SUFFICES ASSUME record'.status = "analyzed" PROVE AnalyzedAsRecorded'
    BY DEF AnalyzedAsRecorded
  <2>1. record' = ScannedRecord(scan) /\ scan \in ScannerState
    BY <1>4 DEF Upsert, TypeOK
  <2>2. CASE ScanRecordStatus(scan) = "processing"
    BY <1>1, <2>1, <2>2
       DEF ScannedRecord, ScanRecordStatus, Record
  <2>3. CASE ScanRecordStatus(scan) # "processing"
    <3>1. ScanRecordStatus(scan) = "analyzed"
      BY <1>1, <2>1, <2>3 DEF ScannedRecord, Unlocked, Record
    <3>2. /\ MatchesScan(scan)
          /\ record.status = "analyzed"
          /\ record.cands = scan.cands
      BY <3>1 DEF ScanRecordStatus
    <3> QED
      BY <1>1, <2>1, <2>3, <3>2
         DEF ScannedRecord, Unlocked, MatchesScan, AnalyzedAsRecorded, Record
  <2> QED
    BY <2>2, <2>3
<1> QED
  BY <1>2, <1>3, <1>4, RecordMoves DEF AnalyzedAsRecorded

-----------------------------------------------------------------------------
(* The theorems.                                                           *)

\* Every behaviour keeps the inductive invariant.
THEOREM RecordInvariant == Spec => []RecordInv
<1>1. Init => RecordInv
  <2> SUFFICES ASSUME Init PROVE RecordInv
    OBVIOUS
  <2>1. \A w \in Worker : worker[w] = IdleWorker
    BY DEF Init
  <2>2. record = NoRecord
    BY DEF Init
  <2> QED
    BY <2>1, <2>2, RecordInit
       DEF RecordInv, LeaseMeansProcessing, ClaimHasLease, Claiming,
           MarksAreUnlocked, SourceAsCopied, OriginsAreUnique, OneOrigin,
           CommitLosesNothing, AnalyzedAsRecorded, NoRecord, IdleWorker
<1>2. RecordInv /\ [Next]_vars => RecordInv'
  <2> SUFFICES ASSUME RecordInv, [Next]_vars PROVE RecordInv'
    OBVIOUS
  <2>1. TypeOK' /\ CommitLosesNothing'
    BY RecordTypes, NothingLost DEF RecordInv
  <2> QED
    BY <2>1, ClaimsKept, CopiesKept, OriginsStayUnique, AnalysisStaysRecorded
       DEF RecordInv
<1> QED
  BY <1>1, <1>2, PTL DEF Spec

\* commit_claimed_record replaces the whole record by the worker's copy, yet no
\* hash, configuration, finding, analysis or verdict that arrived meanwhile is
\* lost: who writes one of them takes the lease away or is refused.  (Of the
\* candidates nothing is said: a rescan of the same text and configuration
\* replaces them under the claim, and the commit puts the old ones back.)
THEOREM CommitsLoseNothing == Spec => []CommitLosesNothing
<1>1. RecordInv => CommitLosesNothing
  BY DEF RecordInv
<1> QED
  BY <1>1, RecordInvariant, PTL

\* The status "analyzed" always stands for an analysis of the source and the
\* candidates that the record names.
THEOREM AnalyzedMeansExamined == Spec => []AnalyzedAsRecorded
<1>1. RecordInv => AnalyzedAsRecorded
  BY DEF RecordInv
<1> QED
  BY <1>1, RecordInvariant, PTL

\* Discovery provenance is immutable across commits, although each commit
\* compares a finding with the worker's copy and not with the disk: with the
\* lease on the record, the two agree.
THEOREM ProvenanceIsImmutable == Spec => OriginKept
<1>1. RecordInv /\ [Next]_vars =>
        \A w \in Worker : Commit(w) =>
          \A f \in record.findings, g \in record'.findings :
            f.id = g.id => f.origin = g.origin
  <2> SUFFICES ASSUME RecordInv, NEW w \in Worker, Commit(w),
                      NEW f \in record.findings, NEW g \in record'.findings,
                      f.id = g.id
               PROVE  f.origin = g.origin
    OBVIOUS
  <2>1. record.findings = worker[w].copy.findings
    BY DEF Commit, Fenced, RecordInv, CommitLosesNothing, Durable, HoldsLease
  <2>2. worker[w].copy \in Record /\ OneOrigin(worker[w].copy.findings)
    BY DEF RecordInv, TypeOK, WorkerState, OriginsAreUnique
  <2>3. PICK found \in SUBSET FindingId :
          record'.findings = Provenance(worker[w].copy, found)
    BY CommitWrites DEF RecordInv
  <2> QED
    BY <2>1, <2>2, <2>3, ProvenanceKeepsOrigin
<1>2. RecordInv /\ [Next]_vars =>
        [\A w \in Worker : Commit(w) =>
           \A f \in record.findings, g \in record'.findings :
             f.id = g.id => f.origin = g.origin]_vars
  BY <1>1
<1> QED
  BY <1>2, RecordInvariant, PTL DEF Spec, OriginKept

\* A run of an investigating analyzer that reports completion vouches for the
\* source in the tree, not only for the record.
THEOREM CompletionIsCurrent == Spec => CompleteIsCurrent
<1>1. RecordInv /\ [Next]_vars =>
        \A w \in Investigators :
          Summarize(w) /\ Complete(w) /\ Considered(w)
            => record.status = "analyzed" /\ record.hash = source
  <2> SUFFICES ASSUME RecordInv, NEW w \in Investigators, Summarize(w),
                      Complete(w), Considered(w)
               PROVE  record.status = "analyzed" /\ record.hash = source
    OBVIOUS
  <2>1. w \in Worker /\ worker \in [Worker -> WorkerState]
    BY RecordConstants DEF RecordInv, TypeOK
  <2>2. ~Unresolved(w)
    BY DEF Complete
  <2>3. record.status = "analyzed" /\ ContextIsCurrent(w)
    BY <2>2 DEF Unresolved
  <2>4. record.last.text = source
    BY <2>3 DEF ContextIsCurrent, Holistic
  <2> QED
    BY <2>3, <2>4 DEF RecordInv, AnalyzedAsRecorded
<1>2. RecordInv /\ [Next]_vars =>
        [\A w \in Investigators :
           Summarize(w) /\ Complete(w) /\ Considered(w)
             => record.status = "analyzed" /\ record.hash = source]_vars
  BY <1>1
<1> QED
  BY <1>2, RecordInvariant, PTL DEF Spec, CompleteIsCurrent

\* Whoever neither commits nor marks only adds to the history.
LEMMA OthersAddHistory ==
    ASSUME TypeOK, [Next]_vars,
           ~\E w \in Worker : Commit(w) \/ MarkWrite(w)
    PROVE  /\ record.waves \subseteq record'.waves
           /\ record.verdicts \subseteq record'.verdicts
<1>1. record \in Record
  BY DEF TypeOK
<1>2. \/ record' = record
      \/ \E status \in {"deleted", "error"} : record' = Unlocked(record, status)
      \/ \E w \in Worker : AcquireLease(w)
      \/ \E s \in Scanner : Upsert(s)
      \/ \E v \in Verifier : AppendVerdict(v)
      \/ Tick
  BY DEF Next, WorkerStep, ScannerStep, VerifierStep, Snapshot, LeaseRefused,
         ReadBack, ReadBackLost, ReadSource, AnalysisFails, CommitRefused,
         MarkError, MarkRead, Summarize, Collect, MarkDeleted, StartJudging,
         Crash, Edit, vars
<1>3. CASE record' = record
  BY <1>3
<1>4. ASSUME NEW status, record' = Unlocked(record, status)
      PROVE  UNCHANGED <<record.waves, record.verdicts>>
  BY <1>1, <1>4 DEF Unlocked, Record
<1>5. ASSUME NEW w \in Worker, AcquireLease(w)
      PROVE  UNCHANGED <<record.waves, record.verdicts>>
  <2>1. PICK run, lease :
           record' = [record EXCEPT !.status = "processing",
                        !.run = run, !.lease = lease, !.age = 0]
    BY <1>5 DEF AcquireLease
  <2> QED
    BY <1>1, <2>1 DEF Record
<1>6. ASSUME NEW s \in Scanner, Upsert(s)
      PROVE  UNCHANGED <<record.waves, record.verdicts>>
  BY <1>1, <1>6 DEF Upsert, ScannedRecord, Unlocked, Record
<1>7. ASSUME NEW v \in Verifier, AppendVerdict(v)
      PROVE  /\ record.waves \subseteq record'.waves
             /\ record.verdicts \subseteq record'.verdicts
  <2>1. CASE MayAppend(verifier[v])
    <3> DEFINE new == {[finding |-> f, hash |-> verifier[v].hash] :
                         f \in verifier[v].of}
    <3>1. record' = [record EXCEPT !.verdicts = record.verdicts \cup new]
      BY <1>7, <2>1 DEF AppendVerdict
    <3> HIDE DEF new
    <3> QED
      BY <1>1, <3>1 DEF Record
  <2>2. CASE ~MayAppend(verifier[v])
    BY <1>7, <2>2 DEF AppendVerdict
  <2> QED
    BY <2>1, <2>2
<1>8. CASE Tick
  BY <1>1, <1>8 DEF Tick, Record
<1> QED
  BY <1>2, <1>3, <1>4, <1>5, <1>6, <1>7, <1>8

\* No commit takes anything out of the history, although it writes the copy
\* its worker made when it claimed the file: the fence lets it through only
\* while the copy holds all that is on disk (store.py:536-558).  What the
\* audit_waves run loses is lost by the marks alone.
THEOREM OnlyMarksLoseHistory == Spec => HistoryGrows
<1>1. ASSUME RecordInv, NEW w \in Worker, Commit(w)
      PROVE  /\ record.waves \subseteq record'.waves
             /\ record.verdicts \subseteq record'.verdicts
  <2>1. Durable(record) = Durable(worker[w].copy)
    BY <1>1 DEF Commit, Fenced, RecordInv, CommitLosesNothing
  <2>2. /\ record.waves = worker[w].copy.waves
        /\ record.verdicts = worker[w].copy.verdicts
    BY <2>1 DEF Durable
  <2>3. worker[w].copy \in Record
    BY <1>1 DEF RecordInv, TypeOK, WorkerState
  <2>4. PICK found \in SUBSET FindingId : record' = Result(w, found)
    BY <1>1 DEF Commit
  <2>5. /\ record'.waves = worker[w].copy.waves \cup {WaveOf(w)}
        /\ record'.verdicts = worker[w].copy.verdicts
    BY <2>3, <2>4 DEF Result, Unlocked, Record
  <2> QED
    BY <2>2, <2>5
<1>2. RecordInv /\ [Next]_vars =>
        [(\A w \in Worker : ~MarkWrite(w))
           => /\ record.waves \subseteq record'.waves
              /\ record.verdicts \subseteq record'.verdicts]_vars
  BY <1>1, OthersAddHistory DEF RecordInv
<1> QED
  BY <1>2, RecordInvariant, PTL DEF Spec, HistoryGrows

-----------------------------------------------------------------------------
(* Claims: whose they are, and that they do not come back.                 *)

\* No two workers hold the same lease, be it the one on the record or not.
LeasesApart ==
    \A v, w \in Worker :
      v # w /\ worker[v].lease # None => worker[v].lease # worker[w].lease

\* A worker keeps its lease or drops it, unless it acquires one.
LEMMA WorkerLeaseMoves ==
    ASSUME TypeOK, [Next]_vars, NEW w \in Worker
    PROVE  worker'[w].lease \in {worker[w].lease, None} \/ AcquireLease(w)
<1> USE DEF TypeOK, WorkerState
<1>1. CASE Snapshot(w)
  <2>1. PICK elsewhere \in BOOLEAN :
          worker'[w] = [IdleWorker EXCEPT
                          !.pc = Disposition(w, elsewhere),
                          !.inactive = record.status \in
                                         {"analyzed", "not_analyzed"}]
    BY <1>1 DEF Snapshot
  <2> QED
    BY <2>1 DEF IdleWorker
<1>2. CASE \/ LeaseRefused(w) \/ ReadBackLost(w)
           \/ CommitRefused(w) \/ MarkError(w)
  <2>1. GiveUp(w)
    BY <1>2 DEF LeaseRefused, ReadBackLost, CommitRefused, MarkError
  <2> QED
    BY <2>1 DEF GiveUp, IdleWorker
<1>3. CASE Commit(w) \/ MarkWrite(w) \/ Summarize(w) \/ Crash(w)
  BY <1>3 DEF Commit, MarkWrite, Summarize, Crash, IdleWorker
<1>4. CASE ReadBack(w)
  BY <1>4 DEF ReadBack
<1>5. CASE MarkRead(w)
  BY <1>5 DEF MarkRead
<1>6. CASE worker' = [worker EXCEPT ![w] = Failing(w)]
  BY <1>6 DEF Failing, IdleWorker
<1>7. CASE ReadSource(w) /\ SourceAccepted(w)
  BY <1>7 DEF ReadSource
<1>8. ReadSource(w) \/ AnalysisFails(w) =>
        \/ ReadSource(w) /\ SourceAccepted(w)
        \/ worker' = [worker EXCEPT ![w] = Failing(w)]
  BY DEF ReadSource, AnalysisFails
<1> QED
  BY <1>1, <1>2, <1>3, <1>4, <1>5, <1>6, <1>7, <1>8,
     WorkersMoveAlone DEF WorkerStep

\* The record keeps its lease or loses it, unless it is claimed.
LEMMA RecordLeaseMoves ==
    ASSUME TypeOK, MarksAreUnlocked, [Next]_vars
    PROVE  \/ record'.lease \in {record.lease, None}
           \/ \E w \in Worker : AcquireLease(w)
<1>1. record \in Record
  BY DEF TypeOK
<1>2. \/ record' = record
      \/ \E status \in {"deleted", "error"} : record' = Unlocked(record, status)
      \/ \E w \in Worker : AcquireLease(w) \/ Commit(w) \/ MarkWrite(w)
      \/ \E s \in Scanner : Upsert(s)
      \/ \E v \in Verifier : AppendVerdict(v)
      \/ Tick
  BY DEF Next, WorkerStep, ScannerStep, VerifierStep, Snapshot, LeaseRefused,
         ReadBack, ReadBackLost, ReadSource, AnalysisFails, CommitRefused,
         MarkError, MarkRead, Summarize, Collect, MarkDeleted, StartJudging,
         Crash, Edit, vars
<1>3. ASSUME NEW status, record' = Unlocked(record, status)
      PROVE  record'.lease = None
  BY <1>1, <1>3 DEF Unlocked, Record
<1>4. ASSUME NEW w \in Worker, Commit(w) PROVE record'.lease = None
  <2>1. PICK found \in SUBSET FindingId : record' = Result(w, found)
    BY <1>4 DEF Commit
  <2>2. worker[w].copy \in Record
    BY DEF TypeOK, WorkerState
  <2> QED
    BY <2>1, <2>2 DEF Result, Unlocked, Record
<1>5. ASSUME NEW w \in Worker, MarkWrite(w) PROVE record'.lease = None
  BY <1>5 DEF MarkWrite, MarksAreUnlocked
<1>6. ASSUME NEW s \in Scanner, Upsert(s)
      PROVE  record'.lease \in {record.lease, None}
  BY <1>1, <1>6 DEF Upsert, ScannedRecord, Unlocked, Record
<1>7. ASSUME NEW v \in Verifier, AppendVerdict(v)
      PROVE  record'.lease = record.lease
  BY <1>1, <1>7 DEF AppendVerdict, Record
<1>8. CASE Tick
  BY <1>1, <1>8 DEF Tick, Record
<1> QED
  BY <1>2, <1>3, <1>4, <1>5, <1>6, <1>7, <1>8

\* A claim takes a lease that nobody knows, and the record and the worker agree
\* on it.
LEMMA LeaseIsFresh ==
    ASSUME TypeOK, NEW w \in Worker, AcquireLease(w)
    PROVE  /\ record'.lease = worker'[w].lease
           /\ record'.lease # record.lease
           /\ \A v \in Worker : record'.lease # worker[v].lease
           /\ \A v \in Worker \ {w} : worker'[v] = worker[v]
<1>1. PICK run \in FreeRun, lease \in Lease \ KnownLease :
        /\ record' = [record EXCEPT !.status = "processing", !.run = run,
                                    !.lease = lease, !.age = 0]
        /\ worker' = [worker EXCEPT ![w] =
                         [IdleWorker EXCEPT !.pc = "claimed", !.run = run,
                                            !.lease = lease]]
  BY DEF AcquireLease
<1>2. record'.lease = lease /\ worker'[w].lease = lease
  BY <1>1 DEF TypeOK, Record, IdleWorker
<1>3. \A v \in Worker \ {w} : worker'[v] = worker[v]
  BY <1>1 DEF TypeOK
<1> QED
  BY <1>1, <1>2, <1>3 DEF KnownLease

\* Leases stay apart.
LEMMA LeasesStayApart ==
    ASSUME TypeOK, LeasesApart, [Next]_vars
    PROVE  LeasesApart'
<1>1. ASSUME NEW u \in Worker, AcquireLease(u) PROVE LeasesApart'
  <2>1. /\ \A v \in Worker : worker'[u].lease # worker[v].lease
        /\ \A v \in Worker \ {u} : worker'[v].lease = worker[v].lease
    BY <1>1, LeaseIsFresh
  <2> QED
    BY <2>1 DEF LeasesApart
<1>2. CASE ~\E u \in Worker : AcquireLease(u)
  <2>1. \A w \in Worker : worker'[w].lease \in {worker[w].lease, None}
    BY <1>2, WorkerLeaseMoves
  <2> QED
    BY <2>1 DEF LeasesApart
<1> QED
  BY <1>1, <1>2

\* However often a file is reclaimed, and though callers may give two runs the
\* same run_id, at most one worker can have its result or its error written:
\* the others hold leases that are not the one on the record
\* (store.py:536-600).
THEOREM OneClaimAtATime ==
    Spec => [](\A v, w \in Worker :
                 /\ worker[v].pc \in Claiming /\ Fenced(v)
                 /\ worker[w].pc \in Claiming /\ Fenced(w)
                 => v = w)
<1>1. Init => LeasesApart
  BY DEF Init, LeasesApart, IdleWorker
<1>2. RecordInv /\ LeasesApart /\ [Next]_vars => LeasesApart'
  BY LeasesStayApart DEF RecordInv
<1>3. RecordInv /\ LeasesApart =>
        \A v, w \in Worker :
          /\ worker[v].pc \in Claiming /\ Fenced(v)
          /\ worker[w].pc \in Claiming /\ Fenced(w)
          => v = w
  BY DEF RecordInv, ClaimHasLease, LeasesApart, Fenced, HoldsLease
<1> QED
  BY <1>1, <1>2, <1>3, RecordInvariant, PTL DEF Spec

\* A worker that has lost its claim has lost it for good: no scan, mark, stale
\* write or reclaim puts its lease back on the record, so that what it found
\* in a superseded claim is never stored.
THEOREM SupersededForGood ==
    Spec => [][\A w \in Worker :
                 /\ worker[w].pc \in Claiming
                 /\ ~HoldsLease(w)
                 /\ worker'[w].lease = worker[w].lease
                 => ~HoldsLease(w)']_vars
<1>1. RecordInv /\ [Next]_vars =>
        [\A w \in Worker :
           /\ worker[w].pc \in Claiming
           /\ ~HoldsLease(w)
           /\ worker'[w].lease = worker[w].lease
           => ~HoldsLease(w)']_vars
  <2> SUFFICES ASSUME RecordInv, [Next]_vars, NEW w \in Worker,
                      worker[w].pc \in Claiming,
                      record.lease # worker[w].lease,
                      worker'[w].lease = worker[w].lease
               PROVE  record'.lease # worker[w].lease
    BY DEF HoldsLease
  <2>1. worker[w].lease # None
    BY DEF RecordInv, ClaimHasLease
  <2>2. ASSUME NEW v \in Worker, AcquireLease(v)
        PROVE  record'.lease # worker[w].lease
    BY <2>2, LeaseIsFresh DEF RecordInv
  <2> QED
    BY <2>1, <2>2, RecordLeaseMoves DEF RecordInv
<1> QED
  BY <1>1, RecordInvariant, PTL DEF Spec

=============================================================================
