# Skylos: specifications of the parts that remember something

This directory holds TLA+ specifications of the parts of Skylos that keep state
which several processes, threads or people share, the TLC configurations that check
them on small instances, and proofs of the main results for every size of the
instance.

Skylos is mostly a sequential static analyzer: it reads a tree and reports.
What is hard to get right by testing is elsewhere, in the parts that remember
something between runs, or change the tree:

* Deep Audit: a database of one JSON record per source file under
  `.skylos/audit`, written by scans, by runs of an LLM-backed processor and by
  revalidations, which may all run at once, be slow for minutes, die, and meet an
  edited working tree;
* the caches under `.skylos`: the local review decisions, which are one bundle that
  every decision rewrites, and the API surfaces, which every scan merges into;
* the agent center: one state file with the user's triage, shared by the threads of
  an HTTP service and by watch processes;
* remediation: agents that write fixes into the user's sources, test them and write
  back what they found, while the user goes on saving;
* the editor extension: scans that kill each other.

    cd tla
    tlc -workers 2 -config guard.cfg MCMutationGuard
    tlapm MutationGuardProofs.tla

## 1. The system

### Components, their state and their operations

| component | state | operations | modelled in |
|---|---|---|---|
| Audit mutation guard (`skylos/audit/store.py:700-824`) | one lock directory per audit project | acquire, reclaim a stale one, wait, release | `MutationGuard`, `StoreLock` |
| Audit records and leases (`skylos/audit/store.py`, `types.py`) | a JSON record per file: status, hash, configuration, candidates, findings, history, verdicts, claim | upsert by a scan, mark deleted, acquire a lease, commit, mark an error, append a verdict | `AuditRecord` |
| Candidate scan (`skylos/audit/candidates.py`) | sources and candidates collected so far | collect, mark deleted files, upsert each file | `AuditRecord` |
| Deep audit processor (`skylos/audit/processor.py`) | a snapshot of all records, a queue, a copy of the record being worked on | snapshot, mark unsupported or secret-bearing files, claim, read, analyze, commit, sum up | `AuditRecord`, `AdaptiveBatching` |
| Revalidation (`skylos/audit/revalidator.py`) | the record read when judging began | judge a finding, append the verdict | `AuditRecord` |
| Investigator tool session (`skylos/audit/investigator_tools`) | a repository catalog and its digest | begin, observe, check at the end | `AdaptiveBatching` (the digest) |
| Project cache lock (`skylos/core/safe_cache_io.py`) | a lock directory | acquire or give up, reclaim, release silently | `CacheLock`, `StoreLock` |
| Local review decisions (`skylos/core/review_decisions.py`) | a bundle of decisions | record (superseding), restore | `LocalDecisions`, `DecisionLedger` |
| API surface caches (`skylos/core/python_api_surface.py`, `skylos/rules/ai_defect/api_signature_hallucination.py`) | two files of surfaces; the maps of a scan | look up, capture, flush what is pending, merge | `ApiSurfaceCache` over `CacheLock` |
| Agent center and service (`skylos/agents/center.py`, `service.py`) | agent state: findings, signatures, digest, triage | refresh, reuse, dismiss, snooze, restore, watch | `AgentCenter` |
| Triage learner (`skylos/agents/triage_learner.py`) | learned patterns | load, learn, save | section 6 |
| Remediation (`skylos/llm/executor.py`, `orchestrator.py`, `cleanup_orchestrator.py`) | backups, batches | apply, test, verify, revert, commit | `Remediation` |
| LLM investigator session (`skylos/llm/investigator`) | turns, evidence, budgets | act, finish | section 6 |
| MCP authentication (`skylos_mcp/auth.py`) | session, rate windows, credits | refresh, gate, deduct | section 6 |
| Grep verification (`skylos/core/grep_verify_parallel.py`, `grep_cache.py`) | a bounded cache, results of a thread pool | search, cache, evict, exit early | section 6 |
| VS Code extension (`editors/vscode/src`) | the running scan, a findings store | scan, cancel, show | `EditorScans` |
| Parallel static analysis, result cache, cloud login and sync, quality gate, tracer, Rust helpers, analyzer and rules, command line | | | section 6 |

### How the modelled parts interact

Every change of a record is a read-modify-write of one file. The store makes
each of its own changes under the *mutation guard*, one lock directory for the
whole audit project, held for a few file operations; `read_file_record` and
`iter_file_records` take no lock at all, they rely on the atomic replacement of
files. An analysis takes minutes and cannot hold the guard, so a worker takes a
*lease* on the record (status `processing`, a `run_id`, a fresh `lock_lease_id`,
a time) and later commits its copy of the whole record only if the lease is still
the one on the record. A claim that is an hour old may be taken over. A scan
keeps the claim when hash and configuration are unchanged and drops it
otherwise. A verdict is refused while a record is in processing. Two operations
of the processor, `_mark_unsupported` and `_mark_secret_skipped`, read the record
outside the guard and write it back later.

The *project cache lock* is the same protocol as the guard, written a second time
with another end: a process that cannot get it gives up after a second, and a holder
that lost it returns as if nothing had happened. Under it, the *local decisions* are
read, changed and replaced as one bundle, and a scan *merges* the API surfaces it has
captured into two files. A scan reads those files long before, without the lock, and
merges by comparing what it saw then with what is there now.

The *agent center* has a lock of its own inside the service, and none against
`skylos agent watch` and `skylos agent triage`, which use the same file. It reuses
its state when file signatures and a digest of the review decisions are unchanged.

*Remediation* and the *editor* share nothing with the others but the user's files.

### What is hard

* the lock directory: death in the guarded section, a reclaim that compares an
  inode and then removes a path, a new directory that gets an old inode;
* lock-free reads that are used after something else happened: the snapshot of
  a run, the copy of a worker, the job of a verifier, the collection of a slow scan;
* leases that run out under a worker that is alive, and a `run_id` that a caller
  uses twice, so that only the lease identifies the claim;
* an editor that changes the source between any two steps;
* recursion over batches with one shared budget, and a repository that changes
  under it;
* a file that is rewritten as a whole by everyone who changes a part of it, from a
  copy read before a lock, before an analysis, or before the question to a model;
* a file that is written in place, and may be read half-written, or stay so;
* an error on the way from one state of the tree to another: a fix that was
  applied and not tested, tested and not reverted;
* events of processes that were meant to be gone.

`PROJECT.json` lists each hazard at its line with the properties that cover it.

### What makes each part correct

* *guard*: mutual exclusion as long as no lock was ever old enough to be
  reclaimed; once one was, a holder that lost its lock in its body is told so; the
  lock is always free again;
* *records*: nothing but candidates is lost by a commit; `analyzed` means that exactly
  the named text and candidates were analyzed; provenance never changes; a run
  that says it is complete is right about the tree; claims do not last for ever;
* *batches*: a file's result covers each candidate exactly once, comes from one
  state of the repository, and the costs of a failure leave out no attempt;
* *locks*: whoever uses them need not know how they work: both implement one
  abstract lock until a lock is overdue;
* *decisions*: what was acknowledged stays; a finding has at most one standing
  decision; the bundle behaves like a ledger of atomic changes;
* *surfaces*: no scan takes back what a later one saved, or mixes environments;
* *agent center*: triage is kept, a reused state is current, snoozes end;
* *remediation*: the tree is what the report says, was tested as a whole, and keeps
  the user's saves; the run ends;
* *editor*: a saved file shows its own findings (it does not always, section 5).

## 2. The modules

| module | what it is |
|---|---|
| `MutationGuard` | the guard, one action per file-system call |
| `MCMutationGuard` | instances for TLC |
| `MutationGuardProofs` | its theorems |
| `AuditRecord` | one record and everything that reads and writes it |
| `MCAuditRecord` | instances for TLC |
| `AuditRecordProofs` | its theorems |
| `AdaptiveBatching` | the examination of one file's candidates in batches |
| `MCAdaptiveBatching` | the instance for TLC |
| `AdaptiveBatchingProofs` | its theorems |
| `StoreLock` | what a directory lock promises: the abstract lock |
| `CacheLock` | the project cache lock, one action per file-system call |
| `CacheLockProofs` | that it implements `StoreLock` |
| `ApiSurfaceCache` | the API surface caches; extends `CacheLock` |
| `MCApiSurfaceCache` | instances for TLC |
| `ApiSurfaceCacheProofs` | its theorems; extends `CacheLockProofs` |
| `DecisionLedger` | what authoring decisions promises: one change at a time |
| `LocalDecisions` | the bundle of decisions under `StoreLock` |
| `MCLocalDecisions` | instances for TLC |
| `LocalDecisionsProofs` | its theorems |
| `AgentCenter` | the agent state, its service and its watches |
| `MCAgentCenter` | the instance for TLC |
| `AgentCenterProofs` | its theorems |
| `Remediation` | the agents that change sources, and the user |
| `MCRemediation` | the instance for TLC |
| `RemediationProofs` | its theorems |
| `EditorScans` | the scans of the VS Code extension and their findings |
| `MCEditorScans` | the instance for TLC |

The refinements form a chain: `MutationGuard` and `CacheLock` implement `StoreLock`,
`ApiSurfaceCache` is `CacheLock` with its users, `LocalDecisions` is built on
`StoreLock` and implements `DecisionLedger`.

`PROJECT.json` ("map") gives the source lines of every definition.

### MutationGuard

`dir` is the directory on disk: its inode, its age, and (not on disk, for the
properties only) the process that made it. `pc` says where each process stands
in `_acquire_mutation_guard`, `_remove_stale_mutation_guard` or
`_release_mutation_guard`; `own` is `owned_stat`, `seen` is `existing`, `waited`
is what the deadline is compared with. `MakeDir`/`DirExists` are the two outcomes
of `os.mkdir`; `ConfirmDir`/`ConfirmMissing` those of the `lstat` after it;
`InspectDir`/`InspectMissing` those of the `lstat` of somebody else's lock;
`JudgeStale`/`JudgeLive` the age test together with the second `lstat`;
`Reclaim`/`ReclaimMissing` the `rmdir`; `Poll`/`TimeOut` the bounded wait;
`CheckOwned`/`CheckLost` and `Unlink` the release. `Tick` ages directories, stat
results and deadlines together, `Crash` leaves the directory behind.

Three details of the code matter and are in the model: the `lstat` after `mkdir`
does not know whether it sees the directory just made; `rmdir` removes by path;
and a waiter that finds the lock gone tries again without looking at the
deadline. Symlinks and foreign files at the path, which the code refuses, are
left out: nothing in the code creates them.

`InodeReuse` says whether a new directory may get an inode that somebody still
remembers (file systems do this); it also decides what `staleSeen` counts (section 4).
`ShortBodies` restricts time: no directory gets stale under a live process.

### AuditRecord

One file is enough, since records of different files share only the guard. A
store operation under the guard is one action: `MutationGuard` shows when this
is justified (as long as no lock gets stale under its holder) and what happens
otherwise (the holder is told, if it was robbed in its body). Every lock-free read is an action of its own.

| code | actions |
|---|---|
| `scan_deep_audit_candidates` | `Collect`, `MarkDeleted`, `Upsert` |
| `process_deep_audit_records`, deciding | `Snapshot` (`Disposition`) |
| a file that is worked on | `AcquireLease`/`LeaseRefused`, `ReadBack`/`ReadBackLost`, `ReadSource`, `AnalysisFails`, `Commit`/`CommitRefused`, `MarkError` |
| a file that is marked | `MarkRead`, `MarkWrite` |
| `_audit_state_counts` and the summary | `Summarize` (`Complete`) |
| `revalidate_deep_audit_findings` | `StartJudging`, `AppendVerdict` |
| the environment | `Edit`, `Crash`, `Tick` |

Hashes stand for contents, `config_hash` for the configuration, a candidate is a
model value that is or is not secret-bearing (a file that is secret-bearing by its
name is one that always has such a candidate). `waves` are the `agent_process`
entries of the analysis history, each with the model, the text and the candidates
that were analyzed; other history entries have no influence on any decision
but one (a repeated note) and are left out. `Snapshot` reads the record and the
context it depends on in one step, and so does `Summarize`. The `run_id` is chosen
when it is first written. A run works on one file, so `limit` and `allowed_files`
do not appear; a verifier judges one finding at a time, and one that judges several
findings of a snapshot is several verifiers. `related_files` of the latest
analysis is represented by this file's text: the file itself is always among the
files an investigation has read. Whether the catalog digest of the repository has
changed for another file's sake is a choice a run makes when it decides
(`elsewhere`); when it has, an investigation repeats an analysis of the same
text. In `Complete` the choice is left out: a changed digest only makes a run
incomplete more often than here. The text analyzed is the one read before: the
program's own analyzers are given it, and only one without `_analyze_whole_file`
reads the file again (`processor.py:895`), which is left out.

### AdaptiveBatching

The candidates of a file are `1 .. count`, a batch is an interval. The recursion of
`run_adaptive` is a stack of batches; `attempts`, `recoverable` and `completed` are
the counters the summary of a failure is made of. One attempt is `BeginAttempt`
(the budget and the tools' catalog digest) and then one of `IntegrityFailure`,
`CapacityFailure`, `OtherError`, `FinishAttempt`. Which failures may be answered by
a split follows `_can_recover_by_splitting`, whose text matching is a choice here,
except where the code fixes it: the message of an exhausted budget contains none
of the markers, so an exhausted budget splits a batch down to single candidates
before the error leaves. `FinishAttempt` lets the investigator claim any set of
candidates. The aggregation of several results checks once more what every batch
was already checked for, and cannot fail in the model. An empty file's single
call ends in `Conclude` too.

### StoreLock and CacheLock

`StoreLock` has the processes in the guarded section and one bit, `overdue`: some
lock has reached the age at which it may be reclaimed. Until then one process at a
time is inside; from then on `Enter` has no guard. That is what both directory locks
can promise, whatever their users do.

`CacheLock` is `project_cache_lock`, call by call, in the manner of `MutationGuard`:
`MakeDir`/`DirExists`, `ConfirmDir`/`ConfirmMissing`, `InspectDir`/`InspectMissing`,
`Judge` (the age and the second `lstat`), `Reclaim`, `Poll`/`TimeOut`,
`CheckOwned`, `Unlink`, `Tick`, `Crash`. The difference is `CheckOwned`: a holder
that finds somebody else's directory, or none, returns. Inodes are reused at will.
In both modules the refinement maps `holders` to the processes in the guarded
section, and `overdue` to a history variable that turns true when a directory, or
somebody's look at one, reaches the stale age.

### ApiSurfaceCache

A scan is a session: `Ask` comes across a module and reads `api_symbol_truth.json`
again unless its state (`stat`) is the noted one; `NoteState` notes that state *after*
the read, so that a file replaced in between passes for the one that was read; `Build`
imports and inspects the module in the scan's environment, or fails to; `Enter` notes
what the capture replaces (`_observed_shared_surfaces`, `_observed_python_modules`) and
enters it in the maps; `Flush` ends the scan. The flush takes the lock (`LockStep`, the
steps of `CacheLock` and `Along`) and is then `LoadModules`, `SaveModules`,
`LoadSurfaces`, `SaveSurfaces`: a read and a replacement of each file, with
`_merge_unchanged_entries` (`Merged`) in between. A save may fail without ending the
flush; the process may die anywhere.

A surface is known by its environment and by when it was captured, so that "older" has
a meaning. `fresh` stands for the comparison of file states: a replacement makes every
other session's view stale. The older file, `python_api_surface.json`, belongs to one
environment; the file of another is as good as empty (`ModulesFor`).

### DecisionLedger and LocalDecisions

`LocalDecisions` is `record_local_decision` and `revoke_local_decision`: `Begin`,
`Acquire` or `Busy`, `Read` (load, check the request, refuse), `Write` or `WriteFails`,
`Acknowledge` or `Refuse`, with `Crash` anywhere. `store` is the bundle: what has become
of each decision id. Recording supersedes (revokes) every standing decision on the same
finding. `recorded` and `restored` are history: what the callers were told. Sizes are
in units: `RecordSize` and `RevocationSize` against `MaxBundle`, because the loader
has a limit in bytes and the writer has none.

`DecisionLedger` is the same without processes, copies, locks or errors: `Record` and
`Restore`, one at a time; once a lock is overdue, `Lapse` may put any state in the
place of the present one, as long as no finding has two standing decisions.

### AgentCenter

A call of the service takes `_lock` for all of its duration (`Begin`, `Leave`); a watch
takes none. `Load` reads the file, and what cannot be parsed is as good as nothing;
`Reuse` is `_maybe_reuse_previous_state`, with the save that drops a snooze that is
over; `Sign`, `Analyse`, `Apply` are a refresh, in the order in which the code reads
signatures and digest, sources, and review decisions; `Edit` is
`update_action_triage`/`clear_action_triage`. `Truncate` and `Write` are the two halves
of `Path.write_text`. A triage without a state makes one first (`LoadForTriage`).
`Fail` is an exception or a death, anywhere.

Sources and reviews are counted; `Sign` takes the signatures and the digest in one
step, the code one after the other. A signature is the count itself; the digest is its
parity, since a decision that is recorded and restored leaves the digest as it was.
`wanted` is history: the triage the service has carried out. `spoiled` says that
somebody without the lock has written, or that a call ended in the middle of a write:
from then on nobody can promise anything about the triage, and `TriageKept` does not.

### Remediation

Both agents are one machine, told apart by `agent`. `Take` reads the file for the model;
`GiveUp` is the model without a usable answer; `TakeBackup` reads what is on disk *now*
for the backup, and `Apply`, a step later, writes the whole file from what was read
*then* (`executor.py:77, 85`); `TestsPass`, `TestsFail`, `TestsRaise`; `Verify` (only
`RemediationAgent`); `Revert` and `RevertFails`, whose result nobody looks at; `Commit`
of the files of fixed batches and of whatever is in the index of git; `Abort`. `Save(f)`
and `StageFile(f)` are the user, at any time. A text is known by the last save that is
in it, by the fixes that are in it, and by whether it was written to its end: a failed
write may leave an emptied file (`FailedWrite`). Line ends are not told apart: files are
read with universal newlines (`safe_cache_io.py:53-61`) and written with line feeds, so
what a fix or a revert writes to a file with carriage returns has lost them. `late`, `unseen`, `loose` and `passed`
are history; they name the exceptions the properties make.

### EditorScans

`activeProcess`, the child processes, and the two maps of the findings store that CLI
scans fill. `Start` kills the active process and makes the new one active; `Close` is the
close event, whenever it comes: it clears `activeProcess`, whoever that is by now, and
shows what was printed, where nothing printed is read as `{}`. `PrintReport` and `Die` are
the child.

## 3. What is checked

Run times are those of two workers.

| run | question | instance | result |
|---|---|---|---|
| `guard` | does the lock exclude, report its loss, become free, implement `StoreLock`? | 3 processes, 4 inodes, stale after 2 ticks, timeout 1, one death | passes, 518,524 states, 100 s |
| `guard_reclaim` | is only a stale lock ever reclaimed? | the same, holders are quick | **violated**, see section 5 |
| `audit` | are commits, statuses, provenance, history and completion right? | 2 investigating runs, 1 scanner (2 scans), 1 verifier, 2 texts, 1 edit, a file without a candidate, with a plain one or with a credential, 2 run ids that may be used twice, 3 leases that may expire at any time | passes, 1,532,011 states, 150 s |
| `audit_live` | does a claim end? | 2 runs, one with `force`, 2 scans, one death, live workers finish in time | passes, 42,828 states, 10 s |
| `audit_waves` | is every analysis kept in the history? | 1 investigating run, 1 plain run, a file that is not Python | **violated**, see section 5 |
| `batching` | are candidates covered, costs right, changes seen, calls finite? | up to 17 candidates, 4 at a time, 4 attempts, one change | passes, 2,375 states, 22 s |
| `surfaces` | does a scan take back what another saved? does the cache lock implement `StoreLock`? | 2 scanning processes, in one or two environments, 2 modules, 2 captures, 2 inodes, stale after 2 ticks, timeout 1, one death | passes, 1,587,928 states, 60 s |
| `decisions` | do decisions that were acknowledged stay? is the bundle a ledger? | 2 processes, 3 decisions on 2 findings, any number of calls, deaths and failed saves | passes, 1,428,926 states, 55 s |
| `decisions_full` | can the bundle that was saved be loaded? | a loader's limit of 5 units, 3 decisions allowed | **violated**, see section 5 |
| `agents` | is triage kept, is a reused state current, do snoozes end? | 2 threads of the service, 1 watch, 1 action, 1 edit, 1 review, 1 tick, 1 failure | passes, 1,377,828 states, 180 s |
| `remediation` | is the tree what the report says, was it tested, is each fix decided once? | 2 files, 3 fixes, 2 saves of each file, one staged file, one failure, both agents | passes, 2,386,926 states, 95 s |
| `editor_overlap` | does a save refresh its file's findings? | 2 files, saved once each, 3 scans | **violated**, see section 5 |

### The bounds, and why they are enough

*guard*: the race needs three processes: two that judge the same lock and one
that makes the next; two would not show it. Four inodes are one for each process to
remember and one more on disk, so that the absence of reuse is not an accident of
the bound. Ages beyond the stale age are alike. A timeout of one tick lets waiters
both poll and give up before the lock is stale.

*audit*: two runs are what a lease fences against each other; a third would only
repeat the role of either. Two scans are needed for a rescan during a claim. Two
texts let the file change and change back only with two edits; the proofs cover
any number. Lease identifiers, run identifiers and the two workers of `audit`
are symmetric. A lease is not
reused while the record or a worker knows it, as `uuid4` does not repeat. In
`audit` leases may go stale under a live worker (`Timely = FALSE`), which makes every
late answer possible. A scan may find nothing, a plain candidate or a credential; with
the last, a run marks the file as skipped, from a record it read before, while the other
run may hold a claim taken when an earlier scan had found something else. Deadlock
is not checked: when scans, edits and verdicts are used up and every run is idle
over a record without work, the system may stop - a run may also start for nothing.

*batching*: 17 candidates make five initial batches, one more than the budget, so
that the preflight refusal happens; 16 and fewer use up the budget in the middle.
With a limit of 4, batches split evenly and unevenly, and a batch that is refused for
want of budget is split twice on its way down to one candidate. The call ends, so deadlock
is not checked.

*surfaces*: two scans are what a merge arbitrates between; a third would be a second
other. Two modules are needed to lose one while the other is merged, two captures to
have a newer and an older surface. Two inodes let a new lock have the old one's. Every
process may scan again after its flush, with an empty session. The proofs
cover any number of each.

*decisions*: three decisions, two of them on one finding, let one supersede, another
be restored, and a third be in the way of neither. With `MaxBundle = 7` a bundle
becomes unreadable only with the last changes that three decisions allow (three records
of 2 units and three revocations of 1), after which every call is refused: up to there
`decisions` is about concurrency. `decisions_full` lowers the limit to 5, below three
records, as the real limit (1,000,000 bytes) is below `MAX_DECISIONS` records of at
least 561 bytes.

*agents*: two threads contend for the lock, one watch goes around it. Each of edits,
reviews, time and failures happens once, at any moment, between any two steps of any
client; a digest that comes back takes two reviews, which the proof covers. A snooze is
over after one tick.

*remediation*: two fixes in one file show what a revert takes with it, a third in another
file that tests are about the whole tree. Two saves of a file let the model miss one
and the backup another. The one failure strikes at any call or write; the proofs cover
any number, as they do any number of staged files. The run ends, so deadlock is not
checked.

*editor_overlap*: the shortest counterexample has two saves. The module has no passing
run: what it says of the findings shown is violated by the first overlap.

### What the properties say

*MutationGuard.* `SerializedUntilStale`: until some lock directory has reached the
stale age, at most one process is in its guarded section, and the directory on disk
is its own. Beyond that age there is no exclusion, by design: a holder that is merely
slow is displaced. `LostLockIsReported`: a holder whose directory was removed while its
body ran will find a different one or none at its release, and raises. Two windows are
outside of it. A process that is robbed between `mkdir` and `lstat` (`store.py:708`)
takes its successor's directory for its own, and then two processes hold one identity,
of which one will release the other's lock; one that is robbed between the `lstat` and
the `rmdir` of its release (804, 822) removes whatever is there. The model does both, as
the code does; `SerializedUntilStale` excludes them until a lock is stale.
`GuardEventuallyFree`
needs the reclaim: with a dead holder nothing else removes the directory.

*AuditRecord.* `CommitLosesNothing`: between a worker's copy and its commit, no hash,
configuration, finding, analysis or verdict changes without the lease changing too, so
the commit replaces them by what they were. Candidates are the exception: a rescan with
the same text and configuration replaces the candidates of a record in processing
(`store.py:445`), and the commit puts the analyzed ones back (556). That is why
`AnalyzedAsRecorded` speaks of candidates: an analyzed record names what was analyzed,
and the new candidates wait for the next scan. `OriginKept`: commits never restamp a
finding that is on disk. `CompleteIsCurrent`: when an investigating run says
`complete`, the record of a file in scope is analyzed, from the text that is in the
tree at that moment. (A plain run promises less: it does not record which files it
read.) `HistoryGrows`: whatever scans, runs and verifiers do, analyses and verdicts stay
in the record; it is the marks alone that can take one away, as `audit_waves` shows they
do. All but the last two are checked with marks between the other steps, of files that
hold a credential. `NoClaimForEver`: a claim of a dead worker is taken over and brought to an end.

*AdaptiveBatching.* `CandidatesInOrder`: done and to-do batches, end to end, are the
candidates, and none is larger than what the investigator takes. `CostsAddUp`: when a
call ends in a failed attempt, failed attempts are the recoverable ones and that one.
When it ends because the budget is exhausted, each was answered by a split, and the
splits that answered a refusal are reported as recoverable failures too, though nothing
was attempted: `recoverable_failed_attempt_count` then exceeds `failed_attempt_count` by
less than the candidates of one batch. `ExhaustedByFailures`: the preflight check reserves
an attempt for each initial batch. `ChangeRejectsFile`: a change while a candidate is
unexamined ends the call in an error. `CallAdvances`: each step brings the call further
(`Progress`), and there is a bound on how far it can go; a split for want of budget, which
costs no attempt, does not make the recursion loop. `CallEnds` follows, once sessions end.

*The locks.* `ImplementsStoreLock` of `MutationGuard` and of `CacheLock` is
`StoreLock!Spec` under the mapping above: every acquisition, return, error and death
is an `Enter` or a `Leave` that the abstract lock allows.

*ApiSurfaceCache.* `SurfacesMoveForward`: until a lock is overdue, no step replaces a
surface in `api_symbol_truth.json` by one captured earlier, or loses one. A test
(`test_api_signature_hallucination.py:685`) asks this of one sequence; the property of
every interleaving, with the file replaced between a session's read and its look at the
file's state. `ModulesKept` says less of the older file: nothing is lost, as long as the
file stays with its environment. Its entries may go back in time, because
`python_api_surface.py:79` reads the older map after the capture: a newer capture that
another scan saved meanwhile is then noted as what was replaced. `OneEnvironment`
holds even of scans that were robbed of their lock.

*LocalDecisions.* `AcknowledgedKept`: until a lock is overdue, what a caller was told
remains so under everybody's rewriting. `NeverAmbiguous`: no finding has two standing
decisions, ever: each bundle that is saved has been made from one that had none.
`ImplementsLedger`: the refinement of `DecisionLedger`; a step of a process is a
change of the ledger only when the bundle is replaced.

*AgentCenter.* `TriageKept`: whenever nobody is in a call, the file holds what the
service has carried out, up to snoozes that are over. `ReuseIsCurrent`: the findings of
a reused state are of the sources that are there, whatever was edited during their
analysis; and they follow the reviews in force, unless so much was decided since that
the digest may have come back. That exception is real: a decision recorded during the
analysis and restored after it leaves the digest of before, and a state whose findings
followed it is reused. `SnoozesEnd`: a snooze that is over leaves the file although
nothing else has changed.

*Remediation.* `TreeMatchesReport`: in an undamaged file are the fixes that are reported
as fixed, and no others but the one in hand and those that could be neither judged
nor reverted. `TestedTogether`: the fixes in the tree between two steps are a set with
which the tests have passed; with each of them alone would not be enough.
`EditsSurvive`: the user's last save is on disk, but for two cases: a save between the
backup for a fix and the decision on it, which the write or the revert takes along, and
a fix that stays although it was written over a save the model had not seen. What it
promises is that a revert brings back every save that was there when its backup was
read, whether or not the model had seen it. `CommitOnlyFixed`: no file of the commit
holds a fix that was reverted, or should have been, unless the user staged it himself
while the fix was in the file. `RunAdvances`: a fix that has been decided is never
taken up again, and each step of the run decides one or brings the one in hand further.
`RunEnds`.

*EditorScans.* `SaveRefreshes`: when no scan is left and none was reported as failed, a
saved file shows the findings of its present text.

### Fairness

* `MutationGuard`: `WF(Step(p))` says that every process runs, and comes back for
  another mutation; `WF(Tick)` that the clock advances. Nobody has to die. Without
  somebody who comes back, a dead holder's lock would stay, in the code as well.
  Weak fairness does not bound the loop of `InspectMissing`, and no property says so.
* `AuditRecord`: `WF(WorkerStep(w))` says that the processor is run again and that
  a run goes on unless it dies; `WF(Tick)` that leases grow old. Scans, edits and
  verdicts may never happen. `NoClaimForEver` is checked with `Timely`: live
  workers finish before their lease is stale. Otherwise two runs may take the claim
  from each other for ever, which the code allows.
* `AdaptiveBatching`: `WF(Examine)`: a session of the investigator ends, because its
  turns, tokens and seconds are limited (`skylos/llm/investigator`).
* `AgentCenter`: `WF(Work(p))` says that a call that has begun goes on, `WF(Ask(p))`
  of a watch that its loop comes around (it sleeps for an interval and refreshes).
  The service need never be called.
* `Remediation`: `WF(Step)`: the model answers or its client gives up, and the tests
  are killed after 300 seconds. Nothing is assumed about the user.

### Mutants

Each property of a passing run comes with a mutant: an operator, commented "Mutant
of ...", that changes one definition as a plausible bug would, such as a lock made
with `exist_ok=True`, a release that looks for any lock, a rescan that compares hash
and configuration alone, a verdict appended while a record is in processing, a split
that drops the middle. With the definition replaced, TLC finds the property violated.

## 4. What is proved

TLAPS checks the following for every value of the constants that satisfies the
named assumptions of the module (`GuardConstants`, `RecordConstants`, ...).

| theorem | says |
|---|---|
| `GuardTypeCorrect` | `Spec => []TypeOK` |
| `GuardInvariant` | `Spec => []GuardInv` |
| `Serialized` | `Spec => []SerializedUntilStale` |
| `LossIsReported` | `Spec /\ [][NoIdentityReturns]_vars => []LostLockIsReported`: unless a new lock directory gets the very inode of a lock that was removed under a running body |
| `LossIsReportedWithoutReuse` | `~InodeReuse => (Spec => []LostLockIsReported)`: the instance that `guard` checks |
| `RecordTypeCorrect` | `Spec => []TypeOK` |
| `RecordInvariant` | `Spec => []RecordInv` |
| `CommitsLoseNothing` | `Spec => []CommitLosesNothing` |
| `AnalyzedMeansExamined` | `Spec => []AnalyzedAsRecorded` |
| `ProvenanceIsImmutable` | `Spec => OriginKept` |
| `CompletionIsCurrent` | `Spec => CompleteIsCurrent` |
| `OnlyMarksLoseHistory` | `Spec => HistoryGrows` |
| `OneClaimAtATime` | at most one worker with a claim in hand passes the fence of a commit |
| `SupersededForGood` | a lease that is not on the record does not come back to it |
| `GuardImplementsStoreLock` | `Spec => ImplementsStoreLock` |
| `CacheLockTypeCorrect`, `CacheLockImplementsStoreLock` | the same of `CacheLock` |
| `BatchingInvariant`, `BatchingTypeCorrect` | `Spec => []BatchingInv`, `Spec => []TypeOK` |
| `NoCandidateIsLost` | `Spec => []CandidatesInOrder` |
| `FailuresAreCounted` | `Spec => []CostsAddUp` |
| `BudgetCoversTheBatches` | `Spec => []ExhaustedByFailures` |
| `CompleteCallsExamineEach` | when a call completes, each candidate is in one batch that was done, and in no other |
| `ChangesAreFatal` | once the repository has changed with a candidate unexamined, the call does not succeed: the part of `ChangeRejectsFile` without fairness |
| `CallsAreFinite` | `Spec => CallAdvances` |
| `CachesImplementStoreLock` | `CacheSpec => ImplementsStoreLock` |
| `CacheTypeCorrect` | `CacheSpec => []CacheTypeOK` |
| `EnvironmentsStayApart` | `CacheSpec => []OneEnvironment` |
| `SurfacesNeverOlder` | `CacheSpec => SurfacesMoveForward` |
| `ModulesNeverLost` | `CacheSpec => ModulesKept` |
| `DecisionsTypeCorrect` | `Spec => []TypeOK` |
| `AcknowledgementsHold` | `Spec => []AcknowledgedKept` |
| `OneStandingDecision` | `Spec => []NeverAmbiguous` |
| `AuthoringImplementsLedger` | `Spec => ImplementsLedger` |
| `LimitHolds` | the store never holds more than `MaxDecisions`, robbed writers included |
| `UnreadableIsFinal` | until a lock is overdue, no step changes a store that cannot be loaded |
| `LoaderEndsGrowth` | the store never holds more than one decision beyond those whose records fit `MaxBundle`, robbed writers included |
| `FullIsNeverSaid` | where `MaxDecisions` records do not fit `MaxBundle`, a store that can be loaded has fewer than `MaxDecisions` |
| `AgentTypeCorrect` | `Spec => []TypeOK` |
| `ReusedIsCurrent` | `Spec => ReuseIsCurrent` |
| `ServiceKeepsTriage` | `Spec => []TriageKept` |
| `RemediationTypeCorrect` | `Spec => []TypeOK` |
| `FilesAreAsReported` | `Spec => []TreeMatchesReport` |
| `FixesAreTestedTogether` | `Spec => []TestedTogether` |
| `SavesSurviveReverts` | `Spec => []EditsSurvive` |
| `OnlyFixedIsCommitted` | `Spec => []CommitOnlyFixed` |
| `RunsAreFinite` | `Spec => RunAdvances` |

*The guard.* `SerializedUntilStale` is not inductive: a waiter could stand before its
`rmdir` with a stat result that was never true. `GuardInv` adds that a stat result
which names the directory on disk is as old as the directory (`SeenIsAsOld`), so that
nobody judges a young lock stale (`NothingStale`); that a holder made the directory
that is there (`HolderMadeDir`), which closes the gap between `mkdir` and `lstat`; and
that a body has an identity to compare (`BodyOwns`). The code compares device and inode
only, so a new directory with a remembered inode passes for the old one. Exclusion
survives that, and so does the refinement, if growing stale is understood of every look
at a directory and not only of the directory that is there: `staleSeen` counts both
where inodes are reused, and the directory alone where they are not. What does not
survive it is that a robbed holder says so: a holder whose successor was given the same
inode finds its own lock in place, and file systems do give a new directory the inode of
one just removed. `LossIsReported` shows that nothing else can hide a loss: it assumes
only that no new lock directory gets the inode of one that was removed under a body
that still runs (`NoIdentityReturns`); waiters may remember what they like.

*The record.* `CommitLosesNothing` is preserved because every step that changes the
record takes its lease away, gives it one that nobody knows, or leaves alone what a
commit replaces. `RecordInv` adds what that needs: only a record in processing is leased
(`LeaseMeansProcessing`); a worker with a claim in hand has a lease
(`ClaimHasLease`); a mark brings neither a lease nor an analysis back to the disk
(`MarksAreUnlocked`); the text under analysis is the text the copy names
(`SourceAsCopied`). `OriginsAreUnique` says that finding identifiers are unique in a
record and in a copy, which makes `OriginKept` follow. `OnlyMarksLoseHistory` needs no
more: what a commit replaces is what its worker copied, with one analysis added. That no
two workers know the same lease (`LeasesApart`) is an invariant of its own, from which
`OneClaimAtATime` follows. None of these proofs assumes that leases outlast the analysis
or that run identifiers are different; that a new lease is nobody's is what `uuid4` is
for, and is the one thing they take from it.

*The cache lock.* `CacheLockInv` is smaller than `GuardInv`: until a lock is overdue
nobody has seen a stale directory (`NothingStale`), so nobody reclaims, so the one
directory there is belongs to the one holder (`OneHolder`). Which inode it has does not
matter, so reuse need not be excluded. That `overdue` also becomes true when somebody's
*look* at a directory grows old is what makes this inductive.

*The batches.* Of the batches done and those to do (`Plan`), `CandidatesInOrder` says
that they cover the candidates in order; a split replaces one of them by its two
halves, so that the plan has as many batches as the call began with and one for each
failure that was answered (`PlanGrows`). Attempts are then batches done and failures
answered, and one under way, or they have reached the limit (`AttemptsAddUp`); that is
what `CostsAddUp` and `ExhaustedByFailures` need. Once the budget refuses attempts, the
batch on top shrinks with every split that answers a refusal, so that together they are
less than the batch it was, and that is at most `CandidateLimit` (`Refused`). `BatchingInv` is these and the empty
file, which has one empty batch (`EmptyFile`). That the batches follow each other is a
statement about neighbours; that any two of them are apart and that together they hold
every candidate is an induction over their positions (`BatchBounds`, `BatchesAreApart`,
`BatchesCover`), and so is that there are no more of them than candidates
(`BatchesHoldCandidates`), which bounds `Progress`. `Doomed`, a repository that has
changed with batches left and no success, is never left, as no attempt that begins or
ends after a change is accepted.

*The surfaces.* `CacheStepsUseTheLock` shows that each step of the caches is a step of
the lock or none, which brings `CacheLockInv` over. `CacheInv` then needs four things:
no session knows of a capture that is yet to come (`Dated`); what a session captured is
newer than what it saw before (`AfterSeen`), which is what makes a merge that compares
with the seen surface safe; what it saves in the older file is of its environment
(`MineOnly`); and between the read and the replacement of a file the merged draft stays
ahead of it (`DraftInv`), because nobody else is in the guarded section (`OneHolder`).

*The decisions.* Until a lock is overdue, the copy of the one process that is about to
write is the bundle on disk, so its change is a change of the ledger; afterwards any
copy may be written, but each has at most one standing decision for each finding.
`LimitsInv` adds that each copy about to be saved was loaded, so was readable, and holds
no more than `MaxDecisions`; a change adds one to it after the limit was looked at on
that copy. So nobody is about to write when the store itself cannot be loaded, and what is
written holds at most one decision more than a store that could be (`LoaderEndsGrowth`).

*The agent center.* `WholeInv`: every state, in the file or in hand, was signed before
it was analysed and reviewed, by counts that only grow; so a signature that is
the present one means an analysis that is. `KeptInv`: all that a thread in the lock has
in hand is the triage carried out so far, but for the entry it was asked to change;
`Same` compares triage by what it shows at present, which time preserves.

*Remediation.* `Held(f)` is what a file will hold if the fix in hand does not stay: its
backup while that fix is judged, the file itself otherwise. `ReportInv` says that what
is held is what is reported (`HeldMatchesReport`), that the files hold no more than
that and the fix in hand (`FilesMatchReport`), and that the fix in hand is what tells a
file from its backup (`InHand`). The other three theorems build on it: the tests have
passed with all that is held (`PassedInv`), what is held has the user's last save, or
an exception that is named (`EditsInv`; from the backup on, a save counts as late), and
a commit is the last thing that happens to
a file whose fixes have been decided (`CommitInv`). `RunsAreFinite` has one case for each
action: it takes a fix out of `Pending`, or leaves `Pending` alone and raises `Stage`.

*Only model-checked*: the liveness properties (`GuardEventuallyFree`,
`NoClaimForEver`, `CallEnds`, `SnoozesEnd`, `RunEnds`) and `ChangeRejectsFile`, which
is a leads-to: liveness under fairness, and ENABLED, are beyond this prover. Of three of
them the part without fairness is proved: `CallsAreFinite` and `RunsAreFinite` bound the
steps of a call and of a run, so that `CallEnds` and `RunEnds` say no more than that
there is always a next step and that it is taken; `ChangesAreFatal` leaves to
`ChangeRejectsFile` that the call ends. Induction theorems of the library take an
operator as a parameter, which no installed prover instantiates; where an induction is
needed it is over a set of numbers (`SetInduction`, from the well-foundedness of `<`).
`guard_reclaim` and `guard` run without reuse of inodes; what is said of a guard with
reuse is said by proof.

## 5. Disagreements between the code and its comments

* `store.py:744-746` says that a replaced lock "fails closed and falls through to the
  bounded wait". The replacement may happen after the comparison: two waiters judge the
  same dead lock stale, the first removes it, a third process makes a new one, and the
  second removes that (`guard_reclaim`). What the code then does is what
  `LostLockIsReported` says: a holder displaced in its body raises `RuntimeError`, after
  its write.
* `processor.py:384-386` keeps "each analysis wave auditable". The two marks of the
  processor read the record without the guard; a commit that falls between their read
  and their write is erased, with its wave (`audit_waves`). Nothing else does this, which
  `OnlyMarksLoseHistory` proves.
* `review_decisions.py:885-887` appends a record and saves the bundle without a look at
  its size, while the loader refuses more than 1,000,000 bytes (lines 40 and 680). The
  check "local review decision store is full" (lines 872-873, `MAX_DECISIONS` = 10,000)
  is meant to refuse in time and is never reached: fewer than 1,800 decisions, of 561
  bytes and 230 more when they are revoked, make a bundle that nobody can load. Every
  decision is then ignored and every call fails with "invalid or unsafe"
  (`decisions_full`), which `UnreadableIsFinal` proves to be for good: no call changes it,
  not even one that restores a finding. `FullIsNeverSaid` proves that the check cannot be
  what refuses, and `LoaderEndsGrowth` that the loader's limit is what ends the growth, at
  1,783 decisions at most.
* `editors/vscode/README.md:72`: "**Save any file** → Skylos CLI refreshes findings for
  that file". A scan that the next one kills has printed nothing; `scanner.ts:177`
  parses that as `{}` and succeeds with no findings, which replace those the file had.
  Two saves in quick succession leave the first file without findings and without an
  error (`editor_overlap`).

## 6. What is not modelled

*Deep Audit*: `limit` and `allowed_files`; several files in one run; `project.json`,
`config.json` and run files (each written whole, atomically, and never merged); the JSON
codec and the refusal of malformed records; redaction, prompts and the aggregation of
metadata; exports and the CI gate, which are functions of the records; the choice of
findings that need revalidation. That `InspectMissing` may repeat without a look at the
deadline (`store.py:772`) is in the model, but no property bounds it: weak fairness of a
process does not keep others from making and removing the lock in between.

*Local decisions*: expiry, the bundle of the Cloud and its trust, the matching of
decisions with findings, the validation of records.

*API surface caches*: the JavaScript session, which merges in the same way into keys of
its own; truncated caches; the probes in child processes. A session that finds the lock
busy flushes nothing and says nothing; that is in the model, and no property objects.

*Agent center*: ranking, counts, contribution events, suggestions, HTTP. `skylos agent
triage` is a client without the service's lock: what it may do to the service's triage is
in `spoiled`, but its own triage is not followed. `learn_triage` loads, changes and
saves the learned patterns outside the lock (`service.py:201`), an evident lost update
of a heuristic about which nothing is promised; the same is true of the triage learner.

*Remediation*: the regression tests that an agent may write, push and pull request, the
order of the plan, line ends, prompts. Without tests the code
counts every fix as tested; in the model that is a test that always passes. Three
things are in the model as the code has them, and named where properties make an
exception of them: an exception in the clean-up agent leaves an untested fix in the tree
and reports it as skipped, a write that fails may leave an emptied file which is not
reverted, and an exception in the remediation agent ends the run with a fix in place.

*VS Code extension*: AI findings, the agent panel, quick fixes, cancellation tokens,
rendering.

*LLM investigator session*: a sequential loop of turns under limits on turns, tokens and
seconds; `AdaptiveBatching` takes its outcomes as a choice. *MCP authentication*: one
single-threaded server; its credits are kept by the Cloud, whose code is elsewhere.
*Grep verification*: a pool with an early exit over a bounded cache, whose results are
evidence that nothing relies on. *Parallel static analysis*: a fork and join without
shared state.

*Everything else*: the analyzer, its rules, visitors, engines and benchmarks are
sequential functions from source trees to reports, and the interesting statements about
them are about languages. The result cache is keyed by content. Login and sync are input
and output. The quality gate is a decision over counts. The tracer and the Rust helpers
keep no shared state.

## 7. Plan

Done: the guard and the abstract lock it implements; records, runs, batches; the cache
lock with its two kinds of users; the decisions as a ledger; the agent center;
remediation; the editor's scans; proofs of all their safety properties but those of
`EditorScans`. What is left, in order of importance:

1. *Records under the abstract lock*: a store operation as a read and a write inside
   `StoreLock`, as `LocalDecisions` has it, so that "one operation is one action" in
   `AuditRecord` is a refinement.
2. *Several files in `AuditRecord`*: `limit`, `allowed_files`, and a digest of the
   repository that the files share.
3. `EditorScans`: a passing run, once a killed scan no longer reports; cancellation.
4. `AgentCenter`: `skylos agent triage` as a client, and the learned patterns.
5. The JavaScript session of `ApiSurfaceCache`.
6. `InvestigatorSession`, `McpAuth`, `ParallelGrep`: budgets, windows, early exits.
