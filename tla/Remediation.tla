----------------------------- MODULE Remediation -----------------------------
(***************************************************************************)
(* The two agents that change the user's sources: RemediationAgent         *)
(* (skylos/llm/orchestrator.py: one batch of findings per file, verified   *)
(* by a new analysis, optionally committed) and CleanupOrchestrator        *)
(* (skylos/llm/cleanup_orchestrator.py: many items per file, no analysis). *)
(* Both ask a model for the new text of a whole file and hand it to        *)
(* RemediationExecutor (skylos/llm/executor.py), which keeps a backup,     *)
(* writes, runs the tests and writes the backup back.  The user goes on    *)
(* saving files meanwhile, and may stage some for a commit of his own.     *)
(*                                                                         *)
(* Where a run stands:                                                     *)
(*   start     about to make its branch, if it was asked for one           *)
(*   next      between two fixes                                           *)
(*   fixing    has read the file and waits for the model                   *)
(*   writing   has taken a backup and is about to write the new text       *)
(*   test      has written the new text, the tests run                     *)
(*   verify    the tests have passed, the file is analysed again           *)
(*   revert    about to write the backup back                              *)
(*   over      has returned                                                *)
(*   aborted   was left by an exception, or its process died               *)
(***************************************************************************)
EXTENDS Naturals, FiniteSets

CONSTANTS
    File,       \* the files with findings
    Fix,        \* the fixes there may be: batches or items
    FileOf,     \* the file a fix is for
    NoFix,      \* no fix is in hand
    NoText,     \* nothing: no backup, nothing staged, nothing committed
    MaxSaves,   \* bound: how often the user saves each file
    MaxStaged,  \* bound: how many files the user stages
    MaxFailures \* bound: writes that fail, calls that raise

ASSUME RemediationConstants ==
    /\ FileOf \in [Fix -> File]
    /\ NoFix \notin Fix
    /\ MaxSaves \in Nat /\ MaxStaged \in Nat /\ MaxFailures \in Nat

VARIABLES
    agent,     \* which of the two agents runs
    autoPr,    \* was it asked for a pull request?
    pc,        \* where the run stands
    current,   \* the fix in hand
    status,    \* FixBatch.status, CleanupItem.status
    source,    \* the text the model was given, while it is of use
    backups,   \* RemediationExecutor._backups
    tree,      \* the files on disk
    staged,    \* what the user has added to the index of git
    committed, \* the files of the commit on the new branch
    failures,  \* how much has failed
    saves,     \* history: how often the user saved each file
    late,      \* history: files last saved between a backup and a decision
    unseen,    \* history: fixes written over a save the model did not see
    loose,     \* history: fixes that failed to be judged, or to be reverted
    passed     \* history: the sets of fixes the tests passed with

vars == <<agent, autoPr, pc, current, status, source, backups, tree, staged,
          committed, failures, saves, late, unseen, loose, passed>>

-----------------------------------------------------------------------------
\* A text is known by the user's last save that is in it, by the fixes that
\* are in it, and by whether it was written to its end.  Two texts that differ
\* in their line ends are one: the program reads every kind of line end as a
\* line feed (safe_cache_io.py:53-61) and writes line feeds.
Text == [save : 0 .. MaxSaves, fixes : SUBSET Fix, whole : BOOLEAN]

Pending == {t \in Fix : status[t] = "pending"}
Fixed == {t \in Fix : status[t] = "fixed"}

\* The fix is in its file, and nobody has decided yet whether it may stay.
Judging == pc \in {"test", "verify", "revert"}

\* A backup has been taken of the file, and nothing is decided yet.
Replacing == pc = "writing" \/ Judging

FixesIn(files) == UNION {files[f].fixes : f \in File}

TypeOK ==
    /\ agent \in {"remediate", "cleanup"}
    /\ autoPr \in BOOLEAN
    /\ pc \in {"start", "next", "fixing", "writing", "test", "verify",
               "revert", "over", "aborted"}
    /\ current \in Fix \cup {NoFix}
    /\ status \in [Fix -> {"pending", "skipped", "failed", "reverted",
                           "fixed"}]
    /\ source \in Text \cup {NoText}
    /\ backups \in [File -> Text \cup {NoText}]
    /\ tree \in [File -> Text]
    /\ staged \in [File -> Text \cup {NoText}]
    /\ committed \in [File -> Text \cup {NoText}]
    /\ failures \in 0 .. MaxFailures
    /\ saves \in [File -> 0 .. MaxSaves]
    /\ late \subseteq File
    /\ unseen \subseteq Fix
    /\ loose \subseteq Fix
    /\ passed \subseteq SUBSET Fix
    /\ pc = "fixing" \/ Replacing => current \in Fix
    /\ pc \in {"fixing", "writing"} => source \in Text
    /\ Replacing => backups[FileOf[current]] \in Text

\* What is left out of the plan, by severity or by max_fixes, is skipped; the
\* planner makes one batch of all the findings of a file.
Init ==
    /\ agent \in {"remediate", "cleanup"}
    /\ autoPr \in BOOLEAN
    /\ autoPr => agent = "remediate"
    /\ pc = "start"
    /\ current = NoFix
    /\ status \in [Fix -> {"pending", "skipped"}]
    /\ agent = "remediate" =>
         \A t, u \in Pending : FileOf[t] = FileOf[u] => t = u
    /\ source = NoText
    /\ backups = [f \in File |-> NoText]
    /\ tree = [f \in File |-> [save |-> 0, fixes |-> {}, whole |-> TRUE]]
    /\ staged = [f \in File |-> NoText]
    /\ committed = [f \in File |-> NoText]
    /\ failures = 0
    /\ saves = [f \in File |-> 0]
    /\ late = {} /\ unseen = {} /\ loose = {} /\ passed = {}

-----------------------------------------------------------------------------
(* A run.                                                                  *)

Fail ==
    /\ failures < MaxFailures
    /\ failures' = failures + 1

\* The fix in hand is done with.
Conclude(s) ==
    /\ status' = [status EXCEPT ![current] = s]
    /\ current' = NoFix
    /\ pc' = "next"

\* What the run leaves alone: what it was asked for, and the user's index.
Asked == <<agent, autoPr, staged>>
History == <<saves, late, unseen, loose, passed>>

\* The branch is made before anything is changed.  Without it nothing is.
Branch ==
    /\ pc = "start"
    /\ \/ pc' = "next"
       \/ autoPr /\ pc' = "over"
    /\ UNCHANGED <<Asked, current, status, source, backups, tree, committed,
                   failures, History>>

\* Mutant of Take: what was reverted is tried again.
TakeReverted(t) ==
    /\ pc = "next"
    /\ status[t] \in {"pending", "reverted"}
    /\ current' = t
    /\ source' = tree[FileOf[t]]
    /\ pc' = "fixing"
    /\ UNCHANGED <<Asked, status, backups, tree, committed, failures, History>>

Take(t) ==
    /\ pc = "next"
    /\ status[t] = "pending"
    /\ current' = t
    /\ source' = tree[FileOf[t]]
    /\ pc' = "fixing"
    /\ UNCHANGED <<Asked, status, backups, tree, committed, failures, History>>

\* Mutant of GiveUp: what the model would not fix is tried again.
GiveUpAndRetry ==
    /\ pc = "fixing"
    /\ current' = NoFix
    /\ source' = NoText
    /\ pc' = "next"
    /\ UNCHANGED <<Asked, status, backups, tree, committed, failures, History>>

\* The model has no fix, or one of low confidence, or one that changes nothing.
GiveUp ==
    /\ pc = "fixing"
    /\ \/ Conclude("skipped")
       \/ agent = "remediate" /\ Conclude("failed")
    /\ source' = NoText
    /\ UNCHANGED <<Asked, backups, tree, committed, failures, History>>

\* A write that fails finds the file closed to it, or has emptied it.
FailedWrite(f) ==
    /\ Fail
    /\ \/ UNCHANGED tree
       \/ tree' = [tree EXCEPT ![f].whole = FALSE]

\* Mutant of Backup: the text from before the first fix of the file is kept.
BackupFirst(f) ==
    backups' = IF backups[f] = NoText
                 THEN [backups EXCEPT ![f] = tree[f]] ELSE backups

\* Mutant of Backup: the text the model was given.
BackupSource(f) == backups' = [backups EXCEPT ![f] = source]

\* The backup is what is on disk after the model has answered, not what was
\* read before it was asked.
Backup(f) == backups' = [backups EXCEPT ![f] = tree[f]]

\* apply_fix reads the file once more for the backup ...
TakeBackup ==
    /\ pc = "fixing"
    /\ Backup(FileOf[current])
    /\ pc' = "writing"
    /\ UNCHANGED <<Asked, current, status, source, tree, committed, failures,
                   History>>

\* ... and then replaces it, whatever it holds by now.
Apply ==
    /\ pc = "writing"
    /\ LET f == FileOf[current]
       IN  /\ tree' = [tree EXCEPT ![f] =
                         [source EXCEPT !.fixes = @ \cup {current}]]
           /\ unseen' = IF tree[f].save = source.save THEN unseen
                        ELSE unseen \cup {current}
    /\ source' = NoText
    /\ pc' = "test"
    /\ UNCHANGED <<Asked, current, status, backups, committed, failures, saves,
                   late, loose, passed>>

\* The file cannot be read for the backup, or it cannot be written and the
\* backup is not written back.
ApplyFails ==
    /\ \/ pc = "fixing" /\ Fail /\ UNCHANGED tree
       \/ pc = "writing" /\ FailedWrite(FileOf[current])
    /\ Conclude(IF agent = "remediate" THEN "failed" ELSE "skipped")
    /\ source' = NoText
    /\ UNCHANGED <<Asked, backups, committed, History>>

\* Mutant of TestsPass: the tests have run before the fix was written.
TestsPassedBefore ==
    /\ pc = "test"
    /\ passed' = passed \cup {FixesIn(tree) \ {current}}
    /\ IF agent = "remediate"
         THEN pc' = "verify" /\ UNCHANGED <<status, current>>
         ELSE Conclude("fixed")
    /\ UNCHANGED <<Asked, source, backups, tree, committed, failures, saves,
                   late, unseen, loose>>

\* The tests pass, or there are none to run.  Cleanup asks for no more.
TestsPass ==
    /\ pc = "test"
    /\ passed' = passed \cup {FixesIn(tree)}
    /\ IF agent = "remediate"
         THEN pc' = "verify" /\ UNCHANGED <<status, current>>
         ELSE Conclude("fixed")
    /\ UNCHANGED <<Asked, source, backups, tree, committed, failures, saves,
                   late, unseen, loose>>

\* The tests fail, run out of time, or cannot be started.
TestsFail ==
    /\ pc = "test"
    /\ pc' = "revert"
    /\ UNCHANGED <<Asked, current, status, source, backups, tree, committed,
                   failures, History>>

\* run_tests raises, as when the output of the tests cannot be decoded.
\* Cleanup notes an error and goes on; the other agent is left.
TestsRaise ==
    /\ pc = "test"
    /\ Fail
    /\ loose' = loose \cup {current}
    /\ IF agent = "cleanup" THEN Conclude("skipped")
       ELSE pc' = "aborted" /\ UNCHANGED <<status, current>>
    /\ UNCHANGED <<Asked, source, backups, tree, committed, saves, late,
                   unseen, passed>>

\* verify_fix: the rules of the batch no longer report the file, or they do, or
\* the analysis has failed.
Verify ==
    /\ pc = "verify"
    /\ \/ Conclude("fixed")
       \/ pc' = "revert" /\ UNCHANGED <<status, current>>
    /\ UNCHANGED <<Asked, source, backups, tree, committed, failures, History>>

\* revert_fix: the backup is forgotten, then written.
Revert ==
    /\ pc = "revert"
    /\ LET f == FileOf[current]
       IN  /\ tree' = [tree EXCEPT ![f] = backups[f]]
           /\ backups' = [backups EXCEPT ![f] = NoText]
    /\ Conclude("reverted")
    /\ UNCHANGED <<Asked, source, committed, failures, History>>

\* Mutant of RevertFails: the revert is tried again.
RevertFailsAndRetries ==
    /\ pc = "revert"
    /\ FailedWrite(FileOf[current])
    /\ backups' = [backups EXCEPT ![FileOf[current]] = NoText]
    /\ loose' = loose \cup {current}
    /\ UNCHANGED <<Asked, pc, current, status, source, committed, saves, late,
                   unseen, passed>>

\* The file is no longer a safe one to write to, or the write fails.  Nobody
\* looks at the result of revert_fix.
RevertFails ==
    /\ pc = "revert"
    /\ FailedWrite(FileOf[current])
    /\ \/ backups' = [backups EXCEPT ![FileOf[current]] = NoText]
       \/ UNCHANGED backups
    /\ loose' = loose \cup {current}
    /\ Conclude("reverted")
    /\ UNCHANGED <<Asked, source, committed, saves, late, unseen, passed>>

\* Mutant of Commit: everything that differs is committed.
CommitAll ==
    /\ pc = "next"
    /\ Pending = {} /\ autoPr /\ Fixed # {}
    /\ committed' = tree
    /\ pc' = "over"
    /\ UNCHANGED <<Asked, current, status, source, backups, tree, failures,
                   History>>

\* commit_fixes adds the files of the batches that are fixed, as they are now,
\* and commits the index: what the user has staged goes with them.
Commit ==
    /\ pc = "next"
    /\ Pending = {} /\ autoPr /\ Fixed # {}
    /\ committed' = [f \in File |-> IF \E t \in Fixed : FileOf[t] = f
                                      THEN tree[f] ELSE staged[f]]
    /\ pc' = "over"
    /\ UNCHANGED <<Asked, current, status, source, backups, tree, failures,
                   History>>

\* There is nothing to commit, or git refuses.
Finish ==
    /\ pc = "next"
    /\ Pending = {}
    /\ pc' = "over"
    /\ UNCHANGED <<Asked, current, status, source, backups, tree, committed,
                   failures, History>>

\* The user interrupts the run, or its process dies, perhaps while it writes,
\* and its memory is gone.
Abort ==
    /\ pc \notin {"over", "aborted"}
    /\ IF pc \in {"writing", "revert"}
         THEN FailedWrite(FileOf[current])
         ELSE Fail /\ UNCHANGED tree
    /\ pc' = "aborted"
    /\ source' = NoText
    /\ backups' = [f \in File |-> NoText]
    /\ UNCHANGED <<Asked, current, status, committed, History>>

\* The user saves a file, on top of what is in it.  A file that a failed write
\* has damaged is left to git.  What he does after the run is not followed.
Save(f) ==
    /\ pc \notin {"over", "aborted"}
    /\ saves[f] < MaxSaves
    /\ tree[f].whole
    /\ saves' = [saves EXCEPT ![f] = @ + 1]
    /\ tree' = [tree EXCEPT ![f].save = saves[f] + 1]
    /\ late' = IF Replacing /\ FileOf[current] = f THEN late \cup {f}
               ELSE late \ {f}
    /\ UNCHANGED <<Asked, pc, current, status, source, backups, committed,
                   failures, unseen, loose, passed>>

\* The user adds a file to the index, as it is on disk.
StageFile(f) ==
    /\ autoPr /\ pc \notin {"over", "aborted"}
    /\ Cardinality({g \in File : staged[g] # NoText}) < MaxStaged
    /\ staged[f] = NoText
    /\ staged' = [staged EXCEPT ![f] = tree[f]]
    /\ UNCHANGED <<agent, autoPr, pc, current, status, source, backups, tree,
                   committed, failures, History>>

Step ==
    \/ Branch \/ (\E t \in Fix : Take(t)) \/ GiveUp \/ TakeBackup \/ Apply
    \/ ApplyFails \/ TestsPass \/ TestsFail \/ TestsRaise \/ Verify \/ Revert
    \/ RevertFails \/ Commit \/ Finish

Next == Step \/ Abort \/ \E f \in File : Save(f) \/ StageFile(f)

Spec == Init /\ [][Next]_vars

\* The model answers or its client gives up, and the tests have 300 seconds.
FairSpec == Spec /\ WF_vars(Step)

-----------------------------------------------------------------------------
(* Properties.                                                             *)

\* In a file that no failed write has damaged are the fixes that are reported
\* as fixed or applied, all of them and no other but the one in hand and those
\* that could not be judged or not be reverted; however many fixes the file
\* has had, and in whatever order they were reverted (executor.py:73-95).
TreeMatchesReport ==
    \A f \in File : tree[f].whole =>
      /\ {t \in Fixed : FileOf[t] = f} \subseteq tree[f].fixes
      /\ tree[f].fixes \subseteq Fixed \cup loose \cup {current}

\* Between two fixes the tests have passed with exactly the fixes that are in
\* the tree, over all its files: it is not enough that each passed by itself.
TestedTogether ==
    pc \in {"next", "over"} /\ loose = {} /\ (\A f \in File : tree[f].whole)
      => FixesIn(tree) \in passed \cup {{}}

\* In a file no failed write has damaged is what the user saved last, up to its
\* line ends, but in two cases: the save came after the backup for a fix and
\* before the decision on it, so that the write or the revert took it along;
\* or the fix was written over a save the model had not seen, and stays.  A save
\* made before the backup is back after a revert, whether the model has seen it
\* or not, however many fixes the file has and whichever are reverted.
EditsSurvive ==
    \A f \in File \ late :
      \/ tree[f].save = saves[f]
      \/ ~tree[f].whole
      \/ \E t \in unseen \cap (Fixed \cup loose \cup {current}) :
           FileOf[t] = f

\* No fix is committed that is not fixed, not even one that was not reverted,
\* but for the fixes the user himself staged with a file.
CommitOnlyFixed ==
    \A f \in File : committed[f] # NoText =>
      committed[f].fixes \subseteq
        Fixed \cup (IF staged[f] = NoText THEN {} ELSE staged[f].fixes)

\* The order of the places where a run stands with one fix.
Stage == [start |-> 0, next |-> 1, fixing |-> 2, writing |-> 3, test |-> 4,
          verify |-> 5, revert |-> 6, over |-> 7, aborted |-> 7]

\* A fix is decided once: whatever the model, the tests, the analysis and the
\* disk do, each step of the run decides a fix or brings the one in hand, or
\* the run, further.  No fix is tried again, so that its report is of its one
\* trial, and a run has at most six steps for each fix, a first and a last.
RunAdvances ==
    [][/\ \A t \in Fix \ Pending : status'[t] = status[t]
       /\ Step => \/ Pending' \subseteq Pending /\ Pending' # Pending
                  \/ Pending' = Pending /\ Stage[pc] < Stage[pc']]_vars

\* A run comes to an end, whatever the model, the tests and the disk do.
RunEnds == <>(pc \in {"over", "aborted"})

=============================================================================
