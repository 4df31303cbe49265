--------------------------- MODULE AdaptiveBatching ---------------------------
(***************************************************************************)
(* How the processor has one file's candidates examined                    *)
(* (skylos/audit/processor.py, _investigate_candidate_batches): in batches *)
(* of at most CandidateLimit, each batch one call of the investigator, a   *)
(* batch that fails for want of capacity split in two and tried again, all *)
(* within one budget of attempts, and the file's result built only from    *)
(* batches that together cover every candidate.                            *)
(* The candidates of the file are 1 .. count, in the order of the record;  *)
(* a batch is an interval of them.  The recursion of run_adaptive is the   *)
(* explicit stack "work", its top first.  The repository may change at any *)
(* time; its digest is made of modification times, so no digest returns.   *)
(***************************************************************************)
EXTENDS Naturals, Sequences

CONSTANTS
    MaxCandidates,   \* bound: candidates of the file
    CandidateLimit,  \* candidates the investigator takes at once
    AttemptLimit,    \* MAX_INVESTIGATOR_BATCH_ATTEMPTS
    MaxChanges       \* bound: changes of the repository

ASSUME BatchingConstants ==
    /\ MaxCandidates \in Nat
    /\ CandidateLimit \in Nat \ {0}
    /\ AttemptLimit \in Nat
    /\ MaxChanges \in Nat

VARIABLES
    count,        \* how many candidates the record has
    work,         \* batches still to be examined
    phase,        \* "preflight", "ready", "examining", or an outcome
    begun,        \* the repository as the attempt under way found it
    repo,         \* the repository now; 0 is repository_catalog_digest
    completed,    \* batches examined to completion
    attempts,     \* attempts made
    recoverable,  \* failed_attempt_metadata: failures answered by a split
    exhausted     \* the terminal message says the attempt budget is exhausted

vars == <<count, work, phase, begun, repo, completed, attempts, recoverable,
          exhausted>>

-----------------------------------------------------------------------------

Candidates == 1 .. count

\* A batch of no candidates is [first |-> 1, last |-> 0].
Batch == [first : 1 .. MaxCandidates + 1, last : 0 .. MaxCandidates]

Size(batch) == (batch.last + 1) - batch.first

Members(batch) == batch.first .. batch.last

\* _candidate_batches; a file without candidates is examined all the same.
InitialBatches(n) ==
    IF n = 0 THEN << [first |-> 1, last |-> 0] >>
    ELSE [i \in 1 .. (n + CandidateLimit - 1) \div CandidateLimit |->
            [first |-> (i - 1) * CandidateLimit + 1,
             last  |-> IF i * CandidateLimit < n THEN i * CandidateLimit
                       ELSE n]]

\* Mutant of Halves: the candidate in the middle goes to neither.
HalvesSkipping(batch) ==
    LET middle == batch.first + Size(batch) \div 2
    IN << [batch EXCEPT !.last = middle - 1],
          [batch EXCEPT !.first = middle + 1] >>

\* Mutant of Halves: of two candidates the first half is left empty.
HalvesUneven(batch) ==
    LET middle == batch.first + (Size(batch) - 1) \div 2
    IN << [batch EXCEPT !.last = middle - 1], [batch EXCEPT !.first = middle] >>

\* The halves of a batch, the shorter one first.
Halves(batch) ==
    LET middle == batch.first + Size(batch) \div 2
    IN << [batch EXCEPT !.last = middle - 1], [batch EXCEPT !.first = middle] >>

Outcome == {"complete", "failed", "raised"}

\* A call of _investigate_candidate_batches that is still running.
Running == phase \notin Outcome

\* Failed attempts, as the summary of a failure counts them.
FailedAttempts == attempts - Len(completed)

TypeOK ==
    /\ count \in 0 .. MaxCandidates
    /\ work \in Seq(Batch)
    /\ phase \in {"preflight", "ready", "examining"} \cup Outcome
    /\ begun \in 0 .. MaxChanges
    /\ repo \in 0 .. MaxChanges
    /\ completed \in Seq(Batch)
    /\ attempts \in 0 .. AttemptLimit
    /\ recoverable \in Nat
    /\ exhausted \in BOOLEAN

Init ==
    /\ count \in 0 .. MaxCandidates
    /\ work = InitialBatches(count)
    /\ phase = "preflight"
    /\ begun = 0
    /\ repo = 0
    /\ completed = <<>>
    /\ attempts = 0
    /\ recoverable = 0
    /\ exhausted = FALSE

-----------------------------------------------------------------------------

\* An InvestigationIncompleteError that leaves the call.
Fail(outOfBudget) ==
    /\ phase' = "failed"
    /\ exhausted' = outOfBudget
    /\ UNCHANGED <<count, work, begun, repo, completed, attempts, recoverable>>

\* Mutant of Preflight: the budget is not looked at before the first call.
PreflightUnchecked ==
    /\ phase = "preflight"
    /\ phase' = "ready"
    /\ UNCHANGED <<count, work, begun, repo, completed, attempts, recoverable,
                   exhausted>>

\* _assert_batch_preflight_budget
Preflight ==
    /\ phase = "preflight"
    /\ \/ count > 0 /\ Len(work) > AttemptLimit /\ Fail(TRUE)
       \/ /\ count = 0 \/ Len(work) <= AttemptLimit
          /\ phase' = "ready"
          /\ UNCHANGED <<count, work, begun, repo, completed, attempts,
                         recoverable, exhausted>>

\* _can_recover_by_splitting, with its caller's test: only a batch of several
\* candidates, and only a failure that is not one of integrity.
Splittable(capacity) == capacity /\ Size(Head(work)) > 1

\* Mutant of Split: the failure that a split answers is not recorded.
SplitUnrecorded ==
    /\ work' = Halves(Head(work)) \o Tail(work)
    /\ phase' = "ready"
    /\ UNCHANGED <<count, begun, repo, completed, attempts, recoverable,
                   exhausted>>

Split ==
    /\ work' = Halves(Head(work)) \o Tail(work)
    /\ recoverable' = recoverable + 1
    /\ phase' = "ready"
    /\ UNCHANGED <<count, begun, repo, completed, attempts, exhausted>>

\* Mutant of BudgetLeft: one attempt more than the limit.
BudgetLeftInclusive == attempts <= AttemptLimit

BudgetLeft == attempts < AttemptLimit

\* consume_attempt, and the tools' snapshot of the repository.
BeginAttempt ==
    /\ phase = "ready"
    /\ work # <<>>
    /\ BudgetLeft
    /\ attempts' = attempts + 1
    /\ begun' = repo
    /\ phase' = "examining"
    /\ UNCHANGED <<count, work, repo, completed, recoverable, exhausted>>

\* The message of an exhausted budget is no integrity marker: the batch is
\* split down to one candidate before the error leaves.
RefuseAttempt ==
    /\ phase = "ready"
    /\ work # <<>>
    /\ ~BudgetLeft
    /\ IF Splittable(TRUE) THEN Split ELSE Fail(TRUE)

\* "repository changed before investigation started" and every other failure
\* of integrity.
IntegrityFailure ==
    /\ phase = "examining"
    /\ Fail(FALSE)

\* Mutant of CapacityFailure: the same batch again, and the attempt given back.
CapacityFailureRefunded ==
    /\ phase = "examining"
    /\ begun = 0
    /\ phase' = "ready"
    /\ attempts' = attempts - 1
    /\ UNCHANGED <<count, work, begun, repo, completed, recoverable, exhausted>>

\* The investigator ends incomplete: timeouts, token and turn limits.
CapacityFailure ==
    /\ phase = "examining"
    /\ begun = 0
    /\ IF Splittable(TRUE) THEN Split ELSE Fail(FALSE)

\* Any other exception leaves the call, without a summary.
OtherError ==
    /\ phase = "examining"
    /\ phase' = "raised"
    /\ UNCHANGED <<count, work, begun, repo, completed, attempts, recoverable,
                   exhausted>>

\* Mutant of Accepted: the repository is not read again at the end.
AcceptedUnread(covered) ==
    /\ begun = 0
    /\ covered = Members(Head(work))

\* _assert_exact_candidate_coverage, the provenance, and
\* assert_completion_safe, which reads the repository again.
Accepted(covered) ==
    /\ begun = 0
    /\ covered = Members(Head(work))
    /\ repo = begun

\* The investigator reports a complete result for the candidates it covered.
\* (Of a file without candidates the code returns the result at once.)
FinishAttempt ==
    /\ phase = "examining"
    /\ begun = 0
    /\ \E covered \in SUBSET Candidates :
         \/ ~Accepted(covered) /\ Fail(FALSE)
         \/ /\ Accepted(covered)
            /\ work' = Tail(work)
            /\ completed' = Append(completed, Head(work))
            /\ phase' = "ready"
            /\ UNCHANGED <<count, begun, repo, attempts, recoverable,
                           exhausted>>

\* _completed_candidate_batch_result
Conclude ==
    /\ phase = "ready"
    /\ work = <<>>
    /\ phase' = "complete"
    /\ UNCHANGED <<count, work, begun, repo, completed, attempts, recoverable,
                   exhausted>>

\* Somebody edits the repository.
Change ==
    /\ repo < MaxChanges
    /\ repo' = repo + 1
    /\ UNCHANGED <<count, work, phase, begun, completed, attempts, recoverable,
                   exhausted>>

Examine ==
    \/ Preflight \/ BeginAttempt \/ RefuseAttempt
    \/ IntegrityFailure \/ CapacityFailure \/ OtherError
    \/ FinishAttempt \/ Conclude

Next == Examine \/ Change

Spec == Init /\ [][Next]_vars

\* The call runs on; an investigator session ends, having limits of its own.
FairSpec == Spec /\ WF_vars(Examine)

-----------------------------------------------------------------------------
(* Properties.                                                             *)

\* Laid end to end, the batches done and the batches to do are the candidates
\* of the record, in order, none lost and none examined twice, however often
\* batches were split; and none is larger than the investigator takes at once.
Plan == completed \o work

CandidatesInOrder ==
    /\ \A i \in 1 .. Len(Plan) - 1 : Plan[i + 1].first = Plan[i].last + 1
    /\ Plan[1].first = 1 /\ Plan[Len(Plan)].last = count
    /\ count > 0 => \A i \in 1 .. Len(Plan) : Size(Plan[i]) > 0
    /\ \A i \in 1 .. Len(Plan) : Size(Plan[i]) <= CandidateLimit

\* The costs a failure reports leave out no attempt.  When the call ends in a
\* failed attempt, the failed attempts are those answered by a split and this
\* one.  When it ends because the budget ran out, each of them was answered by
\* a split; the splits that were answers to a refusal, and reported as failures
\* though nothing was attempted, are fewer than the candidates of one batch.
CostsAddUp ==
    phase = "failed" =>
      IF exhausted THEN /\ FailedAttempts <= recoverable
                        /\ recoverable < FailedAttempts + CandidateLimit
      ELSE FailedAttempts = recoverable + 1

\* A call whose preflight succeeded runs out of attempts only because of
\* attempts that failed: the preflight reserves one for each initial batch.
ExhaustedByFailures ==
    exhausted /\ attempts > 0 => FailedAttempts > 0

\* "repository changed between candidate batches": once anything changes while
\* a candidate is unexamined, the call can only end in an error, whether the
\* change falls before the first batch, between two, or under one.
ChangeRejectsFile == repo > 0 /\ work # <<>> ~> phase \in {"failed", "raised"}

\* How far a call has come: batches split, batches done, and the phase.
Stage == [preflight |-> 0, ready |-> 1, examining |-> 2,
          complete |-> 3, failed |-> 3, raised |-> 3]

Progress == 2 * (recoverable + Len(completed)) + Stage[phase]

\* A file is divided into one batch for each candidate at most.
MostBatches == IF count = 0 THEN 1 ELSE count

\* Whatever the investigator answers and whatever is left of the budget, each
\* step of the call brings it further, and there is only so far to go: at most
\* four steps for each candidate.  A batch that is split by the refusal of an
\* attempt, which costs nothing, does not make the recursion loop.
CallAdvances ==
    [][/\ Examine => Progress < Progress'
       /\ Progress' <= 4 * MostBatches + 1]_vars

\* The recursion cannot loop: every call ends.
CallEnds == <>(~Running)

=============================================================================
