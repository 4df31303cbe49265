--------------------------- MODULE DecisionLedger ---------------------------
(***************************************************************************)
(* What authoring local review decisions promises: the decisions change    *)
(* one at a time, each on top of the one before, and a decision is either  *)
(* whole or not there.  Once a lock is old enough to be reclaimed all that *)
(* is left is that no finding has two decisions that hide it.              *)
(***************************************************************************)
CONSTANTS
    Decision,  \* the decision ids
    KeyOf      \* [Decision -> key]: the v2 identity of the reviewed finding

VARIABLES
    decisions,  \* what has become of each decision
    overdue     \* has a lock been there long enough to be reclaimed?

vars == <<decisions, overdue>>

Status == {"absent", "standing", "revoked"}

\* The decisions with one more, which supersedes every standing decision on
\* the same finding.
Superseded(ds, d) ==
    [e \in Decision |->
       IF e = d THEN "standing"
       ELSE IF ds[e] = "standing" /\ KeyOf[e] = KeyOf[d] THEN "revoked"
       ELSE ds[e]]

\* No finding has two standing decisions: a second one would make the match
\* ambiguous and the finding visible again.
OnePerKey(ds) ==
    \A d, e \in Decision :
      ds[d] = "standing" /\ ds[e] = "standing" /\ KeyOf[d] = KeyOf[e] => d = e

Init ==
    /\ decisions = [d \in Decision |-> "absent"]
    /\ overdue = FALSE

Record(d) ==
    /\ decisions[d] = "absent"
    /\ decisions' = Superseded(decisions, d)
    /\ UNCHANGED overdue

Restore(d) ==
    /\ decisions[d] = "standing"
    /\ decisions' = [decisions EXCEPT ![d] = "revoked"]
    /\ UNCHANGED overdue

BecomeOverdue == overdue' = TRUE /\ UNCHANGED decisions

\* A writer that was robbed of its lock saves what it read before the robbery.
Lapse ==
    /\ overdue
    /\ decisions' \in [Decision -> Status]
    /\ OnePerKey(decisions')
    /\ UNCHANGED overdue

Next ==
    \/ \E d \in Decision : Record(d) \/ Restore(d)
    \/ BecomeOverdue
    \/ Lapse

Spec == Init /\ [][Next]_vars

=============================================================================
