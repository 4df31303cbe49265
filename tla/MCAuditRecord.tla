---------------------------- MODULE MCAuditRecord ----------------------------
(* Instances of AuditRecord for TLC.                                        *)
EXTENDS AuditRecord, TLC

CONSTANTS w1, w2, plain, credential

\* All runs use one model.  A text may hold nothing, a plain candidate, a
\* credential, or both.
MCModelOf == [w \in Worker |-> "m"]
MCCandidateSets == {{plain}, {plain, credential}}
MCTwoSets == {{}, {plain}}
MCThreeSets == {{}, {plain}, {credential}}

Identities ==
    {f @@ g : f \in Permutations(Lease), g \in Permutations(Run)}

\* Workers too, where they have one model, one analyzer and equal options.
Interchangeable ==
    {f @@ g : f \in Identities, g \in Permutations(Worker)}

=============================================================================
