CONSTANTS
    MaxCandidates = 17
    CandidateLimit = 4
    AttemptLimit = 4
    MaxChanges = 1
SPECIFICATION FairSpec
INVARIANTS
    TypeOK
    CandidatesInOrder
    CostsAddUp
    ExhaustedByFailures
PROPERTIES
    ChangeRejectsFile
    CallAdvances
    CallEnds
CHECK_DEADLOCK FALSE
