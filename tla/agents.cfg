CONSTANTS
    Thread = {t1, t2}
    Watch = {w}
    Action = {a}
    NoState = NoState
    NoJob = NoJob
    Torn = Torn
    Free = Free
    MaxEdits = 1
    MaxReviews = 1
    MaxClock = 1
    MaxFailures = 1
SPECIFICATION FairSpec
INVARIANTS
    TypeOK
    TriageKept
PROPERTIES
    ReuseIsCurrent
    SnoozesEnd
