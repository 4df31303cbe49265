CONSTANTS
    w1 = w1
    w2 = w2
    plain = plain
    credential = credential
    None = None
    Content = {"old", "new"}
    Config = {"c"}
    CandidateSets <- MCThreeSets
    Secret = {credential}
    FindingId = {"f"}
    Model = {"m"}
    Run = {r1, r2}
    RunReuse = TRUE
    Lease = {a, b, c}
    Worker = {w1, w2}
    Scanner = {"s"}
    Verifier = {"v"}
    ModelOf <- MCModelOf
    Investigators = {w1, w2}
    Forcing = {}
    IsPython = TRUE
    Timely = FALSE
    LeaseStale = 1
    MaxEdits = 1
    MaxScans = 2
    MaxVerdicts = 1
    MaxCrashes = 0
SYMMETRY Interchangeable
SPECIFICATION Spec
INVARIANTS
    TypeOK
    CommitLosesNothing
    AnalyzedAsRecorded
PROPERTIES
    OriginKept
    HistoryGrows
    CompleteIsCurrent
CHECK_DEADLOCK FALSE
