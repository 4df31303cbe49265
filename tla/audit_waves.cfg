CONSTANTS
    w1 = w1
    w2 = w2
    plain = plain
    credential = credential
    None = None
    Content = {"old"}
    Config = {"c"}
    CandidateSets <- MCTwoSets
    Secret = {credential}
    FindingId = {"f"}
    Model = {"m"}
    Run = {r1, r2, r3}
    RunReuse = FALSE
    Lease = {a, b, c}
    Worker = {w1, w2}
    Scanner = {"s"}
    Verifier = {"v"}
    ModelOf <- MCModelOf
    Investigators = {w1}
    Forcing = {}
    IsPython = FALSE
    Timely = FALSE
    LeaseStale = 1
    MaxEdits = 0
    MaxScans = 1
    MaxVerdicts = 0
    MaxCrashes = 0
SPECIFICATION Spec
PROPERTY WavesKept
CHECK_DEADLOCK FALSE
