CONSTANTS
    w1 = w1
    w2 = w2
    plain = plain
    credential = credential
    None = None
    Content = {"old"}
    Config = {"c"}
    CandidateSets <- MCCandidateSets
    Secret = {credential}
    FindingId = {"f"}
    Model = {"m"}
    Run = {r1, r2, r3}
    RunReuse = FALSE
    Lease = {a, b, c}
    Worker = {w1, w2}
    Scanner = {"s"}
    Verifier = {}
    ModelOf <- MCModelOf
    Investigators = {w1, w2}
    Forcing = {w2}
    IsPython = TRUE
    Timely = TRUE
    LeaseStale = 1
    MaxEdits = 0
    MaxScans = 2
    MaxVerdicts = 0
    MaxCrashes = 1
SPECIFICATION FairSpec
PROPERTY NoClaimForEver
CHECK_DEADLOCK FALSE
