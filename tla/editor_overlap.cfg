CONSTANTS
    File = {f1, f2}
    Scan = {s1, s2, s3}
    NoScan = NoScan
    All = All
    NoOutput = NoOutput
    Garbled = Garbled
    NoFinding = NoFinding
    Unknown = Unknown
    MaxSaves = 1
SPECIFICATION Spec
INVARIANTS
    SaveRefreshes
CHECK_DEADLOCK FALSE
