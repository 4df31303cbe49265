CONSTANTS
    f1 = f1
    f2 = f2
    t1 = t1
    t2 = t2
    t3 = t3
    File = {f1, f2}
    Fix = {t1, t2, t3}
    FileOf <- MCFileOf
    NoFix = NoFix
    NoText = NoText
    MaxSaves = 2
    MaxStaged = 1
    MaxFailures = 1
SPECIFICATION FairSpec
INVARIANTS
    TypeOK
    TreeMatchesReport
    TestedTogether
    EditsSurvive
    CommitOnlyFixed
PROPERTIES
    RunAdvances
    RunEnds
CHECK_DEADLOCK FALSE
