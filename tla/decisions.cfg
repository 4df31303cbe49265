CONSTANTS
    Process = {p1, p2}
    Decision = {1, 2, 3}
    KeyOf <- MCKeyOf
    NoView = NoView
    NoCall = NoCall
    MaxDecisions = 3
    RecordSize = 2
    RevocationSize = 1
    MaxBundle = 7
SYMMETRY Interchangeable
SPECIFICATION Spec
INVARIANTS
    TypeOK
    AcknowledgedKept
    NeverAmbiguous
PROPERTY ImplementsLedger
