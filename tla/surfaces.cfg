CONSTANTS
    p1 = p1
    p2 = p2
    e1 = e1
    e2 = e2
    None = None
    Process = {p1, p2}
    Inode = {i1, i2}
    StaleAge = 2
    Timeout = 1
    MaxCrashes = 1
    Module = {m1, m2}
    Env = {e1, e2}
    Environments <- MCEnvironments
    Nothing = Nothing
    MaxCaptures = 2
SPECIFICATION CacheSpec
INVARIANTS
    CacheTypeOK
    OneEnvironment
PROPERTIES
    ImplementsStoreLock
    
    
