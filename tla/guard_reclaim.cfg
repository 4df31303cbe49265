CONSTANTS
    None = None
    Process = {p1, p2, p3}
    Inode <- MCInode
    StaleAge = 2
    Timeout = 1
    MaxCrashes = 1
    InodeReuse = FALSE
    ShortBodies = TRUE
SPECIFICATION Spec
PROPERTY ReplacedLockFailsClosed
