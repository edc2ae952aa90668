SPECIFICATION FairSpec
CONSTANTS
    Replica = {p1, p2}
    NoOne = NoOne
    Orphan = Orphan
    LockTTL = 2
    Guard = 3
    RotateDeadline = 4
    Faults = {"acquire_lost", "release_err", "crash"}
PROPERTIES
    ReleaseOnlyOwn
    OwnRotationsApart
    KeysKeepRotating
    LockFreed
