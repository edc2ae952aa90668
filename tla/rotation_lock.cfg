SPECIFICATION Spec
CONSTANTS
    Replica = {p1, p2, p3}
    NoOne = NoOne
    Orphan = Orphan
    LockTTL = 2
    Guard = 3
    RotateDeadline = 1
    Faults = {"get_err", "acquire_err", "acquire_lost", "rotate_err", "set_err", "release_err", "crash"}
SYMMETRY Symmetry
INVARIANTS
    RotationInv
PROPERTIES
    ImplementsMutex
