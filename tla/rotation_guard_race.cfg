SPECIFICATION Spec
CONSTANTS
    Replica = {p1, p2}
    NoOne = NoOne
    Orphan = Orphan
    LockTTL = 2
    Guard = 3
    RotateDeadline = 1
    Faults = {}
SYMMETRY Symmetry
PROPERTIES
    RotationsApart
