SPECIFICATION Spec
CONSTANTS
    Admin = {a1, a2}
    Req = {r1, r2}
    Tenant = {t1, t2}
    Empty = Empty
    Nobody = Nobody
    MaxStacks = 4
    Faults = {"start_err", "shutdown_err"}
SYMMETRY Symmetry
INVARIANTS
    RegistryInv
    OneRunningStack
    CutOffOnlyByDrain
PROPERTIES
    DrainFence
