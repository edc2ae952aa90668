SPECIFICATION FairSpec
CONSTANTS
    Replica = {p1, p2}
    Tenant = {t1, t2}
    NoTenant = NoTenant
    NoOne = NoOne
    Orphan = Orphan
    LockTTL = 2
    Interval = 1
    PassDeadline = 1
    Faults = {"acquire_err", "acquire_lost", "release_err", "stop", "crash"}
INVARIANTS
    CleanupInv
    ReadyWhileRunning
PROPERTIES
    ImplementsMutex
    StopEndsIt
