SPECIFICATION Spec
CONSTANTS
    AuthMode = "static"
    KeyIdentity <- MCKeyIdentity
    Permitted <- MCPermitted
    Missing = Missing
    Req = {r1, r2, r3}
    NoReq = NoReq
    Inputs <- SameKey
    PendingTTL = 2
    ResponseTTL = 3
    HandlerDeadline = 1
    Faults = {"get_err", "set_err", "crash"}
    SeedRecords <- OldRecords
SYMMETRY Symmetry
INVARIANTS
    ClaimExclusive
    AtMostOnce
    OnceInv
PROPERTIES
    CompletedOnlyAges
