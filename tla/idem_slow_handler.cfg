SPECIFICATION Spec
CONSTANTS
    AuthMode = "static"
    KeyIdentity <- MCKeyIdentity
    Permitted <- MCPermitted
    Missing = Missing
    Req = {r1, r2}
    NoReq = NoReq
    Inputs <- SameKey
    PendingTTL = 2
    ResponseTTL = 3
    HandlerDeadline = 2
    Faults = {}
    SeedRecords <- OldRecords
SYMMETRY Symmetry
INVARIANTS
    ClaimExclusive
