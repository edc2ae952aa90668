SPECIFICATION FairSpec
CONSTANTS
    AuthMode = "mtls"
    KeyIdentity <- MCKeyIdentity
    Permitted <- MCPermitted
    Missing = Missing
    Req = {r1, r2}
    NoReq = NoReq
    Inputs <- SomeMixed
    PendingTTL = 2
    ResponseTTL = 3
    HandlerDeadline = 3
    Faults = {"setnx_err", "setnx_lost", "get_err", "set_err", "crash"}
    SeedRecords <- OldRecords
INVARIANTS
    TypeOK
    ReplayFaithful
    OnlyAdmittedClaim
PROPERTIES
    EventuallyAnswered
    ClaimResolves
