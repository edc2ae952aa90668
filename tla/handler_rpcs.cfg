SPECIFICATION Spec
CONSTANTS
    Req = {r1, r2, r3}
    NoReq = NoReq
    Inputs <- SessionInputs
    OldTokens <- MCOldTokens
    Faults = {"audit_down", "record_err", "no_tenant", "lib_err", "refresh_race", "crash"}
SYMMETRY Symmetry
INVARIANTS
    TypeOK
    AckedRevocation
    AuditSound
    OneLivePerSession
