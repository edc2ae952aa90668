SPECIFICATION Spec
CONSTANTS
    Req = {r1}
    NoReq = NoReq
    Inputs <- MCInputs
    OldTokens <- MCOldTokens
    Faults = {"record_err"}
SYMMETRY Symmetry
INVARIANTS
    NoAuditGap
