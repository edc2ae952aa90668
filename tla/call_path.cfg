SPECIFICATION Spec
CONSTANTS
    Calls = {a, b}
    Environments <- MCEnvironments
    OptionLists <- MCOptionLists
    Contexts <- MCContexts
    Requests <- MCRequests
    FieldLists <- MCFieldLists
    MaxBound = 1
    Grants <- MCGrants
    CertName = "cn"
    Missing = Missing
SYMMETRY Symmetry
CHECK_DEADLOCK FALSE
INVARIANTS
    KeyReachesServer
    NoSecretLogged
    NothingElseLost
    CorrelationFollows
    EveryCallCounted
