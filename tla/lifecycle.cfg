SPECIFICATION FairSpec
CONSTANTS
    Hosts <- MCHosts
    Rpc = {c1, c2}
    RetryMaxWait = 2
    DrainLimit = 1
    Budget = 3
    Faults = {"otel_err", "tenant_err", "backfill_err", "listen_err", "serve_err", "shutdown_err"}
CHECK_DEADLOCK FALSE
INVARIANTS
    TypeOK
    GuardedService
    GrantsExact
    CallsSurviveShutdown
    EndpointsOutliveCalls
PROPERTIES
    StartupDecides
    ShutdownCompletes
