CONSTANTS
    Handlers <- MCHandlers
    Scenarios <- MCScenarios
    maxActAttempts = 3
    InitialFee = 2
SPECIFICATION TBTCFairSpec
INVARIANTS
    LockIsExact
PROPERTIES
    StopIsConfirmed
    MonitoringEnds
    PubkeyIsRetrieved
CHECK_DEADLOCK FALSE
