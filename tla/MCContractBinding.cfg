CONSTANTS
    c1 = c1
    c2 = c2
    Callers <- MCCallers
    NoCaller = NoCaller
    Scenarios <- MCScenarios
    MaxPrice = 2
    MaxEmptyBlocks = 2
    FirstBlock = 4
    PastBlocks = 2
    BlocksPerTick = 2
    Word = 64
SPECIFICATION BindingFairSpec
INVARIANTS
    OwnNonce
    MinedOnce
PROPERTIES
    NonceIsConsumed
    EventIsHandled
CHECK_DEADLOCK FALSE
