CONSTANTS
    h1 = h1
    h2 = h2
    h3 = h3
    Handlers <- MCHandlers
    Keys = {key1}
    NoKey = NoKey
    Confirmations = 2
    BitcoinConfigured = TRUE
    MaxRestarts = 2
    MaxReorgs = 1
SPECIFICATION FairSpec
INVARIANTS
    ArchivedHasEnded
    RecoveredOnce
PROPERTIES
    ClosedIsUnregistered
