CONSTANTS
    h1 = h1
    h2 = h2
    Handlers = {h1}
    Checker = checker
    key1 = key1
    key2 = key2
    Keys <- MCKeys
    NoKey = NoKey
    MaxPubkeyChecks = 1
    MaxPending = 2
    MaxRestarts = 1
    MaxReorgs = 1
SPECIFICATION Spec
INVARIANTS
    GenerationIsNotDuplicated
