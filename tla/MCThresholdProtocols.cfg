CONSTANTS
    m1 = m1
    m2 = m2
    m3 = m3
    Groups <- MCGroups
    Fee <- MCFee
    PoolSize = 1
    MaxInt32 = 9
    AddressCount = 3
    Address <- MCAddress
SPECIFICATION ProtocolFairSpec
INVARIANTS
    PreParamsShownOnce
    NoEarlyStart
    RecoveryAgreement
PROPERTIES
    AttemptsComplete
CHECK_DEADLOCK FALSE
