CONSTANTS
    Services = {"recovery", "registration", "firewall"}
    TerminatedKeeps = {kA, kB}
    NoKeep = NoKeep
    RecoveryCases <- MCRecoveryCases
    estimatedTransactionSizeVByte = 3
    vsize = 3
    recipients = 3
    defaultVbyteFee = 4
    IntBits = 8
    MaxRecoveryFaults = 2
    MaxStandings = 3
    MaxRegistrationFaults = 2
    p1 = p1
    p2 = p2
    Peers = {p1, p2}
    NoPeer = NoPeer
    Validations = {1, 2}
    FirewallCases <- MCFirewallCases
    authorizationCachePeriod = 1
    activeKeepMemberCachePeriod = 1
SPECIFICATION MCSpec
INVARIANTS
    AddressIsFresh
    AdmissionIsRecent
    RefusalIsRecent
PROPERTIES
    RecoveryCompletes
    StatusSettles
CHECK_DEADLOCK FALSE
