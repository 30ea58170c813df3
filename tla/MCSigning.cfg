SPECIFICATION FairSpec
CONSTANTS
    m1 = m1
    m2 = m2
    Members <- MCMembers
    NoMember = NoMember
    Confirmations = 1
    MaxRestarts = 1
    MaxReorgs = 1
INVARIANTS
    DeduplicatorIsExact
    SignsOnlyRequested
    SignatureStays
PROPERTIES
    RequestIsServed
