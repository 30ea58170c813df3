CONSTANTS
    op1 = op1
    op2 = op2
    app = app
    k1 = k1
    k2 = k2
    Accounts <- MCAccounts
    Owners <- MCOwners
    Operators <- MCOperators
    Creators = {factory}
    Factory = factory
    Pools = {pool}
    Pool = pool
    BeneficiaryOf <- MCBeneficiaryOf
    OwnerOf <- MCOwnerOf
    NoAccount = NoAccount
    NoHolder = NoHolder
    NoKey = NoKey
    NoDigest = NoDigest
    Holders <- MCOneKeep
    Refs <- MCOneKeep
    Keys = {key1, key2}
    Digests = {d1, d2}
    InitialWei <- MCRichOwner
    MaxDepth = 2
    MaxTime = 2
    GroupSizes = {0, 2}
    BondRequests = {1}
    Fee = 1
SPECIFICATION Spec
INVARIANTS
    TypeOK
    RewardsSolvency
    PublicKeyAgreement
    OnlyRogueGroupsSlashed
PROPERTIES
    ImplementsLifecycle
CONSTRAINT MCRewardsOrSigning
SYMMETRY MCSymmetry
