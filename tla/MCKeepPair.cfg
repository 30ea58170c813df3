CONSTANTS
    op1 = op1
    op2 = op2
    app = app
    k1 = k1
    k2 = k2
    Accounts <- MCAccounts
    Owners <- MCOwners
    Operators <- MCOperators
    Creators = {factory}
    Factory = factory
    Pools = {pool}
    Pool = pool
    BeneficiaryOf <- MCBeneficiaryOf
    OwnerOf <- MCOwnerOf
    NoAccount = NoAccount
    NoHolder = NoHolder
    NoKey = NoKey
    NoDigest = NoDigest
    Holders <- MCTwoKeeps
    Refs <- MCTwoKeeps
    Keys = {}
    Digests = {}
    InitialWei <- MCRichOperators
    MaxDepth = 2
    MaxTime = 1
    GroupSizes = {1, 2}
    BondRequests = {1}
    Fee = 0
SPECIFICATION Spec
INVARIANTS
    ActiveKeepIsBacked
    EndedKeepHoldsNothing
    SeizureCanContinue
SYMMETRY MCSymmetry
