CONSTANTS
    op1 = op1
    op2 = op2
    tokenOwner = tokenOwner
    Accounts <- MCAccounts
    Operators <- MCOperators
    Holders = {h1, h2}
    Refs = {r1}
    Creators = {factory}
    Pools = {pool}
    BeneficiaryOf <- MCBeneficiaryOf
    OwnerOf <- MCOwnerOf
    NoAccount = NoAccount
    NoHolder = NoHolder
    InitialWei <- MCInitialWei
    MaxDepth = 2
SPECIFICATION BondingSpec
INVARIANTS
    Solvency
