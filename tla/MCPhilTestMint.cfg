SPECIFICATION Spec
CONSTANTS
    deployer = deployer
    nextOwner = nextOwner
    nextKey = nextKey
    mint = mint
    factory = factory
    wallet = wallet
    account = account
    zero = zero
    goodTraits = goodTraits
    badTraits = badTraits
    createHash = createHash
    Users <- MCUsers
    ZeroAddress = zero
    Signers <- MCSigners
    Consumers <- MCConsumers
    Recipients = {wallet}
    Destinations <- MCDestinations
    Traits <- MCTraits
    ActionTypes = {0, 2}
    ActionHashes = {createHash}
    SigForms = {"r_s_v", "r_vs"}
    Signable <- MCSignable
    MaxTime = 2
    MaxExpiry = 2
    MaxAttested = 3
    MintContract = mint
    ValidTraits = {goodTraits}
    MaxSupply = 2
INVARIANTS
    TypeOK
    TokensMatchSpentProofs
    SpentProofsAttested
PROPERTIES
    SpentWhileCurrent
CHECK_DEADLOCK FALSE
