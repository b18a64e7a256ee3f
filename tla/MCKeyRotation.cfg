SPECIFICATION ServiceSpec
CONSTANTS
    nobody = nobody
    deployer = deployer
    nextKey = nextKey
    mint = mint
    factory = factory
    wallet = wallet
    outsider = outsider
    account = account
    otherAccount = otherAccount
    zero = zero
    goodTraits = goodTraits
    badTraits = badTraits
    createHash = createHash
    Users = {deployer}
    ZeroAddress = zero
    Signers <- MCSigners
    Consumers <- MCConsumers
    Recipients <- MCRecipients
    Destinations <- MCDestinations
    Traits <- MCTraits
    ActionTypes = {2}
    ActionHashes = {createHash}
    SigForms = {"r_s_v"}
    Signable <- MCSignable
    MaxTime = 2
    MaxExpiry = 3
    MaxAttested = 3
    MintContract = mint
    ValidTraits = {goodTraits}
    MaxSupply = 1
    Wallets <- MCRecipients
    ChallengeTtl = 1
    SessionTtl = 1
    MaxChallenges = 1
    Handlers = {h1}
    Factory = factory
    SmartAccountOf <- MCAccounts
    AllowedAddress = wallet
    Slots = 1
    MintTtl = 1
INVARIANTS
    TokensGoToAllowedAccount
    AuthTypeOK
    ChallengeOpensItsSession
CHECK_DEADLOCK FALSE
