SPECIFICATION LoggedInSpec
CONSTANTS
    nobody = nobody
    deployer = deployer
    nextKey = nextKey
    mint = mint
    factory = factory
    wallet = wallet
    outsider = outsider
    account = account
    otherAccount = otherAccount
    zero = zero
    goodTraits = goodTraits
    badTraits = badTraits
    createHash = createHash
    Users = {nobody}
    ZeroAddress = zero
    Signers = {deployer}
    Consumers <- MCConsumers
    Recipients <- MCRecipients
    Destinations <- MCDestinations
    Traits = {goodTraits}
    ActionTypes = {2}
    ActionHashes = {createHash}
    SigForms = {"r_s_v"}
    Signable = {}
    MaxTime = 2
    MaxExpiry = 3
    MaxAttested = 3
    MintContract = mint
    ValidTraits = {goodTraits}
    MaxSupply = 2
    Wallets <- MCRecipients
    ChallengeTtl = 1
    SessionTtl = 1
    MaxChallenges = 2
    Handlers = {h1, h2}
    Factory = factory
    SmartAccountOf <- MCAccounts
    AllowedAddress = wallet
    Slots = 2
    MintTtl = 1
INVARIANTS
    ServiceTypeOK
    SlotPerProof
    SponsorshipsBacked
PROPERTIES
    ImplementsDrop
SYMMETRY HandlerSymmetry
CHECK_DEADLOCK FALSE
