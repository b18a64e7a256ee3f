SPECIFICATION Spec
CONSTANTS
    deployer = deployer
    nextOwner = nextOwner
    cadence = cadence
    factory = factory
    alice = alice
    bob = bob
    createHash = createHash
    Users <- MCUsers
    ZeroAddress = zero
    Signers <- MCSigners
    Consumers <- MCConsumers
    Recipients <- MCRecipients
    Destinations = {}
    Traits = {}
    ActionTypes = {0, 2, 4, 5}
    ActionHashes <- MCActionHashes
    SigForms = {"r_s_v"}
    Signable <- MCSignable
    MaxTime = 3
    MaxExpiry = 3
    MaxAttested = 3
    CadenceContract = cadence
    Versions = {0, 1}
    MaxSupply = 2
    ReserveCap = 1
    CadenceWindow = 2
INVARIANTS
    CadenceTypeOK
    MintsSpaced
    TokensMatchActions
CHECK_DEADLOCK FALSE
