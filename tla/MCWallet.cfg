SPECIFICATION WalletSpec
CONSTANTS
    backend = backend
    nextKey = nextKey
    alice = alice
    mint = mint
    other = other
    factory = factory
    traits = traits
    zero = zero
    inbox1 = inbox1
    inbox2 = inbox2
    createHash = createHash
    sponsorKey = sponsorKey
    Users <- MCUsers
    ZeroAddress = zero
    Signers <- MCSigners
    Consumers = {mint, factory}
    Recipients = {alice}
    Account = account
    Destinations = {account}
    Traits = {traits}
    ActionTypes = {2}
    ActionHashes = {createHash}
    SigForms = {"r_s_v"}
    Signable <- MCSignable
    MaxTime = 2
    MaxExpiry = 2
    MaxAttested = 2
    MintContract = mint
    ValidTraits = {traits}
    MaxSupply = 2
    Inboxes = {inbox1, inbox2}
    L2Tickets <- MCL2Tickets
    EntryPoint = entryPoint
    OtherMints = {other}
    AcceptedElsewhere <- MCAcceptedElsewhere
    Requests <- MCRequests
    Factory = factory
    FirstOwner = alice
    CreateHash = createHash
    LargeSpend = 1
    VerifyingSigner = sponsorKey
    Sponsorships <- MCSponsorships
    OwnerCalls <- MCOwnerCalls
    MaxOps = 2
INVARIANTS
    WalletTypeOK
    ExecutionsArmed
    NewestTicketInForce
    OpsRunOnce
    SponsoredOpsMinted
PROPERTIES
    EachTicketArmsOnce
CHECK_DEADLOCK FALSE
