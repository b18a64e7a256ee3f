SPECIFICATION Spec
CONSTANTS
    Accounts = {alice, bob}
    AllowedAddress = alice
    None = None
    Traits = {t1, t2}
    Mintable = {t1}
    MaxSupply = 2
    Slots = 2
    Flows = {f1, f2}
    MaxTroubles = 2
INVARIANTS
    PageTypeOK
    CachedTokenIsItsRecipients
    TokensReachTheirOwner
    SlotsLostOnlyToTrouble
SYMMETRY FlowSymmetry
CHECK_DEADLOCK FALSE
