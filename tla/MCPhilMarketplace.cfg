SPECIFICATION Spec
CONSTANTS
    alice = alice
    bob = bob
    eve = eve
    artist = artist
    token = token
    Nobody = Nobody
    Accounts = {alice, bob, eve, artist}
    Contracts = {eve}
    Actors = {alice, bob, eve}
    Operators = {alice}
    Admin = bob
    RoyaltyRecipient = artist
    RoyaltyBps = 1000
    Tokens = {token}
    FirstOwner <- MCFirstOwner
    Asks = {5}
    Invitees = {Nobody}
    Amounts = {5, 10}
    Funds <- MCFunds
INVARIANTS
    TypeOK
    Solvency
PROPERTIES
    ImplementsLedger
    SoldAsAsked
CHECK_DEADLOCK FALSE
