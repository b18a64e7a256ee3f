SPECIFICATION FairSpec
CONSTANTS
    alice = alice
    bob = bob
    eve = eve
    artist = artist
    token = token
    Nobody = Nobody
    Accounts = {alice, bob, eve, artist}
    Contracts = {eve}
    Actors = {alice, bob, eve}
    Operators = {alice}
    Admin = bob
    RoyaltyRecipient = artist
    RoyaltyBps = 0
    Tokens = {token}
    FirstOwner <- MCFirstOwner
    Asks = {4}
    Invitees = {eve}
    Amounts = {4, 5}
    Funds <- MCSmallFunds
PROPERTIES
    SoldAsAsked
    BidNotTrapped
CHECK_DEADLOCK FALSE
