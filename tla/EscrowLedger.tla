---------------------------- MODULE EscrowLedger ----------------------------
(***************************************************************************)
(* What the marketplace promises about money, transaction by transaction:  *)
(* ether moves between a bidder and the escrow of one token, out of the    *)
(* escrow back to that bidder or to a seller, or from a buyer to a seller, *)
(* and of every sale the royalty recipient gets the floored share.  No     *)
(* transaction does two of these and none does half of one.                *)
(***************************************************************************)
EXTENDS Integers

CONSTANTS Accounts, Tokens, RoyaltyRecipient, RoyaltyBps, Amounts, NoBid

VARIABLES funds, bids

ledgerVars == <<funds, bids>>

Royalty(gross) == (gross * RoyaltyBps) \div 10000

Move(f, a, amount) == [f EXCEPT ![a] = @ + amount]
PaySeller(f, seller, gross) ==
    Move(Move(f, RoyaltyRecipient, Royalty(gross)), seller, gross - Royalty(gross))

PlaceBid(a, t, amount) ==
    /\ amount > bids[t].amount
    /\ bids' = [bids EXCEPT ![t] = [bidder |-> a, amount |-> amount]]
    /\ LET refunded == IF bids[t] = NoBid THEN funds
                       ELSE Move(funds, bids[t].bidder, bids[t].amount)
       IN funds' = Move(refunded, a, -amount)

Withdraw(t) ==
    /\ bids[t] # NoBid
    /\ bids' = [bids EXCEPT ![t] = NoBid]
    /\ funds' = Move(funds, bids[t].bidder, bids[t].amount)

SellToBidder(seller, t) ==
    /\ bids[t] # NoBid
    /\ seller # bids[t].bidder
    /\ bids' = [bids EXCEPT ![t] = NoBid]
    /\ funds' = PaySeller(funds, seller, bids[t].amount)

SellToBuyer(seller, buyer, amount) ==
    /\ funds' = PaySeller(Move(funds, buyer, -amount), seller, amount)
    /\ UNCHANGED bids

LedgerNext ==
    \/ \E a \in Accounts, t \in Tokens, v \in Amounts : PlaceBid(a, t, v)
    \/ \E t \in Tokens : Withdraw(t)
    \/ \E a \in Accounts, t \in Tokens : SellToBidder(a, t)
    \/ \E a, b \in Accounts, v \in Amounts : SellToBuyer(a, b, v)

LedgerSpec == [][LedgerNext]_ledgerVars
=============================================================================
