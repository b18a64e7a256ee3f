--------------------------- MODULE PhilMarketplace ---------------------------
(***************************************************************************)
(* contracts/PhilMarketplace.sol: fixed-price offers and escrowed bids for *)
(* the tokens of one ERC721 contract.                                      *)
(*                                                                         *)
(* A call that pays or delivers hands control to other contracts (the      *)
(* receiver's onERC721Received, then each payee), which may call back      *)
(* before the call is over.  So a transaction is not one step: `stack`     *)
(* holds the marketplace calls in progress, each with the payments it      *)
(* still owes, the account in control and the state to restore if it       *)
(* reverts.  A call that reverts before it hands control on is no step.    *)
(*                                                                         *)
(* The token contract (ERC721 of solady) is external: an owner, one        *)
(* per-token approval that a transfer clears, and operators.               *)
(***************************************************************************)
EXTENDS Integers, SequencesExt

CONSTANTS
    Accounts,         \* every account of the model
    Contracts,        \* those with code: they may call back, or refuse payment
    Actors,           \* bound: the accounts that send transactions
    Invitees,         \* bound: toAddressOrZeroForPublic arguments
    Operators,        \* bound: the accounts that ever call setApprovalForAll
    Admin,            \* the marketplace's Ownable owner
    RoyaltyRecipient,
    RoyaltyBps,
    Nobody,           \* address(0)
    Tokens,
    FirstOwner,       \* token -> account it was minted to
    Asks,             \* bound: minPrice arguments
    Amounts,          \* bound: msg.value arguments
    Funds             \* bound: account -> ether it starts with

ASSUME MarketAssumption ==
    /\ Contracts \subseteq Accounts /\ Actors \subseteq Accounts /\ Operators \subseteq Accounts
    /\ Invitees \subseteq Accounts \cup {Nobody}
    /\ Admin \in Accounts /\ RoyaltyRecipient \in Accounts /\ Nobody \notin Accounts
    /\ RoyaltyBps \in 0 .. 1000
    /\ IsFiniteSet(Tokens) /\ FirstOwner \in [Tokens -> Accounts]
    /\ Asks \subseteq Nat /\ Amounts \subseteq Nat
    /\ Funds \in [Accounts -> Nat]

VARIABLES
    tokenOwner, approved, approvedForAll,   \* the token contract's view of the marketplace
    offers, bids, paused,                   \* the marketplace's storage
    balance,                                \* its ether
    funds,                                  \* everyone else's
    asks,                                   \* history: each account's latest ask, until it cancels or sells
    stack                                   \* marketplace calls in progress, innermost last

vars == <<tokenOwner, approved, approvedForAll, offers, bids, paused, balance, funds,
          asks, stack>>
tokenVars == <<tokenOwner, approved, approvedForAll>>

NoOffer == [seller |-> Nobody, minPrice |-> 0, onlySellTo |-> Nobody]
NoBid == [bidder |-> Nobody, amount |-> 0]
NoAsk == [minPrice |-> -1, onlySellTo |-> Nobody]

Offers == [seller : Accounts \cup {Nobody}, minPrice : Asks \cup {0},
           onlySellTo : Accounts \cup {Nobody}]
Bids == [bidder : Accounts \cup {Nobody}, amount : Amounts \cup {0}]
AskRecords == [minPrice : Asks \cup {-1}, onlySellTo : Accounts \cup {Nobody}]

Init ==
    /\ tokenOwner = FirstOwner
    /\ approved = [t \in Tokens |-> FALSE]
    /\ approvedForAll = [a \in Accounts |-> FALSE]
    /\ offers = [t \in Tokens |-> NoOffer]
    /\ bids = [t \in Tokens |-> NoBid]
    /\ paused = FALSE
    /\ balance = 0
    /\ funds = Funds
    /\ asks = [t \in Tokens |-> [a \in Accounts |-> NoAsk]]
    /\ stack = <<>>

(* msg.sender = a: an account sends a transaction, or a contract that a     *)
(* call has handed control to calls back.                                   *)
InControl(a) ==
    IF stack = <<>> THEN a \in Actors
                    ELSE a \in Contracts /\ a = Last(stack).callee

EnteredOnce(a) == Len(stack) <= 1 /\ InControl(a)

(* nonReentrant *)
NotEntered(a) == stack = <<>> /\ InControl(a)

Snapshot == [tokenOwner |-> tokenOwner, approved |-> approved,
             approvedForAll |-> approvedForAll, offers |-> offers, bids |-> bids,
             paused |-> paused, balance |-> balance, funds |-> funds, asks |-> asks]

(* A call moves on to its external calls: first the receiver's hook, if a   *)
(* token was delivered, then the payments in order.                         *)
Call(op, sender, t, seller, gross, callee, payouts) ==
    stack' = Append(stack, [op |-> op, sender |-> sender, token |-> t, seller |-> seller,
                            gross |-> gross, callee |-> callee, payouts |-> payouts,
                            saved |-> Snapshot])

Approved(seller, t) == approved[t] \/ approvedForAll[seller]

(* safeTransferFrom, up to the receiver's hook. *)
Deliver(t, to) ==
    /\ tokenOwner' = [tokenOwner EXCEPT ![t] = to]
    /\ approved' = [approved EXCEPT ![t] = FALSE]
    /\ UNCHANGED approvedForAll

Receive(sender, amount) ==
    /\ funds[sender] >= amount
    /\ funds' = [funds EXCEPT ![sender] = @ - amount]
    /\ balance' = balance + amount

RoyaltyAmount(gross) == (gross * RoyaltyBps) \div 10000
SaleProceeds(seller, gross) ==
    LET royalty == RoyaltyAmount(gross)
        toSeller == <<[to |-> seller, amount |-> gross - royalty]>>
    IN IF royalty = 0 THEN toSeller
       ELSE <<[to |-> RoyaltyRecipient, amount |-> royalty]>> \o toSeller

-----------------------------------------------------------------------------
OfferForSale(a, t, minPrice, onlySellTo) ==
    /\ InControl(a) /\ ~paused
    /\ tokenOwner[t] = a /\ Approved(a, t)
    /\ offers' = [offers EXCEPT ![t] = [seller |-> a, minPrice |-> minPrice,
                                        onlySellTo |-> onlySellTo]]
    /\ asks' = [asks EXCEPT ![t][a] = [minPrice |-> minPrice, onlySellTo |-> onlySellTo]]
    /\ UNCHANGED <<tokenVars, bids, paused, balance, funds, stack>>

CancelOffer(a, t) ==
    /\ InControl(a)
    /\ tokenOwner[t] = a
    /\ offers[t] # NoOffer
    /\ offers' = [offers EXCEPT ![t] = NoOffer]
    /\ asks' = [asks EXCEPT ![t][a] = NoAsk]
    /\ UNCHANGED <<tokenVars, bids, paused, balance, funds, stack>>

OfferListed(t) == offers[t] # NoOffer
OfferStands(t) == offers[t] # NoOffer /\ offers[t].seller = tokenOwner[t]

Anyone(offer, a) == TRUE
Invited(offer, a) == offer.onlySellTo \in {Nobody, a}

Buy(a, t, amount) ==
    LET offer == offers[t]
        seller == tokenOwner[t]
    IN  /\ NotEntered(a) /\ ~paused
        /\ OfferStands(t)
        /\ Invited(offer, a)
        /\ amount >= offer.minPrice
        /\ Approved(seller, t)
        /\ Receive(a, amount)
        /\ offers' = [offers EXCEPT ![t] = NoOffer]
        /\ asks' = [asks EXCEPT ![t][seller] = NoAsk]
        /\ Deliver(t, a)
        /\ Call("buy", a, t, seller, amount, a, SaleProceeds(seller, amount))
        /\ UNCHANGED <<bids, paused>>

(* The previous bidder is refunded in the same call. *)
EnterBid(a, t, amount) ==
    LET previous == bids[t]
    IN  /\ NotEntered(a) /\ ~paused
        /\ tokenOwner[t] # a
        /\ amount > 0 /\ amount > previous.amount
        /\ Receive(a, amount)
        /\ bids' = [bids EXCEPT ![t] = [bidder |-> a, amount |-> amount]]
        /\ Call("enterBid", a, t, Nobody, amount, Nobody,
                IF previous = NoBid THEN <<>>
                ELSE <<[to |-> previous.bidder, amount |-> previous.amount]>>)
        /\ UNCHANGED <<tokenVars, offers, paused, asks>>

OpenAndNotEntered(a) == NotEntered(a) /\ ~paused
MayWithdraw(a) == NotEntered(a)   \* not stopped by a pause

WithdrawBid(a, t) ==
    /\ MayWithdraw(a)
    /\ bids[t] # NoBid /\ bids[t].bidder = a
    /\ bids' = [bids EXCEPT ![t] = NoBid]
    /\ Call("withdrawBid", a, t, Nobody, bids[t].amount, Nobody,
            <<[to |-> a, amount |-> bids[t].amount]>>)
    /\ UNCHANGED <<tokenVars, offers, paused, balance, funds, asks>>

AcceptBid(a, t, minPrice) ==
    LET bid == bids[t]
    IN  /\ NotEntered(a) /\ ~paused
        /\ tokenOwner[t] = a /\ Approved(a, t)
        /\ bid # NoBid
        /\ bid.amount >= minPrice
        /\ bid.bidder # a
        /\ bids' = [bids EXCEPT ![t] = NoBid]
        /\ offers' = [offers EXCEPT ![t] = NoOffer]
        /\ asks' = [asks EXCEPT ![t][a] = NoAsk]
        /\ Deliver(t, bid.bidder)
        /\ Call("acceptBid", a, t, a, bid.amount, bid.bidder, SaleProceeds(a, bid.amount))
        /\ UNCHANGED <<paused, balance, funds>>

SetPaused(a, value) ==
    /\ InControl(a) /\ a = Admin
    /\ paused' = value
    /\ UNCHANGED <<tokenVars, offers, bids, balance, funds, asks, stack>>

-----------------------------------------------------------------------------
(* The rest of a call: the account in control returns and the next payment  *)
(* hands control on, until none is left; or a contract refuses (it reverts, *)
(* or has no hook or no receive function) and the whole call is undone.     *)

PayNext ==
    /\ stack # <<>> /\ Last(stack).payouts # <<>>
    /\ LET call == Last(stack)
           pay == Head(call.payouts)
       IN  /\ balance >= pay.amount
           /\ balance' = balance - pay.amount
           /\ funds' = [funds EXCEPT ![pay.to] = @ + pay.amount]
           /\ stack' = Append(Front(stack), [call EXCEPT !.callee = pay.to,
                                                         !.payouts = Tail(@)])
    /\ UNCHANGED <<tokenVars, offers, bids, paused, asks>>

Finish ==
    /\ stack # <<>> /\ Last(stack).payouts = <<>>
    /\ stack' = Front(stack)
    /\ UNCHANGED <<tokenVars, offers, bids, paused, balance, funds, asks>>

KeepPayments ==
    /\ stack # <<>> /\ Last(stack).callee \in Contracts
    /\ stack' = Front(stack)
    /\ UNCHANGED <<tokenVars, offers, bids, paused, balance, funds, asks>>

Revert ==
    /\ stack # <<>> /\ Last(stack).callee \in Contracts
    /\ LET saved == Last(stack).saved
       IN  /\ tokenOwner' = saved.tokenOwner /\ approved' = saved.approved
           /\ approvedForAll' = saved.approvedForAll
           /\ offers' = saved.offers /\ bids' = saved.bids /\ paused' = saved.paused
           /\ balance' = saved.balance /\ funds' = saved.funds /\ asks' = saved.asks
    /\ stack' = Front(stack)

-----------------------------------------------------------------------------
(* The token contract, called directly. *)

Transfer(a, t, to) ==
    /\ InControl(a) /\ tokenOwner[t] = a
    /\ Deliver(t, to)
    /\ UNCHANGED <<offers, bids, paused, balance, funds, asks, stack>>

Approve(a, t, value) ==
    /\ InControl(a) /\ tokenOwner[t] = a
    /\ approved' = [approved EXCEPT ![t] = value]
    /\ UNCHANGED <<tokenOwner, approvedForAll, offers, bids, paused, balance, funds,
                   asks, stack>>

SetApprovalForAll(a, value) ==
    /\ InControl(a) /\ a \in Operators
    /\ approvedForAll' = [approvedForAll EXCEPT ![a] = value]
    /\ UNCHANGED <<tokenOwner, approved, offers, bids, paused, balance, funds, asks, stack>>

Next ==
    \/ \E a \in Accounts, t \in Tokens :
        \/ \E p \in Asks, to \in Invitees : OfferForSale(a, t, p, to)
        \/ CancelOffer(a, t)
        \/ \E v \in Amounts : Buy(a, t, v) \/ EnterBid(a, t, v) \/ AcceptBid(a, t, v)
        \/ WithdrawBid(a, t)
        \/ \E to \in Actors : Transfer(a, t, to)
        \/ \E value \in BOOLEAN : Approve(a, t, value)
    \/ \E a \in Accounts, value \in BOOLEAN : SetPaused(a, value) \/ SetApprovalForAll(a, value)
    \/ PayNext \/ Finish \/ Revert

Spec == Init /\ [][Next]_vars

(* A call that has started is carried to its end within its transaction,    *)
(* and an account that keeps sending its withdrawal gets it into a block    *)
(* however many other transactions compete with it.                         *)
Fairness ==
    /\ WF_vars(PayNext \/ Finish)
    /\ \A a \in Actors, t \in Tokens : SF_vars(WithdrawBid(a, t))
FairSpec == Spec /\ Fairness

-----------------------------------------------------------------------------
Snapshots == [tokenOwner : [Tokens -> Accounts], approved : [Tokens -> BOOLEAN],
              approvedForAll : [Accounts -> BOOLEAN], offers : [Tokens -> Offers],
              bids : [Tokens -> Bids], paused : BOOLEAN, balance : Nat,
              funds : [Accounts -> Nat], asks : [Tokens -> [Accounts -> AskRecords]]]
Frames == [op : {"buy", "enterBid", "withdrawBid", "acceptBid"}, sender : Accounts,
           token : Tokens, seller : Accounts \cup {Nobody}, gross : Nat,
           callee : Accounts \cup {Nobody},
           payouts : Seq([to : Accounts, amount : Nat]),
           saved : Snapshots]

TypeOK ==
    /\ tokenOwner \in [Tokens -> Accounts]
    /\ approved \in [Tokens -> BOOLEAN]
    /\ approvedForAll \in [Accounts -> BOOLEAN]
    /\ offers \in [Tokens -> Offers]
    /\ bids \in [Tokens -> Bids]
    /\ paused \in BOOLEAN
    /\ balance \in Nat
    /\ funds \in [Accounts -> Nat]
    /\ asks \in [Tokens -> [Accounts -> AskRecords]]
    /\ stack \in Seq(Frames) /\ Len(stack) <= 1

Escrowed(b) == SumFunction([t \in Tokens |-> b[t].amount])
Owed(call) == SumFunction([i \in DOMAIN call.payouts |-> call.payouts[i].amount])

(* At every instant, in the middle of a call too, the contract holds        *)
(* exactly the open bids and what the call in progress still owes: no       *)
(* sequence of bids, refunds, sales, refused payments and callbacks leaves  *)
(* a bidder unpayable or ether without an owner.                            *)
Solvency == balance = Escrowed(bids) + SumFunction([i \in DOMAIN stack |-> Owed(stack[i])])

(* Every purchase is one its seller asked for: the seller is the owner the  *)
(* token leaves, has an ask of its own it never cancelled nor sold on, and  *)
(* the price and the buyer are within it - whatever transfers, offers of    *)
(* other owners and callbacks came between the ask and the purchase.        *)
SoldAsAsked ==
    [][Len(stack') > Len(stack) /\ Last(stack').op = "buy" =>
         LET call == Last(stack')
             ask == asks[call.token][call.seller]
         IN  /\ tokenOwner[call.token] = call.seller
             /\ ask # NoAsk
             /\ ask.minPrice <= call.gross
             /\ ask.onlySellTo \in {Nobody, call.sender}]_vars

(* A marketplace call moves money all at once or not at all, and never two  *)
(* moves in one transaction: what is seen between transactions (the state   *)
(* the call in progress would be undone to) follows EscrowLedger.           *)
CommittedFunds == IF stack = <<>> THEN funds ELSE stack[1].saved.funds
CommittedBids == IF stack = <<>> THEN bids ELSE stack[1].saved.bids
Ledger == INSTANCE EscrowLedger WITH funds <- CommittedFunds, bids <- CommittedBids
ImplementsLedger == Ledger!LedgerSpec

(* A bid is never trapped: its bidder, unless it is a contract that refuses *)
(* ether, gets out for good (not just inside a call that is then undone)    *)
(* while the marketplace is paused, while others bid, and after it has come *)
(* to own the token itself.                                                 *)
BidNotTrapped ==
    \A a \in Actors \ Contracts, t \in Tokens :
        CommittedBids[t].bidder = a ~> CommittedBids[t].bidder # a
=============================================================================
