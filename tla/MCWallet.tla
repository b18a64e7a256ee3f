------------------------------ MODULE MCWallet ------------------------------
(* A small instance of UserOps: the wallet of alice, which may become its   *)
(* own second owner, two inboxes with overlapping nonces, a mint target     *)
(* besides the drop's, a mint request at each, a token transfer and a batch *)
(* that manages the account.                                                *)
EXTENDS UserOps

CONSTANTS backend, nextKey, alice, mint, other, factory, traits, zero, inbox1, inbox2,
          createHash, sponsorKey

MCUsers == {backend}
MCSigners == {backend, nextKey}
MintClaimOf == [kind |-> "mint", recipient |-> alice, mintTo |-> Account, traits |-> traits,
                expiry |-> 1]
MCSignable == {MintClaimOf,
    [kind |-> "action", recipient |-> alice, actionType |-> 2, actionHash |-> createHash,
     expiry |-> 0]}

MCProof == [expiry |-> 1, factHash |-> FactHash(MintClaimOf),
            signature |-> [by |-> backend, over |-> MintClaimOf, form |-> "r_s_v"]]
MintCall == [target |-> mint, fn |-> "mint", value |-> 0, recipient |-> alice,
             mintTo |-> Account, traits |-> traits, proof |-> MCProof]
MintElsewhere == [MintCall EXCEPT !.target = other]
MCAcceptedElsewhere == {MintElsewhere}
Transfer == [target |-> mint, fn |-> "transferFrom", value |-> 0]
MoveInbox == [target |-> Account, fn |-> "setUnlockInbox", value |-> 0, inbox |-> inbox2]

MintRequest == Single(MintCall)
ForeignRequest == Single(MintElsewhere)
TransferRequest == Single(Transfer)
BatchRequest == [batch |-> TRUE, calls |-> <<MoveInbox, Transfer>>]
MCRequests == {MintRequest, ForeignRequest, TransferRequest, BatchRequest}

Approve(recipient, request) ==
    [target |-> Account, fn |-> "approveExecutionWithUnlock", value |-> 0,
     recipient |-> recipient, request |-> request]
AddOwner(o) == [target |-> Account, fn |-> "addOwner", value |-> 0, owner |-> o]
MCOwnerCalls ==
    {AddOwner(Account), MoveInbox,
     [target |-> Account, fn |-> "removeOwner", value |-> 0, owner |-> alice],
     [target |-> Account, fn |-> "setStarkScopeMask", value |-> 0, mask |-> {"TRANSFER_PHIL"}],
     Approve(EntryPoint, TransferRequest), Approve(alice, BatchRequest)}

TicketOf(n, constraints, scope) ==
    [nonce |-> n, validAfter |-> 0, validUntil |-> 0, scope |-> scope, constraints |-> constraints]
MCL2Tickets ==
    [i \in {inbox1, inbox2} |->
        IF i = inbox1
        THEN {TicketOf(1, TransferRequest, {"TRANSFER_PHIL"}), TicketOf(2, BatchRequest, {})}
        ELSE {TicketOf(2, TransferRequest, {"TRANSFER_PHIL"}),
              [TicketOf(3, AnyCall, {"TRANSFER_PHIL"}) EXCEPT !.validAfter = 1, !.validUntil = 1]}]

MCSponsorships ==
    {[by |-> sponsorKey, nonce |-> n, request |-> r] : n \in {0}, r \in {MintRequest, TransferRequest}}
=============================================================================
