----------------------------- MODULE PhilAccount -----------------------------
(***************************************************************************)
(* contracts/PhilAccount.sol: a wallet whose calls need an approval armed  *)
(* beforehand - by a fresh unlock ticket for exactly that call, or, inside *)
(* a userOp, by a live mint proof - and, for the scopes in its mask, a     *)
(* ticket in force when the call is made.                                  *)
(*                                                                         *)
(* A call is the record of its target, function and arguments; that record *)
(* stands for the hash of (target, value, data).  A request is what one    *)
(* execute or executeBatch asks for, and stands for the constraints hash.  *)
(* Other contracts that are called do not call back.  The upgrade of the   *)
(* implementation is left out: what runs then is another program.          *)
(***************************************************************************)
EXTENDS PhilTestMint, UnlockInbox, Sequences

CONSTANTS
    Account,        \* the wallet's address
    EntryPoint,     \* entryPoint()
    OtherMints,     \* contracts, not MintContract, an account may have as its mint target
    AcceptedElsewhere,  \* external: mint calls at those whose proof their own gate accepts
    Requests        \* bound: the requests that are approved or executed

ASSUME WalletAddresses ==
    /\ ZeroAddress \notin {Account, EntryPoint, MintContract} \cup Inboxes \cup OtherMints
    /\ Account # EntryPoint /\ MintContract \notin OtherMints

ASSUME OneCallUnlessBatch == \A r \in Requests : ~r.batch => DOMAIN r.calls = {1}

VARIABLE vault      \* the account's storage, or NotDeployed

NotDeployed == [owners |-> {}]
Deployed == vault # NotDeployed

Single(call) == [batch |-> FALSE, calls |-> <<call>>]
CallsOf(request) == {request.calls[k] : k \in DOMAIN request.calls}
ActionHash(recipient, request) == [recipient |-> recipient, request |-> request]

-----------------------------------------------------------------------------
(* Scopes. *)

OwnerSelectors == {"addOwner", "removeOwner", "setStarkScopeMask", "setLargeSpendWei",
                   "setUnlockInbox", "setProofVerifier"}
TradingScopes == {"TRANSFER_PHIL", "LIST_PHIL", "ACCEPT_BID", "SET_APPROVAL_FOR_ALL",
                  "LARGE_SPEND", "UPGRADE_WALLET"}
MinOwnersForTrading == 2

Configured(v) == v.unlockInbox # ZeroAddress

(* The scope bit a call needs; "none" is a call without a selector. *)
ScopeForCall(v, c) ==
    CASE c.fn = "none" -> {}
      [] c.target = Account /\ c.fn \in OwnerSelectors -> {"OWNER_CHANGE"}
      [] c.target = Account /\ c.fn \in {"upgradeTo", "upgradeToAndCall"} -> {"UPGRADE_WALLET"}
      [] c.fn \in {"approve", "setApprovalForAll"} -> {"SET_APPROVAL_FOR_ALL"}
      [] c.fn \in {"transferFrom", "safeTransferFrom"} -> {"TRANSFER_PHIL"}
      [] c.target = v.philTestMint
           /\ c.fn \in {"offerForSale", "offerForSaleToAddress", "cancelOffer"} -> {"LIST_PHIL"}
      [] c.target = v.philTestMint /\ c.fn = "acceptBid" -> {"ACCEPT_BID"}
      [] c.target = v.philTestMint /\ c.fn \in {"buy", "enterBid"} -> {"LARGE_SPEND"}
      [] c.fn = "transfer" -> {"LARGE_SPEND"}
      [] OTHER -> IF v.largeSpendWei > 0 /\ c.value >= v.largeSpendWei
                  THEN {"LARGE_SPEND"} ELSE {}

Ticket(v) == IF Configured(v) THEN latestTicket[v.unlockInbox] ELSE NoTicket

(* _requireUnlock: a ticket in force, not consumed by its use. *)
Unlocked(v, scope, call) ==
    /\ Configured(v)
    /\ scope \subseteq Ticket(v).scope
    /\ InWindow(Ticket(v))
    /\ Ticket(v).constraints \in {AnyCall, Single(call)}

(* _enforcePolicy *)
PolicyAllows(v, c) ==
    LET scope == ScopeForCall(v, c)
    IN  /\ scope \cap TradingScopes # {} => v.ownerCount >= MinOwnersForTrading
        /\ scope \cap v.starkScopeMask # {} => Unlocked(v, scope, c)

(* _requireAndConsumeFreshUnlockTicket *)
StoredTicket(v, request) ==
    /\ Configured(v)
    /\ InWindow(Ticket(v))
    /\ Ticket(v).constraints = request
FreshTicket(v, request) ==
    /\ Configured(v)
    /\ Ticket(v).nonce > v.lastExecutionApprovalNonce
    /\ InWindow(Ticket(v))
    /\ Ticket(v).constraints = request

-----------------------------------------------------------------------------
(* The account's own functions, called by an owner or by itself. *)

MoreThanNone(v) == v.ownerCount > 0
NotLastOwner(v) == v.ownerCount > 1

Accepts(v, sender, c) ==
    /\ sender \in v.owners
    /\ c.value = 0
    /\ c.fn \in OwnerSelectors \cup {"approveExecutionWithUnlock"}
    /\ c.fn # "setProofVerifier"            \* disabled for good
    /\ c.fn \in OwnerSelectors /\ "OWNER_CHANGE" \in v.starkScopeMask =>
         Unlocked(v, {"OWNER_CHANGE"}, c)
    /\ c.fn = "addOwner" => c.owner \notin v.owners \cup {ZeroAddress}
    /\ c.fn = "removeOwner" => c.owner \in v.owners /\ NotLastOwner(v)
    /\ c.fn = "setUnlockInbox" => c.inbox # ZeroAddress
    /\ c.fn = "approveExecutionWithUnlock" => FreshTicket(v, c.request)

SwitchInboxAfresh(v, inbox) ==
    [v EXCEPT !.unlockInbox = inbox, !.lastExecutionApprovalNonce = 0]
SwitchInbox(v, inbox) == [v EXCEPT !.unlockInbox = inbox]

After(v, c) ==
    CASE c.fn = "addOwner" -> [v EXCEPT !.owners = @ \cup {c.owner}, !.ownerCount = @ + 1]
      [] c.fn = "removeOwner" -> [v EXCEPT !.owners = @ \ {c.owner}, !.ownerCount = @ - 1]
      [] c.fn = "setStarkScopeMask" -> [v EXCEPT !.starkScopeMask = c.mask]
      [] c.fn = "setLargeSpendWei" -> [v EXCEPT !.largeSpendWei = c.amount]
      [] c.fn = "setUnlockInbox" -> SwitchInbox(v, c.inbox)
      [] c.fn = "approveExecutionWithUnlock" ->
           [v EXCEPT !.lastExecutionApprovalNonce = Ticket(v).nonce,
                     !.approved = @ \cup {ActionHash(c.recipient, c.request)}]

(* The calls of a request in order, from the storage v; one that reverts    *)
(* undoes them all.  A call to the account itself has it as msg.sender.     *)
AfterCall(v, done, c) ==
    IF c.target # Account THEN done
    ELSE IF done.ok /\ Accepts(done.v, Account, c)
         THEN [ok |-> TRUE, v |-> After(done.v, c)]
         ELSE [ok |-> FALSE, v |-> v]

Perform(v, request) ==
    LET done[k \in 0 .. Len(request.calls)] ==
          IF k = 0 THEN [ok |-> TRUE, v |-> v]
          ELSE AfterCall(v, done[k - 1], request.calls[k])
    IN done[Len(request.calls)]

KeepApproval(v, hash) == v
ConsumeApproval(v, hash) == [v EXCEPT !.approved = @ \ {hash}]

IsMint(c) == c.target = MintContract /\ c.fn = "mint"
MintsOf(request) == {c \in CallsOf(request) : IsMint(c)}

(* What the calls do at the mint contract; at most one of them is a mint. *)
MintIfAsked(request) ==
    IF MintsOf(request) = {} THEN UNCHANGED <<now, gateVars, mintVars>>
    ELSE \E c \in MintsOf(request) : Mint(c.recipient, c.mintTo, c.traits, c.proof)

(* execute and executeBatch, from the storage v that validation left. *)
Execute(v, sender, request) ==
    LET approved == ConsumeApproval(v, ActionHash(sender, request))
        result == Perform(approved, request)
    IN  /\ sender \in v.owners \cup {EntryPoint}
        /\ ActionHash(sender, request) \in v.approved
        /\ \A c \in CallsOf(request) : PolicyAllows(approved, c)
        /\ result.ok
        /\ vault' = result.v
        /\ MintIfAsked(request)

-----------------------------------------------------------------------------
(* Validation of a userOp. *)

(* _isValidAutoApprovedMint asks the gate of the account's own mint target, *)
(* which is the drop's gate only if the target is the drop's mint.          *)
GateAccepts(c) ==
    IF IsMint(c)
    THEN VerifyBackendProof(MintClaim(c.recipient, c.mintTo, c.traits, c.proof.expiry), c.proof)
    ELSE c \in AcceptedElsewhere

LiveMintProof(signer, c) ==
    /\ c.fn = "mint" /\ c.value = 0
    /\ c.recipient = signer
    /\ c.mintTo = Account
    /\ NotExpired(c.proof)
    /\ GateAccepts(c)

AutoApproves(v, signer, request) ==
    /\ v.philTestMint # ZeroAddress
    /\ ~request.batch
    /\ request.calls[1].target = v.philTestMint
    /\ LiveMintProof(signer, request.calls[1])

(* _validateSignature: the storage it leaves when it returns 0. *)
Validates(v, signer, request) ==
    /\ signer \in v.owners
    /\ \A c \in CallsOf(request) : PolicyAllows(v, c)

Validated(v, signer, request) ==
    IF AutoApproves(v, signer, request)
    THEN [v EXCEPT !.approved = @ \cup {ActionHash(EntryPoint, request)}]
    ELSE v

-----------------------------------------------------------------------------
(* initialize, then initVaultConfig, which anyone may call once: who does   *)
(* chooses the inbox and the mint target.                                   *)

Initialized(firstOwner, largeSpend) ==
    [owners |-> {firstOwner}, ownerCount |-> 1, unlockInbox |-> ZeroAddress,
     philTestMint |-> ZeroAddress, starkScopeMask |-> {}, largeSpendWei |-> largeSpend,
     lastExecutionApprovalNonce |-> 0, approved |-> {}]

InitVaultConfig(v, inbox, mintTarget) ==
    /\ ~Configured(v)
    /\ inbox # ZeroAddress /\ mintTarget # ZeroAddress
    /\ vault' = [v EXCEPT !.unlockInbox = inbox, !.philTestMint = mintTarget]
=============================================================================
