----------------------------- MODULE MintService -----------------------------
(***************************************************************************)
(* The attestation server (server-ts/src) beside the chain it signs for.   *)
(* POST /request-mint trades an allowlist slot for a signed mint claim,    *)
(* POST /sign-paymaster sponsors the gas of the userOp that spends it.     *)
(* Node runs one callback at a time: a handler is atomic from one await to *)
(* the next and anything may happen in between - other handlers, the       *)
(* caller's own transactions, a key rotation, a crash.  SQLite statements  *)
(* and transactions are synchronous and durable.                           *)
(*                                                                         *)
(* Taken with ALLOWLIST_MODE=single_address; the in-memory developer       *)
(* allowlist is left out.                                                  *)
(***************************************************************************)
EXTENDS PhilTestMint, AuthSession

CONSTANTS
    Handlers,       \* requests the server can have in flight
    Factory,        \* PHIL_ACCOUNT_FACTORY
    SmartAccountOf, \* getPhilAddress: the deterministic account of a wallet
    AllowedAddress, \* ALLOWLIST_SINGLE_ADDRESS
    Slots,          \* ALLOWLIST_SLOTS_PER_DROP
    MintTtl         \* mintTtlSeconds

ASSUME ServiceBounds ==
    /\ Wallets \subseteq Recipients
    /\ SmartAccountOf \in [Wallets -> Destinations]
    /\ AllowedAddress \in Wallets
    /\ Slots \in Nat \ {0} /\ MintTtl \in Nat \ {0}
    /\ MaxTime + MintTtl <= MaxExpiry

VARIABLES
    up,             \* the process is running
    backendKey,     \* ALLOWLIST_SIGNER_KEY it was started with
    remaining,      \* table allowlist_entitlements: NoRow or the slots left
    issued,         \* table issued_mint_proofs
    handler,        \* where each request in flight stands
    sponsorships,   \* paymaster signatures handed out
    granted         \* history: every mint proof a slot was spent on

serviceVars == <<up, backendKey, remaining, issued, handler, sponsorships, granted>>
chainVars == <<gateVars, mintVars>>

NoRow == Slots + 1
ProofIds == 1 .. Slots

Idle == [at |-> "idle"]
Requests ==
    [at : {"resolve"}, recipient : Wallets, traits : Traits]
    \cup [at : {"persist"}, claim : MintClaims]
    \cup [at : {"reply"}, claim : MintClaims, by : Signers]
    \cup [at : {"signer", "nullifier", "lock", "answer"}, id : ProofIds,
          claim : MintClaims, userOp : MintClaims, start : Times]

IssuedProofs == [id : ProofIds, claim : MintClaims, paymasterSigned : BOOLEAN,
                 used : BOOLEAN]
GrantedProofs == [id : ProofIds, claim : MintClaims]
Sponsorships == [id : ProofIds, userOp : MintClaims, validAfter : Times]

Stay == UNCHANGED <<up, backendKey>>
HandlerMoves(h, record) == handler' = [handler EXCEPT ![h] = record]

-----------------------------------------------------------------------------
(* POST /request-mint, kind "mint". *)

(* The bearer token is checked once, before the first await.  The schema    *)
(* lets traits through that the contract will refuse.                       *)
RequestMint(h, s, recipient, traits) ==
    /\ up /\ handler[h] = Idle
    /\ GetAuthSession(s)
    /\ s.recipient = recipient
    /\ HandlerMoves(h, [at |-> "resolve", recipient |-> recipient, traits |-> traits])
    /\ Stay
    /\ UNCHANGED <<now, chainVars, remaining, issued, sponsorships, granted>>

(* resolveSmartAccount answers; expiry and claim are fixed, then signed. *)
ResolveSmartAccount(h) ==
    /\ up /\ handler[h].at = "resolve"
    /\ HandlerMoves(h, [at |-> "persist",
                        claim |-> MintClaim(handler[h].recipient,
                                            SmartAccountOf[handler[h].recipient],
                                            handler[h].traits, now + MintTtl)])
    /\ Stay
    /\ UNCHANGED <<now, authVars, chainVars, remaining, issued, sponsorships, granted>>

SlotsLeft == IF remaining = NoRow THEN Slots ELSE remaining
ProofId == Cardinality(granted) + 1   \* random in the code, fresh here

CreateNoRow(claim) == UNCHANGED <<issued, granted>>
CreateIssuedMintProof(claim) ==
    /\ issued' = issued \cup {[id |-> ProofId, claim |-> claim,
                               paymasterSigned |-> FALSE, used |-> FALSE]}
    /\ granted' = granted \cup {[id |-> ProofId, claim |-> claim]}

AnyoneWithSlots(recipient) == SlotsLeft > 0
AllowedAtAll(recipient) == recipient = AllowedAddress
MayConsume(recipient) == recipient = AllowedAddress /\ SlotsLeft > 0

(* ensureDrop, then one transaction: a conditional decrement and the row. *)
ConsumeMintAndPersistProof(h) ==
    /\ up /\ handler[h].at = "persist"
    /\ MayConsume(handler[h].claim.recipient)
    /\ remaining' = SlotsLeft - 1
    /\ CreateIssuedMintProof(handler[h].claim)
    /\ HandlerMoves(h, [at |-> "reply", claim |-> handler[h].claim, by |-> backendKey])
    /\ Stay
    /\ UNCHANGED <<now, authVars, chainVars, sponsorships>>

(* ALLOWLIST_ADDRESS_NOT_ALLOWED or ALLOWLIST_EXHAUSTED. *)
RefuseMint(h) ==
    /\ up /\ handler[h].at = "persist"
    /\ ~MayConsume(handler[h].claim.recipient)
    /\ UNCHANGED remaining   \* no row is created: an exhausted one exists
    /\ HandlerMoves(h, Idle)
    /\ Stay
    /\ UNCHANGED <<now, authVars, chainVars, issued, sponsorships, granted>>

(* The response reaches the caller, who now holds the proof. *)
ReplyMint(h) ==
    /\ up /\ handler[h].at = "reply"
    /\ attested' = attested \cup {[by |-> handler[h].by, over |-> handler[h].claim]}
    /\ HandlerMoves(h, Idle)
    /\ Stay
    /\ UNCHANGED <<now, authVars, owner, authorizedCaller, allowlistSigner,
                   nullifierUsed, mintVars, remaining, issued, sponsorships, granted>>

(* POST /request-mint, kind "action": an account-creation proof with the    *)
(* caller's hash and expiry costs no slot.                                  *)
ActionAccountCreate == 2
RequestActionProof(s, claim) ==
    /\ up
    /\ GetAuthSession(s)
    /\ claim.kind = "action" /\ claim.actionType = ActionAccountCreate
    /\ claim.recipient = s.recipient
    /\ Attest(backendKey, claim)
    /\ UNCHANGED <<mintVars, serviceVars>>

-----------------------------------------------------------------------------
(* POST /sign-paymaster. *)

LiveProofs == {r \in issued : r.claim.expiry >= now}

(* Token, then getIssuedMintProof (which purges), then the checks on the    *)
(* row; the row read here is the one every later step works with.           *)
RequestSponsorship(h, s, r, userOp) ==
    /\ up /\ handler[h] = Idle
    /\ GetAuthSession(s)
    /\ issued' = LiveProofs
    /\ r \in LiveProofs
    /\ ~r.paymasterSigned /\ ~r.used
    /\ r.claim.recipient = s.recipient
    /\ HandlerMoves(h, [at |-> "signer", id |-> r.id, claim |-> r.claim,
                        userOp |-> userOp, start |-> now])
    /\ Stay
    /\ UNCHANGED <<now, chainVars, remaining, sponsorships, granted>>

(* A valid token, but no such row or one that is refused. *)
RefuseSponsorship(s) ==
    /\ up
    /\ GetAuthSession(s)
    /\ issued' = LiveProofs
    /\ Stay
    /\ UNCHANGED <<now, chainVars, remaining, handler, sponsorships, granted>>

(* ProofGate.allowlistSigner() answers; any other key is refused with 503.  *)
(* The code of the sender and the initCode are checked next, over reads of  *)
(* the chain that change nothing: they refuse (Abort) or let the request go *)
(* on.                                                                      *)
ReadAllowlistSigner(h) ==
    /\ up /\ handler[h].at = "signer"
    /\ allowlistSigner = backendKey
    /\ HandlerMoves(h, [handler[h] EXCEPT !.at = "nullifier"])
    /\ Stay
    /\ UNCHANGED <<now, authVars, chainVars, remaining, issued, sponsorships, granted>>

NullifierOf(claim) ==
    MintNullifier(claim.recipient, claim.mintTo, claim.traits, FactHash(claim))

UnexpiredProof(h) ==
    handler[h].claim.expiry = 0 \/ handler[h].start <= handler[h].claim.expiry

(* The decoded calldata is one execute() of one mint() with the row's own  *)
(* recipient, account, traits and proof.                                   *)
UserOpMatchesProof(h) ==
    /\ handler[h].userOp = handler[h].claim
    /\ UnexpiredProof(h)

(* ProofGate.isMintNullifierSpent() answers false. *)
ReadUnspentNullifier(h) ==
    /\ up /\ handler[h].at = "nullifier"
    /\ UserOpMatchesProof(h)
    /\ NullifierOf(handler[h].claim) \notin nullifierUsed
    /\ HandlerMoves(h, [handler[h] EXCEPT !.at = "lock"])
    /\ Stay
    /\ UNCHANGED <<now, authVars, chainVars, remaining, issued, sponsorships, granted>>

(* ... or true: markIssuedMintProofUsed, then 409. *)
ReadSpentNullifier(h) ==
    /\ up /\ handler[h].at = "nullifier"
    /\ UserOpMatchesProof(h)
    /\ NullifierOf(handler[h].claim) \in nullifierUsed
    /\ issued' = {IF r.id = handler[h].id THEN [r EXCEPT !.used = TRUE] ELSE r : r \in issued}
    /\ HandlerMoves(h, Idle)
    /\ Stay
    /\ UNCHANGED <<now, authVars, chainVars, remaining, sponsorships, granted>>

AnyRow(h) == TRUE
NotYetSigned(h) == \E r \in issued : r.id = handler[h].id /\ ~r.paymasterSigned

(* The paymaster's policy view and getHash have answered and the hash is    *)
(* signed; the signature is released only if this UPDATE changed a row.     *)
MarkPaymasterSigned(h) ==
    /\ up /\ handler[h].at = "lock"
    /\ NotYetSigned(h)
    /\ issued' = {IF r.id = handler[h].id THEN [r EXCEPT !.paymasterSigned = TRUE] ELSE r :
                    r \in issued}
    /\ HandlerMoves(h, [handler[h] EXCEPT !.at = "answer"])
    /\ Stay
    /\ UNCHANGED <<now, authVars, chainVars, remaining, sponsorships, granted>>

AnswerSponsorship(h) ==
    /\ up /\ handler[h].at = "answer"
    /\ sponsorships' = sponsorships \cup
         {[id |-> handler[h].id, userOp |-> handler[h].userOp, validAfter |-> handler[h].start]}
    /\ HandlerMoves(h, Idle)
    /\ Stay
    /\ UNCHANGED <<now, authVars, chainVars, remaining, issued, granted>>

-----------------------------------------------------------------------------
(* GET and POST /eligibility for the allowed address create its row. *)
GetEligibility ==
    /\ up
    /\ remaining' = SlotsLeft
    /\ UNCHANGED <<now, authVars, chainVars, up, backendKey, issued, handler,
                   sponsorships, granted>>

(* Any request may end at an await: an RPC that fails, a check that refuses *)
(* (4xx, 503), a client that is gone when the response is written.          *)
Abort(h) ==
    /\ up /\ handler[h] # Idle
    /\ HandlerMoves(h, Idle)
    /\ Stay
    /\ UNCHANGED <<now, authVars, chainVars, remaining, issued, sponsorships, granted>>

Crash ==
    /\ up
    /\ up' = FALSE
    /\ handler' = [h \in Handlers |-> Idle]
    /\ UNCHANGED <<now, authVars, chainVars, backendKey, remaining, issued,
                   sponsorships, granted>>

(* startServer refuses to run with a key the gate does not name, or before  *)
(* the gate lets the mint and the factory spend proofs.                     *)
Boot(k) ==
    /\ ~up
    /\ k = allowlistSigner
    /\ {MintContract, Factory} \subseteq authorizedCaller
    /\ up' = TRUE /\ backendKey' = k
    /\ UNCHANGED <<now, authVars, chainVars, remaining, issued, handler,
                   sponsorships, granted>>

(* Transactions: the gate's admin, and mints and account creations by       *)
(* whoever holds a released proof.                                          *)
MintOnChain ==
    \E r \in Recipients, d \in Destinations, tr \in Traits, p \in PresentableProofs :
        Mint(r, d, tr, p)
CreateAccountOnChain ==
    /\ \E r \in Recipients, hash \in ActionHashes, p \in PresentableProofs :
         VerifyActionAndConsume(Factory, r, ActionAccountCreate, hash, p)
    /\ UNCHANGED mintVars
ChainStep ==
    /\ \/ GateAdmin /\ UNCHANGED mintVars
       \/ MintOnChain
       \/ CreateAccountOnChain
    /\ UNCHANGED <<authVars, serviceVars>>

ServiceStep ==
    \/ up /\ AuthStep /\ UNCHANGED <<now, chainVars, serviceVars>>
    \/ \E s \in sessions :
        \/ RefuseSponsorship(s)
        \/ \E c \in Signable : RequestActionProof(s, c)
    \/ \E h \in Handlers :
        \/ \E s \in sessions :
            \/ \E tr \in Traits : RequestMint(h, s, s.recipient, tr)
            \/ \E r \in issued, g \in granted : RequestSponsorship(h, s, r, g.claim)
        \/ ResolveSmartAccount(h) \/ ConsumeMintAndPersistProof(h) \/ RefuseMint(h)
        \/ ReplyMint(h)
        \/ ReadAllowlistSigner(h) \/ ReadUnspentNullifier(h) \/ ReadSpentNullifier(h)
        \/ MarkPaymasterSigned(h) \/ AnswerSponsorship(h)
        \/ Abort(h)
    \/ GetEligibility
    \/ Crash
    \/ \E k \in Signers : Boot(k)

ServiceInit ==
    /\ Init /\ AuthInit
    /\ up = FALSE /\ backendKey = allowlistSigner
    /\ remaining = NoRow /\ issued = {}
    /\ handler = [h \in Handlers |-> Idle]
    /\ sponsorships = {} /\ granted = {}

ServiceNext == ServiceStep \/ ChainStep
allVars == <<now, authVars, chainVars, serviceVars>>
ServiceSpec == ServiceInit /\ [][ServiceNext]_allVars

-----------------------------------------------------------------------------
ServiceTypeOK ==
    /\ TypeOK /\ AuthTypeOK
    /\ up \in BOOLEAN /\ backendKey \in Signers
    /\ remaining \in 0 .. NoRow
    /\ issued \subseteq IssuedProofs
    /\ handler \in [Handlers -> Requests \cup {Idle}]
    /\ sponsorships \subseteq Sponsorships
    /\ granted \subseteq GrantedProofs

(* The slots the database has spent, the tokens on the chain and the        *)
(* sponsorships handed out together behave as AllowlistDrop says, across    *)
(* concurrent requests, retries, lost responses, crashes and key rotations. *)
Drop == INSTANCE AllowlistDrop WITH
    granted <- Slots - SlotsLeft,
    redeemed <- totalSupply,
    sponsored <- Cardinality(sponsorships)
ImplementsDrop == Drop!DropSpec

(* A slot is spent exactly when a proof row is written: neither can happen  *)
(* without the other, and a row the server still keeps is one it granted.   *)
SlotPerProof ==
    /\ Cardinality(granted) = Slots - SlotsLeft
    /\ \A r \in issued : [id |-> r.id, claim |-> r.claim] \in granted

(* Every token belongs to the smart account of the allowlisted wallet,      *)
(* whoever sends the mint, whatever account other wallets ask proofs for.   *)
TokensGoToAllowedAccount ==
    \A t \in TokenIds : t < totalSupply => tokens[t].to = SmartAccountOf[AllowedAddress]

(* The paymaster pays for the very mint a slot was spent on, once per slot, *)
(* and never with a window that opens after the proof has expired.          *)
SponsorshipsBacked ==
    \A p \in sponsorships :
        /\ [id |-> p.id, claim |-> p.userOp] \in granted
        /\ p.validAfter <= p.userOp.expiry
        /\ \A q \in sponsorships : q.id = p.id => q = p

(* "This mint proof has already been consumed on-chain" (signPaymaster.ts   *)
(* 232): a proof the database records as used gets no sponsorship.          *)
UsedProofNeverSponsored ==
    [][\A p \in sponsorships' \ sponsorships :
         \A r \in issued : r.id = p.id => ~r.used]_allVars
=============================================================================
