------------------------------ MODULE ProofGate ------------------------------
(***************************************************************************)
(* contracts/ProofGateTest13.sol: the shared gate that turns a             *)
(* backend-signed claim into a one-time permission.  A consumer contract   *)
(* passes the call's arguments and a proof; the gate rebuilds the claim    *)
(* they stand for, checks expiry, fact hash and signature, and spends the  *)
(* claim's nullifier.  A transaction is atomic, so each external function  *)
(* is one action; a call that reverts changes nothing and is no step.      *)
(*                                                                         *)
(* keccak256 is taken to be injective: a hash is the tagged record of what *)
(* is hashed, and preimages of different lengths carry different tags.     *)
(* PROGRAM_HASH, DROP_ID, the chain id and the gate's address are fixed    *)
(* for one deployment and left out of the claims.                          *)
(***************************************************************************)
EXTENDS Clock

CONSTANTS
    Users,          \* addresses that send the admin calls
    ZeroAddress,    \* address(0)
    Signers,        \* addresses of attestation keys
    Consumers,      \* contracts the owner may authorise to spend proofs
    Recipients,     \* claim field: the attested wallet
    Destinations,   \* claim field: mintTo
    Traits,         \* claim field: <<philId, paletteVariant, mixMode, mixSeed>>
    ActionTypes,    \* claim field of an action proof
    ActionHashes,   \* claim field of an action proof
    SigForms,       \* byte encodings ECDSA.recoverCalldata accepts (64 and 65 bytes)
    Signable,       \* bound: the claims that get signed, a subset of Claims
    MaxAttested     \* bound: signatures released to callers

ASSUME GateBounds == MaxAttested \in Nat
ASSUME AddressAssumption == ZeroAddress \notin Users \cup Signers \cup Consumers

VARIABLES
    owner,
    authorizedCaller, \* the set of callers mapped to true
    allowlistSigner,
    nullifierUsed,    \* the set of nullifiers mapped to true
    attested          \* signatures callers hold: [by |-> key, over |-> claim]

gateVars == <<owner, authorizedCaller, allowlistSigner, nullifierUsed, attested>>

MintClaims == [kind : {"mint"}, recipient : Recipients, mintTo : Destinations,
               traits : Traits, expiry : Expiries]
ActionClaims == [kind : {"action"}, recipient : Recipients, actionType : ActionTypes,
                 actionHash : ActionHashes, expiry : Expiries]
Claims == MintClaims \cup ActionClaims

ASSUME SignableAssumption == Signable \subseteq Claims

MintClaim(recipient, mintTo, traits, expiry) ==
    [kind |-> "mint", recipient |-> recipient, mintTo |-> mintTo, traits |-> traits,
     expiry |-> expiry]

ActionClaim(recipient, actionType, actionHash, expiry) ==
    [kind |-> "action", recipient |-> recipient, actionType |-> actionType,
     actionHash |-> actionHash, expiry |-> expiry]

FactHash(claim) == [tag |-> "FACT_V1", claim |-> claim]
FactHashes == {FactHash(c) : c \in Claims}

MintNullifier(recipient, mintTo, traits, factHash) ==
    [tag |-> "NULL_V1", recipient |-> recipient, mintTo |-> mintTo,
     traits |-> traits, factHash |-> factHash]

ActionNullifier(recipient, actionType, factHash) ==
    [tag |-> "packed", recipient |-> recipient, actionType |-> actionType,
     factHash |-> factHash]

Attestations == [by : Signers, over : Claims]
Signatures == [by : Signers, over : Claims, form : SigForms]
Proofs == [expiry : Expiries, factHash : FactHashes, signature : Signatures]

(* The address ECDSA recovers: the key that signed this very claim, and for *)
(* a signature over anything else an address no key has.                    *)
Recovered(claim, signature) ==
    IF signature.over = claim THEN signature.by ELSE ZeroAddress

NotExpired(proof) == proof.expiry = 0 \/ now <= proof.expiry

VerifyWithoutFact(claim, proof) ==
    /\ NotExpired(proof)
    /\ Recovered(claim, proof.signature) = allowlistSigner

VerifyWithoutSigner(claim, proof) ==
    /\ NotExpired(proof)
    /\ proof.factHash = FactHash(claim)
    /\ Recovered(claim, proof.signature) # ZeroAddress

VerifyBackendProof(claim, proof) ==
    /\ NotExpired(proof)
    /\ proof.factHash = FactHash(claim)
    /\ Recovered(claim, proof.signature) = allowlistSigner

ConsumeAgain(nullifier) == nullifierUsed' = nullifierUsed \cup {nullifier}

ConsumeNullifier(nullifier) ==
    /\ nullifier \notin nullifierUsed
    /\ nullifierUsed' = nullifierUsed \cup {nullifier}

(* verifyAndConsume and verifyActionAndConsume, with msg.sender = caller. *)
VerifyAndConsume(caller, recipient, mintTo, traits, proof) ==
    /\ caller \in authorizedCaller
    /\ VerifyBackendProof(MintClaim(recipient, mintTo, traits, proof.expiry), proof)
    /\ ConsumeNullifier(MintNullifier(recipient, mintTo, traits, proof.factHash))
    /\ UNCHANGED <<now, owner, authorizedCaller, allowlistSigner, attested>>

VerifyActionAndConsume(caller, recipient, actionType, actionHash, proof) ==
    /\ caller \in authorizedCaller
    /\ actionType # 0
    /\ VerifyBackendProof(ActionClaim(recipient, actionType, actionHash, proof.expiry),
                          proof)
    /\ ConsumeNullifier(ActionNullifier(recipient, actionType, proof.factHash))
    /\ UNCHANGED <<now, owner, authorizedCaller, allowlistSigner, attested>>

-----------------------------------------------------------------------------
(* Admin calls (onlyOwner). *)

TransferOwnership(sender, newOwner) ==
    /\ sender = owner
    /\ newOwner # ZeroAddress
    /\ owner' = newOwner
    /\ UNCHANGED <<now, authorizedCaller, allowlistSigner, nullifierUsed, attested>>

SetAuthorizedCaller(sender, caller, allowed) ==
    /\ sender = owner
    /\ caller # ZeroAddress
    /\ authorizedCaller' = IF allowed THEN authorizedCaller \cup {caller}
                                      ELSE authorizedCaller \ {caller}
    /\ UNCHANGED <<now, owner, allowlistSigner, nullifierUsed, attested>>

SetAllowlistSigner(sender, newSigner) ==
    /\ sender = owner
    /\ newSigner # ZeroAddress
    /\ allowlistSigner' = newSigner
    /\ UNCHANGED <<now, owner, authorizedCaller, nullifierUsed, attested>>

(* Time passes between blocks. *)
Tick == AdvanceClock /\ UNCHANGED gateVars

(* A key signs a claim and the signature reaches the callers; in this       *)
(* module any key may sign anything (MintService says who really does).     *)
Attest(signer, claim) ==
    /\ Cardinality(attested) < MaxAttested
    /\ attested' = attested \cup {[by |-> signer, over |-> claim]}
    /\ UNCHANGED <<now, owner, authorizedCaller, allowlistSigner, nullifierUsed>>

-----------------------------------------------------------------------------
(* The constructor: the deployer is owner and signer, one caller is allowed. *)
GateInit(deployer, firstCaller) ==
    /\ now = 0
    /\ owner = deployer
    /\ authorizedCaller = {firstCaller}
    /\ allowlistSigner = deployer
    /\ nullifierUsed = {}
    /\ attested = {}

GateAdmin ==
    \/ Tick
    \/ \E u \in Users :
        \/ \E v \in Users : TransferOwnership(u, v)
        \/ \E c \in Consumers, allowed \in BOOLEAN : SetAuthorizedCaller(u, c, allowed)
        \/ \E k \in Signers : SetAllowlistSigner(u, k)

(* The signatures a caller can present, in any encoding, with any expiry    *)
(* field and with the fact hash of any claim it has seen signed.            *)
PresentableProofs ==
    [expiry : Expiries, factHash : {FactHash(a.over) : a \in attested},
     signature : {[by |-> a.by, over |-> a.over, form |-> f] : a \in attested,
                                                               f \in SigForms}]

MintNullifiers == [tag : {"NULL_V1"}, recipient : Recipients, mintTo : Destinations,
                   traits : Traits, factHash : FactHashes]
ActionNullifiers == [tag : {"packed"}, recipient : Recipients, actionType : ActionTypes,
                     factHash : FactHashes]

GateTypeOK ==
    /\ now \in Times
    /\ owner \in Users \cup Signers
    /\ authorizedCaller \subseteq Consumers
    /\ allowlistSigner \in Signers
    /\ nullifierUsed \subseteq MintNullifiers \cup ActionNullifiers
    /\ attested \subseteq Attestations

(* isMintNullifierSpent and isActionNullifierSpent, as sets. *)
SpentMints == {n \in nullifierUsed : n.tag = "NULL_V1"}
SpentActions == {n \in nullifierUsed : n.tag = "packed"}
=============================================================================
