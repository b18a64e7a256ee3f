---------------------------- MODULE PhilTestMint ----------------------------
(***************************************************************************)
(* contracts/PhilTestMint.sol: the capped mint behind ProofGate.  mint()   *)
(* may be sent by anyone who holds a proof; the token goes to the mintTo   *)
(* the proof names.  _mint makes no callback, so the call is one action.   *)
(***************************************************************************)
EXTENDS ProofGate

CONSTANTS
    MintContract,   \* the address of PhilTestMint
    ValidTraits,    \* traits with philId < 6, paletteVariant < 9, mixMode <= 2
    MaxSupply       \* MAX_SUPPLY, 13 in the contract

ASSUME MintBounds ==
    /\ MaxSupply \in Nat
    /\ ValidTraits \subseteq Traits
    /\ MintContract \in Consumers

VARIABLES
    totalSupply,
    tokens          \* token id -> NoToken or [to, traits]

mintVars == <<totalSupply, tokens>>

NoToken == [to |-> ZeroAddress]
TokenIds == 0 .. MaxSupply - 1
Tokens == [to : Destinations, traits : ValidTraits]

ValidMintArgs(recipient, mintTo, traits) ==
    /\ recipient # ZeroAddress
    /\ mintTo # ZeroAddress
    /\ traits \in ValidTraits

MintInit ==
    /\ totalSupply = 0
    /\ tokens = [t \in TokenIds |-> NoToken]

PastCap == totalSupply <= MaxSupply
NotSoldOut == totalSupply < MaxSupply

Mint(recipient, mintTo, traits, proof) ==
    /\ ValidMintArgs(recipient, mintTo, traits)
    /\ NotSoldOut
    /\ VerifyAndConsume(MintContract, recipient, mintTo, traits, proof)
    /\ totalSupply' = totalSupply + 1
    /\ tokens' = [tokens EXCEPT ![totalSupply] = [to |-> mintTo, traits |-> traits]]

MintTypeOK ==
    /\ totalSupply \in 0 .. MaxSupply
    /\ tokens \in [TokenIds -> Tokens \cup {NoToken}]

MintNext ==
    \/ GateAdmin /\ UNCHANGED mintVars
    \/ \E k \in Signers, c \in Signable : Attest(k, c) /\ UNCHANGED mintVars
    \/ \E r \in Recipients, d \in Destinations, tr \in Traits, p \in PresentableProofs :
         Mint(r, d, tr, p)
    \/ \E c \in Consumers \ {MintContract}, r \in Recipients, a \in ActionTypes,
          h \in ActionHashes, p \in PresentableProofs :
         /\ VerifyActionAndConsume(c, r, a, h, p)
         /\ UNCHANGED mintVars

Init == (\E d \in Users \cap Signers : GateInit(d, MintContract)) /\ MintInit
vars == <<now, gateVars, mintVars>>
Spec == Init /\ [][MintNext]_vars

-----------------------------------------------------------------------------
TypeOK == GateTypeOK /\ MintTypeOK

TokensWith(d, tr) == {t \in TokenIds : tokens[t] = [to |-> d, traits |-> tr]}
SpentFor(d, tr) == {n \in SpentMints : n.mintTo = d /\ n.traits = tr}

(* Token ids are handed out in order, and every minted token stands for one *)
(* spent proof that named its owner and its traits: for each destination    *)
(* and traits, as many tokens as spent mint nullifiers.  A replay of a      *)
(* proof, under another encoding of its signature or a second signer's      *)
(* signature over the same claim, would mint more tokens than are spent.    *)
TokensMatchSpentProofs ==
    /\ \A t \in TokenIds : t < totalSupply <=> tokens[t] # NoToken
    /\ \A d \in Destinations, tr \in ValidTraits :
        Cardinality(TokensWith(d, tr)) = Cardinality(SpentFor(d, tr))

(* The claim inside every spent nullifier is one that some key signed, with *)
(* the very recipient, destination, traits or action that was spent: no     *)
(* field of a signed claim can be swapped between signature and use.        *)
SpentProofsAttested ==
    /\ \A n \in SpentMints :
        \E a \in attested :
            /\ n.factHash = FactHash(a.over)
            /\ a.over \in MintClaims
            /\ a.over.recipient = n.recipient
            /\ a.over.mintTo = n.mintTo
            /\ a.over.traits = n.traits
    /\ \A n \in SpentActions :
        \E a \in attested :
            /\ n.factHash = FactHash(a.over)
            /\ a.over \in ActionClaims
            /\ a.over.recipient = n.recipient
            /\ a.over.actionType = n.actionType

(* Rotating the signer revokes: a proof is spent only while the key that    *)
(* signed its claim is the current allowlistSigner and the claim has not    *)
(* expired, however long ago and under whichever signer it was issued.      *)
SpentWhileCurrent ==
    [][\A n \in nullifierUsed' \ nullifierUsed :
         \E a \in attested :
            /\ n.factHash = FactHash(a.over)
            /\ a.by = allowlistSigner
            /\ a.over.expiry = 0 \/ now <= a.over.expiry]_vars
=============================================================================
