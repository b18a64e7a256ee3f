---------------------------- MODULE CadenceMint ----------------------------
(***************************************************************************)
(* contracts/Phil369CadenceMint.sol: the second kind of consumer of the    *)
(* gate.  The owner names one minter for the next window; a mint closes    *)
(* the window for CadenceWindow and clears the minter.  A reserve minted   *)
(* by the owner shares the supply and not the window.  Both spend action   *)
(* proofs that are bound to the next token id and the current version.     *)
(* Metadata (setVersionBaseURI, tokenURI) and token transfers are left out.*)
(***************************************************************************)
EXTENDS ProofGate

CONSTANTS
    CadenceContract, \* the address of Phil369CadenceMint
    Versions,        \* values of currentVersionId
    MaxSupply,       \* MAX_SUPPLY, 369 in the contract
    ReserveCap,      \* RESERVE_CAP, 69 in the contract
    CadenceWindow    \* CADENCE_WINDOW, 36 hours in the contract

ACTION_CADENCE_MINT == 4
ACTION_CADENCE_RESERVE == 5
CadenceActions == {ACTION_CADENCE_MINT, ACTION_CADENCE_RESERVE}

TokenIds == 0 .. MaxSupply - 1
CadenceHashes == [minter : Recipients, tokenId : 0 .. MaxSupply, versionId : Versions,
                  reserve : BOOLEAN]

ASSUME CadenceBounds ==
    /\ MaxSupply \in Nat
    /\ ReserveCap \in Nat
    /\ CadenceWindow \in Nat
    /\ 0 \in Versions
    /\ CadenceContract \in Consumers
    /\ ZeroAddress \notin Recipients
    /\ CadenceActions \subseteq ActionTypes
    /\ CadenceHashes \subseteq ActionHashes

VARIABLES
    mintOwner,        \* the contract's own owner
    totalSupply,
    reserveMinted,
    nextMintTime,
    windowMinter,
    currentVersionId,
    tokens            \* token id -> NoToken or how it was minted; `at` and
                      \* `reserve` are kept for the properties only

supplyVars == <<totalSupply, reserveMinted, tokens>>
windowVars == <<nextMintTime, windowMinter>>
cadenceVars == <<mintOwner, currentVersionId, supplyVars, windowVars>>

NoToken == [to |-> ZeroAddress]
Tokens == [to : Recipients, versionId : Versions, reserve : BOOLEAN, at : Times]

AnyVersionHash(minter, tokenId, versionId, reserve) ==
    [minter |-> minter, tokenId |-> tokenId, versionId |-> 0, reserve |-> reserve]

(* computeCadenceMintActionHash and computeReserveMintActionHash *)
ActionHash(minter, tokenId, versionId, reserve) ==
    [minter |-> minter, tokenId |-> tokenId, versionId |-> versionId, reserve |-> reserve]

CadenceInit(deployer) ==
    /\ mintOwner = deployer
    /\ totalSupply = 0
    /\ reserveMinted = 0
    /\ nextMintTime = 0
    /\ windowMinter = ZeroAddress
    /\ currentVersionId = 0
    /\ tokens = [t \in TokenIds |-> NoToken]

CadenceTransferOwnership(sender, newOwner) ==
    /\ sender = mintOwner
    /\ newOwner # ZeroAddress
    /\ mintOwner' = newOwner
    /\ UNCHANGED <<now, gateVars, currentVersionId, supplyVars, windowVars>>

SetCurrentVersionId(sender, versionId) ==
    /\ sender = mintOwner
    /\ currentVersionId' = versionId
    /\ UNCHANGED <<now, gateVars, mintOwner, supplyVars, windowVars>>

AssignWindowMinter(sender, minter) ==
    /\ sender = mintOwner
    /\ windowMinter' = minter
    /\ UNCHANGED <<now, gateVars, mintOwner, currentVersionId, supplyVars, nextMintTime>>

(* The part mint and reserveMint share: spend a proof for the next token    *)
(* id at the current version and record the token.                          *)
MintNextToken(to, actionType, reserve, proof) ==
    /\ totalSupply < MaxSupply
    /\ VerifyActionAndConsume(CadenceContract, to, actionType,
                              ActionHash(to, totalSupply, currentVersionId, reserve), proof)
    /\ totalSupply' = totalSupply + 1
    /\ tokens' = [tokens EXCEPT ![totalSupply] =
                    [to |-> to, versionId |-> currentVersionId, reserve |-> reserve,
                     at |-> now]]
    /\ UNCHANGED <<mintOwner, currentVersionId>>

WindowAfterLast == nextMintTime + CadenceWindow
NextWindow == now + CadenceWindow

Mint(sender, proof) ==
    /\ sender = windowMinter
    /\ now >= nextMintTime
    /\ MintNextToken(sender, ACTION_CADENCE_MINT, FALSE, proof)
    /\ nextMintTime' = NextWindow
    /\ windowMinter' = ZeroAddress
    /\ UNCHANGED reserveMinted

ReserveNotPastCap == reserveMinted <= ReserveCap
ReserveNotFull == reserveMinted < ReserveCap

ReserveMint(sender, to, proof) ==
    /\ sender = mintOwner
    /\ to # ZeroAddress
    /\ ReserveNotFull
    /\ MintNextToken(to, ACTION_CADENCE_RESERVE, TRUE, proof)
    /\ reserveMinted' = reserveMinted + 1
    /\ UNCHANGED windowVars

-----------------------------------------------------------------------------
CadenceAdmin ==
    \E u \in Users :
        \/ \E v \in Users : CadenceTransferOwnership(u, v)
        \/ \E v \in Versions : SetCurrentVersionId(u, v)
        \/ \E r \in Recipients \cup {ZeroAddress} : AssignWindowMinter(u, r)

(* The gate's other consumers spend proofs of their own action types, over  *)
(* hashes that include their own address.                                   *)
SpendElsewhere ==
    \E c \in Consumers \ {CadenceContract}, r \in Recipients,
       a \in ActionTypes \ CadenceActions, h \in ActionHashes \ CadenceHashes,
       p \in PresentableProofs :
        VerifyActionAndConsume(c, r, a, h, p)

Next ==
    \/ GateAdmin /\ UNCHANGED cadenceVars
    \/ \E k \in Signers, c \in Signable : Attest(k, c) /\ UNCHANGED cadenceVars
    \/ SpendElsewhere /\ UNCHANGED cadenceVars
    \/ CadenceAdmin
    \/ \E r \in Recipients, p \in PresentableProofs : Mint(r, p)
    \/ \E u \in Users, r \in Recipients, p \in PresentableProofs : ReserveMint(u, r, p)

Init ==
    \E d \in Users \cap Signers, c \in Consumers : GateInit(d, c) /\ CadenceInit(d)

vars == <<now, gateVars, cadenceVars>>
Spec == Init /\ [][Next]_vars

-----------------------------------------------------------------------------
Minted == 0 .. totalSupply - 1
ReserveTokens == {t \in Minted : tokens[t].reserve}

(* The counters stay within their caps, minted tokens are the first         *)
(* totalSupply ids, and reserveMinted counts the reserve among them.        *)
CadenceTypeOK ==
    /\ GateTypeOK
    /\ mintOwner \in Users \cup Signers
    /\ totalSupply \in 0 .. MaxSupply
    /\ reserveMinted \in 0 .. ReserveCap
    /\ nextMintTime \in 0 .. MaxTime + CadenceWindow
    /\ windowMinter \in Recipients \cup {ZeroAddress}
    /\ currentVersionId \in Versions
    /\ tokens \in [TokenIds -> Tokens \cup {NoToken}]
    /\ \A t \in TokenIds : t < totalSupply <=> tokens[t] # NoToken
    /\ reserveMinted = Cardinality(ReserveTokens)

(* "36-hour cadence": between two tokens minted through the window at least *)
(* CadenceWindow passes, however the owner reassigns the minter, mints from *)
(* the reserve or leaves windows unused.                                    *)
MintsSpaced ==
    \A t, u \in Minted :
        t < u /\ ~tokens[t].reserve /\ ~tokens[u].reserve
            => tokens[u].at >= tokens[t].at + CadenceWindow

SpentCadence == {n \in SpentActions : n.actionType \in CadenceActions}

(* The nullifier that stands for token t: of a signed claim that names its  *)
(* id, its first owner, its version and the way it was minted.              *)
StandsFor(n, t) ==
    /\ n.recipient = tokens[t].to
    /\ n.actionType = IF tokens[t].reserve THEN ACTION_CADENCE_RESERVE
                                           ELSE ACTION_CADENCE_MINT
    /\ n.factHash.claim.actionHash =
         [minter |-> tokens[t].to, tokenId |-> t, versionId |-> tokens[t].versionId,
          reserve |-> tokens[t].reserve]

(* Every token has a spent proof signed for exactly that token, and every   *)
(* spent cadence proof has its token: version changes and reserve mints     *)
(* between signing and minting never let a proof mint another token, and no *)
(* two proofs are spent for one.                                            *)
TokensMatchActions ==
    /\ \A t \in Minted : \E n \in SpentCadence : StandsFor(n, t)
    /\ \A n \in SpentCadence : \E t \in Minted : StandsFor(n, t)
    /\ \A n, m \in SpentCadence :
        n # m => n.factHash.claim.actionHash # m.factHash.claim.actionHash
=============================================================================
