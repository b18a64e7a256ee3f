------------------------- MODULE CadenceMint_proofs -------------------------
(***************************************************************************)
(* Proofs about CadenceMint, for every supply, reserve cap, window length, *)
(* set of wallets, versions, keys and signed claims.                       *)
(***************************************************************************)
EXTENDS CadenceMint, FiniteSetTheorems, TLAPS

-----------------------------------------------------------------------------
(* What the gate establishes and keeps. *)

(* A proof a caller can present carries the fact hash and the signature of  *)
(* attestations the caller holds.                                           *)
LEMMA PresentableProof ==
    ASSUME NEW p \in PresentableProofs, GateTypeOK
    PROVE  /\ p.expiry \in Expiries
           /\ p.factHash \in FactHashes
           /\ \E a \in attested : p.signature.by = a.by /\ p.signature.over = a.over
  BY DEF PresentableProofs, GateTypeOK, FactHashes, Attestations

(* A proof passes verification for a claim only if the current signer's     *)
(* attestation over that very claim has been released.                      *)
LEMMA VerifiedClaimAttested ==
    ASSUME NEW claim, NEW p \in PresentableProofs, GateTypeOK,
           VerifyBackendProof(claim, p)
    PROVE  /\ [by |-> allowlistSigner, over |-> claim] \in attested
           /\ claim \in Claims
<1>1. PICK a \in attested : p.signature.by = a.by /\ p.signature.over = a.over
  BY PresentableProof
<1>2. Recovered(claim, p.signature) = allowlistSigner
  BY DEF VerifyBackendProof
<1>3. allowlistSigner \in Signers /\ allowlistSigner # ZeroAddress
  BY AddressAssumption DEF GateTypeOK
<1>4. p.signature.over = claim /\ p.signature.by = allowlistSigner
  BY <1>2, <1>3 DEF Recovered
<1>5. a \in [by : Signers, over : Claims]
  BY DEF GateTypeOK, Attestations
<1>6. a = [by |-> allowlistSigner, over |-> claim]
  BY <1>1, <1>4, <1>5
<1> QED
  BY <1>5, <1>6

(* Consuming an action proof spends one fresh nullifier, of a claim the     *)
(* current signer attested and whose expiry has not passed.                 *)
LEMMA ActionSpends ==
    ASSUME GateTypeOK, NEW caller, NEW r \in Recipients, NEW a \in ActionTypes,
           NEW h \in ActionHashes, NEW p \in PresentableProofs,
           VerifyActionAndConsume(caller, r, a, h, p)
    PROVE  LET c == ActionClaim(r, a, h, p.expiry)
               n == ActionNullifier(r, a, FactHash(c))
           IN  /\ n \notin nullifierUsed
               /\ nullifierUsed' = nullifierUsed \cup {n}
               /\ [by |-> allowlistSigner, over |-> c] \in attested
               /\ c \in ActionClaims
               /\ c.expiry = 0 \/ now <= c.expiry
<1> DEFINE c == ActionClaim(r, a, h, p.expiry)
<1>1. VerifyBackendProof(c, p)
  BY DEF VerifyActionAndConsume
<1>2. p.factHash = FactHash(c) /\ (p.expiry = 0 \/ now <= p.expiry)
  BY <1>1 DEF VerifyBackendProof, NotExpired
<1>3. [by |-> allowlistSigner, over |-> c] \in attested
  BY <1>1, VerifiedClaimAttested
<1>4. p.expiry \in Expiries
  BY PresentableProof
<1>5. c \in ActionClaims /\ c.expiry = p.expiry
  BY <1>4 DEF ActionClaim, ActionClaims
<1> QED
  BY <1>2, <1>3, <1>5 DEF VerifyActionAndConsume, ConsumeNullifier

LEMMA GateInitTypeOK ==
    ASSUME NEW d \in Users \cap Signers, NEW c \in Consumers, GateInit(d, c)
    PROVE  GateTypeOK
  BY ClockBounds DEF GateInit, GateTypeOK, Times

LEMMA AdminGateTypeOK ==
    ASSUME GateTypeOK, GateAdmin
    PROVE  GateTypeOK'
<1> USE DEF GateTypeOK
<1>1. CASE Tick
  BY <1>1, ClockBounds DEF Tick, AdvanceClock, gateVars, Times
<1>2. ASSUME NEW u \in Users, NEW v \in Users, TransferOwnership(u, v)
      PROVE  GateTypeOK'
  BY <1>2 DEF TransferOwnership
<1>3. ASSUME NEW u \in Users, NEW c \in Consumers, NEW allowed \in BOOLEAN,
             SetAuthorizedCaller(u, c, allowed)
      PROVE  GateTypeOK'
  BY <1>3 DEF SetAuthorizedCaller
<1>4. ASSUME NEW u \in Users, NEW k \in Signers, SetAllowlistSigner(u, k)
      PROVE  GateTypeOK'
  BY <1>4 DEF SetAllowlistSigner
<1> QED
  BY <1>1, <1>2, <1>3, <1>4 DEF GateAdmin

LEMMA AttestGateTypeOK ==
    ASSUME GateTypeOK, NEW k \in Signers, NEW c \in Signable, Attest(k, c)
    PROVE  GateTypeOK'
  BY SignableAssumption DEF GateTypeOK, Attest, Attestations

LEMMA ActionProofGateTypeOK ==
    ASSUME GateTypeOK, NEW caller, NEW r \in Recipients, NEW a \in ActionTypes,
           NEW h \in ActionHashes, NEW p \in PresentableProofs,
           VerifyActionAndConsume(caller, r, a, h, p)
    PROVE  GateTypeOK'
<1>1. p.factHash \in FactHashes
  BY PresentableProof
<1>2. ActionNullifier(r, a, p.factHash) \in ActionNullifiers
  BY <1>1 DEF ActionNullifier, ActionNullifiers
<1> QED
  BY <1>2 DEF GateTypeOK, VerifyActionAndConsume, ConsumeNullifier

(* Steps that spend nothing keep every attestation that was released. *)
LEMMA QuietSteps ==
    ASSUME \/ GateAdmin
           \/ \E k \in Signers, c \in Signable : Attest(k, c)
           \/ UNCHANGED gateVars
    PROVE  nullifierUsed' = nullifierUsed /\ attested \subseteq attested'
  BY DEF GateAdmin, Tick, gateVars, TransferOwnership, SetAuthorizedCaller,
         SetAllowlistSigner, Attest

-----------------------------------------------------------------------------
(* Steps, grouped by what they disturb. *)

LEMMA MintedIsNotNoToken ==
    ASSUME NEW to, NEW v, NEW reserve, NEW at
    PROVE  [to |-> to, versionId |-> v, reserve |-> reserve, at |-> at] # NoToken
<1>1. "at" \in DOMAIN [to |-> to, versionId |-> v, reserve |-> reserve, at |-> at]
  OBVIOUS
<1>2. "at" \notin DOMAIN NoToken
  BY DEF NoToken
<1> QED
  BY <1>1, <1>2

(* The steps that mint nothing: they leave the supply and the window's      *)
(* clock alone and spend no cadence proof.                                  *)
Idle ==
    /\ UNCHANGED <<supplyVars, nextMintTime>>
    /\ SpentCadence' = SpentCadence

LEMMA ElsewhereSpendsNoCadence ==
    ASSUME CadenceTypeOK, SpendElsewhere
    PROVE  SpentCadence' = SpentCadence /\ GateTypeOK'
<1>1. PICK c \in Consumers \ {CadenceContract}, r \in Recipients,
           a \in ActionTypes \ CadenceActions, h \in ActionHashes \ CadenceHashes,
           p \in PresentableProofs : VerifyActionAndConsume(c, r, a, h, p)
  BY DEF SpendElsewhere
<1> DEFINE n == ActionNullifier(r, a, FactHash(ActionClaim(r, a, h, p.expiry)))
<1>2. nullifierUsed' = nullifierUsed \cup {n}
  BY <1>1, ActionSpends DEF CadenceTypeOK
<1>3. n.actionType \notin CadenceActions
  BY DEF ActionNullifier
<1>4. GateTypeOK'
  BY <1>1, ActionProofGateTypeOK DEF CadenceTypeOK
<1> HIDE DEF n
<1> QED
  BY <1>2, <1>3, <1>4 DEF SpentCadence, SpentActions

LEMMA OwnCallsAreIdle ==
    ASSUME CadenceTypeOK, CadenceAdmin
    PROVE  Idle /\ CadenceTypeOK'
<1> USE DEF CadenceTypeOK, GateTypeOK, Idle, supplyVars, windowVars, gateVars,
            SpentCadence, SpentActions, ReserveTokens, Minted
<1>1. ASSUME NEW u \in Users, NEW v \in Users, CadenceTransferOwnership(u, v)
      PROVE  Idle /\ CadenceTypeOK'
  BY <1>1 DEF CadenceTransferOwnership
<1>2. ASSUME NEW u \in Users, NEW v \in Versions, SetCurrentVersionId(u, v)
      PROVE  Idle /\ CadenceTypeOK'
  BY <1>2 DEF SetCurrentVersionId
<1>3. ASSUME NEW u \in Users, NEW r \in Recipients \cup {ZeroAddress},
             AssignWindowMinter(u, r)
      PROVE  Idle /\ CadenceTypeOK'
  BY <1>3 DEF AssignWindowMinter
<1> QED
  BY <1>1, <1>2, <1>3 DEF CadenceAdmin

LEMMA GateStepsAreIdle ==
    ASSUME CadenceTypeOK, UNCHANGED cadenceVars,
           \/ GateAdmin
           \/ \E k \in Signers, c \in Signable : Attest(k, c)
           \/ SpendElsewhere
           \/ UNCHANGED <<now, gateVars>>
    PROVE  Idle /\ CadenceTypeOK'
<1>1. GateTypeOK'
  <2>1. CASE UNCHANGED <<now, gateVars>>
    BY <2>1 DEF CadenceTypeOK, GateTypeOK, gateVars
  <2> QED
    BY <2>1, AdminGateTypeOK, AttestGateTypeOK, ElsewhereSpendsNoCadence DEF CadenceTypeOK
<1>2. SpentCadence' = SpentCadence
  <2>1. CASE SpendElsewhere
    BY <2>1, ElsewhereSpendsNoCadence
  <2>2. CASE ~SpendElsewhere
    BY <2>2, QuietSteps DEF SpentCadence, SpentActions
  <2> QED
    BY <2>1, <2>2
<1>3. /\ mintOwner' = mintOwner /\ totalSupply' = totalSupply
      /\ reserveMinted' = reserveMinted /\ nextMintTime' = nextMintTime
      /\ windowMinter' = windowMinter /\ currentVersionId' = currentVersionId
      /\ tokens' = tokens
  BY DEF cadenceVars, supplyVars, windowVars
<1>4. ReserveTokens' = ReserveTokens
  BY <1>3 DEF ReserveTokens, Minted
<1>5. CadenceTypeOK'
  BY <1>1, <1>3, <1>4 DEF CadenceTypeOK
<1> QED
  BY <1>2, <1>3, <1>5 DEF Idle, supplyVars

(* A minting step: the next id gets a token of the current version, and the *)
(* one nullifier added carries the claim for exactly that token.            *)
MintedWith(to, reserve, n) ==
    /\ totalSupply \in TokenIds
    /\ totalSupply' = totalSupply + 1
    /\ tokens' = [tokens EXCEPT ![totalSupply] =
                    [to |-> to, versionId |-> currentVersionId, reserve |-> reserve,
                     at |-> now]]
    /\ n.recipient = to
    /\ n.actionType = IF reserve THEN ACTION_CADENCE_RESERVE ELSE ACTION_CADENCE_MINT
    /\ n.factHash.claim.actionHash =
         [minter |-> to, tokenId |-> totalSupply, versionId |-> currentVersionId,
          reserve |-> reserve]
    /\ SpentCadence' = SpentCadence \cup {n}
    /\ GateTypeOK'
    /\ now' = now
    /\ UNCHANGED <<mintOwner, currentVersionId>>

LEMMA MintsWith ==
    ASSUME CadenceTypeOK, NEW to \in Recipients, NEW reserve \in BOOLEAN,
           NEW a, a = IF reserve THEN ACTION_CADENCE_RESERVE ELSE ACTION_CADENCE_MINT,
           NEW p \in PresentableProofs, MintNextToken(to, a, reserve, p)
    PROVE  \E n : MintedWith(to, reserve, n)
<1>1. totalSupply \in TokenIds
  BY CadenceBounds DEF MintNextToken, CadenceTypeOK, TokenIds
<1>2. a \in ActionTypes /\ a \in CadenceActions
  BY CadenceBounds DEF CadenceActions
<1>3. PICK h \in ActionHashes :
        h = [minter |-> to, tokenId |-> totalSupply, versionId |-> currentVersionId,
             reserve |-> reserve]
  BY <1>1, CadenceBounds DEF CadenceHashes, CadenceTypeOK, TokenIds
<1>4. VerifyActionAndConsume(CadenceContract, to, a, h, p)
  BY <1>3 DEF MintNextToken, ActionHash
<1> DEFINE n == ActionNullifier(to, a, FactHash(ActionClaim(to, a, h, p.expiry)))
<1>5. nullifierUsed' = nullifierUsed \cup {n}
  <2>1. GateTypeOK
    BY DEF CadenceTypeOK
  <2> QED
    BY <1>2, <1>4, <2>1, ActionSpends
<1>6. GateTypeOK' /\ now' = now
  BY <1>2, <1>4, ActionProofGateTypeOK DEF CadenceTypeOK, VerifyActionAndConsume
<1>7. /\ n.tag = "packed" /\ n.recipient = to /\ n.actionType = a
      /\ n.factHash.claim.actionHash = h
  BY DEF ActionNullifier, FactHash, ActionClaim
<1>8. SpentCadence' = SpentCadence \cup {n}
  BY <1>2, <1>5, <1>7 DEF SpentCadence, SpentActions
<1> HIDE DEF n
<1>9. MintedWith(to, reserve, n)
  BY <1>1, <1>3, <1>6, <1>7, <1>8 DEF MintedWith, MintNextToken
<1> QED
  BY <1>9

-----------------------------------------------------------------------------
(* Types, caps and the count of the reserve. *)

LEMMA InitCadenceType == Init => CadenceTypeOK
<1> SUFFICES ASSUME NEW d \in Users \cap Signers, NEW c \in Consumers,
                    GateInit(d, c), CadenceInit(d)
             PROVE  CadenceTypeOK
  BY DEF Init
<1>1. GateTypeOK
  BY GateInitTypeOK
<1>2. ReserveTokens = {}
  BY DEF CadenceInit, ReserveTokens, Minted
<1> QED
  BY <1>1, <1>2, FS_EmptySet, CadenceBounds, ClockBounds
  DEF CadenceInit, CadenceTypeOK, TokenIds

LEMMA ReserveFinite ==
    ASSUME CadenceTypeOK
    PROVE  IsFiniteSet(ReserveTokens) /\ totalSupply \notin ReserveTokens
<1>1. IsFiniteSet(Minted)
  BY FS_Interval DEF Minted, CadenceTypeOK
<1>2. ReserveTokens \in SUBSET Minted
  BY DEF ReserveTokens
<1>3. totalSupply \notin Minted
  BY DEF Minted, CadenceTypeOK
<1> QED
  BY <1>1, <1>2, <1>3, FS_Subset

(* Minting the next id, seen from the tokens alone. *)
LEMMA MintTokensType ==
    ASSUME CadenceTypeOK, NEW to \in Recipients, NEW reserve \in BOOLEAN, NEW n,
           MintedWith(to, reserve, n)
    PROVE  /\ GateTypeOK'
           /\ mintOwner' \in Users \cup Signers
           /\ totalSupply' \in 0 .. MaxSupply
           /\ currentVersionId' \in Versions
           /\ tokens' \in [TokenIds -> Tokens \cup {NoToken}]
           /\ \A t \in TokenIds : t < totalSupply' <=> tokens'[t] # NoToken
           /\ ReserveTokens' = IF reserve THEN ReserveTokens \cup {totalSupply}
                                         ELSE ReserveTokens
<1> USE DEF MintedWith
<1> DEFINE new == [to |-> to, versionId |-> currentVersionId, reserve |-> reserve,
                   at |-> now]
<1>1. totalSupply \in TokenIds /\ MaxSupply \in Nat
  BY CadenceBounds
<1>2. new \in Tokens /\ new # NoToken
  BY MintedIsNotNoToken DEF CadenceTypeOK, GateTypeOK, Tokens
<1>3. tokens' = [tokens EXCEPT ![totalSupply] = new] /\ totalSupply' = totalSupply + 1
  OBVIOUS
<1>4. new.reserve = reserve
  OBVIOUS
<1> HIDE DEF new
<1>5. tokens' \in [TokenIds -> Tokens \cup {NoToken}]
  BY <1>1, <1>2, <1>3 DEF CadenceTypeOK
<1>6. \A t \in TokenIds : t < totalSupply' <=> tokens'[t] # NoToken
  BY <1>1, <1>2, <1>3 DEF CadenceTypeOK, TokenIds
<1>7. ReserveTokens' = IF reserve THEN ReserveTokens \cup {totalSupply} ELSE ReserveTokens
  <2>1. Minted' = Minted \cup {totalSupply} /\ totalSupply \notin Minted
    BY <1>1, <1>3 DEF Minted, TokenIds
  <2>2. tokens'[totalSupply].reserve = reserve
    BY <1>1, <1>3, <1>4 DEF CadenceTypeOK
  <2>3. \A t \in Minted : tokens'[t] = tokens[t]
    BY <1>1, <1>3, <2>1 DEF CadenceTypeOK, Minted, TokenIds
  <2> QED
    BY <2>1, <2>2, <2>3 DEF ReserveTokens
<1> QED
  BY <1>1, <1>3, <1>5, <1>6, <1>7 DEF CadenceTypeOK, TokenIds

LEMMA MintStep ==
    ASSUME CadenceTypeOK, NEW r \in Recipients, NEW p \in PresentableProofs, Mint(r, p)
    PROVE  CadenceTypeOK' /\ \E n : MintedWith(r, FALSE, n)
<1>1. MintNextToken(r, ACTION_CADENCE_MINT, FALSE, p)
  BY DEF Mint
<1>2. PICK n : MintedWith(r, FALSE, n)
  BY <1>1, MintsWith
<1>3. /\ nextMintTime' \in 0 .. MaxTime + CadenceWindow
      /\ windowMinter' \in Recipients \cup {ZeroAddress}
      /\ reserveMinted' = reserveMinted
  BY CadenceBounds, ClockBounds
  DEF Mint, NextWindow, CadenceTypeOK, GateTypeOK, Times
<1>4. ReserveTokens' = ReserveTokens
  BY <1>2, MintTokensType
<1>5. CadenceTypeOK'
  BY <1>2, <1>3, <1>4, MintTokensType DEF CadenceTypeOK
<1> QED
  BY <1>2, <1>5

LEMMA ReserveMintStep ==
    ASSUME CadenceTypeOK, NEW u, NEW r \in Recipients, NEW p \in PresentableProofs,
           ReserveMint(u, r, p)
    PROVE  CadenceTypeOK' /\ \E n : MintedWith(r, TRUE, n)
<1>1. MintNextToken(r, ACTION_CADENCE_RESERVE, TRUE, p)
  BY DEF ReserveMint
<1>2. PICK n : MintedWith(r, TRUE, n)
  BY <1>1, MintsWith
<1>3. ReserveTokens' = ReserveTokens \cup {totalSupply}
  BY <1>2, MintTokensType
<1>4. Cardinality(ReserveTokens \cup {totalSupply}) = Cardinality(ReserveTokens) + 1
  BY ReserveFinite, FS_AddElement
<1>5. reserveMinted' = Cardinality(ReserveTokens')
  BY <1>3, <1>4 DEF ReserveMint, CadenceTypeOK
<1>6. /\ nextMintTime' \in 0 .. MaxTime + CadenceWindow
      /\ windowMinter' \in Recipients \cup {ZeroAddress}
      /\ reserveMinted' \in 0 .. ReserveCap
  BY CadenceBounds DEF ReserveMint, ReserveNotFull, CadenceTypeOK, windowVars
<1>7. CadenceTypeOK'
  BY <1>2, <1>5, <1>6, MintTokensType DEF CadenceTypeOK
<1> QED
  BY <1>2, <1>7

(* Every step is idle or mints one token, through the window or not. *)
LEMMA StepShapes ==
    ASSUME CadenceTypeOK, [Next]_vars
    PROVE  /\ CadenceTypeOK'
           /\ \/ Idle
              \/ \E r \in Recipients, p \in PresentableProofs : \E n :
                    Mint(r, p) /\ MintedWith(r, FALSE, n)
              \/ \E u \in Users, r \in Recipients, p \in PresentableProofs : \E n :
                    ReserveMint(u, r, p) /\ MintedWith(r, TRUE, n)
<1>1. CASE /\ UNCHANGED cadenceVars
           /\ \/ GateAdmin
              \/ \E k \in Signers, c \in Signable : Attest(k, c)
              \/ SpendElsewhere
              \/ UNCHANGED <<now, gateVars>>
  BY <1>1, GateStepsAreIdle
<1>2. CASE CadenceAdmin
  BY <1>2, OwnCallsAreIdle
<1>3. CASE \E r \in Recipients, p \in PresentableProofs : Mint(r, p)
  BY <1>3, MintStep
<1>4. CASE \E u \in Users, r \in Recipients, p \in PresentableProofs : ReserveMint(u, r, p)
  BY <1>4, ReserveMintStep
<1> QED
  BY <1>1, <1>2, <1>3, <1>4 DEF Next, vars

(* The supply and the reserve stay within their caps, whatever order mints  *)
(* come in, and reserveMinted is the number of reserve tokens.              *)
THEOREM CadenceTypeCorrect == Spec => []CadenceTypeOK
<1>1. CadenceTypeOK /\ [Next]_vars => CadenceTypeOK'
  BY StepShapes
<1> QED
  BY <1>1, InitCadenceType, PTL DEF Spec

-----------------------------------------------------------------------------
(* Spacing.  MintsSpaced alone is not inductive: it says nothing about how  *)
(* far the next mint is from the last, which is what nextMintTime keeps.    *)

WindowsClosed ==
    \A t \in Minted : ~tokens[t].reserve => tokens[t].at + CadenceWindow <= nextMintTime

SpacingInv == CadenceTypeOK /\ WindowsClosed /\ MintsSpaced

(* What a minting step does to the tokens there were. *)
TokenAdded(to, reserve) ==
    /\ totalSupply \in Nat
    /\ Minted' = Minted \cup {totalSupply}
    /\ \A t \in Minted : /\ t \in Nat /\ t < totalSupply
                       /\ tokens[t] \in Tokens /\ tokens'[t] = tokens[t]
    /\ tokens'[totalSupply] =
         [to |-> to, versionId |-> currentVersionId, reserve |-> reserve, at |-> now]

LEMMA MintedBefore ==
    ASSUME CadenceTypeOK, NEW to \in Recipients, NEW reserve \in BOOLEAN, NEW n,
           MintedWith(to, reserve, n)
    PROVE  TokenAdded(to, reserve)
<1>1. totalSupply \in TokenIds /\ MaxSupply \in Nat
  BY CadenceBounds DEF MintedWith
<1>2. Minted' = Minted \cup {totalSupply}
  BY <1>1 DEF MintedWith, Minted, TokenIds
<1>3. \A t \in Minted : t \in TokenIds /\ t \in Nat /\ t < totalSupply
  BY <1>1 DEF Minted, TokenIds
<1>4. \A t \in Minted : tokens[t] \in Tokens
  BY <1>3 DEF CadenceTypeOK
<1> QED
  BY <1>1, <1>2, <1>3, <1>4 DEF TokenAdded, MintedWith, CadenceTypeOK, TokenIds

LEMMA InitSpacing == Init => SpacingInv
<1> SUFFICES ASSUME Init PROVE SpacingInv
  OBVIOUS
<1>1. Minted = {}
  BY DEF Init, CadenceInit, Minted
<1> QED
  BY <1>1, InitCadenceType DEF SpacingInv, WindowsClosed, MintsSpaced

LEMMA WindowMintKeepsSpacing ==
    ASSUME SpacingInv, NEW r \in Recipients, NEW p \in PresentableProofs, NEW n,
           Mint(r, p), MintedWith(r, FALSE, n)
    PROVE  (WindowsClosed /\ MintsSpaced)'
<1>1. TokenAdded(r, FALSE)
  BY MintedBefore DEF SpacingInv
<1> USE DEF SpacingInv, Tokens, Times
<1>2. now \in Nat /\ nextMintTime \in Nat /\ CadenceWindow \in Nat
  BY CadenceBounds, ClockBounds DEF CadenceTypeOK, GateTypeOK
<1>3. now >= nextMintTime /\ nextMintTime' = now + CadenceWindow
  BY DEF Mint, NextWindow
<1>4. tokens'[totalSupply].at = now /\ ~tokens'[totalSupply].reserve
  BY <1>1 DEF TokenAdded
<1>5. \A t \in Minted : tokens[t].at \in Nat /\ tokens'[t] = tokens[t] /\ t < totalSupply
  BY <1>1, ClockBounds DEF TokenAdded
<1>6. \A t \in Minted : ~tokens[t].reserve => tokens[t].at + CadenceWindow <= now
  BY <1>2, <1>3, <1>5 DEF WindowsClosed
<1>7. Minted' = Minted \cup {totalSupply} /\ totalSupply \in Nat
      /\ \A t \in Minted : t \in Nat
  BY <1>1 DEF TokenAdded
<1>8. WindowsClosed'
  BY <1>2, <1>3, <1>4, <1>5, <1>6, <1>7 DEF WindowsClosed
<1>9. MintsSpaced'
  <2> SUFFICES ASSUME NEW t \in Minted', NEW u \in Minted', t < u,
                      ~tokens'[t].reserve, ~tokens'[u].reserve
               PROVE  tokens'[u].at >= tokens'[t].at + CadenceWindow
    BY DEF MintsSpaced
  <2>1. t \in Minted
    BY <1>5, <1>7
  <2>2. CASE u = totalSupply
    BY <1>2, <1>4, <1>5, <1>6, <2>1, <2>2
  <2>3. CASE u \in Minted
    BY <1>5, <2>1, <2>3 DEF MintsSpaced
  <2> QED
    BY <1>7, <2>2, <2>3
<1> QED
  BY <1>8, <1>9

LEMMA ReserveMintKeepsSpacing ==
    ASSUME SpacingInv, NEW u, NEW r \in Recipients, NEW p \in PresentableProofs, NEW n,
           ReserveMint(u, r, p), MintedWith(r, TRUE, n)
    PROVE  (WindowsClosed /\ MintsSpaced)'
<1>1. TokenAdded(r, TRUE)
  BY MintedBefore DEF SpacingInv
<1>2. tokens'[totalSupply].reserve /\ Minted' = Minted \cup {totalSupply}
      /\ \A t \in Minted : tokens'[t] = tokens[t]
  BY <1>1 DEF TokenAdded
<1>3. nextMintTime' = nextMintTime
  BY DEF ReserveMint, windowVars
<1> QED
  BY <1>2, <1>3 DEF SpacingInv, WindowsClosed, MintsSpaced

LEMMA NextSpacing == SpacingInv /\ [Next]_vars => SpacingInv'
<1> SUFFICES ASSUME SpacingInv, [Next]_vars PROVE SpacingInv'
  OBVIOUS
<1>1. CadenceTypeOK'
  BY StepShapes DEF SpacingInv
<1>2. CASE Idle
  BY <1>1, <1>2 DEF SpacingInv, WindowsClosed, MintsSpaced, Idle, supplyVars, Minted
<1>3. CASE \E r \in Recipients, p \in PresentableProofs : \E n :
             Mint(r, p) /\ MintedWith(r, FALSE, n)
  BY <1>1, <1>3, WindowMintKeepsSpacing DEF SpacingInv
<1>4. CASE \E u \in Users, r \in Recipients, p \in PresentableProofs : \E n :
             ReserveMint(u, r, p) /\ MintedWith(r, TRUE, n)
  BY <1>1, <1>4, ReserveMintKeepsSpacing DEF SpacingInv
<1> QED
  BY <1>2, <1>3, <1>4, StepShapes DEF SpacingInv

(* Two tokens minted through the window are a window apart, whatever the    *)
(* owner and the reserve do in between.                                     *)
THEOREM Spaced == Spec => []MintsSpaced
<1>1. SpacingInv => MintsSpaced
  BY DEF SpacingInv
<1> QED
  BY <1>1, InitSpacing, NextSpacing, PTL DEF Spec

-----------------------------------------------------------------------------
(* One proof for every token. *)

ProofInv == CadenceTypeOK /\ TokensMatchActions

LEMMA InitProofs == Init => ProofInv
<1> SUFFICES ASSUME Init PROVE ProofInv
  OBVIOUS
<1>1. Minted = {} /\ SpentCadence = {}
  BY DEF Init, GateInit, CadenceInit, Minted, SpentCadence, SpentActions
<1> QED
  BY <1>1, InitCadenceType DEF ProofInv, TokensMatchActions

LEMMA MintKeepsProofs ==
    ASSUME ProofInv, NEW to \in Recipients, NEW reserve \in BOOLEAN, NEW n,
           MintedWith(to, reserve, n)
    PROVE  TokensMatchActions'
<1>1. TokenAdded(to, reserve)
  BY MintedBefore DEF ProofInv
<1>2. PICK id \in Nat : id = totalSupply
  BY <1>1 DEF TokenAdded
<1> USE DEF ProofInv
<1>3. Minted' = Minted \cup {id} /\ SpentCadence' = SpentCadence \cup {n}
  BY <1>1, <1>2 DEF TokenAdded, MintedWith
<1>4. ASSUME NEW m, NEW t \in Minted
      PROVE  StandsFor(m, t)' <=> StandsFor(m, t)
  BY <1>1 DEF TokenAdded, StandsFor
<1>5. StandsFor(n, id)'
  <2>1. /\ tokens'[id].to = to /\ tokens'[id].reserve = reserve
        /\ tokens'[id].versionId = currentVersionId
    BY <1>1, <1>2 DEF TokenAdded
  <2> QED
    BY <1>2, <2>1 DEF StandsFor, MintedWith
<1>6. \A t \in Minted' : \E m \in SpentCadence' : StandsFor(m, t)'
  BY <1>3, <1>4, <1>5 DEF TokensMatchActions
<1>7. \A m \in SpentCadence' : \E t \in Minted' : StandsFor(m, t)'
  BY <1>3, <1>4, <1>5 DEF TokensMatchActions
<1>8. n.factHash.claim.actionHash.tokenId = totalSupply
  BY DEF MintedWith
<1>9. ASSUME NEW m \in SpentCadence
      PROVE  m.factHash.claim.actionHash.tokenId # totalSupply
  <2>1. PICK t \in Minted : StandsFor(m, t)
    BY DEF TokensMatchActions
  <2>2. m.factHash.claim.actionHash.tokenId = t
    BY <2>1 DEF StandsFor
  <2> QED
    BY <1>1, <2>2 DEF TokenAdded
<1>10. \A m, k \in SpentCadence' :
        m # k => m.factHash.claim.actionHash # k.factHash.claim.actionHash
  BY <1>3, <1>8, <1>9 DEF TokensMatchActions
<1> QED
  BY <1>6, <1>7, <1>10 DEF TokensMatchActions

LEMMA NextProofs == ProofInv /\ [Next]_vars => ProofInv'
<1> SUFFICES ASSUME ProofInv, [Next]_vars PROVE ProofInv'
  OBVIOUS
<1>1. CadenceTypeOK'
  BY StepShapes DEF ProofInv
<1>2. CASE Idle
  BY <1>1, <1>2 DEF ProofInv, TokensMatchActions, StandsFor, Idle, supplyVars, Minted
<1>3. CASE \E r \in Recipients, reserve \in BOOLEAN : \E n : MintedWith(r, reserve, n)
  BY <1>1, <1>3, MintKeepsProofs DEF ProofInv
<1> QED
  BY <1>2, <1>3, StepShapes DEF ProofInv

(* Each token was minted by the one proof that was signed for exactly it.   *)
THEOREM TokensProved == Spec => []TokensMatchActions
<1>1. ProofInv => TokensMatchActions
  BY DEF ProofInv
<1> QED
  BY <1>1, InitProofs, NextProofs, PTL DEF Spec
=============================================================================
