-------------------------- MODULE MintService_proofs --------------------------
(***************************************************************************)
(* Proofs about the attestation server beside the chain, for any wallets,  *)
(* keys, traits, numbers of requests in flight, slots, lifetimes and       *)
(* bounds, in the order in which the parts rest on each other: the gate's  *)
(* verification, the mint contract behind it, wallet authentication, and   *)
(* the server itself: its slot accounting, its sponsorships, where tokens  *)
(* go, and that it implements AllowlistDrop and AuthSession.               *)
(***************************************************************************)
EXTENDS MintService, FiniteSetTheorems, TLAPS

-----------------------------------------------------------------------------
(* What the gate's verification establishes. *)

(* A proof a caller can present carries the fact hash and the signature of  *)
(* attestations the caller holds.                                           *)
LEMMA PresentableProof ==
    ASSUME NEW p \in PresentableProofs, GateTypeOK
    PROVE  /\ p.expiry \in Expiries
           /\ p.factHash \in FactHashes
           /\ \E a \in attested : p.signature.by = a.by /\ p.signature.over = a.over
  BY DEF PresentableProofs, GateTypeOK, FactHashes, Attestations

(* A proof passes verification for a claim only if the current signer's     *)
(* attestation over that very claim has been released.                      *)
LEMMA VerifiedClaimAttested ==
    ASSUME NEW claim, NEW p \in PresentableProofs, GateTypeOK,
           VerifyBackendProof(claim, p)
    PROVE  /\ [by |-> allowlistSigner, over |-> claim] \in attested
           /\ claim \in Claims
<1>1. PICK a \in attested : p.signature.by = a.by /\ p.signature.over = a.over
  BY PresentableProof
<1>2. Recovered(claim, p.signature) = allowlistSigner
  BY DEF VerifyBackendProof
<1>3. allowlistSigner \in Signers /\ allowlistSigner # ZeroAddress
  BY AddressAssumption DEF GateTypeOK
<1>4. p.signature.over = claim /\ p.signature.by = allowlistSigner
  BY <1>2, <1>3 DEF Recovered
<1>5. a \in [by : Signers, over : Claims]
  BY DEF GateTypeOK, Attestations
<1>6. a = [by |-> allowlistSigner, over |-> claim]
  BY <1>1, <1>4, <1>5
<1> QED
  BY <1>5, <1>6

(* Spending a mint proof: the only nullifier added is the claim's own, and  *)
(* the current signer's attestation over that claim has been released.      *)
LEMMA MintSpends ==
    ASSUME GateTypeOK, NEW caller, NEW r \in Recipients, NEW d \in Destinations,
           NEW tr \in Traits, NEW p \in PresentableProofs,
           VerifyAndConsume(caller, r, d, tr, p)
    PROVE  LET c == MintClaim(r, d, tr, p.expiry)
               n == MintNullifier(r, d, tr, FactHash(c))
           IN  /\ n \notin nullifierUsed
               /\ nullifierUsed' = nullifierUsed \cup {n}
               /\ [by |-> allowlistSigner, over |-> c] \in attested
               /\ c \in MintClaims
               /\ c.expiry = 0 \/ now <= c.expiry
<1> DEFINE c == MintClaim(r, d, tr, p.expiry)
<1>1. VerifyBackendProof(c, p)
  BY DEF VerifyAndConsume
<1>2. p.factHash = FactHash(c) /\ (p.expiry = 0 \/ now <= p.expiry)
  BY <1>1 DEF VerifyBackendProof, NotExpired
<1>3. [by |-> allowlistSigner, over |-> c] \in attested
  BY <1>1, VerifiedClaimAttested
<1>4. p.expiry \in Expiries
  BY PresentableProof
<1>5. c \in MintClaims /\ c.expiry = p.expiry
  BY <1>4 DEF MintClaim, MintClaims
<1> QED
  BY <1>2, <1>3, <1>5 DEF VerifyAndConsume, ConsumeNullifier

(* The same for the action nullifier of an account or cadence mint.         *)
LEMMA ActionSpends ==
    ASSUME GateTypeOK, NEW caller, NEW r \in Recipients, NEW a \in ActionTypes,
           NEW h \in ActionHashes, NEW p \in PresentableProofs,
           VerifyActionAndConsume(caller, r, a, h, p)
    PROVE  LET c == ActionClaim(r, a, h, p.expiry)
               n == ActionNullifier(r, a, FactHash(c))
           IN  /\ n \notin nullifierUsed
               /\ nullifierUsed' = nullifierUsed \cup {n}
               /\ [by |-> allowlistSigner, over |-> c] \in attested
               /\ c \in ActionClaims
               /\ c.expiry = 0 \/ now <= c.expiry
<1> DEFINE c == ActionClaim(r, a, h, p.expiry)
<1>1. VerifyBackendProof(c, p)
  BY DEF VerifyActionAndConsume
<1>2. p.factHash = FactHash(c) /\ (p.expiry = 0 \/ now <= p.expiry)
  BY <1>1 DEF VerifyBackendProof, NotExpired
<1>3. [by |-> allowlistSigner, over |-> c] \in attested
  BY <1>1, VerifiedClaimAttested
<1>4. p.expiry \in Expiries
  BY PresentableProof
<1>5. c \in ActionClaims /\ c.expiry = p.expiry
  BY <1>4 DEF ActionClaim, ActionClaims
<1> QED
  BY <1>2, <1>3, <1>5 DEF VerifyActionAndConsume, ConsumeNullifier

-----------------------------------------------------------------------------
(* Types of the gate's variables. *)

LEMMA GateInitTypeOK ==
    ASSUME NEW d \in Users \cap Signers, NEW c \in Consumers, GateInit(d, c)
    PROVE  GateTypeOK
  BY ClockBounds DEF GateInit, GateTypeOK, Times

LEMMA AdminGateTypeOK ==
    ASSUME GateTypeOK, GateAdmin
    PROVE  GateTypeOK'
<1> USE DEF GateTypeOK
<1>1. CASE Tick
  BY <1>1, ClockBounds DEF Tick, AdvanceClock, gateVars, Times
<1>2. ASSUME NEW u \in Users, NEW v \in Users, TransferOwnership(u, v)
      PROVE  GateTypeOK'
  BY <1>2 DEF TransferOwnership
<1>3. ASSUME NEW u \in Users, NEW c \in Consumers, NEW allowed \in BOOLEAN,
             SetAuthorizedCaller(u, c, allowed)
      PROVE  GateTypeOK'
  BY <1>3 DEF SetAuthorizedCaller
<1>4. ASSUME NEW u \in Users, NEW k \in Signers, SetAllowlistSigner(u, k)
      PROVE  GateTypeOK'
  BY <1>4 DEF SetAllowlistSigner
<1> QED
  BY <1>1, <1>2, <1>3, <1>4 DEF GateAdmin

LEMMA AttestGateTypeOK ==
    ASSUME GateTypeOK, NEW k \in Signers, NEW c \in Signable, Attest(k, c)
    PROVE  GateTypeOK'
  BY SignableAssumption DEF GateTypeOK, Attest, Attestations

LEMMA MintProofGateTypeOK ==
    ASSUME GateTypeOK, NEW caller, NEW r \in Recipients, NEW d \in Destinations,
           NEW tr \in Traits, NEW p \in PresentableProofs,
           VerifyAndConsume(caller, r, d, tr, p)
    PROVE  GateTypeOK'
<1>1. p.factHash \in FactHashes
  BY PresentableProof
<1>2. MintNullifier(r, d, tr, p.factHash) \in MintNullifiers
  BY <1>1 DEF MintNullifier, MintNullifiers
<1> QED
  BY <1>2 DEF GateTypeOK, VerifyAndConsume, ConsumeNullifier

LEMMA ActionProofGateTypeOK ==
    ASSUME GateTypeOK, NEW caller, NEW r \in Recipients, NEW a \in ActionTypes,
           NEW h \in ActionHashes, NEW p \in PresentableProofs,
           VerifyActionAndConsume(caller, r, a, h, p)
    PROVE  GateTypeOK'
<1>1. p.factHash \in FactHashes
  BY PresentableProof
<1>2. ActionNullifier(r, a, p.factHash) \in ActionNullifiers
  BY <1>1 DEF ActionNullifier, ActionNullifiers
<1> QED
  BY <1>2 DEF GateTypeOK, VerifyActionAndConsume, ConsumeNullifier

(* Steps that spend nothing keep every attestation that was released. *)
LEMMA QuietSteps ==
    ASSUME \/ GateAdmin
           \/ \E k \in Signers, c \in Signable : Attest(k, c)
           \/ UNCHANGED gateVars
    PROVE  nullifierUsed' = nullifierUsed /\ attested \subseteq attested'
  BY DEF GateAdmin, Tick, gateVars, TransferOwnership, SetAuthorizedCaller,
         SetAllowlistSigner, Attest

-----------------------------------------------------------------------------
(* The mint contract: type correctness. *)

LEMMA InitTypeOK == Init => TypeOK
  BY MintBounds, ClockBounds
  DEF Init, GateInit, MintInit, TypeOK, GateTypeOK, MintTypeOK, Times

(* Steps of the gate that leave the mint alone. *)
LEMMA OtherStepTypeOK ==
    ASSUME TypeOK, GateTypeOK', UNCHANGED mintVars
    PROVE  TypeOK'
  BY DEF TypeOK, MintTypeOK, mintVars, Tokens, NoToken, TokenIds

LEMMA MintStepTypeOK ==
    ASSUME TypeOK, NEW r \in Recipients, NEW d \in Destinations, NEW tr \in Traits,
           NEW p \in PresentableProofs, Mint(r, d, tr, p)
    PROVE  TypeOK'
<1>1. GateTypeOK'
  BY MintProofGateTypeOK DEF TypeOK, Mint
<1>2. MintTypeOK'
  BY MintBounds
  DEF TypeOK, MintTypeOK, Mint, NotSoldOut, ValidMintArgs, Tokens, TokenIds
<1> QED
  BY <1>1, <1>2 DEF TypeOK

LEMMA NextTypeOK == TypeOK /\ [MintNext]_vars => TypeOK'
<1> SUFFICES ASSUME TypeOK, [MintNext]_vars PROVE TypeOK'
  OBVIOUS
<1>1. CASE GateAdmin /\ UNCHANGED mintVars
  BY <1>1, AdminGateTypeOK, OtherStepTypeOK DEF TypeOK
<1>2. CASE \E k \in Signers, c \in Signable : Attest(k, c) /\ UNCHANGED mintVars
  BY <1>2, AttestGateTypeOK, OtherStepTypeOK DEF TypeOK
<1>3. CASE \E r \in Recipients, d \in Destinations, tr \in Traits,
              p \in PresentableProofs : Mint(r, d, tr, p)
  BY <1>3, MintStepTypeOK
<1>4. CASE \E c \in Consumers \ {MintContract}, r \in Recipients, a \in ActionTypes,
              h \in ActionHashes, p \in PresentableProofs :
              VerifyActionAndConsume(c, r, a, h, p) /\ UNCHANGED mintVars
  BY <1>4, ActionProofGateTypeOK, OtherStepTypeOK DEF TypeOK
<1>5. CASE UNCHANGED vars
  BY <1>5 DEF vars, gateVars, mintVars, TypeOK, GateTypeOK, MintTypeOK
<1> QED
  BY <1>1, <1>2, <1>3, <1>4, <1>5 DEF MintNext

(* Every variable of the gate and of the mint keeps its type. *)
THEOREM TypeCorrect == Spec => []TypeOK
  BY InitTypeOK, NextTypeOK, PTL DEF Spec

-----------------------------------------------------------------------------
(* What is spent was signed. *)

(* The nullifier of a mint step fits the attestation it was checked with. *)
LEMMA MintKeepsSpentAttested ==
    ASSUME TypeOK, SpentProofsAttested, NEW r \in Recipients, NEW d \in Destinations,
           NEW tr \in Traits, NEW p \in PresentableProofs, Mint(r, d, tr, p)
    PROVE  SpentProofsAttested'
<1> DEFINE c == MintClaim(r, d, tr, p.expiry)
           n == MintNullifier(r, d, tr, FactHash(c))
           a == [by |-> allowlistSigner, over |-> c]
<1>1. nullifierUsed' = nullifierUsed \cup {n} /\ a \in attested /\ c \in MintClaims
  BY MintSpends DEF Mint, TypeOK
<1>2. attested' = attested
  BY DEF Mint, VerifyAndConsume
<1>3. SpentMints' = SpentMints \cup {n} /\ SpentActions' = SpentActions
  BY <1>1 DEF SpentMints, SpentActions, MintNullifier
<1>4. /\ n.factHash = FactHash(a.over) /\ a.over \in MintClaims
      /\ a.over.recipient = n.recipient /\ a.over.mintTo = n.mintTo
      /\ a.over.traits = n.traits
  BY <1>1 DEF MintNullifier, MintClaim
<1> QED
  BY <1>1, <1>2, <1>3, <1>4 DEF SpentProofsAttested

LEMMA ActionKeepsSpentAttested ==
    ASSUME TypeOK, SpentProofsAttested, NEW caller, NEW r \in Recipients,
           NEW t \in ActionTypes, NEW h \in ActionHashes, NEW p \in PresentableProofs,
           VerifyActionAndConsume(caller, r, t, h, p)
    PROVE  SpentProofsAttested'
<1> DEFINE c == ActionClaim(r, t, h, p.expiry)
           n == ActionNullifier(r, t, FactHash(c))
           a == [by |-> allowlistSigner, over |-> c]
<1>1. nullifierUsed' = nullifierUsed \cup {n} /\ a \in attested /\ c \in ActionClaims
  BY ActionSpends DEF TypeOK
<1>2. attested' = attested
  BY DEF VerifyActionAndConsume
<1>3. SpentMints' = SpentMints /\ SpentActions' = SpentActions \cup {n}
  BY <1>1 DEF SpentMints, SpentActions, ActionNullifier
<1>4. /\ n.factHash = FactHash(a.over) /\ a.over \in ActionClaims
      /\ a.over.recipient = n.recipient /\ a.over.actionType = n.actionType
  BY <1>1 DEF ActionNullifier, ActionClaim
<1> QED
  BY <1>1, <1>2, <1>3, <1>4 DEF SpentProofsAttested

LEMMA InitSpentAttested == Init => SpentProofsAttested
  BY DEF Init, GateInit, SpentProofsAttested, SpentMints, SpentActions

LEMMA NextSpentAttested ==
    TypeOK /\ SpentProofsAttested /\ [MintNext]_vars => SpentProofsAttested'
<1> SUFFICES ASSUME TypeOK, SpentProofsAttested, [MintNext]_vars
             PROVE  SpentProofsAttested'
  OBVIOUS
<1>1. CASE \/ GateAdmin
           \/ \E k \in Signers, c \in Signable : Attest(k, c)
           \/ UNCHANGED vars
  BY <1>1, QuietSteps DEF SpentProofsAttested, SpentMints, SpentActions, vars
<1>2. CASE \E r \in Recipients, d \in Destinations, tr \in Traits,
              p \in PresentableProofs : Mint(r, d, tr, p)
  BY <1>2, MintKeepsSpentAttested
<1>3. CASE \E c \in Consumers \ {MintContract}, r \in Recipients, a \in ActionTypes,
              h \in ActionHashes, p \in PresentableProofs :
              VerifyActionAndConsume(c, r, a, h, p)
  BY <1>3, ActionKeepsSpentAttested
<1> QED
  BY <1>1, <1>2, <1>3 DEF MintNext

(* Every spent nullifier stands for a claim that was signed and released,   *)
(* with the same recipient, destination and traits, or action type.         *)
THEOREM SpentAttested == Spec => []SpentProofsAttested
  BY InitTypeOK, NextTypeOK, InitSpentAttested, NextSpentAttested, PTL DEF Spec

(* A step spends only what the signer of that instant signed, unexpired. *)
LEMMA StepSpendsCurrent ==
    ASSUME TypeOK, [MintNext]_vars
    PROVE  \A n \in nullifierUsed' \ nullifierUsed :
             \E a \in attested : /\ n.factHash = FactHash(a.over)
                                 /\ a.by = allowlistSigner
                                 /\ a.over.expiry = 0 \/ now <= a.over.expiry
<1>1. CASE \/ GateAdmin
           \/ \E k \in Signers, c \in Signable : Attest(k, c)
           \/ UNCHANGED vars
  BY <1>1, QuietSteps DEF vars
<1>2. ASSUME NEW r \in Recipients, NEW d \in Destinations, NEW tr \in Traits,
             NEW p \in PresentableProofs, Mint(r, d, tr, p)
      PROVE  \A n \in nullifierUsed' \ nullifierUsed :
               \E a \in attested : /\ n.factHash = FactHash(a.over)
                                   /\ a.by = allowlistSigner
                                   /\ a.over.expiry = 0 \/ now <= a.over.expiry
  <2> DEFINE c == MintClaim(r, d, tr, p.expiry)
             n == MintNullifier(r, d, tr, FactHash(c))
  <2>1. /\ nullifierUsed' = nullifierUsed \cup {n}
        /\ [by |-> allowlistSigner, over |-> c] \in attested
        /\ c.expiry = 0 \/ now <= c.expiry
    BY <1>2, MintSpends DEF Mint, TypeOK
  <2>2. n.factHash = FactHash(c)
    BY DEF MintNullifier
  <2> QED
    BY <2>1, <2>2
<1>3. ASSUME NEW caller, NEW r \in Recipients, NEW t \in ActionTypes,
             NEW h \in ActionHashes, NEW p \in PresentableProofs,
             VerifyActionAndConsume(caller, r, t, h, p)
      PROVE  \A n \in nullifierUsed' \ nullifierUsed :
               \E a \in attested : /\ n.factHash = FactHash(a.over)
                                   /\ a.by = allowlistSigner
                                   /\ a.over.expiry = 0 \/ now <= a.over.expiry
  <2> DEFINE c == ActionClaim(r, t, h, p.expiry)
             n == ActionNullifier(r, t, FactHash(c))
  <2>1. /\ nullifierUsed' = nullifierUsed \cup {n}
        /\ [by |-> allowlistSigner, over |-> c] \in attested
        /\ c.expiry = 0 \/ now <= c.expiry
    BY <1>3, ActionSpends DEF TypeOK
  <2>2. n.factHash = FactHash(c)
    BY DEF ActionNullifier
  <2> QED
    BY <2>1, <2>2
<1> QED
  BY <1>1, <1>2, <1>3 DEF MintNext

(* Rotating the signer revokes at once every proof not yet spent. *)
THEOREM SpentCurrent == Spec => SpentWhileCurrent
<1>1. TypeOK /\ [MintNext]_vars
        => [\A n \in nullifierUsed' \ nullifierUsed :
              \E a \in attested : /\ n.factHash = FactHash(a.over)
                                  /\ a.by = allowlistSigner
                                  /\ a.over.expiry = 0 \/ now <= a.over.expiry]_vars
  BY StepSpendsCurrent
<1> QED
  BY <1>1, InitTypeOK, NextTypeOK, PTL DEF Spec, SpentWhileCurrent

-----------------------------------------------------------------------------
(* One token for every spent proof.  TokensMatchSpentProofs compares        *)
(* cardinalities, so the invariant also keeps the nullifiers finite.        *)

MatchInv == TypeOK /\ TokensMatchSpentProofs /\ IsFiniteSet(nullifierUsed)

LEMMA MintedIsNotNoToken ==
    ASSUME NEW d, NEW tr PROVE [to |-> d, traits |-> tr] # NoToken
<1>1. "traits" \in DOMAIN [to |-> d, traits |-> tr]
  OBVIOUS
<1>2. "traits" \notin DOMAIN NoToken
  BY DEF NoToken
<1> QED
  BY <1>1, <1>2

LEMMA FiniteParts ==
    ASSUME IsFiniteSet(nullifierUsed), NEW d, NEW tr
    PROVE  IsFiniteSet(TokensWith(d, tr)) /\ IsFiniteSet(SpentFor(d, tr))
<1>1. IsFiniteSet(TokenIds)
  BY FS_Interval, MintBounds DEF TokenIds
<1>2. TokensWith(d, tr) \in SUBSET TokenIds /\ SpentFor(d, tr) \in SUBSET nullifierUsed
  BY DEF TokensWith, SpentFor, SpentMints
<1> QED
  BY <1>1, <1>2, FS_Subset

LEMMA InitMatch == Init => MatchInv
<1> SUFFICES ASSUME Init PROVE MatchInv
  OBVIOUS
<1>1. nullifierUsed = {} /\ totalSupply = 0 /\ tokens = [t \in TokenIds |-> NoToken]
  BY DEF Init, GateInit, MintInit
<1>2. \A t \in TokenIds : t < totalSupply <=> tokens[t] # NoToken
  BY <1>1, MintBounds DEF TokenIds
<1>3. ASSUME NEW d \in Destinations, NEW tr \in ValidTraits
      PROVE  Cardinality(TokensWith(d, tr)) = Cardinality(SpentFor(d, tr))
  <2>1. TokensWith(d, tr) = {}
    BY <1>1, MintedIsNotNoToken DEF TokensWith
  <2>2. SpentFor(d, tr) = {}
    BY <1>1 DEF SpentFor, SpentMints
  <2> QED
    BY <2>1, <2>2
<1> QED
  BY <1>1, <1>2, <1>3, InitTypeOK, FS_EmptySet DEF MatchInv, TokensMatchSpentProofs

(* A mint adds one token and one nullifier to the sets of its destination   *)
(* and traits, and nothing to any other.                                    *)
LEMMA MintKeepsMatch ==
    ASSUME MatchInv, NEW r \in Recipients, NEW d \in Destinations, NEW tr \in Traits,
           NEW p \in PresentableProofs, Mint(r, d, tr, p)
    PROVE  TokensMatchSpentProofs' /\ IsFiniteSet(nullifierUsed)'
<1> DEFINE n == MintNullifier(r, d, tr, FactHash(MintClaim(r, d, tr, p.expiry)))
<1> USE DEF MatchInv
<1>1. n \notin nullifierUsed /\ nullifierUsed' = nullifierUsed \cup {n}
  BY MintSpends DEF Mint, TypeOK
<1>2. /\ totalSupply \in TokenIds /\ totalSupply' = totalSupply + 1
      /\ tokens' = [tokens EXCEPT ![totalSupply] = [to |-> d, traits |-> tr]]
      /\ tokens \in [TokenIds -> Tokens \cup {NoToken}]
      /\ d # ZeroAddress /\ tr \in ValidTraits
  BY MintBounds DEF TypeOK, MintTypeOK, Mint, NotSoldOut, ValidMintArgs, TokenIds
<1>3. n.tag = "NULL_V1" /\ n.mintTo = d /\ n.traits = tr
  BY DEF MintNullifier
<1>4. \A t \in TokenIds : (t < totalSupply <=> tokens[t] # NoToken)
  BY DEF TokensMatchSpentProofs
<1>5. tokens[totalSupply] = NoToken
  BY <1>2, <1>4, MintBounds DEF TokenIds
<1>6. \A t \in TokenIds : (t < totalSupply' <=> tokens'[t] # NoToken)
  BY <1>2, <1>4, MintedIsNotNoToken, MintBounds DEF TokenIds
<1>7. IsFiniteSet(nullifierUsed')
  BY <1>1, FS_AddElement
<1>8. ASSUME NEW e \in Destinations, NEW ts \in ValidTraits
      PROVE  Cardinality(TokensWith(e, ts)') = Cardinality(SpentFor(e, ts)')
  <2>1. IsFiniteSet(TokensWith(e, ts)) /\ IsFiniteSet(SpentFor(e, ts))
    BY FiniteParts
  <2>2. Cardinality(TokensWith(e, ts)) = Cardinality(SpentFor(e, ts))
    BY DEF TokensMatchSpentProofs
  <2>3. totalSupply \notin TokensWith(e, ts)
    BY <1>5, MintedIsNotNoToken DEF TokensWith
  <2>4. n \notin SpentFor(e, ts)
    BY <1>1 DEF SpentFor, SpentMints
  <2>5. CASE e = d /\ ts = tr
    <3>1. TokensWith(e, ts)' = TokensWith(e, ts) \cup {totalSupply}
      BY <1>2, <2>5 DEF TokensWith
    <3>2. SpentFor(e, ts)' = SpentFor(e, ts) \cup {n}
      BY <1>1, <1>3, <2>5 DEF SpentFor, SpentMints
    <3>3. Cardinality(TokensWith(e, ts) \cup {totalSupply}) = Cardinality(TokensWith(e, ts)) + 1
      BY <2>1, <2>3, FS_AddElement
    <3>4. Cardinality(SpentFor(e, ts) \cup {n}) = Cardinality(SpentFor(e, ts)) + 1
      BY <2>1, <2>4, FS_AddElement
    <3> HIDE DEF n
    <3> QED
      BY <2>2, <3>1, <3>2, <3>3, <3>4
  <2>6. CASE ~(e = d /\ ts = tr)
    <3>1. [to |-> d, traits |-> tr] # [to |-> e, traits |-> ts]
      BY <2>6
    <3>2. TokensWith(e, ts)' = TokensWith(e, ts)
      BY <1>2, <2>3, <3>1 DEF TokensWith
    <3>3. SpentFor(e, ts)' = SpentFor(e, ts)
      BY <1>1, <1>3, <2>6 DEF SpentFor, SpentMints
    <3> QED
      BY <2>2, <3>2, <3>3
  <2> QED
    BY <2>5, <2>6
<1> QED
  BY <1>6, <1>7, <1>8 DEF TokensMatchSpentProofs

LEMMA ActionKeepsMatch ==
    ASSUME MatchInv, NEW caller, NEW r \in Recipients, NEW t \in ActionTypes,
           NEW h \in ActionHashes, NEW p \in PresentableProofs,
           VerifyActionAndConsume(caller, r, t, h, p), UNCHANGED mintVars
    PROVE  TokensMatchSpentProofs' /\ IsFiniteSet(nullifierUsed)'
<1> DEFINE n == ActionNullifier(r, t, FactHash(ActionClaim(r, t, h, p.expiry)))
<1>1. nullifierUsed' = nullifierUsed \cup {n}
  BY ActionSpends DEF MatchInv, TypeOK
<1>2. n.tag = "packed"
  BY DEF ActionNullifier
<1>3. SpentMints' = SpentMints
  BY <1>1, <1>2 DEF SpentMints
<1>4. IsFiniteSet(nullifierUsed')
  BY <1>1, FS_AddElement DEF MatchInv
<1> QED
  BY <1>3, <1>4 DEF MatchInv, TokensMatchSpentProofs, TokensWith, SpentFor, mintVars

LEMMA NextMatch == MatchInv /\ [MintNext]_vars => MatchInv'
<1> SUFFICES ASSUME MatchInv, [MintNext]_vars PROVE MatchInv'
  OBVIOUS
<1>1. TypeOK'
  BY NextTypeOK DEF MatchInv
<1>2. CASE /\ \/ GateAdmin
              \/ \E k \in Signers, c \in Signable : Attest(k, c)
           /\ UNCHANGED mintVars
  BY <1>1, <1>2, QuietSteps
  DEF MatchInv, TokensMatchSpentProofs, TokensWith, SpentFor, SpentMints, mintVars
<1>3. CASE UNCHANGED vars
  BY <1>1, <1>3
  DEF MatchInv, TokensMatchSpentProofs, TokensWith, SpentFor, SpentMints, vars, gateVars,
      mintVars
<1>4. CASE \E r \in Recipients, d \in Destinations, tr \in Traits,
              p \in PresentableProofs : Mint(r, d, tr, p)
  BY <1>1, <1>4, MintKeepsMatch DEF MatchInv
<1>5. CASE \E c \in Consumers \ {MintContract}, r \in Recipients, a \in ActionTypes,
              h \in ActionHashes, p \in PresentableProofs :
              VerifyActionAndConsume(c, r, a, h, p) /\ UNCHANGED mintVars
  BY <1>1, <1>5, ActionKeepsMatch DEF MatchInv
<1> QED
  BY <1>2, <1>3, <1>4, <1>5 DEF MintNext

(* No proof is minted twice and no token exists without a spent proof.      *)
THEOREM TokensMatch == Spec => []TokensMatchSpentProofs
<1>1. MatchInv => TokensMatchSpentProofs
  BY DEF MatchInv
<1> QED
  BY <1>1, InitMatch, NextMatch, PTL DEF Spec

-----------------------------------------------------------------------------
(* Wallet authentication. *)

(* A nonce names one challenge, and only a nonce that was drawn names a     *)
(* challenge or a session.                                                  *)
NoncesNameOne ==
    /\ \A c \in challenges : c.nonce \in DOMAIN opened
    /\ \A c, d \in challenges : c.nonce = d.nonce => c = d
    /\ \A s \in sessions : s.token \in DOMAIN opened /\ opened[s.token] >= 1

(* OneSessionPerChallenge alone is not inductive: a second session is ruled *)
(* out by the challenge row being spent, which relates the two tables.      *)
AuthInv ==
    /\ AuthTypeOK
    /\ OneSessionPerChallenge
    /\ OpenChallengeHasNoSession
    /\ NoncesNameOne

-----------------------------------------------------------------------------
LEMMA InitAuthInv == AuthInit => AuthInv
  BY ClockBounds, AuthBounds
  DEF AuthInit, AuthInv, AuthTypeOK, OneSessionPerChallenge, OpenChallengeHasNoSession,
      NoncesNameOne, Times

LEMMA LiveIsSome ==
    LiveChallenges \subseteq challenges /\ LiveSessions \subseteq sessions
  BY DEF LiveChallenges, LiveSessions

(* A fresh nonce: no row of either table carries it yet. *)
LEMMA CreateChallengeKeeps ==
    ASSUME AuthInv, NEW w \in Wallets, CreateAuthChallenge(w), UNCHANGED now
    PROVE  AuthInv'
<1> DEFINE n == Len(opened) + 1
           c == [nonce |-> n, recipient |-> w, expires |-> now + ChallengeTtl,
                 consumed |-> FALSE]
<1> USE DEF AuthInv
<1>1. /\ opened \in Seq(Nat) /\ Len(opened) < MaxChallenges
      /\ opened' = Append(opened, 0) /\ challenges' = challenges \cup {c}
      /\ sessions' = sessions /\ now' = now
  BY DEF CreateAuthChallenge, ChallengeExpiry, AuthTypeOK
<1>2. /\ opened' \in Seq(Nat) /\ Len(opened') = n /\ n \in Nonces
      /\ DOMAIN opened = 1 .. Len(opened) /\ DOMAIN opened' = 1 .. n
      /\ \A m \in DOMAIN opened : opened'[m] = opened[m]
      /\ opened'[n] = 0 /\ n \notin DOMAIN opened
  BY <1>1, AuthBounds DEF Nonces
<1>3. c \in Challenges
  BY <1>2, ClockBounds, AuthBounds DEF Challenges, Expiries, AuthTypeOK, Times
<1>4. AuthTypeOK'
  <2>1. Len(opened') <= MaxChallenges
    BY <1>2, AuthBounds DEF Nonces
  <2> QED
    BY <1>1, <1>2, <1>3, <2>1 DEF AuthTypeOK
<1>5. OneSessionPerChallenge'
  BY <1>2 DEF OneSessionPerChallenge
<1>6. OpenChallengeHasNoSession'
  BY <1>1, <1>2 DEF OpenChallengeHasNoSession, NoncesNameOne
<1>7. NoncesNameOne'
  <2>1. c.nonce = n /\ \A d \in challenges : d.nonce # n
    BY <1>2 DEF NoncesNameOne
  <2>2. \A d \in challenges' : d.nonce \in DOMAIN opened'
    BY <1>1, <1>2, <2>1 DEF NoncesNameOne
  <2>3. \A d, e \in challenges' : d.nonce = e.nonce => d = e
    BY <1>1, <2>1 DEF NoncesNameOne
  <2>4. \A s \in sessions' : s.token \in DOMAIN opened' /\ opened'[s.token] >= 1
    BY <1>1, <1>2 DEF NoncesNameOne
  <2> QED
    BY <2>2, <2>3, <2>4 DEF NoncesNameOne
<1> QED
  BY <1>4, <1>5, <1>6, <1>7

(* Steps that spend or purge challenge rows without opening a session. *)
LEMMA PurgeKeeps ==
    ASSUME AuthInv, UNCHANGED <<now, opened>>,
           sessions' \subseteq sessions,
           challenges' \subseteq challenges \/
             \E w \in Wallets, n \in Nonces, c \in challenges : ConsumeAuthChallenge(w, n, c)
    PROVE  AuthInv'
<1> USE DEF AuthInv
<1>1. CASE challenges' \subseteq challenges
  BY <1>1 DEF AuthTypeOK, OneSessionPerChallenge, OpenChallengeHasNoSession, NoncesNameOne
<1>2. ASSUME NEW c \in challenges,
             challenges' = (LiveChallenges \ {c}) \cup {[c EXCEPT !.consumed = TRUE]}
      PROVE  AuthInv'
  <2>1. /\ [c EXCEPT !.consumed = TRUE] \in Challenges
        /\ [c EXCEPT !.consumed = TRUE].nonce = c.nonce
        /\ [c EXCEPT !.consumed = TRUE].recipient = c.recipient
        /\ [c EXCEPT !.consumed = TRUE].consumed
    BY DEF AuthTypeOK, Challenges
  <2>2. AuthTypeOK'
    BY <1>2, <2>1, LiveIsSome DEF AuthTypeOK
  <2>3. OneSessionPerChallenge'
    BY DEF OneSessionPerChallenge
  <2>4. OpenChallengeHasNoSession'
    BY <1>2, <2>1, LiveIsSome DEF OpenChallengeHasNoSession
  <2>5. NoncesNameOne'
    <3> DEFINE spent == [c EXCEPT !.consumed = TRUE]
    <3>1. \A d \in challenges' : d = spent \/ (d \in challenges /\ d.nonce # c.nonce)
      BY <1>2, LiveIsSome DEF NoncesNameOne
    <3>2. spent.nonce = c.nonce
      BY <2>1
    <3> HIDE DEF spent
    <3>3. \A d \in challenges' : d.nonce \in DOMAIN opened'
      BY <3>1, <3>2 DEF NoncesNameOne
    <3>4. \A d, e \in challenges' : d.nonce = e.nonce => d = e
      BY <3>1, <3>2 DEF NoncesNameOne
    <3>5. \A s \in sessions' : s.token \in DOMAIN opened' /\ opened'[s.token] >= 1
      BY DEF NoncesNameOne
    <3> QED
      BY <3>3, <3>4, <3>5 DEF NoncesNameOne
  <2> QED
    BY <2>2, <2>3, <2>4, <2>5
<1> QED
  BY <1>1, <1>2 DEF ConsumeAuthChallenge

(* A session is opened with a challenge that was still open, so it is the   *)
(* first for its nonce.                                                     *)
LEMMA CreateSessionKeeps ==
    ASSUME AuthInv, NEW w \in Wallets, NEW n \in Nonces, CreateAuthSession(w, n),
           UNCHANGED now
    PROVE  AuthInv'
<1> USE DEF AuthInv
<1>1. PICK c \in challenges : ConsumeAuthChallenge(w, n, c)
  BY DEF CreateAuthSession
<1> DEFINE spent == [c EXCEPT !.consumed = TRUE]
           s == [token |-> n, recipient |-> w, expires |-> now + SessionTtl]
<1>2. /\ c.nonce = n /\ c.recipient = w /\ ~c.consumed
      /\ challenges' = (LiveChallenges \ {c}) \cup {spent}
      /\ sessions' = sessions \cup {s}
      /\ opened' = [opened EXCEPT ![n] = @ + 1] /\ now' = now
  BY <1>1 DEF ConsumeAuthChallenge, CreateAuthSession, LiveChallenges
<1>3. /\ spent \in Challenges /\ spent.nonce = n /\ spent.recipient = w /\ spent.consumed
      /\ s \in Sessions /\ s.token = n /\ s.recipient = w
  <2>1. c \in Challenges
    BY DEF AuthTypeOK
  <2>2. spent \in Challenges /\ spent.nonce = n /\ spent.recipient = w /\ spent.consumed
    BY <1>2, <2>1 DEF Challenges
  <2>3. now + SessionTtl \in Expiries
    BY ClockBounds, AuthBounds DEF AuthTypeOK, Expiries, Times
  <2>4. s \in Sessions
    BY <2>3 DEF Sessions
  <2> QED
    BY <2>2, <2>4
<1>4. n \in DOMAIN opened /\ opened[n] = 0
  BY <1>2 DEF NoncesNameOne, OpenChallengeHasNoSession
<1>5. /\ opened \in Seq(Nat) /\ opened' \in Seq(Nat) /\ Len(opened') = Len(opened)
      /\ DOMAIN opened' = DOMAIN opened /\ opened'[n] = 1
      /\ \A m \in DOMAIN opened : m # n => opened'[m] = opened[m]
  BY <1>2, <1>4 DEF AuthTypeOK
<1>6. AuthTypeOK'
  BY <1>2, <1>3, <1>5, LiveIsSome DEF AuthTypeOK
<1>7. OneSessionPerChallenge'
  BY <1>5 DEF OneSessionPerChallenge
<1>8. \A d \in challenges' : d # spent => d \in challenges /\ d.nonce # n
  BY <1>2, LiveIsSome DEF NoncesNameOne
<1>9. \A t \in sessions : t.token # n
  BY <1>4 DEF NoncesNameOne
<1> HIDE DEF spent, s
<1>10. OpenChallengeHasNoSession'
  <2>1. ASSUME NEW d \in challenges', ~d.consumed PROVE opened'[d.nonce] = 0
    BY <1>3, <1>5, <1>8, <2>1 DEF OpenChallengeHasNoSession, NoncesNameOne
  <2>2. ASSUME NEW d \in challenges', NEW t \in sessions', t.token = d.nonce
        PROVE  t.recipient = d.recipient
    BY <1>2, <1>3, <1>8, <1>9, <2>2 DEF OpenChallengeHasNoSession
  <2> QED
    BY <2>1, <2>2 DEF OpenChallengeHasNoSession
<1>11. NoncesNameOne'
  <2>1. \A d \in challenges' : d.nonce \in DOMAIN opened'
    BY <1>3, <1>4, <1>5, <1>8 DEF NoncesNameOne
  <2>2. \A d, e \in challenges' : d.nonce = e.nonce => d = e
    BY <1>3, <1>8 DEF NoncesNameOne
  <2>3. \A t \in sessions' : t.token \in DOMAIN opened' /\ opened'[t.token] >= 1
    BY <1>2, <1>3, <1>4, <1>5, <1>9 DEF NoncesNameOne
  <2> QED
    BY <2>1, <2>2, <2>3 DEF NoncesNameOne
<1> QED
  BY <1>6, <1>7, <1>10, <1>11

LEMMA NextAuthInv == AuthInv /\ [AuthNext]_<<now, authVars>> => AuthInv'
<1> SUFFICES ASSUME AuthInv, [AuthNext]_<<now, authVars>> PROVE AuthInv'
  OBVIOUS
<1>1. ASSUME NEW w \in Wallets, CreateAuthChallenge(w), UNCHANGED now PROVE AuthInv'
  BY <1>1, CreateChallengeKeeps
<1>2. ASSUME NEW w \in Wallets, NEW n \in Nonces, CreateAuthSession(w, n), UNCHANGED now
      PROVE  AuthInv'
  BY <1>2, CreateSessionKeeps
<1>3. ASSUME NEW w \in Wallets, NEW n \in Nonces, WasteAuthChallenge(w, n), UNCHANGED now
      PROVE  AuthInv'
  BY <1>3, PurgeKeeps DEF WasteAuthChallenge
<1>4. ASSUME NEW w \in Wallets, NEW n \in Nonces, RejectAuthChallenge(w, n), UNCHANGED now
      PROVE  AuthInv'
  BY <1>4, PurgeKeeps, LiveIsSome DEF RejectAuthChallenge
<1>5. ASSUME RejectAuthToken, UNCHANGED now PROVE AuthInv'
  BY <1>5, PurgeKeeps, LiveIsSome DEF RejectAuthToken
<1>6. CASE AdvanceClock /\ UNCHANGED authVars
  BY <1>6, ClockBounds
  DEF AdvanceClock, authVars, AuthInv, AuthTypeOK, OneSessionPerChallenge,
      OpenChallengeHasNoSession, NoncesNameOne, Times
<1>7. CASE UNCHANGED <<now, authVars>>
  BY <1>7 DEF authVars, AuthInv, AuthTypeOK, OneSessionPerChallenge,
      OpenChallengeHasNoSession, NoncesNameOne
<1> QED
  BY <1>1, <1>2, <1>3, <1>4, <1>5, <1>6, <1>7 DEF AuthNext, AuthStep

(* No challenge is ever worth two sessions, or one of another wallet,       *)
(* whatever is posted when.                                                 *)
THEOREM ChallengeOpensOnce == AuthSpec => []ChallengeOpensItsSession
<1>1. AuthInv => ChallengeOpensItsSession
  BY DEF AuthInv, ChallengeOpensItsSession
<1> QED
  BY <1>1, InitAuthInv, NextAuthInv, PTL DEF AuthSpec

(* The rows of the tables keep their types. *)
THEOREM AuthTypeCorrect == AuthSpec => []AuthTypeOK
<1>1. AuthInv => AuthTypeOK
  BY DEF AuthInv
<1> QED
  BY <1>1, InitAuthInv, NextAuthInv, PTL DEF AuthSpec

-----------------------------------------------------------------------------
(* The server: the inductive invariant. *)

ServerTypeOK ==
    /\ up \in BOOLEAN /\ backendKey \in Signers
    /\ remaining \in 0 .. NoRow
    /\ issued \subseteq IssuedProofs
    /\ handler \in [Handlers -> Requests \cup {Idle}]
    /\ sponsorships \subseteq Sponsorships
    /\ granted \subseteq GrantedProofs

ForAllowedWallet(claim) ==
    /\ claim.recipient = AllowedAddress
    /\ claim.mintTo = SmartAccountOf[AllowedAddress]

(* Proof ids are drawn in order, one per slot, for the allowed wallet. *)
GrantsNumbered ==
    /\ IsFiniteSet(granted)
    /\ \A g \in granted : g.id <= Cardinality(granted) /\ ForAllowedWallet(g.claim)
    /\ \A f, g \in granted : f.id = g.id => f = g

(* What a request in flight remembers, however stale, was true and stays so. *)
RequestTrue(r) ==
    /\ r.at = "persist" =>
         /\ r.claim.recipient \in Wallets
         /\ r.claim.mintTo = SmartAccountOf[r.claim.recipient]
    /\ r.at = "reply" => \E g \in granted : g.claim = r.claim
    /\ r.at \in {"signer", "nullifier", "lock", "answer"} =>
         /\ [id |-> r.id, claim |-> r.claim] \in granted
         /\ r.start <= r.claim.expiry
    /\ r.at \in {"lock", "answer"} => r.userOp = r.claim
RequestsTrue == \A h \in Handlers : RequestTrue(handler[h])

(* A sponsorship for an id, released or about to be, means its row is       *)
(* signed; so the row is what keeps a second one away.                      *)
Answering(h, id) == handler[h].at = "answer" /\ handler[h].id = id
RowsGuardSponsorships ==
    /\ \A r, s \in issued : r.id = s.id => r = s
    /\ \A r \in issued : ~r.paymasterSigned =>
         /\ \A p \in sponsorships : p.id # r.id
         /\ \A h \in Handlers : ~Answering(h, r.id)
    /\ \A h \in Handlers : \A p \in sponsorships : ~Answering(h, p.id)
    /\ \A h, k \in Handlers : \A id \in ProofIds :
         Answering(h, id) /\ Answering(k, id) => h = k

ServerInv ==
    /\ ServerTypeOK
    /\ SlotPerProof
    /\ GrantsNumbered
    /\ RequestsTrue
    /\ RowsGuardSponsorships
    /\ SponsorshipsBacked
    /\ IsFiniteSet(sponsorships)

(* A mint signature that callers hold is over a claim a slot was spent on. *)
ReleasedWereGranted ==
    \A a \in attested : a.over.kind = "mint" => \E g \in granted : g.claim = a.over

(* One spent nullifier per token, each of a claim a slot was spent on. *)
ChainInv ==
    /\ TypeOK
    /\ ReleasedWereGranted
    /\ IsFiniteSet(SpentMints)
    /\ Cardinality(SpentMints) = totalSupply
    /\ \A n \in SpentMints : \E g \in granted : n = NullifierOf(g.claim)
    /\ TokensGoToAllowedAccount

ServiceInv == AuthInv /\ ServerInv /\ ChainInv

-----------------------------------------------------------------------------
(* Logging in is not disturbed: each step of the service is one of          *)
(* AuthSession's, or leaves its tables alone.                               *)

LEMMA TokenLookupPurges ==
    ASSUME NEW s \in sessions, GetAuthSession(s), UNCHANGED now
    PROVE  AuthNext
  BY DEF GetAuthSession, AuthNext, AuthStep, RejectAuthToken

LEMMA GateStepsKeepTime ==
    ASSUME NEW caller, NEW r, NEW d, NEW tr, NEW p
    PROVE  /\ VerifyAndConsume(caller, r, d, tr, p) => UNCHANGED now
           /\ VerifyActionAndConsume(caller, r, d, tr, p) => UNCHANGED now
  BY DEF VerifyAndConsume, VerifyActionAndConsume

LEMMA ServiceStepIsAuthStep == [ServiceNext]_allVars => [AuthNext]_<<now, authVars>>
<1> SUFFICES ASSUME [ServiceNext]_allVars PROVE [AuthNext]_<<now, authVars>>
  OBVIOUS
<1>1. CASE UNCHANGED <<now, authVars>>
  BY <1>1
<1>2. CASE ChainStep
  <2>1. UNCHANGED authVars
    BY <1>2 DEF ChainStep
  <2>2. CASE GateAdmin
    BY <2>1, <2>2 DEF GateAdmin, Tick, AuthNext, TransferOwnership, SetAuthorizedCaller,
        SetAllowlistSigner
  <2>3. CASE MintOnChain \/ CreateAccountOnChain
    BY <2>1, <2>3, GateStepsKeepTime DEF MintOnChain, CreateAccountOnChain, Mint
  <2> QED
    BY <1>2, <2>2, <2>3 DEF ChainStep
<1>3. CASE up /\ AuthStep /\ UNCHANGED <<now, chainVars, serviceVars>>
  BY <1>3 DEF AuthNext
<1>4. ASSUME NEW s \in sessions, RefuseSponsorship(s) PROVE AuthNext
  BY <1>4, TokenLookupPurges DEF RefuseSponsorship
<1>5. ASSUME NEW s \in sessions, NEW c \in Signable, RequestActionProof(s, c) PROVE AuthNext
  BY <1>5, TokenLookupPurges DEF RequestActionProof, Attest
<1>6. ASSUME NEW h \in Handlers, NEW s \in sessions, NEW tr \in Traits,
             RequestMint(h, s, s.recipient, tr)
      PROVE  AuthNext
  BY <1>6, TokenLookupPurges DEF RequestMint
<1>7. ASSUME NEW h \in Handlers, NEW s \in sessions, NEW r \in issued, NEW g \in granted,
             RequestSponsorship(h, s, r, g.claim)
      PROVE  AuthNext
  BY <1>7, TokenLookupPurges DEF RequestSponsorship
<1>8. ASSUME NEW h \in Handlers,
             \/ ResolveSmartAccount(h) \/ ConsumeMintAndPersistProof(h) \/ RefuseMint(h)
             \/ ReplyMint(h) \/ ReadAllowlistSigner(h) \/ ReadUnspentNullifier(h)
             \/ ReadSpentNullifier(h) \/ MarkPaymasterSigned(h) \/ AnswerSponsorship(h)
             \/ Abort(h)
      PROVE  UNCHANGED <<now, authVars>>
  BY <1>8 DEF ResolveSmartAccount, ConsumeMintAndPersistProof, RefuseMint, ReplyMint,
      ReadAllowlistSigner, ReadUnspentNullifier, ReadSpentNullifier, MarkPaymasterSigned,
      AnswerSponsorship, Abort
<1>9. CASE GetEligibility \/ Crash \/ \E k \in Signers : Boot(k)
  BY <1>9 DEF GetEligibility, Crash, Boot
<1>10. CASE UNCHANGED allVars
  BY <1>10 DEF allVars
<1> QED
  BY <1>1, <1>2, <1>3, <1>4, <1>5, <1>6, <1>7, <1>8, <1>9, <1>10 DEF ServiceNext, ServiceStep

(* The service implements AuthSession: nothing it does beside logging in    *)
(* opens a session, revives a challenge or touches another wallet's token.  *)
THEOREM ServiceImplementsAuth == ServiceSpec => AuthSpec
<1>1. ServiceInit => AuthInit
  BY DEF ServiceInit
<1> QED
  BY <1>1, ServiceStepIsAuthStep, PTL DEF ServiceSpec, AuthSpec

-----------------------------------------------------------------------------
(* Records of requests in flight. *)

LEMMA RequestShapes ==
    ASSUME NEW r \in Requests \cup {Idle}
    PROVE  /\ r.at \in {"idle", "resolve", "persist", "reply", "signer", "nullifier", "lock",
                        "answer"}
           /\ r.at = "idle" <=> r = Idle
           /\ r.at = "resolve" => r.recipient \in Wallets /\ r.traits \in Traits
           /\ r.at = "persist" => r.claim \in MintClaims
           /\ r.at = "reply" => r.claim \in MintClaims /\ r.by \in Signers
           /\ r.at \in {"signer", "nullifier", "lock", "answer"} =>
                /\ r.id \in ProofIds /\ r.claim \in MintClaims
                /\ r.userOp \in MintClaims /\ r.start \in Times
  BY DEF Requests, Idle

LEMMA SponsorshipRequestMoves ==
    ASSUME NEW r \in Requests \cup {Idle}, r.at \in {"signer", "nullifier", "lock"},
           NEW place \in {"nullifier", "lock", "answer"}
    PROVE  LET q == [r EXCEPT !.at = place]
           IN  /\ q \in Requests /\ q.at = place
               /\ q.id = r.id /\ q.claim = r.claim /\ q.userOp = r.userOp /\ q.start = r.start
<1>1. r \in [at : {"signer", "nullifier", "lock", "answer"}, id : ProofIds,
             claim : MintClaims, userOp : MintClaims, start : Times]
  BY DEF Requests, Idle
<1>2. [r EXCEPT !.at = place] \in
        [at : {"signer", "nullifier", "lock", "answer"}, id : ProofIds,
         claim : MintClaims, userOp : MintClaims, start : Times]
  BY <1>1
<1> QED
  BY <1>1, <1>2 DEF Requests

LEMMA IdleIsTrue == Idle.at = "idle" /\ RequestTrue(Idle)
  BY DEF Idle, RequestTrue

LEMMA MintClaimTyped ==
    ASSUME NEW w \in Wallets, NEW tr \in Traits, now \in Times
    PROVE  LET c == MintClaim(w, SmartAccountOf[w], tr, now + MintTtl)
           IN  /\ c \in MintClaims /\ c.kind = "mint" /\ c.recipient = w
               /\ c.mintTo = SmartAccountOf[w] /\ c.expiry > 0
<1>1. now + MintTtl \in Expiries /\ now + MintTtl > 0
  BY ClockBounds, ServiceBounds DEF Times, Expiries
<1>2. w \in Recipients /\ SmartAccountOf[w] \in Destinations
  BY ServiceBounds
<1> QED
  BY <1>1, <1>2 DEF MintClaim, MintClaims

-----------------------------------------------------------------------------
(* Steps of the server that write no row, spend no slot and release         *)
(* nothing: rows may be purged, requests move on or end.                    *)

LEMMA MovesKeepServer ==
    ASSUME ServerInv,
           UNCHANGED <<sponsorships, granted>>,
           up' \in BOOLEAN, backendKey' \in Signers,
           remaining' \in 0 .. NoRow, SlotsLeft' = SlotsLeft,
           issued' \subseteq issued,
           handler' \in [Handlers -> Requests \cup {Idle}],
           \A h \in Handlers : \/ handler'[h] = handler[h]
                               \/ RequestTrue(handler'[h]) /\ handler'[h].at # "answer"
    PROVE  ServerInv'
<1> USE DEF ServerInv
<1>1. ServerTypeOK'
  BY DEF ServerTypeOK
<1>2. SlotPerProof'
  BY DEF SlotPerProof
<1>3. GrantsNumbered'
  BY DEF GrantsNumbered, ForAllowedWallet
<1>4. RequestsTrue'
  <2>1. \A h \in Handlers : RequestTrue(handler'[h])
    BY Zenon DEF RequestsTrue
  <2> QED
    BY <2>1 DEF RequestsTrue, RequestTrue
<1>5. \A h \in Handlers : \A id : Answering(h, id)' => Answering(h, id)
  BY DEF Answering
<1>6. RowsGuardSponsorships'
  BY <1>5 DEF RowsGuardSponsorships
<1>7. SponsorshipsBacked' /\ IsFiniteSet(sponsorships)'
  BY DEF SponsorshipsBacked
<1> QED
  BY <1>1, <1>2, <1>3, <1>4, <1>6, <1>7

(* One request moves, to a place where what it remembers is true. *)
LEMMA HandlerMoveKeepsServer ==
    ASSUME ServerInv, NEW h \in Handlers, NEW r \in Requests \cup {Idle},
           HandlerMoves(h, r), RequestTrue(r), r.at # "answer",
           UNCHANGED <<up, backendKey, remaining, sponsorships, granted>>,
           issued' \subseteq issued
    PROVE  ServerInv'
<1>1. /\ handler' \in [Handlers -> Requests \cup {Idle}]
      /\ \A k \in Handlers : handler'[k] = handler[k] \/ handler'[k] = r
  BY DEF ServerInv, ServerTypeOK, HandlerMoves
<1>2. /\ up' \in BOOLEAN /\ backendKey' \in Signers
      /\ remaining' \in 0 .. NoRow /\ SlotsLeft' = SlotsLeft
  BY DEF ServerInv, ServerTypeOK, SlotsLeft
<1> QED
  BY <1>1, <1>2, MovesKeepServer

LEMMA HandlerTyped ==
    ASSUME ServerInv, NEW h \in Handlers
    PROVE  handler[h] \in Requests \cup {Idle} /\ RequestTrue(handler[h])
  BY DEF ServerInv, ServerTypeOK, RequestsTrue

LEMMA RequestMintKeepsServer ==
    ASSUME ServerInv, NEW h \in Handlers, NEW s, NEW w \in Wallets, NEW tr \in Traits,
           RequestMint(h, s, w, tr)
    PROVE  ServerInv'
<1> DEFINE r == [at |-> "resolve", recipient |-> w, traits |-> tr]
<1>1. r \in Requests /\ RequestTrue(r) /\ r.at # "answer"
  BY DEF Requests, RequestTrue
<1>2. HandlerMoves(h, r) /\ UNCHANGED <<up, backendKey, remaining, issued, sponsorships, granted>>
  BY DEF RequestMint, Stay
<1> QED
  BY <1>1, <1>2, HandlerMoveKeepsServer

LEMMA ResolveKeepsServer ==
    ASSUME ServerInv, now \in Times, NEW h \in Handlers, ResolveSmartAccount(h)
    PROVE  ServerInv'
<1> DEFINE w == handler[h].recipient
           c == MintClaim(w, SmartAccountOf[w], handler[h].traits, now + MintTtl)
           r == [at |-> "persist", claim |-> c]
<1>1. w \in Wallets /\ handler[h].traits \in Traits
  BY HandlerTyped, RequestShapes DEF ResolveSmartAccount
<1>2. c \in MintClaims /\ c.recipient = w /\ c.mintTo = SmartAccountOf[w]
  BY <1>1, MintClaimTyped
<1>3. HandlerMoves(h, r) /\ UNCHANGED <<up, backendKey, remaining, issued, sponsorships, granted>>
  BY DEF ResolveSmartAccount, Stay
<1> HIDE DEF c, w
<1>4. r \in Requests /\ RequestTrue(r) /\ r.at # "answer"
  BY <1>1, <1>2 DEF Requests, RequestTrue
<1> QED
  BY <1>3, <1>4, HandlerMoveKeepsServer

(* A sponsorship request remembers the row it read, which has not expired   *)
(* when the request starts.                                                 *)
LEMMA RequestSponsorshipKeepsServer ==
    ASSUME ServerInv, now \in Times, NEW h \in Handlers, NEW s, NEW row \in issued,
           NEW g \in granted, RequestSponsorship(h, s, row, g.claim)
    PROVE  ServerInv'
<1> DEFINE r == [at |-> "signer", id |-> row.id, claim |-> row.claim, userOp |-> g.claim,
                 start |-> now]
<1>1. row \in IssuedProofs /\ g \in GrantedProofs
  BY DEF ServerInv, ServerTypeOK
<1>2. [id |-> row.id, claim |-> row.claim] \in granted /\ now <= row.claim.expiry
  <2>1. row \in LiveProofs
    BY DEF RequestSponsorship
  <2>2. row.claim.expiry \in Nat /\ row.claim.expiry >= now
    BY <1>1, <2>1, ClockBounds DEF LiveProofs, IssuedProofs, MintClaims, Expiries
  <2> QED
    BY <2>2 DEF ServerInv, SlotPerProof, Times
<1>3. r \in Requests /\ RequestTrue(r) /\ r.at # "answer"
  BY <1>1, <1>2 DEF Requests, RequestTrue, IssuedProofs, GrantedProofs
<1>4. /\ HandlerMoves(h, r) /\ issued' \subseteq issued
      /\ UNCHANGED <<up, backendKey, remaining, sponsorships, granted>>
  BY DEF RequestSponsorship, Stay, LiveProofs
<1> QED
  BY <1>3, <1>4, HandlerMoveKeepsServer

LEMMA ReadSignerKeepsServer ==
    ASSUME ServerInv, NEW h \in Handlers, ReadAllowlistSigner(h)
    PROVE  ServerInv'
<1> DEFINE r == [handler[h] EXCEPT !.at = "nullifier"]
<1>1. handler[h].at = "signer"
  BY DEF ReadAllowlistSigner
<1>2. /\ r \in Requests /\ r.at = "nullifier"
      /\ r.id = handler[h].id /\ r.claim = handler[h].claim /\ r.start = handler[h].start
  BY <1>1, HandlerTyped, SponsorshipRequestMoves
<1>3. HandlerMoves(h, r) /\ UNCHANGED <<up, backendKey, remaining, issued, sponsorships, granted>>
  BY DEF ReadAllowlistSigner, Stay
<1> HIDE DEF r
<1>4. RequestTrue(r)
  BY <1>1, <1>2, HandlerTyped DEF RequestTrue
<1> QED
  BY <1>2, <1>3, <1>4, HandlerMoveKeepsServer

LEMMA ReadUnspentKeepsServer ==
    ASSUME ServerInv, NEW h \in Handlers, ReadUnspentNullifier(h)
    PROVE  ServerInv'
<1> DEFINE r == [handler[h] EXCEPT !.at = "lock"]
<1>1. handler[h].at = "nullifier" /\ handler[h].userOp = handler[h].claim
  BY DEF ReadUnspentNullifier, UserOpMatchesProof
<1>2. /\ r \in Requests /\ r.at = "lock"
      /\ r.id = handler[h].id /\ r.claim = handler[h].claim /\ r.start = handler[h].start
      /\ r.userOp = handler[h].userOp
  BY <1>1, HandlerTyped, SponsorshipRequestMoves
<1>3. HandlerMoves(h, r) /\ UNCHANGED <<up, backendKey, remaining, issued, sponsorships, granted>>
  BY DEF ReadUnspentNullifier, Stay
<1> HIDE DEF r
<1>4. RequestTrue(r)
  BY <1>1, <1>2, HandlerTyped DEF RequestTrue
<1> QED
  BY <1>2, <1>3, <1>4, HandlerMoveKeepsServer

LEMMA EndKeepsServer ==
    ASSUME ServerInv, NEW h \in Handlers, HandlerMoves(h, Idle),
           UNCHANGED <<up, backendKey, remaining, sponsorships, granted>>,
           issued' \subseteq issued
    PROVE  ServerInv'
  BY IdleIsTrue, HandlerMoveKeepsServer

-----------------------------------------------------------------------------
(* A slot is spent. *)

LEMMA SlotsCounted ==
    ASSUME ServerInv
    PROVE  /\ SlotsLeft \in 0 .. Slots
           /\ Cardinality(granted) = Slots - SlotsLeft
  BY ServiceBounds DEF ServerInv, ServerTypeOK, SlotPerProof, SlotsLeft, NoRow

(* The new proof takes the next id, which no row, sponsorship or request in *)
(* flight carries yet.                                                      *)
LEMMA ConsumeKeepsServer ==
    ASSUME ServerInv, NEW h \in Handlers, ConsumeMintAndPersistProof(h)
    PROVE  ServerInv' /\ SlotsLeft' = SlotsLeft - 1
<1> DEFINE claim == handler[h].claim
           g == [id |-> ProofId, claim |-> claim]
           row == [id |-> ProofId, claim |-> claim, paymasterSigned |-> FALSE, used |-> FALSE]
           r == [at |-> "reply", claim |-> claim, by |-> backendKey]
<1> USE DEF ServerInv
<1>1. /\ handler[h].at = "persist" /\ claim.recipient = AllowedAddress /\ SlotsLeft > 0
      /\ remaining' = SlotsLeft - 1
      /\ issued' = issued \cup {row} /\ granted' = granted \cup {g}
      /\ handler' = [handler EXCEPT ![h] = r]
      /\ UNCHANGED <<up, backendKey, sponsorships>>
  BY DEF ConsumeMintAndPersistProof, MayConsume, CreateIssuedMintProof, HandlerMoves, Stay
<1>2. /\ SlotsLeft \in 0 .. Slots /\ Cardinality(granted) = Slots - SlotsLeft
      /\ ProofId = Cardinality(granted) + 1
      /\ Slots \in Nat
  BY SlotsCounted, ServiceBounds DEF ProofId
<1>3. ProofId \in ProofIds
  BY <1>1, <1>2 DEF ProofIds
<1>4. claim \in MintClaims /\ ForAllowedWallet(claim)
  BY <1>1, HandlerTyped, RequestShapes DEF RequestTrue, ForAllowedWallet
<1>5. SlotsLeft' = SlotsLeft - 1
  BY <1>1, <1>2 DEF SlotsLeft, NoRow
<1>6. /\ g \notin granted
      /\ \A f \in granted : f.id \in Nat /\ f.id < ProofId
  BY <1>2, <1>3 DEF GrantsNumbered, ServerTypeOK, GrantedProofs, ProofIds
<1>7. IsFiniteSet(granted') /\ Cardinality(granted') = Cardinality(granted) + 1
  BY <1>1, <1>6, FS_AddElement DEF GrantsNumbered
<1>8. granted \subseteq granted'
  BY <1>1
<1>9. g.id = ProofId /\ g.claim = claim /\ row.id = ProofId /\ row.claim = claim
      /\ g \in GrantedProofs /\ row \in IssuedProofs
      /\ r \in Requests /\ r.at = "reply" /\ r.claim = claim
      /\ g = [id |-> row.id, claim |-> row.claim]
  BY <1>3, <1>4 DEF GrantedProofs, IssuedProofs, Requests, ServerTypeOK
<1> HIDE DEF g, row, r, claim
<1>10. ServerTypeOK'
  BY <1>1, <1>2, <1>9 DEF ServerTypeOK, NoRow
<1>11. SlotPerProof'
  <2>1. Cardinality(granted') = Slots - SlotsLeft'
    BY <1>2, <1>5, <1>7
  <2>2. \A q \in issued' : [id |-> q.id, claim |-> q.claim] \in granted'
    BY <1>1, <1>9 DEF SlotPerProof
  <2> QED
    BY <2>1, <2>2 DEF SlotPerProof
<1>12. GrantsNumbered'
  <2>1. ASSUME NEW f \in granted'
        PROVE  f.id <= Cardinality(granted') /\ ForAllowedWallet(f.claim)
    BY <1>1, <1>2, <1>4, <1>6, <1>7, <1>9 DEF GrantsNumbered
  <2>2. \A e, f \in granted' : e.id = f.id => e = f
    BY <1>1, <1>6, <1>9, <1>2 DEF GrantsNumbered
  <2> QED
    BY <1>7, <2>1, <2>2 DEF GrantsNumbered, ForAllowedWallet
<1>13. RequestsTrue'
  <2> SUFFICES ASSUME NEW k \in Handlers PROVE RequestTrue(handler[k])'
    BY DEF RequestsTrue
  <2>1. CASE k = h
    BY <1>1, <1>9, <2>1 DEF RequestTrue, ServerTypeOK
  <2>2. CASE k # h
    BY <1>1, <1>8, <2>2 DEF RequestsTrue, RequestTrue, ServerTypeOK
  <2> QED
    BY <2>1, <2>2
<1>14. ASSUME NEW i, NEW c, [id |-> i, claim |-> c] \in granted
       PROVE  i # ProofId
  <2>1. [id |-> i, claim |-> c].id < ProofId /\ [id |-> i, claim |-> c].id \in Nat
    BY <1>6, <1>14
  <2> QED
    BY <2>1, <1>2
<1>15. \A p \in sponsorships : p.id # ProofId
  BY <1>14 DEF SponsorshipsBacked
<1>16. \A k \in Handlers : ~Answering(k, ProofId)
  BY <1>14 DEF Answering, RequestsTrue, RequestTrue
<1>17. \A k \in Handlers : \A id : Answering(k, id)' => Answering(k, id)
  BY <1>1, <1>9 DEF Answering, ServerTypeOK
<1>18. RowsGuardSponsorships'
  <2>1. \A q \in issued : q.id # ProofId
    BY <1>14 DEF SlotPerProof
  <2>2. \A p, q \in issued' : p.id = q.id => p = q
    BY <1>1, <1>9, <2>1 DEF RowsGuardSponsorships
  <2>3. ASSUME NEW q \in issued', ~q.paymasterSigned
        PROVE  /\ \A p \in sponsorships' : p.id # q.id
               /\ \A k \in Handlers : ~Answering(k, q.id)'
    BY <1>1, <1>9, <1>15, <1>16, <1>17, <2>3 DEF RowsGuardSponsorships
  <2> QED
    BY <1>1, <1>17, <2>2, <2>3 DEF RowsGuardSponsorships
<1>19. SponsorshipsBacked' /\ IsFiniteSet(sponsorships')
  BY <1>1, <1>8 DEF SponsorshipsBacked
<1> QED
  BY <1>5, <1>10, <1>11, <1>12, <1>13, <1>18, <1>19

-----------------------------------------------------------------------------
(* A sponsorship is released. *)

(* Rows change in a flag only: no id or claim does, and no signed row       *)
(* becomes unsigned.                                                        *)
LEMMA MarkRowsKeepsServer ==
    ASSUME ServerInv, NEW h \in Handlers, NEW r \in Requests \cup {Idle}, NEW signs \in BOOLEAN,
           UNCHANGED <<up, backendKey, remaining, sponsorships, granted>>,
           handler' = [handler EXCEPT ![h] = r], RequestTrue(r),
           handler[h].at \in {"nullifier", "lock"},
           issued' = {IF q.id = handler[h].id
                      THEN IF signs THEN [q EXCEPT !.paymasterSigned = TRUE]
                                    ELSE [q EXCEPT !.used = TRUE]
                      ELSE q : q \in issued},
           r.at = "answer" =>
             /\ signs /\ r.id = handler[h].id
             /\ \E q \in issued : q.id = r.id /\ ~q.paymasterSigned
    PROVE  ServerInv'
<1> DEFINE id == handler[h].id
           Marked(q) == IF q.id = id
                        THEN IF signs THEN [q EXCEPT !.paymasterSigned = TRUE]
                                      ELSE [q EXCEPT !.used = TRUE]
                        ELSE q
<1> USE DEF ServerInv
<1>1. ASSUME NEW q \in issued
      PROVE  /\ Marked(q) \in IssuedProofs
             /\ Marked(q).id = q.id /\ Marked(q).claim = q.claim
             /\ ~Marked(q).paymasterSigned => ~q.paymasterSigned
             /\ signs /\ q.id = id => Marked(q).paymasterSigned
  <2>1. q \in IssuedProofs
    BY DEF ServerTypeOK
  <2> QED
    BY <2>1 DEF IssuedProofs
<1>2. issued' = {Marked(q) : q \in issued}
  OBVIOUS
<1> HIDE DEF Marked, id
<1>3. ServerTypeOK'
  BY <1>1, <1>2 DEF ServerTypeOK
<1>4. SlotPerProof'
  BY <1>1, <1>2 DEF SlotPerProof, SlotsLeft
<1>5. GrantsNumbered' /\ SponsorshipsBacked' /\ IsFiniteSet(sponsorships')
  BY DEF GrantsNumbered, ForAllowedWallet, SponsorshipsBacked
<1>6. RequestsTrue'
  BY DEF RequestsTrue, RequestTrue, ServerTypeOK
<1>7. ASSUME NEW k \in Handlers, NEW i, Answering(k, i)'
      PROVE  Answering(k, i) \/ (k = h /\ r.at = "answer" /\ i = id /\ signs)
  BY <1>7 DEF Answering, ServerTypeOK, id
<1>8. \A p, q \in issued' : p.id = q.id => p = q
  BY <1>1, <1>2 DEF RowsGuardSponsorships
<1>9. r.at = "answer" => /\ \A p \in sponsorships : p.id # id
                         /\ \A k \in Handlers : ~Answering(k, id)
  BY DEF RowsGuardSponsorships, id
<1>10. ASSUME NEW q \in issued', ~q.paymasterSigned
       PROVE  /\ \A p \in sponsorships' : p.id # q.id
              /\ \A k \in Handlers : ~Answering(k, q.id)'
  <2>1. PICK p \in issued : q = Marked(p)
    BY <1>2
  <2>2. p.id = q.id /\ ~p.paymasterSigned /\ (signs => q.id # id)
    BY <1>1, <1>10, <2>1
  <2> QED
    BY <1>7, <2>2 DEF RowsGuardSponsorships
<1>11. RowsGuardSponsorships'
  <2>1. ASSUME NEW k \in Handlers, NEW p \in sponsorships', Answering(k, p.id)'
        PROVE  FALSE
    BY <1>7, <1>9, <2>1 DEF RowsGuardSponsorships
  <2>2. ASSUME NEW k \in Handlers, NEW m \in Handlers, NEW i \in ProofIds,
               Answering(k, i)', Answering(m, i)'
        PROVE  k = m
    <3>1. CASE Answering(k, i) /\ Answering(m, i)
      BY <3>1 DEF RowsGuardSponsorships
    <3>2. CASE ~(Answering(k, i) /\ Answering(m, i))
      BY <1>7, <1>9, <2>2, <3>2
    <3> QED
      BY <3>1, <3>2
  <2> QED
    BY <1>8, <1>10, <2>1, <2>2 DEF RowsGuardSponsorships
<1> QED
  BY <1>3, <1>4, <1>5, <1>6, <1>11

LEMMA ReadSpentKeepsServer ==
    ASSUME ServerInv, NEW h \in Handlers, ReadSpentNullifier(h)
    PROVE  ServerInv'
<1>1. /\ handler[h].at = "nullifier" /\ handler' = [handler EXCEPT ![h] = Idle]
      /\ issued' = {IF q.id = handler[h].id
                    THEN IF FALSE THEN [q EXCEPT !.paymasterSigned = TRUE]
                                  ELSE [q EXCEPT !.used = TRUE]
                    ELSE q : q \in issued}
      /\ UNCHANGED <<up, backendKey, remaining, sponsorships, granted>>
  BY DEF ReadSpentNullifier, HandlerMoves, Stay
<1> QED
  BY <1>1, IdleIsTrue, MarkRowsKeepsServer

LEMMA MarkSignedKeepsServer ==
    ASSUME ServerInv, NEW h \in Handlers, MarkPaymasterSigned(h)
    PROVE  ServerInv'
<1> DEFINE r == [handler[h] EXCEPT !.at = "answer"]
<1>1. /\ handler[h].at = "lock" /\ handler' = [handler EXCEPT ![h] = r]
      /\ \E q \in issued : q.id = handler[h].id /\ ~q.paymasterSigned
      /\ issued' = {IF q.id = handler[h].id
                    THEN IF TRUE THEN [q EXCEPT !.paymasterSigned = TRUE]
                                 ELSE [q EXCEPT !.used = TRUE]
                    ELSE q : q \in issued}
      /\ UNCHANGED <<up, backendKey, remaining, sponsorships, granted>>
  BY DEF MarkPaymasterSigned, NotYetSigned, HandlerMoves, Stay
<1>2. /\ r \in Requests /\ r.at = "answer"
      /\ r.id = handler[h].id /\ r.claim = handler[h].claim /\ r.start = handler[h].start
      /\ r.userOp = handler[h].userOp
  BY <1>1, HandlerTyped, SponsorshipRequestMoves
<1> HIDE DEF r
<1>3. RequestTrue(r)
  BY <1>1, <1>2, HandlerTyped DEF RequestTrue
<1> QED
  BY <1>1, <1>2, <1>3, MarkRowsKeepsServer

(* The signature goes out for the proof that was granted, the only one for  *)
(* its id: nobody else is answering for that id, and its row is signed.     *)
LEMMA AnswerKeepsServer ==
    ASSUME ServerInv, NEW h \in Handlers, AnswerSponsorship(h)
    PROVE  ServerInv' /\ Cardinality(sponsorships') = Cardinality(sponsorships) + 1
<1>1. PICK id : id = handler[h].id
  OBVIOUS
<1>2. PICK s : s = [id |-> id, userOp |-> handler[h].userOp, validAfter |-> handler[h].start]
  OBVIOUS
<1> USE DEF ServerInv
<1>3. /\ handler[h].at = "answer" /\ handler' = [handler EXCEPT ![h] = Idle]
      /\ sponsorships' = sponsorships \cup {s}
      /\ UNCHANGED <<up, backendKey, remaining, issued, granted>>
  BY <1>1, <1>2 DEF AnswerSponsorship, HandlerMoves, Stay
<1>4. /\ id \in ProofIds /\ s \in Sponsorships
      /\ s.id = id /\ s.userOp = handler[h].claim /\ s.validAfter = handler[h].start
      /\ [id |-> id, claim |-> s.userOp] \in granted /\ s.validAfter <= s.userOp.expiry
  BY <1>1, <1>2, <1>3, HandlerTyped, RequestShapes DEF RequestTrue, Sponsorships
<1>5. /\ Answering(h, id)
      /\ \A p \in sponsorships : p.id # id
      /\ \A q \in issued : q.id = id => q.paymasterSigned
      /\ \A k \in Handlers : Answering(k, id) => k = h
  BY <1>1, <1>3, <1>4 DEF Answering, RowsGuardSponsorships
<1>6. ServerTypeOK'
  BY <1>3, <1>4 DEF ServerTypeOK
<1>7. SlotPerProof' /\ GrantsNumbered'
  BY <1>3 DEF SlotPerProof, SlotsLeft, GrantsNumbered, ForAllowedWallet
<1>8. RequestsTrue'
  BY <1>3, IdleIsTrue DEF RequestsTrue, RequestTrue, ServerTypeOK
<1>9. \A k \in Handlers : \A i : Answering(k, i)' => Answering(k, i) /\ k # h
  BY <1>3, IdleIsTrue DEF Answering, ServerTypeOK
<1>10. \A k \in Handlers : ~Answering(k, id)'
  BY <1>5, <1>9
<1>11. RowsGuardSponsorships'
  <2>1. ASSUME NEW q \in issued', ~q.paymasterSigned
        PROVE  /\ \A p \in sponsorships' : p.id # q.id
               /\ \A k \in Handlers : ~Answering(k, q.id)'
    BY <1>3, <1>4, <1>5, <1>9, <2>1 DEF RowsGuardSponsorships
  <2>2. ASSUME NEW k \in Handlers, NEW p \in sponsorships'
        PROVE  ~Answering(k, p.id)'
    BY <1>3, <1>4, <1>9, <1>10 DEF RowsGuardSponsorships
  <2> QED
    BY <1>3, <1>9, <2>1, <2>2 DEF RowsGuardSponsorships
<1>12. SponsorshipsBacked'
  <2>1. ASSUME NEW p \in sponsorships'
        PROVE  /\ [id |-> p.id, claim |-> p.userOp] \in granted'
               /\ p.validAfter <= p.userOp.expiry
               /\ \A q \in sponsorships' : q.id = p.id => q = p
    <3>1. CASE p = s
      BY <1>3, <1>4, <1>5, <3>1
    <3>2. CASE p \in sponsorships
      BY <1>3, <1>4, <1>5, <3>2 DEF SponsorshipsBacked
    <3> QED
      BY <1>3, <3>1, <3>2
  <2> QED
    BY <2>1 DEF SponsorshipsBacked
<1>13. /\ IsFiniteSet(sponsorships')
       /\ Cardinality(sponsorships') = Cardinality(sponsorships) + 1
  <2>1. s \notin sponsorships
    BY <1>4, <1>5
  <2> QED
    BY <1>3, <2>1, FS_AddElement
<1> QED
  BY <1>6, <1>7, <1>8, <1>11, <1>12, <1>13

-----------------------------------------------------------------------------
(* The server's variables, step by step. *)

LEMMA InitServer == ServiceInit => ServerInv
<1> SUFFICES ASSUME ServiceInit PROVE ServerInv
  OBVIOUS
<1>1. /\ up = FALSE /\ backendKey = allowlistSigner /\ remaining = NoRow /\ issued = {}
      /\ handler = [h \in Handlers |-> Idle] /\ sponsorships = {} /\ granted = {}
      /\ allowlistSigner \in Signers
  BY InitTypeOK DEF ServiceInit, TypeOK, GateTypeOK
<1>2. ServerTypeOK /\ RequestsTrue
  <2>1. remaining \in 0 .. NoRow
    BY <1>1, ServiceBounds DEF NoRow
  <2>2. handler \in [Handlers -> Requests \cup {Idle}]
    BY <1>1
  <2> QED
    BY <1>1, <2>1, <2>2, IdleIsTrue DEF ServerTypeOK, RequestsTrue
<1>3. SlotPerProof /\ GrantsNumbered
  BY <1>1, ServiceBounds, FS_EmptySet DEF SlotPerProof, GrantsNumbered, SlotsLeft
<1>4. \A h \in Handlers : \A id : ~Answering(h, id)
  BY <1>1, IdleIsTrue DEF Answering
<1> QED
  BY <1>1, <1>2, <1>3, <1>4, FS_EmptySet
  DEF ServerInv, RowsGuardSponsorships, SponsorshipsBacked

LEMMA EligibilityKeepsServer ==
    ASSUME ServerInv, GetEligibility
    PROVE  ServerInv'
<1>1. /\ remaining' = SlotsLeft
      /\ UNCHANGED <<up, backendKey, issued, handler, sponsorships, granted>>
  BY DEF GetEligibility
<1>2. PICK n : n = SlotsLeft
  OBVIOUS
<1>3. remaining' = n /\ n \in 0 .. Slots
  BY <1>1, <1>2, SlotsCounted
<1>4. remaining' \in 0 .. NoRow /\ SlotsLeft' = n
  BY <1>3, ServiceBounds DEF SlotsLeft, NoRow
<1> QED
  BY <1>1, <1>2, <1>4, MovesKeepServer DEF ServerInv, ServerTypeOK

LEMMA OtherStepsKeepServer ==
    ASSUME ServerInv,
           \/ UNCHANGED serviceVars
           \/ Crash
           \/ \E k \in Signers : Boot(k)
           \/ \E s \in sessions : RefuseSponsorship(s)
    PROVE  ServerInv'
<1>1. /\ UNCHANGED <<remaining, sponsorships, granted>> /\ issued' \subseteq issued
      /\ up' \in BOOLEAN /\ backendKey' \in Signers
      /\ handler' = handler \/ handler' = [h \in Handlers |-> Idle]
  BY DEF serviceVars, Crash, Boot, RefuseSponsorship, LiveProofs, Stay, ServerInv, ServerTypeOK
<1>2. /\ handler' \in [Handlers -> Requests \cup {Idle}]
      /\ \A h \in Handlers : handler'[h] = handler[h] \/ handler'[h] = Idle
  BY <1>1 DEF ServerInv, ServerTypeOK
<1>3. SlotsLeft' = SlotsLeft /\ remaining' \in 0 .. NoRow
  BY <1>1 DEF SlotsLeft, ServerInv, ServerTypeOK
<1> QED
  BY <1>1, <1>2, <1>3, IdleIsTrue, MovesKeepServer

LEMMA NextServer ==
    ASSUME AuthInv, ServerInv, [ServiceNext]_allVars
    PROVE  ServerInv'
<1>1. now \in Times /\ \A s \in sessions : s.recipient \in Wallets
  BY DEF AuthInv, AuthTypeOK, Sessions
<1>2. CASE \/ ChainStep \/ (up /\ AuthStep /\ UNCHANGED <<now, chainVars, serviceVars>>)
           \/ UNCHANGED allVars
           \/ \E s \in sessions : \E c \in Signable : RequestActionProof(s, c)
  BY <1>2, OtherStepsKeepServer DEF ChainStep, allVars, RequestActionProof
<1>3. CASE \E s \in sessions : RefuseSponsorship(s)
  BY <1>3, OtherStepsKeepServer
<1>4. ASSUME NEW h \in Handlers, NEW s \in sessions, NEW tr \in Traits,
             RequestMint(h, s, s.recipient, tr)
      PROVE  ServerInv'
  BY <1>1, <1>4, RequestMintKeepsServer
<1>5. ASSUME NEW h \in Handlers, NEW s \in sessions, NEW r \in issued, NEW g \in granted,
             RequestSponsorship(h, s, r, g.claim)
      PROVE  ServerInv'
  BY <1>1, <1>5, RequestSponsorshipKeepsServer
<1>6. ASSUME NEW h \in Handlers, ResolveSmartAccount(h) PROVE ServerInv'
  BY <1>1, <1>6, ResolveKeepsServer
<1>7. ASSUME NEW h \in Handlers, ConsumeMintAndPersistProof(h) PROVE ServerInv'
  BY <1>7, ConsumeKeepsServer
<1>8. ASSUME NEW h \in Handlers, RefuseMint(h) \/ ReplyMint(h) \/ Abort(h) PROVE ServerInv'
  BY <1>8, EndKeepsServer DEF RefuseMint, ReplyMint, Abort, Stay
<1>9. ASSUME NEW h \in Handlers, ReadAllowlistSigner(h) PROVE ServerInv'
  BY <1>9, ReadSignerKeepsServer
<1>10. ASSUME NEW h \in Handlers, ReadUnspentNullifier(h) PROVE ServerInv'
  BY <1>10, ReadUnspentKeepsServer
<1>11. ASSUME NEW h \in Handlers, ReadSpentNullifier(h) PROVE ServerInv'
  BY <1>11, ReadSpentKeepsServer
<1>12. ASSUME NEW h \in Handlers, MarkPaymasterSigned(h) PROVE ServerInv'
  BY <1>12, MarkSignedKeepsServer
<1>13. ASSUME NEW h \in Handlers, AnswerSponsorship(h) PROVE ServerInv'
  BY <1>13, AnswerKeepsServer
<1>14. CASE GetEligibility
  BY <1>14, EligibilityKeepsServer
<1>15. CASE Crash \/ \E k \in Signers : Boot(k)
  BY <1>15, OtherStepsKeepServer
<1> QED
  BY <1>2, <1>3, <1>4, <1>5, <1>6, <1>7, <1>8, <1>9, <1>10, <1>11, <1>12, <1>13, <1>14, <1>15
  DEF ServiceNext, ServiceStep

-----------------------------------------------------------------------------
(* The chain's variables, step by step. *)

LEMMA InitChain == ServiceInit => ChainInv
<1> SUFFICES ASSUME ServiceInit PROVE ChainInv
  OBVIOUS
<1>1. Init
  BY DEF ServiceInit
<1>2. TypeOK /\ nullifierUsed = {} /\ attested = {} /\ totalSupply = 0
  BY <1>1, InitTypeOK DEF Init, GateInit, MintInit
<1>3. SpentMints = {}
  BY <1>2 DEF SpentMints
<1>4. \A t \in TokenIds : ~(t < totalSupply)
  BY <1>2 DEF TokenIds
<1> QED
  BY <1>2, <1>3, <1>4, FS_EmptySet DEF ChainInv, ReleasedWereGranted, TokensGoToAllowedAccount

LEMMA QuietKeepsChain ==
    ASSUME ChainInv, UNCHANGED <<now, chainVars>>, granted \subseteq granted'
    PROVE  ChainInv'
  BY DEF ChainInv, chainVars, gateVars, mintVars, TypeOK, GateTypeOK, MintTypeOK,
     ReleasedWereGranted, TokensGoToAllowedAccount, SpentMints

(* Steps that spend no mint proof and mint nothing keep the rest. *)
LEMMA NoMintKeepsChain ==
    ASSUME ChainInv, GateTypeOK', UNCHANGED <<mintVars, granted>>, SpentMints' = SpentMints,
           ReleasedWereGranted'
    PROVE  ChainInv'
<1>1. TypeOK'
  BY OtherStepTypeOK DEF ChainInv
<1> QED
  BY <1>1 DEF ChainInv, mintVars, TokensGoToAllowedAccount

LEMMA ReplyKeepsChain ==
    ASSUME ServerInv, ChainInv, NEW h \in Handlers, ReplyMint(h)
    PROVE  ChainInv'
<1>1. PICK a : a = [by |-> handler[h].by, over |-> handler[h].claim]
  OBVIOUS
<1>2. /\ handler[h].at = "reply" /\ attested' = attested \cup {a}
      /\ UNCHANGED <<now, owner, authorizedCaller, allowlistSigner, nullifierUsed, mintVars,
                     granted>>
  BY <1>1 DEF ReplyMint
<1>3. a \in Attestations /\ \E g \in granted : g.claim = a.over
  BY <1>1, <1>2, HandlerTyped, RequestShapes DEF Attestations, Claims, RequestTrue
<1>4. GateTypeOK'
  BY <1>2, <1>3 DEF ChainInv, TypeOK, GateTypeOK
<1>5. ReleasedWereGranted'
  BY <1>2, <1>3 DEF ChainInv, ReleasedWereGranted
<1>6. SpentMints' = SpentMints
  BY <1>2 DEF SpentMints
<1> QED
  BY <1>2, <1>4, <1>5, <1>6, NoMintKeepsChain

LEMMA ActionProofKeepsChain ==
    ASSUME ServerInv, ChainInv, NEW s \in sessions, NEW c \in Signable, RequestActionProof(s, c)
    PROVE  ChainInv'
<1>1. /\ Attest(backendKey, c) /\ c.kind = "action" /\ UNCHANGED <<mintVars, granted>>
      /\ backendKey \in Signers
  BY DEF RequestActionProof, serviceVars, ServerInv, ServerTypeOK
<1>2. GateTypeOK'
  BY <1>1, AttestGateTypeOK DEF ChainInv, TypeOK
<1>3. SpentMints' = SpentMints
  BY <1>1 DEF Attest, SpentMints
<1>4. ReleasedWereGranted'
  BY <1>1 DEF Attest, ChainInv, ReleasedWereGranted
<1> QED
  BY <1>1, <1>2, <1>3, <1>4, NoMintKeepsChain

LEMMA AdminKeepsChain ==
    ASSUME ChainInv, GateAdmin, UNCHANGED <<mintVars, granted>>
    PROVE  ChainInv'
<1>1. GateTypeOK'
  BY AdminGateTypeOK DEF ChainInv, TypeOK
<1>2. nullifierUsed' = nullifierUsed /\ attested' = attested
  BY DEF GateAdmin, Tick, gateVars, TransferOwnership, SetAuthorizedCaller, SetAllowlistSigner
<1>3. SpentMints' = SpentMints /\ ReleasedWereGranted'
  BY <1>2 DEF SpentMints, ChainInv, ReleasedWereGranted
<1> QED
  BY <1>1, <1>3, NoMintKeepsChain

(* An account creation spends the nullifier of an action. *)
LEMMA CreateAccountKeepsChain ==
    ASSUME ChainInv, CreateAccountOnChain, UNCHANGED granted
    PROVE  ChainInv'
<1>1. PICK r \in Recipients, hash \in ActionHashes, p \in PresentableProofs :
        VerifyActionAndConsume(Factory, r, ActionAccountCreate, hash, p)
  BY DEF CreateAccountOnChain
<1>2. GateTypeOK
  BY DEF ChainInv, TypeOK
<1>3. ActionClaim(r, ActionAccountCreate, hash, p.expiry) \in Claims
  BY <1>1, <1>2, VerifiedClaimAttested DEF VerifyActionAndConsume
<1>4. ActionAccountCreate \in ActionTypes
  BY <1>3 DEF Claims, MintClaims, ActionClaims, ActionClaim
<1>5. GateTypeOK'
  BY <1>1, <1>2, <1>4, ActionProofGateTypeOK
<1>6. attested' = attested /\ UNCHANGED mintVars
  BY <1>1 DEF VerifyActionAndConsume, CreateAccountOnChain
<1>7. PICK n : /\ nullifierUsed' = nullifierUsed \cup {n}
               /\ n.tag = "packed"
  BY <1>1 DEF VerifyActionAndConsume, ConsumeNullifier, ActionNullifier
<1>8. SpentMints' = SpentMints /\ ReleasedWereGranted'
  BY <1>6, <1>7 DEF SpentMints, ChainInv, ReleasedWereGranted
<1> QED
  BY <1>5, <1>6, <1>8, NoMintKeepsChain

(* The proof that is spent was released, so its claim was granted: the      *)
(* token goes where the grant says, and the nullifier is the grant's.       *)
LEMMA MintKeepsChain ==
    ASSUME ChainInv, GrantsNumbered, MintOnChain, UNCHANGED granted
    PROVE  ChainInv' /\ totalSupply' = totalSupply + 1
<1>1. PICK r \in Recipients, d \in Destinations, tr \in Traits, p \in PresentableProofs :
        Mint(r, d, tr, p)
  BY DEF MintOnChain
<1>2. PICK c : c = MintClaim(r, d, tr, p.expiry)
  OBVIOUS
<1>3. PICK n : n = MintNullifier(r, d, tr, FactHash(c))
  OBVIOUS
<1>4. /\ n \notin nullifierUsed /\ nullifierUsed' = nullifierUsed \cup {n}
      /\ [by |-> allowlistSigner, over |-> c] \in attested
  BY <1>1, <1>2, <1>3, MintSpends DEF Mint, ChainInv, TypeOK
<1>5. c.kind = "mint" /\ c.recipient = r /\ c.mintTo = d /\ c.traits = tr
  BY <1>2 DEF MintClaim
<1>6. PICK g \in granted : g.claim = c
  <2>1. [by |-> allowlistSigner, over |-> c].over = c
    OBVIOUS
  <2> QED
    BY <1>4, <1>5, <2>1 DEF ChainInv, ReleasedWereGranted
<1>7. n.tag = "NULL_V1" /\ n = NullifierOf(g.claim)
  BY <1>3, <1>5, <1>6 DEF MintNullifier, NullifierOf
<1>8. d = SmartAccountOf[AllowedAddress]
  BY <1>5, <1>6 DEF GrantsNumbered, ForAllowedWallet
<1>9. /\ UNCHANGED <<now, attested>> /\ totalSupply' = totalSupply + 1
      /\ tokens' = [tokens EXCEPT ![totalSupply] = [to |-> d, traits |-> tr]]
  BY <1>1 DEF Mint, VerifyAndConsume
<1>10. TypeOK'
  BY <1>1, MintStepTypeOK DEF ChainInv
<1>11. ReleasedWereGranted'
  BY <1>9 DEF ChainInv, ReleasedWereGranted
<1>12. SpentMints' = SpentMints \cup {n} /\ n \notin SpentMints
  BY <1>4, <1>7 DEF SpentMints
<1>13. IsFiniteSet(SpentMints') /\ Cardinality(SpentMints') = Cardinality(SpentMints) + 1
  BY <1>12, FS_AddElement DEF ChainInv
<1>14. \A m \in SpentMints' : \E f \in granted' : m = NullifierOf(f.claim)
  BY <1>7, <1>12 DEF ChainInv
<1>15. TokensGoToAllowedAccount'
  BY <1>8, <1>9, MintBounds
  DEF ChainInv, TypeOK, MintTypeOK, TokensGoToAllowedAccount, TokenIds
<1> QED
  BY <1>9, <1>10, <1>11, <1>13, <1>14, <1>15 DEF ChainInv

LEMMA NextChain ==
    ASSUME ServerInv, ChainInv, [ServiceNext]_allVars
    PROVE  ChainInv'
<1>1. CASE ChainStep
  <2>1. UNCHANGED granted
    BY <1>1 DEF ChainStep, serviceVars
  <2>2. GrantsNumbered
    BY DEF ServerInv
  <2> QED
    BY <1>1, <2>1, <2>2, AdminKeepsChain, MintKeepsChain, CreateAccountKeepsChain DEF ChainStep
<1>2. ASSUME NEW h \in Handlers, ReplyMint(h) PROVE ChainInv'
  BY <1>2, ReplyKeepsChain
<1>3. ASSUME NEW s \in sessions, NEW c \in Signable, RequestActionProof(s, c) PROVE ChainInv'
  BY <1>3, ActionProofKeepsChain
<1>4. CASE UNCHANGED allVars
  BY <1>4, QuietKeepsChain DEF allVars, serviceVars
<1>5. CASE up /\ AuthStep /\ UNCHANGED <<now, chainVars, serviceVars>>
  BY <1>5, QuietKeepsChain DEF serviceVars
<1>6. CASE GetEligibility \/ Crash \/ (\E k \in Signers : Boot(k))
           \/ (\E s \in sessions : RefuseSponsorship(s))
  BY <1>6, QuietKeepsChain DEF GetEligibility, Crash, Boot, RefuseSponsorship
<1>7. ASSUME NEW h \in Handlers,
             \/ \E s \in sessions :
                 \/ \E tr \in Traits : RequestMint(h, s, s.recipient, tr)
                 \/ \E r \in issued, g \in granted : RequestSponsorship(h, s, r, g.claim)
             \/ ResolveSmartAccount(h) \/ ConsumeMintAndPersistProof(h) \/ RefuseMint(h)
             \/ ReadAllowlistSigner(h) \/ ReadUnspentNullifier(h) \/ ReadSpentNullifier(h)
             \/ MarkPaymasterSigned(h) \/ AnswerSponsorship(h) \/ Abort(h)
      PROVE  UNCHANGED <<now, chainVars>> /\ granted \subseteq granted'
  BY <1>7 DEF RequestMint, RequestSponsorship, ResolveSmartAccount, ConsumeMintAndPersistProof,
      CreateIssuedMintProof, RefuseMint, ReadAllowlistSigner, ReadUnspentNullifier,
      ReadSpentNullifier, MarkPaymasterSigned, AnswerSponsorship, Abort
<1> QED
  BY <1>1, <1>2, <1>3, <1>4, <1>5, <1>6, <1>7, QuietKeepsChain DEF ServiceNext, ServiceStep

-----------------------------------------------------------------------------
(* The theorems. *)

LEMMA InitServiceInv == ServiceInit => ServiceInv
  BY InitServer, InitChain, InitAuthInv DEF ServiceInit, ServiceInv

LEMMA NextServiceInv == ServiceInv /\ [ServiceNext]_allVars => ServiceInv'
  BY NextServer, NextChain, ServiceStepIsAuthStep, NextAuthInv DEF ServiceInv

LEMMA AlwaysServiceInv == ServiceSpec => []ServiceInv
  BY InitServiceInv, NextServiceInv, PTL DEF ServiceSpec

(* Every table, every request in flight and everything on the chain keeps   *)
(* its type: no request is ever at a step with another step's data.         *)
THEOREM ServiceTypeCorrect == ServiceSpec => []ServiceTypeOK
<1>1. ServiceInv => ServiceTypeOK
  BY DEF ServiceInv, ServerInv, ServerTypeOK, ChainInv, AuthInv, ServiceTypeOK
<1> QED
  BY <1>1, AlwaysServiceInv, PTL

(* A slot is spent exactly when a proof row is written, whatever crashes,   *)
(* aborts or runs beside it.                                                *)
THEOREM OneSlotPerProof == ServiceSpec => []SlotPerProof
<1>1. ServiceInv => SlotPerProof
  BY DEF ServiceInv, ServerInv
<1> QED
  BY <1>1, AlwaysServiceInv, PTL

(* The paymaster pays only for what a slot was spent on, once per slot.     *)
THEOREM SponsorshipsAreBacked == ServiceSpec => []SponsorshipsBacked
<1>1. ServiceInv => SponsorshipsBacked
  BY DEF ServiceInv, ServerInv
<1> QED
  BY <1>1, AlwaysServiceInv, PTL

(* No token ever goes anywhere but to the allowlisted wallet's account.     *)
THEOREM TokensAllowed == ServiceSpec => []TokensGoToAllowedAccount
<1>1. ServiceInv => TokensGoToAllowedAccount
  BY DEF ServiceInv, ChainInv
<1> QED
  BY <1>1, AlwaysServiceInv, PTL

-----------------------------------------------------------------------------
(* The refinement of AllowlistDrop. *)

(* Each spent nullifier is that of one grant, each sponsorship is for one.  *)
RedeemedFit == totalSupply \in Nat /\ totalSupply <= Cardinality(granted)
SponsoredFit ==
    /\ Cardinality(sponsorships) \in Nat
    /\ Cardinality(sponsorships) <= Cardinality(granted)

LEMMA RedeemedWithinGrants == ServiceInv => RedeemedFit
<1> SUFFICES ASSUME ServiceInv PROVE RedeemedFit
  OBVIOUS
<1> DEFINE f == [n \in SpentMints |-> CHOOSE g \in granted : n = NullifierOf(g.claim)]
<1>1. /\ IsFiniteSet(granted) /\ Cardinality(SpentMints) = totalSupply
      /\ \A n \in SpentMints : \E g \in granted : n = NullifierOf(g.claim)
      /\ totalSupply \in Nat
  BY MintBounds DEF ServiceInv, ServerInv, GrantsNumbered, ChainInv, TypeOK, MintTypeOK
<1>2. \A n \in SpentMints : f[n] \in granted /\ n = NullifierOf(f[n].claim)
  BY <1>1
<1>3. f \in Injection(SpentMints, granted)
  <2>1. f \in [SpentMints -> granted]
    BY <1>2
  <2>2. DOMAIN f = SpentMints /\ \A n, m \in SpentMints : f[n] = f[m] => n = m
    BY <1>2
  <2> HIDE DEF f
  <2> QED
    BY <2>1, <2>2 DEF Injection, IsInjective
<1> QED
  BY <1>1, <1>3, FS_Injection DEF RedeemedFit

LEMMA SponsoredWithinGrants == ServiceInv => SponsoredFit
<1> SUFFICES ASSUME ServiceInv PROVE SponsoredFit
  OBVIOUS
<1> DEFINE f == [p \in sponsorships |-> [id |-> p.id, claim |-> p.userOp]]
<1>1. /\ IsFiniteSet(granted) /\ IsFiniteSet(sponsorships)
      /\ \A p \in sponsorships : f[p] \in granted /\ f[p].id = p.id
      /\ \A p, q \in sponsorships : q.id = p.id => q = p
  BY DEF ServiceInv, ServerInv, GrantsNumbered, SponsorshipsBacked
<1>2. f \in Injection(sponsorships, granted)
  <2>1. f \in [sponsorships -> granted]
    BY <1>1
  <2>2. DOMAIN f = sponsorships /\ \A p, q \in sponsorships : f[p] = f[q] => p = q
    BY <1>1
  <2> HIDE DEF f
  <2> QED
    BY <2>1, <2>2 DEF Injection, IsInjective
<1> QED
  BY <1>1, <1>2, FS_Injection, FS_CardinalityType DEF SponsoredFit

LEMMA InitDrop == ServiceInit => Drop!DropInit
  BY ServiceBounds, FS_EmptySet
  DEF ServiceInit, Init, MintInit, SlotsLeft, Drop!DropInit

(* Granting, redeeming and sponsoring are the three steps that count. *)
LEMMA ConsumeIsGrant ==
    ASSUME ServiceInv, NEW h \in Handlers, ConsumeMintAndPersistProof(h)
    PROVE  Drop!Grant
<1>1. SlotsLeft > 0 /\ UNCHANGED <<totalSupply, sponsorships>>
  BY DEF ConsumeMintAndPersistProof, MayConsume, chainVars, mintVars
<1>2. SlotsLeft \in 0 .. Slots /\ SlotsLeft' = SlotsLeft - 1
  BY SlotsCounted, ConsumeKeepsServer DEF ServiceInv
<1>3. Slots - SlotsLeft < Slots /\ Slots - SlotsLeft' = (Slots - SlotsLeft) + 1
  BY <1>1, <1>2, ServiceBounds
<1> QED
  BY <1>1, <1>3 DEF Drop!Grant

LEMMA MintIsRedeem ==
    ASSUME ServiceInv, ServiceInv', MintOnChain, UNCHANGED serviceVars
    PROVE  Drop!Redeem
<1>1. /\ totalSupply' = totalSupply + 1
      /\ UNCHANGED <<SlotsLeft, sponsorships, granted>>
  <2>1. UNCHANGED <<remaining, sponsorships, granted>>
    BY DEF serviceVars
  <2>2. SlotsLeft' = SlotsLeft
    BY <2>1 DEF SlotsLeft, NoRow
  <2>3. ChainInv /\ GrantsNumbered
    BY DEF ServiceInv, ServerInv
  <2>4. totalSupply' = totalSupply + 1
    BY <2>1, <2>3, MintKeepsChain
  <2> QED
    BY <2>1, <2>2, <2>4
<1>2. totalSupply \in Nat /\ totalSupply' <= Cardinality(granted)'
  <2>1. ServiceInv' => RedeemedFit'
    BY RedeemedWithinGrants, PTL
  <2> QED
    BY <2>1, RedeemedWithinGrants DEF RedeemedFit
<1>3. Cardinality(granted) = Slots - SlotsLeft
  BY SlotsCounted DEF ServiceInv
<1>4. totalSupply < Slots - SlotsLeft
  BY <1>1, <1>2, <1>3, SlotsCounted, ServiceBounds DEF ServiceInv
<1> QED
  BY <1>1, <1>4 DEF Drop!Redeem

LEMMA AnswerIsSponsor ==
    ASSUME ServiceInv, ServiceInv', NEW h \in Handlers, AnswerSponsorship(h)
    PROVE  Drop!Sponsor
<1>1. /\ Cardinality(sponsorships') = Cardinality(sponsorships) + 1
      /\ UNCHANGED <<SlotsLeft, totalSupply, granted>>
  <2>1. UNCHANGED <<remaining, totalSupply, granted>>
    BY DEF AnswerSponsorship, chainVars, mintVars
  <2>2. SlotsLeft' = SlotsLeft
    BY <2>1 DEF SlotsLeft, NoRow
  <2>3. ServerInv
    BY DEF ServiceInv
  <2>4. Cardinality(sponsorships') = Cardinality(sponsorships) + 1
    BY <2>3, AnswerKeepsServer
  <2> QED
    BY <2>1, <2>2, <2>4
<1>2. Cardinality(sponsorships) \in Nat /\ Cardinality(sponsorships)' <= Cardinality(granted)'
  <2>1. ServiceInv' => SponsoredFit'
    BY SponsoredWithinGrants, PTL
  <2> QED
    BY <2>1, SponsoredWithinGrants DEF SponsoredFit
<1>3. Cardinality(granted) = Slots - SlotsLeft
  BY SlotsCounted DEF ServiceInv
<1>4. Cardinality(sponsorships) < Slots - SlotsLeft
  BY <1>1, <1>2, <1>3, SlotsCounted, ServiceBounds DEF ServiceInv
<1> QED
  BY <1>1, <1>4 DEF Drop!Sponsor

LEMMA NextDrop ==
    ASSUME ServiceInv, ServiceInv', [ServiceNext]_allVars
    PROVE  [Drop!DropNext]_(Drop!dropVars)
<1>1. ASSUME UNCHANGED <<remaining, totalSupply, sponsorships>>
      PROVE  UNCHANGED Drop!dropVars
  BY <1>1 DEF Drop!dropVars, SlotsLeft
<1>2. CASE ChainStep
  <2>1. CASE MintOnChain
    BY <1>2, <2>1, MintIsRedeem DEF ChainStep, Drop!DropNext
  <2>2. CASE UNCHANGED mintVars
    BY <1>1, <1>2, <2>2 DEF ChainStep, serviceVars, mintVars
  <2> QED
    BY <1>2, <2>1, <2>2 DEF ChainStep, CreateAccountOnChain
<1>3. ASSUME NEW h \in Handlers, ConsumeMintAndPersistProof(h) PROVE Drop!DropNext
  BY <1>3, ConsumeIsGrant DEF Drop!DropNext
<1>4. ASSUME NEW h \in Handlers, AnswerSponsorship(h) PROVE Drop!DropNext
  BY <1>4, AnswerIsSponsor DEF Drop!DropNext
<1>5. CASE GetEligibility
  <2>1. PICK n : n = SlotsLeft
    OBVIOUS
  <2>2. remaining' = n /\ n \in 0 .. Slots /\ UNCHANGED <<totalSupply, sponsorships>>
    BY <1>5, <2>1, SlotsCounted DEF ServiceInv, GetEligibility, chainVars, mintVars
  <2>3. SlotsLeft' = n
    BY <2>2, ServiceBounds DEF SlotsLeft, NoRow
  <2> QED
    BY <2>1, <2>2, <2>3 DEF Drop!dropVars
<1>6. CASE \/ UNCHANGED allVars
           \/ up /\ AuthStep /\ UNCHANGED <<now, chainVars, serviceVars>>
           \/ Crash \/ (\E k \in Signers : Boot(k))
           \/ \E s \in sessions : \/ RefuseSponsorship(s)
                                  \/ \E c \in Signable : RequestActionProof(s, c)
  BY <1>1, <1>6 DEF allVars, chainVars, mintVars, serviceVars, Crash, Boot, RefuseSponsorship,
      RequestActionProof
<1>7. ASSUME NEW h \in Handlers,
             \/ \E s \in sessions :
                 \/ \E tr \in Traits : RequestMint(h, s, s.recipient, tr)
                 \/ \E r \in issued, g \in granted : RequestSponsorship(h, s, r, g.claim)
             \/ ResolveSmartAccount(h) \/ RefuseMint(h) \/ ReplyMint(h)
             \/ ReadAllowlistSigner(h) \/ ReadUnspentNullifier(h) \/ ReadSpentNullifier(h)
             \/ MarkPaymasterSigned(h) \/ Abort(h)
      PROVE  UNCHANGED Drop!dropVars
  BY <1>1, <1>7 DEF RequestMint, RequestSponsorship, ResolveSmartAccount, RefuseMint, ReplyMint,
      ReadAllowlistSigner, ReadUnspentNullifier, ReadSpentNullifier, MarkPaymasterSigned, Abort,
      chainVars, mintVars
<1> QED
  BY <1>2, <1>3, <1>4, <1>5, <1>6, <1>7 DEF ServiceNext, ServiceStep

(* The server, the database and the chain together implement the abstract   *)
(* drop: no slot is granted, redeemed or sponsored twice.                   *)
THEOREM ServiceImplementsDrop == ServiceSpec => ImplementsDrop
  BY InitDrop, NextDrop, AlwaysServiceInv, PTL DEF ServiceSpec, ImplementsDrop, Drop!DropSpec
===============================================================================
