---------------------------- MODULE UserOps_proofs ----------------------------
(***************************************************************************)
(* Proofs about the wallet and what surrounds it, for any owners, calls,   *)
(* requests, tickets, inboxes and number of userOps: the newest ticket     *)
(* stays in force, a userOp runs once, a sponsored one has minted, and     *)
(* nothing the account executes was not armed, each time by a ticket of    *)
(* its own or a live mint proof.                                           *)
(***************************************************************************)
EXTENDS UserOps, FiniteSetTheorems, WellFoundedInduction, TLAPS

-----------------------------------------------------------------------------
(* What the gate establishes and keeps. *)

(* A proof a caller can present carries the fact hash and the signature of  *)
(* attestations the caller holds.                                           *)
LEMMA PresentableProof ==
    ASSUME NEW p \in PresentableProofs, GateTypeOK
    PROVE  /\ p.expiry \in Expiries
           /\ p.factHash \in FactHashes
           /\ \E a \in attested : p.signature.by = a.by /\ p.signature.over = a.over
  BY DEF PresentableProofs, GateTypeOK, FactHashes, Attestations

(* A proof passes verification for a claim only if the current signer's     *)
(* attestation over that very claim has been released.                      *)
LEMMA VerifiedClaimAttested ==
    ASSUME NEW claim, NEW p \in PresentableProofs, GateTypeOK,
           VerifyBackendProof(claim, p)
    PROVE  /\ [by |-> allowlistSigner, over |-> claim] \in attested
           /\ claim \in Claims
<1>1. PICK a \in attested : p.signature.by = a.by /\ p.signature.over = a.over
  BY PresentableProof
<1>2. Recovered(claim, p.signature) = allowlistSigner
  BY DEF VerifyBackendProof
<1>3. allowlistSigner \in Signers /\ allowlistSigner # ZeroAddress
  BY AddressAssumption DEF GateTypeOK
<1>4. p.signature.over = claim /\ p.signature.by = allowlistSigner
  BY <1>2, <1>3 DEF Recovered
<1>5. a \in [by : Signers, over : Claims]
  BY DEF GateTypeOK, Attestations
<1>6. a = [by |-> allowlistSigner, over |-> claim]
  BY <1>1, <1>4, <1>5
<1> QED
  BY <1>5, <1>6

LEMMA ActionProofGateTypeOK ==
    ASSUME GateTypeOK, NEW caller, NEW r \in Recipients, NEW a \in ActionTypes,
           NEW h \in ActionHashes, NEW p \in PresentableProofs,
           VerifyActionAndConsume(caller, r, a, h, p)
    PROVE  GateTypeOK'
<1>1. p.factHash \in FactHashes
  BY PresentableProof
<1>2. ActionNullifier(r, a, p.factHash) \in ActionNullifiers
  BY <1>1 DEF ActionNullifier, ActionNullifiers
<1> QED
  BY <1>2 DEF GateTypeOK, VerifyActionAndConsume, ConsumeNullifier

-----------------------------------------------------------------------------
(* Tickets. *)

(* NewestTicketInForce says nothing of a ticket to come: that one is let in *)
(* by lastNonce, which is therefore the nonce of the ticket in force.       *)
InboxInv ==
    /\ DOMAIN messages = Inboxes /\ DOMAIN lastNonce = Inboxes /\ DOMAIN latestTicket = Inboxes
    /\ \A i \in Inboxes : lastNonce[i] \in Nat /\ latestTicket[i].nonce = lastNonce[i]
    /\ NewestTicketInForce

LEMMA InitInboxInv == WalletInit => InboxInv
  BY TicketAssumption DEF WalletInit, InboxInit, InboxInv, NewestTicketInForce, NoTicket

LEMMA RecordTicketKeeps ==
    ASSUME InboxInv, NEW i \in Inboxes, NEW t \in L2Tickets[i], RecordTicket(i, t)
    PROVE  InboxInv'
<1>1. /\ t.nonce \in Nat /\ t.nonce > lastNonce[i]
      /\ messages' = [messages EXCEPT ![i] = @ \ {t}]
      /\ lastNonce' = [lastNonce EXCEPT ![i] = t.nonce]
      /\ latestTicket' = [latestTicket EXCEPT ![i] = t]
  BY TicketAssumption DEF RecordTicket, NewNonce
<1>2. /\ DOMAIN messages' = Inboxes /\ DOMAIN lastNonce' = Inboxes
      /\ DOMAIN latestTicket' = Inboxes
  BY <1>1 DEF InboxInv
<1>3. ASSUME NEW j \in Inboxes
      PROVE  /\ lastNonce'[j] \in Nat /\ latestTicket'[j].nonce = lastNonce'[j]
             /\ \A u \in L2Tickets[j] \ messages'[j] :
                  u.nonce < latestTicket'[j].nonce \/ u = latestTicket'[j]
  <2>1. CASE j # i
    <3>1. /\ messages'[j] = messages[j] /\ lastNonce'[j] = lastNonce[j]
          /\ latestTicket'[j] = latestTicket[j]
      BY <1>1, <2>1 DEF InboxInv
    <3> QED
      BY <3>1 DEF InboxInv, NewestTicketInForce
  <2>2. CASE j = i
    <3>1. messages'[i] = messages[i] \ {t} /\ lastNonce'[i] = t.nonce /\ latestTicket'[i] = t
      BY <1>1 DEF InboxInv
    <3>2. ASSUME NEW u \in L2Tickets[i] \ messages'[i], u # t
          PROVE  u.nonce < t.nonce
      <4>1. u.nonce \in Nat /\ u \in L2Tickets[i] \ messages[i]
        BY <3>1, <3>2, TicketAssumption
      <4>2. u.nonce <= lastNonce[i]
        BY <4>1 DEF InboxInv, NewestTicketInForce
      <4> QED
        BY <1>1, <4>1, <4>2 DEF InboxInv
    <3> QED
      BY <1>1, <2>2, <3>1, <3>2
  <2> QED
    BY <2>1, <2>2
<1> QED
  BY <1>2, <1>3 DEF InboxInv, NewestTicketInForce

LEMMA NextInboxInv ==
    ASSUME InboxInv, [WalletNext]_<<chainVars, walletVars>>
    PROVE  InboxInv'
<1>1. CASE UNCHANGED inboxVars
  BY <1>1 DEF inboxVars, InboxInv, NewestTicketInForce
<1>2. CASE \E i \in Inboxes : \E t \in L2Tickets[i] : TicketArrives(i, t)
  BY <1>2, RecordTicketKeeps DEF TicketArrives
<1>3. CASE UNCHANGED <<chainVars, walletVars>>
  BY <1>1, <1>3 DEF chainVars
<1> QED
  BY <1>1, <1>2, <1>3
  DEF WalletNext, CreatePhilAccount, CreateAccount, ConfigureVault, OwnerCall, OwnerExecutes,
      HandleOp, SimulateValidation, RotateSigner, TimePasses, chainVars

(* The ticket in force is the newest consumed, in whatever order the L2     *)
(* messages of however many inboxes arrive.                                 *)
THEOREM NewestTicket == WalletSpec => []NewestTicketInForce
<1>1. InboxInv => NewestTicketInForce
  BY DEF InboxInv
<1> QED
  BY <1>1, InitInboxInv, NextInboxInv, PTL DEF WalletSpec

-----------------------------------------------------------------------------
(* UserOps. *)

UserOp == [nonce : Nat, request : Requests, sponsor : Sponsorships \cup {NotSponsored},
           token : Nat]

(* The nonces of the userOps run are 0, 1, ..., and opNonce is next; every  *)
(* token below totalSupply is minted for good.                              *)
OpsInv ==
    /\ totalSupply \in Nat
    /\ DOMAIN tokens = TokenIds
    /\ opsRun \in Seq(UserOp)
    /\ opNonce = Len(opsRun)
    /\ \A k \in DOMAIN opsRun : opsRun[k].nonce = k - 1
    /\ SponsoredOpsMinted

LEMMA InitOpsInv == WalletInit => OpsInv
  BY DEF WalletInit, MintInit, OpsInv, SponsoredOpsMinted

(* The calls of a request mint one token, the next, or none. *)
LEMMA MintIfAskedMintsNext ==
    ASSUME NEW request \in Requests, MintIfAsked(request)
    PROVE  \/ MintsOf(request) = {} /\ UNCHANGED mintVars
           \/ \E c \in MintsOf(request) :
                /\ totalSupply < MaxSupply
                /\ totalSupply' = totalSupply + 1
                /\ tokens' = [tokens EXCEPT ![totalSupply] = [to |-> c.mintTo, traits |-> c.traits]]
  BY DEF MintIfAsked, Mint, NotSoldOut

(* A sponsored userOp's token is one of those that are minted. *)
LEMMA SponsoredTokenMinted ==
    ASSUME OpsInv, NEW k \in DOMAIN opsRun, opsRun[k].sponsor # NotSponsored
    PROVE  /\ opsRun[k].token \in Nat /\ opsRun[k].token < totalSupply
           /\ tokens[opsRun[k].token].to = Account
<1>1. opsRun[k] \in UserOp
  BY DEF OpsInv
<1>2. opsRun[k].token \in Nat
  BY <1>1 DEF UserOp
<1> QED
  BY <1>2 DEF OpsInv, SponsoredOpsMinted

(* Minting keeps what is minted; so a step that runs no userOp keeps OpsInv. *)
LEMMA MintIfAskedKeepsTokens ==
    ASSUME OpsInv, NEW request \in Requests, MintIfAsked(request)
    PROVE  /\ totalSupply' \in Nat /\ totalSupply' >= totalSupply
           /\ DOMAIN tokens' = TokenIds
           /\ \A t \in Nat : t < totalSupply => tokens'[t] = tokens[t]
<1>1. CASE UNCHANGED mintVars
  BY <1>1 DEF mintVars, OpsInv
<1>2. CASE \E c \in MintsOf(request) :
             /\ totalSupply < MaxSupply
             /\ totalSupply' = totalSupply + 1
             /\ tokens' = [tokens EXCEPT ![totalSupply] = [to |-> c.mintTo, traits |-> c.traits]]
  BY <1>2 DEF OpsInv
<1> QED
  BY <1>1, <1>2, MintIfAskedMintsNext

LEMMA OthersKeepOps ==
    ASSUME OpsInv, UNCHANGED <<opNonce, opsRun>>,
           totalSupply' \in Nat, totalSupply' >= totalSupply, DOMAIN tokens' = TokenIds,
           \A t \in Nat : t < totalSupply => tokens'[t] = tokens[t]
    PROVE  OpsInv'
<1>1. ASSUME NEW k \in DOMAIN opsRun, opsRun[k].sponsor # NotSponsored
      PROVE  opsRun[k].token < totalSupply' /\ tokens'[opsRun[k].token].to = Account
  <2>1. /\ opsRun[k].token \in Nat /\ opsRun[k].token < totalSupply
        /\ tokens[opsRun[k].token].to = Account
    BY <1>1, SponsoredTokenMinted
  <2> QED
    BY <2>1 DEF OpsInv
<1> QED
  BY <1>1 DEF OpsInv, SponsoredOpsMinted

(* What the paymaster pays for is one call, a mint into this account. *)
LEMMA SponsoredIsOneMint ==
    ASSUME NEW request \in Requests, SponsoredMint(request)
    PROVE  MintsOf(request) = {request.calls[1]} /\ request.calls[1].mintTo = Account
  BY OneCallUnlessBatch DEF SponsoredMint, MintsOf, CallsOf, IsMint

LEMMA HandleOpKeepsOps ==
    ASSUME OpsInv, NEW nonce \in Nat, NEW signer, NEW request \in Requests,
           NEW sponsor \in Sponsorships \cup {NotSponsored},
           HandleOp(nonce, signer, request, sponsor)
    PROVE  OpsInv'
<1> DEFINE op == [nonce |-> nonce, request |-> request, sponsor |-> sponsor,
                  token |-> totalSupply]
<1>1. /\ nonce = opNonce /\ opNonce' = opNonce + 1
      /\ opsRun' = Append(opsRun, op)
      /\ MintIfAsked(request)
      /\ sponsor # NotSponsored => SponsoredMint(request)
  BY DEF HandleOp, NextNonce, Execute, PaymasterAccepts
<1>2. op \in UserOp
  BY DEF OpsInv, UserOp
<1>3. /\ opsRun' \in Seq(UserOp) /\ Len(opsRun') = Len(opsRun) + 1
      /\ \A k \in DOMAIN opsRun : k \in Nat /\ opsRun'[k] = opsRun[k]
      /\ opsRun'[Len(opsRun) + 1] = op
      /\ DOMAIN opsRun' = DOMAIN opsRun \cup {Len(opsRun) + 1}
  BY <1>1, <1>2 DEF OpsInv
<1>4. /\ totalSupply' \in Nat /\ totalSupply' >= totalSupply
      /\ DOMAIN tokens' = TokenIds
      /\ \A t \in Nat : t < totalSupply => tokens'[t] = tokens[t]
  BY <1>1, MintIfAskedKeepsTokens
<1>5. ASSUME sponsor # NotSponsored
      PROVE  totalSupply < totalSupply' /\ tokens'[totalSupply].to = Account
  <2>1. MintsOf(request) = {request.calls[1]} /\ request.calls[1].mintTo = Account
    BY <1>1, <1>5, SponsoredIsOneMint
  <2>2. /\ totalSupply < MaxSupply /\ totalSupply' = totalSupply + 1
        /\ tokens' = [tokens EXCEPT ![totalSupply] =
                        [to |-> request.calls[1].mintTo, traits |-> request.calls[1].traits]]
    BY <1>1, <2>1, MintIfAskedMintsNext
  <2>3. totalSupply \in DOMAIN tokens
    BY <2>2, MintBounds DEF OpsInv, TokenIds
  <2> QED
    BY <2>1, <2>2, <2>3 DEF OpsInv
<1>6. ASSUME NEW k \in DOMAIN opsRun, opsRun[k].sponsor # NotSponsored
      PROVE  opsRun[k].token < totalSupply' /\ tokens'[opsRun[k].token].to = Account
  <2>1. /\ opsRun[k].token \in Nat /\ opsRun[k].token < totalSupply
        /\ tokens[opsRun[k].token].to = Account
    BY <1>6, SponsoredTokenMinted
  <2> QED
    BY <1>4, <2>1 DEF OpsInv
<1>7. SponsoredOpsMinted'
  BY <1>3, <1>5, <1>6 DEF SponsoredOpsMinted
<1>8. \A k \in DOMAIN opsRun' : opsRun'[k].nonce = k - 1
  BY <1>1, <1>3 DEF OpsInv
<1> QED
  BY <1>1, <1>3, <1>4, <1>7, <1>8 DEF OpsInv

LEMMA NextOpsInv ==
    ASSUME OpsInv, [WalletNext]_<<chainVars, walletVars>>
    PROVE  OpsInv'
<1>1. ASSUME UNCHANGED <<opNonce, opsRun>>, UNCHANGED mintVars
      PROVE  OpsInv'
  BY <1>1, OthersKeepOps DEF mintVars, OpsInv
<1>2. ASSUME NEW o \in Senders, NEW r \in Requests, OwnerExecutes(o, r)
      PROVE  OpsInv'
  <2>1. UNCHANGED <<opNonce, opsRun>> /\ MintIfAsked(r)
    BY <1>2 DEF OwnerExecutes, Execute
  <2> QED
    BY <2>1, MintIfAskedKeepsTokens, OthersKeepOps
<1>3. ASSUME NEW n \in 0 .. MaxOps, NEW o \in Senders, NEW r \in Requests,
             NEW s \in Sponsorships \cup {NotSponsored}, HandleOp(n, o, r, s)
      PROVE  OpsInv'
  BY <1>3, HandleOpKeepsOps
<1>4. CASE UNCHANGED <<chainVars, walletVars>>
  BY <1>1, <1>4 DEF chainVars, walletVars, historyVars
<1>5. CASE WalletNext
  BY <1>1, <1>2, <1>3, <1>5
  DEF WalletNext, CreatePhilAccount, CreateAccount, ConfigureVault, OwnerCall,
      SimulateValidation, RotateSigner, TimePasses, TicketArrives,
      chainVars, walletVars, historyVars
<1> QED
  BY <1>4, <1>5

LEMMA AlwaysOpsInv == WalletSpec => []OpsInv
  BY InitOpsInv, NextOpsInv, PTL DEF WalletSpec

(* A userOp runs once: each of those that ran has a nonce of its own. *)
THEOREM OpsOnce == WalletSpec => []OpsRunOnce
<1>1. OpsInv => OpsRunOnce
  <2> SUFFICES ASSUME OpsInv, NEW j \in DOMAIN opsRun, NEW k \in DOMAIN opsRun,
                      opsRun[j].nonce = opsRun[k].nonce
               PROVE  j = k
    BY DEF OpsRunOnce
  <2>1. opsRun[j].nonce = j - 1 /\ opsRun[k].nonce = k - 1
    BY DEF OpsInv
  <2>2. j \in Nat /\ k \in Nat
    BY DEF OpsInv
  <2>3. j - 1 = k - 1
    BY <2>1
  <2> QED
    BY <2>2, <2>3
<1> QED
  BY <1>1, AlwaysOpsInv, PTL

(* A userOp that the paymaster paid for minted its token, for good. *)
THEOREM SponsoredMinted == WalletSpec => []SponsoredOpsMinted
<1>1. OpsInv => SponsoredOpsMinted
  BY DEF OpsInv
<1> QED
  BY <1>1, AlwaysOpsInv, PTL

-----------------------------------------------------------------------------
(* One call of the account to itself.                                      *)

Masks == {{}} \cup {c.mask : c \in {d \in AllCalls : d.fn = "setStarkScopeMask"}}
Amounts == {LargeSpend} \cup {c.amount : c \in {d \in AllCalls : d.fn = "setLargeSpendWei"}}
Vaults ==
    [owners : SUBSET Senders, ownerCount : Nat, unlockInbox : Inboxes \cup {ZeroAddress},
     philTestMint : MintTargets \cup {ZeroAddress}, starkScopeMask : Masks,
     largeSpendWei : Amounts, lastExecutionApprovalNonce : Nat, approved : SUBSET Hashes]

OwnersCounted(v) ==
    /\ IsFiniteSet(v.owners)
    /\ v.ownerCount = Cardinality(v.owners) /\ v.ownerCount > 0
TargetHasInbox(v) == v.philTestMint # ZeroAddress => Configured(v)
VaultOK(v) == v \in Vaults /\ OwnersCounted(v) /\ TargetHasInbox(v)

(* From v to w the account has made the calls C: an approval needs a ticket *)
(* newer than any before, and nothing else approves.                        *)
ArmedBy(v, w, C) ==
    /\ w.lastExecutionApprovalNonce >= v.lastExecutionApprovalNonce
    /\ \A c \in C : IsApproval(c) =>
         w.lastExecutionApprovalNonce > v.lastExecutionApprovalNonce
    /\ w.approved \subseteq v.approved \cup {Approved(c) : c \in {d \in C : IsApproval(d)}}

LEMMA ApprovalsAreHashes ==
    ASSUME NEW c \in AllCalls, IsApproval(c)
    PROVE  Approved(c) \in Hashes
<1>1. c.recipient \in Senders
  BY DEF Senders
<1>2. c.request \in Requests
  BY WalletBounds DEF IsApproval
<1> QED
  BY <1>1, <1>2 DEF Hashes, Approved

LEMMA TicketNonce ==
    ASSUME InboxInv, NEW v \in Vaults
    PROVE  Ticket(v).nonce \in Nat
  BY DEF InboxInv, Ticket, Configured, Vaults, NoTicket

LEMMA AcceptedCallKeeps ==
    ASSUME InboxInv, NEW v, VaultOK(v), NEW sender, NEW c \in AllCalls, c.target = Account,
           Accepts(v, sender, c)
    PROVE  VaultOK(After(v, c)) /\ ArmedBy(v, After(v, c), {c})
<1>0. v \in Vaults /\ OwnersCounted(v) /\ TargetHasInbox(v)
  BY DEF VaultOK
<1>w. PICK w : w = After(v, c)
  OBVIOUS
<1>1. CASE c.fn = "addOwner"
  <2>1. /\ w = [v EXCEPT !.owners = @ \cup {c.owner}, !.ownerCount = @ + 1]
        /\ c.owner \notin v.owners /\ c.owner \in Senders
    BY <1>1, <1>w DEF After, Accepts, Senders
  <2>2. /\ w.owners = v.owners \cup {c.owner} /\ w.ownerCount = v.ownerCount + 1
        /\ w.lastExecutionApprovalNonce = v.lastExecutionApprovalNonce
        /\ w.approved = v.approved /\ w \in Vaults /\ TargetHasInbox(w)
    <3>1. PICK owners, count : owners = v.owners \cup {c.owner} /\ count = v.ownerCount + 1
      OBVIOUS
    <3>2. owners \in SUBSET Senders /\ count \in Nat
      BY <1>0, <2>1, <3>1 DEF Vaults
    <3>3. w = [v EXCEPT !.owners = owners, !.ownerCount = count]
      BY <2>1, <3>1
    <3> QED
      BY <1>0, <3>1, <3>2, <3>3 DEF Vaults, TargetHasInbox, Configured
  <2>3. IsFiniteSet(w.owners) /\ Cardinality(w.owners) = Cardinality(v.owners) + 1
    BY <1>0, <2>1, <2>2, FS_AddElement DEF OwnersCounted
  <2>4. OwnersCounted(w)
    BY <1>0, <2>2, <2>3 DEF OwnersCounted, Vaults
  <2>5. ArmedBy(v, w, {c})
    BY <1>0, <1>1, <2>2 DEF ArmedBy, Vaults, IsApproval
  <2> QED
    BY <1>w, <2>2, <2>4, <2>5 DEF VaultOK
<1>2. CASE c.fn = "removeOwner"
  <2>1. /\ w = [v EXCEPT !.owners = @ \ {c.owner}, !.ownerCount = @ - 1]
        /\ c.owner \in v.owners /\ v.ownerCount > 1
    BY <1>2, <1>w DEF After, Accepts, NotLastOwner
  <2>2. /\ w.owners = v.owners \ {c.owner} /\ w.ownerCount = v.ownerCount - 1
        /\ w.lastExecutionApprovalNonce = v.lastExecutionApprovalNonce
        /\ w.approved = v.approved /\ w \in Vaults /\ TargetHasInbox(w)
    <3>1. PICK owners, count : owners = v.owners \ {c.owner} /\ count = v.ownerCount - 1
      OBVIOUS
    <3>2. owners \in SUBSET Senders /\ count \in Nat
      BY <1>0, <2>1, <3>1 DEF Vaults
    <3>3. w = [v EXCEPT !.owners = owners, !.ownerCount = count]
      BY <2>1, <3>1
    <3> QED
      BY <1>0, <3>1, <3>2, <3>3 DEF Vaults, TargetHasInbox, Configured
  <2>3. IsFiniteSet(w.owners) /\ Cardinality(w.owners) = Cardinality(v.owners) - 1
    BY <1>0, <2>1, <2>2, FS_RemoveElement DEF OwnersCounted
  <2>4. OwnersCounted(w)
    BY <1>0, <2>1, <2>2, <2>3 DEF OwnersCounted, Vaults
  <2>5. ArmedBy(v, w, {c})
    BY <1>0, <1>2, <2>2 DEF ArmedBy, Vaults, IsApproval
  <2> QED
    BY <1>w, <2>2, <2>4, <2>5 DEF VaultOK
<1>3. CASE c.fn \in {"setStarkScopeMask", "setLargeSpendWei", "setUnlockInbox"}
  <2>1. \/ c.mask \in Masks /\ w = [v EXCEPT !.starkScopeMask = c.mask]
        \/ c.amount \in Amounts /\ w = [v EXCEPT !.largeSpendWei = c.amount]
        \/ c.inbox \in Inboxes /\ w = [v EXCEPT !.unlockInbox = c.inbox]
    BY <1>3, <1>w, WalletBounds DEF After, Accepts, Masks, Amounts, SwitchInbox
  <2>2. /\ w.owners = v.owners /\ w.ownerCount = v.ownerCount
        /\ w.lastExecutionApprovalNonce = v.lastExecutionApprovalNonce
        /\ w.approved = v.approved /\ w \in Vaults /\ TargetHasInbox(w)
    BY <1>0, <2>1, WalletAddresses DEF Vaults, TargetHasInbox, Configured
  <2>3. OwnersCounted(w)
    BY <1>0, <2>2 DEF OwnersCounted
  <2>4. ArmedBy(v, w, {c})
    BY <1>0, <1>3, <2>2 DEF ArmedBy, Vaults, IsApproval
  <2> QED
    BY <1>w, <2>2, <2>3, <2>4 DEF VaultOK
<1>4. CASE c.fn = "approveExecutionWithUnlock"
  <2>1. /\ w = [v EXCEPT !.lastExecutionApprovalNonce = Ticket(v).nonce,
                         !.approved = @ \cup {Approved(c)}]
        /\ Ticket(v).nonce > v.lastExecutionApprovalNonce
    BY <1>4, <1>w DEF After, Accepts, Approved, FreshTicket
  <2>2. IsApproval(c) /\ Approved(c) \in Hashes /\ Ticket(v).nonce \in Nat
    BY <1>0, <1>4, ApprovalsAreHashes, TicketNonce DEF IsApproval
  <2>3. /\ w.owners = v.owners /\ w.ownerCount = v.ownerCount
        /\ w.lastExecutionApprovalNonce = Ticket(v).nonce
        /\ w.approved = v.approved \cup {Approved(c)} /\ w \in Vaults /\ TargetHasInbox(w)
    BY <1>0, <2>1, <2>2 DEF Vaults, TargetHasInbox, Configured
  <2>4. OwnersCounted(w)
    BY <1>0, <2>3 DEF OwnersCounted
  <2>5. ArmedBy(v, w, {c})
    BY <1>0, <2>1, <2>2, <2>3 DEF ArmedBy, Vaults
  <2> QED
    BY <1>w, <2>3, <2>4, <2>5 DEF VaultOK
<1> QED
  BY <1>1, <1>2, <1>3, <1>4 DEF Accepts, OwnerSelectors

-----------------------------------------------------------------------------
(* The calls of a request.  Perform recurses over them; the induction is a  *)
(* smallest counterexample.                                                 *)

LEMMA SmallestNumber ==
    ASSUME NEW T \in SUBSET Nat, T # {}
    PROVE  \E n \in T : \A m \in Nat : m < n => m \notin T
<1>1. PICK R : R = {ss \in Nat \X Nat : ss[1] < ss[2]} /\ IsWellFoundedOn(R, Nat)
  BY NatLessThanWellFounded DEF OpToRel
<1>2. PICK n \in T : \A m \in T : <<m, n>> \notin R
  BY <1>1, WFMin
<1>3. ASSUME NEW m \in Nat, m < n, m \in T PROVE FALSE
  BY <1>1, <1>2, <1>3
<1> QED
  BY <1>3

Unperformed(v) == [ok |-> TRUE, v |-> v]

(* done[k] is where the first k calls get. *)
Performs(done, v, calls, n) ==
    \A k \in 0 .. n : done[k] =
        IF k = 0 THEN Unperformed(v) ELSE AfterCall(v, done[k - 1], calls[k])

LEMMA PerformExists ==
    ASSUME NEW v, NEW calls, NEW n \in Nat
    PROVE  \E done : Performs(done, v, calls, n)
<1> DEFINE T == {k \in Nat : ~ \E done : Performs(done, v, calls, k)}
<1>1. SUFFICES ASSUME T # {} PROVE FALSE
  OBVIOUS
<1>2. PICK k \in T : \A m \in Nat : m < k => m \notin T
  <2>1. T \in SUBSET Nat
    OBVIOUS
  <2> HIDE DEF T
  <2> QED
    BY <1>1, <2>1, SmallestNumber
<1>3. CASE k = 0
  <2>1. Performs([j \in 0 .. 0 |-> Unperformed(v)], v, calls, 0)
    BY DEF Performs
  <2> QED
    BY <1>2, <1>3, <2>1
<1>4. CASE k # 0
  <2>1. k - 1 \in Nat /\ k - 1 < k
    BY <1>4
  <2>2. PICK done : Performs(done, v, calls, k - 1)
    BY <1>2, <2>1
  <2> DEFINE more == [j \in 0 .. k |-> IF j < k THEN done[j]
                                       ELSE AfterCall(v, done[k - 1], calls[k])]
  <2>3. ASSUME NEW j \in 0 .. k
        PROVE  more[j] = IF j = 0 THEN Unperformed(v)
                         ELSE AfterCall(v, more[j - 1], calls[j])
    <3>1. CASE j = k
      BY <1>4, <3>1
    <3>2. CASE j < k
      <4>1. j \in 0 .. k - 1 /\ (j # 0 => j - 1 \in 0 .. k - 1)
        BY <3>2
      <4>2. more[j] = done[j] /\ (j # 0 => more[j - 1] = done[j - 1])
        BY <3>2, <4>1
      <4> HIDE DEF more
      <4> QED
        BY <2>2, <4>1, <4>2 DEF Performs
    <3> QED
      BY <3>1, <3>2
  <2>4. Performs(more, v, calls, k)
    BY <2>3 DEF Performs
  <2> QED
    BY <1>2, <2>4
<1> QED
  BY <1>3, <1>4

LEMMA PerformIs ==
    ASSUME NEW v, NEW request, NEW n \in Nat, Len(request.calls) = n
    PROVE  \E done : Performs(done, v, request.calls, n) /\ Perform(v, request) = done[n]
<1> DEFINE Fits(done) == done = [k \in 0 .. n |->
                            IF k = 0 THEN Unperformed(v)
                            ELSE AfterCall(v, done[k - 1], request.calls[k])]
<1>1. PICK done : Performs(done, v, request.calls, n)
  BY PerformExists
<1>2. Fits([k \in 0 .. n |-> done[k]])
  <2> DEFINE f == [k \in 0 .. n |-> done[k]]
  <2>1. ASSUME NEW k \in 0 .. n
        PROVE  f[k] = IF k = 0 THEN Unperformed(v)
                      ELSE AfterCall(v, f[k - 1], request.calls[k])
    <3>1. f[k] = done[k] /\ (k # 0 => f[k - 1] = done[k - 1])
      OBVIOUS
    <3> HIDE DEF f
    <3> QED
      BY <1>1, <3>1 DEF Performs
  <2> QED
    BY <2>1
<1>3. Fits(CHOOSE done_1 : Fits(done_1))
  BY <1>2
<1>4. Perform(v, request) = (CHOOSE done_1 : Fits(done_1))[n]
  BY DEF Perform, Unperformed
<1>5. Performs(CHOOSE done_1 : Fits(done_1), v, request.calls, n)
  BY <1>3 DEF Performs
<1> QED
  BY <1>4, <1>5

LEMMA ArmedByMore ==
    ASSUME NEW u \in Vaults, NEW v \in Vaults, NEW w \in Vaults, NEW C, NEW D,
           ArmedBy(u, v, C), ArmedBy(v, w, D)
    PROVE  ArmedBy(u, w, C \cup D)
<1>1. /\ u.lastExecutionApprovalNonce \in Nat /\ v.lastExecutionApprovalNonce \in Nat
      /\ w.lastExecutionApprovalNonce \in Nat
  BY DEF Vaults
<1>2. /\ w.lastExecutionApprovalNonce >= u.lastExecutionApprovalNonce
      /\ \A c \in C \cup D : IsApproval(c) =>
           w.lastExecutionApprovalNonce > u.lastExecutionApprovalNonce
  BY <1>1 DEF ArmedBy
<1>3. w.approved \subseteq
        u.approved \cup {Approved(c) : c \in {d \in C \cup D : IsApproval(d)}}
  BY DEF ArmedBy
<1> QED
  BY <1>2, <1>3 DEF ArmedBy

CallsUpTo(request, k) == {request.calls[j] : j \in 1 .. k}

(* The storage after the calls that did not revert. *)
LEMMA PerformKeeps ==
    ASSUME InboxInv, NEW v, VaultOK(v), NEW r \in Requests, Perform(v, r).ok
    PROVE  VaultOK(Perform(v, r).v) /\ ArmedBy(v, Perform(v, r).v, CallsOf(r))
<1>1. PICK n \in Nat : n = Len(r.calls) /\ DOMAIN r.calls = 1 .. n
  BY WalletBounds
<1>2. PICK done : Performs(done, v, r.calls, n) /\ Perform(v, r) = done[n]
  BY <1>1, PerformIs
<1> DEFINE Kept(k) == done[k].ok =>
                        VaultOK(done[k].v) /\ ArmedBy(v, done[k].v, CallsUpTo(r, k))
           T == {k \in 0 .. n : ~Kept(k)}
<1>3. ASSUME T # {} PROVE FALSE
  <2>1. PICK k \in T : \A m \in Nat : m < k => m \notin T
    <3>1. T \in SUBSET Nat
      OBVIOUS
    <3> HIDE DEF T
    <3> QED
      BY <1>3, <3>1, SmallestNumber
  <2>2. CASE k = 0
    <3>1. done[k].v = v
      BY <1>2, <2>1, <2>2 DEF Performs, Unperformed
    <3>2. CallsUpTo(r, k) = {}
      BY <2>2 DEF CallsUpTo
    <3>3. v.lastExecutionApprovalNonce \in Nat
      BY DEF VaultOK, Vaults
    <3>4. ArmedBy(v, v, {})
      BY <3>3 DEF ArmedBy
    <3> QED
      BY <2>1, <3>1, <3>2, <3>4
  <2>3. CASE k # 0
    <3>1. k - 1 \in 0 .. n /\ k - 1 < k /\ k \in 1 .. n /\ k \in 0 .. n
      BY <2>1, <2>3
    <3>2. done[k] = AfterCall(v, done[k - 1], r.calls[k])
      BY <1>2, <2>3, <3>1 DEF Performs
    <3>3. Kept(k - 1)
      BY <2>1, <3>1
    <3>4. PICK c \in AllCalls : c = r.calls[k]
      BY <1>1, <3>1 DEF AllCalls, CallsOf
    <3>5. CallsUpTo(r, k) = CallsUpTo(r, k - 1) \cup {c}
      <4>1. 1 .. k = 1 .. (k - 1) \cup {k}
        BY <3>1
      <4> QED
        BY <3>4, <4>1 DEF CallsUpTo
    <3>6. SUFFICES ASSUME done[k].ok PROVE VaultOK(done[k].v) /\ ArmedBy(v, done[k].v, CallsUpTo(r, k))
      BY <2>1
    <3>7. CASE c.target # Account
      <4>1. done[k] = done[k - 1]
        BY <3>2, <3>4, <3>7 DEF AfterCall
      <4>2. VaultOK(done[k].v) /\ ArmedBy(v, done[k].v, CallsUpTo(r, k - 1))
        BY <3>3, <3>6, <4>1
      <4>3. ~IsApproval(c)
        BY <3>7 DEF IsApproval
      <4> QED
        BY <3>5, <4>2, <4>3 DEF ArmedBy
    <3>8. CASE c.target = Account
      <4>1. /\ done[k - 1].ok /\ Accepts(done[k - 1].v, Account, c)
            /\ done[k].v = After(done[k - 1].v, c)
        BY <3>2, <3>4, <3>6, <3>8 DEF AfterCall
      <4>2. VaultOK(done[k - 1].v) /\ ArmedBy(v, done[k - 1].v, CallsUpTo(r, k - 1))
        BY <3>3, <4>1
      <4>3. VaultOK(done[k].v) /\ ArmedBy(done[k - 1].v, done[k].v, {c})
        BY <3>8, <4>1, <4>2, AcceptedCallKeeps
      <4> QED
        BY <3>5, <4>2, <4>3, ArmedByMore DEF VaultOK
    <3> QED
      BY <3>7, <3>8
  <2> QED
    BY <2>2, <2>3
<1>4. Kept(n)
  BY <1>3
<1>5. CallsUpTo(r, n) = CallsOf(r)
  BY <1>1 DEF CallsUpTo, CallsOf
<1> QED
  BY <1>2, <1>4, <1>5

LEMMA ArmingsCounted ==
    ASSUME NEW request, NEW n \in Nat, DOMAIN request.calls = 1 .. n, NEW h
    PROVE  /\ Armings(request, h) \in Nat
           /\ Armings(request, h) > 0 <=>
                \E c \in CallsOf(request) : IsApproval(c) /\ Approved(c) = h
<1> DEFINE K == {k \in DOMAIN request.calls :
                   IsApproval(request.calls[k]) /\ Approved(request.calls[k]) = h}
<1>1. IsFiniteSet(K)
  <2>1. IsFiniteSet(1 .. n)
    BY FS_Interval
  <2> QED
    BY <2>1, FS_Subset
<1>2. Cardinality(K) \in Nat /\ (Cardinality(K) = 0 <=> K = {})
  BY <1>1, FS_CardinalityType, FS_EmptySet
<1>3. K # {} <=> \E c \in CallsOf(request) : IsApproval(c) /\ Approved(c) = h
  BY DEF CallsOf
<1> HIDE DEF K
<1>4. Armings(request, h) = Cardinality(K)
  BY DEF Armings, K
<1> QED
  BY <1>2, <1>3, <1>4

-----------------------------------------------------------------------------
(* The wallet.                                                             *)

(* The newest ticket ever spent is the one the account remembers, so it     *)
(* must not forget it when it moves to another inbox.                       *)
VaultInv ==
    /\ credit \in [Hashes -> Int] /\ ExecutionsArmed
    /\ newestSpent \in Nat
    /\ Deployed => VaultOK(vault) /\ vault.lastExecutionApprovalNonce = newestSpent
    /\ ~Deployed => newestSpent = 0

TicketOrMint ==
    \A h \in Hashes : credit'[h] > credit[h] =>
        \/ newestSpent' > newestSpent
        \/ /\ h.recipient = EntryPoint /\ ~h.request.batch
           /\ h.request.calls[1].fn = "mint"

LEMMA StaysDeployed == ASSUME NEW v, VaultOK(v) PROVE v # NotDeployed
<1>1. v.owners # {}
  BY FS_EmptySet DEF VaultOK, OwnersCounted
<1> QED
  BY <1>1 DEF NotDeployed

LEMMA InitVaultInv == WalletInit => VaultInv
  BY DEF WalletInit, VaultInv, ExecutionsArmed, Deployed

(* From the storage u, with no approval but the credited ones, to w.        *)
LEMMA VaultMoves ==
    ASSUME VaultInv, Deployed, NEW u, VaultOK(u), NEW w, VaultOK(w), NEW C, ArmedBy(u, w, C),
           u.lastExecutionApprovalNonce = vault.lastExecutionApprovalNonce,
           vault' = w, newestSpent' = NewestNonce,
           NEW kept \in [Hashes -> Int],
           \A h \in Hashes : kept[h] >= IF h \in u.approved THEN 1 ELSE 0,
           credit' \in [Hashes -> Int],
           \A h \in Hashes :
             /\ credit'[h] >= kept[h]
             /\ (\E c \in C : IsApproval(c) /\ Approved(c) = h) => credit'[h] > kept[h]
    PROVE  /\ VaultInv'
           /\ (\E c \in C : IsApproval(c)) => newestSpent' > newestSpent
<1>1. /\ u.lastExecutionApprovalNonce = newestSpent /\ newestSpent \in Nat
      /\ w.lastExecutionApprovalNonce \in Nat /\ w.lastExecutionApprovalNonce >= newestSpent
      /\ (\E c \in C : IsApproval(c)) => w.lastExecutionApprovalNonce > newestSpent
  BY DEF VaultInv, VaultOK, Vaults, ArmedBy
<1>2. newestSpent' = w.lastExecutionApprovalNonce
  BY <1>1 DEF NewestNonce
<1>3. Deployed'
  BY StaysDeployed DEF Deployed
<1>4. ASSUME NEW h \in Hashes PROVE credit'[h] >= IF h \in w.approved THEN 1 ELSE 0
  <2>1. PICK old, new : old = kept[h] /\ new = credit'[h]
    OBVIOUS
  <2>2. old \in Int /\ new \in Int /\ new >= old /\ old >= 0
    BY <2>1
  <2>3. CASE h \notin w.approved
    BY <2>1, <2>2, <2>3
  <2>4. CASE h \in w.approved /\ h \in u.approved
    <3>1. old >= 1
      BY <2>1, <2>4
    <3> QED
      BY <2>1, <2>2, <2>4, <3>1
  <2>5. CASE h \in w.approved /\ h \notin u.approved
    <3>1. \E c \in C : IsApproval(c) /\ Approved(c) = h
      BY <2>5 DEF ArmedBy
    <3>2. new > old
      BY <2>1, <3>1
    <3> QED
      BY <2>1, <2>2, <2>5, <3>2
  <2> QED
    BY <2>3, <2>4, <2>5
<1>5. ExecutionsArmed'
  BY <1>3, <1>4 DEF ExecutionsArmed
<1> QED
  BY <1>1, <1>2, <1>3, <1>5 DEF VaultInv

LEMMA OwnerCallKeeps ==
    ASSUME InboxInv, VaultInv, NEW o, NEW c \in OwnerCalls, OwnerCall(o, c)
    PROVE  VaultInv' /\ TicketOrMint
<1>1. /\ Deployed /\ VaultOK(vault) /\ vault' = After(vault, c) /\ Accepts(vault, o, c)
      /\ newestSpent' = NewestNonce
      /\ credit' = [h \in Hashes |-> credit[h] + Armings(Single(c), h)]
  BY DEF OwnerCall, VaultInv
<1>2. c \in AllCalls /\ c.target = Account
  BY WalletBounds DEF AllCalls
<1>3. VaultOK(vault') /\ ArmedBy(vault, vault', {c})
  BY <1>1, <1>2, AcceptedCallKeeps
<1>4. CallsOf(Single(c)) = {c} /\ DOMAIN Single(c).calls = 1 .. 1
  BY DEF Single, CallsOf
<1>5. ASSUME NEW h \in Hashes
      PROVE  /\ Armings(Single(c), h) \in Nat
             /\ Armings(Single(c), h) > 0 <=> IsApproval(c) /\ Approved(c) = h
  BY <1>4, ArmingsCounted
<1>6. /\ credit' \in [Hashes -> Int]
      /\ \A h \in Hashes :
           /\ credit'[h] >= credit[h]
           /\ credit'[h] > credit[h] <=> IsApproval(c) /\ Approved(c) = h
  BY <1>1, <1>5 DEF VaultInv
<1>7. credit \in [Hashes -> Int] /\ \A h \in Hashes : credit[h] >= IF h \in vault.approved THEN 1 ELSE 0
  BY <1>1 DEF VaultInv, ExecutionsArmed
<1>8. VaultInv' /\ (IsApproval(c) => newestSpent' > newestSpent)
  BY <1>1, <1>3, <1>6, <1>7, VaultMoves
<1> QED
  BY <1>6, <1>8 DEF TicketOrMint

(* An execution uses up one arming, be it one the same userOp made. *)
LEMMA ExecuteKeeps ==
    ASSUME InboxInv, VaultInv, Deployed, NEW s, NEW r \in Requests, NEW auto \in BOOLEAN,
           auto => s = EntryPoint,
           NEW v, VaultOK(v), v.lastExecutionApprovalNonce = vault.lastExecutionApprovalNonce,
           v.approved = vault.approved \cup
                          (IF auto THEN {ActionHash(EntryPoint, r)} ELSE {}),
           Execute(v, s, r), Executed(s, r, auto)
    PROVE  VaultInv' /\ TicketOrMint
<1> DEFINE used == ActionHash(s, r)
           Extra(h) == (IF auto /\ h = ActionHash(EntryPoint, r) THEN 1 ELSE 0)
                         - (IF h = used THEN 1 ELSE 0)
           kept == [h \in Hashes |-> credit[h] + Extra(h)]
<1>1. PICK u : u = ConsumeApproval(v, used)
  OBVIOUS
<1>2. /\ used \in v.approved /\ Perform(u, r).ok /\ vault' = Perform(u, r).v
      /\ newestSpent' = NewestNonce
      /\ credit' = [h \in Hashes |-> credit[h] + Armings(r, h)
                       + (IF auto /\ h = ActionHash(EntryPoint, r) THEN 1 ELSE 0)
                       - (IF h = used THEN 1 ELSE 0)]
  BY <1>1 DEF Execute, Executed
<1>3. /\ VaultOK(u) /\ u.approved = v.approved \ {used}
      /\ u.lastExecutionApprovalNonce = vault.lastExecutionApprovalNonce
  BY <1>1 DEF VaultOK, Vaults, OwnersCounted, TargetHasInbox, Configured, ConsumeApproval
<1>4. VaultOK(vault') /\ ArmedBy(u, vault', CallsOf(r))
  BY <1>2, <1>3, PerformKeeps
<1>5. PICK n \in Nat : DOMAIN r.calls = 1 .. n
  BY WalletBounds
<1>6. ASSUME NEW h \in Hashes
      PROVE  /\ Extra(h) \in Int /\ Extra(h) <= 0
             /\ credit[h] \in Int
             /\ Armings(r, h) \in Nat
             /\ Armings(r, h) > 0 <=> \E c \in CallsOf(r) : IsApproval(c) /\ Approved(c) = h
             /\ credit'[h] = credit[h] + Armings(r, h) + Extra(h)
             /\ kept[h] = credit[h] + Extra(h)
  <2>1. Extra(h) \in Int /\ Extra(h) <= 0
    OBVIOUS
  <2>2. credit[h] \in Int
    BY DEF VaultInv
  <2>3. /\ Armings(r, h) \in Nat
        /\ Armings(r, h) > 0 <=> \E c \in CallsOf(r) : IsApproval(c) /\ Approved(c) = h
    BY <1>5, ArmingsCounted
  <2>4. credit'[h] = credit[h] + Armings(r, h) + Extra(h)
    <3>1. PICK a, b, x, y : /\ a = credit[h] /\ b = Armings(r, h)
                            /\ x = (IF auto /\ h = ActionHash(EntryPoint, r) THEN 1 ELSE 0)
                            /\ y = (IF h = used THEN 1 ELSE 0)
      OBVIOUS
    <3>2. a \in Int /\ b \in Int /\ x \in Int /\ y \in Int
      BY <2>2, <2>3, <3>1
    <3>3. credit'[h] = a + b + x - y /\ Extra(h) = x - y
      BY <1>2, <3>1
    <3> QED
      BY <3>1, <3>2, <3>3
  <2> QED
    BY <2>1, <2>2, <2>3, <2>4
<1>7. ASSUME NEW h \in Hashes PROVE kept[h] >= IF h \in u.approved THEN 1 ELSE 0
  <2>1. credit[h] >= IF h \in vault.approved THEN 1 ELSE 0
    BY DEF VaultInv, ExecutionsArmed
  <2>2. CASE h = used
    <3>1. h \notin u.approved
      BY <1>3, <2>2
    <3>2. CASE auto
      <4>1. Extra(h) = 0
        BY <2>2, <3>2
      <4> QED
        BY <1>6, <2>1, <3>1, <4>1
    <3>3. CASE ~auto
      <4>1. h \in vault.approved
        BY <1>2, <2>2, <3>3
      <4>2. Extra(h) = 0 - 1
        BY <2>2, <3>3
      <4> QED
        BY <1>6, <2>1, <3>1, <4>1, <4>2
    <3> QED
      BY <3>2, <3>3
  <2>3. CASE h # used
    <3>1. Extra(h) = 0
      BY <2>3
    <3>2. h \in u.approved => h \in vault.approved
      BY <1>3, <2>3
    <3> QED
      BY <1>6, <2>1, <3>1, <3>2
  <2> QED
    BY <2>2, <2>3
<1>8. kept \in [Hashes -> Int] /\ credit' \in [Hashes -> Int]
  <2>1. \A h \in Hashes : kept[h] \in Int /\ credit'[h] \in Int
    BY <1>6
  <2> QED
    BY <1>2, <2>1
<1>9. \A h \in Hashes :
        /\ credit'[h] >= kept[h]
        /\ (\E c \in CallsOf(r) : IsApproval(c) /\ Approved(c) = h) => credit'[h] > kept[h]
  BY <1>6
<1> HIDE DEF kept, Extra
<1>10. VaultInv' /\ ((\E c \in CallsOf(r) : IsApproval(c)) => newestSpent' > newestSpent)
  BY <1>2, <1>3, <1>4, <1>7, <1>8, <1>9, VaultMoves
<1>11. ASSUME NEW h \in Hashes, credit'[h] > credit[h]
       PROVE  \E c \in CallsOf(r) : IsApproval(c) /\ Approved(c) = h
  BY <1>6, <1>11
<1> QED
  BY <1>10, <1>11 DEF TicketOrMint

LEMMA ValidatedIs ==
    ASSUME VaultInv, Deployed, NEW o, NEW r \in Requests
    PROVE  /\ VaultOK(Validated(vault, o, r))
           /\ Validated(vault, o, r).lastExecutionApprovalNonce = vault.lastExecutionApprovalNonce
           /\ Validated(vault, o, r).approved =
                vault.approved \cup (IF AutoApproves(vault, o, r)
                                     THEN {ActionHash(EntryPoint, r)} ELSE {})
<1>1. VaultOK(vault) /\ ActionHash(EntryPoint, r) \in Hashes
  BY DEF VaultInv, Hashes, Senders
<1>2. CASE AutoApproves(vault, o, r)
  BY <1>1, <1>2 DEF Validated, VaultOK, Vaults, OwnersCounted, TargetHasInbox, Configured
<1>3. CASE ~AutoApproves(vault, o, r)
  BY <1>1, <1>3 DEF Validated
<1> QED
  BY <1>2, <1>3

LEMMA SimulationKeeps ==
    ASSUME InboxInv, VaultInv, NEW o, NEW r \in Requests, SimulateValidation(o, r)
    PROVE  VaultInv' /\ TicketOrMint
<1> DEFINE hash == ActionHash(EntryPoint, r)
<1>1. /\ Deployed /\ AutoApproves(vault, o, r) /\ hash \notin vault.approved
      /\ vault' = Validated(vault, o, r) /\ newestSpent' = newestSpent
      /\ credit' = [credit EXCEPT ![hash] = @ + 1]
  BY DEF SimulateValidation
<1>2. /\ VaultOK(vault') /\ vault'.lastExecutionApprovalNonce = newestSpent
      /\ vault'.approved = vault.approved \cup {hash}
  BY <1>1, ValidatedIs DEF VaultInv
<1>3. hash \in Hashes /\ hash.recipient = EntryPoint /\ hash.request = r
  BY DEF Hashes, Senders, ActionHash
<1>4. ~r.batch /\ r.calls[1].fn = "mint"
  BY <1>1 DEF AutoApproves, LiveMintProof
<1> HIDE DEF hash
<1>5. ASSUME NEW h \in Hashes
      PROVE  /\ credit'[h] \in Int
             /\ credit'[h] >= IF h \in vault'.approved THEN 1 ELSE 0
             /\ credit'[h] > credit[h] => h = hash
  <2>1. credit[h] \in Int /\ credit[h] >= IF h \in vault.approved THEN 1 ELSE 0
    BY <1>1 DEF VaultInv, ExecutionsArmed
  <2>2. credit'[h] = IF h = hash THEN credit[h] + 1 ELSE credit[h]
    BY <1>1 DEF VaultInv
  <2>3. CASE h = hash
    BY <2>1, <2>2, <2>3
  <2>4. CASE h # hash
    BY <1>2, <2>1, <2>2, <2>4
  <2> QED
    BY <2>3, <2>4
<1>6. credit' \in [Hashes -> Int]
  BY <1>1, <1>5 DEF VaultInv
<1>7. Deployed'
  BY <1>2, StaysDeployed DEF Deployed
<1>8. VaultInv'
  BY <1>1, <1>2, <1>5, <1>6, <1>7 DEF VaultInv, ExecutionsArmed
<1> QED
  BY <1>3, <1>4, <1>5, <1>8 DEF TicketOrMint

(* The factory and the first configuration arm nothing. *)
LEMMA QuietVaultKeeps ==
    ASSUME VaultInv, UNCHANGED <<credit, newestSpent>>,
           \/ vault' = vault
           \/ Deployed /\ VaultOK(vault') /\ vault'.approved = vault.approved
                /\ vault'.lastExecutionApprovalNonce = vault.lastExecutionApprovalNonce
           \/ ~Deployed /\ VaultOK(vault') /\ vault'.approved = {}
                /\ vault'.lastExecutionApprovalNonce = 0
    PROVE  VaultInv' /\ TicketOrMint
<1>1. ASSUME NEW h \in Hashes PROVE credit'[h] \in Int /\ ~(credit'[h] > credit[h])
  BY DEF VaultInv
<1>2. TicketOrMint
  BY <1>1 DEF TicketOrMint
<1>3. CASE vault' = vault
  BY <1>2, <1>3 DEF VaultInv, ExecutionsArmed, Deployed
<1>4. CASE /\ Deployed /\ VaultOK(vault') /\ vault'.approved = vault.approved
           /\ vault'.lastExecutionApprovalNonce = vault.lastExecutionApprovalNonce
  <2>1. Deployed'
    BY <1>4, StaysDeployed DEF Deployed
  <2> QED
    BY <1>2, <1>4, <2>1 DEF VaultInv, ExecutionsArmed
<1>5. CASE /\ ~Deployed /\ VaultOK(vault') /\ vault'.approved = {}
           /\ vault'.lastExecutionApprovalNonce = 0
  <2>1. Deployed'
    BY <1>5, StaysDeployed DEF Deployed
  <2> QED
    BY <1>2, <1>5, <2>1 DEF VaultInv, ExecutionsArmed
<1> QED
  BY <1>3, <1>4, <1>5

LEMMA InitializedOK ==
    /\ VaultOK(Initialized(FirstOwner, LargeSpend))
    /\ Initialized(FirstOwner, LargeSpend).approved = {}
    /\ Initialized(FirstOwner, LargeSpend).lastExecutionApprovalNonce = 0
<1>1. IsFiniteSet({FirstOwner}) /\ Cardinality({FirstOwner}) = 1
  BY FS_Singleton
<1>2. Initialized(FirstOwner, LargeSpend) \in Vaults
  BY DEF Initialized, Vaults, Senders, Masks, Amounts
<1> QED
  BY <1>1, <1>2 DEF Initialized, VaultOK, OwnersCounted, TargetHasInbox

LEMMA ConfiguringKeeps ==
    ASSUME NEW v, VaultOK(v), NEW i \in Inboxes, NEW m \in MintTargets,
           InitVaultConfig(v, i, m)
    PROVE  /\ VaultOK(vault') /\ vault'.approved = v.approved
           /\ vault'.lastExecutionApprovalNonce = v.lastExecutionApprovalNonce
<1>1. PICK w : w = [v EXCEPT !.unlockInbox = i, !.philTestMint = m]
  OBVIOUS
<1>2. vault' = w /\ i # ZeroAddress
  BY <1>1 DEF InitVaultConfig
<1> QED
  BY <1>1, <1>2 DEF VaultOK, Vaults, OwnersCounted, TargetHasInbox, Configured

LEMMA FactoryKeeps ==
    ASSUME VaultInv,
           \/ \E i \in Inboxes, p \in PresentableProofs : CreatePhilAccount(i, p)
           \/ CreateAccount
           \/ \E i \in Inboxes, m \in MintTargets : ConfigureVault(i, m)
    PROVE  VaultInv' /\ TicketOrMint
<1>1. ASSUME NEW i \in Inboxes, NEW p \in PresentableProofs, CreatePhilAccount(i, p)
      PROVE  VaultInv' /\ TicketOrMint
  <2>1. PICK v : v = IF Deployed THEN vault ELSE Initialized(FirstOwner, LargeSpend)
    OBVIOUS
  <2>2. /\ vault' = v \/ InitVaultConfig(v, i, MintContract)
        /\ MintContract \in MintTargets
        /\ UNCHANGED <<credit, newestSpent>>
    BY <1>1, <2>1 DEF CreatePhilAccount, MintTargets, historyVars
  <2>3. VaultOK(v)
    BY <2>1, InitializedOK DEF VaultInv
  <2>4. /\ VaultOK(vault') /\ vault'.approved = v.approved
        /\ vault'.lastExecutionApprovalNonce = v.lastExecutionApprovalNonce
    BY <2>2, <2>3, ConfiguringKeeps
  <2> QED
    BY <2>1, <2>2, <2>4, InitializedOK, QuietVaultKeeps
<1>2. CASE CreateAccount
  BY <1>2, InitializedOK, QuietVaultKeeps DEF CreateAccount, historyVars
<1>3. ASSUME NEW i \in Inboxes, NEW m \in MintTargets, ConfigureVault(i, m)
      PROVE  VaultInv' /\ TicketOrMint
  <2>1. /\ Deployed /\ VaultOK(vault) /\ InitVaultConfig(vault, i, m)
        /\ UNCHANGED <<credit, newestSpent>>
    BY <1>3 DEF ConfigureVault, historyVars, VaultInv
  <2>2. /\ VaultOK(vault') /\ vault'.approved = vault.approved
        /\ vault'.lastExecutionApprovalNonce = vault.lastExecutionApprovalNonce
    BY <2>1, ConfiguringKeeps
  <2> QED
    BY <2>1, <2>2, QuietVaultKeeps
<1> QED
  BY <1>1, <1>2, <1>3

LEMMA NextVaultInv ==
    ASSUME InboxInv, VaultInv, [WalletNext]_<<chainVars, walletVars>>
    PROVE  VaultInv' /\ TicketOrMint
<1>1. ASSUME UNCHANGED <<vault, credit, newestSpent>>
      PROVE  VaultInv' /\ TicketOrMint
  BY <1>1, QuietVaultKeeps
<1>2. CASE \/ \E i \in Inboxes, p \in PresentableProofs : CreatePhilAccount(i, p)
           \/ CreateAccount
           \/ \E i \in Inboxes, m \in MintTargets : ConfigureVault(i, m)
  BY <1>2, FactoryKeeps
<1>3. ASSUME NEW o \in Senders, NEW c \in OwnerCalls, OwnerCall(o, c)
      PROVE  VaultInv' /\ TicketOrMint
  BY <1>3, OwnerCallKeeps
<1>4. ASSUME NEW o \in Senders, NEW r \in Requests, OwnerExecutes(o, r)
      PROVE  VaultInv' /\ TicketOrMint
  <2>1. Deployed /\ Execute(vault, o, r) /\ Executed(o, r, FALSE) /\ VaultOK(vault)
    BY <1>4 DEF OwnerExecutes, VaultInv
  <2> QED
    BY <2>1, ExecuteKeeps
<1>5. ASSUME NEW n \in 0 .. MaxOps, NEW o \in Senders, NEW r \in Requests,
             NEW s \in Sponsorships \cup {NotSponsored}, HandleOp(n, o, r, s)
      PROVE  VaultInv' /\ TicketOrMint
  <2>1. PICK v : v = Validated(vault, o, r)
    OBVIOUS
  <2>2. PICK auto \in BOOLEAN : auto <=> AutoApproves(vault, o, r)
    OBVIOUS
  <2>3. Deployed /\ Execute(v, EntryPoint, r) /\ Executed(EntryPoint, r, auto)
    BY <1>5, <2>1, <2>2 DEF HandleOp, Executed
  <2>4. /\ VaultOK(v) /\ v.lastExecutionApprovalNonce = vault.lastExecutionApprovalNonce
        /\ v.approved = vault.approved \cup (IF auto THEN {ActionHash(EntryPoint, r)} ELSE {})
    BY <2>1, <2>2, <2>3, ValidatedIs
  <2> QED
    BY <2>2, <2>3, <2>4, ExecuteKeeps
<1>6. ASSUME NEW o \in Senders, NEW r \in Requests, SimulateValidation(o, r)
      PROVE  VaultInv' /\ TicketOrMint
  BY <1>6, SimulationKeeps
<1>7. CASE \/ \E k \in Signers : RotateSigner(k)
           \/ TimePasses
           \/ \E i \in Inboxes : \E t \in L2Tickets[i] : TicketArrives(i, t)
           \/ UNCHANGED <<chainVars, walletVars>>
  BY <1>1, <1>7 DEF RotateSigner, TimePasses, TicketArrives, walletVars, historyVars
<1> QED
  BY <1>2, <1>3, <1>4, <1>5, <1>6, <1>7 DEF WalletNext

(* Executions never outnumber armings, and a standing approval is an arming *)
(* that nobody has used, for any owners, batches and inboxes.               *)
THEOREM OnlyArmedExecutions == WalletSpec => []ExecutionsArmed
<1>1. VaultInv => ExecutionsArmed
  BY DEF VaultInv
<1> QED
  BY <1>1, InitInboxInv, NextInboxInv, InitVaultInv, NextVaultInv, PTL DEF WalletSpec

(* Each step that arms spends a ticket newer than all spent before, or      *)
(* shows a live mint proof.                                                 *)
THEOREM TicketsArmOnce == WalletSpec => EachTicketArmsOnce
<1>1. InboxInv /\ VaultInv /\ [WalletNext]_<<chainVars, walletVars>>
        => [\A h \in Hashes : credit'[h] > credit[h] =>
              \/ newestSpent' > newestSpent
              \/ /\ h.recipient = EntryPoint /\ ~h.request.batch
                 /\ h.request.calls[1].fn = "mint"]_<<chainVars, walletVars>>
  BY NextVaultInv DEF TicketOrMint
<1> QED
  BY <1>1, InitInboxInv, NextInboxInv, InitVaultInv, NextVaultInv, PTL
  DEF WalletSpec, EachTicketArmsOnce

-----------------------------------------------------------------------------
(* Types of the gate and the mint, which the wallet and its factory call.   *)

LEMMA InitTypes == WalletInit => TypeOK
  BY MintBounds, ClockBounds, WalletBounds, SignableAssumption
  DEF WalletInit, MintInit, TypeOK, GateTypeOK, MintTypeOK, Times, Attestations

LEMMA FactoryProofTypes ==
    ASSUME TypeOK, NEW i, NEW p \in PresentableProofs, CreatePhilAccount(i, p)
    PROVE  TypeOK'
<1> DEFINE claim == ActionClaim(FirstOwner, 2, CreateHash, p.expiry)
<1>1. /\ VerifyActionAndConsume(Factory, FirstOwner, 2, CreateHash, p)
      /\ VerifyBackendProof(claim, p) /\ UNCHANGED mintVars
  BY DEF CreatePhilAccount, VerifyActionAndConsume
<1>2. claim \in Claims
  BY <1>1, VerifiedClaimAttested DEF TypeOK
<1>3. claim.kind = "action" /\ claim.recipient = FirstOwner /\ claim.actionType = 2
      /\ claim.actionHash = CreateHash
  BY DEF ActionClaim
<1>4. claim \in ActionClaims
  BY <1>2, <1>3 DEF Claims, MintClaims
<1>5. FirstOwner \in Recipients /\ 2 \in ActionTypes /\ CreateHash \in ActionHashes
  BY <1>3, <1>4 DEF ActionClaims
<1>6. GateTypeOK'
  BY <1>1, <1>5, ActionProofGateTypeOK DEF TypeOK
<1> QED
  BY <1>1, <1>6 DEF TypeOK, MintTypeOK, mintVars, Tokens, NoToken, TokenIds

LEMMA MintIfAskedTypes ==
    ASSUME TypeOK, NEW r \in Requests, MintIfAsked(r)
    PROVE  TypeOK'
<1>1. CASE UNCHANGED <<now, gateVars, mintVars>>
  BY <1>1 DEF TypeOK, GateTypeOK, MintTypeOK, gateVars, mintVars
<1>2. ASSUME NEW c \in MintsOf(r), Mint(c.recipient, c.mintTo, c.traits, c.proof)
      PROVE  TypeOK'
  <2> DEFINE claim == MintClaim(c.recipient, c.mintTo, c.traits, c.proof.expiry)
             n == MintNullifier(c.recipient, c.mintTo, c.traits, c.proof.factHash)
  <2>1. claim \in Claims
    BY WalletBounds DEF MintsOf, AllCalls
  <2>2. claim \in MintClaims
    BY <2>1 DEF Claims, ActionClaims, MintClaim
  <2>3. c.recipient \in Recipients /\ c.mintTo \in Destinations /\ c.traits \in Traits
    BY <2>2 DEF MintClaims, MintClaim
  <2>4. /\ VerifyAndConsume(MintContract, c.recipient, c.mintTo, c.traits, c.proof)
        /\ VerifyBackendProof(claim, c.proof)
    BY <1>2 DEF Mint, VerifyAndConsume
  <2>5. c.proof.factHash \in FactHashes
    BY <2>1, <2>4 DEF VerifyBackendProof, FactHashes
  <2>6. n \in MintNullifiers
    BY <2>3, <2>5 DEF MintNullifier, MintNullifiers
  <2>7. GateTypeOK'
    BY <2>4, <2>6 DEF TypeOK, GateTypeOK, VerifyAndConsume, ConsumeNullifier
  <2>8. MintTypeOK'
    <3>1. /\ totalSupply < MaxSupply /\ totalSupply' = totalSupply + 1
          /\ tokens' = [tokens EXCEPT ![totalSupply] = [to |-> c.mintTo, traits |-> c.traits]]
          /\ c.traits \in ValidTraits
      BY <1>2 DEF Mint, NotSoldOut, ValidMintArgs
    <3> QED
      BY <2>3, <3>1, MintBounds DEF TypeOK, MintTypeOK, Tokens, TokenIds
  <2> QED
    BY <2>7, <2>8 DEF TypeOK
<1> QED
  BY <1>1, <1>2 DEF MintIfAsked

LEMMA NextTypes ==
    ASSUME TypeOK, [WalletNext]_<<chainVars, walletVars>>
    PROVE  TypeOK'
<1>1. ASSUME UNCHANGED <<now, gateVars, mintVars>> PROVE TypeOK'
  BY <1>1 DEF TypeOK, GateTypeOK, MintTypeOK, gateVars, mintVars
<1>2. ASSUME NEW i \in Inboxes, NEW p \in PresentableProofs, CreatePhilAccount(i, p)
      PROVE  TypeOK'
  BY <1>2, FactoryProofTypes
<1>3. ASSUME NEW r \in Requests, MintIfAsked(r) PROVE TypeOK'
  BY <1>3, MintIfAskedTypes
<1>4. ASSUME NEW k \in Signers, RotateSigner(k) PROVE TypeOK'
  BY <1>4
  DEF RotateSigner, SetAllowlistSigner, TypeOK, GateTypeOK, MintTypeOK, mintVars
<1>5. CASE TimePasses
  BY <1>5, ClockBounds
  DEF TimePasses, Tick, AdvanceClock, TypeOK, GateTypeOK, MintTypeOK, gateVars, mintVars, Times
<1>6. CASE UNCHANGED <<chainVars, walletVars>>
  BY <1>1, <1>6 DEF chainVars
<1>7. CASE WalletNext
  BY <1>1, <1>2, <1>3, <1>4, <1>5, <1>7
  DEF WalletNext, CreateAccount, ConfigureVault, OwnerCall, OwnerExecutes, HandleOp,
      SimulateValidation, Execute, TicketArrives, chainVars
<1> QED
  BY <1>6, <1>7

LEMMA OpsBounded ==
    ASSUME OpsInv, opNonce \in 0 .. MaxOps, [WalletNext]_<<chainVars, walletVars>>
    PROVE  opNonce' \in 0 .. MaxOps
<1>1. CASE opNonce' = opNonce
  BY <1>1
<1>2. CASE Len(opsRun) < MaxOps /\ opNonce' = opNonce + 1
  <2>1. PICK n : n = opNonce /\ n \in Nat /\ n < MaxOps
    BY <1>2 DEF OpsInv
  <2> QED
    BY <1>2, <2>1, WalletBounds
<1> QED
  BY <1>1, <1>2
  DEF WalletNext, CreatePhilAccount, CreateAccount, ConfigureVault, OwnerCall, OwnerExecutes,
      HandleOp, NextNonce, SimulateValidation, RotateSigner, TimePasses, TicketArrives,
      walletVars

WalletInv == InboxInv /\ OpsInv /\ VaultInv /\ TypeOK /\ opNonce \in 0 .. MaxOps

(* The wallet's types, and ownerCount counts the owners and never gets to   *)
(* zero, in whatever order owners and batches add and remove them.          *)
THEOREM WalletTypeCorrect == WalletSpec => []WalletTypeOK
<1>1. WalletInit => WalletInv
  <2>1. WalletInit => opNonce \in 0 .. MaxOps
    BY WalletBounds DEF WalletInit
  <2> QED
    BY <2>1, InitInboxInv, InitOpsInv, InitVaultInv, InitTypes DEF WalletInv
<1>2. WalletInv /\ [WalletNext]_<<chainVars, walletVars>> => WalletInv'
  BY NextInboxInv, NextOpsInv, NextVaultInv, NextTypes, OpsBounded DEF WalletInv
<1>3. WalletInv => WalletTypeOK
  BY DEF WalletInv, WalletTypeOK, VaultInv, VaultOK, Vaults, OwnersCounted, TargetHasInbox
<1> QED
  BY <1>1, <1>2, <1>3, PTL DEF WalletSpec
=============================================================================
