--------------------------- MODULE MintPage_proofs ---------------------------
(***************************************************************************)
(* Proofs about the mint page, for any accounts, Phils, slots, flows at    *)
(* once and troubles: whose sign-in it keeps, and where its tokens land.   *)
(***************************************************************************)
EXTENDS MintPage, FiniteSetTheorems, TLAPS

-----------------------------------------------------------------------------
(* The invariant.  The page mixes what several flows wrote, so that only   *)
(* signer and address go together; a flow carries what it has read across  *)
(* its awaits, and a proof it carries is one the server signed.            *)

PageFields == DOMAIN Disconnected \cup {"addresses", "selected", "minting", "retry", "direct"}

PageOK(p) ==
    /\ DOMAIN p = PageFields
    /\ p.address \in Accounts \cup {None} /\ p.signer = p.address
    /\ p.starkKey \in Accounts \cup {None}
    /\ p.smartAccount \in SmartAccounts \cup {None}
    /\ p.token # None => p.token.of = p.token.recipient

Asking == {"compatible", "challenge", "signing", "verify", "post"}
Holding == {"granted", "hash", "entryPoint", "creating", "created", "direct"}
Sending == {"built", "sign", "submit"}

ConnectOK(r) ==
    /\ r.at = "signer" => r.account \in Accounts
    /\ r.at = "local" => r.ours \in SmartAccounts

HasAccount(r) == "to" \in DOMAIN r /\ r.to \in SmartAccounts
HasProof(r, proofs) == "proof" \in DOMAIN r /\ r.proof \in proofs
HasOp(r, proofs) ==
    /\ "op" \in DOMAIN r /\ r.op.proof \in proofs
    /\ r.op.sender \in SmartAccounts \cup {None}

MintOK(r, proofs) ==
    /\ "for" \in DOMAIN r /\ (r.at = "code" => r.for = "mint")
    /\ r.at \in {"code"} \cup Asking \cup Holding \cup Sending => HasAccount(r)
    /\ r.at \in Holding \cup Sending \/ (r.at \in Asking /\ r.for # "mint") => HasProof(r, proofs)
    /\ r.at \in Sending \/ (r.at \in Asking /\ r.for = "pay") => HasOp(r, proofs)
    /\ r.at \in {"challenge", "signing", "verify"} =>
         {"challenged", "current"} \subseteq DOMAIN r /\ r.challenged = r.current
    /\ r.at = "creating" => r.init.account \in SmartAccounts

FlowOK(r, proofs) ==
    /\ {"kind", "at"} \subseteq DOMAIN r
    /\ r.kind = "connect" => ConnectOK(r)
    /\ r.kind = "mint" => MintOK(r, proofs)

FlowsOK == DOMAIN flow = Flows /\ \A f \in Flows : FlowOK(flow[f], issued)

ServerOK ==
    /\ slotsLeft \in 0 .. Slots /\ IsFiniteSet(issued)
    /\ Cardinality(issued) = Slots - slotsLeft
    /\ \A p \in issued : /\ p.id \in Nat /\ p.id < Cardinality(issued)
                         /\ MintToMatches(p.claim)

AdriftOK == \A r \in adrift : r.kind = "mint" /\ FlowOK(r, issued)

ChainOK ==
    /\ tokens \subseteq issued /\ deployed \subseteq SmartAccounts
    /\ totalSupply \in 0 .. MaxSupply /\ Cardinality(tokens) <= totalSupply
    /\ AdriftOK

WalletOK == DOMAIN wallet = {"account", "right"} /\ wallet.account \in Accounts \cup {None}

PageInv ==
    /\ WalletOK /\ PageOK(page) /\ FlowsOK /\ ServerOK /\ ChainOK
    /\ troubles \in 0 .. MaxTroubles

-----------------------------------------------------------------------------
(* A step of one flow.                                                     *)

Moves(f) ==
    \E r, p : Goes(f, r) /\ Becomes(p) /\ FlowOK(r, issued') /\ PageOK(p)

LEMMA NoneIsNoAccount == None \notin Accounts
  BY PageAssumption

LEMMA IdleOK == ASSUME NEW proofs PROVE FlowOK(Idle, proofs)
  BY DEF FlowOK, Idle

LEMMA MoreProofsOK ==
    ASSUME NEW I, NEW J, I \subseteq J, NEW r, FlowOK(r, I) PROVE FlowOK(r, J)
  BY DEF FlowOK, MintOK, HasProof, HasOp

LEMMA MoveKeeps ==
    ASSUME PageInv, NEW f \in Flows, Moves(f), issued \subseteq issued'
    PROVE  PageOK(page') /\ FlowsOK'
<1>1. PICK r, p : Goes(f, r) /\ Becomes(p) /\ FlowOK(r, issued') /\ PageOK(p)
  BY DEF Moves
<1>2. page' = p /\ DOMAIN flow' = Flows
  BY <1>1 DEF Goes, Becomes, PageInv, FlowsOK
<1>3. ASSUME NEW g \in Flows PROVE FlowOK(flow'[g], issued')
  <2>1. CASE g = f
    BY <1>1, <2>1 DEF Goes, PageInv, FlowsOK
  <2>2. CASE g # f
    <3>1. flow'[g] = flow[g] /\ FlowOK(flow[g], issued)
      BY <1>1, <2>2 DEF Goes, PageInv, FlowsOK
    <3> QED
      BY <3>1, MoreProofsOK
  <2> QED
    BY <2>1, <2>2
<1> QED
  BY <1>1, <1>2, <1>3 DEF FlowsOK

LEMMA EndMoves ==
    ASSUME NEW f, NEW p, PageOK(p), Ends(f, p) PROVE Moves(f)
  BY IdleOK DEF Ends, Moves

LEMMA GoMoves ==
    ASSUME NEW f, NEW r, FlowOK(r, issued'), Goes(f, r), PageOK(page), UNCHANGED page
    PROVE  Moves(f)
  BY DEF Moves, Becomes

LEMMA FailedOK == ASSUME PageOK(page), NEW f PROVE PageOK(Failed(f))
  BY DEF PageOK, Failed, PageFields, Disconnected

LEMMA ClearedOK == ASSUME PageOK(page) PROVE PageOK(ClearWalletState(page))
<1> DEFINE p == ClearWalletState(page)
<1>1. DOMAIN Kept(page) = {"addresses", "selected", "minting", "retry", "direct"}
  BY DEF Kept
<1>2. DOMAIN p = PageFields
  BY <1>1 DEF ClearWalletState, Merge, PageFields
<1>3. /\ p.address = None /\ p.signer = None /\ p.starkKey = None /\ p.smartAccount = None
      /\ p.token = None
  BY <1>1 DEF ClearWalletState, Merge, Disconnected
<1> HIDE DEF p
<1> QED
  BY <1>2, <1>3 DEF PageOK, p

LEMMA PageChangeOK ==
    ASSUME PageOK(page), NEW p, DOMAIN p = DOMAIN page,
           p.address = page.address, p.signer = page.signer, p.starkKey = page.starkKey,
           p.smartAccount = page.smartAccount, p.token \in {page.token, None}
    PROVE  PageOK(p)
  BY DEF PageOK

-----------------------------------------------------------------------------
(* connectWallet.                                                          *)

LEMMA ConnectFlowOK ==
    ASSUME NEW r, {"kind", "at"} \subseteq DOMAIN r, r.kind = "connect", ConnectOK(r), NEW proofs
    PROVE  FlowOK(r, proofs)
  BY DEF FlowOK

LEMMA OutsideKeeps == ASSUME Outside PROVE issued' = issued
  BY DEF Outside, serverVars

(* Records a connect goes on with that no invariant is about. *)
LEMMA PlainConnectOK ==
    ASSUME NEW r, {"kind", "at"} \subseteq DOMAIN r, r.kind = "connect",
           r.at \notin {"signer", "local"}, NEW proofs
    PROVE  FlowOK(r, proofs)
  BY ConnectFlowOK DEF ConnectOK

LEMMA ConnectsMove ==
    ASSUME PageOK(page), NEW f, Goes(f, Connect), NEW p, PageOK(p), Becomes(p)
    PROVE  Moves(f)
  BY PlainConnectOK DEF Moves, Connect

LEMMA StartsConnectMoves ==
    ASSUME PageOK(page), StartsConnect(page)
    PROVE  \E f \in Flows : Moves(f)
<1>1. PICK f \in Flows : Goes(f, Connect) /\ Becomes([page EXCEPT !.retry = FALSE])
  BY DEF StartsConnect
<1>2. PageOK([page EXCEPT !.retry = FALSE])
  BY DEF PageOK, PageFields, Disconnected
<1> QED
  BY <1>1, <1>2, ConnectsMove

LEMMA AskEligibilityMoves ==
    ASSUME PageOK(page), NEW f, AskEligibility(f, "connect")
    PROVE  Moves(f)
<1>1. CASE page.address = None
  <2>1. Ends(f, [page EXCEPT !.checked = FALSE, !.eligible = FALSE, !.listening = TRUE])
    BY <1>1 DEF AskEligibility
  <2>2. PageOK([page EXCEPT !.checked = FALSE, !.eligible = FALSE, !.listening = TRUE])
    BY DEF PageOK, PageFields, Disconnected
  <2> QED
    BY <2>1, <2>2, EndMoves
<1>2. CASE page.address # None
  <2>1. Goes(f, [kind |-> "connect", at |-> "eligibility", who |-> page.address]) /\ UNCHANGED page
    BY <1>2 DEF AskEligibility
  <2>2. FlowOK([kind |-> "connect", at |-> "eligibility", who |-> page.address], issued')
    BY PlainConnectOK
  <2> QED
    BY <2>1, <2>2, GoMoves
<1> QED
  BY <1>1, <1>2

LEMMA ConnectStepMoves ==
    ASSUME PageInv, NEW f \in Flows, ConnectStep(f)
    PROVE  Moves(f) /\ Outside
<1>0. /\ PageOK(page) /\ WalletOK /\ FlowOK(flow[f], issued) /\ PageOK(Failed(f))
      /\ DOMAIN flow = Flows
  BY FailedOK DEF PageInv, FlowsOK
<1>1. CASE AccountsAnswered(f)
  <2>1. CASE wallet.account = None
    BY <1>0, <1>1, <2>1, ClearedOK, EndMoves DEF AccountsAnswered
  <2>2. CASE wallet.account # None
    <3> DEFINE r == [kind |-> "connect", at |-> "signer", account |-> wallet.account]
    <3>1. Goes(f, r) /\ UNCHANGED page /\ Outside
      BY <1>1, <2>2 DEF AccountsAnswered
    <3>2. ConnectOK(r)
      BY <1>0, <2>2 DEF ConnectOK, WalletOK
    <3>3. FlowOK(r, issued')
      BY <3>2, ConnectFlowOK
    <3> QED
      BY <1>0, <3>1, <3>3, GoMoves
  <2> QED
    BY <2>1, <2>2
<1>2. CASE SignerAnswered(f)
  <2> DEFINE p == [page EXCEPT !.signer = flow[f].account, !.address = flow[f].account]
  <2>1. flow[f].account \in Accounts
    BY <1>0, <1>2 DEF SignerAnswered, At, FlowOK, ConnectOK
  <2>2. PageOK(p)
    BY <1>0, <2>1 DEF PageOK, PageFields, Disconnected
  <2>3. FlowOK([kind |-> "connect", at |-> "network"], issued')
    BY PlainConnectOK
  <2>4. Becomes(p) /\ Goes(f, [kind |-> "connect", at |-> "network"]) /\ Outside
    BY <1>2 DEF SignerAnswered
  <2> QED
    BY <2>2, <2>3, <2>4 DEF Moves
<1>3. CASE NetworkAnswered(f)
  <2> DEFINE p == [page EXCEPT !.network = wallet.right, !.addresses = FALSE]
  <2>2. PageOK(p)
    BY <1>0 DEF PageOK, PageFields, Disconnected
  <2>3. FlowOK([kind |-> "connect", at |-> "deployments"], issued')
    BY PlainConnectOK
  <2>4. Becomes(p) /\ Goes(f, [kind |-> "connect", at |-> "deployments"]) /\ Outside
    BY <1>3 DEF NetworkAnswered
  <2> QED
    BY <2>2, <2>3, <2>4 DEF Moves
<1>4. CASE DeploymentsLoaded(f)
  <2> DEFINE p == [page EXCEPT !.addresses = TRUE]
  <2>2. PageOK(p)
    BY <1>0 DEF PageOK, PageFields, Disconnected
  <2>3. FlowOK([kind |-> "connect", at |-> "status"], issued')
    BY PlainConnectOK
  <2>4. Becomes(p) /\ Goes(f, [kind |-> "connect", at |-> "status"]) /\ Outside
    BY <1>4 DEF DeploymentsLoaded
  <2> QED
    BY <2>2, <2>3, <2>4 DEF Moves
<1>5. CASE BackendAnswered(f)
  <2> DEFINE p == [page EXCEPT !.starkKey = page.address]
  <2>1. CASE ~page.network
    <3>1. FlowOK([kind |-> "connect", at |-> "switch"], issued')
      BY PlainConnectOK
    <3>2. Goes(f, [kind |-> "connect", at |-> "switch"]) /\ UNCHANGED page /\ Outside
      BY <1>5, <2>1 DEF BackendAnswered
    <3> QED
      BY <1>0, <3>1, <3>2, GoMoves
  <2>2. CASE page.network /\ CannotPrepare
    BY <1>0, <1>5, <2>2, EndMoves DEF BackendAnswered
  <2>3. CASE page.network /\ ~CannotPrepare
    <3>1. PageOK(p)
      BY <1>0 DEF PageOK, PageFields, Disconnected
    <3>2. FlowOK([kind |-> "connect", at |-> "compatible"], issued')
      BY PlainConnectOK
    <3>3. Becomes(p) /\ Goes(f, [kind |-> "connect", at |-> "compatible"]) /\ Outside
      BY <1>5, <2>3 DEF BackendAnswered
    <3> QED
      BY <3>1, <3>2, <3>3 DEF Moves
  <2> QED
    BY <2>1, <2>2, <2>3
<1>6. CASE SwitchAnswered(f)
  <2>1. CASE ~wallet.right
    <3>1. PageOK([page EXCEPT !.network = FALSE, !.smartAccount = None, !.deployed = FALSE])
      BY <1>0 DEF PageOK, PageFields, Disconnected
    <3> QED
      BY <1>6, <2>1, <3>1, EndMoves DEF SwitchAnswered
  <2>2. CASE wallet.right /\ CannotPrepare
    <3>1. PageOK([Failed(f) EXCEPT !.network = TRUE])
      BY <1>0 DEF PageOK, PageFields, Disconnected
    <3> QED
      BY <1>6, <2>2, <3>1, EndMoves DEF SwitchAnswered
  <2>3. CASE wallet.right /\ ~CannotPrepare
    <3> DEFINE p == [page EXCEPT !.network = TRUE, !.starkKey = page.address]
    <3>1. PageOK(p)
      BY <1>0 DEF PageOK, PageFields, Disconnected
    <3>2. FlowOK([kind |-> "connect", at |-> "compatible"], issued')
      BY PlainConnectOK
    <3>3. Becomes(p) /\ Goes(f, [kind |-> "connect", at |-> "compatible"]) /\ Outside
      BY <1>6, <2>3 DEF SwitchAnswered
    <3> QED
      BY <3>1, <3>2, <3>3 DEF Moves
  <2> QED
    BY <2>1, <2>2, <2>3
<1>7. CASE AskComputeAccount(f)
  <2>1. CASE page.address = None \/ page.starkKey = None
    BY <1>0, <1>7, <2>1, AskEligibilityMoves DEF AskComputeAccount
  <2>2. CASE ~(page.address = None \/ page.starkKey = None)
    <3> DEFINE r == [kind |-> "connect", at |-> "compute",
                     theirs |-> <<page.address, page.starkKey>>]
    <3>1. FlowOK(r, issued')
      BY PlainConnectOK
    <3>2. Goes(f, r) /\ UNCHANGED page /\ Outside
      BY <1>7, <2>2 DEF AskComputeAccount
    <3> QED
      BY <1>0, <3>1, <3>2, GoMoves
  <2> QED
    BY <2>1, <2>2
<1>8. CASE ComputeAnswered(f)
  <2>1. CASE page.address = None \/ page.starkKey = None \/ ~page.addresses
    BY <1>0, <1>8, <2>1, EndMoves DEF ComputeAnswered
  <2>2. CASE ~(page.address = None \/ page.starkKey = None \/ ~page.addresses)
    <3> DEFINE r == [kind |-> "connect", at |-> "local", theirs |-> flow[f].theirs,
                     ours |-> <<page.address, page.starkKey>>]
    <3>1. ConnectOK(r)
      BY <1>0, <2>2 DEF ConnectOK, PageOK, SmartAccounts
    <3>2. FlowOK(r, issued')
      BY <3>1, ConnectFlowOK
    <3>3. Goes(f, r) /\ UNCHANGED page /\ Outside
      BY <1>8, <2>2 DEF ComputeAnswered
    <3> QED
      BY <1>0, <3>2, <3>3, GoMoves
  <2> QED
    BY <2>1, <2>2
<1>9. CASE LocalAnswered(f)
  <2>1. CASE flow[f].ours # flow[f].theirs
    BY <1>0, <1>9, <2>1, EndMoves DEF LocalAnswered
  <2>2. CASE flow[f].ours = flow[f].theirs
    <3> DEFINE p == [page EXCEPT !.smartAccount = flow[f].ours]
               r == [kind |-> "connect", at |-> "code", there |-> flow[f].ours \in deployed]
    <3>1. flow[f].ours \in SmartAccounts
      BY <1>0, <1>9 DEF LocalAnswered, At, FlowOK, ConnectOK
    <3>2. PageOK(p)
      BY <1>0, <3>1 DEF PageOK, PageFields, Disconnected
    <3>3. FlowOK(r, issued')
      BY PlainConnectOK
    <3>4. Becomes(p) /\ Goes(f, r) /\ Outside
      BY <1>9, <2>2 DEF LocalAnswered
    <3> QED
      BY <3>2, <3>3, <3>4 DEF Moves
  <2> QED
    BY <2>1, <2>2
<1>10. CASE CodeAnswered(f)
  <2> DEFINE p == [page EXCEPT !.deployed = flow[f].there]
  <2>2. PageOK(p)
    BY <1>0 DEF PageOK, PageFields, Disconnected
  <2>3. FlowOK([kind |-> "connect", at |-> "loaded"], issued')
    BY PlainConnectOK
  <2>4. Becomes(p) /\ Goes(f, [kind |-> "connect", at |-> "loaded"]) /\ Outside
    BY <1>10 DEF CodeAnswered
  <2> QED
    BY <2>2, <2>3, <2>4 DEF Moves
<1>11. CASE ContractLoaded(f)
  BY <1>0, <1>11, AskEligibilityMoves DEF ContractLoaded
<1>12. CASE ConnectDone(f)
  <2>1. PageOK([Learned(flow[f].who) EXCEPT !.listening = TRUE])
    BY <1>0 DEF Learned, PageOK, PageFields, Disconnected
  <2> QED
    BY <1>12, <2>1, EndMoves DEF ConnectDone
<1> QED
  BY <1>1, <1>2, <1>3, <1>4, <1>5, <1>6, <1>7, <1>8, <1>9, <1>10, <1>11, <1>12 DEF ConnectStep

-----------------------------------------------------------------------------
(* doMint: what a record keeps that a flow goes on with.                   *)

LEMMA MergeIs ==
    ASSUME NEW r, NEW s
    PROVE  /\ DOMAIN Merge(r, s) = DOMAIN r \cup DOMAIN s
           /\ \A k \in DOMAIN s : Merge(r, s)[k] = s[k]
           /\ \A k \in DOMAIN r \ DOMAIN s : Merge(r, s)[k] = r[k]
  BY DEF Merge

Carries(r, n, proofs) ==
    /\ HasAccount(r) => HasAccount(n)
    /\ HasProof(r, proofs) => HasProof(n, proofs)
    /\ HasOp(r, proofs) => HasOp(n, proofs)

LEMMA MergeCarries ==
    ASSUME NEW I, NEW r, NEW s, DOMAIN s \cap {"to", "proof", "op"} = {}
    PROVE  Carries(r, Merge(r, s), I)
<1> DEFINE n == Merge(r, s)
<1>1. /\ "to" \in DOMAIN r => "to" \in DOMAIN n /\ n.to = r.to
      /\ "proof" \in DOMAIN r => "proof" \in DOMAIN n /\ n.proof = r.proof
      /\ "op" \in DOMAIN r => "op" \in DOMAIN n /\ n.op = r.op
  BY MergeIs
<1> HIDE DEF n
<1>2. Carries(r, n, I)
  BY <1>1 DEF Carries, HasAccount, HasProof, HasOp
<1> QED
  BY <1>2 DEF n

(* The kind, place and purpose of a mint that goes on. *)
LEMMA MergeKeepsKind ==
    ASSUME NEW r, "kind" \in DOMAIN r, "at" \in DOMAIN r, "for" \in DOMAIN r, r.kind = "mint",
           NEW s, "kind" \notin DOMAIN s, "for" \notin DOMAIN s, "at" \in DOMAIN s
    PROVE  /\ {"kind", "at", "for"} \subseteq DOMAIN Merge(r, s)
           /\ Merge(r, s).kind = "mint" /\ Merge(r, s).at = s.at
           /\ Merge(r, s).for = r.for
<1>1. PICK n : n = Merge(r, s)
  OBVIOUS
<1>2. /\ DOMAIN n = DOMAIN r \cup DOMAIN s
      /\ \A k \in DOMAIN s : n[k] = s[k]
      /\ \A k \in DOMAIN r \ DOMAIN s : n[k] = r[k]
  BY <1>1 DEF Merge
<1>3. n.kind = r.kind
  BY <1>2
<1>4. n.at = s.at
  BY <1>2
<1>5. n.for = r.for
  BY <1>2
<1>6. {"kind", "at", "for"} \subseteq DOMAIN n
  BY <1>2
<1> QED
  BY <1>1, <1>3, <1>4, <1>5, <1>6

LEMMA MergeSetsPurpose ==
    ASSUME NEW r, "kind" \in DOMAIN r, "at" \in DOMAIN r, "for" \in DOMAIN r, r.kind = "mint",
           NEW s, "kind" \notin DOMAIN s, "for" \in DOMAIN s, "at" \in DOMAIN s
    PROVE  /\ {"kind", "at", "for"} \subseteq DOMAIN Merge(r, s)
           /\ Merge(r, s).kind = "mint" /\ Merge(r, s).at = s.at
           /\ Merge(r, s).for = s.for
<1>1. PICK n : n = Merge(r, s)
  OBVIOUS
<1>2. /\ DOMAIN n = DOMAIN r \cup DOMAIN s
      /\ \A k \in DOMAIN s : n[k] = s[k]
      /\ \A k \in DOMAIN r \ DOMAIN s : n[k] = r[k]
  BY <1>1 DEF Merge
<1>3. n.kind = r.kind
  BY <1>2
<1>4. n.at = s.at
  BY <1>2
<1>5. n.for = s.for
  BY <1>2
<1>6. {"kind", "at", "for"} \subseteq DOMAIN n
  BY <1>2
<1> QED
  BY <1>1, <1>3, <1>4, <1>5, <1>6

LEMMA FreshMintOK ==
    ASSUME NEW I, NEW place, place \notin {"code"} \cup Asking \cup Holding \cup Sending
    PROVE  FlowOK(Mint(place), I)
<1>1. /\ DOMAIN Mint(place) = {"kind", "at", "for", "create"}
      /\ Mint(place).kind = "mint" /\ Mint(place).at = place
  BY DEF Mint
<1> QED
  BY <1>1 DEF FlowOK, MintOK, Asking, Holding, Sending

LEMMA FlowIsMint ==
    ASSUME PageInv, NEW f \in Flows, NEW place, At(f, "mint", place)
    PROVE  /\ {"kind", "at", "for"} \subseteq DOMAIN flow[f]
           /\ flow[f].kind = "mint" /\ flow[f].at = place
           /\ MintOK(flow[f], issued)
  BY DEF PageInv, FlowsOK, FlowOK, MintOK, At

LEMMA SignMoves ==
    ASSUME PageInv, NEW f \in Flows, flow[f].kind = "mint",
           HasAccount(flow[f]), HasProof(flow[f], issued), HasOp(flow[f], issued),
           NEW p, PageOK(p), Sign(f, p), issued' = issued
    PROVE  Moves(f)
<1>1. CASE p.signer = None
  <2>1. PageOK(page) /\ PageOK(Failed(f))
    BY FailedOK DEF PageInv
  <2>2. PageOK([Failed(f) EXCEPT !.token = p.token])
    BY <2>1 DEF PageOK, PageFields, Disconnected
  <2> QED
    BY <1>1, <2>2, EndMoves DEF Sign
<1>2. CASE p.signer # None
  <2> DEFINE s == [at |-> "sign", by |-> p.signer]
             n == Merge(flow[f], s)
  <2>1. Goes(f, n) /\ Becomes(p)
    BY <1>2 DEF Sign
  <2>2. {"kind", "at", "for"} \subseteq DOMAIN flow[f]
    BY DEF PageInv, FlowsOK, FlowOK, MintOK
  <2>3. {"kind", "at", "for"} \subseteq DOMAIN n /\ n.kind = "mint" /\ n.at = "sign"
    BY <2>2, MergeKeepsKind
  <2>4. HasAccount(n) /\ HasProof(n, issued) /\ HasOp(n, issued)
    BY MergeCarries DEF Carries
  <2> HIDE DEF n
  <2>5. FlowOK(n, issued)
    BY <2>3, <2>4 DEF FlowOK, MintOK, Asking, Holding, Sending
  <2> QED
    BY <2>1, <2>5 DEF Moves
<1> QED
  BY <1>1, <1>2

LEMMA ThrowsMoves ==
    ASSUME PageInv, NEW f \in Flows, NEW place \in Asking, At(f, "mint", place),
           NEW p, PageOK(p), Throws(f, p), issued' = issued
    PROVE  Moves(f)
<1>1. CASE flow[f].for = "pay"
  <2>1. HasAccount(flow[f]) /\ HasProof(flow[f], issued) /\ HasOp(flow[f], issued)
    BY <1>1, FlowIsMint DEF MintOK, Asking
  <2> QED
    BY <1>1, <2>1, FlowIsMint, SignMoves DEF Throws
<1>2. CASE flow[f].for # "pay"
  <2>1. PageOK(page) /\ PageOK(Failed(f))
    BY FailedOK DEF PageInv
  <2>2. PageOK([Failed(f) EXCEPT !.token = p.token])
    BY <2>1 DEF PageOK, PageFields, Disconnected
  <2> QED
    BY <1>2, <2>2, EndMoves DEF Throws
<1> QED
  BY <1>1, <1>2

(* ensureBackendAuthToken, asked with a record that has what its purpose   *)
(* needs.                                                                  *)
LEMMA AskTokenMoves ==
    ASSUME PageInv, NEW f \in Flows, flow[f].kind = "mint", NEW q,
           {"kind", "at", "for"} \subseteq DOMAIN q, q.kind = "mint",
           HasAccount(q), q.for # "mint" => HasProof(q, issued),
           q.for = "pay" => HasOp(q, issued), page.address # None,
           AskToken(f, q), issued' = issued
    PROVE  Moves(f)
<1>0. PageOK(page)
  BY DEF PageInv
<1>1. ASSUME NEW s, "kind" \notin DOMAIN s, "for" \notin DOMAIN s, "at" \in DOMAIN s,
             DOMAIN s \cap {"to", "proof", "op"} = {}, s.at \in {"post", "challenge"},
             s.at = "challenge" =>
                 {"challenged", "current"} \subseteq DOMAIN s /\ s.challenged = s.current,
             Goes(f, Merge(q, s)), UNCHANGED page
      PROVE  Moves(f)
  <2>1. PICK n : n = Merge(q, s)
    OBVIOUS
  <2>2. {"kind", "at", "for"} \subseteq DOMAIN n /\ n.kind = "mint" /\ n.at = s.at /\ n.for = q.for
    BY <1>1, <2>1, MergeKeepsKind
  <2>3. Carries(q, n, issued)
    BY <1>1, <2>1, MergeCarries
  <2>4. /\ HasAccount(n) /\ (n.for # "mint" => HasProof(n, issued))
        /\ n.for = "pay" => HasOp(n, issued)
    BY <2>2, <2>3 DEF Carries
  <2>5. n.at = "challenge" =>
            {"challenged", "current"} \subseteq DOMAIN n /\ n.challenged = n.current
    <3> SUFFICES ASSUME n.at = "challenge" 
                 PROVE {"challenged", "current"} \subseteq DOMAIN n /\ n.challenged = n.current
      OBVIOUS
    <3>1. "challenged" \in DOMAIN s /\ "current" \in DOMAIN s /\ s.challenged = s.current
      BY <1>1, <2>2
    <3> QED
      BY <3>1, <2>1 DEF Merge
  <2>6. FlowOK(n, issued)
    BY <1>1, <2>2, <2>4, <2>5 DEF FlowOK, MintOK, Asking, Holding, Sending
  <2> QED
    BY <1>0, <1>1, <2>1, <2>6, GoMoves
<1>2. CASE page.token # None /\ page.token.recipient = page.address
  <2> DEFINE s == [at |-> "post", auth |-> page.token.of]
  <2>1. Goes(f, Merge(q, s)) /\ UNCHANGED page
    BY <1>2 DEF AskToken
  <2> QED
    BY <1>1, <2>1
<1>3. CASE ~(page.token # None /\ page.token.recipient = page.address)
  <2> DEFINE s == [at |-> "challenge", current |-> page.address, challenged |-> page.address]
  <2>1. Goes(f, Merge(q, s)) /\ UNCHANGED page
    BY <1>3 DEF AskToken
  <2> QED
    BY <1>1, <2>1
<1> QED
  BY <1>2, <1>3

LEMMA GoesOnOK ==
    ASSUME PageInv, NEW f \in Flows, NEW place, At(f, "mint", place),
           NEW s, "kind" \notin DOMAIN s, "for" \notin DOMAIN s, "at" \in DOMAIN s,
           DOMAIN s \cap {"to", "proof", "op"} = {},
           s.at \notin {"code", "creating", "challenge", "signing", "verify"},
           s.at \in Asking \cup Holding \cup Sending => HasAccount(flow[f]),
           s.at \in Holding \cup Sending \/ (s.at \in Asking /\ flow[f].for # "mint")
               => HasProof(flow[f], issued),
           s.at \in Sending \/ (s.at \in Asking /\ flow[f].for = "pay") => HasOp(flow[f], issued)
    PROVE  FlowOK(Merge(flow[f], s), issued)
<1>1. PICK n : n = Merge(flow[f], s)
  OBVIOUS
<1>2. {"kind", "at", "for"} \subseteq DOMAIN flow[f] /\ flow[f].kind = "mint"
  BY FlowIsMint
<1>3. /\ {"kind", "at", "for"} \subseteq DOMAIN n /\ n.kind = "mint" /\ n.at = s.at
      /\ n.for = flow[f].for
  BY <1>1, <1>2, MergeKeepsKind
<1>4. Carries(flow[f], n, issued)
  BY <1>1, MergeCarries
<1>5. /\ n.at \in Asking \cup Holding \cup Sending => HasAccount(n)
      /\ n.at \in Holding \cup Sending \/ (n.at \in Asking /\ n.for # "mint")
             => HasProof(n, issued)
      /\ n.at \in Sending \/ (n.at \in Asking /\ n.for = "pay") => HasOp(n, issued)
  BY <1>3, <1>4 DEF Carries
<1>6. FlowOK(n, issued)
  BY <1>3, <1>5 DEF FlowOK, MintOK
<1> QED
  BY <1>1, <1>6

LEMMA ToTheBackendMoves ==
    ASSUME PageInv, NEW f \in Flows,
           \/ EligibilityAnswered(f) \/ DoMint4337(f) \/ RequestMintProof(f)
           \/ CompatibilityAnswered(f)
    PROVE  Moves(f) /\ Outside
<1>0. PageOK(page) /\ PageOK(Failed(f)) /\ FlowOK(flow[f], issued)
  BY FailedOK DEF PageInv, FlowsOK
<1>1. CASE EligibilityAnswered(f)
  <2>1. PageOK(Begun(Learned(flow[f].who))) /\ PageOK(Learned(flow[f].who))
    BY <1>0 DEF Begun, Learned, PageOK, PageFields, Disconnected
  <2>2. FlowOK(Mint("begun"), issued')
    BY FreshMintOK DEF Asking, Holding, Sending
  <2> QED
    BY <1>1, <2>1, <2>2, EndMoves DEF EligibilityAnswered, Moves
<1>2. CASE DoMint4337(f)
  <2>1. CASE page.smartAccount = None \/ page.starkKey = None
    BY <1>0, <1>2, <2>1, EndMoves DEF DoMint4337
  <2>2. CASE ~(page.smartAccount = None \/ page.starkKey = None)
    <3> DEFINE s == [to |-> page.smartAccount, there |-> page.smartAccount \in deployed]
    <3>1. PICK n : n = Merge(Mint("code"), s)
      OBVIOUS
    <3>2. /\ DOMAIN n = {"kind", "at", "for", "create", "to", "there"}
          /\ n.kind = "mint" /\ n.at = "code" /\ n.for = "mint" /\ n.to = page.smartAccount
      BY <3>1 DEF Merge, Mint
    <3>3. FlowOK(n, issued')
      BY <1>0, <2>2, <3>2 DEF FlowOK, MintOK, HasAccount, PageOK, Asking, Holding, Sending
    <3>4. Goes(f, n) /\ UNCHANGED page /\ Outside
      BY <1>2, <2>2, <3>1 DEF DoMint4337
    <3> QED
      BY <1>0, <3>3, <3>4, GoMoves
  <2> QED
    BY <2>1, <2>2
<1>3. CASE RequestMintProof(f)
  <2>1. CASE page.address = None \/ ~page.addresses
    BY <1>0, <1>3, <2>1, EndMoves DEF RequestMintProof
  <2>2. CASE ~(page.address = None \/ ~page.addresses)
    <3> DEFINE p == [page EXCEPT !.deployed = flow[f].there]
               s == [at |-> "compatible",
                     sent |-> [recipient |-> page.address, mintTo |-> flow[f].to,
                               traits |-> page.selected]]
    <3>1. PageOK(p)
      BY <1>0 DEF PageOK, PageFields, Disconnected
    <3>2. At(f, "mint", "code") /\ flow[f].for = "mint" /\ HasAccount(flow[f])
      BY <1>3, FlowIsMint DEF RequestMintProof, MintOK
    <3>3. FlowOK(Merge(flow[f], s), issued)
      BY <3>2, GoesOnOK DEF Asking, Holding, Sending
    <3>4. Becomes(p) /\ Goes(f, Merge(flow[f], s)) /\ Outside
      BY <1>3, <2>2 DEF RequestMintProof
    <3> QED
      BY <3>1, <3>3, <3>4, OutsideKeeps DEF Moves
  <2> QED
    BY <2>1, <2>2
<1>4. CASE CompatibilityAnswered(f)
  <2>1. At(f, "mint", "compatible") /\ "compatible" \in Asking
    BY <1>4 DEF CompatibilityAnswered, Asking
  <2>2. /\ {"kind", "at", "for"} \subseteq DOMAIN flow[f] /\ flow[f].kind = "mint"
        /\ HasAccount(flow[f]) /\ (flow[f].for # "mint" => HasProof(flow[f], issued))
        /\ flow[f].for = "pay" => HasOp(flow[f], issued)
    BY <2>1, FlowIsMint DEF MintOK
  <2>3. AskToken(f, flow[f]) /\ issued' = issued /\ Outside
    BY <1>4, OutsideKeeps DEF CompatibilityAnswered
  <2>4. CASE page.address = None
    BY <1>0, <2>1, <2>3, <2>4, ThrowsMoves DEF AskToken
  <2>5. CASE page.address # None
    BY <2>2, <2>3, <2>5, AskTokenMoves
  <2> QED
    BY <2>3, <2>4, <2>5
<1> QED
  BY <1>1, <1>2, <1>3, <1>4

(* Between the challenge and the verification a flow keeps what was        *)
(* challenged.                                                             *)
LEMMA StillSigningOK ==
    ASSUME PageInv, NEW f \in Flows, NEW place \in {"challenge", "signing"}, At(f, "mint", place),
           NEW s, DOMAIN s \cap {"kind", "for", "to", "proof", "op", "challenged", "current"} = {},
           "at" \in DOMAIN s, s.at \in {"signing", "verify"}
    PROVE  FlowOK(Merge(flow[f], s), issued)
<1>1. PICK n : n = Merge(flow[f], s)
  OBVIOUS
<1>2. /\ {"kind", "at", "for"} \subseteq DOMAIN flow[f] /\ flow[f].kind = "mint"
      /\ flow[f].at = place /\ MintOK(flow[f], issued)
  BY FlowIsMint
<1>3. /\ {"kind", "at", "for"} \subseteq DOMAIN n /\ n.kind = "mint" /\ n.at = s.at
      /\ n.for = flow[f].for
  <2>1. "kind" \notin DOMAIN s /\ "for" \notin DOMAIN s
    OBVIOUS
  <2> QED
    BY <1>1, <1>2, <2>1, MergeKeepsKind
<1>4. Carries(flow[f], n, issued)
  BY <1>1, MergeCarries
<1>5. "challenged" \in DOMAIN flow[f] /\ "current" \in DOMAIN flow[f]
      /\ flow[f].challenged = flow[f].current
  BY <1>2 DEF MintOK
<1>6. "challenged" \notin DOMAIN s /\ "current" \notin DOMAIN s
  OBVIOUS
<1>7. "challenged" \in DOMAIN n /\ "current" \in DOMAIN n /\ n.challenged = n.current
  BY <1>1, <1>5, <1>6 DEF Merge
<1>8. FlowOK(n, issued)
  BY <1>2, <1>3, <1>4, <1>7 DEF FlowOK, MintOK, Carries, Asking, Holding, Sending
<1> QED
  BY <1>1, <1>8

LEMMA SignInMoves ==
    ASSUME PageInv, NEW f \in Flows,
           ChallengeAnswered(f) \/ ChallengeSigned(f) \/ VerifyAnswered(f)
    PROVE  Moves(f) /\ Outside
<1>0. PageOK(page) /\ PageOK(Failed(f)) /\ FlowOK(flow[f], issued)
  BY FailedOK DEF PageInv, FlowsOK
<1>1. CASE ChallengeAnswered(f)
  <2>0. At(f, "mint", "challenge") /\ "challenge" \in Asking /\ Outside /\ issued' = issued
    BY <1>1, OutsideKeeps DEF ChallengeAnswered, Asking
  <2>1. CASE page.signer = None
    BY <1>0, <1>1, <2>0, <2>1, ThrowsMoves DEF ChallengeAnswered
  <2>2. CASE page.signer # None
    <3> DEFINE s == [at |-> "signing", by |-> page.signer]
    <3>1. FlowOK(Merge(flow[f], s), issued)
      BY <2>0, StillSigningOK
    <3>2. Goes(f, Merge(flow[f], s)) /\ UNCHANGED page
      BY <1>1, <2>2 DEF ChallengeAnswered
    <3> QED
      BY <1>0, <2>0, <3>1, <3>2, GoMoves
  <2> QED
    BY <2>1, <2>2
<1>2. CASE ChallengeSigned(f)
  <2> DEFINE s == [at |-> "verify", verified |-> page.address]
  <2>0. At(f, "mint", "signing") /\ Outside /\ issued' = issued
    BY <1>2, OutsideKeeps DEF ChallengeSigned
  <2>1. FlowOK(Merge(flow[f], s), issued)
    BY <2>0, StillSigningOK
  <2>2. Goes(f, Merge(flow[f], s)) /\ UNCHANGED page
    BY <1>2 DEF ChallengeSigned
  <2> QED
    BY <1>0, <2>0, <2>1, <2>2, GoMoves
<1>3. CASE VerifyAnswered(f)
  <2>0. At(f, "mint", "verify") /\ "verify" \in Asking /\ Outside /\ issued' = issued
    BY <1>3, OutsideKeeps DEF VerifyAnswered, Asking
  <2>1. MintOK(flow[f], issued) /\ flow[f].at = "verify"
    BY <2>0, FlowIsMint
  <2>2. CASE VerifyAccepts(f)
    <3> DEFINE p == [page EXCEPT !.token = TokenFor(f)]
               s == [at |-> "post", auth |-> flow[f].verified]
    <3>1. flow[f].verified = flow[f].current
      BY <2>1, <2>2 DEF MintOK, VerifyAccepts
    <3>2. PageOK(p)
      BY <1>0, <3>1 DEF TokenFor, PageOK, PageFields, Disconnected
    <3>3. FlowOK(Merge(flow[f], s), issued)
      BY <2>0, <2>1, GoesOnOK DEF MintOK, Asking, Holding, Sending
    <3>4. Becomes(p) /\ Goes(f, Merge(flow[f], s))
      BY <1>3, <2>2 DEF VerifyAnswered
    <3> QED
      BY <2>0, <3>2, <3>3, <3>4 DEF Moves
  <2>3. CASE ~VerifyAccepts(f)
    <3>1. PageOK([page EXCEPT !.token = None])
      BY <1>0 DEF PageOK, PageFields, Disconnected
    <3> QED
      BY <1>3, <2>0, <2>3, <3>1, ThrowsMoves DEF VerifyAnswered
  <2> QED
    BY <2>2, <2>3
<1> QED
  BY <1>1, <1>2, <1>3

(* Until a proof is in hand and from it to the operation. *)
LEMMA WithTheProofMoves ==
    ASSUME PageInv, NEW f \in Flows,
           \/ MintProofRefused(f) \/ MintProofArrives(f) \/ RequestActionProof(f)
           \/ PostActionProof(f)
    PROVE  Moves(f) /\ Outside
<1>0. PageOK(page) /\ PageOK(Failed(f)) /\ PageOK([Failed(f) EXCEPT !.retry = TRUE])
  <2>1. PageOK(page) /\ PageOK(Failed(f))
    BY FailedOK DEF PageInv
  <2> QED
    BY <2>1 DEF PageOK, PageFields, Disconnected
<1>1. CASE MintProofRefused(f)
  BY <1>0, <1>1, EndMoves DEF MintProofRefused
<1>2. CASE MintProofArrives(f)
  <2>0. At(f, "mint", "granted") /\ Outside /\ issued' = issued
    BY <1>2, OutsideKeeps DEF MintProofArrives
  <2>1. HasAccount(flow[f]) /\ HasProof(flow[f], issued) /\ flow[f].at = "granted"
    BY <2>0, FlowIsMint DEF MintOK, Holding
  <2>2. CASE ~page.deployed /\ (page.address = None \/ page.starkKey = None \/ ~page.addresses)
    BY <1>0, <1>2, <2>0, <2>2, EndMoves DEF MintProofArrives
  <2>3. CASE ~(~page.deployed /\ (page.address = None \/ page.starkKey = None \/ ~page.addresses))
    <3> DEFINE here == [at |-> "entryPoint", traits |-> page.selected]
               there == [at |-> "hash", traits |-> page.selected,
                         hash |-> <<page.address, page.starkKey>>]
    <3>1. FlowOK(Merge(flow[f], here), issued)
      BY <2>0, <2>1, GoesOnOK DEF Asking, Holding, Sending
    <3>2. FlowOK(Merge(flow[f], there), issued)
      BY <2>0, <2>1, GoesOnOK DEF Asking, Holding, Sending
    <3>3. UNCHANGED page /\ (Goes(f, Merge(flow[f], here)) \/ Goes(f, Merge(flow[f], there)))
      BY <1>2, <2>3 DEF MintProofArrives
    <3> QED
      BY <1>0, <2>0, <3>1, <3>2, <3>3, GoMoves
  <2> QED
    BY <2>2, <2>3
<1>3. CASE RequestActionProof(f)
  <2>0. At(f, "mint", "hash") /\ Outside /\ issued' = issued
    BY <1>3, OutsideKeeps DEF RequestActionProof
  <2>1. HasAccount(flow[f]) /\ HasProof(flow[f], issued) /\ MintOK(flow[f], issued)
    BY <2>0, FlowIsMint DEF MintOK, Holding
  <2>2. CASE page.address = None \/ ~page.addresses
    BY <1>0, <1>3, <2>0, <2>2, EndMoves DEF RequestActionProof
  <2>3. CASE ~(page.address = None \/ ~page.addresses)
    <3> DEFINE s == [at |-> "compatible", for |-> "action",
                     sent |-> [recipient |-> page.address, hash |-> flow[f].hash]]
    <3>1. PICK n : n = Merge(flow[f], s)
      OBVIOUS
    <3>2. {"kind", "at", "for"} \subseteq DOMAIN n /\ n.kind = "mint" /\ n.at = "compatible"
          /\ n.for = "action"
      BY <2>0, <3>1, FlowIsMint, MergeSetsPurpose
    <3>3. HasAccount(n) /\ HasProof(n, issued)
      BY <2>1, <3>1, MergeCarries DEF Carries
    <3>4. FlowOK(n, issued)
      BY <3>2, <3>3 DEF FlowOK, MintOK, Asking, Holding, Sending
    <3>5. UNCHANGED page /\ Goes(f, n)
      BY <1>3, <2>3, <3>1 DEF RequestActionProof
    <3> QED
      BY <1>0, <2>0, <3>4, <3>5, GoMoves
  <2> QED
    BY <2>2, <2>3
<1>4. CASE PostActionProof(f)
  <2>0. At(f, "mint", "post") /\ flow[f].for = "action" /\ Outside /\ issued' = issued
    BY <1>4, OutsideKeeps DEF PostActionProof, Posts
  <2>1. HasAccount(flow[f]) /\ HasProof(flow[f], issued)
    BY <2>0, FlowIsMint DEF MintOK, Asking
  <2>2. CASE flow[f].auth = flow[f].sent.recipient
    <3> DEFINE s == [at |-> "entryPoint", create |-> flow[f].sent]
    <3>1. FlowOK(Merge(flow[f], s), issued)
      BY <2>0, <2>1, GoesOnOK DEF Asking, Holding, Sending
    <3>2. UNCHANGED page /\ Goes(f, Merge(flow[f], s))
      BY <1>4, <2>2 DEF PostActionProof
    <3> QED
      BY <1>0, <2>0, <3>1, <3>2, GoMoves
  <2>3. CASE flow[f].auth # flow[f].sent.recipient
    BY <1>0, <1>4, <2>0, <2>3, EndMoves DEF PostActionProof
  <2> QED
    BY <2>2, <2>3
<1> QED
  BY <1>1, <1>2, <1>3, <1>4

(* From the operation to the chain. *)
LEMMA ToTheChainMoves ==
    ASSUME PageInv, NEW f \in Flows,
           \/ BuildMintUserOp(f) \/ AskSponsorship(f) \/ SelfPays(f) \/ SponsorshipAnswered(f)
           \/ SendUserOp(f) \/ CreateDirectly(f) \/ AccountCreated(f) \/ MintDirectly(f)
           \/ Reverts(f) \/ SentElsewhere(f)
    PROVE  Moves(f) /\ Outside
<1>0. PageOK(page) /\ PageOK(Failed(f))
  BY FailedOK DEF PageInv
<1>1. CASE BuildMintUserOp(f)
  <2> DEFINE cannot == \/ page.address = None \/ page.starkKey = None \/ ~page.addresses
                       \/ ~Buildable(f)
  <2>0. At(f, "mint", "entryPoint") /\ Outside /\ issued' = issued
    BY <1>1, OutsideKeeps DEF BuildMintUserOp
  <2>1. HasAccount(flow[f]) /\ HasProof(flow[f], issued) /\ MintOK(flow[f], issued)
    BY <2>0, FlowIsMint DEF MintOK, Holding
  <2>2. CASE cannot
    BY <1>0, <1>1, <2>0, <2>2, EndMoves DEF BuildMintUserOp
  <2>3. CASE ~cannot
    <3>1. PICK call, init :
             /\ UNCHANGED page
             /\ Goes(f, Merge(flow[f], [at |-> "built",
                    op |-> [sender |-> flow[f].to, nonce |-> nonce[flow[f].to], mint |-> call,
                            proof |-> flow[f].proof, init |-> init]]))
      BY <1>1, <2>3 DEF BuildMintUserOp
    <3> DEFINE o == [sender |-> flow[f].to, nonce |-> nonce[flow[f].to], mint |-> call,
                     proof |-> flow[f].proof, init |-> init]
               s == [at |-> "built", op |-> o]
    <3>2. PICK n : n = Merge(flow[f], s)
      OBVIOUS
    <3>3. {"kind", "at", "for"} \subseteq DOMAIN n /\ n.kind = "mint" /\ n.at = "built"
      BY <2>0, <3>2, FlowIsMint, MergeKeepsKind
    <3>4. "to" \in DOMAIN n /\ n.to = flow[f].to
      BY <2>1, <3>2 DEF Merge, HasAccount
    <3>5. "proof" \in DOMAIN n /\ n.proof = flow[f].proof
      BY <2>1, <3>2 DEF Merge, HasProof
    <3>6. "op" \in DOMAIN n /\ n.op = o
      BY <3>2 DEF Merge
    <3>7. HasAccount(n) /\ HasProof(n, issued) /\ HasOp(n, issued)
      BY <2>1, <3>4, <3>5, <3>6 DEF HasAccount, HasProof, HasOp
    <3>8. FlowOK(n, issued)
      BY <3>3, <3>7 DEF FlowOK, MintOK, Asking, Holding, Sending
    <3> QED
      BY <1>0, <2>0, <3>1, <3>2, <3>8, GoMoves
  <2> QED
    BY <2>2, <2>3
<1>2. CASE AskSponsorship(f)
  <2>0. At(f, "mint", "built") /\ Outside /\ issued' = issued
    BY <1>2, OutsideKeeps DEF AskSponsorship
  <2>1. HasAccount(flow[f]) /\ HasProof(flow[f], issued) /\ HasOp(flow[f], issued)
    BY <2>0, FlowIsMint DEF MintOK, Sending
  <2>2. CASE page.address = None
    BY <1>0, <1>2, <2>0, <2>2, EndMoves DEF AskSponsorship
  <2>3. CASE page.address # None
    <3> DEFINE s == [for |-> "pay"]
    <3>1. PICK q : q = Merge(flow[f], s)
      OBVIOUS
    <3>2. {"kind", "at", "for"} \subseteq DOMAIN q /\ q.kind = "mint"
      BY <2>0, <3>1, FlowIsMint DEF Merge
    <3>3. HasAccount(q) /\ HasProof(q, issued) /\ HasOp(q, issued)
      BY <2>1, <3>1, MergeCarries DEF Carries
    <3>4. AskToken(f, q)
      BY <1>2, <2>3, <3>1 DEF AskSponsorship
    <3> QED
      BY <2>0, <2>3, <3>2, <3>3, <3>4, FlowIsMint, AskTokenMoves
  <2> QED
    BY <2>2, <2>3
<1>3. CASE SelfPays(f) \/ SponsorshipAnswered(f)
  <2>0. Outside /\ issued' = issued /\ Sign(f, page)
    BY <1>3, OutsideKeeps DEF SelfPays, SponsorshipAnswered
  <2>1. At(f, "mint", "built") \/ (At(f, "mint", "post") /\ flow[f].for = "pay")
    BY <1>3 DEF SelfPays, SponsorshipAnswered, Posts
  <2>2. HasAccount(flow[f]) /\ HasProof(flow[f], issued) /\ HasOp(flow[f], issued)
        /\ flow[f].kind = "mint"
    BY <2>1, FlowIsMint DEF MintOK, Sending, Asking
  <2> QED
    BY <1>0, <2>0, <2>2, SignMoves
<1>4. CASE SendUserOp(f)
  <2>0. At(f, "mint", "sign") /\ Outside /\ issued' = issued
    BY <1>4, OutsideKeeps DEF SendUserOp
  <2>1. HasAccount(flow[f]) /\ HasProof(flow[f], issued) /\ HasOp(flow[f], issued)
    BY <2>0, FlowIsMint DEF MintOK, Sending
  <2>2. CASE page.signer = None
    BY <1>0, <1>4, <2>0, <2>2, EndMoves DEF SendUserOp
  <2>3. CASE page.signer # None
    <3>1. FlowOK(Merge(flow[f], [at |-> "submit"]), issued)
      BY <2>0, <2>1, GoesOnOK DEF Asking, Holding, Sending
    <3>2. UNCHANGED page /\ Goes(f, Merge(flow[f], [at |-> "submit"]))
      BY <1>4, <2>3 DEF SendUserOp
    <3> QED
      BY <1>0, <2>0, <3>1, <3>2, GoMoves
  <2> QED
    BY <2>2, <2>3
<1>5. CASE CreateDirectly(f)
  <2> DEFINE cannot ==
         \/ page.signer = None \/ page.address = None \/ page.starkKey = None \/ ~page.addresses
         \/ flow[f].create = None
  <2>0. At(f, "mint", "entryPoint") /\ Outside /\ issued' = issued
    BY <1>5, OutsideKeeps DEF CreateDirectly
  <2>1. HasAccount(flow[f]) /\ HasProof(flow[f], issued)
    BY <2>0, FlowIsMint DEF MintOK, Holding
  <2>2. CASE cannot
    BY <1>0, <1>5, <2>0, <2>2, EndMoves DEF CreateDirectly
  <2>3. CASE ~cannot
    <3> DEFINE i == [account |-> <<page.address, page.starkKey>>, proof |-> flow[f].create]
               s == [at |-> "creating", init |-> i]
    <3>1. PICK n : n = Merge(flow[f], s)
      OBVIOUS
    <3>2. {"kind", "at", "for"} \subseteq DOMAIN n /\ n.kind = "mint" /\ n.at = "creating"
      BY <2>0, <3>1, FlowIsMint, MergeKeepsKind
    <3>3. HasAccount(n) /\ HasProof(n, issued)
      BY <2>1, <3>1, MergeCarries DEF Carries
    <3>4. n.init = i
      BY <3>1 DEF Merge
    <3>5. i.account \in SmartAccounts
      BY <1>0, <2>3 DEF PageOK, SmartAccounts
    <3>6. FlowOK(n, issued)
      BY <3>2, <3>3, <3>4, <3>5 DEF FlowOK, MintOK, Asking, Holding, Sending
    <3>7. UNCHANGED page /\ Goes(f, n)
      BY <1>5, <2>3, <3>1 DEF CreateDirectly
    <3> QED
      BY <1>0, <2>0, <3>6, <3>7, GoMoves
  <2> QED
    BY <2>2, <2>3
<1>6. CASE AccountCreated(f)
  <2> DEFINE p == [page EXCEPT !.deployed = (flow[f].to \in deployed)]
  <2>0. At(f, "mint", "created") /\ Outside /\ issued' = issued
    BY <1>6, OutsideKeeps DEF AccountCreated
  <2>1. HasAccount(flow[f]) /\ HasProof(flow[f], issued)
    BY <2>0, FlowIsMint DEF MintOK, Holding
  <2>2. FlowOK(Merge(flow[f], [at |-> "direct"]), issued)
    BY <2>0, <2>1, GoesOnOK DEF Asking, Holding, Sending
  <2>3. PageOK(p)
    BY <1>0 DEF PageOK, PageFields, Disconnected
  <2>4. Becomes(p) /\ Goes(f, Merge(flow[f], [at |-> "direct"]))
    BY <1>6 DEF AccountCreated
  <2> QED
    BY <2>0, <2>2, <2>3, <2>4 DEF Moves
<1>7. CASE MintDirectly(f)
  <2> DEFINE cannot == page.signer = None \/ page.address = None \/ ~page.addresses
  <2>0. Outside /\ issued' = issued
    BY <1>7, OutsideKeeps DEF MintDirectly
  <2>1. PICK place \in {"direct", "entryPoint"} : At(f, "mint", place)
    BY <1>7 DEF MintDirectly
  <2>2. HasAccount(flow[f]) /\ HasProof(flow[f], issued)
    BY <2>1, FlowIsMint DEF MintOK, Holding
  <2>3. CASE cannot
    BY <1>0, <1>7, <2>0, <2>3, EndMoves DEF MintDirectly
  <2>4. CASE ~cannot
    <3> DEFINE o == [sender |-> None, mint |-> MintCall(f), proof |-> flow[f].proof]
               s == [at |-> "submit", op |-> o]
    <3>1. PICK n : n = Merge(flow[f], s)
      OBVIOUS
    <3>2. {"kind", "at", "for"} \subseteq DOMAIN n /\ n.kind = "mint" /\ n.at = "submit"
      BY <2>1, <3>1, FlowIsMint, MergeKeepsKind
    <3>3. "to" \in DOMAIN n /\ n.to = flow[f].to
      BY <2>2, <3>1 DEF Merge, HasAccount
    <3>4. "proof" \in DOMAIN n /\ n.proof = flow[f].proof
      BY <2>2, <3>1 DEF Merge, HasProof
    <3>5. "op" \in DOMAIN n /\ n.op = o
      BY <3>1 DEF Merge
    <3>6. HasAccount(n) /\ HasProof(n, issued) /\ HasOp(n, issued)
      BY <2>2, <3>3, <3>4, <3>5 DEF HasAccount, HasProof, HasOp
    <3>7. FlowOK(n, issued)
      BY <3>2, <3>6 DEF FlowOK, MintOK, Asking, Holding, Sending
    <3>8. UNCHANGED page /\ Goes(f, n)
      BY <1>7, <2>4, <3>1 DEF MintDirectly
    <3> QED
      BY <1>0, <2>0, <3>7, <3>8, GoMoves
  <2> QED
    BY <2>3, <2>4
<1>8. CASE Reverts(f)
  BY <1>0, <1>8, EndMoves DEF Reverts
<1>9. CASE SentElsewhere(f)
  <2>0. Outside /\ issued' = issued
    BY <1>9, OutsideKeeps DEF SentElsewhere
  <2>1. CASE Ends(f, Failed(f))
    BY <1>0, <2>0, <2>1, EndMoves
  <2>2. CASE Goes(f, Mint("mined")) /\ UNCHANGED page
    <3>1. FlowOK(Mint("mined"), issued')
      BY FreshMintOK DEF Asking, Holding, Sending
    <3> QED
      BY <1>0, <2>0, <2>2, <3>1, GoMoves
  <2>3. CASE At(f, "mint", "creating") /\ Goes(f, Merge(flow[f], [at |-> "created"])) /\ UNCHANGED page
    <3>1. HasAccount(flow[f]) /\ HasProof(flow[f], issued)
      BY <2>3, FlowIsMint DEF MintOK, Holding
    <3>2. FlowOK(Merge(flow[f], [at |-> "created"]), issued)
      BY <2>3, <3>1, GoesOnOK DEF Asking, Holding, Sending
    <3> QED
      BY <1>0, <2>0, <2>3, <3>2, GoMoves
  <2> QED
    BY <1>9, <2>1, <2>2, <2>3 DEF SentElsewhere
<1> QED
  BY <1>1, <1>2, <1>3, <1>4, <1>5, <1>6, <1>7, <1>8, <1>9

(* After the mint. *)
LEMMA AfterTheMintMoves ==
    ASSUME PageInv, NEW f \in Flows, MintConfirmed(f) \/ Refresh(f) \/ MintDone(f)
    PROVE  Moves(f) /\ Outside
<1>0. PageOK(page)
  BY DEF PageInv
<1>1. CASE MintConfirmed(f)
  <2>1. PageOK([page EXCEPT !.locked = FALSE, !.ready = FALSE])
    BY <1>0 DEF PageOK, PageFields, Disconnected
  <2>2. FlowOK(Mint("confirmed"), issued')
    BY FreshMintOK DEF Asking, Holding, Sending
  <2> QED
    BY <1>1, <2>1, <2>2 DEF MintConfirmed, Moves
<1>2. CASE Refresh(f)
  <2>1. CASE page.address = None
    <3>1. PageOK([page EXCEPT !.checked = FALSE, !.eligible = FALSE, !.minting = FALSE])
      BY <1>0 DEF PageOK, PageFields, Disconnected
    <3> QED
      BY <1>2, <2>1, <3>1, EndMoves DEF Refresh
  <2>2. CASE page.address # None
    <3>1. PICK n : n = Merge(Mint("refresh"), [who |-> page.address])
      OBVIOUS
    <3>2. DOMAIN n = {"kind", "at", "for", "create", "who"} /\ n.kind = "mint" /\ n.at = "refresh"
      BY <3>1 DEF Merge, Mint
    <3>3. FlowOK(n, issued')
      BY <3>2 DEF FlowOK, MintOK, Asking, Holding, Sending
    <3>4. Goes(f, n) /\ UNCHANGED page /\ Outside
      BY <1>2, <2>2, <3>1 DEF Refresh
    <3> QED
      BY <1>0, <3>3, <3>4, GoMoves
  <2> QED
    BY <2>1, <2>2
<1>3. CASE MintDone(f)
  <2>1. PageOK([Learned(flow[f].who) EXCEPT !.minting = FALSE])
    BY <1>0 DEF Learned, PageOK, PageFields, Disconnected
  <2> QED
    BY <1>3, <2>1, EndMoves DEF MintDone
<1> QED
  BY <1>1, <1>2, <1>3

-----------------------------------------------------------------------------
(* An await that fails.                                                    *)

LEMMA AwaitFailsMoves ==
    ASSUME PageInv, NEW f \in Flows, AwaitFails(f), issued' = issued
    PROVE  Moves(f)
<1>0. PageOK(page) /\ PageOK(Failed(f)) /\ PageOK(EligibilityUnknown(f))
  <2>1. PageOK(page) /\ PageOK(Failed(f))
    BY FailedOK DEF PageInv
  <2> QED
    BY <2>1 DEF EligibilityUnknown, PageOK, PageFields, Disconnected
<1>1. CASE flow[f].at \in {"eligibility", "refresh"}
  <2>1. Ends(f, EligibilityUnknown(f))
    BY <1>1 DEF AwaitFails
  <2> QED
    BY <1>0, <2>1, EndMoves
<1> DEFINE asks == flow[f].kind = "mint" /\ flow[f].at \in Asking
<1>2. CASE flow[f].at \notin {"eligibility", "refresh"} /\ asks
  <2>1. ProofFails(f)
    BY <1>2 DEF AwaitFails, Asking
  <2>2. At(f, "mint", flow[f].at) /\ flow[f].at \in Asking
    BY <1>2 DEF At
  <2>3. CASE flow[f].at \in {"challenge", "verify"}
    <3>1. PICK t \in {page.token, None} : Throws(f, [page EXCEPT !.token = t])
      BY <2>1, <2>3 DEF ProofFails
    <3>2. PageOK([page EXCEPT !.token = t])
      BY <1>0 DEF PageOK, PageFields, Disconnected
    <3> QED
      BY <2>2, <3>1, <3>2, ThrowsMoves
  <2>4. CASE flow[f].at = "post" /\ flow[f].for # "pay"
    <3>1. PICK again \in BOOLEAN : Ends(f, [Failed(f) EXCEPT !.retry = again])
      BY <2>1, <2>4 DEF ProofFails
    <3>2. PageOK([Failed(f) EXCEPT !.retry = again])
      BY <1>0 DEF PageOK, PageFields, Disconnected
    <3> QED
      BY <3>1, <3>2, EndMoves
  <2>5. CASE ~(flow[f].at \in {"challenge", "verify"}) /\ ~(flow[f].at = "post" /\ flow[f].for # "pay")
    <3>1. Throws(f, page)
      BY <2>1, <2>5 DEF ProofFails
    <3> QED
      BY <1>0, <2>2, <3>1, ThrowsMoves
  <2> QED
    BY <2>3, <2>4, <2>5
<1>3. CASE flow[f].at \notin {"eligibility", "refresh"} /\ ~asks
  <2> DEFINE r == [kind |-> "connect", at |-> "status"]
             p == [Failed(f) EXCEPT !.smartAccount = None, !.deployed = FALSE]
  <2>1. \/ Goes(f, r) /\ UNCHANGED page
        \/ Ends(f, p)
        \/ Ends(f, Failed(f))
    BY <1>3 DEF AwaitFails, Asking
  <2>2. FlowOK(r, issued')
    BY PlainConnectOK
  <2>3. PageOK(p)
    BY <1>0 DEF PageOK, PageFields, Disconnected
  <2> QED
    BY <1>0, <2>1, <2>2, <2>3, GoMoves, EndMoves
<1> QED
  BY <1>1, <1>2, <1>3

-----------------------------------------------------------------------------
(* The steps that the server and the chain take.                           *)

LEMMA QuietServer ==
    ASSUME PageInv, UNCHANGED <<serverVars, chainVars>> PROVE ServerOK' /\ ChainOK'
  BY DEF PageInv, ServerOK, ChainOK, AdriftOK, serverVars, chainVars

LEMMA PostMintProofKeeps ==
    ASSUME PageInv, NEW f \in Flows, PostMintProof(f)
    PROVE  Moves(f) /\ issued \subseteq issued' /\ ServerOK' /\ ChainOK'
<1> DEFINE body == flow[f].sent
           claim == [id |-> Cardinality(issued), claim |-> body]
<1>1. /\ At(f, "mint", "post") /\ MintToMatches(body) /\ slotsLeft > 0
      /\ slotsLeft' = slotsLeft - 1 /\ issued' = issued \cup {claim}
      /\ Goes(f, Merge(flow[f], [at |-> "granted", proof |-> claim]))
      /\ UNCHANGED <<page, chainVars>>
  BY DEF PostMintProof, Posts
<1>2. ServerOK /\ ChainOK /\ PageOK(page)
  BY DEF PageInv
<1>3. PICK c : c = Cardinality(issued)
  OBVIOUS
<1>4. c \in Nat /\ c = Slots - slotsLeft /\ IsFiniteSet(issued) /\ slotsLeft \in 0 .. Slots
  BY <1>2, <1>3, FS_CardinalityType DEF ServerOK
<1>5. claim.id = c /\ claim.claim = body
  BY <1>3
<1>6. claim \notin issued
  BY <1>2, <1>3, <1>4, <1>5 DEF ServerOK
<1>7. IsFiniteSet(issued') /\ Cardinality(issued') = c + 1
  BY <1>1, <1>3, <1>4, <1>6, FS_AddElement
<1>8. ServerOK'
  <2>1. slotsLeft' \in 0 .. Slots /\ c + 1 = Slots - slotsLeft'
    BY <1>1, <1>4, PageAssumption
  <2>2. ASSUME NEW p \in issued'
        PROVE  p.id \in Nat /\ p.id < Cardinality(issued') /\ MintToMatches(p.claim)
    <3>1. CASE p = claim
      BY <1>1, <1>4, <1>5, <1>7, <3>1
    <3>2. CASE p \in issued
      <4>1. p.id \in Nat /\ p.id < c /\ MintToMatches(p.claim)
        BY <1>2, <1>3, <3>2 DEF ServerOK
      <4> QED
        BY <1>4, <1>7, <4>1
    <3> QED
      BY <1>1, <2>2, <3>1, <3>2
  <2>3. \A p \in issued' : p.id \in Nat /\ p.id < Cardinality(issued') /\ MintToMatches(p.claim)'
    BY <2>2 DEF MintToMatches, SmartAccountOf
  <2> QED
    BY <1>7, <2>1, <2>3 DEF ServerOK
<1>9. Moves(f)
  <2> DEFINE s == [at |-> "granted", proof |-> claim]
  <2>1. PICK n : n = Merge(flow[f], s)
    OBVIOUS
  <2>2. {"kind", "at", "for"} \subseteq DOMAIN n /\ n.kind = "mint" /\ n.at = "granted"
    BY <1>1, <2>1, FlowIsMint, MergeKeepsKind
  <2>3. HasAccount(flow[f])
    BY <1>1, FlowIsMint DEF MintOK, Asking
  <2>4. "to" \in DOMAIN n /\ n.to = flow[f].to
    BY <2>1, <2>3 DEF Merge, HasAccount
  <2>5. "proof" \in DOMAIN n /\ n.proof = claim
    BY <2>1 DEF Merge
  <2>6. HasAccount(n) /\ HasProof(n, issued')
    BY <1>1, <2>3, <2>4, <2>5 DEF HasAccount, HasProof
  <2>7. FlowOK(n, issued')
    BY <2>2, <2>6 DEF FlowOK, MintOK, Asking, Holding, Sending
  <2> QED
    BY <1>1, <1>2, <2>1, <2>7, GoMoves
<1>10. ChainOK'
  <2>1. issued \subseteq issued' /\ AdriftOK
    BY <1>1, <1>2 DEF ChainOK
  <2>2. AdriftOK'
    BY <1>1, <2>1, MoreProofsOK DEF AdriftOK, chainVars
  <2> QED
    BY <1>1, <1>2, <2>1, <2>2 DEF ChainOK, chainVars
<1> QED
  BY <1>1, <1>8, <1>9, <1>10

LEMMA CreationMinedKeeps ==
    ASSUME PageInv, NEW f \in Flows, CreationMined(f)
    PROVE  Moves(f) /\ issued' = issued /\ ServerOK' /\ ChainOK'
<1>0. PageOK(page) /\ PageOK(Failed(f)) /\ ServerOK /\ ChainOK
  BY FailedOK DEF PageInv
<1>1. /\ At(f, "mint", "creating") /\ issued' = issued
      /\ UNCHANGED <<serverVars, tokens, totalSupply, adrift>>
  BY DEF CreationMined, serverVars
<1>2. HasAccount(flow[f]) /\ HasProof(flow[f], issued) /\ flow[f].init.account \in SmartAccounts
  BY <1>1, FlowIsMint DEF MintOK, Holding
<1>3. CASE CreatesAccount(flow[f].init)
  <2>1. /\ deployed' = deployed \cup {flow[f].init.account}
        /\ Goes(f, Merge(flow[f], [at |-> "created"])) /\ UNCHANGED page
    BY <1>3 DEF CreationMined
  <2>2. FlowOK(Merge(flow[f], [at |-> "created"]), issued)
    BY <1>1, <1>2, GoesOnOK DEF Asking, Holding, Sending
  <2> QED
    BY <1>0, <1>1, <1>2, <2>1, <2>2, GoMoves DEF ServerOK, ChainOK, AdriftOK, serverVars
<1>4. CASE ~CreatesAccount(flow[f].init)
  <2>1. Ends(f, Failed(f)) /\ deployed' = deployed
    BY <1>4 DEF CreationMined
  <2> QED
    BY <1>0, <1>1, <2>1, EndMoves DEF ServerOK, ChainOK, AdriftOK, serverVars
<1> QED
  BY <1>3, <1>4

(* What a mint that lands leaves on the chain. *)
LEMMA LandsKeeps ==
    ASSUME PageInv, NEW r, HasOp(r, issued), Mints(r), Lands(r)
    PROVE  /\ tokens' \subseteq issued /\ deployed' \subseteq SmartAccounts
           /\ totalSupply' \in 0 .. MaxSupply /\ Cardinality(tokens') <= totalSupply'
<1>1. ServerOK /\ ChainOK
  BY DEF PageInv
<1>2. r.op.proof \in issued \ tokens /\ r.op.sender \in SmartAccounts \cup {None}
  BY DEF HasOp, Mints, ProofAccepted
<1>3. tokens' = tokens \cup {r.op.proof} /\ totalSupply' = totalSupply + 1
  BY DEF Lands
<1>4. totalSupply \in 0 .. MaxSupply /\ totalSupply < MaxSupply
  BY <1>1 DEF Mints, ChainOK
<1>5. IsFiniteSet(tokens) /\ Cardinality(tokens) \in Nat
  BY <1>1, FS_Subset, FS_CardinalityType DEF ServerOK, ChainOK
<1>6. Cardinality(tokens') = Cardinality(tokens) + 1
  BY <1>2, <1>3, <1>5, FS_AddElement
<1>7. Cardinality(tokens) <= totalSupply
  BY <1>1 DEF ChainOK
<1>8. totalSupply' \in 0 .. MaxSupply /\ Cardinality(tokens') <= totalSupply'
  BY <1>3, <1>4, <1>5, <1>6, <1>7, PageAssumption
<1>9. deployed' \subseteq SmartAccounts
  BY <1>1, <1>2 DEF Lands, ChainOK
<1> QED
  BY <1>1, <1>2, <1>3, <1>8, <1>9 DEF ChainOK

LEMMA MinedKeeps ==
    ASSUME PageInv, NEW f \in Flows, Mined(f)
    PROVE  Moves(f) /\ issued' = issued /\ ServerOK' /\ ChainOK'
<1>0. PageOK(page) /\ ServerOK /\ ChainOK
  BY DEF PageInv
<1>1. /\ At(f, "mint", "submit") /\ UNCHANGED <<page, serverVars, adrift>> /\ issued' = issued
      /\ Mints(flow[f]) /\ Lands(flow[f]) /\ Goes(f, Mint("mined"))
  BY DEF Mined, serverVars
<1>2. HasOp(flow[f], issued)
  BY <1>1, FlowIsMint DEF MintOK, Sending
<1>3. ChainOK'
  BY <1>0, <1>1, <1>2, LandsKeeps DEF ChainOK, AdriftOK
<1>4. ServerOK'
  BY <1>0, <1>1 DEF ServerOK, serverVars
<1>5. FlowOK(Mint("mined"), issued')
  BY FreshMintOK DEF Asking, Holding, Sending
<1> QED
  BY <1>0, <1>1, <1>3, <1>4, <1>5, GoMoves

(* A submission the page had given up on, and the mints of others. *)
LEMMA MinedLateKeeps ==
    ASSUME PageInv, NEW r \in adrift, MinedLate(r) PROVE PageInv'
<1>0. /\ WalletOK /\ PageOK(page) /\ FlowsOK /\ ServerOK /\ ChainOK /\ AdriftOK
      /\ troubles \in 0 .. MaxTroubles
  BY DEF PageInv, ChainOK
<1>1. /\ UNCHANGED <<wallet, page, flow, serverVars, troubles>> /\ issued' = issued
      /\ adrift' \subseteq adrift
  BY DEF MinedLate, serverVars
<1>2. MintOK(r, issued)
  BY <1>0 DEF AdriftOK, FlowOK
<1>3. AdriftOK'
  BY <1>0, <1>1 DEF AdriftOK
<1>4. ChainOK'
  <2>1. CASE r.at = "creating" /\ deployed' = deployed \cup {r.init.account}
             /\ UNCHANGED <<nonce, tokens, totalSupply>>
    BY <1>0, <1>1, <1>2, <1>3, <2>1 DEF ChainOK, MintOK
  <2>2. CASE r.at = "submit" /\ Mints(r) /\ Lands(r)
    <3>1. HasOp(r, issued)
      BY <1>2, <2>2 DEF MintOK, Sending
    <3> QED
      BY <1>1, <1>3, <2>2, <3>1, LandsKeeps DEF ChainOK
  <2> QED
    BY <2>1, <2>2 DEF MinedLate
<1>5. ServerOK'
  BY <1>0, <1>1 DEF ServerOK, serverVars
<1>6. WalletOK' /\ PageOK(page') /\ FlowsOK'
  BY <1>0, <1>1 DEF WalletOK, FlowsOK
<1> QED
  BY <1>0, <1>1, <1>4, <1>5, <1>6 DEF PageInv

LEMMA OthersMintKeeps == ASSUME PageInv, OthersMint PROVE PageInv'
<1>0. /\ WalletOK /\ PageOK(page) /\ FlowsOK /\ ServerOK /\ ChainOK
      /\ troubles \in 0 .. MaxTroubles
  BY DEF PageInv
<1>1. /\ UNCHANGED <<wallet, page, flow, serverVars, deployed, tokens, adrift, troubles>>
      /\ issued' = issued /\ totalSupply < MaxSupply /\ totalSupply' = totalSupply + 1
  BY DEF OthersMint, serverVars
<1>2. totalSupply' \in 0 .. MaxSupply /\ Cardinality(tokens) <= totalSupply'
  <2>1. totalSupply \in 0 .. MaxSupply /\ Cardinality(tokens) <= totalSupply
    BY <1>0 DEF ChainOK
  <2>2. Cardinality(tokens) \in Nat
    BY <1>0, FS_Subset, FS_CardinalityType DEF ServerOK, ChainOK
  <2> QED
    BY <1>1, <2>1, <2>2, PageAssumption
<1>3. ChainOK' /\ ServerOK'
  BY <1>0, <1>1, <1>2 DEF ChainOK, AdriftOK, ServerOK, serverVars
<1>4. WalletOK' /\ PageOK(page') /\ FlowsOK'
  BY <1>0, <1>1 DEF WalletOK, FlowsOK
<1> QED
  BY <1>0, <1>1, <1>3, <1>4 DEF PageInv

-----------------------------------------------------------------------------
(* The invariant holds. *)

LEMMA InitPage == Init => PageInv
<1> SUFFICES ASSUME Init PROVE PageInv
  OBVIOUS
<1>1. PICK t \in Traits, direct \in BOOLEAN :
         page = Merge([Disconnected EXCEPT !.listening = TRUE],
                      [addresses |-> TRUE, selected |-> t, minting |-> FALSE, retry |-> FALSE,
                       direct |-> direct])
  BY DEF Init
<1>2. PageOK(page)
  <2> DEFINE d == [Disconnected EXCEPT !.listening = TRUE]
             k == [addresses |-> TRUE, selected |-> t, minting |-> FALSE, retry |-> FALSE,
                   direct |-> direct]
  <2>1. DOMAIN d = DOMAIN Disconnected
    BY DEF Disconnected
  <2>2. DOMAIN k = {"addresses", "selected", "minting", "retry", "direct"}
    OBVIOUS
  <2>3. DOMAIN page = PageFields
    BY <1>1, <2>1, <2>2 DEF Merge, PageFields
  <2>4. /\ page.address = None /\ page.signer = None /\ page.starkKey = None
        /\ page.smartAccount = None /\ page.token = None
    BY <1>1, <2>2 DEF Merge, Disconnected
  <2> QED
    BY <2>3, <2>4 DEF PageOK
<1>3. FlowsOK
  BY IdleOK DEF Init, FlowsOK
<1>4. ServerOK
  <2>1. issued = {} /\ slotsLeft = Slots
    BY DEF Init
  <2> QED
    BY <2>1, FS_EmptySet, PageAssumption DEF ServerOK
<1>5. ChainOK /\ WalletOK /\ troubles \in 0 .. MaxTroubles
  BY PageAssumption, FS_EmptySet DEF Init, ChainOK, AdriftOK, WalletOK
<1> QED
  BY <1>2, <1>3, <1>4, <1>5 DEF PageInv

(* What every step but PostMintProof, CreationMined and Mined does. *)
LEMMA QuietMoveKeeps ==
    ASSUME PageInv, NEW f \in Flows, Moves(f), Outside PROVE PageInv'
<1>1. issued' = issued /\ UNCHANGED <<serverVars, chainVars>> /\ wallet' = wallet
      /\ troubles' = troubles
  BY DEF Outside, serverVars
<1>2. PageOK(page') /\ FlowsOK'
  BY <1>1, MoveKeeps
<1>3. ServerOK' /\ ChainOK'
  BY <1>1, QuietServer
<1> QED
  BY <1>1, <1>2, <1>3 DEF PageInv, WalletOK

LEMMA MintStepKeeps == ASSUME PageInv, NEW f \in Flows, MintStep(f) PROVE PageInv'
<1>1. ASSUME Moves(f), issued \subseteq issued', ServerOK', ChainOK', UNCHANGED <<wallet, troubles>>
      PROVE  PageInv'
  <2>1. PageOK(page') /\ FlowsOK'
    BY <1>1, MoveKeeps
  <2> QED
    BY <1>1, <2>1 DEF PageInv, WalletOK
<1>2. CASE PostMintProof(f)
  <2>1. UNCHANGED <<wallet, troubles>>
    BY <1>2 DEF PostMintProof
  <2> QED
    BY <1>1, <1>2, <2>1, PostMintProofKeeps
<1>3. CASE CreationMined(f)
  <2>1. UNCHANGED <<wallet, troubles>>
    BY <1>3 DEF CreationMined
  <2> QED
    BY <1>1, <1>3, <2>1, CreationMinedKeeps
<1>4. CASE Mined(f)
  <2>1. UNCHANGED <<wallet, troubles>>
    BY <1>4 DEF Mined
  <2> QED
    BY <1>1, <1>4, <2>1, MinedKeeps
<1>5. CASE \/ EligibilityAnswered(f) \/ DoMint4337(f) \/ RequestMintProof(f)
           \/ CompatibilityAnswered(f)
  BY <1>5, ToTheBackendMoves, QuietMoveKeeps
<1>6. CASE ChallengeAnswered(f) \/ ChallengeSigned(f) \/ VerifyAnswered(f)
  BY <1>6, SignInMoves, QuietMoveKeeps
<1>7. CASE \/ MintProofRefused(f) \/ MintProofArrives(f) \/ RequestActionProof(f)
           \/ PostActionProof(f)
  BY <1>7, WithTheProofMoves, QuietMoveKeeps
<1>8. CASE \/ BuildMintUserOp(f) \/ AskSponsorship(f) \/ SelfPays(f) \/ SponsorshipAnswered(f)
           \/ SendUserOp(f) \/ CreateDirectly(f) \/ AccountCreated(f) \/ MintDirectly(f)
           \/ Reverts(f) \/ SentElsewhere(f)
  BY <1>8, ToTheChainMoves, QuietMoveKeeps
<1>9. CASE MintConfirmed(f) \/ Refresh(f) \/ MintDone(f)
  BY <1>9, AfterTheMintMoves, QuietMoveKeeps
<1> QED
  BY <1>2, <1>3, <1>4, <1>5, <1>6, <1>7, <1>8, <1>9 DEF MintStep

(* What is left: the user's clicks. *)
LEMMA ClickMintKeeps == ASSUME PageInv, NEW f \in Flows, ClickMint(f) PROVE PageInv'
<1>1. PageOK(page) /\ issued' = issued /\ UNCHANGED <<wallet, serverVars, chainVars>>
  BY DEF PageInv, ClickMint, serverVars
<1>2. troubles' \in 0 .. MaxTroubles
  <2>1. troubles \in 0 .. MaxTroubles
    BY DEF PageInv
  <2>2. CASE Others(f)
    BY <2>1, <2>2, PageAssumption DEF ClickMint
  <2>3. CASE ~Others(f)
    BY <2>1, <2>3, PageAssumption DEF ClickMint
  <2> QED
    BY <2>2, <2>3
<1>3. Moves(f)
  <2>1. CASE page.checked
    <3>1. PageOK(Begun(page))
      BY <1>1 DEF Begun, PageOK, PageFields, Disconnected
    <3>2. FlowOK(Mint("begun"), issued')
      BY FreshMintOK DEF Asking, Holding, Sending
    <3>3. Becomes(Begun(page)) /\ Goes(f, Mint("begun"))
      BY <2>1 DEF ClickMint
    <3> QED
      BY <3>1, <3>2, <3>3 DEF Moves
  <2>2. CASE ~page.checked
    <3>1. PageOK([page EXCEPT !.retry = FALSE])
      BY <1>1 DEF PageOK, PageFields, Disconnected
    <3>2. PICK n : n = Merge(Mint("eligibility"), [who |-> page.address])
      OBVIOUS
    <3>3. /\ DOMAIN n = {"kind", "at", "for", "create", "who"}
          /\ n.kind = "mint" /\ n.at = "eligibility"
      BY <3>2 DEF Merge, Mint
    <3>4. FlowOK(n, issued')
      BY <3>3 DEF FlowOK, MintOK, Asking, Holding, Sending
    <3>5. Becomes([page EXCEPT !.retry = FALSE]) /\ Goes(f, n)
      BY <2>2, <3>2 DEF ClickMint
    <3> QED
      BY <3>1, <3>4, <3>5 DEF Moves
  <2> QED
    BY <2>1, <2>2
<1>4. PageOK(page') /\ FlowsOK'
  BY <1>1, <1>3, MoveKeeps
<1>5. ServerOK' /\ ChainOK'
  BY <1>1, QuietServer
<1> QED
  BY <1>1, <1>2, <1>4, <1>5 DEF PageInv, WalletOK

LEMMA PageChangeKeeps ==
    ASSUME PageInv, NEW p, PageOK(p), Becomes(p), UNCHANGED flow, Outside PROVE PageInv'
<1>1. UNCHANGED <<wallet, flow, serverVars, chainVars, troubles>> /\ page' = p
  BY DEF Outside, Becomes
<1>2. ServerOK' /\ ChainOK'
  BY <1>1, QuietServer
<1>3. FlowsOK'
  BY <1>1 DEF PageInv, FlowsOK, serverVars
<1> QED
  BY <1>1, <1>2, <1>3 DEF PageInv, WalletOK

LEMMA TroubleKeeps == ASSUME PageInv, Trouble PROVE PageInv'
<1>0. PageOK(page) /\ WalletOK /\ troubles \in 0 .. MaxTroubles
  BY DEF PageInv
<1>1. troubles' \in 0 .. MaxTroubles
  BY <1>0, PageAssumption DEF Trouble
<1>2. ASSUME UNCHANGED serverVars, ChainOK', WalletOK',
             (\E f \in Flows : Moves(f)) \/ (PageOK(page') /\ UNCHANGED flow)
      PROVE  PageInv'
  <2>1. issued' = issued
    BY <1>2 DEF serverVars
  <2>2. PageOK(page') /\ FlowsOK'
    BY <1>2, <2>1, MoveKeeps DEF PageInv, FlowsOK
  <2>3. ServerOK'
    BY <1>2 DEF PageInv, ServerOK, serverVars
  <2> QED
    BY <1>1, <1>2, <2>2, <2>3 DEF PageInv
<1>3. ASSUME NEW f \in Flows, AwaitFails(f) PROVE PageInv'
  <2>1. /\ UNCHANGED <<wallet, serverVars, deployed, nonce, tokens, totalSupply>>
        /\ issued' = issued
        /\ \/ UNCHANGED adrift
           \/ flow[f].kind = "mint" /\ adrift' = adrift \cup {flow[f]}
    BY <1>3 DEF AwaitFails, serverVars
  <2>2. Moves(f)
    BY <1>3, <2>1, AwaitFailsMoves
  <2>3. WalletOK'
    BY <1>0, <2>1 DEF WalletOK
  <2>4. ChainOK /\ AdriftOK /\ FlowOK(flow[f], issued)
    BY DEF PageInv, ChainOK, FlowsOK
  <2>5. AdriftOK'
    BY <2>1, <2>4 DEF AdriftOK
  <2>6. ChainOK'
    BY <2>1, <2>4, <2>5 DEF ChainOK
  <2> QED
    BY <1>2, <2>1, <2>2, <2>3, <2>6
<1>4. ASSUME NEW a \in Accounts \cup {None}, AccountsChanged(a) PROVE PageInv'
  <2>1. UNCHANGED serverVars /\ ChainOK'
    BY <1>4, QuietServer DEF AccountsChanged
  <2>2. WalletOK'
    BY <1>0, <1>4 DEF AccountsChanged, WalletOK
  <2>3. CASE ~page.listening
    BY <1>0, <1>2, <1>4, <2>1, <2>2, <2>3 DEF AccountsChanged
  <2>4. CASE page.listening /\ a = None
    <3>1. page' = ClearWalletState(page) /\ UNCHANGED flow
      BY <1>4, <2>4 DEF AccountsChanged, Becomes
    <3> QED
      BY <1>0, <1>2, <2>1, <2>2, <3>1, ClearedOK
  <2>5. CASE page.listening /\ a # None
    BY <1>0, <1>2, <1>4, <2>1, <2>2, <2>5, StartsConnectMoves DEF AccountsChanged
  <2> QED
    BY <2>3, <2>4, <2>5
<1>5. ASSUME ChainChanged PROVE PageInv'
  <2>1. UNCHANGED serverVars /\ ChainOK'
    BY <1>5, QuietServer DEF ChainChanged
  <2>2. WalletOK'
    BY <1>0, <1>5 DEF ChainChanged, WalletOK
  <2> QED
    BY <1>0, <1>2, <1>5, <2>1, <2>2, StartsConnectMoves DEF ChainChanged
<1>6. ASSUME ProofExpires PROVE PageInv'
  <2>1. /\ UNCHANGED <<wallet, page, flow, serverVars, deployed, tokens, totalSupply, adrift>>
        /\ issued' = issued
    BY <1>6 DEF ProofExpires, serverVars
  <2>2. ChainOK' /\ WalletOK'
    BY <1>0, <2>1 DEF PageInv, ChainOK, AdriftOK, WalletOK
  <2> QED
    BY <1>0, <1>2, <2>1, <2>2
<1> QED
  BY <1>3, <1>4, <1>5, <1>6 DEF Trouble

LEMMA NextPage == PageInv /\ [Next]_vars => PageInv'
<1> SUFFICES ASSUME PageInv, [Next]_vars PROVE PageInv'
  OBVIOUS
<1>0. PageOK(page)
  BY DEF PageInv
<1>1. CASE ClickConnect \/ SwitchNetwork
  <2>1. StartsConnect(page) /\ Outside
    BY <1>1 DEF ClickConnect, SwitchNetwork
  <2> QED
    BY <1>0, <2>1, StartsConnectMoves, QuietMoveKeeps
<1>2. CASE Scroll
  <2>1. PageOK([page EXCEPT !.ready = TRUE, !.locked = TRUE])
    BY <1>0 DEF PageOK, PageFields, Disconnected
  <2> QED
    BY <1>2, <2>1, PageChangeKeeps DEF Scroll
<1>3. ASSUME NEW t \in Traits, SelectConfig(t) PROVE PageInv'
  <2>1. PageOK([page EXCEPT !.selected = t])
    BY <1>0 DEF PageOK, PageFields, Disconnected
  <2> QED
    BY <1>3, <2>1, PageChangeKeeps DEF SelectConfig
<1>4. ASSUME NEW f \in Flows, ClickMint(f) PROVE PageInv'
  BY <1>4, ClickMintKeeps
<1>5. ASSUME NEW f \in Flows, ConnectStep(f) PROVE PageInv'
  BY <1>5, ConnectStepMoves, QuietMoveKeeps
<1>6. ASSUME NEW f \in Flows, MintStep(f) PROVE PageInv'
  BY <1>6, MintStepKeeps
<1>7. CASE Trouble
  BY <1>7, TroubleKeeps
<1>8. CASE UNCHANGED vars
  <2>1. UNCHANGED <<wallet, page, flow, serverVars, chainVars, troubles>>
    BY <1>8 DEF vars
  <2> QED
    BY <1>0, <2>1, PageChangeKeeps DEF Outside, Becomes
<1>9. CASE OthersMint
  BY <1>9, OthersMintKeeps
<1>10. ASSUME NEW r \in adrift, MinedLate(r) PROVE PageInv'
  BY <1>10, MinedLateKeeps
<1> QED
  BY <1>1, <1>2, <1>3, <1>4, <1>5, <1>6, <1>7, <1>8, <1>9, <1>10 DEF Next

LEMMA AlwaysPageInv == Spec => []PageInv
  BY InitPage, NextPage, PTL DEF Spec

-----------------------------------------------------------------------------
(* Signer and address always belong together, however the connects of      *)
(* several accounts interleave; the slots left and the proofs signed       *)
(* always make up the allowance; every token's proof is one the server     *)
(* signed.                                                                 *)
THEOREM PageTypeCorrect == Spec => []PageTypeOK
<1>1. PageInv => PageTypeOK
  BY PageAssumption DEF PageInv, PageOK, ServerOK, ChainOK, PageTypeOK
<1> QED
  BY <1>1, AlwaysPageInv, PTL

(* The sign-in that the page keeps for its next request is the session of  *)
(* the wallet it is filed under, though ensureBackendAuthToken awaits      *)
(* three answers while other flows and the wallet change the page.         *)
THEOREM CachedTokenSafe == Spec => []CachedTokenIsItsRecipients
<1>1. PageInv => CachedTokenIsItsRecipients
  BY DEF PageInv, PageOK, CachedTokenIsItsRecipients
<1> QED
  BY <1>1, AlwaysPageInv, PTL

(* Every token lands in the smart account of the recipient its proof       *)
(* names, whatever mixture of one wallet's address and another's key or    *)
(* smart account the page held while it minted.                            *)
THEOREM TokensOwned == Spec => []TokensReachTheirOwner
<1>1. PageInv => TokensReachTheirOwner
  BY DEF PageInv, ServerOK, ChainOK, MintToMatches, TokensReachTheirOwner
<1> QED
  BY <1>1, AlwaysPageInv, PTL

-----------------------------------------------------------------------------
(* While nothing goes wrong: one mint flow, alone on the page, and         *)
(* whatever it has read and asked for belongs to the one account that the  *)
(* wallet has; so no check after the grant can fail.                       *)

W == wallet.account
Own == SmartAccountOf(W)

(* The proofs that would still buy a token: the flow that holds one holds  *)
(* the only one.                                                           *)
Unspent == {p \in issued \ tokens : CouldMint(p)}
HeldOnly(proof) == proof \notin tokens /\ Unspent \subseteq {proof}

Has(r, k, v) == k \in DOMAIN r /\ r[k] = v
Asks(r, purpose) == r.at \in Asking /\ r.for = purpose
Granted(r) == r.at \in Holding \cup Sending \/ (r.at \in Asking /\ r.for # "mint")

Claim(p) == [recipient |-> W, mintTo |-> Own, traits |-> p.selected]
Creation == [recipient |-> W, hash |-> Own]
InitCode == [account |-> Own, proof |-> Creation]

CalmPage(p) ==
    /\ p.address \in {W, None} /\ p.starkKey \in {W, None} /\ p.smartAccount \in {Own, None}
    /\ p.ready => p.locked
    /\ p.network => wallet.right
    /\ expired = {} /\ adrift = {}

Loading == ~page.addresses => \E f \in Flows : At(f, "connect", "deployments")

CalmConnect(r) ==
    r.kind = "connect" => /\ r.at = "signer" => r.account = W
                          /\ r.at = "local" => r.ours = Own

CalmSignIn(r) ==
    /\ r.at \in {"challenge", "signing", "verify"} => Has(r, "challenged", W)
    /\ r.at \in {"signing", "verify"} => Has(r, "by", W)
    /\ r.at = "verify" => Has(r, "verified", W)
    /\ r.at = "post" => Has(r, "auth", W)

CalmAccount(r, p) ==
    /\ r.at \in {"code"} \cup Asking \cup Holding \cup Sending => r.to = Own /\ p.starkKey = W
    /\ r.at = "code" => Has(r, "there", Own \in deployed)
    /\ r.at \in Asking \cup (Holding \ {"created"}) \cup Sending =>
          (p.deployed <=> Own \in deployed)
    /\ r.at = "hash" => Has(r, "hash", Own)
    /\ Asks(r, "action") => Has(r, "sent", Creation)
    /\ r.at = "entryPoint" => p.deployed \/ Has(r, "create", Creation)
    /\ r.at = "creating" => Has(r, "init", InitCode)

CalmClaim(r, p) ==
    /\ Asks(r, "mint") => Has(r, "sent", Claim(p))
    /\ r.at \in Holding \ {"granted"} \/ Asks(r, "action") => Has(r, "traits", p.selected)
    /\ IF Granted(r) THEN r.proof.claim = Claim(p) /\ HeldOnly(r.proof) ELSE Unspent = {}

CalmOp(r, p) ==
    r.at \in Sending \/ Asks(r, "pay") =>
        /\ r.op.mint = Claim(p) /\ r.op.proof = r.proof /\ r.op.sender \in {Own, None}
        /\ r.op.sender # None =>
              /\ r.op.nonce = nonce[Own] /\ (Own \in deployed \/ r.op.init = InitCode)
              /\ r.at \in {"sign", "submit"} => Has(r, "by", W)

CalmMint(r, p) ==
    /\ p.address = W /\ W \in Accounts /\ p.network
    /\ r.at \in {"mined", "confirmed", "refresh"} \/ p.locked
    /\ CalmSignIn(r) /\ CalmAccount(r, p) /\ CalmClaim(r, p) /\ CalmOp(r, p)

Alone(f) == \A g \in Flows \ {f} : flow[g] = Idle

CalmFlows ==
    /\ \A f \in Flows : /\ flow[f].kind \in {"connect", "mint"} \/ flow[f] = Idle
                        /\ CalmConnect(flow[f])
                        /\ flow[f].kind = "mint" => Alone(f) /\ CalmMint(flow[f], page)
    /\ (\A f \in Flows : flow[f].kind # "mint") => Unspent = {}

CalmInv == troubles = 0 => CalmPage(page) /\ Loading /\ CalmFlows

LEMMA MergeHas ==
    ASSUME NEW r, NEW s, NEW k, NEW v
    PROVE  /\ Has(r, k, v) /\ k \notin DOMAIN s => Has(Merge(r, s), k, v)
           /\ k \in DOMAIN s => Has(Merge(r, s), k, s[k])
  BY MergeIs DEF Has, Merge

(* Everything the calm argument reads and a quiet step leaves alone. *)
LEMMA CalmStays ==
    ASSUME UNCHANGED <<wallet, deployed, nonce, issued, tokens, expired, adrift>>,
           Unspent' \subseteq Unspent, NEW r, NEW p
    PROVE  /\ CalmPage(p) => CalmPage(p)'
           /\ CalmConnect(r) => CalmConnect(r)'
           /\ CalmMint(r, p) => CalmMint(r, p)'
<1>1. W' = W /\ Own' = Own /\ Creation' = Creation /\ InitCode' = InitCode /\ Claim(p)' = Claim(p)
  BY DEF W, Own, SmartAccountOf, Creation, InitCode, Claim
<1>2. CalmPage(p) => CalmPage(p)'
  BY <1>1 DEF CalmPage
<1>3. CalmConnect(r) => CalmConnect(r)'
  BY <1>1 DEF CalmConnect
<1>4. CalmMint(r, p) => CalmMint(r, p)'
  <2>1. CalmSignIn(r) => CalmSignIn(r)'
    BY <1>1 DEF CalmSignIn, Has
  <2>2. CalmAccount(r, p) => CalmAccount(r, p)'
    BY <1>1 DEF CalmAccount, Has, Asks
  <2>3. /\ HeldOnly(r.proof) => HeldOnly(r.proof)'
        /\ Unspent = {} => Unspent' = {}
    BY DEF HeldOnly
  <2>4. CalmClaim(r, p) => CalmClaim(r, p)'
    BY <1>1, <2>3 DEF CalmClaim, Has, Asks, Granted
  <2>5. CalmOp(r, p) => CalmOp(r, p)'
    BY <1>1 DEF CalmOp, Has, Asks
  <2> QED
    BY <1>1, <2>1, <2>2, <2>4, <2>5 DEF CalmMint
<1> QED
  BY <1>2, <1>3, <1>4

LEMMA QuietCalm ==
    ASSUME UNCHANGED <<wallet, deployed, nonce, issued, tokens, totalSupply, expired, adrift>>,
           NEW r, NEW p
    PROVE  /\ CalmPage(p) => CalmPage(p)'
           /\ CalmConnect(r) => CalmConnect(r)'
           /\ CalmMint(r, p) => CalmMint(r, p)'
           /\ Unspent' = Unspent
<1>1. Unspent' = Unspent
  BY DEF Unspent, CouldMint
<1> QED
  BY <1>1, CalmStays

LEMMA CalmMintIs ==
    ASSUME PageInv, CalmInv, troubles = 0, NEW f \in Flows, flow[f].kind = "mint"
    PROVE  /\ CalmMint(flow[f], page) /\ CalmPage(page) /\ Alone(f)
           /\ page.addresses /\ page.address = W /\ page.signer = W /\ W # None
<1>1. CalmMint(flow[f], page) /\ CalmPage(page) /\ Alone(f) /\ Loading
  BY DEF CalmInv, CalmFlows
<1>2. page.address = W /\ W # None /\ page.signer = W
  BY <1>1, NoneIsNoAccount DEF CalmMint, PageInv, PageOK
<1>3. ~ \E g \in Flows : At(g, "connect", "deployments")
  BY <1>1 DEF Alone, At, Idle
<1> QED
  BY <1>1, <1>2, <1>3 DEF Loading

(* The one mint goes on... *)
LEMMA CalmMintGoesOn ==
    ASSUME PageInv, NEW f \in Flows, Alone(f), NEW r, NEW p, Goes(f, r), Becomes(p),
           r.kind = "mint", p.addresses, CalmPage(p)', CalmMint(r, p)'
    PROVE  CalmInv'
<1>1. flow'[f] = r /\ page' = p /\ \A g \in Flows \ {f} : flow'[g] = Idle
  BY DEF Goes, Becomes, PageInv, FlowsOK, Alone
<1>2. CalmPage(page)'
  BY <1>1
<1>3. Loading'
  BY <1>1 DEF Loading
<1>4. Alone(f)'
  BY <1>1 DEF Alone
<1>5. CalmMint(flow[f], page)'
  BY <1>1
<1>6. ASSUME NEW g \in Flows
      PROVE  /\ flow'[g].kind \in {"connect", "mint"} \/ flow'[g] = Idle
             /\ CalmConnect(flow[g])'
             /\ flow'[g].kind = "mint" => Alone(g)' /\ CalmMint(flow[g], page)'
  <2>1. CASE g = f
    BY <1>1, <1>4, <1>5, <2>1 DEF CalmConnect
  <2>2. CASE g # f
    BY <1>1, <2>2 DEF CalmConnect, Idle
  <2> QED
    BY <2>1, <2>2
<1>7. flow'[f].kind = "mint"
  BY <1>1
<1>8. CalmFlows'
  BY <1>6, <1>7 DEF CalmFlows
<1> QED
  BY <1>2, <1>3, <1>8 DEF CalmInv

(* ... until it ends. *)
LEMMA CalmMintEnds ==
    ASSUME PageInv, NEW f \in Flows, Alone(f), NEW p, Ends(f, p), p.addresses, CalmPage(p)',
           Unspent' = {}
    PROVE  CalmInv'
<1>1. page' = p /\ \A g \in Flows : flow'[g] = Idle
  BY DEF Ends, Goes, Becomes, PageInv, FlowsOK, Alone
<1>2. CalmPage(page)' /\ Loading'
  BY <1>1 DEF Loading
<1>3. CalmFlows'
  BY <1>1 DEF CalmFlows, CalmConnect, Idle
<1> QED
  BY <1>2, <1>3 DEF CalmInv

LEMMA CarriedOn ==
    ASSUME PageInv, NEW f \in Flows, NEW place, At(f, "mint", place),
           NEW s, "kind" \notin DOMAIN s, "for" \notin DOMAIN s, "at" \in DOMAIN s,
           DOMAIN s \cap {"to", "proof", "op"} = {}, NEW n, n = Merge(flow[f], s)
    PROVE  /\ n.kind = "mint" /\ n.at = s.at /\ n.for = flow[f].for
           /\ HasAccount(flow[f]) => n.to = flow[f].to
           /\ HasProof(flow[f], issued) => n.proof = flow[f].proof
           /\ HasOp(flow[f], issued) => n.op = flow[f].op
<1>1. {"kind", "at", "for"} \subseteq DOMAIN flow[f] /\ flow[f].kind = "mint"
  BY FlowIsMint
<1>2. n.kind = "mint" /\ n.at = s.at /\ n.for = flow[f].for
  BY <1>1, MergeKeepsKind
<1>3. HasAccount(flow[f]) => n.to = flow[f].to
  BY DEF Merge, HasAccount
<1>4. HasProof(flow[f], issued) => n.proof = flow[f].proof
  BY DEF Merge, HasProof
<1>5. HasOp(flow[f], issued) => n.op = flow[f].op
  BY DEF Merge, HasOp
<1> QED
  BY <1>2, <1>3, <1>4, <1>5

LEMMA CalmFailed ==
    ASSUME PageInv, CalmPage(page), NEW f
    PROVE  CalmPage(Failed(f)) /\ Failed(f).addresses = page.addresses
  BY DEF CalmPage, Failed, PageInv, PageOK, PageFields, Disconnected

LEMMA CalmToTheBackend ==
    ASSUME PageInv, CalmInv, troubles = 0, NEW f \in Flows,
           EligibilityAnswered(f) \/ DoMint4337(f) \/ RequestMintProof(f)
    PROVE  CalmInv'
<1>0. UNCHANGED <<wallet, deployed, nonce, issued, tokens, totalSupply, expired, adrift>>
  BY DEF EligibilityAnswered, DoMint4337, RequestMintProof, Outside, serverVars, chainVars
<1>1. /\ flow[f].kind = "mint" /\ flow[f].at \in {"eligibility", "begun", "code"}
      /\ {"kind", "at", "for"} \subseteq DOMAIN flow[f]
      /\ flow[f].at = "code" => flow[f].for = "mint" /\ HasAccount(flow[f])
  BY FlowIsMint DEF EligibilityAnswered, DoMint4337, RequestMintProof, At, MintOK
<1>2. /\ CalmMint(flow[f], page) /\ CalmPage(page) /\ Alone(f)
      /\ page.addresses /\ page.address = W /\ page.signer = W /\ W # None
  BY <1>1, CalmMintIs
<1>3. Unspent = {} /\ W \in Accounts /\ page.network /\ page.locked
  BY <1>1, <1>2 DEF CalmMint, CalmClaim, Granted, Asking, Holding, Sending
<1>4. DOMAIN page = PageFields /\ CalmPage(Failed(f)) /\ Failed(f).addresses
  BY <1>2, CalmFailed DEF PageInv, PageOK
<1>5. ASSUME NEW p, CalmPage(p), p.addresses, Ends(f, p) PROVE CalmInv'
  BY <1>0, <1>2, <1>3, <1>5, QuietCalm, CalmMintEnds
<1>6. ASSUME NEW p, CalmPage(p), p.addresses, NEW r, CalmMint(r, p), r.kind = "mint",
             Goes(f, r), Becomes(p)
      PROVE  CalmInv'
  BY <1>0, <1>2, <1>6, QuietCalm, CalmMintGoesOn
<1>7. CASE EligibilityAnswered(f)
  <2> DEFINE p == Begun(Learned(flow[f].who))
  <2>1. /\ CalmPage(p) /\ p.addresses /\ p.address = W /\ p.network /\ p.locked
        /\ CalmPage(Learned(flow[f].who)) /\ Learned(flow[f].who).addresses
    BY <1>2, <1>3, <1>4 DEF Begun, Learned, CalmPage, PageFields, Disconnected
  <2>2. Mint("begun").kind = "mint" /\ Mint("begun").at = "begun"
    BY DEF Mint
  <2>3. CalmMint(Mint("begun"), p)
    BY <1>3, <2>1, <2>2
       DEF CalmMint, CalmSignIn, CalmAccount, CalmClaim, CalmOp, Granted, Asks, Asking, Holding,
           Sending
  <2> QED
    BY <1>5, <1>6, <1>7, <2>1, <2>2, <2>3 DEF EligibilityAnswered
<1>8. CASE DoMint4337(f)
  <2>1. CASE page.smartAccount = None \/ page.starkKey = None
    BY <1>4, <1>5, <1>8, <2>1 DEF DoMint4337
  <2>2. CASE ~(page.smartAccount = None \/ page.starkKey = None)
    <3>0. page.smartAccount = Own /\ page.starkKey = W
      BY <1>2, <2>2 DEF CalmPage
    <3> DEFINE s == [to |-> page.smartAccount, there |-> page.smartAccount \in deployed]
    <3>1. PICK n : n = Merge(Mint("code"), s)
      OBVIOUS
    <3>2. /\ n.kind = "mint" /\ n.at = "code" /\ n.to = Own
          /\ Has(n, "there", Own \in deployed)
      BY <3>0, <3>1 DEF Merge, Mint, Has
    <3>3. CalmMint(n, page)
      BY <1>2, <1>3, <3>0, <3>2
         DEF CalmMint, CalmSignIn, CalmAccount, CalmClaim, CalmOp, Granted, Asks, Asking, Holding,
             Sending
    <3>4. Goes(f, n) /\ Becomes(page)
      BY <1>8, <2>2, <3>1 DEF DoMint4337, Becomes
    <3> QED
      BY <1>2, <1>6, <3>2, <3>3, <3>4
  <2> QED
    BY <2>1, <2>2
<1>9. CASE RequestMintProof(f)
  <2>0. At(f, "mint", "code") /\ flow[f].at = "code"
    BY <1>9 DEF RequestMintProof, At
  <2>1. flow[f].to = Own /\ page.starkKey = W /\ flow[f].there = (Own \in deployed)
    BY <1>2, <2>0 DEF CalmMint, CalmAccount, Has
  <2> DEFINE p == [page EXCEPT !.deployed = flow[f].there]
             s == [at |-> "compatible",
                   sent |-> [recipient |-> page.address, mintTo |-> flow[f].to,
                             traits |-> page.selected]]
  <2>2. Becomes(p) /\ Goes(f, Merge(flow[f], s))
    BY <1>2, <1>9 DEF RequestMintProof
  <2>3. PICK n : n = Merge(flow[f], s)
    OBVIOUS
  <2>4. n.kind = "mint" /\ n.at = "compatible" /\ n.for = "mint" /\ n.to = Own
    BY <1>1, <2>0, <2>1, <2>3, CarriedOn
  <2>5. /\ CalmPage(p) /\ p.addresses /\ p.address = W /\ p.network /\ p.locked
        /\ p.starkKey = W /\ p.deployed = (Own \in deployed) /\ p.selected = page.selected
    BY <1>2, <1>3, <1>4, <2>1 DEF CalmPage, PageFields, Disconnected
  <2>6. Has(n, "sent", Claim(p))
    BY <1>2, <2>1, <2>3, <2>5, MergeHas DEF Claim
  <2>7. CalmMint(n, p)
    BY <1>3, <2>4, <2>5, <2>6
       DEF CalmMint, CalmSignIn, CalmAccount, CalmClaim, CalmOp, Granted, Asks, Asking, Holding,
           Sending
  <2> QED
    BY <1>6, <2>2, <2>3, <2>4, <2>5, <2>7
<1> QED
  BY <1>7, <1>8, <1>9

(* ensureBackendAuthToken finds the session of the one account, or starts  *)
(* a sign-in for it.                                                       *)
LEMMA CalmAskToken ==
    ASSUME PageInv, CalmInv, troubles = 0, NEW f \in Flows, flow[f].kind = "mint", page.locked,
           NEW q, {"kind", "at", "for"} \subseteq DOMAIN q, q.kind = "mint",
           HasAccount(q), q.for # "mint" => HasProof(q, issued),
           q.for = "pay" => HasOp(q, issued),
           q.to = Own, page.starkKey = W, page.deployed <=> Own \in deployed,
           q.for = "mint" => Has(q, "sent", Claim(page)) /\ Unspent = {},
           q.for # "mint" => q.proof.claim = Claim(page) /\ HeldOnly(q.proof),
           q.for = "action" => Has(q, "sent", Creation) /\ Has(q, "traits", page.selected),
           q.for = "pay" =>
               /\ q.op.mint = Claim(page) /\ q.op.proof = q.proof /\ q.op.sender \in {Own, None}
               /\ q.op.sender # None =>
                    q.op.nonce = nonce[Own] /\ (Own \in deployed \/ q.op.init = InitCode),
           AskToken(f, q), Outside
    PROVE  CalmInv'
<1>0. UNCHANGED <<wallet, deployed, nonce, issued, tokens, totalSupply, expired, adrift>>
  BY DEF Outside, serverVars, chainVars
<1>1. /\ CalmMint(flow[f], page) /\ CalmPage(page) /\ Alone(f)
      /\ page.addresses /\ page.address = W /\ page.signer = W /\ W # None
  BY CalmMintIs
<1>2. W \in Accounts /\ page.network
  BY <1>1 DEF CalmMint
<1>3. ASSUME NEW s, "kind" \notin DOMAIN s, "for" \notin DOMAIN s, "at" \in DOMAIN s,
             DOMAIN s \cap {"to", "proof", "op", "sent", "traits"} = {},
             \/ s.at = "post" /\ "auth" \in DOMAIN s /\ s["auth"] = W
             \/ s.at = "challenge" /\ "challenged" \in DOMAIN s /\ s["challenged"] = W,
             Goes(f, Merge(q, s)), UNCHANGED page
      PROVE  CalmInv'
  <2>1. PICK n : n = Merge(q, s)
    OBVIOUS
  <2>2. n.kind = "mint" /\ n.at = s.at /\ n.for = q.for
    BY <1>3, <2>1, MergeKeepsKind
  <2>3. n.to = Own
    BY <1>3, <2>1 DEF Merge, HasAccount
  <2>4. q.for # "mint" => n.proof = q.proof
    BY <1>3, <2>1 DEF Merge, HasProof
  <2>5. q.for = "pay" => n.op = q.op
    BY <1>3, <2>1 DEF Merge, HasOp
  <2>6. "sent" \notin DOMAIN s /\ "traits" \notin DOMAIN s
    BY <1>3
  <2>7. /\ q.for = "mint" => Has(n, "sent", Claim(page))
        /\ q.for = "action" => Has(n, "sent", Creation) /\ Has(n, "traits", page.selected)
    BY <2>1, <2>6, MergeHas
  <2>8. \/ n.at = "post" /\ Has(n, "auth", W)
        \/ n.at = "challenge" /\ Has(n, "challenged", W)
    BY <1>3, <2>1, <2>2, MergeHas
  <2>9. CalmSignIn(n)
    BY <2>8 DEF CalmSignIn
  <2>10. CalmAccount(n, page)
    BY <2>2, <2>3, <2>7, <2>8 DEF CalmAccount, Asks, Asking, Holding, Sending
  <2>11. CalmClaim(n, page)
    BY <2>2, <2>4, <2>7, <2>8 DEF CalmClaim, Asks, Granted, Asking, Holding, Sending
  <2>12. CalmOp(n, page)
    BY <2>2, <2>4, <2>5, <2>8 DEF CalmOp, Asks, Asking, Holding, Sending
  <2>13. CalmMint(n, page)
    BY <1>1, <1>2, <2>9, <2>10, <2>11, <2>12 DEF CalmMint
  <2>14. Becomes(page) /\ Goes(f, n)
    BY <1>3, <2>1 DEF Becomes
  <2> QED
    BY <1>0, <1>1, <2>2, <2>13, <2>14, QuietCalm, CalmMintGoesOn
<1>4. CASE page.token # None /\ page.token.recipient = page.address
  <2> DEFINE s == [at |-> "post", auth |-> page.token.of]
  <2>1. page.token.of = W
    BY <1>1, <1>4 DEF PageInv, PageOK
  <2>2. Goes(f, Merge(q, s)) /\ UNCHANGED page
    BY <1>1, <1>4 DEF AskToken
  <2> QED
    BY <1>3, <2>1, <2>2
<1>5. CASE ~(page.token # None /\ page.token.recipient = page.address)
  <2> DEFINE s == [at |-> "challenge", current |-> page.address, challenged |-> page.address]
  <2>1. Goes(f, Merge(q, s)) /\ UNCHANGED page
    BY <1>1, <1>5 DEF AskToken
  <2> QED
    BY <1>1, <1>3, <2>1
<1> QED
  BY <1>4, <1>5

LEMMA CalmSign ==
    ASSUME PageInv, CalmInv, troubles = 0, NEW f \in Flows, NEW place, At(f, "mint", place),
           place = "built" \/ (place \in Asking /\ flow[f].for = "pay"), Sign(f, page), Outside
    PROVE  CalmInv'
<1>0. UNCHANGED <<wallet, deployed, nonce, issued, tokens, totalSupply, expired, adrift>>
  BY DEF Outside, serverVars, chainVars
<1>1. /\ CalmMint(flow[f], page) /\ CalmPage(page) /\ Alone(f)
      /\ page.addresses /\ page.address = W /\ page.signer = W /\ W # None
  BY CalmMintIs DEF At
<1>2. /\ HasAccount(flow[f]) /\ HasProof(flow[f], issued) /\ HasOp(flow[f], issued)
      /\ flow[f].at = place
  BY FlowIsMint DEF MintOK, Sending, At
<1> DEFINE s == [at |-> "sign", by |-> page.signer]
<1>3. PICK n : n = Merge(flow[f], s)
  OBVIOUS
<1>4. /\ n.kind = "mint" /\ n.at = "sign" /\ n.to = flow[f].to /\ n.proof = flow[f].proof
      /\ n.op = flow[f].op
  BY <1>2, <1>3, CarriedOn
<1>5. Has(n, "by", W)
  BY <1>1, <1>3, MergeHas
<1>6. /\ flow[f].to = Own /\ page.starkKey = W /\ (page.deployed <=> Own \in deployed)
      /\ flow[f].proof.claim = Claim(page) /\ HeldOnly(flow[f].proof)
      /\ flow[f].op.mint = Claim(page) /\ flow[f].op.proof = flow[f].proof
      /\ flow[f].op.sender \in {Own, None}
      /\ flow[f].op.sender # None =>
            flow[f].op.nonce = nonce[Own] /\ (Own \in deployed \/ flow[f].op.init = InitCode)
      /\ page.locked /\ W \in Accounts /\ page.network
  BY <1>1, <1>2
     DEF CalmMint, CalmAccount, CalmClaim, CalmOp, Asks, Granted, Asking, Holding, Sending
<1>7. CalmMint(n, page)
  BY <1>1, <1>4, <1>5, <1>6
     DEF CalmMint, CalmSignIn, CalmAccount, CalmClaim, CalmOp, Asks, Granted, Asking, Holding,
         Sending
<1>8. Goes(f, n) /\ Becomes(page)
  BY <1>1, <1>3 DEF Sign, Becomes
<1> QED
  BY <1>0, <1>1, <1>4, <1>7, <1>8, QuietCalm, CalmMintGoesOn

(* From one question of ensureBackendAuthToken to the next. *)
LEMMA CalmKeepsAsking ==
    ASSUME PageInv, CalmInv, troubles = 0, NEW f \in Flows, NEW place \in Asking,
           At(f, "mint", place),
           NEW s, "kind" \notin DOMAIN s, "for" \notin DOMAIN s, "at" \in DOMAIN s,
           DOMAIN s \cap {"to", "proof", "op", "sent", "traits"} = {}, s.at \in Asking,
           NEW n, n = Merge(flow[f], s), CalmSignIn(n),
           NEW p, p.address = page.address, p.starkKey = page.starkKey, p.network = page.network,
           p.locked = page.locked, p.deployed = page.deployed, p.selected = page.selected
    PROVE  n.kind = "mint" /\ CalmMint(n, p)
<1>1. CalmMint(flow[f], page) /\ page.address = W
  BY CalmMintIs DEF At
<1>2. /\ flow[f].at = place /\ HasAccount(flow[f])
      /\ flow[f].for # "mint" => HasProof(flow[f], issued)
      /\ flow[f].for = "pay" => HasOp(flow[f], issued)
  BY FlowIsMint DEF MintOK
<1>3. /\ n.kind = "mint" /\ n.at = s.at /\ n.for = flow[f].for /\ n.to = flow[f].to
      /\ flow[f].for # "mint" => n.proof = flow[f].proof
      /\ flow[f].for = "pay" => n.op = flow[f].op
  BY <1>2, CarriedOn
<1>4. /\ flow[f].to = Own /\ page.starkKey = W /\ (page.deployed <=> Own \in deployed)
      /\ flow[f].for = "action" => Has(flow[f], "sent", Creation)
  BY <1>1, <1>2 DEF CalmMint, CalmAccount, Asks
<1>5. /\ flow[f].for = "mint" => Has(flow[f], "sent", Claim(page)) /\ Unspent = {}
      /\ flow[f].for = "action" => Has(flow[f], "traits", page.selected)
      /\ flow[f].for # "mint" =>
            flow[f].proof.claim = Claim(page) /\ HeldOnly(flow[f].proof)
  BY <1>1, <1>2 DEF CalmMint, CalmClaim, Asks, Granted, Asking, Holding, Sending
<1>6. "sent" \notin DOMAIN s /\ "traits" \notin DOMAIN s
  OBVIOUS
<1>7. Claim(p) = Claim(page)
  BY DEF Claim
<1>8. CalmAccount(n, p)
  <2>1. flow[f].for = "action" => Has(n, "sent", Creation)
    BY <1>4, <1>6, MergeHas
  <2> QED
    BY <1>3, <1>4, <2>1 DEF CalmAccount, Asks, Asking, Holding, Sending
<1>9. CalmClaim(n, p)
  <2>1. /\ flow[f].for = "mint" => Has(n, "sent", Claim(p))
        /\ flow[f].for = "action" => Has(n, "traits", p.selected)
    BY <1>5, <1>6, <1>7, MergeHas
  <2> QED
    BY <1>3, <1>5, <1>7, <2>1 DEF CalmClaim, Asks, Granted, Asking, Holding, Sending
<1>10. CalmOp(n, p)
  BY <1>1, <1>2, <1>3, <1>7 DEF CalmMint, CalmOp, Asks, Asking, Holding, Sending
<1>11. W \in Accounts /\ page.network /\ page.locked
  BY <1>1, <1>2 DEF CalmMint, Asking
<1> QED
  BY <1>1, <1>3, <1>8, <1>9, <1>10, <1>11 DEF CalmMint

LEMMA CalmSignsIn ==
    ASSUME PageInv, CalmInv, troubles = 0, NEW f \in Flows,
           \/ CompatibilityAnswered(f) \/ ChallengeAnswered(f) \/ ChallengeSigned(f)
           \/ VerifyAnswered(f)
    PROVE  CalmInv'
<1>0. Outside /\ UNCHANGED <<wallet, deployed, nonce, issued, tokens, totalSupply, expired, adrift>>
  BY DEF CompatibilityAnswered, ChallengeAnswered, ChallengeSigned, VerifyAnswered, Outside,
         serverVars, chainVars
<1>1. PICK place \in Asking : At(f, "mint", place)
  BY DEF CompatibilityAnswered, ChallengeAnswered, ChallengeSigned, VerifyAnswered, Asking
<1>2. /\ CalmMint(flow[f], page) /\ CalmPage(page) /\ Alone(f)
      /\ page.addresses /\ page.address = W /\ page.signer = W /\ W # None
  BY <1>1, CalmMintIs DEF At
<1>3. ASSUME NEW r, r.kind = "mint", NEW p, Goes(f, r), Becomes(p), p.addresses, CalmPage(p),
             CalmMint(r, p)
      PROVE  CalmInv'
  BY <1>0, <1>2, <1>3, QuietCalm, CalmMintGoesOn
<1>4. CalmSignIn(flow[f])
  BY <1>2 DEF CalmMint
<1>5. CASE CompatibilityAnswered(f)
  <2>1. /\ {"kind", "at", "for"} \subseteq DOMAIN flow[f] /\ flow[f].kind = "mint"
        /\ flow[f].at = "compatible"
        /\ HasAccount(flow[f]) /\ (flow[f].for # "mint" => HasProof(flow[f], issued))
        /\ flow[f].for = "pay" => HasOp(flow[f], issued)
    BY <1>5, FlowIsMint DEF CompatibilityAnswered, MintOK, Asking
  <2>2. /\ flow[f].to = Own /\ page.starkKey = W /\ (page.deployed <=> Own \in deployed)
        /\ flow[f].for = "action" => Has(flow[f], "sent", Creation)
    BY <1>2, <2>1 DEF CalmMint, CalmAccount, Asks, Asking
  <2>3. /\ flow[f].for = "mint" => Has(flow[f], "sent", Claim(page)) /\ Unspent = {}
        /\ flow[f].for = "action" => Has(flow[f], "traits", page.selected)
        /\ flow[f].for # "mint" =>
              flow[f].proof.claim = Claim(page) /\ HeldOnly(flow[f].proof)
    BY <1>2, <2>1 DEF CalmMint, CalmClaim, Asks, Granted, Asking, Holding, Sending
  <2>4. flow[f].for = "pay" =>
            /\ flow[f].op.mint = Claim(page) /\ flow[f].op.proof = flow[f].proof
            /\ flow[f].op.sender \in {Own, None}
            /\ flow[f].op.sender # None =>
                 flow[f].op.nonce = nonce[Own] /\ (Own \in deployed \/ flow[f].op.init = InitCode)
    BY <1>2, <2>1 DEF CalmMint, CalmOp, Asks, Asking, Sending
  <2>5. page.locked
    BY <1>2, <2>1 DEF CalmMint
  <2>6. AskToken(f, flow[f])
    BY <1>5 DEF CompatibilityAnswered
  <2>7. PICK q : q = flow[f]
    OBVIOUS
  <2> QED
    BY <1>0, <2>1, <2>2, <2>3, <2>4, <2>5, <2>6, CalmAskToken
<1>6. CASE ChallengeAnswered(f)
  <2> DEFINE s == [at |-> "signing", by |-> page.signer]
  <2>1. PICK n : n = Merge(flow[f], s)
    OBVIOUS
  <2>2. At(f, "mint", "challenge") /\ Has(flow[f], "challenged", W)
    BY <1>4, <1>6 DEF ChallengeAnswered, At, CalmSignIn
  <2>3. n.at = "signing" /\ Has(n, "challenged", W) /\ Has(n, "by", W)
    BY <1>2, <2>1, <2>2, MergeHas, CarriedOn
  <2>4. CalmSignIn(n)
    BY <2>3 DEF CalmSignIn
  <2>5. n.kind = "mint" /\ CalmMint(n, page)
    BY <1>1, <2>1, <2>4, CalmKeepsAsking DEF Asking
  <2>6. Goes(f, n) /\ Becomes(page)
    BY <1>2, <1>6, <2>1 DEF ChallengeAnswered, Becomes
  <2> QED
    BY <1>2, <1>3, <2>5, <2>6
<1>7. CASE ChallengeSigned(f)
  <2> DEFINE s == [at |-> "verify", verified |-> page.address]
  <2>1. PICK n : n = Merge(flow[f], s)
    OBVIOUS
  <2>2. At(f, "mint", "signing") /\ Has(flow[f], "challenged", W) /\ Has(flow[f], "by", W)
    BY <1>4, <1>7 DEF ChallengeSigned, At, CalmSignIn
  <2>3. n.at = "verify" /\ Has(n, "challenged", W) /\ Has(n, "by", W) /\ Has(n, "verified", W)
    BY <1>2, <2>1, <2>2, MergeHas, CarriedOn
  <2>4. CalmSignIn(n)
    BY <2>3 DEF CalmSignIn
  <2>5. n.kind = "mint" /\ CalmMint(n, page)
    BY <1>1, <2>1, <2>4, CalmKeepsAsking DEF Asking
  <2>6. Goes(f, n) /\ Becomes(page)
    BY <1>7, <2>1 DEF ChallengeSigned, Becomes
  <2> QED
    BY <1>2, <1>3, <2>5, <2>6
<1>8. CASE VerifyAnswered(f)
  <2> DEFINE s == [at |-> "post", auth |-> flow[f].verified]
             p == [page EXCEPT !.token = TokenFor(f)]
  <2>1. PICK n : n = Merge(flow[f], s)
    OBVIOUS
  <2>2. /\ At(f, "mint", "verify") /\ Has(flow[f], "challenged", W) /\ Has(flow[f], "by", W)
        /\ Has(flow[f], "verified", W)
    BY <1>4, <1>8 DEF VerifyAnswered, At, CalmSignIn
  <2>3. VerifyAccepts(f) /\ flow[f].verified = W
    BY <2>2 DEF VerifyAccepts, Has
  <2>4. n.at = "post" /\ Has(n, "auth", W)
    BY <2>1, <2>2, <2>3, MergeHas, CarriedOn
  <2>5. CalmSignIn(n)
    BY <2>4 DEF CalmSignIn
  <2>6. /\ p.address = page.address /\ p.starkKey = page.starkKey /\ p.network = page.network
        /\ p.locked = page.locked /\ p.deployed = page.deployed /\ p.selected = page.selected
        /\ p.addresses /\ CalmPage(p)
    BY <1>2 DEF CalmPage, PageInv, PageOK, PageFields, Disconnected
  <2>7. n.kind = "mint" /\ CalmMint(n, p)
    BY <1>1, <2>1, <2>5, <2>6, CalmKeepsAsking DEF Asking
  <2>8. Goes(f, n) /\ Becomes(p)
    BY <1>8, <2>1, <2>3 DEF VerifyAnswered
  <2> QED
    BY <1>3, <2>6, <2>7, <2>8
<1> QED
  BY <1>5, <1>6, <1>7, <1>8

(* A mint with its proof in hand has everything the rest of it needs. *)
LEMMA CalmInHand ==
    ASSUME PageInv, CalmInv, troubles = 0, NEW f \in Flows, NEW place \in Holding \cup Sending,
           At(f, "mint", place)
    PROVE  /\ CalmMint(flow[f], page) /\ CalmPage(page) /\ Alone(f)
           /\ page.addresses /\ page.address = W /\ page.signer = W /\ page.starkKey = W
           /\ W # None /\ W \in Accounts /\ page.network /\ page.locked
           /\ HasAccount(flow[f]) /\ HasProof(flow[f], issued) /\ flow[f].to = Own
           /\ flow[f].proof.claim = Claim(page) /\ HeldOnly(flow[f].proof)
           /\ place # "created" => (page.deployed <=> Own \in deployed)
           /\ place \in Holding \ {"granted"} => Has(flow[f], "traits", page.selected)
<1>1. /\ CalmMint(flow[f], page) /\ CalmPage(page) /\ Alone(f)
      /\ page.addresses /\ page.address = W /\ page.signer = W /\ W # None
  BY CalmMintIs DEF At
<1>2. HasAccount(flow[f]) /\ HasProof(flow[f], issued) /\ flow[f].at = place
  BY FlowIsMint DEF MintOK
<1>3. /\ flow[f].to = Own /\ page.starkKey = W
      /\ place # "created" => (page.deployed <=> Own \in deployed)
  BY <1>1, <1>2 DEF CalmMint, CalmAccount
<1>4. /\ flow[f].proof.claim = Claim(page) /\ HeldOnly(flow[f].proof)
      /\ place \in Holding \ {"granted"} => Has(flow[f], "traits", page.selected)
  BY <1>1, <1>2 DEF CalmMint, CalmClaim, Granted
<1>5. W \in Accounts /\ page.network /\ page.locked
  BY <1>1, <1>2 DEF CalmMint, Holding, Sending
<1> QED
  BY <1>1, <1>2, <1>3, <1>4, <1>5

(* Where it may go with the proof in hand. *)
LEMMA CalmHolds ==
    ASSUME PageInv, NEW n, NEW p, n.kind = "mint", n.at \in Holding,
           p.address = W, p.starkKey = W, W \in Accounts, p.network, p.locked,
           n.to = Own, n.proof.claim = Claim(p), HeldOnly(n.proof),
           n.at # "created" => (p.deployed <=> Own \in deployed),
           n.at # "granted" => Has(n, "traits", p.selected),
           n.at = "hash" => Has(n, "hash", Own),
           n.at = "entryPoint" => p.deployed \/ Has(n, "create", Creation),
           n.at = "creating" => Has(n, "init", InitCode)
    PROVE  CalmMint(n, p)
  BY DEF CalmMint, CalmSignIn, CalmAccount, CalmClaim, CalmOp, Asks, Granted, Asking, Holding,
         Sending

LEMMA CalmSends ==
    ASSUME PageInv, NEW n, NEW p, n.kind = "mint", n.at \in Sending,
           p.address = W, p.starkKey = W, W \in Accounts, p.network, p.locked,
           n.to = Own, n.proof.claim = Claim(p), HeldOnly(n.proof),
           p.deployed <=> Own \in deployed, CalmOp(n, p)
    PROVE  CalmMint(n, p)
  BY DEF CalmMint, CalmSignIn, CalmAccount, CalmClaim, Asks, Granted, Asking, Holding, Sending

LEMMA NullIsNoRecord == W \in Accounts => Creation # None /\ InitCode # None
  BY PageAssumption DEF Creation, InitCode, Own, SmartAccountOf, SmartAccounts

LEMMA CalmPostMintProof ==
    ASSUME PageInv, CalmInv, troubles = 0, NEW f \in Flows, PostMintProof(f)
    PROVE  CalmInv'
<1> DEFINE body == flow[f].sent
           s == [at |-> "granted", proof |-> [id |-> Cardinality(issued), claim |-> body]]
<1>1. PICK claim : claim = [id |-> Cardinality(issued), claim |-> body]
  OBVIOUS
<1>2. /\ At(f, "mint", "post") /\ flow[f].for = "mint" /\ issued' = issued \cup {claim}
      /\ Goes(f, Merge(flow[f], s))
      /\ UNCHANGED <<wallet, page, deployed, nonce, tokens, totalSupply, expired, adrift>>
  BY <1>1 DEF PostMintProof, Posts, chainVars
<1>3. /\ CalmMint(flow[f], page) /\ CalmPage(page) /\ Alone(f)
      /\ page.addresses /\ page.address = W /\ page.signer = W /\ W # None
  BY <1>2, CalmMintIs DEF At
<1>4. HasAccount(flow[f]) /\ flow[f].at = "post"
  BY <1>2, FlowIsMint DEF MintOK, Asking
<1>5. /\ flow[f].to = Own /\ page.starkKey = W /\ (page.deployed <=> Own \in deployed)
      /\ body = Claim(page) /\ Unspent = {} /\ W \in Accounts /\ page.network /\ page.locked
  BY <1>2, <1>3, <1>4
     DEF CalmMint, CalmAccount, CalmClaim, Has, Asks, Granted, Asking, Holding, Sending
<1>6. claim \notin issued
  <2>1. \A p \in issued : p.id \in Nat /\ p.id < Cardinality(issued)
    BY DEF PageInv, ServerOK
  <2>2. claim.id = Cardinality(issued)
    BY <1>1
  <2> QED
    BY <2>1, <2>2
<1>7. HeldOnly(claim)'
  <2>1. claim \notin tokens'
    BY <1>2, <1>6 DEF PageInv, ChainOK
  <2>2. Unspent' \subseteq {claim}
    BY <1>2, <1>5 DEF Unspent, CouldMint
  <2> QED
    BY <2>1, <2>2 DEF HeldOnly
<1>8. PICK n : n = Merge(flow[f], s)
  OBVIOUS
<1>9. n.kind = "mint" /\ n.at = "granted"
  BY <1>2, <1>8, FlowIsMint, MergeKeepsKind
<1>10. n.to = Own /\ n.proof = claim
  <2>1. n.to = flow[f].to
    BY <1>4, <1>8 DEF Merge, HasAccount
  <2>2. n.proof = claim
    BY <1>1, <1>8 DEF Merge
  <2> QED
    BY <1>5, <2>1, <2>2
<1>11. W' = W /\ Own' = Own /\ Claim(page)' = Claim(page) /\ deployed' = deployed
  BY <1>2 DEF W, Own, SmartAccountOf, Claim
<1>12. n.proof.claim = Claim(page)
  BY <1>1, <1>5, <1>10
<1>13. PageInv'
  <2>1. MintStep(f)
    BY DEF MintStep
  <2> QED
    BY <2>1, MintStepKeeps
<1>14. CalmMint(n, page)'
  BY <1>2, <1>3, <1>5, <1>7, <1>9, <1>10, <1>11, <1>12
     DEF CalmMint, CalmSignIn, CalmAccount, CalmClaim, CalmOp, Asks, Granted, Asking, Holding,
         Sending
<1>15. CalmPage(page)'
  BY <1>2, <1>3, <1>11 DEF CalmPage
<1>16. PICK p : p = page
  OBVIOUS
<1>17. CalmPage(p)' /\ CalmMint(n, p)' /\ Becomes(p) /\ p.addresses
  BY <1>2, <1>3, <1>14, <1>15, <1>16 DEF Becomes
<1> QED
  BY <1>2, <1>3, <1>8, <1>9, <1>17, CalmMintGoesOn

LEMMA CalmWithTheProof ==
    ASSUME PageInv, CalmInv, troubles = 0, NEW f \in Flows,
           \/ MintProofRefused(f) \/ MintProofArrives(f) \/ RequestActionProof(f)
           \/ PostActionProof(f)
    PROVE  CalmInv'
<1>0. UNCHANGED <<wallet, deployed, nonce, issued, tokens, totalSupply, expired, adrift>>
  BY DEF MintProofRefused, MintProofArrives, RequestActionProof, PostActionProof, Outside,
         serverVars, chainVars
<1>1. flow[f].kind = "mint"
  BY DEF MintProofRefused, MintProofArrives, RequestActionProof, PostActionProof, Posts, At
<1>2. /\ CalmMint(flow[f], page) /\ CalmPage(page) /\ Alone(f)
      /\ page.addresses /\ page.address = W /\ page.signer = W /\ W # None
  BY <1>1, CalmMintIs
<1>3. ASSUME NEW r, r.kind = "mint", CalmMint(r, page), Goes(f, r), UNCHANGED page
      PROVE  CalmInv'
  <2>1. PICK p : p = page
    OBVIOUS
  <2>2. CalmMint(r, p) /\ CalmPage(p) /\ p.addresses /\ Becomes(p)
    BY <1>2, <1>3, <2>1 DEF Becomes
  <2> QED
    BY <1>0, <1>2, <1>3, <2>2, QuietCalm, CalmMintGoesOn
<1>4. CASE MintProofRefused(f)
  <2>1. At(f, "mint", "post") /\ flow[f].for = "mint" /\ flow[f].at = "post"
    BY <1>4 DEF MintProofRefused, Posts, At
  <2>2. Unspent = {}
    BY <1>2, <2>1 DEF CalmMint, CalmClaim, Granted, Asking, Holding, Sending
  <2>3. PICK p : p = [Failed(f) EXCEPT !.retry = TRUE]
    OBVIOUS
  <2>4. DOMAIN page = PageFields
    BY DEF PageInv, PageOK
  <2>5. CalmPage(p) /\ p.addresses
    BY <1>2, <2>3, <2>4 DEF CalmPage, Failed, PageFields, Disconnected
  <2>6. Ends(f, p)
    BY <1>4, <2>3 DEF MintProofRefused
  <2> QED
    BY <1>0, <1>2, <2>2, <2>5, <2>6, QuietCalm, CalmMintEnds
<1>5. CASE MintProofArrives(f)
  <2>1. At(f, "mint", "granted")
    BY <1>5 DEF MintProofArrives
  <2>2. /\ page.starkKey = W /\ W \in Accounts /\ page.network /\ page.locked
        /\ HasAccount(flow[f]) /\ HasProof(flow[f], issued) /\ flow[f].to = Own
        /\ flow[f].proof.claim = Claim(page) /\ HeldOnly(flow[f].proof)
        /\ page.deployed <=> Own \in deployed
    BY <2>1, CalmInHand DEF Holding
  <2> DEFINE here == [at |-> "entryPoint", traits |-> page.selected]
             there == [at |-> "hash", traits |-> page.selected,
                       hash |-> <<page.address, page.starkKey>>]
  <2>3. UNCHANGED page
    BY <1>2, <1>5, <2>2 DEF MintProofArrives
  <2>4. CASE page.deployed
    <3>1. PICK n : n = Merge(flow[f], here)
      OBVIOUS
    <3>2. n.kind = "mint" /\ n.at = "entryPoint" /\ n.to = Own /\ n.proof = flow[f].proof
      BY <2>1, <2>2, <3>1, CarriedOn
    <3>3. Has(n, "traits", page.selected)
      BY <3>1, MergeHas
    <3>4. CalmMint(n, page)
      BY <1>2, <2>2, <2>4, <3>2, <3>3, CalmHolds DEF Holding
    <3>5. Goes(f, n)
      BY <1>2, <1>5, <2>2, <2>4, <3>1 DEF MintProofArrives
    <3> QED
      BY <1>3, <2>3, <3>2, <3>4, <3>5
  <2>5. CASE ~page.deployed
    <3>1. PICK n : n = Merge(flow[f], there)
      OBVIOUS
    <3>2. n.kind = "mint" /\ n.at = "hash" /\ n.to = Own /\ n.proof = flow[f].proof
      BY <2>1, <2>2, <3>1, CarriedOn
    <3>3. Has(n, "traits", page.selected) /\ Has(n, "hash", Own)
      <4>1. Has(n, "traits", page.selected)
        BY <3>1, MergeHas
      <4>2. Has(n, "hash", <<page.address, page.starkKey>>)
        BY <3>1, MergeHas
      <4> QED
        BY <1>2, <2>2, <4>1, <4>2 DEF Own, SmartAccountOf
    <3>4. CalmMint(n, page)
      BY <1>2, <2>2, <2>5, <3>2, <3>3, CalmHolds DEF Holding
    <3>5. Goes(f, n)
      BY <1>2, <1>5, <2>2, <2>5, <3>1 DEF MintProofArrives
    <3> QED
      BY <1>3, <2>3, <3>2, <3>4, <3>5
  <2> QED
    BY <2>4, <2>5
<1>6. CASE RequestActionProof(f)
  <2>1. At(f, "mint", "hash") /\ flow[f].at = "hash"
    BY <1>6 DEF RequestActionProof, At
  <2>2. /\ page.starkKey = W /\ W \in Accounts /\ page.network /\ page.locked
        /\ HasAccount(flow[f]) /\ HasProof(flow[f], issued) /\ flow[f].to = Own
        /\ flow[f].proof.claim = Claim(page) /\ HeldOnly(flow[f].proof)
        /\ page.deployed <=> Own \in deployed
        /\ Has(flow[f], "traits", page.selected)
    BY <2>1, CalmInHand DEF Holding
  <2>3. flow[f].hash = Own
    BY <1>2, <2>1 DEF CalmMint, CalmAccount, Has
  <2> DEFINE s == [at |-> "compatible", for |-> "action",
                   sent |-> [recipient |-> page.address, hash |-> flow[f].hash]]
  <2>4. PICK n : n = Merge(flow[f], s)
    OBVIOUS
  <2>5. n.kind = "mint" /\ n.at = "compatible" /\ n.for = "action"
    BY <2>1, <2>4, FlowIsMint, MergeSetsPurpose
  <2>6. n.to = Own /\ n.proof = flow[f].proof
    <3>1. n.to = flow[f].to
      BY <2>2, <2>4 DEF Merge, HasAccount
    <3>2. n.proof = flow[f].proof
      BY <2>2, <2>4 DEF Merge, HasProof
    <3> QED
      BY <2>2, <3>1, <3>2
  <2>7. Has(n, "traits", page.selected) /\ Has(n, "sent", Creation)
    <3>1. Has(n, "traits", page.selected)
      BY <2>2, <2>4, MergeHas
    <3>2. Has(n, "sent", [recipient |-> page.address, hash |-> flow[f].hash])
      BY <2>4, MergeHas
    <3> QED
      BY <1>2, <2>3, <3>1, <3>2 DEF Creation
  <2>8. CalmMint(n, page)
    BY <1>2, <2>2, <2>5, <2>6, <2>7
       DEF CalmMint, CalmSignIn, CalmAccount, CalmClaim, CalmOp, Asks, Granted, Asking, Holding,
           Sending
  <2>9. Goes(f, n) /\ UNCHANGED page
    BY <1>2, <1>6, <2>4 DEF RequestActionProof
  <2> QED
    BY <1>3, <2>5, <2>8, <2>9
<1>7. CASE PostActionProof(f)
  <2>1. At(f, "mint", "post") /\ flow[f].for = "action" /\ flow[f].at = "post"
    BY <1>7 DEF PostActionProof, Posts, At
  <2>2. HasAccount(flow[f]) /\ HasProof(flow[f], issued)
    BY <2>1, FlowIsMint DEF MintOK, Asking
  <2>3. /\ flow[f].to = Own /\ page.starkKey = W /\ (page.deployed <=> Own \in deployed)
        /\ flow[f].sent = Creation /\ flow[f].auth = W
    BY <1>2, <2>1 DEF CalmMint, CalmAccount, CalmSignIn, Has, Asks, Asking
  <2>4. /\ flow[f].proof.claim = Claim(page) /\ HeldOnly(flow[f].proof)
        /\ Has(flow[f], "traits", page.selected)
    BY <1>2, <2>1 DEF CalmMint, CalmClaim, Asks, Granted, Asking
  <2>5. W \in Accounts /\ page.network /\ page.locked
    BY <1>2, <2>1 DEF CalmMint
  <2> DEFINE s == [at |-> "entryPoint", create |-> flow[f].sent]
  <2>6. PICK n : n = Merge(flow[f], s)
    OBVIOUS
  <2>7. n.kind = "mint" /\ n.at = "entryPoint" /\ n.to = Own /\ n.proof = flow[f].proof
    BY <2>1, <2>2, <2>3, <2>6, CarriedOn
  <2>8. Has(n, "traits", page.selected) /\ Has(n, "create", Creation)
    BY <2>3, <2>4, <2>6, MergeHas
  <2>9. CalmMint(n, page)
    BY <1>2, <2>3, <2>4, <2>5, <2>7, <2>8, CalmHolds DEF Holding
  <2>10. flow[f].auth = flow[f].sent.recipient
    BY <2>3 DEF Creation
  <2>11. Goes(f, n) /\ UNCHANGED page
    BY <1>7, <2>6, <2>10 DEF PostActionProof
  <2> QED
    BY <1>3, <2>7, <2>9, <2>11
<1> QED
  BY <1>4, <1>5, <1>6, <1>7

LEMMA CalmToTheChain ==
    ASSUME PageInv, CalmInv, troubles = 0, NEW f \in Flows,
           \/ BuildMintUserOp(f) \/ AskSponsorship(f) \/ SelfPays(f) \/ SponsorshipAnswered(f)
           \/ SendUserOp(f) \/ CreateDirectly(f) \/ AccountCreated(f) \/ MintDirectly(f)
    PROVE  CalmInv'
<1>0. Outside /\ UNCHANGED <<wallet, deployed, nonce, issued, tokens, totalSupply, expired, adrift>>
  BY DEF BuildMintUserOp, AskSponsorship, SelfPays, SponsorshipAnswered, SendUserOp,
         CreateDirectly, AccountCreated, MintDirectly, Outside, serverVars, chainVars
<1>1. ASSUME NEW r, r.kind = "mint", NEW p, CalmPage(p), p.addresses, CalmMint(r, p),
             Goes(f, r), Becomes(p), Alone(f)
      PROVE  CalmInv'
  BY <1>0, <1>1, QuietCalm, CalmMintGoesOn
<1>2. ASSUME NEW r, r.kind = "mint", CalmMint(r, page), CalmPage(page), page.addresses,
             Goes(f, r), UNCHANGED page, Alone(f)
      PROVE  CalmInv'
  <2>1. PICK p : p = page
    OBVIOUS
  <2> QED
    BY <1>1, <1>2, <2>1 DEF Becomes
<1> DEFINE Ready ==
       /\ CalmMint(flow[f], page) /\ CalmPage(page) /\ Alone(f)
       /\ page.addresses /\ page.address = W /\ page.signer = W /\ page.starkKey = W
       /\ W # None /\ W \in Accounts /\ page.network /\ page.locked
       /\ HasAccount(flow[f]) /\ HasProof(flow[f], issued) /\ flow[f].to = Own
       /\ flow[f].proof.claim = Claim(page) /\ HeldOnly(flow[f].proof)
<1>3. CASE BuildMintUserOp(f)
  <2>1. At(f, "mint", "entryPoint") /\ flow[f].at = "entryPoint"
    BY <1>3 DEF BuildMintUserOp, At
  <2>2. Ready /\ (page.deployed <=> Own \in deployed) /\ flow[f].traits = page.selected
    BY <2>1, CalmInHand DEF Holding, Has
  <2>3. page.deployed \/ flow[f].create = Creation
    BY <2>1, <2>2 DEF CalmMint, CalmAccount, Has
  <2>4. Own = <<page.address, page.starkKey>>
    BY <2>2 DEF Own, SmartAccountOf
  <2>5. Buildable(f)
    BY <2>2, <2>3, <2>4, NullIsNoRecord DEF Buildable
  <2>6. MintCall(f) = Claim(page)
    BY <2>2 DEF MintCall, Claim
  <2> DEFINE init == IF page.deployed THEN None
                     ELSE [account |-> <<page.address, page.starkKey>>, proof |-> flow[f].create]
             o == [sender |-> flow[f].to, nonce |-> nonce[flow[f].to], mint |-> MintCall(f),
                   proof |-> flow[f].proof, init |-> init]
             s == [at |-> "built", op |-> o]
  <2>7. Goes(f, Merge(flow[f], s)) /\ UNCHANGED page
    BY <1>3, <2>2, <2>5 DEF BuildMintUserOp
  <2>8. PICK n : n = Merge(flow[f], s)
    OBVIOUS
  <2>9. n.kind = "mint" /\ n.at = "built"
    BY <2>1, <2>8, FlowIsMint, MergeKeepsKind
  <2>10. n.to = Own /\ n.proof = flow[f].proof /\ n.op = o
    <3>1. n.to = flow[f].to
      BY <2>2, <2>8 DEF Merge, HasAccount
    <3>2. n.proof = flow[f].proof
      BY <2>2, <2>8 DEF Merge, HasProof
    <3>3. n.op = o
      BY <2>8 DEF Merge
    <3> QED
      BY <2>2, <3>1, <3>2, <3>3
  <2>11. Own \in deployed \/ init = InitCode
    BY <2>2, <2>3, <2>4 DEF InitCode
  <2>12. /\ o.sender = Own /\ o.nonce = nonce[Own] /\ o.mint = Claim(page)
         /\ o.proof = flow[f].proof /\ o.init = init
    BY <2>2, <2>6
  <2> HIDE DEF o, init
  <2>13. CalmOp(n, page)
    BY <2>9, <2>10, <2>11, <2>12 DEF CalmOp
  <2>14. CalmMint(n, page)
    BY <2>2, <2>9, <2>10, <2>13, CalmSends DEF Sending
  <2> QED
    BY <1>2, <2>2, <2>7, <2>8, <2>9, <2>14
<1>4. CASE AskSponsorship(f)
  <2>1. At(f, "mint", "built") /\ flow[f].at = "built"
    BY <1>4 DEF AskSponsorship, At
  <2>2. Ready /\ (page.deployed <=> Own \in deployed)
    BY <2>1, CalmInHand DEF Sending
  <2>3. HasOp(flow[f], issued) /\ {"kind", "at", "for"} \subseteq DOMAIN flow[f]
        /\ flow[f].kind = "mint"
    BY <2>1, FlowIsMint DEF MintOK, Sending
  <2>4. /\ flow[f].op.mint = Claim(page) /\ flow[f].op.proof = flow[f].proof
        /\ flow[f].op.sender \in {Own, None}
        /\ flow[f].op.sender # None =>
              flow[f].op.nonce = nonce[Own] /\ (Own \in deployed \/ flow[f].op.init = InitCode)
    BY <2>1, <2>2 DEF CalmMint, CalmOp, Sending
  <2> DEFINE s == [for |-> "pay"]
  <2>5. PICK q : q = Merge(flow[f], s)
    OBVIOUS
  <2>6. {"kind", "at", "for"} \subseteq DOMAIN q /\ q.kind = "mint" /\ q.for = "pay"
    BY <2>3, <2>5 DEF Merge
  <2>7. HasAccount(q) /\ HasProof(q, issued) /\ HasOp(q, issued)
    BY <2>2, <2>3, <2>5, MergeCarries DEF Carries
  <2>8. q.to = flow[f].to /\ q.proof = flow[f].proof /\ q.op = flow[f].op
    <3>1. q.to = flow[f].to
      BY <2>2, <2>5 DEF Merge, HasAccount
    <3>2. q.proof = flow[f].proof
      BY <2>2, <2>5 DEF Merge, HasProof
    <3>3. q.op = flow[f].op
      BY <2>3, <2>5 DEF Merge, HasOp
    <3> QED
      BY <3>1, <3>2, <3>3
  <2>9. AskToken(f, q)
    BY <1>4, <2>2, <2>5 DEF AskSponsorship
  <2> QED
    BY <1>0, <2>2, <2>3, <2>4, <2>6, <2>7, <2>8, <2>9, CalmAskToken
<1>5. CASE SelfPays(f)
  BY <1>0, <1>5, CalmSign DEF SelfPays
<1>6. CASE SponsorshipAnswered(f)
  BY <1>0, <1>6, CalmSign DEF SponsorshipAnswered, Posts, Asking
<1>7. CASE SendUserOp(f)
  <2>1. At(f, "mint", "sign") /\ flow[f].at = "sign"
    BY <1>7 DEF SendUserOp, At
  <2>2. Ready /\ (page.deployed <=> Own \in deployed)
    BY <2>1, CalmInHand DEF Sending
  <2>3. HasOp(flow[f], issued)
    BY <2>1, FlowIsMint DEF MintOK, Sending
  <2>4. /\ flow[f].op.mint = Claim(page) /\ flow[f].op.proof = flow[f].proof
        /\ flow[f].op.sender \in {Own, None}
        /\ flow[f].op.sender # None =>
              /\ flow[f].op.nonce = nonce[Own] /\ (Own \in deployed \/ flow[f].op.init = InitCode)
              /\ Has(flow[f], "by", W)
    BY <2>1, <2>2 DEF CalmMint, CalmOp, Sending
  <2> DEFINE s == [at |-> "submit"]
  <2>5. PICK n : n = Merge(flow[f], s)
    OBVIOUS
  <2>6. /\ n.kind = "mint" /\ n.at = "submit" /\ n.to = Own /\ n.proof = flow[f].proof
        /\ n.op = flow[f].op
    BY <2>1, <2>2, <2>3, <2>5, CarriedOn
  <2>7. Has(flow[f], "by", W) => Has(n, "by", W)
    BY <2>5, MergeHas
  <2>8. CalmOp(n, page)
    BY <2>4, <2>6, <2>7 DEF CalmOp
  <2>9. CalmMint(n, page)
    BY <2>2, <2>6, <2>8, CalmSends DEF Sending
  <2>10. Goes(f, n) /\ UNCHANGED page
    BY <1>7, <2>2, <2>5 DEF SendUserOp
  <2> QED
    BY <1>2, <2>2, <2>6, <2>9, <2>10
<1>8. CASE CreateDirectly(f)
  <2>1. At(f, "mint", "entryPoint") /\ flow[f].at = "entryPoint" /\ ~page.deployed
    BY <1>8 DEF CreateDirectly, At
  <2>2. /\ Ready /\ (page.deployed <=> Own \in deployed)
        /\ Has(flow[f], "traits", page.selected)
    BY <2>1, CalmInHand DEF Holding
  <2>3. flow[f].create = Creation /\ Creation # None
    BY <2>1, <2>2, NullIsNoRecord DEF CalmMint, CalmAccount, Has
  <2> DEFINE i == [account |-> <<page.address, page.starkKey>>, proof |-> flow[f].create]
             s == [at |-> "creating", init |-> i]
  <2>4. i = InitCode
    BY <2>2, <2>3 DEF InitCode, Own, SmartAccountOf
  <2>5. PICK n : n = Merge(flow[f], s)
    OBVIOUS
  <2>6. n.kind = "mint" /\ n.at = "creating" /\ n.to = Own /\ n.proof = flow[f].proof
    BY <2>1, <2>2, <2>5, CarriedOn
  <2>7. Has(n, "traits", page.selected) /\ Has(n, "init", InitCode)
    BY <2>2, <2>4, <2>5, MergeHas
  <2>8. CalmMint(n, page)
    BY <2>2, <2>6, <2>7, CalmHolds DEF Holding
  <2>9. Goes(f, n) /\ UNCHANGED page
    BY <1>8, <2>2, <2>3, <2>5 DEF CreateDirectly
  <2> QED
    BY <1>2, <2>2, <2>6, <2>8, <2>9
<1>9. CASE AccountCreated(f)
  <2>1. At(f, "mint", "created") /\ flow[f].at = "created"
    BY <1>9 DEF AccountCreated, At
  <2>2. Ready /\ Has(flow[f], "traits", page.selected)
    BY <2>1, CalmInHand DEF Holding
  <2> DEFINE p == [page EXCEPT !.deployed = (flow[f].to \in deployed)]
             s == [at |-> "direct"]
  <2>3. DOMAIN page = PageFields
    BY DEF PageInv, PageOK
  <2>4. /\ CalmPage(p) /\ p.addresses /\ p.address = W /\ p.starkKey = W /\ p.network /\ p.locked
        /\ p.selected = page.selected /\ p.deployed = (Own \in deployed)
    BY <2>2, <2>3 DEF CalmPage, PageFields, Disconnected
  <2>5. PICK n : n = Merge(flow[f], s)
    OBVIOUS
  <2>6. n.kind = "mint" /\ n.at = "direct" /\ n.to = Own /\ n.proof = flow[f].proof
    BY <2>1, <2>2, <2>5, CarriedOn
  <2>7. Has(n, "traits", p.selected) /\ Claim(p) = Claim(page)
    BY <2>2, <2>4, <2>5, MergeHas DEF Claim
  <2>8. Goes(f, n) /\ Becomes(p)
    BY <1>9, <2>5 DEF AccountCreated
  <2> HIDE DEF p
  <2>9. CalmMint(n, p)
    BY <2>2, <2>4, <2>6, <2>7, CalmHolds DEF Holding
  <2> QED
    BY <1>1, <2>2, <2>4, <2>6, <2>8, <2>9
<1>10. CASE MintDirectly(f)
  <2>1. PICK place \in {"direct", "entryPoint"} : At(f, "mint", place)
    BY <1>10 DEF MintDirectly
  <2>2. /\ Ready /\ (page.deployed <=> Own \in deployed)
        /\ flow[f].traits = page.selected
    BY <2>1, CalmInHand DEF Holding, Has
  <2>3. MintCall(f) = Claim(page)
    BY <2>2 DEF MintCall, Claim
  <2> DEFINE o == [sender |-> None, mint |-> MintCall(f), proof |-> flow[f].proof]
             s == [at |-> "submit", op |-> o]
  <2>4. PICK n : n = Merge(flow[f], s)
    OBVIOUS
  <2>5. n.kind = "mint" /\ n.at = "submit"
    BY <2>1, <2>4, FlowIsMint, MergeKeepsKind
  <2>6. n.to = flow[f].to
    BY <2>2, <2>4 DEF Merge, HasAccount
  <2>7. n.proof = flow[f].proof
    BY <2>2, <2>4 DEF Merge, HasProof
  <2>8. n.op = o
    BY <2>4 DEF Merge
  <2>9. CalmOp(n, page)
    BY <2>3, <2>7, <2>8 DEF CalmOp
  <2>10. CalmMint(n, page)
    BY <2>2, <2>5, <2>6, <2>7, <2>9, CalmSends DEF Sending
  <2>11. Goes(f, n) /\ UNCHANGED page
    BY <1>10, <2>2, <2>4 DEF MintDirectly
  <2> QED
    BY <1>2, <2>2, <2>5, <2>10, <2>11
<1> QED
  BY <1>3, <1>4, <1>5, <1>6, <1>7, <1>8, <1>9, <1>10

LEMMA CalmCreationMined ==
    ASSUME PageInv, CalmInv, troubles = 0, NEW f \in Flows, CreationMined(f)
    PROVE  CalmInv'
<1>1. At(f, "mint", "creating") /\ flow[f].at = "creating"
  BY DEF CreationMined, At
<1>2. /\ CalmMint(flow[f], page) /\ CalmPage(page) /\ Alone(f)
      /\ page.addresses /\ page.address = W /\ page.starkKey = W
      /\ W # None /\ W \in Accounts /\ page.network /\ page.locked
      /\ HasAccount(flow[f]) /\ HasProof(flow[f], issued) /\ flow[f].to = Own
      /\ flow[f].proof.claim = Claim(page) /\ HeldOnly(flow[f].proof)
      /\ Has(flow[f], "traits", page.selected)
  BY <1>1, CalmInHand DEF Holding
<1>3. flow[f].init = InitCode
  BY <1>1, <1>2 DEF CalmMint, CalmAccount, Has
<1>4. CreatesAccount(flow[f].init)
  BY <1>3 DEF CreatesAccount, InitCode, Creation, Own, SmartAccountOf
<1> DEFINE s == [at |-> "created"]
<1>5. /\ Goes(f, Merge(flow[f], s))
      /\ UNCHANGED <<page, wallet, issued, nonce, tokens, totalSupply, expired, adrift>>
  BY <1>4 DEF CreationMined, serverVars
<1>6. PICK n : n = Merge(flow[f], s)
  OBVIOUS
<1>7. n.kind = "mint" /\ n.at = "created" /\ n.to = Own /\ n.proof = flow[f].proof
  BY <1>1, <1>2, <1>6, CarriedOn
<1>8. Has(n, "traits", page.selected)
  BY <1>2, <1>6, MergeHas
<1>9. /\ W' = W /\ Own' = Own /\ Claim(page)' = Claim(page)
      /\ HeldOnly(n.proof)'
  BY <1>2, <1>5, <1>7 DEF W, Own, SmartAccountOf, Claim, HeldOnly, Unspent, CouldMint
<1>10. CalmPage(page)' /\ CalmMint(n, page)'
  BY <1>2, <1>5, <1>7, <1>8, <1>9
     DEF CalmPage, CalmMint, CalmSignIn, CalmAccount, CalmClaim, CalmOp, Asks, Granted, Asking,
         Holding, Sending, Has
<1>11. PICK p : p = page
  OBVIOUS
<1>12. CalmPage(p)' /\ CalmMint(n, p)' /\ Becomes(p) /\ p.addresses
  BY <1>2, <1>5, <1>10, <1>11 DEF Becomes
<1> QED
  BY <1>2, <1>5, <1>6, <1>7, <1>12, CalmMintGoesOn

(* Nothing that handleOps, the gate or the contract checks can fail but    *)
(* the palette and the supply.                                             *)
LEMMA CalmSubmits ==
    ASSUME PageInv, CalmInv, troubles = 0, NEW f \in Flows, At(f, "mint", "submit")
    PROVE  /\ flow[f].op.proof = flow[f].proof
           /\ CouldMint(flow[f].proof) => Mints(flow[f])
<1>1. /\ CalmMint(flow[f], page) /\ CalmPage(page) /\ W \in Accounts
      /\ flow[f].proof.claim = Claim(page) /\ HeldOnly(flow[f].proof)
  BY CalmInHand DEF Sending
<1>2. /\ flow[f].op.mint = Claim(page) /\ flow[f].op.proof = flow[f].proof
      /\ flow[f].op.sender \in {Own, None}
      /\ flow[f].op.sender # None =>
            /\ flow[f].op.nonce = nonce[Own] /\ (Own \in deployed \/ flow[f].op.init = InitCode)
            /\ Has(flow[f], "by", W)
  BY <1>1 DEF CalmMint, CalmOp, Sending, At
<1>3. ProofAccepted(flow[f].op)
  BY <1>1, <1>2 DEF ProofAccepted, HeldOnly, CalmPage
<1>4. OpValid(flow[f])
  <2>1. CASE flow[f].op.sender = None
    BY <2>1 DEF OpValid
  <2>2. CASE flow[f].op.sender # None
    <3>1. flow[f].op.sender = Own /\ Own[1] = W
      BY <1>2, <2>2 DEF Own, SmartAccountOf
    <3>2. CreatesAccount(InitCode) /\ InitCode.account = Own /\ InitCode # None
      BY <1>1, NullIsNoRecord DEF CreatesAccount, InitCode, Creation, Own, SmartAccountOf
    <3> QED
      BY <1>2, <2>2, <3>1, <3>2 DEF OpValid, Has
  <2> QED
    BY <2>1, <2>2
<1>5. CouldMint(flow[f].proof) => Mints(flow[f])
  BY <1>1, <1>2, <1>3, <1>4 DEF CouldMint, Mints
<1> QED
  BY <1>2, <1>5

LEMMA CalmLands ==
    ASSUME PageInv, CalmInv, troubles = 0, NEW f \in Flows,
           \/ Mined(f) \/ Reverts(f) \/ SentElsewhere(f)
           \/ MintConfirmed(f) \/ Refresh(f) \/ MintDone(f)
    PROVE  CalmInv'
<1>1. flow[f].kind = "mint" /\ UNCHANGED <<wallet, issued, expired, adrift>>
  BY DEF Mined, Reverts, SentElsewhere, MintConfirmed, Refresh, MintDone, At, Outside, serverVars,
         chainVars
<1>2. /\ CalmMint(flow[f], page) /\ CalmPage(page) /\ Alone(f)
      /\ page.addresses /\ page.address = W /\ page.signer = W /\ W # None
  BY <1>1, CalmMintIs
<1>3. W' = W /\ Own' = Own
  BY <1>1 DEF W, Own, SmartAccountOf
<1>4. W \in Accounts /\ page.network
  BY <1>2 DEF CalmMint
<1>5. ASSUME NEW r, NEW p, r.kind = "mint", r.at \in {"mined", "confirmed", "refresh"},
             Unspent' = {}, CalmPage(p), p.addresses, p.address = W, p.network,
             Goes(f, r), Becomes(p)
      PROVE  CalmInv'
  <2>1. CalmMint(r, p)'
    BY <1>3, <1>4, <1>5
       DEF CalmMint, CalmSignIn, CalmAccount, CalmClaim, CalmOp, Asks, Granted, Asking, Holding,
           Sending
  <2>2. CalmPage(p)'
    BY <1>1, <1>3, <1>5 DEF CalmPage
  <2> QED
    BY <1>2, <1>5, <2>1, <2>2, CalmMintGoesOn
<1>6. CASE Mined(f)
  <2>1. /\ At(f, "mint", "submit") /\ tokens' = tokens \cup {flow[f].op.proof}
        /\ Goes(f, Mint("mined")) /\ UNCHANGED page
        /\ totalSupply < MaxSupply /\ totalSupply' = totalSupply + 1
    BY <1>6 DEF Mined, Mints, Lands
  <2>2. flow[f].op.proof = flow[f].proof /\ HeldOnly(flow[f].proof)
    BY <2>1, CalmSubmits, CalmInHand DEF Sending
  <2>3. Unspent' = {}
    BY <1>1, <2>1, <2>2, PageAssumption DEF HeldOnly, Unspent, CouldMint, PageInv, ChainOK
  <2>4. PICK r : r = Mint("mined")
    OBVIOUS
  <2>5. r.kind = "mint" /\ r.at = "mined"
    BY <2>4 DEF Mint
  <2>6. PICK p : p = page
    OBVIOUS
  <2> QED
    BY <1>2, <1>4, <1>5, <2>1, <2>3, <2>4, <2>5, <2>6 DEF Becomes
<1>7. CASE Reverts(f)
  <2>1. At(f, "mint", "submit") /\ ~Mints(flow[f]) /\ Ends(f, Failed(f)) /\ Outside
    BY <1>7 DEF Reverts
  <2>2. HeldOnly(flow[f].proof) /\ ~CouldMint(flow[f].proof)
    BY <2>1, CalmSubmits, CalmInHand DEF Sending
  <2>3. UNCHANGED <<wallet, deployed, nonce, issued, tokens, totalSupply, expired, adrift>>
    BY <2>1 DEF Outside, serverVars, chainVars
  <2>4. Unspent' = {}
    BY <2>2, <2>3 DEF HeldOnly, Unspent, CouldMint
  <2>5. CalmPage(Failed(f)) /\ Failed(f).addresses
    BY <1>2, CalmFailed
  <2>6. PICK p : p = Failed(f)
    OBVIOUS
  <2> QED
    BY <1>2, <2>1, <2>3, <2>4, <2>5, <2>6, QuietCalm, CalmMintEnds
<1>8. CASE MintConfirmed(f) \/ Refresh(f) \/ MintDone(f)
  <2>0. flow[f].at \in {"mined", "confirmed", "refresh"} /\ DOMAIN page = PageFields
    BY <1>8 DEF MintConfirmed, Refresh, MintDone, At, PageInv, PageOK
  <2>1. UNCHANGED <<wallet, deployed, nonce, issued, tokens, totalSupply, expired, adrift>>
    BY <1>8 DEF MintConfirmed, Refresh, MintDone, Outside, serverVars, chainVars
  <2>2. Unspent = {} /\ Unspent' = {}
    <3>1. Unspent = {}
      BY <1>2, <2>0 DEF CalmMint, CalmClaim, Granted, Asking, Holding, Sending
    <3> QED
      BY <2>1, <3>1, QuietCalm
  <2>3. CASE MintConfirmed(f)
    <3> DEFINE p == [page EXCEPT !.locked = FALSE, !.ready = FALSE]
    <3>1. CalmPage(p) /\ p.addresses /\ p.address = W /\ p.network
      BY <1>2, <1>4, <2>0 DEF CalmPage, PageFields, Disconnected
    <3>2. Mint("confirmed").kind = "mint" /\ Mint("confirmed").at = "confirmed"
      BY DEF Mint
    <3> QED
      BY <1>5, <2>2, <2>3, <3>1, <3>2 DEF MintConfirmed
  <2>4. CASE Refresh(f)
    <3>1. PICK n : n = Merge(Mint("refresh"), [who |-> page.address])
      OBVIOUS
    <3>2. n.kind = "mint" /\ n.at = "refresh"
      BY <3>1 DEF Merge, Mint
    <3>3. Goes(f, n) /\ Becomes(page)
      BY <1>2, <2>4, <3>1 DEF Refresh, Becomes
    <3> QED
      BY <1>2, <1>4, <1>5, <2>2, <3>2, <3>3
  <2>5. CASE MintDone(f)
    <3>1. PICK p : p = [Learned(flow[f].who) EXCEPT !.minting = FALSE]
      OBVIOUS
    <3>2. CalmPage(p) /\ p.addresses
      BY <1>2, <2>0, <3>1 DEF Learned, CalmPage, PageFields, Disconnected
    <3>3. Ends(f, p)
      BY <2>5, <3>1 DEF MintDone
    <3> QED
      BY <1>2, <2>1, <2>2, <3>2, <3>3, QuietCalm, CalmMintEnds
  <2> QED
    BY <1>8, <2>3, <2>4, <2>5
<1>9. CASE SentElsewhere(f)
  BY <1>2, <1>4, <1>9 DEF SentElsewhere, CalmPage
<1> QED
  BY <1>6, <1>7, <1>8, <1>9

(* connectWallet runs while there is no mint, and only ever finds the one  *)
(* account.                                                                *)
LEMMA CalmConnects ==
    ASSUME PageInv, CalmInv, troubles = 0, NEW f \in Flows,
           \A g \in Flows : flow[g].kind # "mint", Outside,
           NEW r, NEW p, Goes(f, r), Becomes(p), r = Idle \/ r.kind = "connect",
           CalmConnect(r), CalmPage(p),
           \/ p.addresses
           \/ r.kind = "connect" /\ r.at = "deployments"
           \/ p.addresses = page.addresses /\ ~At(f, "connect", "deployments")
    PROVE  CalmInv'
<1>0. UNCHANGED <<wallet, deployed, nonce, issued, tokens, totalSupply, expired, adrift>>
  BY DEF Outside, serverVars, chainVars
<1>1. /\ page' = p /\ flow'[f] = r /\ \A g \in Flows \ {f} : flow'[g] = flow[g]
  BY DEF Goes, Becomes, PageInv, FlowsOK
<1>2. CalmPage(page)'
  BY <1>0, <1>1, QuietCalm
<1>3. Loading /\ CalmFlows /\ Unspent' = {}
  BY <1>0, QuietCalm DEF CalmInv, CalmFlows
<1>4. Loading'
  <2> SUFFICES ASSUME ~page'.addresses
               PROVE  \E g \in Flows : flow'[g].kind = "connect" /\ flow'[g].at = "deployments"
    BY DEF Loading, At
  <2>1. CASE r.kind = "connect" /\ r.at = "deployments"
    BY <1>1, <2>1
  <2>2. CASE p.addresses = page.addresses /\ ~At(f, "connect", "deployments")
    <3>1. PICK g \in Flows : At(g, "connect", "deployments")
      BY <1>1, <1>3, <2>2 DEF Loading
    <3> QED
      BY <1>1, <2>2, <3>1 DEF At
  <2> QED
    BY <1>1, <2>1, <2>2
<1>5. ASSUME NEW g \in Flows
      PROVE  /\ flow'[g].kind = "connect" \/ flow'[g] = Idle
             /\ CalmConnect(flow[g])' /\ flow'[g].kind # "mint"
  <2>1. CASE g = f
    <3>1. CalmConnect(r)'
      BY <1>0, QuietCalm
    <3> QED
      BY <1>1, <2>1, <3>1 DEF Idle
  <2>2. CASE g # f
    <3>1. PICK q : q = flow[g]
      OBVIOUS
    <3>2. (q.kind = "connect" \/ q = Idle) /\ CalmConnect(q) /\ flow'[g] = q
      BY <1>1, <1>3, <2>2, <3>1 DEF CalmFlows
    <3>3. CalmConnect(q)'
      BY <1>0, <3>2, QuietCalm
    <3> QED
      BY <3>2, <3>3 DEF Idle
  <2> QED
    BY <2>1, <2>2
<1>6. CalmFlows'
  BY <1>3, <1>5 DEF CalmFlows
<1> QED
  BY <1>2, <1>4, <1>6 DEF CalmInv

LEMMA NoMintBeside ==
    ASSUME CalmInv, troubles = 0, NEW f \in Flows, flow[f].kind = "connect"
    PROVE  \A g \in Flows : flow[g].kind # "mint"
  BY DEF CalmInv, CalmFlows, Alone, Idle

(* A connect begins only while the page has no address or is on the wrong  *)
(* network; a mint has both.                                               *)
LEMMA CalmStartsConnect ==
    ASSUME PageInv, CalmInv, troubles = 0, StartsConnect(page), Outside,
           page.address = None \/ ~page.network
    PROVE  CalmInv'
<1>1. PICK f \in Flows :
         flow[f] = Idle /\ Goes(f, Connect) /\ Becomes([page EXCEPT !.retry = FALSE])
  BY DEF StartsConnect
<1>2. ASSUME NEW g \in Flows, flow[g].kind = "mint" PROVE FALSE
  BY <1>2, CalmMintIs DEF CalmMint
<1>3. CalmPage(page) /\ DOMAIN page = PageFields
  BY DEF CalmInv, PageInv, PageOK
<1>4. PICK p : p = [page EXCEPT !.retry = FALSE]
  OBVIOUS
<1>5. CalmPage(p) /\ p.addresses = page.addresses
  BY <1>3, <1>4 DEF CalmPage, PageFields, Disconnected
<1>6. Connect.kind = "connect" /\ CalmConnect(Connect) /\ ~At(f, "connect", "deployments")
  BY <1>1 DEF Connect, CalmConnect, At, Idle
<1>7. PICK r : r = Connect
  OBVIOUS
<1> QED
  BY <1>1, <1>2, <1>4, <1>5, <1>6, <1>7, CalmConnects

LEMMA CalmConnectStep ==
    ASSUME PageInv, CalmInv, troubles = 0, NEW f \in Flows, ConnectStep(f)
    PROVE  CalmInv'
<1>0. Outside
  BY ConnectStepMoves
<1>1. flow[f].kind = "connect"
  BY DEF ConnectStep, AccountsAnswered, SignerAnswered, NetworkAnswered, DeploymentsLoaded,
         BackendAnswered, SwitchAnswered, AskComputeAccount, ComputeAnswered, LocalAnswered,
         CodeAnswered, ContractLoaded, ConnectDone, At
<1>2. CalmPage(page) /\ CalmConnect(flow[f]) /\ PageOK(page) /\ DOMAIN page = PageFields
  BY DEF CalmInv, CalmFlows, PageInv, PageOK
<1>3. \A g \in Flows : flow[g].kind # "mint"
  BY <1>1, NoMintBeside
<1>4. CalmPage(Failed(f)) /\ Failed(f).addresses = page.addresses
  BY <1>2, CalmFailed
<1>5. ASSUME NEW r, NEW p, Goes(f, r), Becomes(p), r = Idle \/ r.kind = "connect",
             CalmConnect(r), CalmPage(p),
             \/ p.addresses
             \/ r.kind = "connect" /\ r.at = "deployments"
             \/ p.addresses = page.addresses /\ flow[f].at # "deployments"
      PROVE  CalmInv'
  BY <1>0, <1>1, <1>3, <1>5, CalmConnects DEF At
<1>6. ASSUME NEW r, Goes(f, r), UNCHANGED page, r.kind = "connect", CalmConnect(r),
             flow[f].at # "deployments"
      PROVE  CalmInv'
  <2>1. PICK p : p = page
    OBVIOUS
  <2> QED
    BY <1>2, <1>5, <1>6, <2>1 DEF Becomes
<1>7. ASSUME NEW p, Ends(f, p), CalmPage(p),
             p.addresses \/ (p.addresses = page.addresses /\ flow[f].at # "deployments")
      PROVE  CalmInv'
  <2>1. CalmConnect(Idle)
    BY DEF CalmConnect, Idle
  <2>2. PICK r : r = Idle
    OBVIOUS
  <2> QED
    BY <1>5, <1>7, <2>1, <2>2 DEF Ends
<1>8. CASE AccountsAnswered(f)
  <2>1. flow[f].at = "accounts"
    BY <1>8 DEF AccountsAnswered, At
  <2>2. CASE wallet.account = None
    <3>1. PICK p : p = ClearWalletState(page)
      OBVIOUS
    <3>2. DOMAIN Kept(page) = {"addresses", "selected", "minting", "retry", "direct"}
          /\ Kept(page).addresses = page.addresses
      BY DEF Kept
    <3>3. /\ p.address = None /\ p.starkKey = None /\ p.smartAccount = None /\ ~p.ready
          /\ ~p.network /\ p.addresses = page.addresses
      BY <3>1, <3>2 DEF ClearWalletState, Merge, Disconnected
    <3> QED
      BY <1>2, <1>7, <1>8, <2>1, <2>2, <3>1, <3>3 DEF AccountsAnswered, CalmPage
  <2>3. CASE wallet.account # None
    <3>1. PICK r : r = [kind |-> "connect", at |-> "signer", account |-> wallet.account]
      OBVIOUS
    <3>2. CalmConnect(r) /\ r.kind = "connect"
      BY <3>1 DEF CalmConnect, W
    <3> QED
      BY <1>6, <1>8, <2>1, <2>3, <3>1, <3>2 DEF AccountsAnswered
  <2> QED
    BY <2>2, <2>3
<1>9. CASE SignerAnswered(f)
  <2>1. flow[f].at = "signer" /\ flow[f].account = W
    BY <1>1, <1>2, <1>9 DEF SignerAnswered, At, CalmConnect
  <2>2. PICK p : p = [page EXCEPT !.signer = flow[f].account, !.address = flow[f].account]
    OBVIOUS
  <2>3. CalmPage(p) /\ p.addresses = page.addresses
    BY <1>2, <2>1, <2>2 DEF CalmPage, PageFields, Disconnected
  <2>4. PICK r : r = [kind |-> "connect", at |-> "network"]
    OBVIOUS
  <2>5. CalmConnect(r) /\ r.kind = "connect"
    BY <2>4 DEF CalmConnect
  <2> QED
    BY <1>5, <1>9, <2>1, <2>2, <2>3, <2>4, <2>5 DEF SignerAnswered
<1>10. CASE NetworkAnswered(f)
  <2>2. PICK p : p = [page EXCEPT !.network = wallet.right, !.addresses = FALSE]
    OBVIOUS
  <2>3. CalmPage(p)
    BY <1>2, <2>2 DEF CalmPage, PageFields, Disconnected
  <2>4. PICK r : r = [kind |-> "connect", at |-> "deployments"]
    OBVIOUS
  <2>5. CalmConnect(r) /\ r.kind = "connect" /\ r.at = "deployments"
    BY <2>4 DEF CalmConnect
  <2> QED
    BY <1>5, <1>10, <2>2, <2>3, <2>4, <2>5 DEF NetworkAnswered
<1>11. CASE DeploymentsLoaded(f)
  <2>2. PICK p : p = [page EXCEPT !.addresses = TRUE]
    OBVIOUS
  <2>3. CalmPage(p) /\ p.addresses
    BY <1>2, <2>2 DEF CalmPage, PageFields, Disconnected
  <2>4. PICK r : r = [kind |-> "connect", at |-> "status"]
    OBVIOUS
  <2>5. CalmConnect(r) /\ r.kind = "connect"
    BY <2>4 DEF CalmConnect
  <2> QED
    BY <1>5, <1>11, <2>2, <2>3, <2>4, <2>5 DEF DeploymentsLoaded
<1>12. CASE BackendAnswered(f)
  <2>0. flow[f].at = "status"
    BY <1>12 DEF BackendAnswered, At
  <2>1. PICK p : p = [page EXCEPT !.starkKey = page.address]
    OBVIOUS
  <2>2. CalmPage(p) /\ p.addresses = page.addresses
    BY <1>2, <2>1 DEF CalmPage, PageFields, Disconnected
  <2>3. PICK r : r = [kind |-> "connect", at |-> "switch"]
    OBVIOUS
  <2>4. PICK q : q = [kind |-> "connect", at |-> "compatible"]
    OBVIOUS
  <2>5. CalmConnect(r) /\ r.kind = "connect" /\ CalmConnect(q) /\ q.kind = "connect"
    BY <2>3, <2>4 DEF CalmConnect
  <2>6. \/ Goes(f, r) /\ UNCHANGED page
        \/ Ends(f, Failed(f))
        \/ Becomes(p) /\ Goes(f, q)
    BY <1>12, <2>1, <2>3, <2>4 DEF BackendAnswered
  <2> QED
    BY <1>4, <1>5, <1>6, <1>7, <2>0, <2>2, <2>5, <2>6
<1>13. CASE SwitchAnswered(f)
  <2>0. flow[f].at = "switch"
    BY <1>13 DEF SwitchAnswered, At
  <2>1. PICK p : p = [page EXCEPT !.network = TRUE, !.starkKey = page.address]
    OBVIOUS
  <2>2. PICK o : o = [page EXCEPT !.network = FALSE, !.smartAccount = None, !.deployed = FALSE]
    OBVIOUS
  <2>3. PICK e : e = [Failed(f) EXCEPT !.network = TRUE]
    OBVIOUS
  <2>4. /\ wallet.right => CalmPage(p) /\ p.addresses = page.addresses
        /\ CalmPage(o) /\ o.addresses = page.addresses
    BY <1>2, <2>1, <2>2 DEF CalmPage, PageFields, Disconnected
  <2>5. wallet.right => CalmPage(e) /\ e.addresses = page.addresses
    BY <1>2, <2>3 DEF Failed, CalmPage, PageFields, Disconnected
  <2>6. PICK q : q = [kind |-> "connect", at |-> "compatible"]
    OBVIOUS
  <2>7. CalmConnect(q) /\ q.kind = "connect"
    BY <2>6 DEF CalmConnect
  <2>8. Ends(f, o) \/ (wallet.right /\ (Ends(f, e) \/ (Becomes(p) /\ Goes(f, q))))
    BY <1>13, <2>1, <2>2, <2>3, <2>6 DEF SwitchAnswered
  <2> QED
    BY <1>5, <1>7, <2>0, <2>4, <2>5, <2>7, <2>8
<1>14. ASSUME AskEligibility(f, "connect"), flow[f].at # "deployments" PROVE CalmInv'
  <2>1. PICK p : p = [page EXCEPT !.checked = FALSE, !.eligible = FALSE, !.listening = TRUE]
    OBVIOUS
  <2>2. CalmPage(p) /\ p.addresses = page.addresses
    BY <1>2, <2>1 DEF CalmPage, PageFields, Disconnected
  <2>3. PICK r : r = [kind |-> "connect", at |-> "eligibility", who |-> page.address]
    OBVIOUS
  <2>4. CalmConnect(r) /\ r.kind = "connect"
    BY <2>3 DEF CalmConnect
  <2>5. Ends(f, p) \/ (Goes(f, r) /\ UNCHANGED page)
    BY <1>14, <2>1, <2>3 DEF AskEligibility
  <2> QED
    BY <1>6, <1>7, <1>14, <2>2, <2>4, <2>5
<1>15. CASE AskComputeAccount(f)
  <2>0. flow[f].at = "compatible"
    BY <1>15 DEF AskComputeAccount, At
  <2>1. PICK r : r = [kind |-> "connect", at |-> "compute",
                      theirs |-> <<page.address, page.starkKey>>]
    OBVIOUS
  <2>2. CalmConnect(r) /\ r.kind = "connect"
    BY <2>1 DEF CalmConnect
  <2>3. AskEligibility(f, "connect") \/ (Goes(f, r) /\ UNCHANGED page)
    BY <1>15, <2>1 DEF AskComputeAccount
  <2> QED
    BY <1>6, <1>14, <2>0, <2>2, <2>3
<1>16. CASE ComputeAnswered(f)
  <2>0. flow[f].at = "compute"
    BY <1>16 DEF ComputeAnswered, At
  <2>1. CASE page.address = None \/ page.starkKey = None \/ ~page.addresses
    BY <1>4, <1>7, <1>16, <2>0, <2>1 DEF ComputeAnswered
  <2>2. CASE ~(page.address = None \/ page.starkKey = None \/ ~page.addresses)
    <3>1. PICK r : r = [kind |-> "connect", at |-> "local", theirs |-> flow[f].theirs,
                        ours |-> <<page.address, page.starkKey>>]
      OBVIOUS
    <3>2. r.ours = Own /\ r.kind = "connect" /\ r.at = "local"
      BY <1>2, <2>2, <3>1 DEF CalmPage, Own, SmartAccountOf
    <3>3. CalmConnect(r)
      BY <3>2 DEF CalmConnect
    <3>4. Goes(f, r) /\ UNCHANGED page
      BY <1>16, <2>2, <3>1 DEF ComputeAnswered
    <3> QED
      BY <1>6, <2>0, <3>2, <3>3, <3>4
  <2> QED
    BY <2>1, <2>2
<1>17. CASE LocalAnswered(f)
  <2>0. flow[f].at = "local" /\ flow[f].ours = Own
    BY <1>1, <1>2, <1>17 DEF LocalAnswered, At, CalmConnect
  <2>1. PICK p : p = [page EXCEPT !.smartAccount = flow[f].ours]
    OBVIOUS
  <2>2. CalmPage(p) /\ p.addresses = page.addresses
    BY <1>2, <2>0, <2>1 DEF CalmPage, PageFields, Disconnected
  <2>3. PICK r : r = [kind |-> "connect", at |-> "code", there |-> flow[f].ours \in deployed]
    OBVIOUS
  <2>4. CalmConnect(r) /\ r.kind = "connect"
    BY <2>3 DEF CalmConnect
  <2>5. Ends(f, Failed(f)) \/ (Becomes(p) /\ Goes(f, r))
    BY <1>17, <2>1, <2>3 DEF LocalAnswered
  <2> QED
    BY <1>4, <1>5, <1>7, <2>0, <2>2, <2>4, <2>5
<1>18. CASE CodeAnswered(f)
  <2>0. flow[f].at = "code"
    BY <1>18 DEF CodeAnswered, At
  <2>1. PICK p : p = [page EXCEPT !.deployed = flow[f].there]
    OBVIOUS
  <2>2. CalmPage(p) /\ p.addresses = page.addresses
    BY <1>2, <2>1 DEF CalmPage, PageFields, Disconnected
  <2>3. PICK r : r = [kind |-> "connect", at |-> "loaded"]
    OBVIOUS
  <2>4. CalmConnect(r) /\ r.kind = "connect"
    BY <2>3 DEF CalmConnect
  <2> QED
    BY <1>5, <1>18, <2>0, <2>1, <2>2, <2>3, <2>4 DEF CodeAnswered
<1>19. CASE ContractLoaded(f)
  <2>0. flow[f].at = "loaded"
    BY <1>19 DEF ContractLoaded, At
  <2> QED
    BY <1>14, <1>19, <2>0 DEF ContractLoaded
<1>20. CASE ConnectDone(f)
  <2>0. flow[f].at = "eligibility"
    BY <1>20 DEF ConnectDone, At
  <2>1. PICK p : p = [Learned(flow[f].who) EXCEPT !.listening = TRUE]
    OBVIOUS
  <2>2. CalmPage(p) /\ p.addresses = page.addresses
    BY <1>2, <2>1 DEF Learned, CalmPage, PageFields, Disconnected
  <2> QED
    BY <1>7, <1>20, <2>0, <2>1, <2>2 DEF ConnectDone
<1> QED
  BY <1>8, <1>9, <1>10, <1>11, <1>12, <1>13, <1>15, <1>16, <1>17, <1>18, <1>19, <1>20
     DEF ConnectStep

(* The user's scrolling and choosing: a choice is not free while a mint    *)
(* that reads it is on its way.                                            *)
LEMMA CalmFlowsStay ==
    ASSUME PageInv, CalmInv, troubles = 0, NEW p, page' = p, UNCHANGED flow,
           UNCHANGED <<wallet, deployed, nonce, issued, tokens, expired, adrift>>,
           Unspent' \subseteq Unspent, CalmPage(p), p.addresses = page.addresses,
           \A f \in Flows : flow[f].kind = "mint" => CalmMint(flow[f], p)
    PROVE  CalmInv'
<1>1. flow' = flow /\ Loading /\ CalmFlows
  BY DEF CalmInv
<1>2. CalmPage(page)'
  BY CalmStays
<1>3. Loading'
  BY <1>1 DEF Loading, At
<1>4. ASSUME NEW g \in Flows
      PROVE  /\ flow'[g].kind \in {"connect", "mint"} \/ flow'[g] = Idle
             /\ CalmConnect(flow[g])'
             /\ flow'[g].kind = "mint" => Alone(g)' /\ CalmMint(flow[g], page)'
  <2>1. PICK q : q = flow[g]
    OBVIOUS
  <2>2. /\ q.kind \in {"connect", "mint"} \/ q = Idle
        /\ CalmConnect(q) /\ flow'[g] = q
        /\ q.kind = "mint" => Alone(g) /\ CalmMint(q, p)
    BY <1>1, <2>1 DEF CalmFlows
  <2>3. CalmConnect(q)' /\ (q.kind = "mint" => CalmMint(q, p)')
    BY <2>2, CalmStays
  <2>4. Alone(g) => Alone(g)'
    BY <1>1 DEF Alone
  <2> QED
    BY <1>1, <2>2, <2>3, <2>4
<1>5. (\A g \in Flows : flow'[g].kind # "mint") => Unspent' = {}
  BY <1>1 DEF CalmFlows
<1>6. CalmFlows'
  BY <1>4, <1>5 DEF CalmFlows
<1> QED
  BY <1>2, <1>3, <1>6 DEF CalmInv

LEMMA CalmPageChange ==
    ASSUME PageInv, CalmInv, troubles = 0, NEW p, Becomes(p), UNCHANGED flow, Outside,
           CalmPage(p), p.addresses = page.addresses,
           \A f \in Flows : flow[f].kind = "mint" => CalmMint(flow[f], p)
    PROVE  CalmInv'
<1>1. UNCHANGED <<wallet, deployed, nonce, issued, tokens, totalSupply, expired, adrift>>
      /\ page' = p
  BY DEF Outside, serverVars, chainVars, Becomes
<1>2. Unspent' = Unspent
  BY <1>1, QuietCalm
<1> QED
  BY <1>1, <1>2, CalmFlowsStay

(* A mint of someone else's takes supply, and spoils proofs at most.       *)
LEMMA CalmOthersMint ==
    ASSUME PageInv, CalmInv, troubles = 0, OthersMint PROVE CalmInv'
<1>1. /\ UNCHANGED <<wallet, page, flow, deployed, nonce, issued, tokens, expired, adrift>>
      /\ totalSupply' = totalSupply + 1
  BY DEF OthersMint, serverVars
<1>2. Unspent' \subseteq Unspent
  <2>1. totalSupply \in Nat /\ MaxSupply \in Nat
    BY PageAssumption DEF PageInv, ChainOK
  <2>2. totalSupply' < MaxSupply => totalSupply < MaxSupply
    BY <1>1, <2>1
  <2> QED
    BY <1>1, <2>2 DEF Unspent, CouldMint
<1>3. PICK p : p = page
  OBVIOUS
<1>4. CalmPage(p) /\ \A f \in Flows : flow[f].kind = "mint" => CalmMint(flow[f], p)
  BY <1>3 DEF CalmInv, CalmFlows
<1> QED
  BY <1>1, <1>2, <1>3, <1>4, CalmFlowsStay

LEMMA CalmScrolls ==
    ASSUME PageInv, CalmInv, troubles = 0, Scroll PROVE CalmInv'
<1>1. PICK p : p = [page EXCEPT !.ready = TRUE, !.locked = TRUE]
  OBVIOUS
<1>2. DOMAIN page = PageFields /\ CalmPage(page)
  BY DEF PageInv, PageOK, CalmInv
<1>3. /\ p.addresses = page.addresses /\ p.address = page.address /\ p.starkKey = page.starkKey
      /\ p.smartAccount = page.smartAccount /\ p.deployed = page.deployed
      /\ p.network = page.network /\ p.selected = page.selected /\ p.locked
  BY <1>1, <1>2 DEF PageFields, Disconnected
<1>4. CalmPage(p)
  BY <1>2, <1>3 DEF CalmPage
<1>5. ASSUME NEW f \in Flows, flow[f].kind = "mint" PROVE CalmMint(flow[f], p)
  <2>1. CalmMint(flow[f], page)
    BY <1>5, CalmMintIs
  <2>2. Claim(p) = Claim(page)
    BY <1>3 DEF Claim
  <2>3. CalmAccount(flow[f], p) /\ CalmClaim(flow[f], p) /\ CalmOp(flow[f], p)
    BY <1>3, <2>1, <2>2 DEF CalmMint, CalmAccount, CalmClaim, CalmOp
  <2> QED
    BY <1>3, <2>1, <2>3 DEF CalmMint
<1> QED
  BY <1>1, <1>3, <1>4, <1>5, CalmPageChange DEF Scroll

LEMMA CalmSelects ==
    ASSUME PageInv, CalmInv, troubles = 0, NEW t \in Traits, SelectConfig(t) PROVE CalmInv'
<1>1. PICK p : p = [page EXCEPT !.selected = t]
  OBVIOUS
<1>2. DOMAIN page = PageFields /\ CalmPage(page) /\ ~page.locked
  BY DEF PageInv, PageOK, CalmInv, SelectConfig, MaySelect
<1>3. /\ p.addresses = page.addresses /\ p.address = page.address /\ p.starkKey = page.starkKey
      /\ p.smartAccount = page.smartAccount /\ p.deployed = page.deployed
      /\ p.network = page.network /\ p.ready = page.ready /\ p.locked = page.locked
  BY <1>1, <1>2 DEF PageFields, Disconnected
<1>4. CalmPage(p)
  BY <1>2, <1>3 DEF CalmPage
<1>5. ASSUME NEW f \in Flows, flow[f].kind = "mint" PROVE CalmMint(flow[f], p)
  <2>1. CalmMint(flow[f], page)
    BY <1>5, CalmMintIs
  <2>2. flow[f].at \in {"mined", "confirmed", "refresh"}
    BY <1>2, <2>1 DEF CalmMint
  <2>3. Unspent = {}
    BY <2>1, <2>2 DEF CalmMint, CalmClaim, Granted, Asking, Holding, Sending
  <2> QED
    BY <1>3, <2>1, <2>2, <2>3
       DEF CalmMint, CalmSignIn, CalmAccount, CalmClaim, CalmOp, Asks, Granted, Asking, Holding,
           Sending
<1> QED
  BY <1>1, <1>3, <1>4, <1>5, CalmPageChange DEF SelectConfig

(* A click that is no trouble begins the only flow there is. *)
LEMMA CalmClicks ==
    ASSUME PageInv, CalmInv, troubles = 0, NEW f \in Flows, ClickMint(f), troubles' = 0
    PROVE  CalmInv'
<1>0. UNCHANGED <<wallet, deployed, nonce, issued, tokens, totalSupply, expired, adrift>>
  BY DEF ClickMint, serverVars, chainVars
<1>1. ~Others(f) /\ flow[f] = Idle
  BY DEF ClickMint
<1>2. Alone(f) /\ \A g \in Flows : flow[g] = Idle
  BY <1>1 DEF Others, Alone
<1>3. CalmPage(page) /\ DOMAIN page = PageFields /\ page.addresses /\ Unspent = {}
  BY <1>2 DEF CalmInv, CalmFlows, Loading, At, Idle, PageInv, PageOK
<1>4. page.address = W /\ W \in Accounts /\ page.network /\ page.locked
  <2>1. page.address # None /\ page.network /\ page.ready
    BY DEF ClickMint
  <2> QED
    BY <1>3, <2>1 DEF CalmPage, PageInv, PageOK
<1>5. ASSUME NEW r, NEW p, Goes(f, r), Becomes(p), r.kind = "mint",
             r.at \in {"eligibility", "begun"}, p.address = W, p.network, p.locked,
             p.starkKey = page.starkKey, p.smartAccount = page.smartAccount, p.addresses
      PROVE  CalmInv'
  <2>1. CalmMint(r, p)
    BY <1>3, <1>4, <1>5
       DEF CalmMint, CalmSignIn, CalmAccount, CalmClaim, CalmOp, Asks, Granted, Asking, Holding,
           Sending
  <2>2. CalmPage(p)
    BY <1>3, <1>4, <1>5 DEF CalmPage
  <2> QED
    BY <1>0, <1>2, <1>5, <2>1, <2>2, QuietCalm, CalmMintGoesOn
<1>6. CASE page.checked
  <2>1. PICK p : p = Begun(page)
    OBVIOUS
  <2>2. /\ p.address = W /\ p.network /\ p.locked /\ p.addresses
        /\ p.starkKey = page.starkKey /\ p.smartAccount = page.smartAccount
    BY <1>3, <1>4, <2>1 DEF Begun, PageFields, Disconnected
  <2>3. Mint("begun").kind = "mint" /\ Mint("begun").at = "begun"
    BY DEF Mint
  <2> QED
    BY <1>5, <1>6, <2>1, <2>2, <2>3 DEF ClickMint
<1>7. CASE ~page.checked
  <2>1. PICK p : p = [page EXCEPT !.retry = FALSE]
    OBVIOUS
  <2>2. /\ p.address = W /\ p.network /\ p.locked /\ p.addresses
        /\ p.starkKey = page.starkKey /\ p.smartAccount = page.smartAccount
    BY <1>3, <1>4, <2>1 DEF PageFields, Disconnected
  <2>3. PICK n : n = Merge(Mint("eligibility"), [who |-> page.address])
    OBVIOUS
  <2>4. n.kind = "mint" /\ n.at = "eligibility"
    BY <2>3 DEF Merge, Mint
  <2> QED
    BY <1>5, <1>7, <2>1, <2>2, <2>3, <2>4 DEF ClickMint
<1> QED
  BY <1>6, <1>7

LEMMA CalmMintStep ==
    ASSUME PageInv, CalmInv, troubles = 0, NEW f \in Flows, MintStep(f) PROVE CalmInv'
<1>1. CASE \/ EligibilityAnswered(f) \/ DoMint4337(f) \/ RequestMintProof(f)
  BY <1>1, CalmToTheBackend
<1>2. CASE \/ CompatibilityAnswered(f) \/ ChallengeAnswered(f) \/ ChallengeSigned(f)
           \/ VerifyAnswered(f)
  BY <1>2, CalmSignsIn
<1>3. CASE PostMintProof(f)
  BY <1>3, CalmPostMintProof
<1>4. CASE \/ MintProofRefused(f) \/ MintProofArrives(f) \/ RequestActionProof(f)
           \/ PostActionProof(f)
  BY <1>4, CalmWithTheProof
<1>5. CASE \/ BuildMintUserOp(f) \/ AskSponsorship(f) \/ SelfPays(f) \/ SponsorshipAnswered(f)
           \/ SendUserOp(f) \/ CreateDirectly(f) \/ AccountCreated(f) \/ MintDirectly(f)
  BY <1>5, CalmToTheChain
<1>6. CASE CreationMined(f)
  BY <1>6, CalmCreationMined
<1>7. CASE \/ Mined(f) \/ Reverts(f) \/ SentElsewhere(f)
           \/ MintConfirmed(f) \/ Refresh(f) \/ MintDone(f)
  BY <1>7, CalmLands
<1> QED
  BY <1>1, <1>2, <1>3, <1>4, <1>5, <1>6, <1>7 DEF MintStep

-----------------------------------------------------------------------------
LEMMA InitCalm == Init => CalmInv
<1> SUFFICES ASSUME Init PROVE CalmInv
  OBVIOUS
<1>1. PICK t \in Traits, direct \in BOOLEAN :
         page = Merge([Disconnected EXCEPT !.listening = TRUE],
                      [addresses |-> TRUE, selected |-> t, minting |-> FALSE, retry |-> FALSE,
                       direct |-> direct])
  BY DEF Init
<1>2. /\ page.address = None /\ page.starkKey = None /\ page.smartAccount = None
      /\ page.ready = FALSE /\ page.network = FALSE /\ page.addresses = TRUE
  BY <1>1 DEF Merge, Disconnected
<1>3. CalmPage(page) /\ Loading
  BY <1>2 DEF Init, CalmPage, Loading
<1>4. Unspent = {} /\ \A f \in Flows : flow[f] = Idle
  BY DEF Init, Unspent
<1>5. CalmFlows
  BY <1>4 DEF CalmFlows, CalmConnect, Idle
<1> QED
  BY <1>3, <1>5 DEF CalmInv

LEMMA NextCalm == PageInv /\ CalmInv /\ [Next]_vars => CalmInv'
<1> SUFFICES ASSUME PageInv, CalmInv, [Next]_vars, troubles' = 0 PROVE CalmInv'
  BY DEF CalmInv
<1>1. troubles \in Nat
  BY PageAssumption DEF PageInv
<1>2. CASE ClickConnect \/ SwitchNetwork
  <2>1. StartsConnect(page) /\ Outside /\ (page.address = None \/ ~page.network)
    BY <1>2 DEF ClickConnect, SwitchNetwork
  <2>2. troubles = 0
    BY <2>1 DEF Outside
  <2> QED
    BY <2>1, <2>2, CalmStartsConnect
<1>3. CASE Scroll
  BY <1>3, CalmScrolls DEF Scroll, Outside
<1>4. ASSUME NEW t \in Traits, SelectConfig(t) PROVE CalmInv'
  BY <1>4, CalmSelects DEF SelectConfig, Outside
<1>5. ASSUME NEW f \in Flows, ClickMint(f) PROVE CalmInv'
  <2>1. troubles' = troubles + (IF Others(f) THEN 1 ELSE 0)
    BY <1>5 DEF ClickMint
  <2>2. troubles = 0
    BY <1>1, <2>1
  <2> QED
    BY <1>5, <2>2, CalmClicks
<1>6. ASSUME NEW f \in Flows, ConnectStep(f) PROVE CalmInv'
  <2>1. Outside
    BY <1>6, ConnectStepMoves
  <2>2. troubles = 0
    BY <2>1 DEF Outside
  <2> QED
    BY <1>6, <2>2, CalmConnectStep
<1>7. ASSUME NEW f \in Flows, MintStep(f) PROVE CalmInv'
  <2>1. UNCHANGED troubles
    BY <1>7
       DEF MintStep, EligibilityAnswered, DoMint4337, RequestMintProof, CompatibilityAnswered,
           ChallengeAnswered, ChallengeSigned, VerifyAnswered, PostMintProof, MintProofRefused,
           MintProofArrives, RequestActionProof, PostActionProof, BuildMintUserOp,
           AskSponsorship, SelfPays, SponsorshipAnswered, SendUserOp, CreateDirectly,
           CreationMined, AccountCreated, MintDirectly, Mined, Reverts, SentElsewhere,
           MintConfirmed, Refresh, MintDone, Outside
  <2> QED
    BY <1>7, <2>1, CalmMintStep
<1>8. CASE Trouble
  BY <1>1, <1>8 DEF Trouble
<1>9. CASE UNCHANGED vars
  <2>1. UNCHANGED <<wallet, page, flow, serverVars, chainVars, troubles>>
    BY <1>9 DEF vars
  <2>2. PICK p : p = page
    OBVIOUS
  <2>3. CalmPage(p) /\ \A f \in Flows : flow[f].kind = "mint" => CalmMint(flow[f], p)
    BY <2>1, <2>2 DEF CalmInv, CalmFlows
  <2> QED
    BY <2>1, <2>2, <2>3, CalmPageChange DEF Outside, Becomes
<1>10. CASE OthersMint
  <2>1. troubles = 0
    BY <1>10 DEF OthersMint
  <2> QED
    BY <1>10, <2>1, CalmOthersMint
<1>11. ASSUME NEW r \in adrift, MinedLate(r) PROVE CalmInv'
  <2>1. troubles = 0
    BY <1>11 DEF MinedLate
  <2> QED
    BY <1>11, <2>1 DEF CalmInv, CalmPage
<1> QED
  BY <1>2, <1>3, <1>4, <1>5, <1>6, <1>7, <1>8, <1>9, <1>10, <1>11 DEF Next

LEMMA AlwaysCalm == Spec => []CalmInv
<1>1. PageInv /\ CalmInv /\ [Next]_vars => PageInv' /\ CalmInv'
  BY NextPage, NextCalm
<1> QED
  BY <1>1, InitPage, InitCalm, PTL DEF Spec

LEMMA NothingLost == PageInv /\ CalmInv => CalmMintsLoseNothing
<1> SUFFICES ASSUME PageInv, CalmInv, troubles = 0, NEW p \in Unspent PROVE InHand(p)
  BY DEF CalmMintsLoseNothing, UsableLost, LostProofs, Unspent
<1>1. PICK f \in Flows : flow[f].kind = "mint"
  BY DEF CalmInv, CalmFlows
<1>2. CalmMint(flow[f], page)
  BY <1>1, CalmMintIs
<1>3. Granted(flow[f]) /\ p = flow[f].proof
  BY <1>2 DEF CalmMint, CalmClaim, HeldOnly
<1>4. MintOK(flow[f], issued)
  BY <1>1 DEF PageInv, FlowsOK, FlowOK, ConnectOK, Idle
<1>5. "proof" \in DOMAIN flow[f]
  BY <1>3, <1>4 DEF Granted, MintOK, HasProof, HasOp, Asking, Holding, Sending
<1> QED
  BY <1>3, <1>5 DEF InHand

(* While no await fails, no proof expires, the wallet keeps its account    *)
(* and network and no mint begins beside another flow, every proof that    *)
(* requestProof got for a palette the contract knows, and with it the slot *)
(* it took, is spent or in the hands of the mint that asked for it, unless *)
(* the contract is sold out: no other check of buildMintUserOp, handleOps, *)
(* the factory, the gate or the token contract can throw it away.          *)
THEOREM CalmMintsKeepTheirProofs == Spec => []CalmMintsLoseNothing
<1>1. PageInv /\ CalmInv => CalmMintsLoseNothing
  BY NothingLost
<1> QED
  BY <1>1, AlwaysPageInv, AlwaysCalm, PTL
=============================================================================
