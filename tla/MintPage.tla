------------------------------ MODULE MintPage ------------------------------
(***************************************************************************)
(* frontend/mint.js: the mint page, between a browser wallet whose account *)
(* and network change at any time, the proof server and the chain.         *)
(*                                                                         *)
(* A flow is one run of connectWallet or of doMint.  It stops at every     *)
(* await and goes on when the answer comes; several run at once and all    *)
(* read and write the one global `state`, here the record `page`.  An      *)
(* answer is computed when it is asked for and may come late.              *)
(***************************************************************************)
EXTENDS Naturals, FiniteSets

CONSTANTS
    Accounts,           \* the wallet's accounts
    AllowedAddress,     \* the one on the allowlist
    None,               \* null
    Traits,             \* the Phils one can click
    Mintable,           \* the ones whose palette PhilTestMint takes
    MaxSupply,          \* MAX_SUPPLY of PhilTestMint
    Slots,              \* allowlist slots
    Flows,              \* bound: flows at once
    MaxTroubles         \* bound: see `troubles`

(* A smart account is its owner and the stark key its address was made     *)
(* from; the key is made from the wallet account, and named by it.         *)
SmartAccounts == Accounts \X Accounts
SmartAccountOf(a) == <<a, a>>

ASSUME PageAssumption ==
    /\ AllowedAddress \in Accounts /\ None \notin Accounts \cup Traits
    /\ LET Creations == [recipient : Accounts, hash : SmartAccounts]
       IN None \notin Creations \cup [account : SmartAccounts, proof : Creations]
    /\ Mintable \subseteq Traits
    /\ Slots \in Nat /\ MaxSupply \in Nat /\ MaxTroubles \in Nat

VARIABLES
    wallet,     \* the extension: its account, and whether it is on the target network
    page,       \* `state` and the deployment addresses
    flow,       \* the runs of connectWallet and doMint, each at one of its awaits
    slotsLeft,
    issued,     \* mint proofs the server has signed, [id, claim]
    deployed,   \* smart accounts that exist
    nonce,      \* the EntryPoint nonce of each smart account
    tokens,     \* mint proofs the chain has redeemed
    totalSupply,    \* of PhilTestMint, which mints for others too
    expired,    \* proofs past their expiry
    adrift,     \* submissions the page gave up on that may still be mined
    troubles    \* wallet events, failed awaits, and mints begun beside another flow

serverVars == <<slotsLeft, issued>>
chainVars == <<deployed, nonce, tokens, totalSupply, expired, adrift>>
vars == <<wallet, page, flow, serverVars, chainVars, troubles>>

Idle == [kind |-> "none", at |-> "idle"]

Disconnected ==
    [address |-> None, signer |-> None, smartAccount |-> None, starkKey |-> None,
     deployed |-> FALSE, network |-> FALSE, token |-> None,
     checked |-> FALSE, eligible |-> FALSE, ready |-> FALSE, locked |-> FALSE,
     listening |-> FALSE]
Kept(p) == [addresses |-> p.addresses, selected |-> p.selected, minting |-> p.minting,
            retry |-> p.retry, direct |-> p.direct]

Merge(r, s) == [k \in DOMAIN r \cup DOMAIN s |-> IF k \in DOMAIN s THEN s[k] ELSE r[k]]

ClearAllButSigner(p) == Merge(Disconnected, Merge(Kept(p), [signer |-> p.signer]))
ClearWalletState(p) == Merge(Disconnected, Kept(p))

Init ==
    /\ wallet \in [account : Accounts \cup {None}, right : BOOLEAN]
    /\ \E t \in Traits, direct \in BOOLEAN :    \* no EntryPoint, or FORCE_DIRECT_LOCAL_AA
          page = Merge([Disconnected EXCEPT !.listening = TRUE],
                       [addresses |-> TRUE, selected |-> t, minting |-> FALSE, retry |-> FALSE,
                        direct |-> direct])
    /\ flow = [f \in Flows |-> Idle]
    /\ slotsLeft = Slots /\ issued = {}
    /\ deployed = {} /\ nonce = [s \in SmartAccounts |-> 0] /\ tokens = {}
    /\ totalSupply = 0 /\ expired = {} /\ adrift = {}
    /\ troubles = 0

-----------------------------------------------------------------------------
Goes(f, record) == flow' = [flow EXCEPT ![f] = record]
Becomes(p) == page' = p
At(f, kind, place) == flow[f].kind = kind /\ flow[f].at = place
Outside == UNCHANGED <<wallet, serverVars, chainVars, troubles>>

Ends(f, p) == Goes(f, Idle) /\ Becomes(p)

(* What a flow that throws leaves: doMint's `finally`, and the retry button *)
(* after a refused proof only.                                              *)
Failed(f) ==
    [page EXCEPT !.retry = FALSE,
                 !.minting = @ /\ (flow[f].kind # "mint" \/ flow[f].at = "eligibility")]

-----------------------------------------------------------------------------
(* connectWallet. *)
Connect == [kind |-> "connect", at |-> "accounts"]

StartsConnect(p) ==
    \E f \in Flows :
        /\ flow[f] = Idle
        /\ Goes(f, Connect) /\ Becomes([p EXCEPT !.retry = FALSE])

ClickConnect ==
    /\ page.address = None
    /\ StartsConnect(page)
    /\ Outside

AccountsAnswered(f) ==
    /\ At(f, "connect", "accounts")
    /\ IF wallet.account = None THEN Ends(f, ClearWalletState(page))
       ELSE /\ Goes(f, [kind |-> "connect", at |-> "signer", account |-> wallet.account])
            /\ UNCHANGED page
    /\ Outside

SignerAnswered(f) ==
    /\ At(f, "connect", "signer")
    /\ Becomes([page EXCEPT !.signer = flow[f].account, !.address = flow[f].account])
    /\ Goes(f, [kind |-> "connect", at |-> "network"])
    /\ Outside

(* ... and loadDeployments forgets every address before it fetches them.   *)
NetworkAnswered(f) ==
    /\ At(f, "connect", "network")
    /\ Becomes([page EXCEPT !.network = wallet.right, !.addresses = FALSE])
    /\ Goes(f, [kind |-> "connect", at |-> "deployments"])
    /\ Outside

DeploymentsLoaded(f) ==
    /\ At(f, "connect", "deployments")
    /\ Becomes([page EXCEPT !.addresses = TRUE])
    /\ Goes(f, [kind |-> "connect", at |-> "status"])
    /\ Outside

(* fetchBackendStatus has answered; on the wrong network the user is asked *)
(* to switch, which fires chainChanged by itself.  Another connect may have *)
(* emptied the addresses again, or this one's fetch of them have failed.   *)
CannotPrepare == page.address = None \/ ~page.addresses

BackendAnswered(f) ==
    /\ At(f, "connect", "status")
    /\ IF ~page.network
       THEN Goes(f, [kind |-> "connect", at |-> "switch"]) /\ UNCHANGED page
       ELSE IF CannotPrepare THEN Ends(f, Failed(f))
       ELSE /\ Becomes([page EXCEPT !.starkKey = page.address])
            /\ Goes(f, [kind |-> "connect", at |-> "compatible"])
    /\ Outside

SwitchAnswered(f) ==
    /\ At(f, "connect", "switch")
    /\ IF ~wallet.right
       THEN Ends(f, [page EXCEPT !.network = FALSE, !.smartAccount = None, !.deployed = FALSE])
       ELSE IF CannotPrepare THEN Ends(f, [Failed(f) EXCEPT !.network = TRUE])
       ELSE /\ Becomes([page EXCEPT !.network = TRUE, !.starkKey = page.address])
            /\ Goes(f, [kind |-> "connect", at |-> "compatible"])
    /\ Outside

(* refreshEligibility, for the address of this moment. *)
AskEligibility(f, kind) ==
    IF page.address = None
    THEN IF kind = "mint" THEN Ends(f, [page EXCEPT !.checked = FALSE, !.eligible = FALSE])
         ELSE Ends(f, [page EXCEPT !.checked = FALSE, !.eligible = FALSE, !.listening = TRUE])
    ELSE /\ Goes(f, [kind |-> kind, at |-> "eligibility", who |-> page.address])
         /\ UNCHANGED page

(* computeSmartAccountAddress asks the server, then the factory, each for  *)
(* the address and key of the moment, and compares.                        *)
AskComputeAccount(f) ==
    /\ At(f, "connect", "compatible")
    /\ IF page.address = None \/ page.starkKey = None THEN AskEligibility(f, "connect")
       ELSE /\ Goes(f, [kind |-> "connect", at |-> "compute",
                        theirs |-> <<page.address, page.starkKey>>])
            /\ UNCHANGED page
    /\ Outside

ComputeAnswered(f) ==
    /\ At(f, "connect", "compute")
    /\ IF page.address = None \/ page.starkKey = None \/ ~page.addresses THEN Ends(f, Failed(f))
       ELSE /\ Goes(f, [kind |-> "connect", at |-> "local", theirs |-> flow[f].theirs,
                        ours |-> <<page.address, page.starkKey>>])
            /\ UNCHANGED page
    /\ Outside

LocalAnswered(f) ==
    /\ At(f, "connect", "local")
    /\ IF flow[f].ours # flow[f].theirs THEN Ends(f, Failed(f))
       ELSE /\ Becomes([page EXCEPT !.smartAccount = flow[f].ours])
            /\ Goes(f, [kind |-> "connect", at |-> "code", there |-> flow[f].ours \in deployed])
    /\ Outside

(* loadVaultState and loadContractState only read and show.                *)
CodeAnswered(f) ==
    /\ At(f, "connect", "code")
    /\ Becomes([page EXCEPT !.deployed = flow[f].there])
    /\ Goes(f, [kind |-> "connect", at |-> "loaded"])
    /\ Outside

ContractLoaded(f) ==
    /\ At(f, "connect", "loaded")
    /\ AskEligibility(f, "connect")
    /\ Outside

Learned(who) == [page EXCEPT !.checked = TRUE, !.eligible = (who = AllowedAddress)]

ConnectDone(f) ==
    /\ At(f, "connect", "eligibility")
    /\ Ends(f, [Learned(flow[f].who) EXCEPT !.listening = TRUE])
    /\ Outside

(* The switch button, once the wallet has switched. *)
SwitchNetwork ==
    /\ page.address # None /\ ~page.network /\ wallet.right
    /\ StartsConnect(page)
    /\ Outside

-----------------------------------------------------------------------------
(* The user scrolls and clicks Phils. *)
Scroll ==
    /\ ~page.ready
    /\ Becomes([page EXCEPT !.ready = TRUE, !.locked = TRUE])
    /\ UNCHANGED flow /\ Outside

AnyPhil(t) == TRUE
MaySelect(t) == ~page.locked

SelectConfig(t) ==
    /\ t # page.selected /\ MaySelect(t)
    /\ Becomes([page EXCEPT !.selected = t])
    /\ UNCHANGED flow /\ Outside

-----------------------------------------------------------------------------
(* Without a sponsorship the mint goes on and pays for itself; without a   *)
(* proof it is over.                                                       *)
Sign(f, p) ==
    IF p.signer = None THEN Ends(f, [Failed(f) EXCEPT !.token = p.token])
    ELSE Goes(f, Merge(flow[f], [at |-> "sign", by |-> p.signer])) /\ Becomes(p)
Throws(f, p) ==
    IF flow[f].for = "pay" THEN Sign(f, p)
    ELSE Ends(f, [Failed(f) EXCEPT !.token = p.token])

(* ensureBackendAuthToken: one sign-in, kept for the next request.  A flow *)
(* asks `for` something; `sent` is the request's body, fixed before.       *)
AskToken(f, record) ==
    IF page.address = None THEN Throws(f, page)
    ELSE /\ IF page.token # None /\ page.token.recipient = page.address
            THEN Goes(f, Merge(record, [at |-> "post", auth |-> page.token.of]))
            ELSE Goes(f, Merge(record, [at |-> "challenge", current |-> page.address,
                                        challenged |-> page.address]))
         /\ UNCHANGED page

TokenForPage(f) == [recipient |-> page.address, of |-> flow[f].verified]
TokenFor(f) == [recipient |-> flow[f].current, of |-> flow[f].verified]

ChallengeAnswered(f) ==
    /\ At(f, "mint", "challenge")
    /\ IF page.signer = None THEN Throws(f, page)
       ELSE /\ Goes(f, Merge(flow[f], [at |-> "signing", by |-> page.signer]))
            /\ UNCHANGED page
    /\ Outside

ChallengeSigned(f) ==
    /\ At(f, "mint", "signing")
    /\ Goes(f, Merge(flow[f], [at |-> "verify", verified |-> page.address]))
    /\ UNCHANGED page /\ Outside

(* /auth/verify: the challenge of this recipient, signed by this recipient *)
VerifyAccepts(f) ==
    /\ flow[f].verified = flow[f].challenged
    /\ flow[f].by = flow[f].verified

VerifyAnswered(f) ==
    /\ At(f, "mint", "verify")
    /\ IF VerifyAccepts(f)
       THEN /\ Becomes([page EXCEPT !.token = TokenFor(f)])
            /\ Goes(f, Merge(flow[f], [at |-> "post", auth |-> flow[f].verified]))
       ELSE Throws(f, [page EXCEPT !.token = None])
    /\ Outside

-----------------------------------------------------------------------------
(* doMint. *)
ButtonOffered ==
    page.network /\ page.checked /\ page.eligible /\ page.ready /\ ~page.minting

Others(f) == \E g \in Flows \ {f} : flow[g] # Idle

Begun(p) == [p EXCEPT !.minting = TRUE, !.retry = FALSE]
Mint(place) == [kind |-> "mint", at |-> place, for |-> "mint", create |-> None]

(* With another flow about the click counts as a trouble: the other may be *)
(* a connect that began before, or a mint that has not set `minting` yet.  *)
ClickMint(f) ==
    /\ flow[f] = Idle /\ ~page.minting
    /\ ButtonOffered \/ page.retry
    /\ page.address # None /\ page.network /\ page.ready
    /\ Others(f) => troubles < MaxTroubles
    /\ troubles' = troubles + (IF Others(f) THEN 1 ELSE 0)
    /\ IF page.checked
       THEN /\ page.eligible
            /\ Becomes(Begun(page)) /\ Goes(f, Mint("begun"))
       ELSE /\ Becomes([page EXCEPT !.retry = FALSE])
            /\ Goes(f, Merge(Mint("eligibility"), [who |-> page.address]))
    /\ UNCHANGED <<wallet, serverVars, chainVars>>

(* `minting` is set only here, after the await. *)
EligibilityAnswered(f) ==
    /\ At(f, "mint", "eligibility")
    /\ IF flow[f].who = AllowedAddress
       THEN Becomes(Begun(Learned(flow[f].who))) /\ Goes(f, Mint("begun"))
       ELSE Ends(f, Learned(flow[f].who))
    /\ Outside

(* doMint4337 takes the smart account here and keeps it.                   *)
DoMint4337(f) ==
    /\ At(f, "mint", "begun")
    /\ IF page.smartAccount = None \/ page.starkKey = None THEN Ends(f, Failed(f))
       ELSE /\ Goes(f, Merge(Mint("code"), [to |-> page.smartAccount,
                                           there |-> page.smartAccount \in deployed]))
            /\ UNCHANGED page
    /\ Outside

(* requestProof fixes its body, then awaits the backend's status.          *)
RequestMintProof(f) ==
    /\ At(f, "mint", "code")
    /\ IF page.address = None \/ ~page.addresses THEN Ends(f, Failed(f))
       ELSE /\ Becomes([page EXCEPT !.deployed = flow[f].there])
            /\ Goes(f, Merge(flow[f], [at |-> "compatible",
                   sent |-> [recipient |-> page.address, mintTo |-> flow[f].to,
                             traits |-> page.selected]]))
    /\ Outside

CompatibilityAnswered(f) ==
    /\ At(f, "mint", "compatible")
    /\ AskToken(f, flow[f])
    /\ Outside

Posts(f, purpose) == At(f, "mint", "post") /\ flow[f].for = purpose

AnyMintTo(body) == TRUE
MintToMatches(body) == body.mintTo = SmartAccountOf(body.recipient)

(* POST /request-mint *)
PostMintProof(f) ==
    LET body == flow[f].sent
        claim == [id |-> Cardinality(issued), claim |-> body]
    IN /\ Posts(f, "mint")
       /\ flow[f].auth = body.recipient
       /\ MintToMatches(body)
       /\ body.recipient = AllowedAddress /\ slotsLeft > 0
       /\ slotsLeft' = slotsLeft - 1
       /\ issued' = issued \cup {claim}
       /\ Goes(f, Merge(flow[f], [at |-> "granted", proof |-> claim]))
       /\ UNCHANGED <<wallet, page, chainVars, troubles>>

(* ... which answers, or is refused and offers to try again. *)
MintProofRefused(f) ==
    LET body == flow[f].sent
    IN /\ Posts(f, "mint")
       /\ ~(/\ flow[f].auth = body.recipient /\ MintToMatches(body)
            /\ body.recipient = AllowedAddress /\ slotsLeft > 0)
       /\ Ends(f, [Failed(f) EXCEPT !.retry = TRUE])
       /\ Outside

(* The traits of the mint are read again only now.                         *)
MintProofArrives(f) ==
    /\ At(f, "mint", "granted")
    /\ IF ~page.deployed /\ (page.address = None \/ page.starkKey = None \/ ~page.addresses)
       THEN Ends(f, Failed(f))
       ELSE /\ Goes(f, Merge(flow[f],
                   IF page.deployed THEN [at |-> "entryPoint", traits |-> page.selected]
                   ELSE [at |-> "hash", traits |-> page.selected,
                         hash |-> <<page.address, page.starkKey>>]))
            /\ UNCHANGED page
    /\ Outside

RequestActionProof(f) ==
    /\ At(f, "mint", "hash")
    /\ IF page.address = None \/ ~page.addresses THEN Ends(f, Failed(f))
       ELSE /\ Goes(f, Merge(flow[f], [at |-> "compatible", for |-> "action",
                   sent |-> [recipient |-> page.address, hash |-> flow[f].hash]]))
            /\ UNCHANGED page
    /\ Outside

PostActionProof(f) ==
    /\ Posts(f, "action")
    /\ IF flow[f].auth = flow[f].sent.recipient
       THEN /\ Goes(f, Merge(flow[f], [at |-> "entryPoint", create |-> flow[f].sent]))
            /\ UNCHANGED page
       ELSE Ends(f, [Failed(f) EXCEPT !.retry = TRUE])
    /\ Outside

(* buildMintUserOp refuses an initCode that makes another account.         *)
Buildable(f) ==
    page.deployed \/ (flow[f].create # None /\ flow[f].to = <<page.address, page.starkKey>>)

MintCall(f) ==
    [recipient |-> page.address, mintTo |-> flow[f].to, traits |-> flow[f].traits]

BuildMintUserOp(f) ==
    /\ At(f, "mint", "entryPoint") /\ ~page.direct
    /\ IF page.address = None \/ page.starkKey = None \/ ~page.addresses \/ ~Buildable(f)
       THEN Ends(f, Failed(f))
       ELSE /\ Goes(f, Merge(flow[f], [at |-> "built",
                   op |-> [sender |-> flow[f].to, nonce |-> nonce[flow[f].to],
                           mint |-> MintCall(f), proof |-> flow[f].proof,
                           init |-> IF page.deployed THEN None
                                    ELSE [account |-> <<page.address, page.starkKey>>,
                                          proof |-> flow[f].create]]]))
            /\ UNCHANGED page
    /\ Outside

(* The paymaster, if the toggle asks for it.                               *)
AskSponsorship(f) ==
    /\ At(f, "mint", "built")
    /\ LET asks == Merge(flow[f], [for |-> "pay"])
       IN IF page.address = None THEN Ends(f, Failed(f)) ELSE AskToken(f, asks)
    /\ Outside

SelfPays(f) == At(f, "mint", "built") /\ Sign(f, page) /\ Outside
SponsorshipAnswered(f) == Posts(f, "pay") /\ Sign(f, page) /\ Outside

SendUserOp(f) ==
    /\ At(f, "mint", "sign")
    /\ IF page.signer = None THEN Ends(f, Failed(f))
       ELSE Goes(f, Merge(flow[f], [at |-> "submit"])) /\ UNCHANGED page
    /\ Outside

(* doMint4337LocalFallback: two transactions of the wallet's own.          *)
CreateDirectly(f) ==
    /\ At(f, "mint", "entryPoint") /\ page.direct /\ ~page.deployed
    /\ IF page.signer = None \/ page.address = None \/ page.starkKey = None \/ ~page.addresses
          \/ flow[f].create = None
       THEN Ends(f, Failed(f))
       ELSE /\ Goes(f, Merge(flow[f], [at |-> "creating",
                   init |-> [account |-> <<page.address, page.starkKey>>,
                             proof |-> flow[f].create]]))
            /\ UNCHANGED page
    /\ Outside

CreatesAccount(init) ==
    init.proof.recipient = init.account[1] /\ init.proof.hash = init.account

(* The wallet sends it to whichever chain it is on by then.                *)
CreationMined(f) ==
    /\ At(f, "mint", "creating") /\ wallet.right
    /\ IF CreatesAccount(flow[f].init)
       THEN /\ deployed' = deployed \cup {flow[f].init.account}
            /\ Goes(f, Merge(flow[f], [at |-> "created"]))
            /\ UNCHANGED page
       ELSE Ends(f, Failed(f)) /\ UNCHANGED deployed
    /\ UNCHANGED <<wallet, serverVars, nonce, tokens, totalSupply, expired, adrift, troubles>>

AccountCreated(f) ==
    /\ At(f, "mint", "created")
    /\ Becomes([page EXCEPT !.deployed = (flow[f].to \in deployed)])
    /\ Goes(f, Merge(flow[f], [at |-> "direct"]))
    /\ Outside

MintDirectly(f) ==
    /\ \/ At(f, "mint", "direct")
       \/ At(f, "mint", "entryPoint") /\ page.direct /\ page.deployed
    /\ IF page.signer = None \/ page.address = None \/ ~page.addresses THEN Ends(f, Failed(f))
       ELSE /\ Goes(f, Merge(flow[f], [at |-> "submit",
                   op |-> [sender |-> None, mint |-> MintCall(f), proof |-> flow[f].proof]]))
            /\ UNCHANGED page
    /\ Outside

(* handleOps, all of it or nothing: initCode, nonce, owner's signature.    *)
OpValid(r) ==
    r.op.sender # None =>
        /\ \/ r.op.sender \in deployed
           \/ /\ r.op.init # None /\ r.op.init.account = r.op.sender
              /\ CreatesAccount(r.op.init)
        /\ r.op.nonce = nonce[r.op.sender]
        /\ r.by = r.op.sender[1]

(* PhilTestMint.mint and the gate.  The page makes philId a residue of 6   *)
(* and mixMode 0; its palettes run past the contract's.                    *)
PaletteAccepted(mint) == mint.traits \in Mintable
ProofAccepted(op) == op.mint = op.proof.claim /\ op.proof \notin tokens \cup expired

Mints(r) ==
    /\ OpValid(r) /\ ProofAccepted(r.op) /\ PaletteAccepted(r.op.mint)
    /\ totalSupply < MaxSupply

Lands(r) ==
    /\ tokens' = tokens \cup {r.op.proof} /\ totalSupply' = totalSupply + 1
    /\ IF r.op.sender = None THEN UNCHANGED <<deployed, nonce>>
       ELSE /\ deployed' = deployed \cup {r.op.sender}
            /\ nonce' = [nonce EXCEPT ![r.op.sender] = @ + 1]

(* A userOp may go through a bundler; all else is sent by the wallet, to   *)
(* the network it is on.                                                   *)
Reaches(r) == r.op.sender = None => wallet.right

Mined(f) ==
    /\ At(f, "mint", "submit") /\ Reaches(flow[f]) /\ Mints(flow[f])
    /\ Lands(flow[f])
    /\ Goes(f, Mint("mined"))
    /\ UNCHANGED <<wallet, page, serverVars, expired, adrift, troubles>>

Reverts(f) ==
    /\ At(f, "mint", "submit") /\ ~Mints(flow[f])
    /\ Ends(f, Failed(f))
    /\ Outside

(* A wallet on another network: the send throws, or calls an address that  *)
(* holds nothing there, which gives a receipt.                             *)
SentElsewhere(f) ==
    /\ ~wallet.right
    /\ \/ flow[f].kind = "mint" /\ flow[f].at \in {"creating", "submit"} /\ Ends(f, Failed(f))
       \/ At(f, "mint", "submit") /\ Goes(f, Mint("mined")) /\ UNCHANGED page
       \/ /\ At(f, "mint", "creating") /\ Goes(f, Merge(flow[f], [at |-> "created"]))
          /\ UNCHANGED page
    /\ Outside

(* What the page has given up waiting for may still be mined.              *)
MinedLate(r) ==
    /\ \/ /\ r.at = "creating" /\ CreatesAccount(r.init)
          /\ deployed' = deployed \cup {r.init.account}
          /\ UNCHANGED <<nonce, tokens, totalSupply>>
       \/ r.at = "submit" /\ Mints(r) /\ Lands(r)
    /\ adrift' = adrift \ {r}
    /\ UNCHANGED <<wallet, page, flow, serverVars, expired, troubles>>

(* PhilTestMint.mint, called by others with proofs of their own.           *)
OthersMint ==
    /\ totalSupply < MaxSupply /\ totalSupply' = totalSupply + 1
    /\ UNCHANGED <<wallet, page, flow, serverVars, deployed, nonce, tokens, expired, adrift,
                   troubles>>

(* The selection is free again; `minting` still holds while the page reads *)
(* the contract and the eligibility.                                       *)
MintConfirmed(f) ==
    /\ At(f, "mint", "mined")
    /\ Becomes([page EXCEPT !.locked = FALSE, !.ready = FALSE])
    /\ Goes(f, Mint("confirmed"))
    /\ Outside

Refresh(f) ==
    /\ At(f, "mint", "confirmed")
    /\ IF page.address = None
       THEN Ends(f, [page EXCEPT !.checked = FALSE, !.eligible = FALSE, !.minting = FALSE])
       ELSE /\ Goes(f, Merge(Mint("refresh"), [who |-> page.address]))
            /\ UNCHANGED page
    /\ Outside

MintDone(f) ==
    /\ At(f, "mint", "refresh")
    /\ Ends(f, [Learned(flow[f].who) EXCEPT !.minting = FALSE])
    /\ Outside

-----------------------------------------------------------------------------
(* Troubles.  An await fails: the request, the user who says no, the wait  *)
(* for a receipt.  Reads that only show something catch their own errors.  *)
EligibilityUnknown(f) ==
    [Failed(f) EXCEPT !.checked = FALSE, !.eligible = FALSE,
                      !.listening = @ \/ flow[f].kind = "connect"]

(* The server may answer no, which drops the kept token, or a 500, which   *)
(* offers to try again.                                                    *)
ProofFails(f) ==
    CASE flow[f].at \in {"challenge", "verify"} ->
            \E t \in {page.token, None} : Throws(f, [page EXCEPT !.token = t])
      [] flow[f].at = "post" /\ flow[f].for # "pay" ->
            \E again \in BOOLEAN : Ends(f, [Failed(f) EXCEPT !.retry = again])
      [] OTHER -> Throws(f, page)

AwaitFails(f) ==
    /\ flow[f].at \notin {"idle", "status", "loaded", "confirmed"}
    /\ CASE flow[f].at \in {"eligibility", "refresh"} -> Ends(f, EligibilityUnknown(f))
         [] flow[f].kind = "mint"
            /\ flow[f].at \in {"compatible", "challenge", "signing", "verify", "post"} ->
              ProofFails(f)
         [] flow[f].at = "deployments" ->
              Goes(f, [kind |-> "connect", at |-> "status"]) /\ UNCHANGED page
         [] flow[f].at = "switch" ->
              Ends(f, [Failed(f) EXCEPT !.smartAccount = None, !.deployed = FALSE])
         [] OTHER -> Ends(f, Failed(f))
    /\ \/ UNCHANGED adrift
       \/ /\ flow[f].kind = "mint" /\ flow[f].at \in {"creating", "submit"}
          /\ adrift' = adrift \cup {flow[f]}
    /\ UNCHANGED <<wallet, serverVars, deployed, nonce, tokens, totalSupply, expired>>

ProofExpires ==
    /\ \E p \in issued \ (tokens \cup expired) : expired' = expired \cup {p}
    /\ UNCHANGED <<wallet, page, flow, serverVars, deployed, nonce, tokens, totalSupply, adrift>>

AccountsChanged(a) ==
    /\ a # wallet.account
    /\ wallet' = [wallet EXCEPT !.account = a]
    /\ IF ~page.listening THEN UNCHANGED <<page, flow>>
       ELSE IF a = None THEN Becomes(ClearWalletState(page)) /\ UNCHANGED flow
       ELSE StartsConnect(page)
    /\ UNCHANGED <<serverVars, chainVars>>

ChainChanged ==
    /\ wallet' = [wallet EXCEPT !.right = ~@]
    /\ IF page.listening THEN StartsConnect(page) ELSE UNCHANGED <<page, flow>>
    /\ UNCHANGED <<serverVars, chainVars>>

Trouble ==
    /\ troubles < MaxTroubles /\ troubles' = troubles + 1
    /\ \/ \E f \in Flows : AwaitFails(f)
       \/ \E a \in Accounts \cup {None} : AccountsChanged(a)
       \/ ChainChanged
       \/ ProofExpires

ConnectStep(f) ==
    \/ AccountsAnswered(f) \/ SignerAnswered(f) \/ NetworkAnswered(f) \/ DeploymentsLoaded(f)
    \/ BackendAnswered(f) \/ SwitchAnswered(f) \/ AskComputeAccount(f) \/ ComputeAnswered(f)
    \/ LocalAnswered(f) \/ CodeAnswered(f) \/ ContractLoaded(f) \/ ConnectDone(f)

MintStep(f) ==
    \/ EligibilityAnswered(f) \/ DoMint4337(f) \/ RequestMintProof(f)
    \/ CompatibilityAnswered(f) \/ ChallengeAnswered(f) \/ ChallengeSigned(f)
    \/ VerifyAnswered(f) \/ PostMintProof(f) \/ MintProofRefused(f) \/ MintProofArrives(f)
    \/ RequestActionProof(f) \/ PostActionProof(f) \/ BuildMintUserOp(f) \/ AskSponsorship(f)
    \/ SelfPays(f) \/ SponsorshipAnswered(f) \/ SendUserOp(f)
    \/ CreateDirectly(f) \/ CreationMined(f) \/ AccountCreated(f) \/ MintDirectly(f)
    \/ Mined(f) \/ Reverts(f) \/ SentElsewhere(f) \/ MintConfirmed(f) \/ Refresh(f) \/ MintDone(f)

Next ==
    \/ ClickConnect \/ SwitchNetwork \/ Scroll
    \/ \E t \in Traits : SelectConfig(t)
    \/ \E f \in Flows : ClickMint(f) \/ ConnectStep(f) \/ MintStep(f)
    \/ OthersMint \/ \E r \in adrift : MinedLate(r)
    \/ Trouble

Spec == Init /\ [][Next]_vars

-----------------------------------------------------------------------------
PageTypeOK ==
    /\ page.address \in Accounts \cup {None} /\ page.signer = page.address
    /\ page.smartAccount \in SmartAccounts \cup {None}
    /\ slotsLeft \in 0 .. Slots /\ Cardinality(issued) = Slots - slotsLeft
    /\ tokens \subseteq issued /\ deployed \subseteq SmartAccounts
    /\ Cardinality(tokens) <= totalSupply /\ totalSupply <= MaxSupply
    /\ troubles \in 0 .. MaxTroubles

(* The kept sign-in is the session of the very wallet it is filed under,   *)
(* though the account may have changed between challenge, signature and    *)
(* verification, and another flow may have filed its own meanwhile.        *)
CachedTokenIsItsRecipients == page.token # None => page.token.of = page.token.recipient

(* Whatever mixture of one wallet's address and another's key or smart     *)
(* account the page holds, every token lands in the recipient's own.       *)
TokensReachTheirOwner ==
    \A t \in tokens : t.claim.mintTo = SmartAccountOf(t.claim.recipient)

InHand(p) == \E f \in Flows : "proof" \in DOMAIN flow[f] /\ flow[f].proof = p

LostProofs == {p \in issued \ tokens : ~InHand(p)}

CouldMint(p) == PaletteAccepted(p.claim) /\ totalSupply < MaxSupply
UsableLost == {p \in LostProofs : CouldMint(p)}

(* The page throws a proof away that it does not use, and its slot with    *)
(* it.  While no await fails, no proof expires, the wallet stays as it is  *)
(* and no mint begins beside another flow, the page uses every proof that  *)
(* PhilTestMint would take: one of a palette it knows, before it is sold   *)
(* out.                                                                    *)
CalmMintsLoseNothing == troubles = 0 => UsableLost = {}

(* ... and the first trouble of a page costs it one such proof at most.    *)
(* Two may leave it with one account's address and another's key for good, *)
(* and then every click takes a slot: see README.                          *)
SlotsLostOnlyToTrouble ==
    CalmMintsLoseNothing /\ (troubles = 1 => Cardinality(UsableLost) <= 1)

(* "Locked Phil #N ready to mint": whichever of its Phils is locked, a     *)
(* mint without any trouble, before the contract is sold out, turns its    *)
(* slot into a token.  The code breaks this: four of the thirteen palettes *)
(* the page offers are beyond the contract's nine.                         *)
LockedPhilsMint == troubles = 0 /\ totalSupply < MaxSupply => LostProofs = {}
=============================================================================
