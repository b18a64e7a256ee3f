------------------------------- MODULE UserOps -------------------------------
(***************************************************************************)
(* The wallet in its surroundings: PhilAccountFactory.sol creates it,      *)
(* owners call it, EntryPointLocalMock.sol runs its userOps and            *)
(* PhilPaymaster.sol sponsors them.                                        *)
(*                                                                         *)
(* handleOps runs its operations one after the other, each validated and   *)
(* executed before the next is looked at, and any failure reverts the      *)
(* whole transaction: a bundle of several is the same steps with nothing   *)
(* in between, so one action per operation reaches the same states.        *)
(* initCode is the creation followed by the operation without it.          *)
(***************************************************************************)
EXTENDS PhilAccount

CONSTANTS
    Factory,            \* PhilAccountFactory
    FirstOwner,         \* the owner the account's address is derived from
    CreateHash,         \* computeCreateActionHash(FirstOwner, starkPubKeyX)
    LargeSpend,         \* the default 0.1 ether, in the units of call values
    VerifyingSigner,    \* the paymaster's key
    Sponsorships,       \* bound: paymaster signatures, [by, nonce, request]
    OwnerCalls,         \* bound: calls owners send to the account directly
    MaxOps              \* bound: userOps that are run

VARIABLES
    opNonce,            \* EntryPoint: _nonceSequence[Account][0]
    opsRun,             \* history: userOps run, with the token id that was next
    credit,             \* history: action hash -> armings minus executions
    newestSpent         \* history: highest ticket nonce that armed anything

historyVars == <<opsRun, credit, newestSpent>>
walletVars == <<vault, opNonce, historyVars>>
chainVars == <<now, gateVars, mintVars, inboxVars>>

MintTargets == {MintContract} \cup OtherMints
AllCalls == OwnerCalls \cup UNION {CallsOf(r) : r \in Requests}

ASSUME WalletBounds ==
    /\ \A r \in Requests : r.calls \in Seq(CallsOf(r))
    /\ \A c \in AllCalls :
        /\ c.fn = "setUnlockInbox" => c.inbox \in Inboxes \cup {ZeroAddress}
        /\ c.fn = "approveExecutionWithUnlock" => c.request \in Requests
        /\ IsMint(c) => MintClaim(c.recipient, c.mintTo, c.traits, c.proof.expiry) \in Claims
    /\ \A c \in OwnerCalls : c.target = Account
    /\ Factory \in Consumers /\ MaxOps \in Nat

IsApproval(c) == c.target = Account /\ c.fn = "approveExecutionWithUnlock"
Approved(c) == ActionHash(c.recipient, c.request)

NotSponsored == [by |-> ZeroAddress]
Senders ==
    {c.owner : c \in {d \in AllCalls : d.fn = "addOwner"}}
    \cup {c.recipient : c \in {d \in AllCalls : IsApproval(d)}}
    \cup {FirstOwner, EntryPoint}
Hashes == {ActionHash(s, r) : s \in Senders, r \in Requests}

(* Calls inside a request that arm, directly or from a batch.              *)
Armings(request, h) ==
    Cardinality({k \in DOMAIN request.calls :
        IsApproval(request.calls[k]) /\ Approved(request.calls[k]) = h})

NewestNonce == IF vault.lastExecutionApprovalNonce' > newestSpent
               THEN vault.lastExecutionApprovalNonce' ELSE newestSpent

Executed(sender, request, auto) ==
    /\ credit' = [h \in Hashes |->
         credit[h] + Armings(request, h) + (IF auto /\ h = ActionHash(EntryPoint, request) THEN 1 ELSE 0)
           - (IF h = ActionHash(sender, request) THEN 1 ELSE 0)]
    /\ newestSpent' = NewestNonce

-----------------------------------------------------------------------------
(* The factory. *)

(* createPhilAccount spends the proof and deploys unless somebody did. *)
CreatePhilAccount(inbox, proof) ==
    /\ VerifyActionAndConsume(Factory, FirstOwner, 2, CreateHash, proof)
    /\ LET v == IF Deployed THEN vault ELSE Initialized(FirstOwner, LargeSpend)
       IN  IF Configured(v) THEN vault' = v ELSE InitVaultConfig(v, inbox, MintContract)
    /\ UNCHANGED <<mintVars, inboxVars, opNonce, historyVars>>

(* The inherited createAccount needs no proof and configures nothing. *)
CreateAccount ==
    /\ ~Deployed
    /\ vault' = Initialized(FirstOwner, LargeSpend)
    /\ UNCHANGED <<chainVars, opNonce, historyVars>>

ConfigureVault(inbox, mintTarget) ==
    /\ Deployed
    /\ InitVaultConfig(vault, inbox, mintTarget)
    /\ UNCHANGED <<chainVars, opNonce, historyVars>>

-----------------------------------------------------------------------------
(* Owners. *)

OwnerCall(sender, c) ==
    /\ Deployed
    /\ Accepts(vault, sender, c)
    /\ vault' = After(vault, c)
    /\ credit' = [h \in Hashes |-> credit[h] + Armings(Single(c), h)]
    /\ newestSpent' = NewestNonce
    /\ UNCHANGED <<chainVars, opNonce, opsRun>>

OwnerExecutes(sender, request) ==
    /\ Deployed
    /\ sender # EntryPoint
    /\ Execute(vault, sender, request)
    /\ Executed(sender, request, FALSE)
    /\ UNCHANGED <<inboxVars, opNonce, opsRun>>

-----------------------------------------------------------------------------
(* PhilPaymaster. *)

AnyAccountsMint(request) == ~request.batch /\ request.calls[1].value = 0

(* _sponsorshipCheckReason = 0 *)
SponsoredMint(request) ==
    LET c == request.calls[1]
    IN  /\ ~request.batch
        /\ c.target = MintContract /\ c.value = 0
        /\ c.fn = "mint"
        /\ c.recipient # ZeroAddress
        /\ c.mintTo = Account
        /\ c.proof.signature.form = "r_s_v"
        /\ NotExpired(c.proof)

(* validatePaymasterUserOp: the hash covers the operation but not the       *)
(* owner's signature.  The local EntryPoint drops the validity window.      *)
PaymasterAccepts(nonce, request, sponsor) ==
    /\ sponsor.by = VerifyingSigner
    /\ sponsor.nonce = nonce /\ sponsor.request = request
    /\ SponsoredMint(request)

-----------------------------------------------------------------------------
(* EntryPointLocalMock. *)

SameNonce == opNonce' = opNonce
NextNonce == opNonce' = opNonce + 1

(* handleOps for one operation: nonce, account, paymaster, execution. *)
HandleOp(nonce, signer, request, sponsor) ==
    /\ Deployed
    /\ Len(opsRun) < MaxOps
    /\ nonce = opNonce
    /\ NextNonce
    /\ Validates(vault, signer, request)
    /\ sponsor # NotSponsored => PaymasterAccepts(nonce, request, sponsor)
    /\ Execute(Validated(vault, signer, request), EntryPoint, request)
    /\ Executed(EntryPoint, request, AutoApproves(vault, signer, request))
    /\ opsRun' = Append(opsRun, [nonce |-> nonce, request |-> request, sponsor |-> sponsor,
                                 token |-> totalSupply])
    /\ UNCHANGED inboxVars

(* simulateValidation is an ordinary transaction here: the approval that    *)
(* validation stores stays, without a nonce or an execution to use it up.   *)
SimulateValidation(signer, request) ==
    /\ Deployed
    /\ Validates(vault, signer, request)
    /\ AutoApproves(vault, signer, request)
    /\ ActionHash(EntryPoint, request) \notin vault.approved   \* else no change
    /\ vault' = Validated(vault, signer, request)
    /\ credit' = [credit EXCEPT ![ActionHash(EntryPoint, request)] = @ + 1]
    /\ UNCHANGED <<chainVars, opNonce, opsRun, newestSpent>>

-----------------------------------------------------------------------------
RotateSigner(k) ==
    /\ SetAllowlistSigner(owner, k)
    /\ UNCHANGED <<mintVars, inboxVars, walletVars>>

TimePasses == Tick /\ UNCHANGED <<mintVars, inboxVars, walletVars>>

TicketArrives(i, t) ==
    /\ RecordTicket(i, t)
    /\ UNCHANGED <<now, gateVars, mintVars, walletVars>>

WalletNext ==
    \/ \E i \in Inboxes, p \in PresentableProofs : CreatePhilAccount(i, p)
    \/ CreateAccount
    \/ \E i \in Inboxes, m \in MintTargets : ConfigureVault(i, m)
    \/ \E o \in Senders : \/ \E c \in OwnerCalls : OwnerCall(o, c)
                          \/ \E r \in Requests : OwnerExecutes(o, r)
    \/ \E n \in 0 .. MaxOps, o \in Senders, r \in Requests, s \in Sponsorships \cup {NotSponsored} :
         HandleOp(n, o, r, s)
    \/ \E o \in Senders, r \in Requests : SimulateValidation(o, r)
    \/ \E k \in Signers : RotateSigner(k)
    \/ TimePasses
    \/ \E i \in Inboxes : \E t \in L2Tickets[i] : TicketArrives(i, t)

(* The gate lets the mint and the factory spend, and the backend has signed *)
(* whatever is Signable: a state the drop is in before the wallet exists.   *)
WalletInit ==
    /\ \E d \in Users \cap Signers :
         /\ owner = d /\ allowlistSigner = d
         /\ attested = {[by |-> d, over |-> c] : c \in Signable}
    /\ now = 0 /\ authorizedCaller = {MintContract, Factory} /\ nullifierUsed = {}
    /\ MintInit /\ InboxInit
    /\ vault = NotDeployed
    /\ opNonce = 0 /\ opsRun = <<>>
    /\ credit = [h \in Hashes |-> 0] /\ newestSpent = 0

WalletSpec == WalletInit /\ [][WalletNext]_<<chainVars, walletVars>>

-----------------------------------------------------------------------------
(* Types, and the wallet's own bookkeeping: ownerCount counts the owners    *)
(* and never reaches zero, however owners add and remove each other.        *)
WalletTypeOK ==
    /\ TypeOK
    /\ Deployed =>
        /\ vault.owners \subseteq Senders
        /\ vault.ownerCount = Cardinality(vault.owners) /\ vault.ownerCount > 0
        /\ vault.unlockInbox \in Inboxes \cup {ZeroAddress}
        /\ vault.philTestMint \in MintTargets \cup {ZeroAddress}
        /\ vault.philTestMint # ZeroAddress => Configured(vault)
        /\ vault.approved \subseteq Hashes
    /\ opNonce \in 0 .. MaxOps

(* Nothing runs on credit: for each caller and request, executions never    *)
(* outnumber armings, and an approval that stands has an arming nobody has  *)
(* used - across batches, switched inboxes, removed owners, simulated       *)
(* validations and userOps that arm their own mint.                         *)
ExecutionsArmed ==
    \A h \in Hashes : credit[h] >= IF Deployed /\ h \in vault.approved THEN 1 ELSE 0

(* One ticket arms one execution, ever: what arms an execution is a ticket  *)
(* newer than every ticket that armed one before, even when the account has *)
(* moved to another inbox in between; or, for a single mint run as a userOp,*)
(* a proof that the gate of the account's mint target accepts.              *)
EachTicketArmsOnce ==
    [][\A h \in Hashes : credit'[h] > credit[h] =>
         \/ newestSpent' > newestSpent
         \/ /\ h.recipient = EntryPoint /\ ~h.request.batch
            /\ h.request.calls[1].fn = "mint"]_<<chainVars, walletVars>>

(* A userOp is run once, although its signature and its sponsorship stay    *)
(* valid for anyone to submit again.                                        *)
OpsRunOnce ==
    \A j, k \in DOMAIN opsRun :
        j # k => \/ opsRun[j].nonce # opsRun[k].nonce
                 \/ opsRun[j].request # opsRun[k].request

(* The paymaster never pays for anything but a mint that took place: every  *)
(* sponsored operation that ran left its own token in this account.         *)
SponsoredOpsMinted ==
    \A k \in DOMAIN opsRun : opsRun[k].sponsor # NotSponsored =>
        /\ opsRun[k].token < totalSupply
        /\ tokens[opsRun[k].token].to = Account
=============================================================================
