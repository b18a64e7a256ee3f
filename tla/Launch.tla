------------------------------- MODULE Launch -------------------------------
(***************************************************************************)
(* scripts/: how a drop is put on a chain.  deploy_stark, deploy_4337,     *)
(* deploy_marketplace and verify_sepolia_bindings run one at a time, by    *)
(* hand or under run_all_and_mint_one, and leave deployment files that     *)
(* the next script, the server and the pages trust.                        *)
(*                                                                         *)
(* A script is the list `todo` of the transactions it still has to send;   *)
(* it sends one, waits for its receipt, sends the next, and may be killed  *)
(* or time out at any point, with a transaction still in the mempool.      *)
(* The deployer's n-th transaction creates the contract of address n, and  *)
(* the operator may use that account for something else meanwhile.         *)
(***************************************************************************)
EXTENDS SVGStorage

CONSTANTS
    Deployer,       \* the key of PRIVATE_KEY
    Envs,           \* bound: .env files, [allowlistSigner, allowlistKey, paymasterKey]
    Sites,          \* bound: [local, files]: which chain, and the art to put on it
    BatchMaxItems,  \* SMALL_BATCH_MAX_ITEMS
    BatchMaxBytes,  \* SMALL_BATCH_MAX_BYTES
    MaxRuns,        \* bound: scripts the operator starts
    MaxFaults       \* bound: interruptions and other uses of the account

ASSUME LaunchAssumption ==
    /\ \A e \in Envs : DOMAIN e = {"allowlistSigner", "allowlistKey", "paymasterKey"}
    /\ \A s \in Sites : s.files \in Seq(Contents)
    /\ BatchMaxItems \in Nat \ {0} /\ BatchMaxBytes \in Nat \ {0}
    /\ MaxRuns \in Nat /\ MaxFaults \in Nat

VARIABLES
    site,
    env,            \* the operator's environment
    nonce,          \* the deployer's transactions mined so far
    pool,           \* those sent and not mined
    world,          \* address -> contract
    reverted,       \* mined transactions that reverted
    files,          \* deployments/*.json
    job,            \* the script that runs
    servers,        \* who answers on port 8787 (the operator's) and on 8788 (run_all's)
    last,           \* how the last script ended
    runs, faults

chainVars == <<nonce, pool, world, reverted>>
vars == <<site, env, chainVars, files, job, servers, last, runs, faults>>

Nowhere == 0
NoStark == [gate |-> Nowhere, mint |-> Nowhere, registry |-> Nowhere, allowlistSigner |-> Deployer]
NoAA == [factory |-> Nowhere, paymaster |-> Nowhere, gate |-> Nowhere, mint |-> Nowhere]
NoMarket == [marketplace |-> Nowhere, mint |-> Nowhere]
NoServer == [gate |-> Nowhere, mint |-> Nowhere, factory |-> Nowhere, paymaster |-> Nowhere,
             allowlistKey |-> Deployer, paymasterKey |-> Deployer]
Idle == [script |-> "none"]

Init ==
    /\ site \in Sites
    /\ env \in Envs
    /\ nonce = 0 /\ pool = <<>> /\ world = <<>> /\ reverted = {}
    /\ files = [stark |-> NoStark, aa |-> NoAA, market |-> NoMarket]
    /\ job = Idle
    /\ servers = [port \in {8787, 8788} |-> NoServer]
    /\ last = "none" /\ runs = 0 /\ faults = 0

-----------------------------------------------------------------------------
(* bootstrapArtBackend counts the ids it expects PhilSVGStorage to assign. *)
Step(role) == [role |-> role, svgs |-> <<>>, id |-> 0]

NothingPlanned == [todo |-> <<>>, pending |-> <<>>, nextSvgId |-> 1, ids |-> <<>>]

FlushSmallBatch(plan) ==
    IF plan.pending = <<>> THEN plan
    ELSE [todo |-> Append(plan.todo, [Step("storeSvgBatch") EXCEPT !.svgs = plan.pending]),
          pending |-> <<>>,
          nextSvgId |-> plan.nextSvgId + Len(plan.pending),
          ids |-> plan.ids \o [k \in DOMAIN plan.pending |-> plan.nextSvgId + k - 1]]

PlanChunked(plan, svg) ==
    LET flushed == FlushSmallBatch(plan)
        Call(role) == [role |-> role, svgs |-> <<svg>>, id |-> flushed.nextSvgId]
    IN [flushed EXCEPT
          !.todo = @ \o <<Call("initializeChunkedSvg"), Call("appendChunks"),
                          Call("finalizeChunkedSvg")>>,
          !.nextSvgId = @ + 1,
          !.ids = Append(@, flushed.nextSvgId)]

BatchFull(pending) ==
    \/ Len(pending) >= BatchMaxItems
    \/ Len(FlattenSeq(pending)) >= BatchMaxBytes

PlanSvg(plan, svg) ==
    IF Len(svg) > SingleUploadLimit THEN PlanChunked(plan, svg)
    ELSE LET more == [plan EXCEPT !.pending = Append(@, svg)]
         IN IF BatchFull(more.pending) THEN FlushSmallBatch(more) ELSE more

Bootstrap ==
    [s \in Sites |->
        LET upTo[k \in 0 .. Len(s.files)] ==
                IF k = 0 THEN NothingPlanned ELSE PlanSvg(upTo[k - 1], s.files[k])
        IN FlushSmallBatch(upTo[Len(s.files)])]

ArtSteps ==
    IF ~site.local THEN <<>>     \* Sepolia reuses deployments/sepolia-addresses.json
    ELSE <<Step("svgStorage"), Step("layerRegistry")>> \o Bootstrap[site].todo
         \o <<Step("registerLayers"), Step("registerAssets"), Step("registerVariants")>>

-----------------------------------------------------------------------------
(* The signer of deployPhilSystem: ALLOWLIST_SIGNER, or the deployer.      *)
NeedsAllowlistRotation == env.allowlistSigner # Deployer

MintRightAfterGate(latest) == latest + 2
FutureMint(latest) == latest + 2 + (IF NeedsAllowlistRotation THEN 1 ELSE 0)

StarkSteps ==
    ArtSteps \o <<Step("renderer"), Step("gate")>>
    \o (IF NeedsAllowlistRotation THEN <<Step("setAllowlistSigner")>> ELSE <<>>)
    \o <<Step("mint"), Step("web3")>>

EntryPointInstalled == \E a \in DOMAIN world : world[a].kind = "entryPointMock"

AASteps ==
    (IF site.local /\ ~EntryPointInstalled THEN <<Step("entryPointMock")>> ELSE <<>>)
    \o (IF site.local THEN <<Step("starknetCoreMock")>> ELSE <<>>)
    \o <<Step("account"), Step("inbox"), Step("factory"), Step("setAuthorizedCaller"),
         Step("paymaster"), Step("deposit")>>

(* ensurePaymasterDeposit; a deposit is what one sponsored mint may cost.  *)
AlwaysTopUp == <<Step("topUp")>>
TopUpSteps == IF world[files.aa.paymaster].deposit = 0 THEN <<Step("topUp")>> ELSE <<>>

Reuses(j) == (j.script = "stark" /\ j.reuseStark) \/ (j.script = "4337" /\ j.reuse4337)

MarketplaceSteps == <<Step("marketplace")>>
MintSteps == <<Step("handleOps")>>

StepsOf(j) ==
    IF Reuses(j) THEN <<>>
    ELSE CASE j.script = "stark" -> StarkSteps
           [] j.script = "4337" -> AASteps
           [] j.script = "marketplace" -> MarketplaceSteps
           [] j.script = "topUp" -> TopUpSteps
           [] j.script = "mintOne" -> MintSteps
           [] OTHER -> <<>>

-----------------------------------------------------------------------------
At(role) == job.at[role]

Extended(f, x, y) == [z \in DOMAIN f \cup {x} |-> IF z = x THEN y ELSE f[z]]

Create(contract) == [to |-> Nowhere, contract |-> contract]
Call(address, step, arg) == [to |-> address, step |-> step, arg |-> arg]

(* The drop the files and the environment describe.                        *)
Configured ==
    [gate |-> files.stark.gate, mint |-> files.stark.mint,
     factory |-> files.aa.factory, paymaster |-> files.aa.paymaster,
     allowlistKey |-> env.allowlistKey, paymasterKey |-> env.paymasterKey]

Transaction(step) ==
    CASE step.role = "svgStorage" -> Create([kind |-> "svgStorage", store |-> EmptyStore])
      [] step.role = "layerRegistry" ->
            Create([kind |-> "layerRegistry", storage |-> At("svgStorage"), assets |-> <<>>])
      [] step.role \in {"storeSvgBatch", "initializeChunkedSvg", "appendChunks",
                        "finalizeChunkedSvg"} -> Call(At("svgStorage"), step, Nowhere)
      [] step.role = "registerAssets" -> Call(At("layerRegistry"), step, Bootstrap[site].ids)
      [] step.role \in {"registerLayers", "registerVariants"} ->
            Call(At("layerRegistry"), step, Nowhere)
      [] step.role = "gate" ->
            Create([kind |-> "gate", signer |-> Deployer, callers |-> {job.futureMint}])
      [] step.role = "setAllowlistSigner" -> Call(At("gate"), step, env.allowlistSigner)
      [] step.role = "mint" -> Create([kind |-> "mint", gate |-> At("gate")])
      [] step.role = "factory" ->
            Create([kind |-> "factory", mint |-> files.stark.mint, gate |-> files.stark.gate])
      [] step.role = "setAuthorizedCaller" -> Call(files.stark.gate, step, At("factory"))
      [] step.role = "paymaster" ->
            Create([kind |-> "paymaster", signer |-> env.paymasterKey,
                    mint |-> files.stark.mint, deposit |-> 0])
      [] step.role = "deposit" -> Call(At("paymaster"), step, 1)
      [] step.role = "topUp" -> Call(files.aa.paymaster, Step("deposit"), 1)
      [] step.role = "marketplace" -> Create([kind |-> "marketplace", mint |-> files.stark.mint])
      [] step.role = "handleOps" -> Call(files.aa.paymaster, step, servers[8788])
      [] OTHER -> Create([kind |-> step.role])

(* Everything a sponsored first mint needs of the contracts.               *)
DropHolds(d) ==
    /\ {d.gate, d.mint, d.factory, d.paymaster} \subseteq DOMAIN world
    /\ world[d.gate].signer = d.allowlistKey
    /\ {d.mint, d.factory} \subseteq world[d.gate].callers
    /\ world[d.mint].gate = d.gate
    /\ world[d.factory].gate = d.gate /\ world[d.factory].mint = d.mint
    /\ world[d.paymaster].mint = d.mint /\ world[d.paymaster].signer = d.paymasterKey

(* What a mined call makes of the contract it is sent to.                  *)
Executed(tx) ==
    LET c == world[tx.to]
        role == tx.step.role
        To(contract) == [ok |-> TRUE, contract |-> contract]
        Failed == [ok |-> FALSE, contract |-> c]
        Stored(result) == [ok |-> result.ok, contract |-> [c EXCEPT !.store = result.store]]
        svg == Head(tx.step.svgs)
    IN CASE role = "storeSvgBatch" -> Stored(StoreSvgBatch(c.store, tx.step.svgs))
         [] role = "initializeChunkedSvg" ->
               Stored(InitializeChunkedSvg(c.store, Len(svg), svg, Len(ChunksOf(svg))))
         [] role = "appendChunks" -> Stored(AppendChunks(c.store, tx.step.id, ChunksOf(svg)))
         [] role = "finalizeChunkedSvg" -> Stored(FinalizeChunkedSvg(c.store, tx.step.id))
         [] role = "registerAssets" -> To([c EXCEPT !.assets = tx.arg])
         [] role = "setAllowlistSigner" -> To([c EXCEPT !.signer = tx.arg])
         [] role = "setAuthorizedCaller" -> To([c EXCEPT !.callers = @ \cup {tx.arg}])
         [] role = "deposit" -> To([c EXCEPT !.deposit = @ + tx.arg])
         [] role = "handleOps" ->
               IF DropHolds(tx.arg) /\ c.deposit > 0 THEN To([c EXCEPT !.deposit = @ - 1])
               ELSE Failed
         [] OTHER -> To(c)

Mine ==
    /\ pool # <<>>
    /\ LET tx == Head(pool)
       IN /\ nonce' = nonce + 1
          /\ pool' = Tail(pool)
          /\ IF tx.to = Nowhere
             THEN world' = Extended(world, nonce + 1, tx.contract) /\ UNCHANGED reverted
             ELSE LET result == Executed(tx)
                  IN IF result.ok
                     THEN world' = [world EXCEPT ![tx.to] = result.contract] /\ UNCHANGED reverted
                     ELSE reverted' = reverted \cup {nonce + 1} /\ UNCHANGED world
    /\ UNCHANGED <<site, env, files, job, servers, last, runs, faults>>

-----------------------------------------------------------------------------
ScriptOrder == <<"stark", "4337", "marketplace", "verify", "topUp", "backend", "mintOne">>

(* createCommandList looks for the files once, before the first command.   *)
NewJob(all, script, force, reuse) ==
    [script |-> script, all |-> all, entered |-> FALSE,
     reuseStark |-> ~force /\ (IF all THEN files.stark # NoStark ELSE reuse),
     reuse4337 |-> ~force /\ (IF all THEN files.aa # NoAA ELSE reuse),
     todo |-> <<>>, at |-> <<>>, sent |-> Nowhere, next |-> Nowhere, futureMint |-> Nowhere,
     ownBackend |-> FALSE,
     fresh |-> force /\ all /\ servers[8788] = NoServer]

StartRun(all, script, force, reuse) ==
    /\ job = Idle /\ runs < MaxRuns
    /\ all => ~site.local /\ script = Head(ScriptOrder)
    /\ job' = NewJob(all, script, force, reuse)
    /\ runs' = runs + 1 /\ last' = "none"
    /\ UNCHANGED <<site, env, chainVars, files, servers, faults>>

End(outcome) ==
    /\ job' = Idle /\ last' = outcome
    /\ servers' = IF job.ownBackend THEN [servers EXCEPT ![8788] = NoServer] ELSE servers

(* runDeploy4337 refuses a 4337 file made for another mint.                *)
PinnedToThisMint == files.aa # NoAA /\ files.aa.mint = files.stark.mint

ExpectedSigner ==
    IF env.allowlistSigner # Deployer THEN env.allowlistSigner ELSE env.allowlistKey

VerifyAccepts(d) ==
    /\ files.stark # NoStark /\ files.aa # NoAA
    /\ world[d.gate].signer = ExpectedSigner
    /\ {d.mint, d.factory} \subseteq world[d.gate].callers
    /\ world[d.factory].gate = d.gate /\ world[d.factory].mint = d.mint
    /\ world[d.paymaster].signer = d.paymasterKey /\ world[d.paymaster].mint = d.mint

(* The server's startup checks.                                            *)
BootUnchecked(d) == files.stark # NoStark /\ files.aa # NoAA
BootAccepts(d) ==
    /\ files.stark # NoStark /\ files.aa # NoAA
    /\ world[d.gate].signer = d.allowlistKey
    /\ world[d.factory].gate = d.gate
    /\ world[d.factory].mint = d.mint
    /\ {d.mint, d.factory} \subseteq world[d.gate].callers
    /\ world[d.paymaster].signer = d.paymasterKey /\ world[d.paymaster].mint = d.mint

(* mintOneToken reads the account from the factory of the files and asks   *)
(* the server for proofs and the sponsorship: these go together for one    *)
(* drop only.                                                              *)
SameDrop(d, e) ==
    <<d.gate, d.mint, d.factory, d.paymaster>> = <<e.gate, e.mint, e.factory, e.paymaster>>

MayEnter ==
    CASE job.script = "stark" -> job.reuseStark => files.stark # NoStark
      [] job.script = "4337" ->
            files.stark # NoStark /\ (job.reuse4337 => PinnedToThisMint)
      [] job.script = "marketplace" -> files.stark # NoStark
      [] job.script = "verify" -> VerifyAccepts(Configured)
      [] job.script = "backend" -> servers[8788] # NoServer \/ BootAccepts(Configured)
      [] job.script = "mintOne" -> SameDrop(servers[8788], Configured)
      [] OTHER -> TRUE

(* startBackend takes an answer on the port for its own child's.           *)
Enter ==
    /\ job # Idle /\ ~job.entered
    /\ IF ~MayEnter THEN End("refused")
       ELSE LET boots == job.script = "backend" /\ servers[8788] = NoServer
            IN /\ job' = [job EXCEPT !.entered = TRUE, !.todo = StepsOf(job), !.at = <<>>,
                                     !.next = Nowhere, !.ownBackend = @ \/ boots]
               /\ servers' = IF boots THEN [servers EXCEPT ![8788] = Configured] ELSE servers
               /\ UNCHANGED last
    /\ UNCHANGED <<site, env, chainVars, files, runs, faults>>

InScript == job # Idle /\ job.entered

(* The deploy scripts sign with a NonceManager, which asks for the pending *)
(* count once and then counts itself; the others ask every time.           *)
Pending == nonce + Len(pool)
PendingEachTime == Pending + 1
NextNonce ==
    IF job.script \in {"stark", "4337"} /\ job.next # Nowhere THEN job.next ELSE Pending + 1

Send ==
    /\ InScript /\ job.todo # <<>> /\ job.sent = Nowhere
    /\ IF NextNonce = Pending + 1
       THEN /\ pool' = Append(pool, Transaction(Head(job.todo)))
            /\ job' = [job EXCEPT !.sent = NextNonce, !.next = NextNonce + 1]
            /\ UNCHANGED <<servers, last>>
       ELSE End("refused") /\ UNCHANGED pool
    /\ UNCHANGED <<site, env, nonce, world, reverted, files, runs, faults>>

(* waitForReceiptWithTimeout.  Once the renderer is there the mint's       *)
(* address is foretold from the latest, not the pending, count.            *)
Receipt ==
    /\ InScript /\ job.sent # Nowhere /\ job.sent <= nonce
    /\ IF job.sent \in reverted THEN End("refused")
       ELSE LET role == Head(job.todo).role
            IN /\ job' = [job EXCEPT
                            !.todo = Tail(@), !.sent = Nowhere,
                            !.at = Extended(@, role, job.sent),
                            !.futureMint = IF role = "renderer" THEN FutureMint(nonce) ELSE @]
               /\ UNCHANGED <<servers, last>>
    /\ UNCHANGED <<site, env, chainVars, files, runs, faults>>

StarkFile ==
    [gate |-> At("gate"), mint |-> At("mint"),
     registry |-> IF site.local THEN At("layerRegistry") ELSE Nowhere,
     allowlistSigner |-> env.allowlistSigner]
AAFile ==
    [factory |-> At("factory"), paymaster |-> At("paymaster"),
     gate |-> files.stark.gate, mint |-> files.stark.mint]
MarketplaceFile ==
    [marketplace |-> At("marketplace"), mint |-> files.stark.mint]

WriteFile ==
    IF Reuses(job) THEN files
    ELSE CASE job.script = "stark" -> [files EXCEPT !.stark = StarkFile]
           [] job.script = "4337" -> [files EXCEPT !.aa = AAFile]
           [] job.script = "marketplace" -> [files EXCEPT !.market = MarketplaceFile]
           [] OTHER -> files

Finish ==
    /\ InScript /\ job.todo = <<>>
    /\ files' = WriteFile
    /\ IF job.script = "mintOne" THEN End("minted")
       ELSE IF ~job.all THEN End("done")
       ELSE /\ job' = [job EXCEPT
                         !.entered = FALSE,
                         !.script = ScriptOrder[1 + CHOOSE k \in DOMAIN ScriptOrder :
                                                        ScriptOrder[k] = job.script]]
            /\ UNCHANGED <<servers, last>>
    /\ UNCHANGED <<site, env, chainVars, runs, faults>>

(* The script is killed, or gives up on a receipt; a killed run_all may    *)
(* leave its backend behind.                                               *)
Interrupt(orphan) ==
    /\ job # Idle /\ faults < MaxFaults
    /\ orphan => job.ownBackend
    /\ job' = Idle /\ last' = "interrupted"
    /\ servers' = IF job.ownBackend /\ ~orphan THEN [servers EXCEPT ![8788] = NoServer] ELSE servers
    /\ faults' = faults + 1
    /\ UNCHANGED <<site, env, chainVars, files, runs>>

-----------------------------------------------------------------------------
(* The deployer's account is used elsewhere.                               *)
OtherTx ==
    /\ faults < MaxFaults
    /\ pool' = Append(pool, Create([kind |-> "none"]))
    /\ job' = IF job = Idle THEN job ELSE [job EXCEPT !.fresh = FALSE]
    /\ faults' = faults + 1
    /\ UNCHANGED <<site, env, nonce, world, reverted, files, servers, last, runs>>

EditEnv(e) ==
    /\ job = Idle /\ e # env
    /\ env' = e
    /\ UNCHANGED <<site, chainVars, files, job, servers, last, runs, faults>>

(* The operator's own server, started from the same files.                 *)
StartServer ==
    /\ servers[8787] = NoServer
    /\ BootAccepts(Configured)
    /\ servers' = [servers EXCEPT ![8787] = Configured]
    /\ UNCHANGED <<site, env, chainVars, files, job, last, runs, faults>>

StopServer(port) ==
    /\ servers[port] # NoServer
    /\ port = 8788 => job = Idle
    /\ servers' = [servers EXCEPT ![port] = NoServer]
    /\ UNCHANGED <<site, env, chainVars, files, job, last, runs, faults>>

(* What the script, and what the operator may do next.                     *)
ScriptStep == Enter \/ Send \/ Receipt \/ Finish

StartSome ==
    \E force, reuse \in BOOLEAN :
        \/ StartRun(TRUE, "stark", force, FALSE)
        \/ \E script \in {"stark", "4337", "marketplace", "verify"} :
              StartRun(FALSE, script, force, reuse)

OperatorStep ==
    \/ StartSome
    \/ \E orphan \in BOOLEAN : Interrupt(orphan)
    \/ \E e \in Envs : EditEnv(e)
    \/ StartServer
    \/ \E port \in {8787, 8788} : StopServer(port)

Next == Mine \/ ScriptStep \/ OperatorStep \/ OtherTx

Spec == Init /\ [][Next]_vars

(* A script takes its next step, and a sent transaction is mined.          *)
Fairness == WF_vars(ScriptStep) /\ WF_vars(Mine)
FairSpec == Spec /\ Fairness

-----------------------------------------------------------------------------
(* Types; files name contracts that exist; a paymaster holds one deposit,  *)
(* and one more for each top-up sent again after a timeout.                *)
LaunchTypeOK ==
    /\ site \in Sites /\ env \in Envs
    /\ nonce \in Nat /\ runs \in 0 .. MaxRuns /\ faults \in 0 .. MaxFaults
    /\ DOMAIN world \subseteq 1 .. nonce /\ reverted \subseteq (1 .. nonce) \ DOMAIN world
    /\ \A f \in {files.stark.gate, files.stark.mint, files.stark.registry, files.aa.factory,
                  files.aa.paymaster, files.market.marketplace} \ {Nowhere} : f \in DOMAIN world
    /\ job # Idle => /\ job.sent \in 0 .. nonce + Len(pool)
                     /\ job.ownBackend => servers[8788] # NoServer
    /\ \A a \in DOMAIN world :
          world[a].kind = "paymaster" => world[a].deposit \in 0 .. 1 + faults
    /\ last \in {"none", "done", "minted", "refused", "interrupted"}

(* The ids of bootstrapArtBackend are the storage's own unless two files   *)
(* of the art are byte for byte the same.                                  *)
NoTwins == \A i, j \in DOMAIN site.files : site.files[i] = site.files[j] => i = j

ArtShown(registry) ==
    LET art == world[registry]
        store == world[art.storage].store
    IN /\ Len(art.assets) = Len(site.files)
       /\ \A k \in DOMAIN art.assets :
             /\ Readable(store, art.assets[k])
             /\ StoredBytes(store.records[art.assets[k]]) = site.files[k]

(* What a deployment file says is so on the chain: its gate is bound to    *)
(* its mint, though the mint's address was foretold before it existed, and *)
(* trusts the signer it names; its registry shows each file's own art;     *)
(* its factory may spend proofs of its gate; whatever else the deployer's  *)
(* account was sending, and whichever scripts were cut short before.       *)
FilesAreTrue ==
    /\ files.stark # NoStark =>
          LET s == files.stark
          IN /\ s.mint \in world[s.gate].callers /\ world[s.mint].gate = s.gate
             /\ world[s.gate].signer = s.allowlistSigner
             /\ site.local /\ NoTwins => ArtShown(s.registry)
    /\ files.aa # NoAA =>
          LET a == files.aa
          IN /\ a.factory \in world[a.gate].callers
             /\ world[a.factory].gate = a.gate /\ world[a.factory].mint = a.mint
             /\ world[a.paymaster].mint = a.mint
    /\ files.market # NoMarket => world[files.market.marketplace].mint = files.market.mint

(* A server that is up, whoever started it and whatever has been deployed  *)
(* or rotated in the environment since, hands out proofs and sponsorships  *)
(* that one working drop accepts.                                          *)
ServedDropWorks == \A port \in DOMAIN servers : servers[port] # NoServer => DropHolds(servers[port])

KeysAgree == env.allowlistSigner = env.allowlistKey

(* run_all with FORCE_REDEPLOY gets to its mint whatever earlier runs left *)
(* behind: half-written sets of files, transactions in the mempool, other  *)
(* keys; unless it is cut short itself, the account is used by others, its *)
(* keys disagree or a stale backend holds its port.                        *)
ForcedLaunchFinishes ==
    (job # Idle /\ job.fresh /\ KeysAgree) ~>
        (last \in {"minted", "interrupted"} \/ (job # Idle /\ ~job.fresh))
=============================================================================
