--------------------------- MODULE Launch_proofs ---------------------------
(***************************************************************************)
(* Proofs about putting a drop on a chain, for every set of environments,  *)
(* sites and files, and every number of runs and faults.                   *)
(***************************************************************************)
EXTENDS Launch, SVGStorage_proofs

-----------------------------------------------------------------------------
(* The invariant.  The deployer's transactions by their number: those up   *)
(* to `nonce` are mined, the others wait in `pool`.                        *)
Pendings == nonce + 1 .. nonce + Len(pool)
TxAt(n) == pool[n - nonce]

StorageRoles == {"storeSvgBatch", "initializeChunkedSvg", "appendChunks", "finalizeChunkedSvg"}
RegistryRoles == {"registerLayers", "registerAssets", "registerVariants"}
SharedRoles == {"setAuthorizedCaller", "deposit", "handleOps"}
CallRoles == StorageRoles \cup RegistryRoles \cup SharedRoles \cup {"setAllowlistSigner"}

(* Every contract has the fields of its kind.                              *)
ContractOK(c) ==
    \/ /\ c.kind = "svgStorage"
       /\ c = [kind |-> "svgStorage", store |-> c.store] /\ StoreOK(c.store)
    \/ /\ c.kind = "layerRegistry"
       /\ c = [kind |-> "layerRegistry", storage |-> c.storage, assets |-> c.assets]
    \/ /\ c.kind = "gate"
       /\ c = [kind |-> "gate", signer |-> c.signer, callers |-> c.callers]
    \/ c.kind = "mint" /\ c = [kind |-> "mint", gate |-> c.gate]
    \/ c.kind = "factory" /\ c = [kind |-> "factory", mint |-> c.mint, gate |-> c.gate]
    \/ /\ c.kind = "paymaster"
       /\ c = [kind |-> "paymaster", signer |-> c.signer, mint |-> c.mint, deposit |-> c.deposit]
       /\ c.deposit \in Nat
    \/ c.kind = "marketplace" /\ c = [kind |-> "marketplace", mint |-> c.mint]
    \/ /\ c.kind \in {"none", "renderer", "web3", "entryPointMock", "starknetCoreMock",
                      "account", "inbox"}
       /\ c = [kind |-> c.kind]

CreateOK(tx) ==
    /\ tx = Create(tx.contract) /\ ContractOK(tx.contract)
    /\ tx.contract.kind = "paymaster" => tx.contract.deposit = 0

Is(a, kind) == a \in DOMAIN world /\ world[a].kind = kind

CallOK(tx) ==
    /\ tx = Call(tx.to, tx.step, tx.arg)
    /\ tx.step.role \in CallRoles
    /\ tx.step.role \in StorageRoles =>
          /\ Is(tx.to, "svgStorage")
          /\ tx.step.svgs \in Seq(Contents) /\ tx.step.svgs # <<>>
    /\ tx.step.role \in RegistryRoles => Is(tx.to, "layerRegistry")
    /\ tx.step.role \in {"setAllowlistSigner", "setAuthorizedCaller"} => Is(tx.to, "gate")
    /\ tx.step.role \in {"deposit", "handleOps"} => Is(tx.to, "paymaster")
    /\ tx.step.role = "deposit" => tx.arg = 1

ChainInv ==
    /\ nonce \in Nat /\ IsSeq(pool)
    /\ DOMAIN world \subseteq 1 .. nonce /\ reverted \subseteq (1 .. nonce) \ DOMAIN world
    /\ \A a \in DOMAIN world : ContractOK(world[a])
    /\ \A n \in Pendings :
          IF TxAt(n).to = Nowhere THEN CreateOK(TxAt(n)) ELSE CallOK(TxAt(n))

(* A call that may change what a deployment file or a server relies on     *)
(* goes only to a contract of which none of them knows yet.                *)
Private(tx) == tx.to # Nowhere /\ tx.step.role \notin SharedRoles

Settled ==
    {files.stark.gate, files.aa.gate, files.stark.registry}
    \cup {servers[port].gate : port \in {8787, 8788}}
    \cup {world[a].storage : a \in {files.stark.registry} \ {Nowhere}}

PrivateInv == \A n \in Pendings : Private(TxAt(n)) => TxAt(n).to \notin Settled

StarkInv ==
    files.stark # NoStark =>
        LET s == files.stark
        IN /\ s = [gate |-> s.gate, mint |-> s.mint, registry |-> s.registry,
                   allowlistSigner |-> s.allowlistSigner]
           /\ Is(s.gate, "gate") /\ Is(s.mint, "mint")
           /\ s.mint \in world[s.gate].callers /\ world[s.mint].gate = s.gate
           /\ world[s.gate].signer = s.allowlistSigner
           /\ IF site.local
              THEN /\ Is(s.registry, "layerRegistry")
                   /\ Is(world[s.registry].storage, "svgStorage")
                   /\ NoTwins => ArtShown(s.registry)
              ELSE s.registry = Nowhere

AAInv ==
    files.aa # NoAA =>
        LET a == files.aa
        IN /\ Is(a.gate, "gate") /\ Is(a.factory, "factory") /\ Is(a.paymaster, "paymaster")
           /\ a.factory \in world[a.gate].callers
           /\ world[a.factory].gate = a.gate /\ world[a.factory].mint = a.mint
           /\ world[a.paymaster].mint = a.mint

MarketInv ==
    files.market # NoMarket =>
        /\ Is(files.market.marketplace, "marketplace")
        /\ world[files.market.marketplace].mint = files.market.mint

FilesInv ==
    /\ files = [stark |-> files.stark, aa |-> files.aa, market |-> files.market]
    /\ StarkInv /\ AAInv /\ MarketInv

ServerInv(d) ==
    d # NoServer =>
        /\ Is(d.gate, "gate") /\ Is(d.mint, "mint") /\ Is(d.factory, "factory")
        /\ Is(d.paymaster, "paymaster")
        /\ DropHolds(d)
ServersInv ==
    /\ servers = [port \in {8787, 8788} |-> servers[port]]
    /\ \A port \in {8787, 8788} : ServerInv(servers[port])

(* What a paymaster holds and is about to get: a deposit beyond the first  *)
(* was sent because an interrupted script left another one pending.        *)
DepositsTo(a) == {n \in Pendings : TxAt(n).to = a /\ TxAt(n).step.role = "deposit"}
OthersDepositsTo(a) == IF job = Idle THEN DepositsTo(a) ELSE DepositsTo(a) \ {job.sent}
DepositInv ==
    \A a \in DOMAIN world : world[a].kind = "paymaster" =>
        /\ world[a].deposit + Cardinality(DepositsTo(a)) <= 1 + faults
        /\ Cardinality(OthersDepositsTo(a)) <= faults

-----------------------------------------------------------------------------
(* The plan of the uploads: after its j-th step the storage has the first  *)
(* cover[j] files.                                                         *)
Unfinished == {"initializeChunkedSvg", "appendChunks"}

RoleBefore(todo, j) == IF j = 1 THEN "none" ELSE todo[j - 1].role
StepCovers(step, before, from, to, art) ==
    /\ step.role \in StorageRoles /\ from <= to
    /\ step.role \in {"storeSvgBatch", "initializeChunkedSvg"} => before \notin Unfinished
    /\ step.role = "storeSvgBatch" =>
          /\ step.svgs \in Seq(Contents) /\ step.svgs # <<>>
          /\ Len(step.svgs) = to - from
          /\ \A k \in 1 .. Len(step.svgs) : step.svgs[k] = art[from + k]
    /\ step.role # "storeSvgBatch" => to >= 1 /\ step.svgs = <<art[to]>> /\ step.id = to
    /\ step.role = "initializeChunkedSvg" => to = from + 1
    /\ step.role = "appendChunks" => before = "initializeChunkedSvg" /\ to = from
    /\ step.role = "finalizeChunkedSvg" => before = "appendChunks" /\ to = from

Covers(todo, cover, art) ==
    /\ cover[0] = 0
    /\ \A j \in 1 .. Len(todo) :
          StepCovers(todo[j], RoleBefore(todo, j), cover[j - 1], cover[j], art)

Plan == Bootstrap[site].todo
Cover == CHOOSE cover \in [0 .. Len(Plan) -> 0 .. Len(site.files)] :
            Covers(Plan, cover, site.files) /\ cover[Len(Plan)] = Len(site.files)

StoreAt(store, j) ==
    /\ Len(store.records) = Cover[j]
    /\ \A r \in 1 .. Cover[j] :
          /\ store.records[r].contentHash = site.files[r]
          /\ store.records[r].finalized \/ (r = Cover[j] /\ j > 0 /\ Plan[j].role \in Unfinished)

-----------------------------------------------------------------------------
(* The script that runs.                                                   *)
Scripts == {"stark", "4337", "marketplace", "verify", "topUp", "backend", "mintOne"}

JobShape ==
    /\ job = [script |-> job.script, all |-> job.all, entered |-> job.entered,
              reuseStark |-> job.reuseStark, reuse4337 |-> job.reuse4337, todo |-> job.todo,
              at |-> job.at, sent |-> job.sent, next |-> job.next,
              futureMint |-> job.futureMint, ownBackend |-> job.ownBackend,
              fresh |-> job.fresh]
    /\ job.script \in Scripts /\ job.all \in BOOLEAN /\ job.entered \in BOOLEAN
    /\ job.ownBackend \in BOOLEAN /\ IsSeq(job.todo)
    /\ job.sent \in 0 .. nonce + Len(pool) /\ job.next \in Nat /\ job.futureMint \in Nat

(* What the script found in the files when it began.                       *)
FoundInv ==
    /\ job.ownBackend => servers[8788] # NoServer
    /\ job.script \in {"topUp", "backend", "mintOne"} \/ (job.script = "verify" /\ job.entered) =>
          files.stark # NoStark /\ files.aa # NoAA
    /\ job.script \in {"4337", "marketplace"} /\ job.entered => files.stark # NoStark
    /\ ~job.entered => job.sent = Nowhere
    /\ job.todo = <<>> => job.sent = Nowhere
    /\ job.entered /\ (Reuses(job) \/ job.script \in {"verify", "backend"}) => job.todo = <<>>

(* Its own contracts are known to nobody else, and the one transaction     *)
(* sent to one of them is the one it waits for.                            *)
Addresses == {job.at[role] : role \in DOMAIN job.at}
OwnInv ==
    /\ Addresses \subseteq (1 .. nonce) \ Settled
    /\ job.sent # Nowhere => job.sent \notin Settled
    /\ \A n \in Pendings : TxAt(n).to # Nowhere =>
          TxAt(n).to # job.sent /\ (TxAt(n).to \in Addresses => n = job.sent)

(* The transaction it waits for, before and after it is mined.             *)
Mined == job.sent # Nowhere /\ job.sent <= nonce /\ job.sent \notin reverted
SentInv ==
    job.sent # Nowhere =>
        LET tx == Transaction(Head(job.todo))
        IN /\ job.next = job.sent + 1
           /\ job.sent \in Pendings => TxAt(job.sent) = tx
           /\ Mined /\ tx.to = Nowhere => /\ job.sent \in DOMAIN world
                                          /\ world[job.sent] = tx.contract

Rotations == IF NeedsAllowlistRotation THEN 1 ELSE 0
Received == Len(StarkSteps) - Len(job.todo)
Effective == Received + (IF Mined THEN 1 ELSE 0)
Least(a, b) == IF a <= b THEN a ELSE b

(* deploy_stark, by the steps whose receipt it has.                        *)
StarkTodo ==
    /\ Received \in Nat
    /\ \A i \in 1 .. Len(job.todo) : job.todo[i] = StarkSteps[Received + i]

ArtJob ==
    /\ Received >= 1 => "svgStorage" \in DOMAIN job.at /\ Is(At("svgStorage"), "svgStorage")
    /\ Received >= 2 => /\ "layerRegistry" \in DOMAIN job.at
                        /\ Is(At("layerRegistry"), "layerRegistry")
                        /\ world[At("layerRegistry")].storage = At("svgStorage")
    /\ NoTwins =>
          /\ Received >= 1 =>
                StoreAt(world[At("svgStorage")].store,
                        IF Received = 1 THEN 0 ELSE Least(Effective - 2, Len(Plan)))
          /\ Effective >= Len(Plan) + 4 =>
                world[At("layerRegistry")].assets = Bootstrap[site].ids

ForetellJob ==
    LET before == Len(ArtSteps) + 2 + Rotations - Received
        last1 == IF job.sent = Nowhere THEN job.next ELSE job.sent
    IN /\ Received = Len(ArtSteps) + 1 /\ job.sent = Nowhere =>
             /\ job.next # Nowhere /\ job.next + before <= job.futureMint
             /\ job.futureMint <= nonce + 1 + before
       /\ \/ Received = Len(ArtSteps) + 1 /\ job.sent # Nowhere
          \/ Received \in {Len(ArtSteps) + 2, Len(ArtSteps) + 2 + Rotations}
          => last1 # Nowhere /\ job.futureMint = last1 + before

GateJob ==
    Received >= Len(ArtSteps) + 2 =>
        /\ "gate" \in DOMAIN job.at /\ Is(At("gate"), "gate")
        /\ job.futureMint \in world[At("gate")].callers
        /\ world[At("gate")].signer =
              IF Effective >= Len(ArtSteps) + 2 + Rotations THEN env.allowlistSigner ELSE Deployer

MintJob ==
    Received >= Len(ArtSteps) + 3 + Rotations =>
        /\ "mint" \in DOMAIN job.at /\ Is(At("mint"), "mint") /\ At("mint") = job.futureMint
        /\ world[At("mint")].gate = At("gate")

StarkJob == StarkTodo /\ (site.local => ArtJob) /\ ForetellJob /\ GateJob /\ MintJob

(* deploy_4337, by the steps it still has before it.                       *)
CoreSteps == <<Step("account"), Step("inbox"), Step("factory"), Step("setAuthorizedCaller"),
               Step("paymaster"), Step("deposit")>>
Left == Len(job.todo)
AATodo ==
    \A i \in 1 .. Left :
        IF Left - i < 6 THEN job.todo[i] = CoreSteps[6 - (Left - i)]
        ELSE job.todo[i] \in {Step("entryPointMock"), Step("starknetCoreMock")}

AAJob ==
    /\ AATodo
    /\ Left <= 3 =>
          /\ "factory" \in DOMAIN job.at /\ Is(At("factory"), "factory")
          /\ world[At("factory")].mint = files.stark.mint
          /\ world[At("factory")].gate = files.stark.gate
    /\ Left <= 2 \/ (Left = 3 /\ Mined) => At("factory") \in world[files.stark.gate].callers
    /\ Left <= 1 =>
          /\ "paymaster" \in DOMAIN job.at /\ Is(At("paymaster"), "paymaster")
          /\ world[At("paymaster")].mint = files.stark.mint
    /\ Left = 1 /\ job.sent = Nowhere => world[At("paymaster")].deposit = 0

MarketJob ==
    /\ job.todo \in {<<>>, MarketplaceSteps}
    /\ job.todo = <<>> =>
          /\ "marketplace" \in DOMAIN job.at /\ Is(At("marketplace"), "marketplace")
          /\ world[At("marketplace")].mint = files.stark.mint

TopUpJob ==
    /\ job.todo \in {<<>>, AlwaysTopUp}
    /\ job.todo # <<>> /\ job.sent = Nowhere =>
          world[files.aa.paymaster].deposit + Cardinality(DepositsTo(files.aa.paymaster)) <= faults

ScriptInv ==
    /\ job.script = "stark" /\ ~job.reuseStark => StarkJob
    /\ job.script = "4337" /\ ~job.reuse4337 => AAJob
    /\ job.script = "marketplace" => MarketJob
    /\ job.script = "topUp" => TopUpJob
    /\ job.script = "mintOne" => job.todo \in {<<>>, MintSteps}

JobInv ==
    job # Idle =>
        /\ JobShape /\ FoundInv
        /\ job.entered => OwnInv /\ SentInv /\ ScriptInv

LaunchInv ==
    /\ site \in Sites /\ env \in Envs
    /\ runs \in 0 .. MaxRuns /\ faults \in 0 .. MaxFaults
    /\ last \in {"none", "done", "minted", "refused", "interrupted"}
    /\ ChainInv /\ PrivateInv /\ FilesInv /\ ServersInv /\ DepositInv /\ JobInv

-----------------------------------------------------------------------------
(* The plan of bootstrapArtBackend covers the files one after the other.   *)
HasCover(todo, art, m) ==
    \E cover \in [0 .. Len(todo) -> 0 .. Len(art)] :
        Covers(todo, cover, art) /\ cover[Len(todo)] = m
Numbered(ids) == \A k \in 1 .. Len(ids) : ids[k] = k
Holds(pending, art, first) == \A k \in 1 .. Len(pending) : pending[k] = art[first - 1 + k]
PlanParts(todo, pending, first, ids, art, m) ==
    /\ IsSeq(todo) /\ first \in Nat \ {0} /\ m \in 0 .. Len(art)
    /\ pending \in Seq(Contents) /\ first - 1 + Len(pending) = m
    /\ Holds(pending, art, first)
    /\ ids \in Seq(Nat) /\ Len(ids) = first - 1 /\ Numbered(ids)
    /\ RoleBefore(todo, Len(todo) + 1) \notin Unfinished
    /\ HasCover(todo, art, first - 1)
PlanOK(plan, art, m) ==
    /\ plan = [todo |-> plan.todo, pending |-> plan.pending, nextSvgId |-> plan.nextSvgId,
               ids |-> plan.ids]
    /\ PlanParts(plan.todo, plan.pending, plan.nextSvgId, plan.ids, art, m)

LEMMA CoversAppend ==
    ASSUME NEW todo, IsSeq(todo), NEW art, Len(art) \in Nat, NEW from, HasCover(todo, art, from),
           NEW step, NEW c \in 0 .. Len(art),
           StepCovers(step, RoleBefore(todo, Len(todo) + 1), from, c, art)
    PROVE  /\ IsSeq(Append(todo, step)) /\ Len(Append(todo, step)) = Len(todo) + 1
           /\ RoleBefore(Append(todo, step), Len(Append(todo, step)) + 1) = step.role
           /\ HasCover(Append(todo, step), art, c)
<1>0. PICK cover \in [0 .. Len(todo) -> 0 .. Len(art)] :
         Covers(todo, cover, art) /\ cover[Len(todo)] = from
  BY DEF HasCover
<1> DEFINE l == Len(todo)
           longer == Append(todo, step)
           more == [j \in 0 .. l + 1 |-> IF j = l + 1 THEN c ELSE cover[j]]
<1>1. /\ IsSeq(longer) /\ Len(longer) = l + 1 /\ l \in Nat /\ DOMAIN todo = 1 .. l
      /\ \A i \in 1 .. l : longer[i] = todo[i]
      /\ longer[l + 1] = step
  BY AppendIsSeq, IsSeqProperties
<1> HIDE DEF longer
<1>2. more \in [0 .. l + 1 -> 0 .. Len(art)] /\ more[l + 1] = c /\ \A j \in 0 .. l : more[j] = cover[j]
  BY <1>1
<1> HIDE DEF more
<1>3. RoleBefore(longer, Len(longer) + 1) = step.role
  BY <1>1 DEF RoleBefore
<1>4. \A j \in 1 .. l + 1 : RoleBefore(longer, j) = RoleBefore(todo, j)
  BY <1>1 DEF RoleBefore
<1>5. more[0] = 0
  BY <1>0, <1>1, <1>2 DEF Covers
<1>6. ASSUME NEW j \in 1 .. l + 1
      PROVE  StepCovers(longer[j], RoleBefore(longer, j), more[j - 1], more[j], art)
  <2>1. CASE j = l + 1
    <3>1. l + 1 - 1 = l
      BY <1>1
    <3> QED
      BY <1>0, <1>1, <1>2, <1>4, <2>1, <3>1
  <2>2. CASE j # l + 1
    <3>1. j \in 1 .. l /\ j - 1 \in 0 .. l /\ j \in 0 .. l
      BY <1>1, <2>2
    <3>2. StepCovers(todo[j], RoleBefore(todo, j), cover[j - 1], cover[j], art)
      BY <1>0, <3>1 DEF Covers
    <3> QED
      BY <1>1, <1>2, <1>4, <3>1, <3>2
  <2> QED
    BY <2>1, <2>2
<1>7. Covers(longer, more, art)
  BY <1>1, <1>5, <1>6 DEF Covers
<1>8. HasCover(longer, art, c)
  BY <1>1, <1>2, <1>7 DEF HasCover
<1> QED
  BY <1>1, <1>3, <1>8 DEF longer

LEMMA NumbersConcat ==
    ASSUME NEW ids \in Seq(Nat), Numbered(ids),
           NEW new \in Seq(Nat), \A k \in 1 .. Len(new) : new[k] = Len(ids) + k
    PROVE  /\ ids \o new \in Seq(Nat) /\ Len(ids \o new) = Len(ids) + Len(new)
           /\ Numbered(ids \o new)
<1>1. /\ ids \o new \in Seq(Nat) /\ Len(ids \o new) = Len(ids) + Len(new)
      /\ \A i \in 1 .. Len(ids) + Len(new) :
            (ids \o new)[i] = IF i <= Len(ids) THEN ids[i] ELSE new[i - Len(ids)]
  BY ConcatProperties
<1>2. Len(ids) \in Nat /\ Len(new) \in Nat
  OBVIOUS
<1> DEFINE n == Len(ids)
           c == Len(new)
<1>3. ASSUME NEW k \in 1 .. n + c
      PROVE  (ids \o new)[k] = k
  <2>1. CASE k <= n
    BY <1>1, <1>2, <2>1 DEF Numbered
  <2>2. CASE ~(k <= n)
    <3>1. k - n \in 1 .. c /\ n + (k - n) = k
      BY <1>2, <2>2
    <3>2. new[k - n] = n + (k - n)
      BY <3>1
    <3> QED
      BY <1>1, <2>2, <3>1, <3>2
  <2> QED
    BY <2>1, <2>2
<1> QED
  BY <1>1, <1>3 DEF Numbered

LEMMA FlushParts ==
    ASSUME NEW todo, NEW pending, NEW first, NEW ids, NEW art \in Seq(Contents), NEW m,
           PlanParts(todo, pending, first, ids, art, m), pending # <<>>,
           NEW step, step.role = "storeSvgBatch", step.svgs = pending
    PROVE  PlanParts(Append(todo, step), <<>>, first + Len(pending),
                     ids \o [k \in DOMAIN pending |-> first + k - 1], art, m)
<1> DEFINE count == Len(pending)
           new == [k \in DOMAIN pending |-> first + k - 1]
<1>1. /\ first \in Nat \ {0} /\ count \in Nat \ {0} /\ m \in Nat
      /\ first - 1 + count = m /\ Len(art) \in Nat /\ m \in 0 .. Len(art)
  BY EmptySeq DEF PlanParts
<1>2. /\ new \in Seq(Nat) /\ Len(new) = count
      /\ \A k \in 1 .. count : new[k] = first - 1 + k
  <2>1. DOMAIN pending = 1 .. count
    BY DEF PlanParts
  <2> QED
    BY <1>1, <2>1
<1> HIDE DEF count, new
<1>3. ids \in Seq(Nat) /\ Len(ids) = first - 1 /\ Numbered(ids) /\ IsSeq(todo)
  BY DEF PlanParts
<1>4. /\ ids \o new \in Seq(Nat) /\ Len(ids \o new) = first - 1 + count /\ Numbered(ids \o new)
  BY <1>2, <1>3, NumbersConcat
<1>5. StepCovers(step, RoleBefore(todo, Len(todo) + 1), first - 1, m, art)
  <2>1. /\ RoleBefore(todo, Len(todo) + 1) \notin Unfinished
        /\ \A k \in 1 .. count : pending[k] = art[first - 1 + k]
        /\ pending \in Seq(Contents)
    BY DEF PlanParts, Holds, count
  <2>2. first - 1 <= m /\ count = m - (first - 1)
    BY <1>1
  <2> QED
    BY <2>1, <2>2 DEF StepCovers, StorageRoles, count
<1>6. HasCover(todo, art, first - 1)
  BY DEF PlanParts
<1>7. /\ IsSeq(Append(todo, step)) /\ Len(Append(todo, step)) = Len(todo) + 1
      /\ RoleBefore(Append(todo, step), Len(Append(todo, step)) + 1) = step.role
      /\ HasCover(Append(todo, step), art, m)
  BY <1>1, <1>3, <1>5, <1>6, CoversAppend
<1>8. /\ <<>> \in Seq(Contents) /\ Len(<<>>) = 0
      /\ first + count \in Nat \ {0} /\ first + count - 1 = m /\ m + 0 = m
  BY <1>1
<1>9. Holds(<<>>, art, first + count) /\ "storeSvgBatch" \notin Unfinished
  BY DEF Holds, Unfinished
<1> DEFINE longer == Append(todo, step)
           more == ids \o new
           next == first + count
<1>10. next - 1 = m /\ first - 1 + count = next - 1 /\ next \in Nat \ {0}
  BY <1>1
<1>11. RoleBefore(longer, Len(longer) + 1) \notin Unfinished
  BY <1>7, <1>9
<1>12. /\ IsSeq(longer) /\ HasCover(longer, art, m)
       /\ more \in Seq(Nat) /\ Len(more) = first - 1 + count /\ Numbered(more)
       /\ Holds(<<>>, art, next)
  BY <1>4, <1>7, <1>9
<1> HIDE DEF longer, more, next
<1>13. m \in 0 .. Len(art) /\ <<>> \in Seq(Contents) /\ next - 1 + Len(<<>>) = m
  BY <1>1, <1>8, <1>10
<1>14. PlanParts(longer, <<>>, next, more, art, m)
  BY <1>10, <1>11, <1>12, <1>13 DEF PlanParts
<1> QED
  BY <1>14 DEF count, new, longer, more, next

LEMMA FlushPlanOK ==
    ASSUME NEW plan, NEW art \in Seq(Contents), NEW m, PlanOK(plan, art, m)
    PROVE  /\ PlanOK(FlushSmallBatch(plan), art, m)
           /\ FlushSmallBatch(plan).pending = <<>>
<1> DEFINE flushed == FlushSmallBatch(plan)
<1>1. CASE plan.pending = <<>>
  <2>1. flushed = plan
    BY <1>1 DEF FlushSmallBatch
  <2> HIDE DEF flushed
  <2>2. PlanOK(flushed, art, m) /\ flushed.pending = <<>>
    BY <1>1, <2>1
  <2> QED
    BY <2>2 DEF flushed
<1>2. CASE plan.pending # <<>>
  <2> DEFINE step == [Step("storeSvgBatch") EXCEPT !.svgs = plan.pending]
             todo == Append(plan.todo, step)
             first == plan.nextSvgId + Len(plan.pending)
             ids == plan.ids \o [k \in DOMAIN plan.pending |-> plan.nextSvgId + k - 1]
  <2>1. flushed = [todo |-> todo, pending |-> <<>>, nextSvgId |-> first, ids |-> ids]
    BY <1>2 DEF FlushSmallBatch
  <2>2. step.role = "storeSvgBatch" /\ step.svgs = plan.pending
    BY DEF Step
  <2>3. PlanParts(plan.todo, plan.pending, plan.nextSvgId, plan.ids, art, m)
    BY DEF PlanOK
  <2> HIDE DEF step
  <2>4. PlanParts(todo, <<>>, first, ids, art, m)
    BY <1>2, <2>2, <2>3, FlushParts
  <2> HIDE DEF todo, first, ids, flushed
  <2>5. /\ flushed.todo = todo /\ flushed.pending = <<>> /\ flushed.nextSvgId = first
        /\ flushed.ids = ids
    BY <2>1
  <2>6. PlanOK(flushed, art, m) /\ flushed.pending = <<>>
    BY <2>1, <2>4, <2>5 DEF PlanOK
  <2> QED
    BY <2>6 DEF flushed
<1> QED
  BY <1>1, <1>2

LEMMA OneContent ==
    ASSUME NEW art \in Seq(Contents), NEW k \in 1 .. Len(art)
    PROVE  art[k] \in Contents /\ Len(art) \in Nat
  OBVIOUS

LEMMA ChunkedParts ==
    ASSUME NEW todo, NEW first, NEW ids, NEW art \in Seq(Contents), NEW m,
           PlanParts(todo, <<>>, first, ids, art, m), m + 1 \in 1 .. Len(art),
           NEW a, NEW b, NEW c,
           a.role = "initializeChunkedSvg", b.role = "appendChunks", c.role = "finalizeChunkedSvg",
           \A step \in {a, b, c} : step.svgs = <<art[m + 1]>> /\ step.id = first
    PROVE  /\ first = m + 1
           /\ PlanParts(todo \o <<a, b, c>>, <<>>, first + 1, Append(ids, first), art, m + 1)
<1>1. /\ first \in Nat \ {0} /\ m \in Nat /\ first = m + 1 /\ first - 1 = m
      /\ m \in 0 .. Len(art) /\ Len(art) \in Nat /\ m + 1 \in 0 .. Len(art)
      /\ first + 1 - 1 = m + 1 /\ m + 1 >= 1 /\ m <= m + 1 /\ first + 1 \in Nat \ {0}
  <2>1. first \in Nat \ {0} /\ m \in 0 .. Len(art) /\ first - 1 + Len(<<>>) = m
    BY DEF PlanParts
  <2>2. Len(<<>>) = 0 /\ Len(art) \in Nat
    OBVIOUS
  <2> QED
    BY <2>1, <2>2
<1>2. /\ IsSeq(todo) /\ ids \in Seq(Nat) /\ Len(ids) = first - 1 /\ Numbered(ids)
      /\ RoleBefore(todo, Len(todo) + 1) \notin Unfinished /\ HasCover(todo, art, m)
  BY <1>1 DEF PlanParts
<1> DEFINE one == Append(todo, a)
           two == Append(one, b)
           three == Append(two, c)
<1>3. /\ a.svgs = <<art[m + 1]>> /\ a.id = m + 1
      /\ b.svgs = <<art[m + 1]>> /\ b.id = m + 1
      /\ c.svgs = <<art[m + 1]>> /\ c.id = m + 1
  BY <1>1
<1>4. /\ IsSeq(one) /\ RoleBefore(one, Len(one) + 1) = a.role /\ HasCover(one, art, m + 1)
      /\ Len(one) = Len(todo) + 1
  <2>1. StepCovers(a, RoleBefore(todo, Len(todo) + 1), m, m + 1, art)
    BY <1>1, <1>2, <1>3 DEF StepCovers, StorageRoles
  <2>2. /\ IsSeq(todo) /\ HasCover(todo, art, m) /\ Len(art) \in Nat
        /\ m + 1 \in 0 .. Len(art)
    BY <1>1, <1>2
  <2> QED
    BY <2>1, <2>2, CoversAppend
<1> HIDE DEF one
<1>5. /\ IsSeq(two) /\ RoleBefore(two, Len(two) + 1) = b.role /\ HasCover(two, art, m + 1)
      /\ Len(two) = Len(one) + 1
  <2>1. StepCovers(b, RoleBefore(one, Len(one) + 1), m + 1, m + 1, art)
    BY <1>1, <1>3, <1>4 DEF StepCovers, StorageRoles
  <2>2. /\ IsSeq(one) /\ HasCover(one, art, m + 1) /\ Len(art) \in Nat
        /\ m + 1 \in 0 .. Len(art)
    BY <1>1, <1>4
  <2> QED
    BY <2>1, <2>2, CoversAppend
<1> HIDE DEF two
<1>6. /\ IsSeq(three) /\ RoleBefore(three, Len(three) + 1) = c.role
      /\ HasCover(three, art, m + 1) /\ Len(three) = Len(two) + 1
  <2>1. StepCovers(c, RoleBefore(two, Len(two) + 1), m + 1, m + 1, art)
    BY <1>1, <1>3, <1>5 DEF StepCovers, StorageRoles
  <2>2. /\ IsSeq(two) /\ HasCover(two, art, m + 1) /\ Len(art) \in Nat
        /\ m + 1 \in 0 .. Len(art)
    BY <1>1, <1>5
  <2> QED
    BY <2>1, <2>2, CoversAppend
<1> HIDE DEF three
<1>7. todo \o <<a, b, c>> = three
  <2> DEFINE S == ToSet(todo) \cup {a, b, c}
  <2>1. todo \in Seq(S) /\ a \in S /\ b \in S /\ c \in S
    BY <1>2, SeqMonotonic DEF IsSeq
  <2> HIDE DEF S
  <2>2. one = Append(todo, a) /\ two = Append(one, b) /\ three = Append(two, c)
    BY DEF one, two, three
  <2>3. /\ Append(todo, a) = todo \o <<a>> /\ one \in Seq(S)
    BY <2>1, <2>2
  <2>4. two \in Seq(S) /\ three \in Seq(S)
    BY <2>1, <2>2, <2>3
  <2>5. <<a, b, c>> \in Seq(S) /\ Len(<<a, b, c>>) = 3
    BY <2>1
  <2>6. /\ todo \o <<a, b, c>> \in Seq(S) /\ Len(todo \o <<a, b, c>>) = Len(todo) + 3
        /\ \A i \in 1 .. Len(todo) + 3 :
              (todo \o <<a, b, c>>)[i] = IF i <= Len(todo) THEN todo[i]
                                         ELSE <<a, b, c>>[i - Len(todo)]
    BY <2>1, <2>5, ConcatProperties
  <2>7. Len(todo) \in Nat /\ Len(three) = Len(todo) + 3 /\ Len(one) = Len(todo) + 1
        /\ Len(two) = Len(todo) + 2
    BY <1>2, <1>4, <1>5, <1>6, IsSeqProperties
  <2>8. /\ \A i \in 1 .. Len(todo) : one[i] = todo[i] /\ two[i] = todo[i] /\ three[i] = todo[i]
        /\ one[Len(todo) + 1] = a /\ two[Len(todo) + 1] = a /\ three[Len(todo) + 1] = a
        /\ two[Len(todo) + 2] = b /\ three[Len(todo) + 2] = b
        /\ three[Len(todo) + 3] = c
    BY <2>1, <2>2, <2>3, <2>4, <2>7, AppendProperties
  <2>9. ASSUME NEW i \in 1 .. Len(todo) + 3
        PROVE  (todo \o <<a, b, c>>)[i] = three[i]
    <3>1. i \in 1 .. Len(todo) \/ i = Len(todo) + 1 \/ i = Len(todo) + 2 \/ i = Len(todo) + 3
      BY <2>7
    <3> QED
      BY <2>6, <2>7, <2>8, <3>1
  <2> QED
    BY <2>4, <2>6, <2>7, <2>9, SeqEqual
<1>8. /\ Append(ids, first) \in Seq(Nat) /\ Len(Append(ids, first)) = m + 1
      /\ Numbered(Append(ids, first))
  <2>1. /\ Append(ids, first) \in Seq(Nat) /\ Len(Append(ids, first)) = Len(ids) + 1
        /\ \A i \in 1 .. Len(ids) : Append(ids, first)[i] = ids[i]
        /\ Append(ids, first)[Len(ids) + 1] = first
    BY <1>1, <1>2, AppendProperties
  <2>2. \A k \in 1 .. Len(ids) + 1 : k \in 1 .. Len(ids) \/ k = first
    BY <1>1, <1>2
  <2> QED
    BY <1>1, <1>2, <2>1, <2>2 DEF Numbered
<1>9. <<>> \in Seq(Contents) /\ Len(<<>>) = 0 /\ Holds(<<>>, art, first + 1)
  BY DEF Holds
<1>10. RoleBefore(three, Len(three) + 1) \notin Unfinished
  BY <1>6 DEF Unfinished
<1>11. first + 1 - 1 + Len(<<>>) = m + 1 /\ HasCover(three, art, first + 1 - 1)
  BY <1>1, <1>6, <1>9
<1>12. Len(Append(ids, first)) = first + 1 - 1
  BY <1>1, <1>8
<1> DEFINE next == first + 1
           more == Append(ids, first)
<1>13. /\ IsSeq(three) /\ next \in Nat \ {0} /\ m + 1 \in 0 .. Len(art)
       /\ <<>> \in Seq(Contents) /\ next - 1 + Len(<<>>) = m + 1 /\ Holds(<<>>, art, next)
       /\ more \in Seq(Nat) /\ Len(more) = next - 1 /\ Numbered(more)
       /\ HasCover(three, art, next - 1)
  BY <1>1, <1>6, <1>8, <1>9, <1>11, <1>12
<1> HIDE DEF next, more
<1>14. PlanParts(three, <<>>, next, more, art, m + 1)
  BY <1>10, <1>13 DEF PlanParts
<1> QED
  BY <1>1, <1>7, <1>14 DEF next, more

LEMMA PlanChunkedOK ==
    ASSUME NEW plan, NEW art \in Seq(Contents), NEW m, PlanOK(plan, art, m),
           m + 1 \in 1 .. Len(art)
    PROVE  PlanOK(PlanChunked(plan, art[m + 1]), art, m + 1)
<1> DEFINE f == FlushSmallBatch(plan)
           step(role) == [role |-> role, svgs |-> <<art[m + 1]>>, id |-> f.nextSvgId]
           todo == f.todo \o <<step("initializeChunkedSvg"), step("appendChunks"),
                               step("finalizeChunkedSvg")>>
           ids == Append(f.ids, f.nextSvgId)
           first == f.nextSvgId + 1
           new == PlanChunked(plan, art[m + 1])
<1>1. PlanOK(f, art, m) /\ f.pending = <<>>
  BY FlushPlanOK
<1>2. new = [f EXCEPT !.todo = todo, !.nextSvgId = first, !.ids = ids]
  BY <1>1 DEF PlanChunked, PlanOK
<1>3. PlanParts(f.todo, <<>>, f.nextSvgId, f.ids, art, m)
  <2> HIDE DEF f
  <2> QED
    BY <1>1 DEF PlanOK
<1>4. PlanParts(todo, <<>>, first, ids, art, m + 1)
  <2> DEFINE a == step("initializeChunkedSvg")
             b == step("appendChunks")
             c == step("finalizeChunkedSvg")
  <2> HIDE DEF f
  <2>1. /\ a.role = "initializeChunkedSvg" /\ b.role = "appendChunks"
        /\ c.role = "finalizeChunkedSvg"
        /\ \A s \in {a, b, c} : s.svgs = <<art[m + 1]>> /\ s.id = f.nextSvgId
    OBVIOUS
  <2> HIDE DEF a, b, c
  <2>2. PlanParts(f.todo \o <<a, b, c>>, <<>>, first, ids, art, m + 1)
    BY <1>3, <2>1, ChunkedParts
  <2> QED
    BY <2>2 DEF a, b, c
<1>5. f = [todo |-> f.todo, pending |-> f.pending, nextSvgId |-> f.nextSvgId, ids |-> f.ids]
  <2> HIDE DEF f
  <2> QED
    BY <1>1 DEF PlanOK
<1> HIDE DEF f, todo, first, ids, new
<1>6. new = [todo |-> todo, pending |-> <<>>, nextSvgId |-> first, ids |-> ids]
  BY <1>1, <1>2, <1>5
<1>7. PlanOK(new, art, m + 1)
  BY <1>4, <1>6 DEF PlanOK
<1> QED
  BY <1>7 DEF new

LEMMA CollectParts ==
    ASSUME NEW todo, NEW pending, NEW first, NEW ids, NEW art \in Seq(Contents), NEW m,
           PlanParts(todo, pending, first, ids, art, m), m + 1 \in 1 .. Len(art)
    PROVE  PlanParts(todo, Append(pending, art[m + 1]), first, ids, art, m + 1)
<1> DEFINE more == Append(pending, art[m + 1])
           l == Len(pending)
<1>1. /\ pending \in Seq(Contents) /\ first - 1 + l = m /\ first \in Nat \ {0}
      /\ Holds(pending, art, first)
  BY DEF PlanParts
<1>2. /\ more \in Seq(Contents) /\ Len(more) = l + 1 /\ l \in Nat
      /\ \A k \in 1 .. l : more[k] = pending[k]
      /\ more[l + 1] = art[m + 1]
  BY <1>1, OneContent, AppendProperties
<1> HIDE DEF more
<1>3. Holds(more, art, first)
  <2>1. ASSUME NEW k \in 1 .. l + 1 PROVE more[k] = art[first - 1 + k]
    <3>1. CASE k \in 1 .. l
      BY <1>1, <1>2, <3>1 DEF Holds
    <3>2. CASE k = l + 1
      <4>1. first - 1 + k = m + 1
        BY <1>1, <1>2, <3>2
      <4> QED
        BY <1>2, <3>2, <4>1
    <3> QED
      BY <1>2, <3>1, <3>2
  <2> QED
    BY <1>2, <2>1 DEF Holds
<1>4. first - 1 + Len(more) = m + 1 /\ m + 1 \in 0 .. Len(art)
  BY <1>1, <1>2
<1>5. PlanParts(todo, more, first, ids, art, m + 1)
  BY <1>2, <1>3, <1>4 DEF PlanParts
<1> QED
  BY <1>5 DEF more

LEMMA PlanSvgOK ==
    ASSUME NEW plan, NEW art \in Seq(Contents), NEW m, PlanOK(plan, art, m),
           m + 1 \in 1 .. Len(art)
    PROVE  PlanOK(PlanSvg(plan, art[m + 1]), art, m + 1)
<1> DEFINE svg == art[m + 1]
           more == [plan EXCEPT !.pending = Append(@, svg)]
<1>1. PlanOK(more, art, m + 1)
  <2> DEFINE pending == Append(plan.pending, svg)
  <2>1. PlanParts(plan.todo, pending, plan.nextSvgId, plan.ids, art, m + 1)
    BY CollectParts DEF PlanOK
  <2> HIDE DEF pending
  <2>2. more = [todo |-> plan.todo, pending |-> pending, nextSvgId |-> plan.nextSvgId,
                ids |-> plan.ids]
    BY DEF PlanOK, pending
  <2> HIDE DEF more
  <2> QED
    BY <2>1, <2>2 DEF PlanOK
<1>2. PlanSvg(plan, svg) \in {PlanChunked(plan, svg), FlushSmallBatch(more), more}
  BY DEF PlanSvg
<1>3. PlanOK(PlanChunked(plan, svg), art, m + 1)
  BY PlanChunkedOK
<1> HIDE DEF more
<1>4. PlanOK(FlushSmallBatch(more), art, m + 1)
  BY <1>1, FlushPlanOK
<1> QED
  BY <1>1, <1>2, <1>3, <1>4

(* upTo of Bootstrap.                                                      *)
Plans(g, art, n) ==
    \A k \in 0 .. n : g[k] = IF k = 0 THEN NothingPlanned ELSE PlanSvg(g[k - 1], art[k])

LEMMA PlansExist ==
    ASSUME NEW art \in Seq(Contents)
    PROVE  \E g : g = [k \in 0 .. Len(art) |->
                          IF k = 0 THEN NothingPlanned ELSE PlanSvg(g[k - 1], art[k])]
<1> DEFINE Has(n) == \E g : Plans(g, art, n)
           Lacking == {n \in 0 .. Len(art) : ~Has(n)}
<1>1. Lacking \in SUBSET Nat
  OBVIOUS
<1>2. ASSUME Lacking # {} PROVE FALSE
  <2>1. PICK n \in Lacking : \A m \in Nat : m < n => m \notin Lacking
    <3> HIDE DEF Lacking
    <3> QED
      BY <1>1, <1>2, SmallestNumber
  <2>2. n \in 0 .. Len(art) /\ ~Has(n)
    BY <2>1
  <2>3. n # 0
    <3>1. Plans([k \in 0 .. 0 |-> NothingPlanned], art, 0)
      BY DEF Plans
    <3> QED
      BY <2>2, <3>1
  <2>4. n - 1 \in Nat /\ n - 1 < n /\ n - 1 \in 0 .. Len(art) /\ n \in Nat
    BY <2>2, <2>3
  <2>5. Has(n - 1)
    <3> HIDE DEF Has
    <3> QED
      BY <2>1, <2>4
  <2>6. PICK g : Plans(g, art, n - 1)
    BY <2>5
  <2> DEFINE end == PlanSvg(g[n - 1], art[n])
             h == [k \in 0 .. n |-> IF k = n THEN end ELSE g[k]]
  <2>7. Plans(h, art, n)
    <3> SUFFICES ASSUME NEW k \in 0 .. n
                 PROVE  h[k] = IF k = 0 THEN NothingPlanned ELSE PlanSvg(h[k - 1], art[k])
      BY DEF Plans
    <3> HIDE DEF end
    <3>1. CASE k = n
      <4>1. h[k] = end /\ h[k - 1] = g[n - 1]
        BY <2>3, <2>4, <3>1
      <4> QED
        BY <2>3, <3>1, <4>1 DEF end
    <3>2. CASE k # n
      <4>1. k \in 0 .. n - 1 /\ h[k] = g[k] /\ (k # 0 => h[k - 1] = g[k - 1])
        BY <2>4, <3>2
      <4> QED
        BY <2>6, <4>1 DEF Plans
    <3> QED
      BY <3>1, <3>2
  <2> QED
    BY <2>2, <2>7
<1>3. Len(art) \in 0 .. Len(art)
  OBVIOUS
<1>4. Has(Len(art))
  BY <1>2, <1>3
<1>5. PICK g : Plans(g, art, Len(art))
  BY <1>4
<1> DEFINE h == [k \in 0 .. Len(art) |->
                    IF k = 0 THEN NothingPlanned ELSE PlanSvg(g[k - 1], art[k])]
<1>6. \A k \in 0 .. Len(art) : h[k] = g[k]
  BY <1>5 DEF Plans
<1>7. \A k \in 0 .. Len(art) : k # 0 => h[k - 1] = g[k - 1]
  BY <1>6
<1>8. h = [k \in 0 .. Len(art) |->
              IF k = 0 THEN NothingPlanned ELSE PlanSvg(h[k - 1], art[k])]
  BY <1>7
<1> QED
  BY <1>8

LEMMA BootstrapPlan ==
    ASSUME NEW s \in Sites
    PROVE  /\ PlanOK(Bootstrap[s], s.files, Len(s.files)) /\ s.files \in Seq(Contents)
           /\ Bootstrap[s].nextSvgId = Len(s.files) + 1
<1> DEFINE art == s.files
           F(f) == f = [k \in 0 .. Len(art) |->
                           IF k = 0 THEN NothingPlanned ELSE PlanSvg(f[k - 1], art[k])]
           upTo == CHOOSE f : F(f)
<1>1. art \in Seq(Contents) /\ Len(art) \in Nat
  BY LaunchAssumption
<1>2. F(upTo)
  BY <1>1, PlansExist
<1>3. Bootstrap[s] = FlushSmallBatch(upTo[Len(art)])
  BY DEF Bootstrap
<1> HIDE DEF upTo
<1>4. Plans(upTo, art, Len(art))
  BY <1>1, <1>2 DEF Plans
<1> HIDE DEF F
<1> DEFINE Wrong == {n \in 0 .. Len(art) : ~PlanOK(upTo[n], art, n)}
<1>5. Wrong \in SUBSET Nat
  BY <1>1
<1>6. ASSUME Wrong # {} PROVE FALSE
  <2>1. PICK n \in Wrong : \A m \in Nat : m < n => m \notin Wrong
    <3> HIDE DEF Wrong
    <3> QED
      BY <1>5, <1>6, SmallestNumber
  <2>2. n \in 0 .. Len(art) /\ ~PlanOK(upTo[n], art, n)
    BY <2>1
  <2>3. CASE n = 0
    <3>1. upTo[n] = NothingPlanned
      BY <1>1, <1>4, <2>3 DEF Plans
    <3>2. PlanParts(<<>>, <<>>, 1, <<>>, art, 0)
      <4>1. /\ Len(<<>>) = 0 /\ <<>> \in Seq(Contents) /\ <<>> \in Seq(Nat) /\ IsSeq(<<>>)
            /\ 1 - 1 + 0 = 0 /\ 0 = 1 - 1 /\ 0 \in 0 .. Len(art) /\ 1 \in Nat \ {0}
        BY <1>1 DEF IsSeq
      <4>2. Holds(<<>>, art, 1) /\ Numbered(<<>>)
        BY DEF Holds, Numbered
      <4>3. RoleBefore(<<>>, Len(<<>>) + 1) \notin Unfinished
        BY <4>1 DEF RoleBefore, Unfinished
      <4>4. HasCover(<<>>, art, 1 - 1)
        <5>1. [j \in 0 .. 0 |-> 0] \in [0 .. 0 -> 0 .. Len(art)]
          BY <1>1
        <5>2. Covers(<<>>, [j \in 0 .. 0 |-> 0], art)
          BY <4>1 DEF Covers
        <5> QED
          BY <4>1, <5>1, <5>2 DEF HasCover
      <4> QED
        BY <4>1, <4>2, <4>3, <4>4 DEF PlanParts
    <3> QED
      BY <2>2, <2>3, <3>1, <3>2 DEF PlanOK, NothingPlanned
  <2>4. CASE n # 0
    <3>1. /\ n - 1 \in Nat /\ n - 1 < n /\ n - 1 \in 0 .. Len(art) /\ n - 1 + 1 = n
          /\ n \in 1 .. Len(art)
      BY <1>1, <2>2, <2>4
    <3>2. PlanOK(upTo[n - 1], art, n - 1)
      BY <2>1, <3>1
    <3>3. upTo[n] = PlanSvg(upTo[n - 1], art[n])
      BY <1>4, <2>2, <2>4 DEF Plans
    <3> DEFINE m == n - 1
    <3>4. PlanOK(upTo[m], art, m) /\ m + 1 = n /\ m + 1 \in 1 .. Len(art)
      BY <3>1, <3>2
    <3> HIDE DEF m
    <3>5. PlanOK(PlanSvg(upTo[m], art[m + 1]), art, m + 1)
      BY <1>1, <3>4, PlanSvgOK
    <3> QED
      BY <2>2, <3>3, <3>4, <3>5 DEF m
  <2> QED
    BY <2>3, <2>4
<1>7. PlanOK(upTo[Len(art)], art, Len(art))
  BY <1>1, <1>6
<1>8. PlanOK(Bootstrap[s], art, Len(art)) /\ Bootstrap[s].pending = <<>>
  BY <1>1, <1>3, <1>7, FlushPlanOK
<1>9. Bootstrap[s].nextSvgId = Len(art) + 1
  <2> DEFINE first == Bootstrap[s].nextSvgId
  <2>1. first \in Nat \ {0} /\ first - 1 + Len(<<>>) = Len(art)
    BY <1>8 DEF PlanOK, PlanParts
  <2> HIDE DEF first
  <2>2. first = Len(art) + 1
    BY <1>1, <2>1
  <2> QED
    BY <2>2 DEF first
<1> QED
  BY <1>1, <1>8, <1>9

LEMMA PlanFacts ==
    ASSUME site \in Sites
    PROVE  /\ IsSeq(Plan) /\ Len(Plan) \in Nat /\ DOMAIN Plan = 1 .. Len(Plan)
           /\ site.files \in Seq(Contents) /\ Len(site.files) \in Nat
           /\ Cover \in [0 .. Len(Plan) -> 0 .. Len(site.files)]
           /\ Covers(Plan, Cover, site.files) /\ Cover[Len(Plan)] = Len(site.files)
           /\ RoleBefore(Plan, Len(Plan) + 1) \notin Unfinished
           /\ Bootstrap[site].ids \in Seq(Nat) /\ Len(Bootstrap[site].ids) = Len(site.files)
           /\ Numbered(Bootstrap[site].ids)
<1> DEFINE art == site.files
           b == Bootstrap[site]
<1>1. /\ PlanOK(b, art, Len(art)) /\ art \in Seq(Contents) /\ b.nextSvgId = Len(art) + 1
      /\ Len(art) \in Nat /\ b.nextSvgId - 1 = Len(art) /\ Plan = b.todo
  BY BootstrapPlan DEF Plan
<1> HIDE DEF b, art
<1>2. /\ IsSeq(Plan) /\ HasCover(Plan, art, Len(art))
      /\ RoleBefore(Plan, Len(Plan) + 1) \notin Unfinished
      /\ b.ids \in Seq(Nat) /\ Len(b.ids) = Len(art) /\ Numbered(b.ids)
  BY <1>1 DEF PlanOK, PlanParts
<1>3. /\ Cover \in [0 .. Len(Plan) -> 0 .. Len(art)]
      /\ Covers(Plan, Cover, art) /\ Cover[Len(Plan)] = Len(art)
  BY <1>2 DEF HasCover, Cover, art
<1> QED
  BY <1>1, <1>2, <1>3, IsSeqProperties DEF art, b

(* The step after the j-th, by what it covers.                             *)
LEMMA NextCovers ==
    ASSUME site \in Sites, NEW j \in 1 .. Len(Plan)
    PROVE  /\ Cover[j - 1] \in Nat /\ Cover[j] \in Nat /\ Cover[j] <= Len(site.files)
           /\ StepCovers(Plan[j], RoleBefore(Plan, j), Cover[j - 1], Cover[j], site.files)
<1>1. j - 1 \in 0 .. Len(Plan) /\ j \in 0 .. Len(Plan) /\ Len(Plan) \in Nat
  BY PlanFacts
<1>2. Covers(Plan, Cover, site.files) /\ Cover \in [0 .. Len(Plan) -> 0 .. Len(site.files)]
  BY PlanFacts
<1>3. Len(site.files) \in Nat
  BY PlanFacts
<1>4. StepCovers(Plan[j], RoleBefore(Plan, j), Cover[j - 1], Cover[j], site.files)
  BY <1>2 DEF Covers
<1>5. Cover[j - 1] \in 0 .. Len(site.files) /\ Cover[j] \in 0 .. Len(site.files)
  BY <1>1, <1>2
<1> QED
  BY <1>3, <1>4, <1>5

-----------------------------------------------------------------------------
(* The steps of deploy_stark.                                              *)
JoinOf(s, t, j) ==
    /\ IsSeq(j) /\ Len(j) = Len(s) + Len(t) /\ Len(s) \in Nat /\ Len(t) \in Nat
    /\ \A i \in 1 .. Len(s) : j[i] = s[i]
    /\ \A i \in 1 .. Len(t) : j[Len(s) + i] = t[i]

LEMMA ConcatFacts ==
    ASSUME NEW s, NEW t, IsSeq(s), IsSeq(t)
    PROVE  JoinOf(s, t, s \o t)
<1> DEFINE S == ToSet(s) \cup ToSet(t)
<1>1. s \in Seq(S) /\ t \in Seq(S)
  BY SeqMonotonic DEF IsSeq
<1> HIDE DEF S
<1>2. /\ Len(s \o t) = Len(s) + Len(t) /\ s \o t \in Seq(S)
      /\ \A i \in 1 .. Len(s) + Len(t) :
            (s \o t)[i] = IF i <= Len(s) THEN s[i] ELSE t[i - Len(s)]
  BY <1>1, ConcatProperties
<1>3. Len(s) \in Nat /\ Len(t) \in Nat
  BY <1>1
<1>4. ASSUME NEW i \in 1 .. Len(t) PROVE (s \o t)[Len(s) + i] = t[i]
  <2>1. Len(s) + i \in 1 .. Len(s) + Len(t) /\ ~(Len(s) + i <= Len(s)) /\ Len(s) + i - Len(s) = i
    BY <1>3
  <2> QED
    BY <1>2, <2>1
<1>5. IsSeq(s \o t)
  BY <1>2, SeqIsSeq
<1>6. \A i \in 1 .. Len(s) : (s \o t)[i] = s[i]
  BY <1>2, <1>3
<1> QED
  BY <1>2, <1>3, <1>4, <1>5, <1>6 DEF JoinOf

ArtLayout ==
    /\ Len(ArtSteps) \in Nat /\ IsSeq(ArtSteps)
    /\ ~site.local => Len(ArtSteps) = 0
    /\ site.local =>
          /\ Len(ArtSteps) = Len(Plan) + 5
          /\ ArtSteps[1] = Step("svgStorage") /\ ArtSteps[2] = Step("layerRegistry")
          /\ \A j \in 1 .. Len(Plan) : ArtSteps[2 + j] = Plan[j]
          /\ ArtSteps[Len(Plan) + 3] = Step("registerLayers")
          /\ ArtSteps[Len(Plan) + 4] = Step("registerAssets")
          /\ ArtSteps[Len(Plan) + 5] = Step("registerVariants")

LEMMA ArtStepsAre == ASSUME site \in Sites PROVE ArtLayout
<1> DEFINE front == <<Step("svgStorage"), Step("layerRegistry")>>
           back == <<Step("registerLayers"), Step("registerAssets"), Step("registerVariants")>>
           P == Len(Plan)
<1>0. IsSeq(<<>>) /\ Len(<<>>) = 0
  BY DEF IsSeq
<1>1. /\ IsSeq(front) /\ Len(front) = 2 /\ front[1] = Step("svgStorage")
      /\ front[2] = Step("layerRegistry")
  <2>1. front \in Seq({Step("svgStorage"), Step("layerRegistry")})
    OBVIOUS
  <2> QED
    BY <2>1, SeqIsSeq
<1>2. /\ IsSeq(back) /\ Len(back) = 3 /\ back[1] = Step("registerLayers")
      /\ back[2] = Step("registerAssets") /\ back[3] = Step("registerVariants")
  <2>1. back \in Seq({Step("registerLayers"), Step("registerAssets"), Step("registerVariants")})
    OBVIOUS
  <2> QED
    BY <2>1, SeqIsSeq
<1> HIDE DEF front, back
<1>3. CASE site.local
  <2>1. ArtSteps = (front \o Plan) \o back
    BY <1>3 DEF ArtSteps, front, back, Plan
  <2>2. /\ IsSeq(front \o Plan) /\ Len(front \o Plan) = P + 2 /\ P \in Nat
        /\ \A i \in 1 .. 2 : (front \o Plan)[i] = front[i]
        /\ \A i \in 1 .. P : (front \o Plan)[2 + i] = Plan[i]
    <3>1. IsSeq(Plan) /\ P \in Nat
      BY PlanFacts
    <3>2. JoinOf(front, Plan, front \o Plan)
      BY <1>1, <3>1, ConcatFacts
    <3> QED
      BY <1>1, <3>1, <3>2 DEF JoinOf
  <2> DEFINE mid == front \o Plan
  <2> HIDE DEF mid, P
  <2>3. /\ IsSeq(mid \o back) /\ Len(mid \o back) = P + 5
        /\ \A i \in 1 .. P + 2 : (mid \o back)[i] = mid[i]
        /\ \A i \in 1 .. 3 : (mid \o back)[P + 2 + i] = back[i]
    <3>1. IsSeq(mid) /\ Len(mid) = P + 2
      BY <2>2 DEF mid
    <3>2. P + 2 + 3 = P + 5
      BY <2>2
    <3>3. JoinOf(mid, back, mid \o back)
      BY <1>2, <3>1, ConcatFacts
    <3> QED
      BY <1>2, <3>1, <3>2, <3>3 DEF JoinOf
  <2>4. mid[1] = front[1] /\ mid[2] = front[2] /\ \A i \in 1 .. P : mid[2 + i] = Plan[i]
    BY <2>2 DEF mid
  <2>5. /\ P + 2 + 1 = P + 3 /\ P + 2 + 2 = P + 4 /\ P + 2 + 3 = P + 5
        /\ 1 \in 1 .. P + 2 /\ 2 \in 1 .. P + 2 /\ \A i \in 1 .. P : 2 + i \in 1 .. P + 2
        /\ P + 5 \in Nat
    BY <2>2
  <2>6. /\ (mid \o back)[P + 3] = back[1] /\ (mid \o back)[P + 4] = back[2]
        /\ (mid \o back)[P + 5] = back[3]
    <3>1. /\ (mid \o back)[P + 2 + 1] = back[1] /\ (mid \o back)[P + 2 + 2] = back[2]
          /\ (mid \o back)[P + 2 + 3] = back[3]
      <4>1. 1 \in 1 .. 3 /\ 2 \in 1 .. 3 /\ 3 \in 1 .. 3
        OBVIOUS
      <4> QED
        BY <2>3, <4>1, Zenon
    <3> QED
      BY <2>5, <3>1
  <2> QED
    BY <1>1, <1>2, <1>3, <2>1, <2>3, <2>4, <2>5, <2>6 DEF ArtLayout, mid, P
<1>4. CASE ~site.local
  BY <1>0, <1>4 DEF ArtSteps, ArtLayout
<1> QED
  BY <1>3, <1>4

StarkLayout ==
    LET A == Len(ArtSteps)
    IN /\ Len(StarkSteps) = A + Rotations + 4 /\ IsSeq(StarkSteps)
       /\ \A i \in 1 .. A : StarkSteps[i] = ArtSteps[i]
       /\ StarkSteps[A + 1] = Step("renderer") /\ StarkSteps[A + 2] = Step("gate")
       /\ Rotations = 1 => StarkSteps[A + 3] = Step("setAllowlistSigner")
       /\ StarkSteps[A + Rotations + 3] = Step("mint")
       /\ StarkSteps[A + Rotations + 4] = Step("web3")

LEMMA StarkStepsAre == ASSUME site \in Sites PROVE StarkLayout /\ Rotations \in {0, 1}
<1> DEFINE rotate == IF NeedsAllowlistRotation THEN <<Step("setAllowlistSigner")>> ELSE <<>>
           front == <<Step("renderer"), Step("gate")>>
           back == <<Step("mint"), Step("web3")>>
           A == Len(ArtSteps)
           R == Rotations
<1>1. /\ IsSeq(front) /\ Len(front) = 2 /\ front[1] = Step("renderer") /\ front[2] = Step("gate")
  <2>1. front \in Seq({Step("renderer"), Step("gate")})
    OBVIOUS
  <2> QED
    BY <2>1, SeqIsSeq
<1>2. /\ IsSeq(back) /\ Len(back) = 2 /\ back[1] = Step("mint") /\ back[2] = Step("web3")
  <2>1. back \in Seq({Step("mint"), Step("web3")})
    OBVIOUS
  <2> QED
    BY <2>1, SeqIsSeq
<1>3. /\ IsSeq(rotate) /\ Len(rotate) = R /\ R \in {0, 1}
      /\ R = 1 => rotate[1] = Step("setAllowlistSigner")
  <2>1. rotate \in Seq({Step("setAllowlistSigner")})
    <3>1. <<>> \in Seq({Step("setAllowlistSigner")})
          /\ <<Step("setAllowlistSigner")>> \in Seq({Step("setAllowlistSigner")})
      OBVIOUS
    <3> QED
      BY <3>1
  <2>2. /\ Len(rotate) = R /\ R \in {0, 1}
        /\ R = 1 => rotate[1] = Step("setAllowlistSigner")
    BY DEF Rotations
  <2> HIDE DEF rotate
  <2>3. IsSeq(rotate)
    BY <2>1, SeqIsSeq
  <2> QED
    BY <2>2, <2>3
<1>4. A \in Nat /\ IsSeq(ArtSteps)
  BY ArtStepsAre DEF ArtLayout
<1>5. StarkSteps = ((ArtSteps \o front) \o rotate) \o back
  BY DEF StarkSteps
<1> HIDE DEF front, rotate, back
<1> DEFINE one == ArtSteps \o front
           two == one \o rotate
           three == two \o back
<1>6. /\ IsSeq(one) /\ Len(one) = A + 2
      /\ \A i \in 1 .. A : one[i] = ArtSteps[i]
      /\ \A i \in 1 .. 2 : one[A + i] = front[i]
  <2>1. JoinOf(ArtSteps, front, one)
    BY <1>1, <1>4, ConcatFacts
  <2> HIDE DEF one
  <2> QED
    BY <1>1, <1>4, <2>1 DEF JoinOf
<1> HIDE DEF one
<1>7. /\ IsSeq(two) /\ Len(two) = A + 2 + R
      /\ \A i \in 1 .. A + 2 : two[i] = one[i]
      /\ \A i \in 1 .. R : two[A + 2 + i] = rotate[i]
  <2>1. JoinOf(one, rotate, two)
    BY <1>3, <1>6, ConcatFacts
  <2> HIDE DEF two
  <2> QED
    BY <1>3, <1>6, <2>1 DEF JoinOf
<1> HIDE DEF two
<1>8. /\ IsSeq(three) /\ Len(three) = A + 2 + R + 2
      /\ \A i \in 1 .. A + 2 + R : three[i] = two[i]
      /\ \A i \in 1 .. 2 : three[A + 2 + R + i] = back[i]
  <2>1. JoinOf(two, back, three)
    BY <1>2, <1>7, ConcatFacts
  <2> HIDE DEF three
  <2> QED
    BY <1>2, <1>7, <2>1 DEF JoinOf
<1> HIDE DEF three, A, R
<1>9. three = StarkSteps
  BY <1>5 DEF one, two, three
<1>10. /\ A + 2 + R + 2 = A + R + 4 /\ A + 2 + R + 1 = A + R + 3 /\ A + 2 + 1 = A + 3
       /\ \A i \in 1 .. A : i \in 1 .. A + 2 /\ i \in 1 .. A + 2 + R
       /\ A + 1 \in 1 .. A + 2 /\ A + 2 \in 1 .. A + 2
       /\ A + 1 \in 1 .. A + 2 + R /\ A + 2 \in 1 .. A + 2 + R
       /\ R = 1 => A + 3 \in 1 .. A + 2 + R
  BY <1>3, <1>4
<1>11. \A i \in 1 .. A : three[i] = ArtSteps[i]
  BY <1>6, <1>7, <1>8, <1>10
<1>12. three[A + 1] = Step("renderer") /\ three[A + 2] = Step("gate")
  BY <1>1, <1>6, <1>7, <1>8, <1>10
<1>13. R = 1 => three[A + 3] = Step("setAllowlistSigner")
  BY <1>3, <1>7, <1>8, <1>10
<1>14. three[A + R + 3] = Step("mint") /\ three[A + R + 4] = Step("web3")
  BY <1>2, <1>8, <1>10
<1> QED
  BY <1>3, <1>8, <1>9, <1>10, <1>11, <1>12, <1>13, <1>14 DEF StarkLayout, A, R

-----------------------------------------------------------------------------
(* What the transactions to the storage do.                                *)
StorageResult(store, step) ==
    LET svg == Head(step.svgs)
    IN CASE step.role = "storeSvgBatch" -> StoreSvgBatch(store, step.svgs)
         [] step.role = "initializeChunkedSvg" ->
               InitializeChunkedSvg(store, Len(svg), svg, Len(ChunksOf(svg)))
         [] step.role = "appendChunks" -> AppendChunks(store, step.id, ChunksOf(svg))
         [] step.role = "finalizeChunkedSvg" -> FinalizeChunkedSvg(store, step.id)

LEMMA StorageResultOf ==
    ASSUME NEW store, NEW step
    PROVE  /\ step.role = "storeSvgBatch" =>
                 StorageResult(store, step) = StoreSvgBatch(store, step.svgs)
           /\ step.role = "initializeChunkedSvg" =>
                 StorageResult(store, step) =
                    InitializeChunkedSvg(store, Len(Head(step.svgs)), Head(step.svgs),
                                         Len(ChunksOf(Head(step.svgs))))
           /\ step.role = "appendChunks" =>
                 StorageResult(store, step) =
                    AppendChunks(store, step.id, ChunksOf(Head(step.svgs)))
           /\ step.role = "finalizeChunkedSvg" =>
                 StorageResult(store, step) = FinalizeChunkedSvg(store, step.id)
  BY DEF StorageResult

LEMMA HeadContent ==
    ASSUME NEW svgs \in Seq(Contents), svgs # <<>>
    PROVE  Head(svgs) \in Contents /\ Len(Head(svgs)) \in Nat
  BY StorageAssumption

LEMMA StorageKeeps ==
    ASSUME NEW store, StoreOK(store), NEW step, step.role \in StorageRoles,
           step.svgs \in Seq(Contents), step.svgs # <<>>
    PROVE  StoreOK(StorageResult(store, step).store)
<1> DEFINE svg == Head(step.svgs)
<1>1. svg \in Contents /\ Len(svg) \in Nat
  BY HeadContent
<1>2. ChunksOf(svg) \in Seq(Seq(Symbols)) /\ Len(ChunksOf(svg)) \in Nat
  BY <1>1, ChunksAreStored
<1> HIDE DEF svg
<1>3. CASE step.role = "storeSvgBatch"
  BY <1>3, StorageResultOf, BatchKeeps
<1>4. CASE step.role = "initializeChunkedSvg"
  <2>1. StorageResult(store, step) =
           InitializeChunkedSvg(store, Len(svg), svg, Len(ChunksOf(svg)))
    BY <1>4, StorageResultOf DEF svg
  <2> QED
    BY <1>1, <1>2, <2>1, InitializeKeeps
<1>5. CASE step.role = "appendChunks"
  <2>1. StorageResult(store, step) = AppendChunks(store, step.id, ChunksOf(svg))
    BY <1>5, StorageResultOf DEF svg
  <2> QED
    BY <1>2, <2>1, AppendChunksKeeps
<1>6. CASE step.role = "finalizeChunkedSvg"
  <2>1. StorageResult(store, step) = FinalizeChunkedSvg(store, step.id)
    BY <1>6, StorageResultOf
  <2> QED
    BY <2>1, FinalizeKeeps
<1> QED
  BY <1>3, <1>4, <1>5, <1>6 DEF StorageRoles

(* Without twins a file that is not covered yet is not stored yet.         *)
LEMMA UncoveredIsNew ==
    ASSUME site \in Sites, NoTwins, NEW store, StoreOK(store), NEW j \in 0 .. Len(Plan),
           StoreAt(store, j), NEW k \in 1 .. Len(site.files), Cover[j] < k
    PROVE  ExistingId(store, site.files[k]) = 0
<1>1. /\ site.files \in Seq(Contents) /\ Len(site.files) \in Nat
      /\ Cover[j] \in 0 .. Len(site.files)
  BY PlanFacts
<1>2. site.files[k] \in Contents
  BY <1>1
<1> DEFINE id == ExistingId(store, site.files[k])
<1>3. ASSUME id # 0 PROVE FALSE
  <2>1. id \in DOMAIN store.records /\ store.records[id].contentHash = site.files[k]
    BY <1>2, <1>3 DEF StoreOK, Indexed, Known
  <2>2. DOMAIN store.records = 1 .. Cover[j]
    BY StoreFacts DEF StoreOK, StoreAt
  <2> HIDE DEF id
  <2>3. store.records[id].contentHash = site.files[id] /\ id \in 1 .. Cover[j]
    BY <2>1, <2>2 DEF StoreAt
  <2>4. id \in DOMAIN site.files /\ k \in DOMAIN site.files /\ id # k
    BY <1>1, <2>3
  <2> QED
    BY <2>1, <2>3, <2>4 DEF NoTwins
<1> QED
  BY <1>3

LEMMA BeforeStep ==
    ASSUME site \in Sites, NEW store, StoreOK(store), NEW j \in 1 .. Len(Plan),
           StoreAt(store, j - 1)
    PROVE  /\ Len(store.records) = Cover[j - 1] /\ DOMAIN store.records = 1 .. Cover[j - 1]
           /\ store.records \in Seq(Records) /\ store \in Stores
           /\ \A r \in 1 .. Cover[j - 1] : store.records[r].contentHash = site.files[r]
           /\ RoleBefore(Plan, j) \notin Unfinished =>
                 \A r \in 1 .. Cover[j - 1] : store.records[r].finalized
           /\ \A r \in 1 .. Cover[j - 1] : store.records[r].finalized \/ r = Cover[j - 1]
<1>1. /\ store.records \in Seq(Records) /\ store \in Stores
      /\ DOMAIN store.records = 1 .. Len(store.records)
  BY StoreFacts DEF StoreOK
<1>2. j - 1 > 0 => RoleBefore(Plan, j) = Plan[j - 1].role
  BY DEF RoleBefore
<1> QED
  BY <1>1, <1>2 DEF StoreAt

(* One field of one record.                                                *)
LEMMA RecordReplaced ==
    ASSUME NEW store, store \in Stores, NEW id \in DOMAIN store.records, NEW record \in Records,
           NEW after, after = [store EXCEPT !.records[id] = record]
    PROVE  /\ Len(after.records) = Len(store.records)
           /\ \A r \in DOMAIN store.records : r # id => after.records[r] = store.records[r]
           /\ after.records[id] = record
<1>1. store.records \in Seq(Records) /\ DOMAIN store.records = 1 .. Len(store.records)
  BY StoreFacts
<1>2. after.records = [store.records EXCEPT ![id] = record]
  BY DEF Stores
<1> QED
  BY <1>1, <1>2, ExceptSeq

LEMMA StorageAdvances ==
    ASSUME site \in Sites, NoTwins, NEW store, StoreOK(store), NEW j \in 1 .. Len(Plan),
           StoreAt(store, j - 1), StorageResult(store, Plan[j]).ok
    PROVE  StoreAt(StorageResult(store, Plan[j]).store, j)
<1> DEFINE step == Plan[j]
           from == Cover[j - 1]
           to == Cover[j]
           art == site.files
           after == StorageResult(store, step).store
<1>1. /\ from \in Nat /\ to \in Nat /\ to <= Len(art)
      /\ StepCovers(step, RoleBefore(Plan, j), from, to, art)
  BY NextCovers
<1>2. /\ Len(store.records) = from /\ DOMAIN store.records = 1 .. from
      /\ store.records \in Seq(Records) /\ store \in Stores
      /\ \A r \in 1 .. from : store.records[r].contentHash = art[r]
      /\ \A r \in 1 .. from : store.records[r].finalized \/ r = from
  BY BeforeStep
<1>3. RoleBefore(Plan, j) \notin Unfinished => \A r \in 1 .. from : store.records[r].finalized
  BY BeforeStep
<1>4. j - 1 \in 0 .. Len(Plan) /\ art \in Seq(Contents) /\ Len(art) \in Nat
  BY PlanFacts
<1>5. \A k \in 1 .. Len(art) : from < k => ExistingId(store, art[k]) = 0
  BY <1>4, UncoveredIsNew
<1> HIDE DEF step, from, to, art, after
<1>6. CASE step.role = "storeSvgBatch"
  <2> DEFINE svgs == step.svgs
             count == Len(svgs)
  <2>1. /\ svgs \in Seq(Contents) /\ count = to - from /\ from <= to
        /\ \A k \in 1 .. count : svgs[k] = art[from + k]
        /\ RoleBefore(Plan, j) \notin Unfinished
    BY <1>1, <1>6 DEF StepCovers
  <2> HIDE DEF svgs, count
  <2>2. \A k \in 1 .. count : from + k \in 1 .. Len(art) /\ from < from + k
    BY <1>1, <1>4, <2>1
  <2>3. ASSUME NEW k \in 1 .. count PROVE ~Skipped(store, svgs, k)
    <3>1. ExistingId(store, svgs[k]) = 0
      BY <1>5, <2>1, <2>2
    <3>2. ASSUME NEW i \in 1 .. k - 1, svgs[i] = svgs[k] PROVE FALSE
      <4>1. i \in 1 .. count /\ i # k /\ from + i # from + k
        BY <1>1, <2>1
      <4>2. art[from + i] = art[from + k]
        BY <2>1, <3>2, <4>1
      <4>3. from + i \in DOMAIN art /\ from + k \in DOMAIN art
        BY <1>4, <2>2, <4>1
      <4> QED
        BY <4>1, <4>2, <4>3 DEF NoTwins, art
    <3> QED
      BY <3>1, <3>2 DEF Skipped
  <2>4. NewContents(store, svgs) = svgs
    BY <2>1, <2>3, AllNew DEF count
  <2>5. after = StoreSvgBatch(store, svgs).store /\ StoreSvgBatch(store, svgs).ok
    BY <1>6, StorageResultOf DEF after, svgs, step
  <2>6. /\ Len(after.records) = from + count
        /\ \A r \in 1 .. from : after.records[r] = store.records[r]
        /\ \A i \in 1 .. count : after.records[from + i] = SingleUpload(svgs[i])
    <3>1. LET n == Len(store.records)
              stored == StoreSvgBatch(store, svgs).store
          IN /\ Len(stored.records) = n + Len(NewContents(store, svgs))
             /\ \A r \in 1 .. n : stored.records[r] = store.records[r]
             /\ \A i \in 1 .. Len(NewContents(store, svgs)) :
                   stored.records[n + i] = SingleUpload(NewContents(store, svgs)[i])
      BY <2>1, <2>5, BatchStores
    <3> QED
      BY <1>2, <2>4, <2>5, <3>1 DEF count
  <2>7. from + count = to
    BY <1>1, <2>1
  <2>8. ASSUME NEW r \in 1 .. to
        PROVE  after.records[r].contentHash = art[r] /\ after.records[r].finalized
    <3>1. CASE r <= from
      <4>1. r \in 1 .. from
        BY <1>1, <3>1
      <4> QED
        BY <1>2, <1>3, <2>1, <2>6, <4>1
    <3>2. CASE ~(r <= from)
      <4> DEFINE i == r - from
      <4>1. i \in 1 .. count /\ from + i = r
        BY <1>1, <2>1, <3>2
      <4> HIDE DEF i
      <4>2. after.records[r] = SingleUpload(svgs[i]) /\ svgs[i] = art[r]
        BY <2>1, <2>6, <4>1
      <4>3. svgs[i] \in Contents
        BY <2>1, <4>1 DEF count
      <4> QED
        BY <4>2, <4>3, SingleUploadType
    <3> QED
      BY <3>1, <3>2
  <2>9. StoreAt(after, j)
    BY <2>6, <2>7, <2>8 DEF StoreAt, to, art
  <2> QED
    BY <2>9 DEF after, step
<1>7. ASSUME step.role # "storeSvgBatch"
      PROVE  /\ to >= 1 /\ step.id = to /\ Head(step.svgs) = art[to] /\ art[to] \in Contents
             /\ to \in 1 .. Len(art)
  <2>1. to >= 1 /\ step.svgs = <<art[to]>> /\ step.id = to
    BY <1>1, <1>7 DEF StepCovers
  <2>2. to \in 1 .. Len(art) /\ art[to] \in Contents
    BY <1>1, <1>4, <2>1
  <2> QED
    BY <2>1, <2>2
<1>8. CASE step.role = "initializeChunkedSvg"
  <2> DEFINE svg == art[to]
             record == RecordOf(Len(svg), Len(ChunksOf(svg)), svg, <<>>, FALSE)
  <2>1. /\ step.role # "storeSvgBatch" /\ to = from + 1
        /\ RoleBefore(Plan, j) \notin Unfinished /\ step.role \in Unfinished
    BY <1>1, <1>8 DEF StepCovers, Unfinished
  <2>2. ExistingId(store, svg) = 0 /\ Head(step.svgs) = svg
    BY <1>1, <1>5, <1>7, <2>1
  <2>3. /\ after = InitializeChunkedSvg(store, Len(svg), svg, Len(ChunksOf(svg))).store
        /\ InitializeChunkedSvg(store, Len(svg), svg, Len(ChunksOf(svg))).ok
    BY <1>8, <2>2, StorageResultOf DEF after, step
  <2>4. after.records = Append(store.records, record)
    BY <2>2, <2>3 DEF InitializeChunkedSvg, Done, Reverted, CreateRecord
  <2>5. record.contentHash = svg
    BY DEF RecordOf
  <2> HIDE DEF record
  <2>6. /\ Len(after.records) = from + 1
        /\ \A r \in 1 .. from : after.records[r] = store.records[r]
        /\ after.records[from + 1] = record
    <3>1. IsSeq(store.records)
      BY <1>2, SeqIsSeq
    <3> QED
      BY <1>2, <2>4, <3>1, AppendIsSeq
  <2>7. ASSUME NEW r \in 1 .. to
        PROVE  /\ after.records[r].contentHash = art[r]
               /\ after.records[r].finalized \/ r = to
    <3>1. r \in 1 .. from \/ r = to
      BY <1>1, <2>1
    <3> QED
      BY <1>2, <1>3, <2>1, <2>5, <2>6, <3>1
  <2>8. StoreAt(after, j)
    BY <2>1, <2>6, <2>7 DEF StoreAt, to, art, step
  <2> QED
    BY <2>8 DEF after, step
<1>9. CASE step.role = "appendChunks"
  <2>1. step.role # "storeSvgBatch" /\ to = from /\ step.role \in Unfinished
    BY <1>1, <1>9 DEF StepCovers, Unfinished
  <2> DEFINE chunks == ChunksOf(art[to])
  <2>2. after = AppendChunks(store, to, chunks).store /\ AppendChunks(store, to, chunks).ok
    BY <1>7, <1>9, <2>1, StorageResultOf DEF after, step
  <2> HIDE DEF chunks
  <2>3. after = [store EXCEPT !.records[to].chunkPointers = @ \o chunks]
    BY <2>2 DEF AppendChunks, Done, Reverted
  <2> DEFINE record == [store.records[to] EXCEPT !.chunkPointers = @ \o chunks]
  <2>4. to \in DOMAIN store.records /\ store.records[to] \in Records
    BY <1>2, <1>7, <2>1
  <2>7. chunks \in Seq(Seq(Symbols))
    BY <1>7, <2>1, ChunksAreStored DEF chunks
  <2>8. store.records[to].chunkPointers \o chunks \in Seq(Seq(Symbols))
    BY <2>4, <2>7, ConcatProperties DEF Records
  <2>9. record \in Records /\ record.contentHash = store.records[to].contentHash
    BY <2>4, <2>8 DEF Records
  <2>10. after = [store EXCEPT !.records[to] = record]
    BY <2>3
  <2> HIDE DEF record
  <2>5. /\ Len(after.records) = from
        /\ \A r \in 1 .. from : r # to => after.records[r] = store.records[r]
        /\ after.records[to].contentHash = store.records[to].contentHash
    BY <1>2, <2>4, <2>9, <2>10, RecordReplaced
  <2>6. StoreAt(after, j)
    BY <1>2, <2>1, <2>5 DEF StoreAt, to, art, step
  <2> QED
    BY <2>6 DEF after, step
<1>10. CASE step.role = "finalizeChunkedSvg"
  <2>1. step.role # "storeSvgBatch" /\ to = from
    BY <1>1, <1>10 DEF StepCovers
  <2>2. after = FinalizeChunkedSvg(store, to).store /\ FinalizeChunkedSvg(store, to).ok
    BY <1>7, <1>10, <2>1, StorageResultOf DEF after, step
  <2>3. after = [store EXCEPT !.records[to].finalized = TRUE]
    BY <2>2 DEF FinalizeChunkedSvg, Done, Reverted
  <2> DEFINE record == [store.records[to] EXCEPT !.finalized = TRUE]
  <2>4. to \in DOMAIN store.records /\ store.records[to] \in Records
    BY <1>2, <1>7, <2>1
  <2>7. /\ record \in Records /\ record.contentHash = store.records[to].contentHash
        /\ record.finalized
    BY <2>4 DEF Records
  <2>8. after = [store EXCEPT !.records[to] = record]
    BY <2>3
  <2> HIDE DEF record
  <2>5. /\ Len(after.records) = from
        /\ \A r \in 1 .. from : r # to => after.records[r] = store.records[r]
        /\ after.records[to].contentHash = store.records[to].contentHash
        /\ after.records[to].finalized
    BY <1>2, <2>4, <2>7, <2>8, RecordReplaced
  <2>6. StoreAt(after, j)
    BY <1>2, <2>1, <2>5 DEF StoreAt, to, art, step
  <2> QED
    BY <2>6 DEF after, step
<1> QED
  BY <1>1, <1>6, <1>8, <1>9, <1>10 DEF StepCovers, StorageRoles

-----------------------------------------------------------------------------
(* What a mined transaction does.                                          *)
Oldest == TxAt(nonce + 1)

KeptAs(old, new) ==
    /\ new.kind = old.kind
    /\ old.kind \in {"mint", "factory", "marketplace"} => new = old
    /\ old.kind = "gate" => old.callers \subseteq new.callers
    /\ old.kind = "layerRegistry" => new.storage = old.storage
    /\ old.kind = "paymaster" => new.signer = old.signer /\ new.mint = old.mint
Untouched(old, new) ==
    /\ old.kind = "gate" => new.signer = old.signer
    /\ old.kind \in {"svgStorage", "layerRegistry"} => new = old

LEMMA MinedFacts ==
    ASSUME ChainInv, Mine
    PROVE  /\ nonce \in Nat /\ nonce' = nonce + 1 /\ nonce + 1 \in Pendings
           /\ IsSeq(pool') /\ Len(pool) \in Nat /\ Len(pool') \in Nat
           /\ nonce' + Len(pool') = nonce + Len(pool)
           /\ Oldest = Head(pool)
           /\ Pendings' = Pendings \ {nonce + 1} /\ nonce + 1 \notin Pendings'
           /\ \A k \in Pendings' : TxAt(k)' = TxAt(k)
<1>1. nonce \in Nat /\ IsSeq(pool) /\ pool # <<>>
  BY DEF ChainInv, Mine
<1>2. nonce' = nonce + 1 /\ pool' = Tail(pool)
  BY DEF Mine
<1>3. /\ Len(pool) \in Nat \ {0} /\ IsSeq(pool') /\ Head(pool) = pool[1]
      /\ DOMAIN pool = 1 .. Len(pool)
      /\ \A k \in DOMAIN pool' : k + 1 \in DOMAIN pool /\ pool'[k] = pool[k + 1]
  BY <1>1, <1>2, TailFacts, IsSeqProperties
<1>4. Len(pool') = Len(pool) - 1
  BY <1>1, <1>2 DEF IsSeq
<1>5. DOMAIN pool' = 1 .. Len(pool) - 1
  BY <1>3, <1>4, IsSeqProperties
<1>6. Pendings' = nonce + 2 .. nonce + Len(pool) /\ Pendings = nonce + 1 .. nonce + Len(pool)
  BY <1>1, <1>2, <1>3, <1>4 DEF Pendings
<1>7. Oldest = Head(pool)
  BY <1>1, <1>3 DEF Oldest, TxAt
<1>8. ASSUME NEW k \in Pendings' PROVE TxAt(k)' = TxAt(k)
  <2>1. k - nonce' \in DOMAIN pool' /\ k - nonce' + 1 = k - nonce
    BY <1>1, <1>2, <1>3, <1>5, <1>6
  <2> QED
    BY <1>3, <2>1 DEF TxAt
<1> QED
  BY <1>1, <1>2, <1>3, <1>4, <1>6, <1>7, <1>8

LEMMA PendingOK ==
    ASSUME ChainInv, NEW n \in Pendings
    PROVE  /\ TxAt(n).to = Nowhere => CreateOK(TxAt(n))
           /\ TxAt(n).to # Nowhere => CallOK(TxAt(n)) /\ TxAt(n).to \in DOMAIN world
<1>1. IF TxAt(n).to = Nowhere THEN CreateOK(TxAt(n)) ELSE CallOK(TxAt(n))
  BY DEF ChainInv
<1>2. CallOK(TxAt(n)) => TxAt(n).to \in DOMAIN world
  BY DEF CallOK, CallRoles, StorageRoles, RegistryRoles, SharedRoles, Is
<1> QED
  BY <1>1, <1>2

LEMMA MinedCreate ==
    ASSUME ChainInv, Mine, Oldest.to = Nowhere
    PROVE  /\ CreateOK(Oldest) /\ nonce + 1 \notin DOMAIN world /\ reverted' = reverted
           /\ DOMAIN world' = DOMAIN world \cup {nonce + 1}
           /\ world'[nonce + 1] = Oldest.contract
           /\ \A a \in DOMAIN world : world'[a] = world[a]
<1>1. Oldest = Head(pool) /\ nonce + 1 \in Pendings /\ nonce \in Nat
  BY MinedFacts
<1>2. CreateOK(Oldest)
  BY <1>1, PendingOK DEF Oldest
<1>3. nonce + 1 \notin DOMAIN world
  BY <1>1 DEF ChainInv
<1>4. world' = Extended(world, nonce + 1, Oldest.contract) /\ reverted' = reverted
  BY <1>1 DEF Mine
<1> QED
  BY <1>2, <1>3, <1>4 DEF Extended

LEMMA MinedCall ==
    ASSUME ChainInv, Mine, Oldest.to # Nowhere
    PROVE  /\ CallOK(Oldest) /\ Oldest.to \in DOMAIN world /\ DOMAIN world' = DOMAIN world
           /\ \A a \in DOMAIN world : a # Oldest.to => world'[a] = world[a]
           /\ Executed(Oldest).ok => /\ world'[Oldest.to] = Executed(Oldest).contract
                                     /\ reverted' = reverted
           /\ ~Executed(Oldest).ok => /\ world' = world
                                      /\ reverted' = reverted \cup {nonce + 1}
<1>1. Oldest = Head(pool) /\ nonce + 1 \in Pendings
  BY MinedFacts
<1>2. CallOK(Oldest) /\ Oldest.to \in DOMAIN world
  BY <1>1, PendingOK DEF Oldest
<1>3. IF Executed(Oldest).ok
      THEN world' = [world EXCEPT ![Oldest.to] = Executed(Oldest).contract] /\ reverted' = reverted
      ELSE reverted' = reverted \cup {nonce + 1} /\ world' = world
  BY <1>1 DEF Mine
<1> QED
  BY <1>2, <1>3

(* The calls one by one.                                                   *)
LEMMA ExecutedStorage ==
    ASSUME NEW tx, tx.step.role \in StorageRoles
    PROVE  LET result == StorageResult(world[tx.to].store, tx.step)
           IN Executed(tx) = [ok |-> result.ok,
                              contract |-> [world[tx.to] EXCEPT !.store = result.store]]
  BY DEF Executed, StorageResult, StorageRoles

LEMMA ExecutedOther ==
    ASSUME NEW tx
    PROVE  LET c == world[tx.to]
               To(contract) == [ok |-> TRUE, contract |-> contract]
           IN /\ tx.step.role \in {"registerLayers", "registerVariants"} => Executed(tx) = To(c)
              /\ tx.step.role = "registerAssets" => Executed(tx) = To([c EXCEPT !.assets = tx.arg])
              /\ tx.step.role = "setAllowlistSigner" =>
                    Executed(tx) = To([c EXCEPT !.signer = tx.arg])
              /\ tx.step.role = "setAuthorizedCaller" =>
                    Executed(tx) = To([c EXCEPT !.callers = @ \cup {tx.arg}])
              /\ tx.step.role = "deposit" => Executed(tx) = To([c EXCEPT !.deposit = @ + tx.arg])
              /\ tx.step.role = "handleOps" =>
                    \/ /\ DropHolds(tx.arg) /\ c.deposit > 0
                       /\ Executed(tx) = To([c EXCEPT !.deposit = @ - 1])
                    \/ Executed(tx) = [ok |-> FALSE, contract |-> c]
  BY DEF Executed

LEMMA ContractFields ==
    ASSUME NEW c, ContractOK(c)
    PROVE  /\ c.kind = "svgStorage" =>
                 c = [kind |-> "svgStorage", store |-> c.store] /\ StoreOK(c.store)
           /\ c.kind = "layerRegistry" =>
                 c = [kind |-> "layerRegistry", storage |-> c.storage, assets |-> c.assets]
           /\ c.kind = "gate" => c = [kind |-> "gate", signer |-> c.signer, callers |-> c.callers]
           /\ c.kind = "paymaster" =>
                 /\ c = [kind |-> "paymaster", signer |-> c.signer, mint |-> c.mint,
                         deposit |-> c.deposit]
                 /\ c.deposit \in Nat
  BY DEF ContractOK

LEMMA KeptAsItIs == ASSUME NEW c PROVE KeptAs(c, c) /\ Untouched(c, c)
  BY DEF KeptAs, Untouched

LEMMA ExecutedKeeps ==
    ASSUME NEW tx, CallOK(tx), ContractOK(world[tx.to])
    PROVE  /\ ContractOK(Executed(tx).contract)
           /\ KeptAs(world[tx.to], Executed(tx).contract)
           /\ tx.step.role \in SharedRoles => Untouched(world[tx.to], Executed(tx).contract)
<1> DEFINE c == world[tx.to]
<1>1. CASE tx.step.role \in StorageRoles
  <2> DEFINE result == StorageResult(c.store, tx.step)
  <2>1. c.kind = "svgStorage" /\ tx.step.svgs \in Seq(Contents) /\ tx.step.svgs # <<>>
    BY <1>1 DEF CallOK, Is
  <2>2. c = [kind |-> "svgStorage", store |-> c.store] /\ StoreOK(c.store)
    BY <2>1, ContractFields
  <2>3. StoreOK(result.store)
    BY <1>1, <2>1, <2>2, StorageKeeps
  <2>4. Executed(tx).contract = [c EXCEPT !.store = result.store]
    BY <1>1, ExecutedStorage
  <2> HIDE DEF result, c
  <2>5. Executed(tx).contract = [kind |-> "svgStorage", store |-> result.store]
    BY <2>2, <2>4
  <2>6. ContractOK(Executed(tx).contract)
    BY <2>3, <2>5 DEF ContractOK
  <2>7. KeptAs(c, Executed(tx).contract)
    BY <2>1, <2>5 DEF KeptAs
  <2>8. tx.step.role \notin SharedRoles
    BY <1>1 DEF StorageRoles, SharedRoles
  <2> QED
    BY <2>6, <2>7, <2>8 DEF c
<1>2. CASE tx.step.role \in {"registerLayers", "registerVariants"}
  <2>1. Executed(tx).contract = c
    BY <1>2, ExecutedOther
  <2> QED
    BY <2>1, KeptAsItIs
<1>3. CASE tx.step.role = "registerAssets"
  <2>1. c.kind = "layerRegistry"
    BY <1>3 DEF CallOK, RegistryRoles, Is
  <2>2. c = [kind |-> "layerRegistry", storage |-> c.storage, assets |-> c.assets]
    BY <2>1, ContractFields
  <2>3. Executed(tx).contract = [c EXCEPT !.assets = tx.arg]
    BY <1>3, ExecutedOther
  <2> HIDE DEF c
  <2>4. Executed(tx).contract =
           [kind |-> "layerRegistry", storage |-> c.storage, assets |-> tx.arg]
    BY <2>2, <2>3
  <2>5. ContractOK(Executed(tx).contract) /\ KeptAs(c, Executed(tx).contract)
    BY <2>1, <2>4 DEF ContractOK, KeptAs
  <2> QED
    BY <1>3, <2>5 DEF c, SharedRoles
<1>4. CASE tx.step.role = "setAllowlistSigner"
  <2>1. c.kind = "gate"
    BY <1>4 DEF CallOK, Is
  <2>2. c = [kind |-> "gate", signer |-> c.signer, callers |-> c.callers]
    BY <2>1, ContractFields
  <2>3. Executed(tx).contract = [c EXCEPT !.signer = tx.arg]
    BY <1>4, ExecutedOther
  <2> HIDE DEF c
  <2>4. Executed(tx).contract = [kind |-> "gate", signer |-> tx.arg, callers |-> c.callers]
    BY <2>2, <2>3
  <2>5. ContractOK(Executed(tx).contract)
    BY <2>4 DEF ContractOK
  <2>6. KeptAs(c, Executed(tx).contract)
    BY <2>1, <2>4 DEF KeptAs
  <2> QED
    BY <1>4, <2>5, <2>6 DEF c, SharedRoles
<1>6. CASE tx.step.role = "setAuthorizedCaller"
  <2>1. c.kind = "gate"
    BY <1>6 DEF CallOK, Is
  <2>2. c = [kind |-> "gate", signer |-> c.signer, callers |-> c.callers]
    BY <2>1, ContractFields
  <2>3. Executed(tx).contract = [c EXCEPT !.callers = @ \cup {tx.arg}]
    BY <1>6 DEF Executed
  <2> HIDE DEF c
  <2>4. Executed(tx).contract =
           [kind |-> "gate", signer |-> c.signer, callers |-> c.callers \cup {tx.arg}]
    BY <2>2, <2>3
  <2>5. ContractOK(Executed(tx).contract)
    BY <2>4 DEF ContractOK
  <2>6. KeptAs(c, Executed(tx).contract) /\ Untouched(c, Executed(tx).contract)
    BY <2>1, <2>4 DEF KeptAs, Untouched
  <2> QED
    BY <2>5, <2>6 DEF c
<1>5. CASE tx.step.role \in {"deposit", "handleOps"}
  <2>1. c.kind = "paymaster" /\ (tx.step.role = "deposit" => tx.arg = 1)
    BY <1>5 DEF CallOK, Is
  <2>2. c = [kind |-> "paymaster", signer |-> c.signer, mint |-> c.mint, deposit |-> c.deposit]
        /\ c.deposit \in Nat
    BY <2>1, ContractFields
  <2>3. \/ Executed(tx).contract = [c EXCEPT !.deposit = @ + 1]
        \/ c.deposit > 0 /\ Executed(tx).contract = [c EXCEPT !.deposit = @ - 1]
        \/ Executed(tx).contract = c
    BY <1>5, <2>1, ExecutedOther
  <2> HIDE DEF c
  <2>4. \E d \in Nat : Executed(tx).contract =
           [kind |-> "paymaster", signer |-> c.signer, mint |-> c.mint, deposit |-> d]
    <3>1. CASE Executed(tx).contract = [c EXCEPT !.deposit = @ + 1]
      <4>1. Executed(tx).contract = [kind |-> "paymaster", signer |-> c.signer, mint |-> c.mint,
                                     deposit |-> c.deposit + 1]
        BY <2>2, <3>1
      <4> QED
        BY <2>2, <4>1
    <3>2. CASE c.deposit > 0 /\ Executed(tx).contract = [c EXCEPT !.deposit = @ - 1]
      <4>1. Executed(tx).contract = [kind |-> "paymaster", signer |-> c.signer, mint |-> c.mint,
                                     deposit |-> c.deposit - 1]
        BY <2>2, <3>2
      <4> QED
        BY <2>2, <3>2, <4>1
    <3> QED
      BY <2>2, <2>3, <3>1, <3>2
  <2>5. /\ ContractOK(Executed(tx).contract) /\ KeptAs(c, Executed(tx).contract)
        /\ Untouched(c, Executed(tx).contract)
    <3>1. PICK d \in Nat : Executed(tx).contract =
             [kind |-> "paymaster", signer |-> c.signer, mint |-> c.mint, deposit |-> d]
      BY <2>4
    <3> QED
      BY <2>1, <3>1 DEF ContractOK, KeptAs, Untouched
  <2> QED
    BY <2>5 DEF c
<1> QED
  BY <1>1, <1>2, <1>3, <1>4, <1>5, <1>6 DEF CallOK, CallRoles, RegistryRoles, SharedRoles

WorldKept ==
    \A a \in DOMAIN world :
        /\ a \in DOMAIN world'
        /\ KeptAs(world[a], world'[a])
        /\ ~(Private(Oldest) /\ a = Oldest.to) => Untouched(world[a], world'[a])
        /\ Oldest.to \in {a, Nowhere} \/ world'[a] = world[a]

LEMMA MineKeeps ==
    ASSUME ChainInv, Mine
    PROVE  WorldKept /\ (\A a \in DOMAIN world' : ContractOK(world'[a]))
<1>1. CASE Oldest.to = Nowhere
  <2>1. ContractOK(Oldest.contract)
    BY <1>1, MinedCreate DEF CreateOK
  <2>2. \A a \in DOMAIN world : ContractOK(world[a])
    BY DEF ChainInv
  <2>3. ASSUME NEW a \in DOMAIN world
        PROVE  a \in DOMAIN world' /\ world'[a] = world[a]
    BY <1>1, MinedCreate
  <2> QED
    BY <1>1, <2>1, <2>2, <2>3, KeptAsItIs, MinedCreate DEF WorldKept
<1>2. CASE Oldest.to # Nowhere
  <2>1. CallOK(Oldest) /\ ContractOK(world[Oldest.to])
    BY <1>2, MinedCall DEF ChainInv
  <2>2. /\ ContractOK(Executed(Oldest).contract)
        /\ KeptAs(world[Oldest.to], Executed(Oldest).contract)
        /\ Oldest.step.role \in SharedRoles =>
              Untouched(world[Oldest.to], Executed(Oldest).contract)
    BY <2>1, ExecutedKeeps
  <2>3. \A a \in DOMAIN world : ContractOK(world[a])
    BY DEF ChainInv
  <2>4. ASSUME NEW a \in DOMAIN world
        PROVE  /\ a \in DOMAIN world' /\ ContractOK(world'[a]) /\ KeptAs(world[a], world'[a])
               /\ ~(Private(Oldest) /\ a = Oldest.to) => Untouched(world[a], world'[a])
               /\ Oldest.to \in {a, Nowhere} \/ world'[a] = world[a]
    <3>1. CASE world'[a] = world[a]
      BY <1>2, <2>3, <3>1, KeptAsItIs, MinedCall
    <3>2. CASE a = Oldest.to /\ world'[a] = Executed(Oldest).contract
      BY <1>2, <2>2, <3>2, MinedCall DEF Private
    <3> QED
      BY <1>2, <3>1, <3>2, MinedCall
  <2> QED
    BY <1>2, <2>4, MinedCall DEF WorldKept
<1> QED
  BY <1>1, <1>2

-----------------------------------------------------------------------------
(* The invariant when a transaction is mined: the chain, the files and the *)
(* servers.                                                                *)
LEMMA MineUnchanged ==
    ASSUME Mine
    PROVE  /\ site' = site /\ env' = env /\ files' = files /\ job' = job /\ servers' = servers
           /\ last' = last /\ runs' = runs /\ faults' = faults
  BY DEF Mine

LEMMA KindKept ==
    ASSUME WorldKept, NEW a, NEW kind, Is(a, kind)
    PROVE  a \in DOMAIN world /\ a \in DOMAIN world' /\ world'[a].kind = kind
  BY DEF WorldKept, KeptAs, Is

LEMMA CallKept ==
    ASSUME WorldKept, NEW tx, CallOK(tx)
    PROVE  CallOK(tx)'
<1>1. \A kind : Is(tx.to, kind) => tx.to \in DOMAIN world' /\ world'[tx.to].kind = kind
  BY KindKept
<1> QED
  BY <1>1 DEF CallOK, Is

LEMMA ChainMine ==
    ASSUME ChainInv, Mine
    PROVE  ChainInv'
<1>1. /\ nonce \in Nat /\ nonce' = nonce + 1 /\ IsSeq(pool')
      /\ Pendings' = Pendings \ {nonce + 1}
      /\ \A k \in Pendings' : TxAt(k)' = TxAt(k)
  BY MinedFacts
<1>2. WorldKept /\ \A a \in DOMAIN world' : ContractOK(world'[a])
  BY MineKeeps
<1>3. DOMAIN world \subseteq 1 .. nonce /\ reverted \subseteq (1 .. nonce) \ DOMAIN world
  BY DEF ChainInv
<1>4. DOMAIN world' \subseteq 1 .. nonce' /\ reverted' \subseteq (1 .. nonce') \ DOMAIN world'
  <2>1. CASE Oldest.to = Nowhere
    <3>1. DOMAIN world' = DOMAIN world \cup {nonce + 1} /\ reverted' = reverted
      BY <2>1, MinedCreate
    <3> QED
      BY <1>1, <1>3, <3>1
  <2>2. CASE Oldest.to # Nowhere
    <3>1. reverted' \subseteq reverted \cup {nonce + 1} /\ DOMAIN world' = DOMAIN world
      BY <2>2, MinedCall
    <3> QED
      BY <1>1, <1>3, <3>1
  <2> QED
    BY <2>1, <2>2
<1>5. ASSUME NEW n \in Pendings'
      PROVE  (IF TxAt(n).to = Nowhere THEN CreateOK(TxAt(n)) ELSE CallOK(TxAt(n)))'
  <2>1. TxAt(n)' = TxAt(n) /\ n \in Pendings
    BY <1>1
  <2> DEFINE tx == TxAt(n)
  <2>2. CASE tx.to = Nowhere
    <3>1. CreateOK(tx)
      BY <2>1, <2>2, PendingOK
    <3> QED
      BY <2>1, <2>2, <3>1 DEF CreateOK
  <2>3. CASE tx.to # Nowhere
    <3>1. CallOK(tx)
      BY <2>1, <2>3, PendingOK
    <3>2. \A t : CallOK(t) => CallOK(t)'
      BY <1>2, CallKept
    <3> QED
      BY <2>1, <2>3, <3>1, <3>2
  <2> QED
    BY <2>2, <2>3
<1> QED
  BY <1>1, <1>2, <1>4, <1>5 DEF ChainInv

(* A script's file names a registry only on a local chain.                 *)
LEMMA RegistryKind ==
    ASSUME FilesInv, files.stark.registry # Nowhere
    PROVE  /\ files.stark # NoStark /\ site.local
           /\ Is(files.stark.registry, "layerRegistry")
  BY DEF FilesInv, StarkInv, NoStark

LEMMA SettledMine ==
    ASSUME ChainInv, FilesInv, Mine
    PROVE  Settled' = Settled
<1>1. files' = files /\ servers' = servers
  BY MineUnchanged
<1>2. ASSUME NEW a \in {files.stark.registry} \ {Nowhere}
      PROVE  world'[a].storage = world[a].storage
  BY <1>2, RegistryKind, MineKeeps, KindKept DEF WorldKept, KeptAs, Is
<1> QED
  BY <1>1, <1>2 DEF Settled

LEMMA PrivateMine ==
    ASSUME ChainInv, PrivateInv, FilesInv, Mine
    PROVE  PrivateInv'
<1>1. Pendings' \subseteq Pendings /\ \A k \in Pendings' : TxAt(k)' = TxAt(k)
  BY MinedFacts
<1>2. Settled' = Settled
  BY SettledMine
<1>3. ASSUME NEW n \in Pendings', Private(TxAt(n))' PROVE TxAt(n)'.to \notin Settled'
  BY <1>1, <1>2, <1>3 DEF PrivateInv, Private
<1> QED
  BY <1>3 DEF PrivateInv

(* What the files and the servers rely on is left alone.                   *)
LEMMA OldestPrivate ==
    ASSUME ChainInv, PrivateInv, Mine
    PROVE  Private(Oldest) => Oldest.to \notin Settled
  BY MinedFacts DEF PrivateInv, Oldest

LEMMA SettledKept ==
    ASSUME ChainInv, PrivateInv, Mine, NEW a \in DOMAIN world, a \in Settled
    PROVE  a \in DOMAIN world' /\ KeptAs(world[a], world'[a]) /\ Untouched(world[a], world'[a])
  BY OldestPrivate, MineKeeps DEF WorldKept

LEMMA ArtStays ==
    ASSUME NEW r, world'[r] = world[r], site' = site,
           world'[world[r].storage] = world[world[r].storage], ArtShown(r)
    PROVE  ArtShown(r)'
  BY DEF ArtShown, Readable, Known

LEMMA StarkMine ==
    ASSUME ChainInv, PrivateInv, FilesInv, Mine
    PROVE  StarkInv'
<1> DEFINE s == files.stark
<1>1. files' = files /\ site' = site /\ WorldKept
  BY MineUnchanged, MineKeeps
<1> SUFFICES ASSUME s # NoStark PROVE StarkInv'
  BY <1>1 DEF StarkInv
<1>2. /\ s = [gate |-> s.gate, mint |-> s.mint, registry |-> s.registry,
              allowlistSigner |-> s.allowlistSigner]
      /\ Is(s.gate, "gate") /\ Is(s.mint, "mint")
      /\ s.mint \in world[s.gate].callers /\ world[s.mint].gate = s.gate
      /\ world[s.gate].signer = s.allowlistSigner
      /\ site.local => /\ Is(s.registry, "layerRegistry")
                       /\ Is(world[s.registry].storage, "svgStorage")
                       /\ NoTwins => ArtShown(s.registry)
      /\ ~site.local => s.registry = Nowhere
  BY DEF FilesInv, StarkInv
<1>3. s' = s
  BY <1>1
<1>4. /\ s.gate \in Settled
      /\ s.registry \in Settled
      /\ s.registry # Nowhere => world[s.registry].storage \in Settled
  BY DEF Settled
<1> HIDE DEF s
<1>5. /\ s.gate \in DOMAIN world' /\ world'[s.gate].kind = "gate"
      /\ world[s.gate].callers \subseteq world'[s.gate].callers
      /\ world'[s.gate].signer = world[s.gate].signer
  BY <1>2, <1>4, SettledKept DEF Is, KeptAs, Untouched
<1>6. s.mint \in DOMAIN world' /\ world'[s.mint] = world[s.mint]
  BY <1>1, <1>2 DEF WorldKept, KeptAs, Is
<1>7. ASSUME site.local
      PROVE  /\ s.registry \in DOMAIN world' /\ world'[s.registry] = world[s.registry]
             /\ world[s.registry].storage \in DOMAIN world'
             /\ world'[world[s.registry].storage] = world[world[s.registry].storage]
  <2>1. s.registry \in DOMAIN world' /\ world'[s.registry] = world[s.registry]
    BY <1>2, <1>4, <1>7, SettledKept DEF Is, Untouched
  <2>2. s.registry # Nowhere
    BY <1>2, <1>7 DEF Is, ChainInv, Nowhere
  <2>3. world[s.registry].storage \in Settled
    BY <1>4, <2>2
  <2>4. /\ world[s.registry].storage \in DOMAIN world
        /\ world[world[s.registry].storage].kind = "svgStorage"
    BY <1>2, <1>7 DEF Is
  <2>5. /\ world[s.registry].storage \in DOMAIN world'
        /\ world'[world[s.registry].storage] = world[world[s.registry].storage]
    BY <2>3, <2>4, SettledKept DEF Untouched
  <2> QED
    BY <2>1, <2>5
<1>8. ASSUME site.local
      PROVE  /\ Is(s.registry, "layerRegistry")' /\ Is(world[s.registry].storage, "svgStorage")'
             /\ NoTwins' => ArtShown(s.registry)'
  <2>1. Is(s.registry, "layerRegistry")' /\ Is(world[s.registry].storage, "svgStorage")'
    BY <1>2, <1>3, <1>7, <1>8 DEF Is
  <2>2. NoTwins' => NoTwins
    BY <1>1 DEF NoTwins
  <2>3. ArtShown(s.registry) => ArtShown(s.registry)'
    <3>1. \A r : /\ world'[r] = world[r]
                 /\ world'[world[r].storage] = world[world[r].storage]
                 /\ ArtShown(r)
                 => ArtShown(r)'
      BY <1>1, ArtStays
    <3> QED
      BY <1>3, <1>7, <1>8, <3>1
  <2> QED
    BY <1>2, <1>8, <2>1, <2>2, <2>3
<1>9. /\ Is(s.gate, "gate")' /\ Is(s.mint, "mint")'
      /\ s.mint \in world'[s.gate].callers /\ world'[s.mint].gate = s.gate
      /\ world'[s.gate].signer = s.allowlistSigner
  BY <1>2, <1>3, <1>5, <1>6 DEF Is
<1> QED
  BY <1>1, <1>2, <1>3, <1>8, <1>9 DEF StarkInv, s

LEMMA AAMine ==
    ASSUME ChainInv, FilesInv, Mine
    PROVE  AAInv'
<1> DEFINE a == files.aa
<1>1. files' = files /\ WorldKept
  BY MineUnchanged, MineKeeps
<1> SUFFICES ASSUME a # NoAA PROVE AAInv'
  BY <1>1 DEF AAInv
<1>2. /\ Is(a.gate, "gate") /\ Is(a.factory, "factory") /\ Is(a.paymaster, "paymaster")
      /\ a.factory \in world[a.gate].callers
      /\ world[a.factory].gate = a.gate /\ world[a.factory].mint = a.mint
      /\ world[a.paymaster].mint = a.mint
  BY DEF FilesInv, AAInv
<1>3. a' = a
  BY <1>1
<1> HIDE DEF a
<1>4. a.gate \in DOMAIN world' /\ world'[a.gate].kind = "gate"
      /\ world[a.gate].callers \subseteq world'[a.gate].callers
  BY <1>1, <1>2 DEF WorldKept, KeptAs, Is
<1>5. a.factory \in DOMAIN world' /\ world'[a.factory] = world[a.factory]
  BY <1>1, <1>2 DEF WorldKept, KeptAs, Is
<1>6. a.paymaster \in DOMAIN world' /\ world'[a.paymaster].kind = "paymaster"
      /\ world'[a.paymaster].mint = world[a.paymaster].mint
  BY <1>1, <1>2 DEF WorldKept, KeptAs, Is
<1>7. /\ Is(a.gate, "gate")' /\ Is(a.factory, "factory")' /\ Is(a.paymaster, "paymaster")'
  BY <1>2, <1>3, <1>4, <1>5, <1>6 DEF Is
<1> QED
  BY <1>2, <1>3, <1>4, <1>5, <1>6, <1>7 DEF AAInv, a

LEMMA FilesMine ==
    ASSUME ChainInv, PrivateInv, FilesInv, Mine
    PROVE  FilesInv'
<1>1. files' = files /\ WorldKept
  BY MineUnchanged, MineKeeps
<1>2. MarketInv'
  BY <1>1 DEF FilesInv, MarketInv, WorldKept, KeptAs, Is
<1> QED
  BY <1>1, <1>2, StarkMine, AAMine DEF FilesInv

LEMMA ServerMine ==
    ASSUME ChainInv, PrivateInv, Mine, NEW d, d.gate \in Settled, ServerInv(d)
    PROVE  ServerInv(d)'
<1> SUFFICES ASSUME d # NoServer PROVE ServerInv(d)'
  BY DEF ServerInv, NoServer
<1>1. /\ Is(d.gate, "gate") /\ Is(d.mint, "mint") /\ Is(d.factory, "factory")
      /\ Is(d.paymaster, "paymaster") /\ DropHolds(d)
  BY DEF ServerInv
<1>2. WorldKept
  BY MineKeeps
<1>3. /\ d.gate \in DOMAIN world' /\ world'[d.gate].kind = "gate"
      /\ world[d.gate].callers \subseteq world'[d.gate].callers
      /\ world'[d.gate].signer = world[d.gate].signer
  BY <1>1, SettledKept DEF Is, KeptAs, Untouched
<1>4. /\ d.mint \in DOMAIN world' /\ world'[d.mint] = world[d.mint]
      /\ d.factory \in DOMAIN world' /\ world'[d.factory] = world[d.factory]
  BY <1>1, <1>2 DEF WorldKept, KeptAs, Is
<1>5. /\ d.paymaster \in DOMAIN world' /\ world'[d.paymaster].kind = "paymaster"
      /\ world'[d.paymaster].mint = world[d.paymaster].mint
      /\ world'[d.paymaster].signer = world[d.paymaster].signer
  BY <1>1, <1>2 DEF WorldKept, KeptAs, Is
<1>6. /\ Is(d.gate, "gate")' /\ Is(d.mint, "mint")' /\ Is(d.factory, "factory")'
      /\ Is(d.paymaster, "paymaster")'
  BY <1>1, <1>3, <1>4, <1>5 DEF Is
<1>7. DropHolds(d)'
  BY <1>1, <1>3, <1>4, <1>5 DEF DropHolds
<1> QED
  BY <1>6, <1>7 DEF ServerInv

LEMMA ServersMine ==
    ASSUME ChainInv, PrivateInv, ServersInv, Mine
    PROVE  ServersInv'
<1>1. servers' = servers
  BY MineUnchanged
<1>2. ASSUME NEW port \in {8787, 8788} PROVE ServerInv(servers[port])'
  <2>1. servers[port].gate \in Settled /\ ServerInv(servers[port])
    BY DEF Settled, ServersInv
  <2> DEFINE d == servers[port]
  <2>2. d' = d
    BY <1>1
  <2> HIDE DEF d
  <2>3. \A e : e.gate \in Settled /\ ServerInv(e) => ServerInv(e)'
    BY ServerMine
  <2> QED
    BY <1>1, <2>1, <2>3
<1> QED
  BY <1>1, <1>2 DEF ServersInv

-----------------------------------------------------------------------------
(* What a paymaster holds and is about to get.                             *)
LEMMA PendingsFinite ==
    ASSUME ChainInv
    PROVE  IsFiniteSet(Pendings) /\ Cardinality(Pendings) \in Nat
<1>1. nonce \in Nat /\ Len(pool) \in Nat
  BY IsSeqProperties DEF ChainInv
<1>2. nonce + 1 \in Int /\ nonce + Len(pool) \in Int
  BY <1>1
<1>3. IsFiniteSet(nonce + 1 .. nonce + Len(pool))
  BY <1>2, FS_Interval
<1> QED
  BY <1>3, FS_CardinalityType DEF Pendings

LEMMA SubsetCounts ==
    ASSUME NEW T, IsFiniteSet(T), NEW S \in SUBSET T
    PROVE  /\ IsFiniteSet(S) /\ Cardinality(S) \in Nat /\ Cardinality(T) \in Nat
           /\ Cardinality(S) <= Cardinality(T)
  BY FS_Subset, FS_CardinalityType

LEMMA DepositsFinite ==
    ASSUME ChainInv, NEW a
    PROVE  /\ IsFiniteSet(DepositsTo(a)) /\ Cardinality(DepositsTo(a)) \in Nat
           /\ IsFiniteSet(OthersDepositsTo(a)) /\ Cardinality(OthersDepositsTo(a)) \in Nat
           /\ Cardinality(OthersDepositsTo(a)) <= Cardinality(DepositsTo(a))
<1>1. IsFiniteSet(Pendings)
  BY PendingsFinite
<1>2. DepositsTo(a) \in SUBSET Pendings
  BY DEF DepositsTo
<1>3. IsFiniteSet(DepositsTo(a)) /\ Cardinality(DepositsTo(a)) \in Nat
  BY <1>1, <1>2, SubsetCounts
<1>4. OthersDepositsTo(a) \in SUBSET DepositsTo(a)
  BY DEF OthersDepositsTo
<1> QED
  BY <1>3, <1>4, SubsetCounts

LEMMA DepositsMined ==
    ASSUME ChainInv, Mine, NEW a
    PROVE  DepositsTo(a)' = DepositsTo(a) \ {nonce + 1}
<1>1. /\ Pendings' = Pendings \ {nonce + 1}
      /\ \A k \in Pendings' : TxAt(k)' = TxAt(k)
  BY MinedFacts
<1> QED
  BY <1>1 DEF DepositsTo

LEMMA DepositMined ==
    ASSUME ChainInv, Mine, NEW a \in DOMAIN world, world[a].kind = "paymaster"
    PROVE  /\ world[a].deposit \in Nat /\ world'[a].deposit \in Nat
           /\ world'[a].deposit + Cardinality(DepositsTo(a)')
                 <= world[a].deposit + Cardinality(DepositsTo(a))
           /\ (world'[a].deposit <= world[a].deposit
                 \/ (nonce + 1 \in DepositsTo(a)))
<1> DEFINE c == world[a]
<1>1. ContractOK(c)
  BY DEF ChainInv
<1>2. /\ c = [kind |-> "paymaster", signer |-> c.signer, mint |-> c.mint, deposit |-> c.deposit]
      /\ c.deposit \in Nat
  BY <1>1, ContractFields
<1>3. a \in 1 .. nonce /\ nonce + 1 \in Pendings
  BY MinedFacts DEF ChainInv
<1>4. IsFiniteSet(DepositsTo(a)) /\ Cardinality(DepositsTo(a)) \in Nat
  BY DepositsFinite
<1>5. DepositsTo(a)' = DepositsTo(a) \ {nonce + 1}
  BY DepositsMined
<1>6. CASE nonce + 1 \in DepositsTo(a)
  <2>1. Oldest.to = a /\ Oldest.step.role = "deposit" /\ a # Nowhere
    BY <1>3, <1>6 DEF DepositsTo, Oldest, Nowhere
  <2>2. CallOK(Oldest)
    BY <2>1, MinedCall
  <2>3. Oldest.arg = 1
    BY <2>1, <2>2 DEF CallOK
  <2>4. Executed(Oldest) = [ok |-> TRUE, contract |-> [c EXCEPT !.deposit = @ + 1]]
    BY <2>1, <2>3, ExecutedOther
  <2>5. world'[a] = [c EXCEPT !.deposit = @ + 1]
    BY <2>1, <2>4, MinedCall
  <2> HIDE DEF c
  <2>6. world'[a].deposit = c.deposit + 1
    BY <1>2, <2>5
  <2>7. Cardinality(DepositsTo(a)') = Cardinality(DepositsTo(a)) - 1
    BY <1>4, <1>5, <1>6, FS_RemoveElement
  <2> QED
    BY <1>2, <1>4, <1>6, <2>6, <2>7 DEF c
<1>7. CASE nonce + 1 \notin DepositsTo(a)
  <2>1. DepositsTo(a)' = DepositsTo(a)
    BY <1>5, <1>7
  <2>2. world'[a].deposit \in Nat /\ world'[a].deposit <= c.deposit
    <3>1. CASE Oldest.to = a
      <4>1. CallOK(Oldest) /\ a # Nowhere
        BY <1>3, <3>1, MinedCall DEF Nowhere
      <4>2. Oldest.step.role # "deposit"
        BY <1>3, <1>7, <3>1 DEF DepositsTo, Oldest
      <4>3. Oldest.step.role = "handleOps"
        BY <3>1, <4>1, <4>2 DEF CallOK, CallRoles, RegistryRoles, SharedRoles, Is
      <4>4. \/ c.deposit > 0 /\ Executed(Oldest) =
                  [ok |-> TRUE, contract |-> [c EXCEPT !.deposit = @ - 1]]
            \/ Executed(Oldest) = [ok |-> FALSE, contract |-> c]
        BY <3>1, <4>3, ExecutedOther
      <4>5. \/ c.deposit > 0 /\ world'[a] = [c EXCEPT !.deposit = @ - 1]
            \/ world'[a] = c
        BY <3>1, <4>1, <4>4, MinedCall
      <4> HIDE DEF c
      <4>6. c.deposit > 0 /\ world'[a] = [c EXCEPT !.deposit = @ - 1] =>
               world'[a].deposit = c.deposit - 1
        BY <1>2
      <4> QED
        BY <1>2, <4>5, <4>6
    <3>2. CASE Oldest.to # a
      <4>1. world'[a] = c
        BY <3>2, MinedCreate, MinedCall
      <4> QED
        BY <1>2, <4>1
    <3> QED
      BY <3>1, <3>2
  <2> QED
    BY <1>2, <1>4, <2>1, <2>2
<1> QED
  BY <1>6, <1>7

LEMMA OthersMined ==
    ASSUME ChainInv, Mine, NEW a
    PROVE  Cardinality(OthersDepositsTo(a)') <= Cardinality(OthersDepositsTo(a))
<1>1. DepositsTo(a)' = DepositsTo(a) \ {nonce + 1} /\ job' = job
  BY DepositsMined, MineUnchanged
<1>2. OthersDepositsTo(a)' \in SUBSET OthersDepositsTo(a)
  BY <1>1 DEF OthersDepositsTo
<1>3. IsFiniteSet(OthersDepositsTo(a))
  BY DepositsFinite
<1> QED
  BY <1>2, <1>3, SubsetCounts

LEMMA DepositMine ==
    ASSUME ChainInv, DepositInv, Mine, faults \in Nat
    PROVE  DepositInv'
<1>1. faults' = faults
  BY MineUnchanged
<1>2. ChainInv'
  BY ChainMine
<1>3. ASSUME NEW a \in DOMAIN world', world'[a].kind = "paymaster"
      PROVE  /\ world'[a].deposit + Cardinality(DepositsTo(a)') <= 1 + faults
             /\ Cardinality(OthersDepositsTo(a)') <= faults
  <2>1. CASE a \in DOMAIN world
    <3>1. world[a].kind = "paymaster"
      BY <1>3, <2>1, MineKeeps DEF WorldKept, KeptAs
    <3>2. /\ world[a].deposit + Cardinality(DepositsTo(a)) <= 1 + faults
          /\ Cardinality(OthersDepositsTo(a)) <= faults
      BY <2>1, <3>1 DEF DepositInv
    <3>3. world[a].deposit \in Nat /\ Cardinality(DepositsTo(a)) \in Nat
          /\ Cardinality(OthersDepositsTo(a)) \in Nat
      BY <2>1, <3>1, DepositMined, DepositsFinite
    <3>4. Cardinality(OthersDepositsTo(a)') <= Cardinality(OthersDepositsTo(a))
      BY OthersMined
    <3>5. /\ world'[a].deposit \in Nat
          /\ world'[a].deposit + Cardinality(DepositsTo(a)')
                 <= world[a].deposit + Cardinality(DepositsTo(a))
      BY <2>1, <3>1, DepositMined
    <3>6. DepositsTo(a)' \in SUBSET DepositsTo(a) /\ OthersDepositsTo(a)' \in SUBSET DepositsTo(a)
      BY DepositsMined, MineUnchanged DEF OthersDepositsTo
    <3>7. Cardinality(DepositsTo(a)') \in Nat /\ Cardinality(OthersDepositsTo(a)') \in Nat
      BY <3>6, DepositsFinite, SubsetCounts
    <3> QED
      BY <3>2, <3>3, <3>4, <3>5, <3>7
  <2>2. CASE a \notin DOMAIN world
    <3>1. Oldest.to = Nowhere
      BY <2>2, MinedCall
    <3>2. a = nonce + 1 /\ world'[a] = Oldest.contract /\ CreateOK(Oldest)
      BY <2>2, <3>1, MinedCreate
    <3>3. world'[a].deposit = 0
      BY <1>3, <3>2 DEF CreateOK
    <3>4. DepositsTo(a) = {}
      <4> SUFFICES ASSUME NEW n \in DepositsTo(a) PROVE FALSE
        OBVIOUS
      <4>1. n \in Pendings /\ TxAt(n).to = a /\ a # Nowhere
        BY <3>2, MinedFacts DEF DepositsTo, Nowhere
      <4> QED
        BY <2>2, <4>1, PendingOK
    <3>5. DepositsTo(a)' = {} /\ OthersDepositsTo(a)' = {}
      BY <3>4, DepositsMined DEF OthersDepositsTo
    <3> QED
      BY <3>3, <3>5, FS_EmptySet
  <2> QED
    BY <2>1, <2>2
<1> QED
  BY <1>1, <1>3 DEF DepositInv

-----------------------------------------------------------------------------
(* The script that runs, while others act.                                 *)
Grown == \A a \in DOMAIN world : a \in DOMAIN world' /\ KeptAs(world[a], world'[a])
JobKept ==
    /\ job'.script = job.script /\ job'.todo = job.todo /\ job'.at = job.at
    /\ job'.sent = job.sent /\ job'.next = job.next /\ job'.futureMint = job.futureMint
Around == site' = site /\ env' = env /\ files' = files

LEMMA TransactionStays ==
    ASSUME Around, job'.at = job.at, job'.futureMint = job.futureMint,
           servers'[8788] = servers[8788], NEW step
    PROVE  Transaction(step)' = Transaction(step)
  BY DEF Around, Transaction, At, Create, Call

LEMMA StepsStay ==
    ASSUME site' = site, env' = env
    PROVE  /\ StarkSteps' = StarkSteps /\ ArtSteps' = ArtSteps /\ Rotations' = Rotations
           /\ Plan' = Plan /\ Cover' = Cover
<1>1. Plan' = Plan
  BY DEF Plan
<1>2. Cover' = Cover
  BY <1>1 DEF Cover
<1>3. ArtSteps' = ArtSteps
  BY DEF ArtSteps
<1>4. StarkSteps' = StarkSteps
  BY <1>3 DEF StarkSteps, NeedsAllowlistRotation
<1>5. Rotations' = Rotations
  BY DEF Rotations, NeedsAllowlistRotation
<1> QED
  BY <1>1, <1>2, <1>3, <1>4, <1>5

LEMMA StoreAtStays ==
    ASSUME site' = site, env' = env, NEW store, NEW j, StoreAt(store, j)
    PROVE  StoreAt(store, j)'
  BY StepsStay DEF StoreAt

LEMMA ReceivedStays ==
    ASSUME Around, JobKept
    PROVE  Received' = Received
  BY StepsStay DEF Around, JobKept, Received

LEMMA StarkTodoFrame ==
    ASSUME Around, JobKept, StarkTodo
    PROVE  StarkTodo'
  BY StepsStay, ReceivedStays DEF Around, JobKept, StarkTodo

LEMMA ForetellFrame ==
    ASSUME Around, JobKept, StarkTodo, ForetellJob, nonce \in Nat, nonce' \in Nat,
           nonce <= nonce', job.futureMint \in Nat, site \in Sites
    PROVE  ForetellJob'
<1>1. /\ StarkSteps' = StarkSteps /\ ArtSteps' = ArtSteps /\ Rotations' = Rotations
      /\ Received' = Received
      /\ job'.sent = job.sent /\ job'.next = job.next /\ job'.futureMint = job.futureMint
  BY StepsStay, ReceivedStays DEF Around, JobKept
<1>2. Received \in Nat /\ Len(ArtSteps) \in Nat /\ Rotations \in {0, 1}
  BY ArtStepsAre, StarkStepsAre DEF StarkTodo, ArtLayout
<1> QED
  BY <1>1, <1>2 DEF ForetellJob

LEMMA MintFrame ==
    ASSUME Around, JobKept, Grown, MintJob
    PROVE  MintJob'
<1>1. /\ ArtSteps' = ArtSteps /\ Rotations' = Rotations /\ Received' = Received
      /\ job'.at = job.at /\ job'.futureMint = job.futureMint
  BY StepsStay, ReceivedStays DEF Around, JobKept
<1>2. ASSUME Is(At("mint"), "mint")
      PROVE  /\ At("mint") \in DOMAIN world' /\ world'[At("mint")] = world[At("mint")]
             /\ world'[At("mint")].kind = "mint"
  BY <1>2 DEF Grown, KeptAs, Is
<1> QED
  BY <1>1, <1>2 DEF MintJob, At, Is

LEMMA MarketFrame ==
    ASSUME Around, JobKept, Grown, MarketJob
    PROVE  MarketJob'
<1>1. files' = files /\ job'.at = job.at /\ job'.todo = job.todo
  BY DEF Around, JobKept
<1>2. ASSUME Is(At("marketplace"), "marketplace")
      PROVE  /\ At("marketplace") \in DOMAIN world'
             /\ world'[At("marketplace")] = world[At("marketplace")]
             /\ world'[At("marketplace")].kind = "marketplace"
  BY <1>2 DEF Grown, KeptAs, Is
<1> QED
  BY <1>1, <1>2 DEF MarketJob, At, Is

LEMMA GateFrame ==
    ASSUME Around, JobKept, Grown, GateJob, Mined' <=> Mined,
           "gate" \in DOMAIN job.at /\ Is(At("gate"), "gate") =>
              world'[At("gate")].signer = world[At("gate")].signer
    PROVE  GateJob'
<1>1. /\ ArtSteps' = ArtSteps /\ Rotations' = Rotations /\ Received' = Received
      /\ job'.at = job.at /\ job'.futureMint = job.futureMint /\ env' = env
  BY StepsStay, ReceivedStays DEF Around, JobKept
<1>2. Effective' = Effective
  BY <1>1 DEF Effective
<1>3. ASSUME Is(At("gate"), "gate")
      PROVE  /\ At("gate") \in DOMAIN world' /\ world'[At("gate")].kind = "gate"
             /\ world[At("gate")].callers \subseteq world'[At("gate")].callers
  BY <1>3 DEF Grown, KeptAs, Is
<1> QED
  BY <1>1, <1>2, <1>3 DEF GateJob, At, Is

LEMMA ArtFrame ==
    ASSUME Around, JobKept, Grown, ArtJob, Mined' <=> Mined,
           "svgStorage" \in DOMAIN job.at /\ Is(At("svgStorage"), "svgStorage") =>
              world'[At("svgStorage")] = world[At("svgStorage")],
           "layerRegistry" \in DOMAIN job.at /\ Is(At("layerRegistry"), "layerRegistry") =>
              world'[At("layerRegistry")] = world[At("layerRegistry")],
           StarkTodo
    PROVE  ArtJob'
<1>1. /\ Plan' = Plan /\ Received' = Received /\ job'.at = job.at /\ site' = site
  BY StepsStay, ReceivedStays DEF Around, JobKept
<1>2. Effective' = Effective
  BY <1>1 DEF Effective
<1>3. \A a \in DOMAIN world : a \in DOMAIN world'
  BY DEF Grown
<1>4. NoTwins' <=> NoTwins
  BY <1>1 DEF NoTwins
<1>5. \A store, j : StoreAt(store, j) => StoreAt(store, j)'
  BY StoreAtStays DEF Around
<1>6. Received \in Nat /\ Effective \in Nat
  BY DEF StarkTodo, Effective
<1>7. At("svgStorage")' = At("svgStorage") /\ At("layerRegistry")' = At("layerRegistry")
  BY <1>1 DEF At
<1>8. Received >= 1 => /\ "svgStorage" \in DOMAIN job.at /\ Is(At("svgStorage"), "svgStorage")
                       /\ world'[At("svgStorage")] = world[At("svgStorage")]
                       /\ At("svgStorage") \in DOMAIN world'
  BY <1>3 DEF ArtJob, Is
<1>9. Received >= 2 => /\ "layerRegistry" \in DOMAIN job.at
                       /\ Is(At("layerRegistry"), "layerRegistry")
                       /\ world'[At("layerRegistry")] = world[At("layerRegistry")]
                       /\ At("layerRegistry") \in DOMAIN world'
                       /\ world[At("layerRegistry")].storage = At("svgStorage")
  BY <1>3 DEF ArtJob, Is
<1>10. ASSUME NoTwins, Effective >= Len(Plan) + 4
       PROVE  world'[At("layerRegistry")].assets = Bootstrap[site].ids
  <2>1. Len(Plan) \in Nat => Received >= 2
    BY <1>6, <1>10 DEF Effective
  <2> QED
    BY <1>9, <1>10, <2>1 DEF ArtJob
<1> QED
  BY <1>1, <1>2, <1>4, <1>5, <1>6, <1>7, <1>8, <1>9, <1>10 DEF ArtJob, Is

LEMMA AAFrame ==
    ASSUME Around, JobKept, Grown, AAJob, Is(files.stark.gate, "gate"),
           Left = 3 /\ Mined' /\ ~Mined =>
              At("factory") \in world'[files.stark.gate].callers,
           Left = 1 /\ job.sent = Nowhere =>
              world'[At("paymaster")].deposit = world[At("paymaster")].deposit
    PROVE  AAJob'
<1>1. files' = files /\ job'.at = job.at /\ job'.todo = job.todo /\ job'.sent = job.sent
      /\ Left' = Left
  BY DEF Around, JobKept, Left
<1>2. At("factory")' = At("factory") /\ At("paymaster")' = At("paymaster")
  BY <1>1 DEF At
<1>3. AATodo'
  BY <1>1 DEF AAJob, AATodo
<1>4. ASSUME Is(At("factory"), "factory")
      PROVE  /\ Is(At("factory"), "factory")'
             /\ world'[At("factory")] = world[At("factory")]
  BY <1>2, <1>4 DEF Grown, KeptAs, Is
<1>5. ASSUME Is(At("paymaster"), "paymaster")
      PROVE  /\ Is(At("paymaster"), "paymaster")'
             /\ world'[At("paymaster")].mint = world[At("paymaster")].mint
  BY <1>2, <1>5 DEF Grown, KeptAs, Is
<1>6. world[files.stark.gate].callers \subseteq world'[files.stark.gate].callers
  BY DEF Grown, KeptAs, Is
<1>7. Left <= 2 \/ (Left = 3 /\ Mined') => At("factory") \in world'[files.stark.gate].callers
  BY <1>6 DEF AAJob
<1>8. Left <= 3 =>
          /\ "factory" \in DOMAIN job.at /\ Is(At("factory"), "factory")'
          /\ world'[At("factory")].mint = files.stark.mint
          /\ world'[At("factory")].gate = files.stark.gate
  BY <1>4 DEF AAJob
<1>9. Left <= 1 =>
          /\ "paymaster" \in DOMAIN job.at /\ Is(At("paymaster"), "paymaster")'
          /\ world'[At("paymaster")].mint = files.stark.mint
  BY <1>5 DEF AAJob
<1>10. Left = 1 /\ job.sent = Nowhere => world'[At("paymaster")].deposit = 0
  BY DEF AAJob
<1> QED
  BY <1>1, <1>2, <1>3, <1>7, <1>8, <1>9, <1>10 DEF AAJob

-----------------------------------------------------------------------------
(* The script's own transaction is mined.                                  *)
LEMMA TransactionOf ==
    ASSUME NEW step
    PROVE  /\ step.role \in {"svgStorage", "layerRegistry", "gate", "mint", "factory",
                             "paymaster", "marketplace", "renderer", "web3", "entryPointMock",
                             "starknetCoreMock", "account", "inbox"} =>
                 Transaction(step) = Create(Transaction(step).contract)
           /\ step.role \in StorageRoles =>
                 Transaction(step) = Call(At("svgStorage"), step, Nowhere)
           /\ step.role = "registerAssets" =>
                 Transaction(step) = Call(At("layerRegistry"), step, Bootstrap[site].ids)
           /\ step.role \in {"registerLayers", "registerVariants"} =>
                 Transaction(step) = Call(At("layerRegistry"), step, Nowhere)
           /\ step.role = "setAllowlistSigner" =>
                 Transaction(step) = Call(At("gate"), step, env.allowlistSigner)
           /\ step.role = "setAuthorizedCaller" =>
                 Transaction(step) = Call(files.stark.gate, step, At("factory"))
           /\ step.role = "deposit" => Transaction(step) = Call(At("paymaster"), step, 1)
           /\ step.role = "topUp" =>
                 Transaction(step) = Call(files.aa.paymaster, Step("deposit"), 1)
           /\ step.role = "handleOps" =>
                 Transaction(step) = Call(files.aa.paymaster, step, servers[8788])
<1>1. CASE step.role \in {"svgStorage", "layerRegistry", "gate", "mint", "factory",
                             "paymaster", "marketplace", "renderer", "web3", "entryPointMock",
                             "starknetCoreMock", "account", "inbox"}
  <2>1. \E c : Transaction(step) = Create(c)
    BY <1>1 DEF Transaction
  <2>2. Transaction(step) = Create(Transaction(step).contract)
    BY <2>1 DEF Create
  <2> QED
    BY <1>1, <2>2 DEF StorageRoles
<1>2. CASE step.role \in StorageRoles
  BY <1>2 DEF Transaction, StorageRoles
<1>3. CASE step.role \in RegistryRoles
  BY <1>3 DEF Transaction, StorageRoles, RegistryRoles
<1>4. CASE step.role \notin StorageRoles \cup RegistryRoles
  BY <1>1, <1>4 DEF Transaction, StorageRoles, RegistryRoles
<1> QED
  BY <1>2, <1>3, <1>4

LEMMA CreatesOf ==
    /\ Transaction(Step("svgStorage")) =
          Create([kind |-> "svgStorage", store |-> EmptyStore])
    /\ Transaction(Step("layerRegistry")) =
          Create([kind |-> "layerRegistry", storage |-> At("svgStorage"), assets |-> <<>>])
    /\ Transaction(Step("gate")) =
          Create([kind |-> "gate", signer |-> Deployer, callers |-> {job.futureMint}])
    /\ Transaction(Step("mint")) = Create([kind |-> "mint", gate |-> At("gate")])
    /\ Transaction(Step("factory")) =
          Create([kind |-> "factory", mint |-> files.stark.mint, gate |-> files.stark.gate])
    /\ Transaction(Step("paymaster")) =
          Create([kind |-> "paymaster", signer |-> env.paymasterKey,
                  mint |-> files.stark.mint, deposit |-> 0])
    /\ Transaction(Step("marketplace")) =
          Create([kind |-> "marketplace", mint |-> files.stark.mint])
    /\ \A role \in {"renderer", "web3", "entryPointMock", "starknetCoreMock", "account", "inbox"} :
          Transaction(Step(role)) = Create([kind |-> role])
<1>1. \A role : Step(role).role = role
  BY DEF Step
<1>2. ASSUME NEW role \in {"renderer", "web3", "entryPointMock", "starknetCoreMock", "account",
                           "inbox"}
      PROVE  Transaction(Step(role)) = Create([kind |-> role])
  BY <1>1 DEF Transaction
<1>3. /\ Transaction(Step("svgStorage")) =
            Create([kind |-> "svgStorage", store |-> EmptyStore])
      /\ Transaction(Step("layerRegistry")) =
            Create([kind |-> "layerRegistry", storage |-> At("svgStorage"), assets |-> <<>>])
  BY <1>1 DEF Transaction
<1>4. /\ Transaction(Step("gate")) =
            Create([kind |-> "gate", signer |-> Deployer, callers |-> {job.futureMint}])
      /\ Transaction(Step("mint")) = Create([kind |-> "mint", gate |-> At("gate")])
  BY <1>1 DEF Transaction
<1>5. /\ Transaction(Step("factory")) =
            Create([kind |-> "factory", mint |-> files.stark.mint, gate |-> files.stark.gate])
      /\ Transaction(Step("paymaster")) =
            Create([kind |-> "paymaster", signer |-> env.paymasterKey,
                    mint |-> files.stark.mint, deposit |-> 0])
  BY <1>1 DEF Transaction
<1>6. Transaction(Step("marketplace")) =
         Create([kind |-> "marketplace", mint |-> files.stark.mint])
  BY <1>1 DEF Transaction
<1> QED
  BY <1>2, <1>3, <1>4, <1>5, <1>6

(* The step deploy_stark sends after those it has receipts of.             *)
LEMMA StarkHead ==
    ASSUME site \in Sites, StarkTodo, IsSeq(job.todo), job.todo # <<>>
    PROVE  /\ Received \in 0 .. Len(StarkSteps) - 1
           /\ Head(job.todo) = StarkSteps[Received + 1]
           /\ Len(StarkSteps) \in Nat
<1>1. Len(job.todo) \in Nat \ {0} /\ Head(job.todo) = job.todo[1]
  BY DEF IsSeq
<1>2. Len(StarkSteps) \in Nat
  BY ArtStepsAre, StarkStepsAre DEF StarkLayout, ArtLayout
<1>3. Received \in Nat /\ Received = Len(StarkSteps) - Len(job.todo)
  BY DEF StarkTodo, Received
<1>4. 1 \in 1 .. Len(job.todo)
  BY <1>1
<1>5. job.todo[1] = StarkSteps[Received + 1]
  BY <1>4 DEF StarkTodo
<1> HIDE DEF Received
<1>6. Received \in 0 .. Len(StarkSteps) - 1
  BY <1>1, <1>2, <1>3
<1> QED
  BY <1>1, <1>2, <1>5, <1>6

(* The steps of deploy_stark by their place.                               *)
StepIs(step, role) == step = Step(role) /\ step.role = role
LEMMA StarkRoles ==
    ASSUME site \in Sites
    PROVE  LET A == Len(ArtSteps)
               P == Len(Plan)
           IN /\ A \in Nat /\ P \in Nat /\ Rotations \in {0, 1}
              /\ Len(StarkSteps) = A + Rotations + 4
              /\ site.local => A = P + 5
              /\ ~site.local => A = 0
              /\ \A i \in 1 .. A :
                    /\ i = 1 => StepIs(StarkSteps[i], "svgStorage")
                    /\ i = 2 => StepIs(StarkSteps[i], "layerRegistry")
                    /\ i \in 3 .. P + 2 => /\ StarkSteps[i] = Plan[i - 2]
                                           /\ StarkSteps[i].role \in StorageRoles
                    /\ i = P + 3 => StepIs(StarkSteps[i], "registerLayers")
                    /\ i = P + 4 => StepIs(StarkSteps[i], "registerAssets")
                    /\ i = P + 5 => StepIs(StarkSteps[i], "registerVariants")
              /\ StepIs(StarkSteps[A + 1], "renderer") /\ StepIs(StarkSteps[A + 2], "gate")
              /\ Rotations = 1 => StepIs(StarkSteps[A + 3], "setAllowlistSigner")
              /\ StepIs(StarkSteps[A + Rotations + 3], "mint")
              /\ StepIs(StarkSteps[A + Rotations + 4], "web3")
<1> DEFINE A == Len(ArtSteps)
           P == Len(Plan)
<1>1. /\ A \in Nat /\ P \in Nat /\ Rotations \in {0, 1} /\ Len(StarkSteps) = A + Rotations + 4
      /\ site.local => A = P + 5
      /\ ~site.local => A = 0
      /\ \A i \in 1 .. A : StarkSteps[i] = ArtSteps[i]
  BY ArtStepsAre, StarkStepsAre, PlanFacts DEF ArtLayout, StarkLayout
<1>2. \A role : StepIs(Step(role), role)
  BY DEF StepIs, Step
<1>3. /\ StepIs(StarkSteps[A + 1], "renderer") /\ StepIs(StarkSteps[A + 2], "gate")
      /\ Rotations = 1 => StepIs(StarkSteps[A + 3], "setAllowlistSigner")
      /\ StepIs(StarkSteps[A + Rotations + 3], "mint")
      /\ StepIs(StarkSteps[A + Rotations + 4], "web3")
  BY <1>2, StarkStepsAre DEF StarkLayout
<1>4. ASSUME site.local
      PROVE  /\ ArtSteps[1] = Step("svgStorage") /\ ArtSteps[2] = Step("layerRegistry")
             /\ \A j \in 1 .. P : ArtSteps[2 + j] = Plan[j]
             /\ ArtSteps[P + 3] = Step("registerLayers")
             /\ ArtSteps[P + 4] = Step("registerAssets")
             /\ ArtSteps[P + 5] = Step("registerVariants")
  BY <1>4, ArtStepsAre DEF ArtLayout
<1>5. \A j \in 1 .. P : Plan[j].role \in StorageRoles
  BY NextCovers DEF StepCovers
<1> HIDE DEF A, P
<1>6. ASSUME NEW i \in 1 .. A
      PROVE  /\ i = 1 => StepIs(StarkSteps[i], "svgStorage")
             /\ i = 2 => StepIs(StarkSteps[i], "layerRegistry")
             /\ i \in 3 .. P + 2 => /\ StarkSteps[i] = Plan[i - 2]
                                    /\ StarkSteps[i].role \in StorageRoles
             /\ i = P + 3 => StepIs(StarkSteps[i], "registerLayers")
             /\ i = P + 4 => StepIs(StarkSteps[i], "registerAssets")
             /\ i = P + 5 => StepIs(StarkSteps[i], "registerVariants")
  <2>1. site.local /\ StarkSteps[i] = ArtSteps[i] /\ i \in Int
    BY <1>1, <1>6
  <2>2. ASSUME i \in 3 .. P + 2
        PROVE  StarkSteps[i] = Plan[i - 2] /\ Plan[i - 2].role \in StorageRoles
    <3>1. i - 2 \in 1 .. P /\ 2 + (i - 2) = i
      BY <1>1, <2>1, <2>2
    <3>2. ArtSteps[2 + (i - 2)] = Plan[i - 2] /\ Plan[i - 2].role \in StorageRoles
      BY <1>4, <1>5, <2>1, <3>1
    <3> QED
      BY <2>1, <3>1, <3>2
  <2> QED
    BY <1>2, <1>4, <2>1, <2>2
<1> QED
  BY <1>1, <1>3, <1>6 DEF A, P

LEMMA MinedFlags ==
    ASSUME ChainInv, Mine, job.sent = nonce + 1
    PROVE  /\ ~Mined
           /\ Mined' <=> (Oldest.to = Nowhere \/ Executed(Oldest).ok)
<1>1. nonce \in Nat /\ nonce' = nonce + 1 /\ job' = job
  BY MinedFacts, MineUnchanged
<1>2. nonce + 1 \notin reverted
  BY <1>1 DEF ChainInv
<1>3. nonce + 1 \in reverted' <=> ~(Oldest.to = Nowhere \/ Executed(Oldest).ok)
  BY <1>2, MinedCreate, MinedCall
<1> QED
  BY <1>1, <1>3 DEF Mined, Nowhere

LEMMA OldestElsewhere ==
    ASSUME ChainInv, Mine, NEW a \in DOMAIN world,
           Oldest.to = Nowhere \/ world[Oldest.to].kind # world[a].kind
    PROVE  world'[a] = world[a]
  BY MinedCreate, MinedCall

(* Once the art is there deploy_stark calls none but its gate.             *)
LEMMA LateOldest ==
    ASSUME site \in Sites, StarkTodo, IsSeq(job.todo), job.todo # <<>>,
           Oldest = Transaction(Head(job.todo)), Received >= Len(ArtSteps)
    PROVE  \/ /\ Oldest.to = Nowhere
              /\ Received >= Len(ArtSteps) + 2 => Received >= Len(ArtSteps) + 2 + Rotations
           \/ /\ Rotations = 1 /\ Received = Len(ArtSteps) + 2
              /\ Oldest = Call(At("gate"), Head(job.todo), env.allowlistSigner)
              /\ Head(job.todo).role = "setAllowlistSigner"
<1> DEFINE A == Len(ArtSteps)
           r == Received
           step == Head(job.todo)
<1>1. /\ r \in 0 .. Len(StarkSteps) - 1 /\ step = StarkSteps[r + 1]
      /\ Len(StarkSteps) = A + Rotations + 4 /\ A \in Nat /\ Rotations \in {0, 1}
  BY StarkHead, StarkRoles
<1>2. /\ StepIs(StarkSteps[A + 1], "renderer") /\ StepIs(StarkSteps[A + 2], "gate")
      /\ Rotations = 1 => StepIs(StarkSteps[A + 3], "setAllowlistSigner")
      /\ StepIs(StarkSteps[A + Rotations + 3], "mint")
      /\ StepIs(StarkSteps[A + Rotations + 4], "web3")
  BY StarkRoles
<1> HIDE DEF A, r, step
<1>3. ASSUME step.role \in {"renderer", "gate", "mint", "web3"} PROVE Oldest.to = Nowhere
  <2>1. Oldest = Create(Oldest.contract)
    BY <1>3, TransactionOf DEF step
  <2> QED
    BY <2>1 DEF Create
<1>4. \/ r = A /\ step.role = "renderer"
      \/ r = A + 1 /\ step.role = "gate"
      \/ Rotations = 1 /\ r = A + 2 /\ step.role = "setAllowlistSigner"
      \/ r = A + Rotations + 2 /\ step.role = "mint"
      \/ r = A + Rotations + 3 /\ step.role = "web3"
  <2>1. r >= A
    BY DEF r, A
  <2>2. r \in Nat /\ r <= A + Rotations + 3
    BY <1>1
  <2>3. /\ r = A => r + 1 = A + 1
        /\ r = A + 1 => r + 1 = A + 2
        /\ r = A + 2 => r + 1 = A + 3
        /\ r = A + Rotations + 2 => r + 1 = A + Rotations + 3
        /\ r = A + Rotations + 3 => r + 1 = A + Rotations + 4
    BY <1>1, <2>2
  <2>4. \/ r = A \/ r = A + 1 \/ (Rotations = 1 /\ r = A + 2)
        \/ r = A + Rotations + 2 \/ r = A + Rotations + 3
    <3>1. CASE Rotations = 0
      BY <1>1, <2>1, <2>2, <3>1
    <3>2. CASE Rotations = 1
      BY <1>1, <2>1, <2>2, <3>2
    <3> QED
      BY <1>1, <3>1, <3>2
  <2> QED
    BY <1>1, <1>2, <2>3, <2>4, Zenon DEF StepIs
<1>5. step.role = "setAllowlistSigner" => Oldest = Call(At("gate"), step, env.allowlistSigner)
  BY TransactionOf DEF step
<1> QED
  BY <1>1, <1>3, <1>4, <1>5 DEF A, r, step

LEMMA ArtOldest ==
    ASSUME site \in Sites, site.local, ChainInv, Mine, StarkTodo, ArtJob, IsSeq(job.todo),
           job.todo # <<>>, Oldest = Transaction(Head(job.todo)), Addresses \subseteq 1 .. nonce,
           Received >= 1
    PROVE  /\ Received \in 2 .. Len(Plan) + 1 =>
                 /\ Oldest = Call(At("svgStorage"), Plan[Received - 1], Nowhere)
                 /\ Plan[Received - 1].role \in StorageRoles
           /\ Received \notin 2 .. Len(Plan) + 1 =>
                 world'[At("svgStorage")] = world[At("svgStorage")]
           /\ Received = Len(Plan) + 3 =>
                 /\ Oldest = Call(At("layerRegistry"), Head(job.todo), Bootstrap[site].ids)
                 /\ Head(job.todo).role = "registerAssets"
           /\ Received >= Len(Plan) + 4 =>
                 world'[At("layerRegistry")] = world[At("layerRegistry")]
<1> DEFINE A == Len(ArtSteps)
           P == Len(Plan)
           r == Received
           step == Head(job.todo)
           st == At("svgStorage")
           rg == At("layerRegistry")
<1>1. /\ r \in 0 .. Len(StarkSteps) - 1 /\ step = StarkSteps[r + 1]
      /\ Len(StarkSteps) = A + Rotations + 4 /\ P \in Nat /\ A = P + 5 /\ Rotations \in {0, 1}
  BY StarkHead, StarkRoles
<1>2. \A i \in 1 .. A :
         /\ i = 2 => StepIs(StarkSteps[i], "layerRegistry")
         /\ i \in 3 .. P + 2 => /\ StarkSteps[i] = Plan[i - 2]
                                /\ StarkSteps[i].role \in StorageRoles
         /\ i = P + 3 => StepIs(StarkSteps[i], "registerLayers")
         /\ i = P + 4 => StepIs(StarkSteps[i], "registerAssets")
         /\ i = P + 5 => StepIs(StarkSteps[i], "registerVariants")
  BY StarkRoles
<1>3. st \in DOMAIN world /\ world[st].kind = "svgStorage"
  BY DEF ArtJob, Is
<1>4. r >= 2 => rg \in DOMAIN world /\ world[rg].kind = "layerRegistry" /\ rg # Nowhere
  <2>1. r >= 2 => rg \in Addresses /\ rg \in DOMAIN world /\ world[rg].kind = "layerRegistry"
    BY DEF ArtJob, Is, Addresses, At
  <2> QED
    BY <2>1 DEF Nowhere
<1>5. r >= 1
  OBVIOUS
<1> HIDE DEF A, P, r, step, st, rg
<1>6. ASSUME r \in 2 .. P + 1
      PROVE  Oldest = Call(st, Plan[r - 1], Nowhere) /\ Plan[r - 1].role \in StorageRoles
  <2>1. r + 1 \in 1 .. A /\ r + 1 \in 3 .. P + 2 /\ r + 1 - 2 = r - 1
    BY <1>1, <1>6
  <2>2. step = Plan[r - 1] /\ step.role \in StorageRoles
    BY <1>1, <1>2, <2>1
  <2>3. Oldest = Call(st, step, Nowhere)
    BY <2>2, TransactionOf DEF step, st
  <2> QED
    BY <2>2, <2>3
<1>7. ASSUME r = 1 PROVE world'[st] = world[st]
  <2>1. 2 \in 1 .. A /\ r + 1 = 2
    BY <1>1, <1>7
  <2>2. step.role = "layerRegistry"
    BY <1>1, <1>2, <2>1 DEF StepIs
  <2>3. Oldest = Create(Oldest.contract)
    BY <2>2, TransactionOf DEF step
  <2>4. Oldest.to = Nowhere
    BY <2>3 DEF Create
  <2> QED
    BY <1>3, <2>4, OldestElsewhere
<1>8. ASSUME r \in P + 2 .. P + 4
      PROVE  /\ Oldest.to = rg /\ world'[st] = world[st]
             /\ r = P + 3 => /\ Oldest = Call(rg, step, Bootstrap[site].ids)
                             /\ step.role = "registerAssets"
             /\ r = P + 4 => world'[rg] = world[rg]
  <2>1. r + 1 \in 1 .. A /\ r >= 2
    BY <1>1, <1>8
  <2>2. /\ r = P + 2 => step.role = "registerLayers"
        /\ r = P + 3 => step.role = "registerAssets"
        /\ r = P + 4 => step.role = "registerVariants"
    BY <1>1, <1>2, <2>1 DEF StepIs
  <2>3. r \in {P + 2, P + 3, P + 4}
    BY <1>1, <1>8
  <2>4. step.role \in RegistryRoles
    BY <2>2, <2>3 DEF RegistryRoles
  <2>5. /\ step.role = "registerAssets" => Oldest = Call(rg, step, Bootstrap[site].ids)
        /\ step.role # "registerAssets" => Oldest = Call(rg, step, Nowhere)
    BY <2>4, TransactionOf DEF step, rg, RegistryRoles
  <2>6. Oldest.to = rg /\ Oldest.step = step
    BY <2>5 DEF Call
  <2>7. world'[st] = world[st]
    BY <1>3, <1>4, <2>1, <2>6, OldestElsewhere
  <2>8. ASSUME r = P + 4 PROVE world'[rg] = world[rg]
    <3>1. Oldest.step.role = "registerVariants"
      BY <2>2, <2>6, <2>8
    <3>2. Executed(Oldest) = [ok |-> TRUE, contract |-> world[rg]]
      BY <2>6, <3>1, ExecutedOther
    <3> QED
      BY <1>4, <2>1, <2>6, <3>2, MinedCall
  <2> QED
    BY <2>2, <2>5, <2>6, <2>7, <2>8
<1>9. ASSUME r >= A PROVE world'[st] = world[st] /\ world'[rg] = world[rg]
  <2>1. r >= 2
    BY <1>1, <1>9
  <2>2. Oldest.to = Nowhere \/ (Oldest.to # Nowhere /\ world[Oldest.to].kind = "gate")
    <3>1. \/ Oldest.to = Nowhere
          \/ /\ Oldest = Call(At("gate"), Head(job.todo), env.allowlistSigner)
             /\ Head(job.todo).role = "setAllowlistSigner"
      BY <1>9, LateOldest DEF r, A
    <3>2. ASSUME Oldest = Call(At("gate"), Head(job.todo), env.allowlistSigner),
                 Head(job.todo).role = "setAllowlistSigner", Oldest.to # Nowhere
          PROVE  world[Oldest.to].kind = "gate"
      <4>1. Oldest.step.role = "setAllowlistSigner"
        BY <3>2 DEF Call
      <4> QED
        BY <3>2, <4>1, MinedCall DEF CallOK, Is
    <3> QED
      BY <3>1, <3>2
  <2> QED
    BY <1>3, <1>4, <2>1, <2>2, OldestElsewhere
<1>10. r \in Nat /\ (r \in 2 .. P + 1 \/ r = 1 \/ r \in P + 2 .. P + 4 \/ r >= A)
  BY <1>1, <1>5
<1>11. r \in 2 .. P + 1 => ~(r = 1 \/ r \in P + 2 .. P + 4 \/ r >= A)
  BY <1>1
<1>12. /\ r \in 2 .. P + 1 =>
             Oldest = Call(st, Plan[r - 1], Nowhere) /\ Plan[r - 1].role \in StorageRoles
       /\ r \notin 2 .. P + 1 => world'[st] = world[st]
  BY <1>6, <1>7, <1>8, <1>9, <1>10
<1>13. /\ r = P + 3 => /\ Oldest = Call(rg, step, Bootstrap[site].ids)
                       /\ step.role = "registerAssets"
       /\ r >= P + 4 => world'[rg] = world[rg]
  <2>1. r = P + 3 => r \in P + 2 .. P + 4
    BY <1>1
  <2>2. r >= P + 4 => (r = P + 4 /\ r \in P + 2 .. P + 4) \/ r >= A
    BY <1>1
  <2> QED
    BY <1>8, <1>9, <2>1, <2>2
<1> QED
  BY <1>12, <1>13 DEF P, r, step, st, rg

LEMMA ArtMined ==
    ASSUME site \in Sites, site.local, ChainInv, Mine, StarkTodo, ArtJob, IsSeq(job.todo),
           job.todo # <<>>, Oldest = Transaction(Head(job.todo)), Addresses \subseteq 1 .. nonce,
           job.sent = nonce + 1
    PROVE  ArtJob'
<1> DEFINE P == Len(Plan)
           r == Received
           st == At("svgStorage")
           rg == At("layerRegistry")
           e == Effective'
<1>1. Around /\ JobKept /\ Grown
  BY MineUnchanged, MineKeeps DEF Around, JobKept, Grown, WorldKept
<1>2. /\ Plan' = Plan /\ r' = r /\ job'.at = job.at /\ st' = st /\ rg' = rg
      /\ NoTwins' <=> NoTwins
  BY <1>1, StepsStay, ReceivedStays DEF Around, JobKept, At, NoTwins
<1>3. P \in Nat /\ r \in Nat /\ IsSeq(Plan)
  BY PlanFacts DEF StarkTodo
<1>4. /\ Effective = r
      /\ e = r + (IF Oldest.to = Nowhere \/ Executed(Oldest).ok THEN 1 ELSE 0)
  BY <1>2, <1>3, MinedFlags DEF Effective
<1>5. r >= 1 =>
         /\ "svgStorage" \in DOMAIN job.at /\ st \in DOMAIN world
         /\ world[st].kind = "svgStorage" /\ st # Nowhere
  <2>1. r >= 1 => "svgStorage" \in DOMAIN job.at /\ st \in DOMAIN world
                  /\ world[st].kind = "svgStorage" /\ st \in Addresses
    BY DEF ArtJob, Is, Addresses, At
  <2> QED
    BY <2>1 DEF Nowhere
<1>6. r >= 2 =>
         /\ "layerRegistry" \in DOMAIN job.at /\ rg \in DOMAIN world
         /\ world[rg].kind = "layerRegistry" /\ world[rg].storage = st /\ rg # Nowhere
  <2>1. r >= 2 =>
           /\ "layerRegistry" \in DOMAIN job.at /\ rg \in DOMAIN world
           /\ world[rg].kind = "layerRegistry" /\ world[rg].storage = st /\ rg \in Addresses
    BY DEF ArtJob, Is, Addresses, At
  <2> QED
    BY <2>1 DEF Nowhere
<1>7. r >= 1 => Is(st, "svgStorage")'
  BY <1>1, <1>2, <1>5 DEF Grown, KeptAs, Is
<1>8. r >= 2 => Is(rg, "layerRegistry")' /\ world'[rg].storage = st
  BY <1>1, <1>2, <1>6 DEF Grown, KeptAs, Is
<1>9. r >= 1 =>
         /\ r \in 2 .. P + 1 => /\ Oldest = Call(st, Plan[r - 1], Nowhere)
                                /\ Plan[r - 1].role \in StorageRoles
         /\ r \notin 2 .. P + 1 => world'[st] = world[st]
         /\ r = P + 3 => /\ Oldest = Call(rg, Head(job.todo), Bootstrap[site].ids)
                         /\ Head(job.todo).role = "registerAssets"
         /\ r >= P + 4 => world'[rg] = world[rg]
  BY ArtOldest
<1>10. ASSUME NoTwins, r >= 1
       PROVE  StoreAt(world[st].store, IF r = 1 THEN 0 ELSE Least(r - 2, P))
  BY <1>4, <1>10 DEF ArtJob
<1>11. ASSUME NoTwins, r >= P + 4 PROVE world[rg].assets = Bootstrap[site].ids
  BY <1>4, <1>11 DEF ArtJob
<1> HIDE DEF P, r, st, rg, e
<1>12. ASSUME NoTwins, r >= 1
       PROVE  StoreAt(world'[st].store, IF r = 1 THEN 0 ELSE Least(e - 2, P))
  <2>1. CASE r \in 2 .. P + 1
    <3> DEFINE step == Plan[r - 1]
               result == StorageResult(world[st].store, step)
    <3>1. Oldest = Call(st, step, Nowhere) /\ step.role \in StorageRoles /\ r >= 1
      BY <1>9, <2>1
    <3>2. Oldest.to = st /\ Oldest.step = step
      BY <3>1 DEF Call
    <3>3. /\ r - 1 \in 1 .. Len(Plan) /\ r - 1 - 1 = r - 2 /\ r # 1
          /\ Least(r - 2, P) = r - 2 /\ Least(r - 1, P) = r - 1
      BY <1>3, <2>1 DEF Least, P
    <3>4. StoreAt(world[st].store, r - 1 - 1)
      BY <1>10, <1>12, <3>3
    <3>5. Executed(Oldest) = [ok |-> result.ok,
                              contract |-> [world[st] EXCEPT !.store = result.store]]
      BY <3>1, <3>2, ExecutedStorage
    <3>6. ContractOK(world[st])
      BY <1>5, <3>1 DEF ChainInv
    <3>7. world[st] = [kind |-> "svgStorage", store |-> world[st].store] /\ StoreOK(world[st].store)
      BY <1>5, <3>1, <3>6, ContractFields
    <3>8. CASE result.ok
      <4>1. world'[st] = [world[st] EXCEPT !.store = result.store] /\ e = r + 1
        BY <1>4, <1>5, <3>1, <3>2, <3>5, <3>8, MinedCall
      <4>2. StoreAt(result.store, r - 1)
        BY <1>12, <3>3, <3>4, <3>7, <3>8, StorageAdvances
      <4> HIDE DEF result
      <4>3. world'[st].store = result.store
        BY <3>7, <4>1
      <4>4. e - 2 = r - 1
        BY <1>3, <4>1
      <4> QED
        BY <3>3, <4>2, <4>3, <4>4
    <3>9. CASE ~result.ok
      <4>1. world' = world /\ e = r
        BY <1>3, <1>4, <1>5, <3>1, <3>2, <3>5, <3>9, MinedCall
      <4> QED
        BY <1>10, <1>12, <4>1
    <3> QED
      BY <3>8, <3>9
  <2>2. CASE r \notin 2 .. P + 1
    <3>1. world'[st] = world[st]
      BY <1>9, <1>12, <2>2
    <3>2. r = 1 \/ (Least(e - 2, P) = Least(r - 2, P))
      BY <1>3, <1>4, <1>12, <2>2 DEF Least
    <3> QED
      BY <1>10, <1>12, <3>1, <3>2
  <2> QED
    BY <2>1, <2>2
<1>13. ASSUME NoTwins, e >= P + 4 PROVE world'[rg].assets = Bootstrap[site].ids
  <2>1. r >= P + 4 \/ (r = P + 3 /\ e = r + 1)
    BY <1>3, <1>4, <1>13
  <2>2. CASE r >= P + 4
    BY <1>3, <1>9, <1>11, <1>13, <2>2
  <2>3. CASE r = P + 3 /\ e = r + 1
    <3>1. /\ Oldest = Call(rg, Head(job.todo), Bootstrap[site].ids)
          /\ Head(job.todo).role = "registerAssets"
          /\ r >= 2
      BY <1>3, <1>9, <2>3
    <3>2. Oldest.to = rg /\ Oldest.step.role = "registerAssets" /\ Oldest.arg = Bootstrap[site].ids
      BY <3>1 DEF Call
    <3>3. Executed(Oldest) =
             [ok |-> TRUE, contract |-> [world[rg] EXCEPT !.assets = Bootstrap[site].ids]]
      BY <3>2, ExecutedOther
    <3>4. world'[rg] = [world[rg] EXCEPT !.assets = Bootstrap[site].ids]
      BY <1>6, <3>1, <3>2, <3>3, MinedCall
    <3>5. ContractOK(world[rg])
      BY <1>6, <3>1 DEF ChainInv
    <3>6. world[rg] = [kind |-> "layerRegistry", storage |-> world[rg].storage,
                       assets |-> world[rg].assets]
      BY <1>6, <3>1, <3>5, ContractFields
    <3> QED
      BY <3>4, <3>6
  <2> QED
    BY <2>1, <2>2, <2>3
<1>14. \A store, j : StoreAt(store, j) => StoreAt(store, j)'
  BY <1>1, StoreAtStays DEF Around
<1>15. /\ r' >= 1 => "svgStorage" \in DOMAIN job'.at /\ Is(st, "svgStorage")'
       /\ r' >= 2 => /\ "layerRegistry" \in DOMAIN job'.at /\ Is(rg, "layerRegistry")'
                     /\ world'[rg'].storage = st'
  BY <1>2, <1>3, <1>5, <1>6, <1>7, <1>8
<1>16. (NoTwins /\ r >= 1 =>
          StoreAt(world[st].store, IF r = 1 THEN 0 ELSE Least(Effective - 2, P)))'
  <2> SUFFICES ASSUME NoTwins', r' >= 1
               PROVE  StoreAt(world[st].store, IF r = 1 THEN 0 ELSE Least(Effective - 2, P))'
    OBVIOUS
  <2>1. NoTwins /\ r >= 1
    BY <1>2
  <2>2. P' = P
    BY <1>2 DEF P
  <2>3. StoreAt(world'[st].store, IF r = 1 THEN 0 ELSE Least(e - 2, P))
    BY <1>12, <2>1
  <2> QED
    BY <1>2, <1>14, <2>2, <2>3 DEF Least, e
<1>17. (NoTwins /\ Effective >= P + 4 => world[rg].assets = Bootstrap[site].ids)'
  BY <1>2, <1>1, <1>13 DEF P, e, Around
<1> QED
  BY <1>15, <1>16, <1>17 DEF ArtJob, r, st, rg, P

LEMMA GateMined ==
    ASSUME site \in Sites, ChainInv, Mine, StarkTodo, GateJob, IsSeq(job.todo),
           job.todo # <<>>, Oldest = Transaction(Head(job.todo)), job.sent = nonce + 1,
           Addresses \subseteq 1 .. nonce
    PROVE  GateJob'
<1> DEFINE A == Len(ArtSteps)
           r == Received
           g == At("gate")
<1>1. Around /\ JobKept /\ Grown
  BY MineUnchanged, MineKeeps DEF Around, JobKept, Grown, WorldKept
<1>2. /\ ArtSteps' = ArtSteps /\ Rotations' = Rotations /\ r' = r
      /\ job'.at = job.at /\ job'.futureMint = job.futureMint /\ env' = env /\ g' = g
  BY <1>1, StepsStay, ReceivedStays DEF Around, JobKept, At
<1>3. A \in Nat /\ r \in Nat /\ Rotations \in {0, 1}
  BY StarkRoles DEF StarkTodo
<1>4. /\ Effective = r
      /\ Effective' = r + (IF Oldest.to = Nowhere \/ Executed(Oldest).ok THEN 1 ELSE 0)
  BY <1>2, <1>3, MinedFlags DEF Effective
<1> SUFFICES ASSUME r >= A + 2 PROVE GateJob'
  BY <1>2 DEF GateJob
<1>5. /\ "gate" \in DOMAIN job.at /\ g \in DOMAIN world /\ world[g].kind = "gate"
      /\ g # Nowhere /\ job.futureMint \in world[g].callers
      /\ world[g].signer = IF r >= A + 2 + Rotations THEN env.allowlistSigner ELSE Deployer
  <2>1. /\ "gate" \in DOMAIN job.at /\ g \in DOMAIN world /\ world[g].kind = "gate"
        /\ g \in Addresses /\ job.futureMint \in world[g].callers
        /\ world[g].signer = IF r >= A + 2 + Rotations THEN env.allowlistSigner ELSE Deployer
    BY <1>4 DEF GateJob, Is, Addresses, At
  <2> QED
    BY <2>1 DEF Nowhere
<1>6. /\ g \in DOMAIN world' /\ world'[g].kind = "gate" /\ job.futureMint \in world'[g].callers
  BY <1>1, <1>5 DEF Grown, KeptAs
<1>7. /\ world'[g].signer = env.allowlistSigner
      /\ Effective' >= A + 2 + Rotations
  <2>1. \/ Oldest.to = Nowhere /\ r >= A + 2 + Rotations
        \/ /\ Rotations = 1 /\ r = A + 2
           /\ Oldest = Call(g, Head(job.todo), env.allowlistSigner)
           /\ Head(job.todo).role = "setAllowlistSigner"
    <3>1. r >= A
      BY <1>3
    <3> QED
      BY <3>1, LateOldest
  <2> HIDE DEF A, r, g
  <2>2. CASE Oldest.to = Nowhere /\ r >= A + 2 + Rotations
    <3>1. world'[g] = world[g]
      BY <1>5, <2>2, OldestElsewhere
    <3> QED
      BY <1>3, <1>4, <1>5, <2>2, <3>1
  <2>3. CASE /\ Rotations = 1 /\ r = A + 2
             /\ Oldest = Call(g, Head(job.todo), env.allowlistSigner)
             /\ Head(job.todo).role = "setAllowlistSigner"
    <3>1. /\ Oldest.to = g /\ Oldest.step.role = "setAllowlistSigner"
          /\ Oldest.arg = env.allowlistSigner
      BY <2>3 DEF Call
    <3>2. Executed(Oldest) =
             [ok |-> TRUE, contract |-> [world[g] EXCEPT !.signer = env.allowlistSigner]]
      BY <3>1, ExecutedOther
    <3>3. world'[g] = [world[g] EXCEPT !.signer = env.allowlistSigner]
      BY <1>5, <3>1, <3>2, MinedCall
    <3>4. ContractOK(world[g])
      BY <1>5 DEF ChainInv
    <3>5. world[g] = [kind |-> "gate", signer |-> world[g].signer, callers |-> world[g].callers]
      BY <1>5, <3>4, ContractFields
    <3>6. world'[g].signer = env.allowlistSigner
      BY <3>3, <3>5
    <3>7. Effective' = r + 1
      BY <1>4, <3>2
    <3> QED
      BY <1>3, <2>3, <3>6, <3>7
  <2> QED
    BY <2>1, <2>2, <2>3
<1>8. Is(g, "gate")'
  BY <1>2, <1>6 DEF Is
<1> QED
  BY <1>2, <1>5, <1>6, <1>7, <1>8 DEF GateJob

LEMMA AAMined ==
    ASSUME ChainInv, Mine, AAJob, IsSeq(job.todo), job.todo # <<>>, Is(files.stark.gate, "gate"),
           Oldest = Transaction(Head(job.todo)), job.sent = nonce + 1
    PROVE  AAJob'
<1> DEFINE g == files.stark.gate
<1>1. Around /\ JobKept /\ Grown
  BY MineUnchanged, MineKeeps DEF Around, JobKept, Grown, WorldKept
<1>2. job.sent # Nowhere
  BY MinedFacts DEF Nowhere
<1>3. ASSUME Left = 3 PROVE At("factory") \in world'[g].callers
  <2>1. Head(job.todo) = job.todo[1] /\ 1 \in 1 .. Left
    BY <1>3 DEF IsSeq
  <2>2. job.todo[1] = CoreSteps[4]
    <3>1. IF Left - 1 < 6 THEN job.todo[1] = CoreSteps[6 - (Left - 1)]
          ELSE job.todo[1] \in {Step("entryPointMock"), Step("starknetCoreMock")}
      BY <2>1 DEF AAJob, AATodo
    <3>2. Left - 1 < 6 /\ 6 - (Left - 1) = 4
      BY <1>3
    <3> QED
      BY <3>1, <3>2
  <2>3. CoreSteps[4] = Step("setAuthorizedCaller")
    BY DEF CoreSteps
  <2>4. Head(job.todo).role = "setAuthorizedCaller"
    BY <2>1, <2>2, <2>3 DEF Step
  <2>5. Oldest = Call(g, Head(job.todo), At("factory"))
    BY <2>4, TransactionOf
  <2>6. /\ Oldest.to = g /\ Oldest.step.role = "setAuthorizedCaller"
        /\ Oldest.arg = At("factory")
    BY <2>4, <2>5 DEF Call
  <2>7. g \in DOMAIN world /\ world[g].kind = "gate" /\ g # Nowhere
    BY DEF Is, ChainInv, Nowhere
  <2> HIDE DEF g
  <2> DEFINE new == [world[g] EXCEPT !.callers = @ \cup {At("factory")}]
  <2>8. Executed(Oldest) = [ok |-> TRUE, contract |-> new]
    BY <2>6 DEF Executed
  <2> HIDE DEF new
  <2>9. world'[g] = new
    BY <2>6, <2>7, <2>8, MinedCall
  <2>10. ContractOK(world[g])
    BY <2>7 DEF ChainInv
  <2>11. world[g] = [kind |-> "gate", signer |-> world[g].signer, callers |-> world[g].callers]
    BY <2>7, <2>10, ContractFields
  <2>12. world'[g].callers = world[g].callers \cup {At("factory")}
    BY <2>9, <2>11 DEF new
  <2> QED
    BY <2>12
<1> QED
  BY <1>1, <1>2, <1>3, AAFrame

(* Transactions of others leave its contracts alone.                       *)
LEMMA OwnUntouched ==
    ASSUME ChainInv, OwnInv, Mine, job.sent # nonce + 1, NEW a \in Addresses, a \in DOMAIN world
    PROVE  world'[a] = world[a]
<1>1. a # Nowhere /\ nonce + 1 \in Pendings
  BY MinedFacts DEF OwnInv, Nowhere
<1>2. Oldest.to # a
  BY <1>1 DEF OwnInv, Oldest
<1> QED
  BY <1>2, MinedCreate, MinedCall

LEMMA OwnMine ==
    ASSUME ChainInv, FilesInv, OwnInv, Mine
    PROVE  OwnInv'
<1>1. job' = job /\ Settled' = Settled
  BY MineUnchanged, SettledMine
<1>2. /\ Pendings' \subseteq Pendings /\ \A k \in Pendings' : TxAt(k)' = TxAt(k)
      /\ nonce \in Nat /\ nonce' = nonce + 1
  BY MinedFacts
<1>3. Addresses' = Addresses
  BY <1>1 DEF Addresses
<1>4. 1 .. nonce \subseteq 1 .. nonce'
  BY <1>2
<1>5. ASSUME NEW n \in Pendings', TxAt(n)'.to # Nowhere
      PROVE  TxAt(n)'.to # job.sent /\ (TxAt(n)'.to \in Addresses => n = job.sent)
  BY <1>2, <1>5 DEF OwnInv
<1>6. /\ Addresses \subseteq (1 .. nonce') \ Settled
      /\ job.sent # Nowhere => job.sent \notin Settled
  BY <1>4 DEF OwnInv
<1> QED
  BY <1>1, <1>3, <1>5, <1>6 DEF OwnInv

LEMMA SentMine ==
    ASSUME ChainInv, OwnInv, SentInv, Mine, job.sent \in Nat
    PROVE  SentInv'
<1> DEFINE tx == Transaction(Head(job.todo))
<1>1. job' = job /\ servers' = servers /\ Around
  BY MineUnchanged DEF Around
<1>2. tx' = tx
  <2>1. \A step : Transaction(step)' = Transaction(step)
    BY <1>1, TransactionStays
  <2> QED
    BY <1>1, <2>1
<1>3. /\ Pendings' \subseteq Pendings /\ \A k \in Pendings' : TxAt(k)' = TxAt(k)
      /\ nonce \in Nat /\ nonce' = nonce + 1 /\ nonce + 1 \in Pendings
  BY MinedFacts
<1> SUFFICES ASSUME job.sent # Nowhere PROVE SentInv'
  BY <1>1 DEF SentInv
<1>4. /\ job.next = job.sent + 1
      /\ job.sent \in Pendings => TxAt(job.sent) = tx
      /\ Mined /\ tx.to = Nowhere => /\ job.sent \in DOMAIN world
                                     /\ world[job.sent] = tx.contract
  BY DEF SentInv
<1>5. job.sent \in Pendings' => TxAt(job.sent)' = tx
  BY <1>1, <1>3, <1>4
<1>6. ASSUME Mined', tx.to = Nowhere
      PROVE  job.sent \in DOMAIN world' /\ world'[job.sent] = tx.contract
  <2>1. CASE job.sent = nonce + 1
    <3>1. Oldest = tx
      BY <1>3, <1>4, <2>1 DEF Oldest
    <3> HIDE DEF tx
    <3> QED
      BY <1>6, <2>1, <3>1, MinedCreate
  <2>2. CASE job.sent # nonce + 1
    <3>1. job.sent <= nonce /\ job.sent \notin reverted'
      BY <1>1, <1>3, <1>6, <2>2 DEF Mined
    <3>2. reverted \subseteq reverted'
      BY MinedCreate, MinedCall
    <3>3. Mined
      BY <3>1, <3>2 DEF Mined
    <3>4. job.sent \in DOMAIN world /\ world[job.sent] = tx.contract
      BY <1>4, <1>6, <3>3
    <3>5. Oldest.to # Nowhere => Oldest.to # job.sent
      BY <1>3 DEF OwnInv, Oldest
    <3>6. world'[job.sent] = world[job.sent] /\ job.sent \in DOMAIN world'
      BY <3>4, <3>5, MinedCreate, MinedCall
    <3> QED
      BY <3>4, <3>6
  <2> QED
    BY <2>1, <2>2
<1> HIDE DEF tx
<1>7. /\ job'.next = job'.sent + 1
      /\ job'.sent \in Pendings' => TxAt(job.sent)' = tx'
      /\ Mined' /\ tx'.to = Nowhere => /\ job'.sent \in DOMAIN world'
                                      /\ world'[job'.sent] = tx'.contract
  BY <1>1, <1>2, <1>4, <1>5, <1>6
<1> QED
  BY <1>7 DEF SentInv, tx

LEMMA FoundMine ==
    ASSUME FoundInv, Mine
    PROVE  FoundInv'
<1>1. job' = job /\ servers' = servers /\ files' = files
  BY MineUnchanged
<1> QED
  BY <1>1 DEF FoundInv, Reuses

LEMMA ShapeMine ==
    ASSUME ChainInv, JobShape, Mine
    PROVE  JobShape'
<1>1. job' = job /\ nonce' + Len(pool') = nonce + Len(pool)
  BY MineUnchanged, MinedFacts
<1> QED
  BY <1>1 DEF JobShape

LEMMA NotMined ==
    ASSUME ChainInv, Mine, job.sent # nonce + 1, job.sent \in Nat
    PROVE  Mined' <=> Mined
<1>1. nonce \in Nat /\ nonce' = nonce + 1 /\ job' = job
  BY MinedFacts, MineUnchanged
<1>2. \/ reverted' = reverted
      \/ reverted' = reverted \cup {nonce + 1}
  BY MinedCreate, MinedCall
<1> QED
  BY <1>1, <1>2 DEF Mined

(* What a script that has sent a transaction waits for.                    *)
LEMMA SentIsHead ==
    ASSUME ChainInv, JobShape, FoundInv, SentInv, job.sent \in Pendings
    PROVE  /\ job.todo # <<>> /\ job.sent # Nowhere
           /\ TxAt(job.sent) = Transaction(Head(job.todo))
<1>1. job.sent # Nowhere
  BY DEF ChainInv, Pendings, Nowhere
<1> QED
  BY <1>1 DEF FoundInv, SentInv

LEMMA StarkJobMine ==
    ASSUME LaunchInv, Mine, job # Idle, job.entered, job.script = "stark", ~job.reuseStark
    PROVE  StarkJob'
<1>1. /\ ChainInv /\ FilesInv /\ site \in Sites /\ JobShape /\ FoundInv /\ OwnInv /\ SentInv
      /\ StarkJob
  BY DEF LaunchInv, JobInv, ScriptInv
<1>2. Around /\ JobKept /\ Grown
  BY <1>1, MineUnchanged, MineKeeps DEF Around, JobKept, Grown, WorldKept
<1>3. /\ nonce \in Nat /\ nonce' \in Nat /\ nonce <= nonce' /\ job.futureMint \in Nat
      /\ job.sent \in Nat /\ IsSeq(job.todo) /\ nonce + 1 \in Pendings
  BY <1>1, MinedFacts DEF JobShape
<1>4. StarkTodo /\ (site.local => ArtJob) /\ ForetellJob /\ GateJob /\ MintJob
  BY <1>1 DEF StarkJob
<1>5. StarkTodo' /\ MintJob'
  BY <1>2, <1>4, StarkTodoFrame, MintFrame
<1>6. ForetellJob'
  BY <1>1, <1>2, <1>3, <1>4, ForetellFrame
<1>7. CASE job.sent = nonce + 1
  <2>1. job.todo # <<>> /\ Oldest = Transaction(Head(job.todo))
    BY <1>1, <1>3, <1>7, SentIsHead DEF Oldest
  <2>2. Addresses \subseteq 1 .. nonce
    BY <1>1 DEF OwnInv
  <2>3. GateJob'
    BY <1>1, <1>3, <1>4, <1>7, <2>1, <2>2, GateMined
  <2>4. site.local => ArtJob'
    BY <1>1, <1>3, <1>4, <1>7, <2>1, <2>2, ArtMined
  <2> QED
    BY <1>2, <1>5, <1>6, <2>3, <2>4 DEF StarkJob, Around
<1>8. CASE job.sent # nonce + 1
  <2>1. Mined' <=> Mined
    BY <1>1, <1>3, <1>8, NotMined
  <2>2. ASSUME NEW role \in DOMAIN job.at, At(role) \in DOMAIN world
        PROVE  world'[At(role)] = world[At(role)]
    BY <1>1, <1>8, <2>2, OwnUntouched DEF Addresses, At
  <2>3. GateJob'
    BY <1>2, <1>4, <2>1, <2>2, GateFrame DEF Is
  <2>4. site.local => ArtJob'
    BY <1>2, <1>4, <2>1, <2>2, ArtFrame DEF Is
  <2> QED
    BY <1>2, <1>5, <1>6, <2>3, <2>4 DEF StarkJob, Around
<1> QED
  BY <1>7, <1>8

LEMMA AAJobMine ==
    ASSUME LaunchInv, Mine, job # Idle, job.entered, job.script = "4337", ~job.reuse4337
    PROVE  AAJob'
<1>1. /\ ChainInv /\ FilesInv /\ JobShape /\ FoundInv /\ OwnInv /\ SentInv /\ AAJob
  BY DEF LaunchInv, JobInv, ScriptInv
<1>2. Around /\ JobKept /\ Grown
  BY <1>1, MineUnchanged, MineKeeps DEF Around, JobKept, Grown, WorldKept
<1>3. Is(files.stark.gate, "gate")
  BY <1>1 DEF FoundInv, FilesInv, StarkInv
<1>4. job.sent \in Nat /\ IsSeq(job.todo) /\ nonce + 1 \in Pendings
  BY <1>1, MinedFacts DEF JobShape
<1>5. CASE job.sent = nonce + 1
  <2>1. job.todo # <<>> /\ Oldest = Transaction(Head(job.todo))
    BY <1>1, <1>4, <1>5, SentIsHead DEF Oldest
  <2> QED
    BY <1>1, <1>3, <1>4, <1>5, <2>1, AAMined
<1>6. CASE job.sent # nonce + 1
  <2>1. Mined' <=> Mined
    BY <1>1, <1>4, <1>6, NotMined
  <2>2. Left = 1 => world'[At("paymaster")] = world[At("paymaster")]
    <3>1. Left = 1 => At("paymaster") \in Addresses /\ At("paymaster") \in DOMAIN world
      BY <1>1 DEF AAJob, Is, Addresses, At
    <3> QED
      BY <1>1, <1>6, <3>1, OwnUntouched
  <2> QED
    BY <1>1, <1>2, <1>3, <2>1, <2>2, AAFrame
<1> QED
  BY <1>5, <1>6

LEMMA TopUpMine ==
    ASSUME LaunchInv, Mine, job # Idle, job.entered, job.script = "topUp"
    PROVE  TopUpJob'
<1> DEFINE p == files.aa.paymaster
<1>1. /\ ChainInv /\ FilesInv /\ FoundInv /\ TopUpJob /\ faults \in Nat
  BY LaunchAssumption DEF LaunchInv, JobInv, ScriptInv
<1>2. job' = job /\ p' = p /\ faults' = faults
  BY MineUnchanged
<1>3. p \in DOMAIN world /\ world[p].kind = "paymaster"
  BY <1>1 DEF FoundInv, FilesInv, AAInv, Is
<1> HIDE DEF p
<1>4. \A a \in DOMAIN world : world[a].kind = "paymaster" =>
         /\ world[a].deposit \in Nat /\ world'[a].deposit \in Nat
         /\ world'[a].deposit + Cardinality(DepositsTo(a)')
                 <= world[a].deposit + Cardinality(DepositsTo(a))
         /\ Cardinality(DepositsTo(a)) \in Nat /\ Cardinality(DepositsTo(a)') \in Nat
  <2> TAKE a \in DOMAIN world
  <2> HAVE world[a].kind = "paymaster"
  <2>1. IsFiniteSet(DepositsTo(a)) /\ DepositsTo(a)' \in SUBSET DepositsTo(a)
    BY <1>1, DepositsMined, DepositsFinite
  <2>2. Cardinality(DepositsTo(a)) \in Nat /\ Cardinality(DepositsTo(a)') \in Nat
    BY <2>1, SubsetCounts
  <2> QED
    BY <1>1, <2>2, DepositMined
<1>5. job.todo # <<>> /\ job.sent = Nowhere =>
         world[p].deposit + Cardinality(DepositsTo(p)) <= faults
  BY <1>1 DEF TopUpJob, p
<1>6. DepositsTo(p)' = DepositsTo(p) \ {nonce + 1}
  <2>1. /\ Pendings' = Pendings \ {nonce + 1}
        /\ \A k \in Pendings' : TxAt(k)' = TxAt(k)
    BY <1>1, MinedFacts
  <2> QED
    BY <1>2, <2>1 DEF DepositsTo
<1>7. job.todo # <<>> /\ job.sent = Nowhere =>
         world'[p].deposit + Cardinality(DepositsTo(p)') <= faults
  <2>1. \A a : DepositsTo(a)' = DepositsTo(a) \ {nonce + 1}
    BY <1>1, DepositsMined
  <2>2. /\ world[p].deposit \in Nat /\ world'[p].deposit \in Nat
        /\ world'[p].deposit + Cardinality(DepositsTo(p) \ {nonce + 1})
                 <= world[p].deposit + Cardinality(DepositsTo(p))
        /\ Cardinality(DepositsTo(p)) \in Nat
        /\ Cardinality(DepositsTo(p) \ {nonce + 1}) \in Nat
    BY <1>3, <1>4, <2>1
  <2> QED
    BY <1>1, <1>5, <1>6, <2>2
<1> QED
  BY <1>1, <1>2, <1>7 DEF TopUpJob, p

LEMMA JobMine ==
    ASSUME LaunchInv, Mine
    PROVE  JobInv'
<1>1. job' = job /\ files' = files /\ ChainInv /\ FilesInv
  BY MineUnchanged DEF LaunchInv
<1> SUFFICES ASSUME job # Idle PROVE JobInv'
  BY <1>1 DEF JobInv
<1>2. /\ JobShape /\ FoundInv
      /\ job.entered => OwnInv /\ SentInv /\ ScriptInv
  BY DEF LaunchInv, JobInv
<1>3. JobShape' /\ FoundInv'
  BY <1>1, <1>2, ShapeMine, FoundMine
<1>4. ASSUME job.entered PROVE OwnInv' /\ SentInv'
  <2>1. job.sent \in Nat
    BY <1>2 DEF JobShape
  <2> QED
    BY <1>1, <1>2, <1>4, <2>1, OwnMine, SentMine
<1>5. ASSUME job.entered PROVE ScriptInv'
  <2>1. Around /\ JobKept /\ Grown
    BY <1>1, MineUnchanged, MineKeeps DEF Around, JobKept, Grown, WorldKept
  <2>2. job.script = "marketplace" => MarketJob'
    BY <1>2, <1>5, <2>1, MarketFrame DEF ScriptInv
  <2>3. job.script = "stark" /\ ~job.reuseStark => StarkJob'
    BY <1>5, StarkJobMine
  <2>4. job.script = "4337" /\ ~job.reuse4337 => AAJob'
    BY <1>5, AAJobMine
  <2>5. job.script = "topUp" => TopUpJob'
    BY <1>5, TopUpMine
  <2>6. job.script = "mintOne" => job.todo \in {<<>>, MintSteps}
    BY <1>2, <1>5 DEF ScriptInv
  <2> QED
    BY <1>1, <2>2, <2>3, <2>4, <2>5, <2>6 DEF ScriptInv
<1> QED
  BY <1>1, <1>3, <1>4, <1>5 DEF JobInv

LEMMA MineInv ==
    ASSUME LaunchInv, Mine
    PROVE  LaunchInv'
<1>1. /\ ChainInv /\ PrivateInv /\ FilesInv /\ ServersInv /\ DepositInv
      /\ site \in Sites /\ env \in Envs /\ runs \in 0 .. MaxRuns /\ faults \in 0 .. MaxFaults
      /\ last \in {"none", "done", "minted", "refused", "interrupted"}
      /\ faults \in Nat
  BY LaunchAssumption DEF LaunchInv
<1>2. ChainInv' /\ PrivateInv' /\ FilesInv' /\ ServersInv' /\ DepositInv' /\ JobInv'
  BY <1>1, ChainMine, PrivateMine, FilesMine, ServersMine, DepositMine, JobMine
<1> QED
  BY <1>1, <1>2, MineUnchanged DEF LaunchInv

-----------------------------------------------------------------------------
(* What the next transaction of a script may do.                           *)
SendOK(tx) ==
    /\ tx.to = Nowhere => CreateOK(tx)
    /\ tx.to # Nowhere => CallOK(tx) /\ tx.to \in DOMAIN world
    /\ Private(tx) => tx.to \in Addresses
    /\ tx.to # Nowhere /\ tx.step.role = "deposit" =>
          world[tx.to].deposit + Cardinality(DepositsTo(tx.to)) <= faults

NewOK(c) == ContractOK(c) /\ (c.kind = "paymaster" => c.deposit = 0)

LEMMA CreateSend ==
    ASSUME NEW tx, NEW contract, tx = Create(contract), NewOK(contract)
    PROVE  SendOK(tx)
<1>1. tx.to = Nowhere /\ tx.contract = contract
  BY DEF Create
<1> QED
  BY <1>1 DEF SendOK, CreateOK, NewOK, Private

LEMMA CallSend ==
    ASSUME ChainInv, NEW tx, CallOK(tx), tx.to \in DOMAIN world,
           tx.step.role \notin SharedRoles => tx.to \in Addresses,
           tx.step.role = "deposit" =>
              world[tx.to].deposit + Cardinality(DepositsTo(tx.to)) <= faults
    PROVE  SendOK(tx)
<1>1. tx.to # Nowhere
  BY DEF ChainInv, Nowhere
<1> QED
  BY <1>1 DEF SendOK, Private

LEMMA PlainContracts ==
    ASSUME NEW a, NEW b, NEW kind
    PROVE  /\ NewOK([kind |-> "svgStorage", store |-> EmptyStore])
           /\ NewOK([kind |-> "layerRegistry", storage |-> a, assets |-> b])
           /\ NewOK([kind |-> "gate", signer |-> a, callers |-> b])
           /\ NewOK([kind |-> "mint", gate |-> a])
           /\ NewOK([kind |-> "factory", mint |-> a, gate |-> b])
           /\ NewOK([kind |-> "paymaster", signer |-> a, mint |-> b, deposit |-> 0])
           /\ NewOK([kind |-> "marketplace", mint |-> a])
           /\ kind \in {"none", "renderer", "web3", "entryPointMock", "starknetCoreMock",
                        "account", "inbox"} => NewOK([kind |-> kind])
<1>1. NewOK([kind |-> "svgStorage", store |-> EmptyStore])
  BY EmptyStoreOK DEF ContractOK, NewOK
<1>2. /\ NewOK([kind |-> "layerRegistry", storage |-> a, assets |-> b])
      /\ NewOK([kind |-> "gate", signer |-> a, callers |-> b])
  BY DEF ContractOK, NewOK
<1>3. /\ NewOK([kind |-> "mint", gate |-> a])
      /\ NewOK([kind |-> "factory", mint |-> a, gate |-> b])
  BY DEF ContractOK, NewOK
<1>4. /\ NewOK([kind |-> "paymaster", signer |-> a, mint |-> b, deposit |-> 0])
      /\ NewOK([kind |-> "marketplace", mint |-> a])
  BY DEF ContractOK, NewOK
<1>5. kind \in {"none", "renderer", "web3", "entryPointMock", "starknetCoreMock",
                        "account", "inbox"} => NewOK([kind |-> kind])
  BY DEF ContractOK, NewOK
<1> QED
  BY <1>1, <1>2, <1>3, <1>4, <1>5

LEMMA CreateSteps ==
    ASSUME NEW role \in {"svgStorage", "layerRegistry", "gate", "mint", "factory", "paymaster",
                         "marketplace", "renderer", "web3", "entryPointMock",
                         "starknetCoreMock", "account", "inbox"}
    PROVE  SendOK(Transaction(Step(role)))
<1>1. CASE role = "svgStorage"
  <2> DEFINE c == [kind |-> "svgStorage", store |-> EmptyStore]
  <2>1. Transaction(Step("svgStorage")) = Create(c)
    BY CreatesOf
  <2>2. NewOK(c)
    BY PlainContracts
  <2> HIDE DEF c
  <2> QED
    BY <1>1, <2>1, <2>2, CreateSend
<1>2. CASE role = "layerRegistry"
  <2> DEFINE c == [kind |-> "layerRegistry", storage |-> At("svgStorage"), assets |-> <<>>]
  <2>1. Transaction(Step("layerRegistry")) = Create(c)
    BY CreatesOf
  <2>2. NewOK(c)
    BY PlainContracts
  <2> HIDE DEF c
  <2> QED
    BY <1>2, <2>1, <2>2, CreateSend
<1>3. CASE role = "gate"
  <2> DEFINE c == [kind |-> "gate", signer |-> Deployer, callers |-> {job.futureMint}]
  <2>1. Transaction(Step("gate")) = Create(c)
    BY CreatesOf
  <2>2. NewOK(c)
    BY PlainContracts
  <2> HIDE DEF c
  <2> QED
    BY <1>3, <2>1, <2>2, CreateSend
<1>4. CASE role = "mint"
  <2> DEFINE c == [kind |-> "mint", gate |-> At("gate")]
  <2>1. Transaction(Step("mint")) = Create(c)
    BY CreatesOf
  <2>2. NewOK(c)
    BY PlainContracts
  <2> HIDE DEF c
  <2> QED
    BY <1>4, <2>1, <2>2, CreateSend
<1>5. CASE role = "factory"
  <2> DEFINE c == [kind |-> "factory", mint |-> files.stark.mint, gate |-> files.stark.gate]
  <2>1. Transaction(Step("factory")) = Create(c)
    BY CreatesOf
  <2>2. NewOK(c)
    BY PlainContracts
  <2> HIDE DEF c
  <2> QED
    BY <1>5, <2>1, <2>2, CreateSend
<1>6. CASE role = "paymaster"
  <2> DEFINE c == [kind |-> "paymaster", signer |-> env.paymasterKey, mint |-> files.stark.mint,
                 deposit |-> 0]
  <2>1. Transaction(Step("paymaster")) = Create(c)
    BY CreatesOf
  <2>2. NewOK(c)
    BY PlainContracts
  <2> HIDE DEF c
  <2> QED
    BY <1>6, <2>1, <2>2, CreateSend
<1>7. CASE role = "marketplace"
  <2> DEFINE c == [kind |-> "marketplace", mint |-> files.stark.mint]
  <2>1. Transaction(Step("marketplace")) = Create(c)
    BY CreatesOf
  <2>2. NewOK(c)
    BY PlainContracts
  <2> HIDE DEF c
  <2> QED
    BY <1>7, <2>1, <2>2, CreateSend
<1>8. CASE role \in {"renderer", "web3", "entryPointMock", "starknetCoreMock", "account", "inbox"}
  <2> DEFINE c == [kind |-> role]
  <2>1. Transaction(Step(role)) = Create(c)
    BY <1>8, CreatesOf
  <2>2. NewOK(c)
    BY <1>8, PlainContracts
  <2> HIDE DEF c
  <2> QED
    BY <2>1, <2>2, CreateSend
<1> QED
  BY <1>1, <1>2, <1>3, <1>4, <1>5, <1>6, <1>7, <1>8

LEMMA PlanStepSvgs ==
    ASSUME site \in Sites, NEW j \in 1 .. Len(Plan)
    PROVE  Plan[j].svgs \in Seq(Contents) /\ Plan[j].svgs # <<>>
<1> DEFINE step == Plan[j]
           to == Cover[j]
           art == site.files
<1>1. /\ to \in Nat /\ to <= Len(art)
      /\ StepCovers(step, RoleBefore(Plan, j), Cover[j - 1], to, art)
  BY NextCovers
<1>2. art \in Seq(Contents) /\ Len(art) \in Nat
  BY PlanFacts
<1> HIDE DEF step, to, art
<1>3. CASE step.role = "storeSvgBatch"
  BY <1>1, <1>3 DEF StepCovers, step
<1>4. CASE step.role # "storeSvgBatch"
  <2>1. to >= 1 /\ step.svgs = <<art[to]>>
    BY <1>1, <1>4 DEF StepCovers
  <2>2. art[to] \in Contents
    BY <1>1, <1>2, <2>1
  <2> QED
    BY <2>1, <2>2 DEF step
<1> QED
  BY <1>3, <1>4

LEMMA CallIsOK ==
    ASSUME NEW to, NEW step, NEW arg, step.role \in CallRoles,
           step.role \in StorageRoles =>
              Is(to, "svgStorage") /\ step.svgs \in Seq(Contents) /\ step.svgs # <<>>,
           step.role \in RegistryRoles => Is(to, "layerRegistry"),
           step.role \in {"setAllowlistSigner", "setAuthorizedCaller"} => Is(to, "gate"),
           step.role \in {"deposit", "handleOps"} => Is(to, "paymaster"),
           step.role = "deposit" => arg = 1
    PROVE  CallOK(Call(to, step, arg)) /\ Call(to, step, arg).to = to
           /\ Call(to, step, arg).step = step
<1>1. /\ Call(to, step, arg).to = to /\ Call(to, step, arg).step = step
      /\ Call(to, step, arg).arg = arg
  BY DEF Call
<1> QED
  BY <1>1 DEF CallOK

LEMMA StarkSend ==
    ASSUME site \in Sites, ChainInv, IsSeq(job.todo), job.todo # <<>>, StarkJob,
           job.sent = Nowhere
    PROVE  SendOK(Transaction(Head(job.todo)))
<1> DEFINE A == Len(ArtSteps)
           P == Len(Plan)
           r == Received
           step == Head(job.todo)
           tx == Transaction(step)
<1>1. /\ r \in 0 .. Len(StarkSteps) - 1 /\ step = StarkSteps[r + 1]
      /\ Len(StarkSteps) = A + Rotations + 4 /\ P \in Nat /\ A \in Nat /\ Rotations \in {0, 1}
      /\ site.local => A = P + 5
      /\ ~site.local => A = 0
  BY StarkHead, StarkRoles DEF StarkJob
<1>2. \A i \in 1 .. A :
         /\ i = 1 => StepIs(StarkSteps[i], "svgStorage")
         /\ i = 2 => StepIs(StarkSteps[i], "layerRegistry")
         /\ i \in 3 .. P + 2 => /\ StarkSteps[i] = Plan[i - 2]
                                /\ StarkSteps[i].role \in StorageRoles
         /\ i = P + 3 => StepIs(StarkSteps[i], "registerLayers")
         /\ i = P + 4 => StepIs(StarkSteps[i], "registerAssets")
         /\ i = P + 5 => StepIs(StarkSteps[i], "registerVariants")
  BY StarkRoles
<1>3. /\ StepIs(StarkSteps[A + 1], "renderer") /\ StepIs(StarkSteps[A + 2], "gate")
      /\ Rotations = 1 => StepIs(StarkSteps[A + 3], "setAllowlistSigner")
      /\ StepIs(StarkSteps[A + Rotations + 3], "mint")
      /\ StepIs(StarkSteps[A + Rotations + 4], "web3")
  BY StarkRoles
<1>4. ASSUME site.local, r >= 2
      PROVE  /\ Is(At("svgStorage"), "svgStorage") /\ At("svgStorage") \in Addresses
             /\ Is(At("layerRegistry"), "layerRegistry") /\ At("layerRegistry") \in Addresses
  <2>1. ArtJob /\ r >= 1
    BY <1>1, <1>4 DEF StarkJob
  <2> QED
    BY <1>4, <2>1 DEF ArtJob, Addresses, At
<1>5. r >= A + 2 => Is(At("gate"), "gate") /\ At("gate") \in Addresses
  BY DEF StarkJob, GateJob, Addresses, At
<1>6. \A a, kind : Is(a, kind) => a \in DOMAIN world
  BY DEF Is
<1> HIDE DEF A, P, r, step, tx
<1>7. ASSUME \/ StepIs(step, "svgStorage") \/ StepIs(step, "layerRegistry")
             \/ StepIs(step, "renderer") \/ StepIs(step, "gate")
             \/ StepIs(step, "mint") \/ StepIs(step, "web3")
      PROVE  SendOK(tx)
  BY <1>7, CreateSteps DEF StepIs, tx
<1>8. ASSUME r \in 2 .. P + 1, r < A PROVE SendOK(tx)
  <2>1. r + 1 \in 1 .. A /\ r + 1 \in 3 .. P + 2 /\ r + 1 - 2 = r - 1 /\ r - 1 \in 1 .. P
        /\ r >= 2 /\ site.local
    BY <1>1, <1>8
  <2>2. step = Plan[r - 1] /\ step.role \in StorageRoles
    BY <1>1, <1>2, <2>1
  <2>3. step.svgs \in Seq(Contents) /\ step.svgs # <<>>
    BY <2>1, <2>2, PlanStepSvgs DEF P
  <2>4. tx = Call(At("svgStorage"), step, Nowhere)
    BY <2>2, TransactionOf DEF tx
  <2>5. CallOK(tx) /\ tx.to = At("svgStorage") /\ tx.step = step
    <3>1. /\ step.role \in CallRoles /\ step.role \notin RegistryRoles
          /\ step.role \notin {"setAllowlistSigner", "setAuthorizedCaller", "deposit", "handleOps"}
      BY <2>2 DEF CallRoles, StorageRoles, RegistryRoles
    <3> QED
      BY <1>4, <2>1, <2>2, <2>3, <2>4, <3>1, CallIsOK
  <2>6. step.role # "deposit"
    BY <2>2 DEF StorageRoles
  <2> QED
    BY <1>4, <1>6, <2>1, <2>5, <2>6, CallSend
<1>9. ASSUME \/ StepIs(step, "registerLayers") \/ StepIs(step, "registerAssets")
             \/ StepIs(step, "registerVariants"),
             site.local, r >= 2
      PROVE  SendOK(tx)
  <2>1. step.role \in RegistryRoles /\ step.role \in CallRoles /\ step.role \notin StorageRoles
        /\ step.role \notin {"setAllowlistSigner", "setAuthorizedCaller", "deposit", "handleOps"}
    BY <1>9 DEF StepIs, RegistryRoles, StorageRoles, CallRoles
  <2>2. \E arg : tx = Call(At("layerRegistry"), step, arg)
    BY <2>1, TransactionOf DEF RegistryRoles, tx
  <2>3. CallOK(tx) /\ tx.to = At("layerRegistry") /\ tx.step = step
    BY <1>4, <1>9, <2>1, <2>2, CallIsOK
  <2> QED
    BY <1>4, <1>6, <1>9, <2>1, <2>3, CallSend
<1>10. ASSUME StepIs(step, "setAllowlistSigner"), r >= A + 2 PROVE SendOK(tx)
  <2>1. step.role = "setAllowlistSigner"
    BY <1>10 DEF StepIs
  <2>2. tx = Call(At("gate"), step, env.allowlistSigner)
    BY <2>1, TransactionOf DEF tx
  <2>3. CallOK(tx) /\ tx.to = At("gate") /\ tx.step = step
    <3>1. step.role \in CallRoles /\ step.role \notin StorageRoles \cup RegistryRoles
      BY <2>1 DEF CallRoles, StorageRoles, RegistryRoles
    <3> QED
      BY <1>5, <1>10, <2>1, <2>2, <3>1, CallIsOK
  <2> QED
    BY <1>5, <1>6, <1>10, <2>1, <2>3, CallSend
<1>11. CASE r < A
  <2>1. site.local /\ A = P + 5 /\ r + 1 \in 1 .. A
    BY <1>1, <1>11
  <2>2. /\ r = 0 => StepIs(step, "svgStorage")
        /\ r = 1 => StepIs(step, "layerRegistry")
        /\ r = P + 2 => StepIs(step, "registerLayers")
        /\ r = P + 3 => StepIs(step, "registerAssets")
        /\ r = P + 4 => StepIs(step, "registerVariants")
    BY <1>1, <1>2, <2>1
  <2>3. r = 0 \/ r = 1 \/ r \in 2 .. P + 1 \/ r = P + 2 \/ r = P + 3 \/ r = P + 4
    BY <1>1, <2>1
  <2>4. r >= 2 \/ r = 0 \/ r = 1
    BY <1>1
  <2>5. r = P + 2 \/ r = P + 3 \/ r = P + 4 => r >= 2
    BY <1>1
  <2>6. SendOK(tx)
    BY <1>7, <1>8, <1>9, <1>11, <2>1, <2>2, <2>3, <2>5
  <2> QED
    BY <2>6 DEF tx, step
<1>12. CASE r >= A
  <2>1. /\ r = A => r + 1 = A + 1
        /\ r = A + 1 => r + 1 = A + 2
        /\ r = A + 2 => r + 1 = A + 3
        /\ r = A + Rotations + 2 => r + 1 = A + Rotations + 3
        /\ r = A + Rotations + 3 => r + 1 = A + Rotations + 4
        /\ \/ r = A \/ r = A + 1 \/ (Rotations = 1 /\ r = A + 2 /\ r >= A + 2)
           \/ r = A + Rotations + 2 \/ r = A + Rotations + 3
    BY <1>1, <1>12
  <2>2. \/ StepIs(step, "renderer") \/ StepIs(step, "gate")
        \/ StepIs(step, "setAllowlistSigner") /\ r >= A + 2
        \/ StepIs(step, "mint") \/ StepIs(step, "web3")
    BY <1>1, <1>3, <2>1, Zenon
  <2>3. SendOK(tx)
    BY <1>7, <1>10, <2>2
  <2> QED
    BY <2>3 DEF tx, step
<1>13. r < A \/ r >= A
  BY <1>1
<1> QED
  BY <1>11, <1>12, <1>13 DEF step, tx

LEMMA NothingPendsHere ==
    ASSUME ChainInv, OwnInv, job.sent = Nowhere, NEW a \in Addresses
    PROVE  DepositsTo(a) = {}
<1>1. nonce \in Nat /\ a \in 1 .. nonce
  BY DEF ChainInv, OwnInv
<1>2. \A n \in Pendings : n # Nowhere
  BY <1>1 DEF ChainInv, Pendings, Nowhere
<1>3. a # Nowhere
  BY <1>1 DEF Nowhere
<1> QED
  BY <1>2, <1>3 DEF DepositsTo, OwnInv

LEMMA AASend ==
    ASSUME ChainInv, FilesInv, OwnInv, AAJob, IsSeq(job.todo), job.todo # <<>>,
           job.sent = Nowhere, files.stark # NoStark, faults \in Nat
    PROVE  SendOK(Transaction(Head(job.todo)))
<1> DEFINE step == Head(job.todo)
           tx == Transaction(step)
<1>1. Left \in Nat /\ Left >= 1 /\ step = job.todo[1] /\ 1 \in 1 .. Left
  BY DEF Left, IsSeq
<1>2. IF Left - 1 < 6 THEN step = CoreSteps[6 - (Left - 1)]
      ELSE step \in {Step("entryPointMock"), Step("starknetCoreMock")}
  BY <1>1 DEF AAJob, AATodo
<1>3. Is(files.stark.gate, "gate")
  BY DEF FilesInv, StarkInv
<1>4. \A a, kind : Is(a, kind) => a \in DOMAIN world
  BY DEF Is
<1> HIDE DEF step, tx
<1>5. CASE Left > 6
  <2>1. step \in {Step("entryPointMock"), Step("starknetCoreMock")}
    BY <1>1, <1>2, <1>5
  <2>2. SendOK(tx)
    BY <2>1, CreateSteps DEF tx
  <2> QED
    BY <2>2 DEF step, tx
<1>6. CASE Left \in {6, 5, 4, 2}
  <2>1. /\ Left = 6 => step = CoreSteps[1]
        /\ Left = 5 => step = CoreSteps[2]
        /\ Left = 4 => step = CoreSteps[3]
        /\ Left = 2 => step = CoreSteps[5]
    BY <1>1, <1>2 DEF CoreSteps
  <2>2. step \in {Step("account"), Step("inbox"), Step("factory"), Step("paymaster")}
    BY <1>6, <2>1 DEF CoreSteps
  <2>3. SendOK(tx)
    BY <2>2, CreateSteps DEF tx
  <2> QED
    BY <2>3 DEF step, tx
<1>7. CASE Left = 3
  <2>1. step = Step("setAuthorizedCaller")
    BY <1>2, <1>7 DEF CoreSteps
  <2>2. step.role = "setAuthorizedCaller"
    BY <2>1 DEF Step
  <2>3. tx = Call(files.stark.gate, step, At("factory"))
    BY <2>2, TransactionOf DEF tx
  <2>4. CallOK(tx) /\ tx.to = files.stark.gate /\ tx.step = step
    <3>1. step.role \in CallRoles /\ step.role \notin StorageRoles \cup RegistryRoles
      BY <2>2 DEF CallRoles, SharedRoles, StorageRoles, RegistryRoles
    <3> QED
      BY <1>3, <2>2, <2>3, <3>1, CallIsOK
  <2>5. step.role \in SharedRoles
    BY <2>2 DEF SharedRoles
  <2>6. SendOK(tx)
    BY <1>3, <1>4, <2>2, <2>4, <2>5, CallSend
  <2> QED
    BY <2>6 DEF step, tx
<1>8. CASE Left = 1
  <2> DEFINE p == At("paymaster")
  <2>1. step = Step("deposit")
    BY <1>2, <1>8 DEF CoreSteps
  <2>2. step.role = "deposit" /\ step.role \in SharedRoles
    BY <2>1 DEF Step, SharedRoles
  <2>3. tx = Call(p, step, 1)
    BY <2>2, TransactionOf DEF tx
  <2>4. Is(p, "paymaster") /\ world[p].deposit = 0 /\ p \in Addresses
    BY <1>8 DEF AAJob, Addresses, At
  <2> HIDE DEF p
  <2>5. CallOK(tx) /\ tx.to = p /\ tx.step = step
    <3>1. step.role \in CallRoles /\ step.role \notin StorageRoles \cup RegistryRoles
      BY <2>2 DEF CallRoles, SharedRoles, StorageRoles, RegistryRoles
    <3> QED
      BY <2>2, <2>3, <2>4, <3>1, CallIsOK
  <2>6. DepositsTo(p) = {} /\ Cardinality(DepositsTo(p)) = 0
    BY <2>4, NothingPendsHere, FS_EmptySet
  <2>7. world[tx.to].deposit + Cardinality(DepositsTo(tx.to)) <= faults
    BY <2>4, <2>5, <2>6
  <2>8. SendOK(tx)
    BY <1>4, <2>2, <2>4, <2>5, <2>7, CallSend
  <2> QED
    BY <2>8 DEF step, tx
<1>9. Left > 6 \/ Left \in {6, 5, 4, 2} \/ Left = 3 \/ Left = 1
  BY <1>1
<1> QED
  BY <1>5, <1>6, <1>7, <1>8, <1>9

LEMMA PaymasterSend ==
    ASSUME ChainInv, FilesInv, files.aa # NoAA, NEW step, NEW arg,
           step.role \in {"deposit", "handleOps"},
           step.role = "deposit" =>
              /\ arg = 1
              /\ world[files.aa.paymaster].deposit
                    + Cardinality(DepositsTo(files.aa.paymaster)) <= faults
    PROVE  SendOK(Call(files.aa.paymaster, step, arg))
<1> DEFINE p == files.aa.paymaster
           tx == Call(p, step, arg)
<1>1. Is(p, "paymaster") /\ p \in DOMAIN world
  BY DEF FilesInv, AAInv, Is
<1>2. step.role \in CallRoles /\ step.role \notin StorageRoles \cup RegistryRoles
      /\ step.role \in SharedRoles
      /\ step.role \notin {"setAllowlistSigner", "setAuthorizedCaller"}
  BY DEF CallRoles, SharedRoles, StorageRoles, RegistryRoles
<1>3. step.role = "deposit" => arg = 1 /\ world[p].deposit + Cardinality(DepositsTo(p)) <= faults
  OBVIOUS
<1> HIDE DEF p, tx
<1>4. CallOK(tx) /\ tx.to = p /\ tx.step = step
  BY <1>1, <1>2, <1>3, CallIsOK DEF tx
<1>5. SendOK(tx)
  BY <1>1, <1>2, <1>3, <1>4, CallSend
<1> QED
  BY <1>5 DEF p, tx

LEMMA NextIsOK ==
    ASSUME LaunchInv, InScript, job.todo # <<>>, job.sent = Nowhere
    PROVE  SendOK(Transaction(Head(job.todo)))
<1>1. /\ ChainInv /\ FilesInv /\ site \in Sites /\ faults \in Nat /\ job # Idle /\ job.entered
      /\ JobShape /\ FoundInv /\ OwnInv /\ ScriptInv /\ IsSeq(job.todo)
  BY LaunchAssumption DEF LaunchInv, JobInv, InScript, JobShape
<1>2. CASE job.script = "stark"
  <2>1. StarkJob
    BY <1>1, <1>2 DEF FoundInv, ScriptInv, Reuses
  <2> QED
    BY <1>1, <2>1, StarkSend
<1>3. CASE job.script = "4337"
  <2>1. AAJob /\ files.stark # NoStark
    BY <1>1, <1>3 DEF FoundInv, ScriptInv, Reuses
  <2> QED
    BY <1>1, <2>1, AASend
<1>4. CASE job.script = "marketplace"
  <2>1. Head(job.todo) = Step("marketplace")
    BY <1>1, <1>4 DEF ScriptInv, MarketJob, MarketplaceSteps
  <2> QED
    BY <2>1, CreateSteps
<1>5. CASE job.script = "topUp"
  <2>1. Head(job.todo) = Step("topUp") /\ files.aa # NoAA
    BY <1>1, <1>5 DEF ScriptInv, TopUpJob, AlwaysTopUp, FoundInv
  <2>2. world[files.aa.paymaster].deposit + Cardinality(DepositsTo(files.aa.paymaster)) <= faults
    BY <1>1, <1>5 DEF ScriptInv, TopUpJob
  <2>3. Step("topUp").role = "topUp" /\ Step("deposit").role = "deposit"
    BY DEF Step
  <2>4. Transaction(Head(job.todo)) = Call(files.aa.paymaster, Step("deposit"), 1)
    BY <2>1, <2>3, TransactionOf
  <2>5. SendOK(Call(files.aa.paymaster, Step("deposit"), 1))
    BY <1>1, <2>1, <2>2, <2>3, PaymasterSend
  <2> QED
    BY <2>4, <2>5
<1>6. CASE job.script = "mintOne"
  <2>1. Head(job.todo) = Step("handleOps") /\ files.aa # NoAA
    BY <1>1, <1>6 DEF ScriptInv, MintSteps, FoundInv
  <2>2. Step("handleOps").role = "handleOps"
    BY DEF Step
  <2>3. Transaction(Head(job.todo)) = Call(files.aa.paymaster, Step("handleOps"), servers[8788])
    BY <2>1, <2>2, TransactionOf
  <2>4. SendOK(Call(files.aa.paymaster, Step("handleOps"), servers[8788]))
    BY <1>1, <2>1, <2>2, PaymasterSend
  <2> QED
    BY <2>3, <2>4
<1>7. job.script \notin {"verify", "backend"}
  BY <1>1 DEF FoundInv
<1> QED
  BY <1>1, <1>2, <1>3, <1>4, <1>5, <1>6, <1>7 DEF JobShape, Scripts

-----------------------------------------------------------------------------
(* The steps that mine nothing: the contracts stand, a transaction may be  *)
(* sent, servers may stop or start on a drop that works.                   *)
Stands == site' = site /\ nonce' = nonce /\ world' = world /\ reverted' = reverted
Sent(tx) == pool' = Append(pool, tx)
NewNumber == nonce + Len(pool) + 1

LEMMA SentFacts ==
    ASSUME ChainInv, Stands, NEW tx, Sent(tx)
    PROVE  /\ nonce \in Nat /\ Len(pool) \in Nat /\ NewNumber \in Nat /\ NewNumber > nonce
           /\ IsSeq(pool') /\ nonce' + Len(pool') = NewNumber
           /\ Pendings' = Pendings \cup {NewNumber} /\ NewNumber \notin Pendings
           /\ \A k \in Pendings : TxAt(k)' = TxAt(k)
           /\ \A n : n = NewNumber => TxAt(n)' = tx
<1>1. /\ IsSeq(pool) /\ nonce \in Nat /\ nonce' = nonce
      /\ Len(pool) \in Nat /\ DOMAIN pool = 1 .. Len(pool)
  BY IsSeqProperties DEF ChainInv, Stands
<1>2. /\ IsSeq(pool') /\ Len(pool') = Len(pool) + 1
      /\ \A i \in DOMAIN pool : pool'[i] = pool[i]
      /\ pool'[Len(pool) + 1] = tx
  BY <1>1, AppendIsSeq DEF Sent
<1>3. Pendings' = Pendings \cup {NewNumber} /\ NewNumber \notin Pendings
  BY <1>1, <1>2 DEF Pendings, NewNumber
<1>4. ASSUME NEW k \in Pendings PROVE TxAt(k)' = TxAt(k)
  <2>1. k - nonce \in DOMAIN pool
    BY <1>1, <1>4 DEF Pendings
  <2> QED
    BY <1>1, <1>2, <2>1 DEF TxAt
<1>5. ASSUME NEW n, n = NewNumber PROVE TxAt(n)' = tx
  <2>1. NewNumber - nonce = Len(pool) + 1
    BY <1>1 DEF NewNumber
  <2> QED
    BY <1>1, <1>2, <1>5, <2>1 DEF TxAt
<1> QED
  BY <1>1, <1>2, <1>3, <1>4, <1>5 DEF NewNumber

LEMMA PoolSame ==
    ASSUME Stands, pool' = pool
    PROVE  Pendings' = Pendings /\ \A k : TxAt(k)' = TxAt(k)
  BY DEF Stands, Pendings, TxAt

LEMMA TransactionsStand ==
    ASSUME Stands
    PROVE  \A tx : CallOK(tx) => CallOK(tx)'
  BY DEF Stands, CallOK, Is

LEMMA ChainSent ==
    ASSUME ChainInv, Stands, NEW tx, Sent(tx),
           tx.to = Nowhere => CreateOK(tx), tx.to # Nowhere => CallOK(tx)
    PROVE  ChainInv'
<1>1. /\ IsSeq(pool') /\ Pendings' = Pendings \cup {NewNumber}
      /\ \A k \in Pendings : TxAt(k)' = TxAt(k)
      /\ \A n : n = NewNumber => TxAt(n)' = tx
  BY SentFacts
<1>2. ASSUME NEW n \in Pendings'
      PROVE  IF TxAt(n)'.to = Nowhere THEN CreateOK(TxAt(n))' ELSE CallOK(TxAt(n))'
  <2>1. CASE n \in Pendings
    <3>1. /\ TxAt(n).to = Nowhere => CreateOK(TxAt(n))
          /\ TxAt(n).to # Nowhere => CallOK(TxAt(n))
      BY <2>1, PendingOK
    <3> QED
      BY <1>1, <2>1, <3>1 DEF Stands, CallOK, Is, CreateOK
  <2>2. CASE n = NewNumber
    <3>1. TxAt(n)' = tx
      BY <1>1, <2>2
    <3> QED
      BY <3>1 DEF Stands, CallOK, Is, CreateOK
  <2> QED
    BY <1>1, <1>2, <2>1, <2>2
<1> QED
  BY <1>1, <1>2 DEF ChainInv, Stands

LEMMA ChainStands ==
    ASSUME ChainInv, Stands, pool' = pool
    PROVE  ChainInv'
<1>1. Pendings' = Pendings /\ \A k : TxAt(k)' = TxAt(k)
  BY PoolSame
<1>2. ASSUME NEW n \in Pendings'
      PROVE  IF TxAt(n)'.to = Nowhere THEN CreateOK(TxAt(n))' ELSE CallOK(TxAt(n))'
  <2>1. IF TxAt(n).to = Nowhere THEN CreateOK(TxAt(n)) ELSE CallOK(TxAt(n))
    BY <1>1, <1>2 DEF ChainInv
  <2> QED
    BY <1>1, <2>1 DEF Stands, CallOK, Is, CreateOK
<1> QED
  BY <1>2 DEF ChainInv, Stands

LEMMA IsStands == ASSUME Stands PROVE \A a, kind : Is(a, kind)' <=> Is(a, kind)
  BY DEF Stands, Is

LEMMA ArtShownStands == ASSUME Stands PROVE \A r : ArtShown(r) => ArtShown(r)'
  BY DEF Stands, ArtShown, Readable, Known

LEMMA FilesStand ==
    ASSUME FilesInv, Stands, files' = files
    PROVE  FilesInv'
<1>1. StarkInv'
  <2> SUFFICES ASSUME files.stark # NoStark PROVE StarkInv'
    BY DEF StarkInv
  <2>1. StarkInv
    BY DEF FilesInv
  <2> QED
    BY <2>1, IsStands, ArtShownStands DEF StarkInv, Stands, NoTwins
<1>2. AAInv' /\ MarketInv'
  BY IsStands DEF FilesInv, AAInv, MarketInv, Stands
<1> QED
  BY <1>1, <1>2 DEF FilesInv

LEMMA ServerStands ==
    ASSUME Stands
    PROVE  \A d : ServerInv(d) => ServerInv(d)'
  BY DEF Stands, ServerInv, Is, DropHolds

LEMMA ServersStand ==
    ASSUME ServersInv, Stands, servers' = [port \in {8787, 8788} |-> servers'[port]],
           \A port \in {8787, 8788} : ServerInv(servers'[port])
    PROVE  ServersInv'
<1>1. ASSUME NEW port \in {8787, 8788} PROVE ServerInv(servers[port])'
  BY DEF Stands, ServerInv, Is, DropHolds
<1> QED
  BY <1>1 DEF ServersInv

(* A server that stops leaves nothing behind.                              *)
ServersStop ==
    /\ servers' = [port \in {8787, 8788} |-> servers'[port]]
    /\ \A port \in {8787, 8788} : servers'[port] \in {servers[port], NoServer}

LEMMA ServerStopped ==
    ASSUME ServersInv,
           servers' = servers \/ (\E port \in {8787, 8788} :
                                     servers' = [servers EXCEPT ![port] = NoServer])
    PROVE  ServersStop
  BY DEF ServersInv, ServersStop

LEMMA StoppedStand ==
    ASSUME ServersInv, Stands, ServersStop
    PROVE  ServersInv'
  BY ServersStand DEF ServersInv, ServersStop, ServerInv

LEMMA SettledOld ==
    ASSUME ChainInv, FilesInv, ServersInv
    PROVE  Settled \subseteq 0 .. nonce
<1>1. nonce \in Nat /\ DOMAIN world \subseteq 1 .. nonce /\ DOMAIN world \subseteq 0 .. nonce
      /\ Nowhere \in 0 .. nonce
  BY DEF ChainInv, Nowhere
<1>2. files.stark.gate \in 0 .. nonce /\ files.stark.registry \in 0 .. nonce
  BY <1>1 DEF FilesInv, StarkInv, Is, NoStark
<1>3. files.aa.gate \in 0 .. nonce
  BY <1>1 DEF FilesInv, AAInv, Is, NoAA
<1>4. \A port \in {8787, 8788} : servers[port].gate \in 0 .. nonce
  BY <1>1 DEF ServersInv, ServerInv, Is, NoServer
<1>5. files.stark.registry # Nowhere => world[files.stark.registry].storage \in 0 .. nonce
  BY <1>1, RegistryKind DEF FilesInv, StarkInv, Is
<1> QED
  BY <1>2, <1>3, <1>4, <1>5 DEF Settled

NoneSettles == Settled' \subseteq Settled \cup {Nowhere}

LEMMA SettledStands ==
    ASSUME Stands, files' = files,
           \A port \in {8787, 8788} : servers'[port].gate \in Settled \cup {Nowhere}
    PROVE  NoneSettles
<1>1. /\ {files'.stark.gate, files'.aa.gate, files'.stark.registry} \subseteq Settled
      /\ {world'[a].storage : a \in {files'.stark.registry} \ {Nowhere}} \subseteq Settled
  BY DEF Settled, Stands
<1> QED
  BY <1>1 DEF NoneSettles, Settled

LEMMA StoppedSettle ==
    ASSUME Stands, files' = files, ServersStop
    PROVE  NoneSettles
<1>1. \A port \in {8787, 8788} : servers'[port].gate \in Settled \cup {Nowhere}
  BY DEF ServersStop, Settled, NoServer
<1> QED
  BY <1>1, SettledStands

LEMMA PrivateStands ==
    ASSUME PrivateInv, Stands, pool' = pool, NoneSettles
    PROVE  PrivateInv'
<1>1. Pendings' = Pendings /\ \A k : TxAt(k)' = TxAt(k)
  BY PoolSame
<1> QED
  BY <1>1 DEF PrivateInv, Private, NoneSettles

LEMMA PrivateSent ==
    ASSUME ChainInv, PrivateInv, Stands, NEW tx, Sent(tx), NoneSettles,
           Private(tx) => tx.to \notin Settled
    PROVE  PrivateInv'
<1>1. /\ Pendings' = Pendings \cup {NewNumber}
      /\ \A k \in Pendings : TxAt(k)' = TxAt(k)
      /\ \A n : n = NewNumber => TxAt(n)' = tx
  BY SentFacts
<1>2. ASSUME NEW n \in Pendings', Private(TxAt(n))' PROVE TxAt(n)'.to \notin Settled'
  <2>1. CASE n \in Pendings
    BY <1>1, <1>2, <2>1 DEF PrivateInv, Private, NoneSettles
  <2>2. CASE n = NewNumber
    BY <1>1, <1>2, <2>2 DEF Private, NoneSettles
  <2> QED
    BY <1>1, <1>2, <2>1, <2>2
<1> QED
  BY <1>2 DEF PrivateInv

-----------------------------------------------------------------------------
(* Deposits, when nothing is mined.                                        *)
Waits == job # Idle /\ job.sent \in Pendings

LEMMA NotWaiting ==
    ASSUME ~Waits
    PROVE  \A a : OthersDepositsTo(a) = DepositsTo(a)
  BY DEF Waits, OthersDepositsTo, DepositsTo

LEMMA DepositsSame ==
    ASSUME Stands, pool' = pool
    PROVE  \A a : DepositsTo(a)' = DepositsTo(a)
<1>1. Pendings' = Pendings /\ \A k : TxAt(k)' = TxAt(k)
  BY PoolSame
<1> QED
  BY <1>1 DEF DepositsTo

LEMMA DepositStands ==
    ASSUME DepositInv, Stands, pool' = pool, faults' = faults, job' = job \/ (~Waits /\ ~Waits')
    PROVE  DepositInv'
<1>1. \A a : DepositsTo(a)' = DepositsTo(a)
  BY DepositsSame
<1>2. \A a : OthersDepositsTo(a)' = OthersDepositsTo(a)
  <2>1. CASE job' = job
    BY <1>1, <2>1 DEF OthersDepositsTo
  <2>2. CASE ~Waits /\ ~Waits'
    <3>1. \A a : OthersDepositsTo(a) = DepositsTo(a)
      BY <2>2, NotWaiting
    <3>2. \A a : OthersDepositsTo(a)' = DepositsTo(a)'
      BY <2>2 DEF Waits, OthersDepositsTo, DepositsTo
    <3> QED
      BY <1>1, <3>1, <3>2
  <2> QED
    BY <2>1, <2>2
<1> QED
  BY <1>1, <1>2 DEF DepositInv, Stands

LEMMA DepositInterrupted ==
    ASSUME ChainInv, DepositInv, Stands, pool' = pool, faults \in Nat, faults' = faults + 1,
           job' = Idle
    PROVE  DepositInv'
<1> SUFFICES ASSUME NEW a \in DOMAIN world, world[a].kind = "paymaster"
             PROVE  /\ world[a].deposit + Cardinality(DepositsTo(a)') <= 1 + (faults + 1)
                    /\ Cardinality(OthersDepositsTo(a)') <= faults + 1
  BY DEF DepositInv, Stands
<1> DEFINE D == DepositsTo(a)
           O == OthersDepositsTo(a)
<1>1. DepositsTo(a)' = D /\ OthersDepositsTo(a)' = D
  BY DepositsSame DEF OthersDepositsTo
<1>2. world[a].deposit + Cardinality(D) <= 1 + faults /\ Cardinality(O) <= faults
  BY DEF DepositInv
<1>3. world[a].deposit \in Nat
  BY ContractFields DEF ChainInv
<1>4. /\ IsFiniteSet(D) /\ IsFiniteSet(O) /\ Cardinality(D) \in Nat /\ Cardinality(O) \in Nat
  BY DepositsFinite
<1>5. Cardinality(D) <= Cardinality(O) + 1
  <2>1. O = D \/ O = D \ {job.sent}
    BY DEF OthersDepositsTo
  <2>2. CASE job.sent \in D /\ O = D \ {job.sent}
    <3>1. Cardinality(D \ {job.sent}) = Cardinality(D) - 1
      BY <1>4, <2>2, FS_RemoveElement
    <3> QED
      BY <1>4, <2>2, <3>1
  <2>3. CASE O = D
    BY <1>4, <2>3
  <2>4. job.sent \notin D => D \ {job.sent} = D
    OBVIOUS
  <2> QED
    BY <2>1, <2>2, <2>3, <2>4
<1> HIDE DEF D, O
<1> QED
  BY <1>1, <1>2, <1>3, <1>4, <1>5

LEMMA DepositsSent ==
    ASSUME ChainInv, Stands, NEW tx, Sent(tx), NEW a
    PROVE  DepositsTo(a)' =
              DepositsTo(a) \cup (IF tx.to = a /\ tx.step.role = "deposit" THEN {NewNumber} ELSE {})
<1>1. /\ Pendings' = Pendings \cup {NewNumber} /\ NewNumber \notin Pendings
      /\ \A k \in Pendings : TxAt(k)' = TxAt(k)
      /\ \A n : n = NewNumber => TxAt(n)' = tx
  BY SentFacts
<1>2. ASSUME NEW k \in Pendings'
      PROVE  k \in DepositsTo(a)' <=> TxAt(k)'.to = a /\ TxAt(k)'.step.role = "deposit"
  BY <1>2 DEF DepositsTo
<1>3. DepositsTo(a)' \subseteq Pendings' /\ DepositsTo(a) \subseteq Pendings
  BY DEF DepositsTo
<1>4. \A k \in Pendings : k \in DepositsTo(a)' <=> k \in DepositsTo(a)
  BY <1>1, <1>2 DEF DepositsTo
<1>5. NewNumber \in DepositsTo(a)' <=> tx.to = a /\ tx.step.role = "deposit"
  BY <1>1, <1>2
<1> QED
  BY <1>1, <1>3, <1>4, <1>5

-----------------------------------------------------------------------------
(* A script that ends, and the invariant's small change.                   *)
Bounds ==
    /\ site \in Sites /\ env \in Envs
    /\ runs \in 0 .. MaxRuns /\ faults \in 0 .. MaxFaults
    /\ last \in {"none", "done", "minted", "refused", "interrupted"}

LEMMA LaunchParts ==
    ASSUME LaunchInv
    PROVE  /\ ChainInv /\ PrivateInv /\ FilesInv /\ ServersInv /\ DepositInv /\ JobInv /\ Bounds
           /\ faults \in Nat /\ runs \in Nat
           /\ job # Idle => JobShape /\ FoundInv /\ job.sent \in Nat
           /\ job # Idle /\ job.entered => OwnInv /\ SentInv /\ ScriptInv
  BY LaunchAssumption DEF LaunchInv, JobInv, Bounds, JobShape

LEMMA EndStops ==
    ASSUME ServersInv, NEW outcome, End(outcome)
    PROVE  ServersStop /\ job' = Idle /\ last' = outcome
  BY ServerStopped DEF End

LEMMA EndInv ==
    ASSUME LaunchInv, ~Waits, NEW outcome \in {"done", "minted", "refused"}, End(outcome),
           UNCHANGED <<site, env, chainVars, files, runs, faults>>
    PROVE  LaunchInv'
<1>1. /\ ChainInv /\ PrivateInv /\ FilesInv /\ ServersInv /\ DepositInv /\ JobInv /\ Bounds
  BY LaunchParts
<1>2. Stands /\ pool' = pool /\ files' = files /\ faults' = faults
  BY DEF Stands, chainVars
<1>3. ServersStop /\ job' = Idle /\ last' = outcome
  BY <1>1, EndStops
<1>4. ~Waits'
  BY <1>3 DEF Waits
<1>5. ChainInv' /\ PrivateInv' /\ FilesInv' /\ ServersInv' /\ DepositInv'
  BY <1>1, <1>2, <1>3, <1>4, ChainStands, PrivateStands, StoppedSettle, FilesStand, StoppedStand,
     DepositStands
<1>6. JobInv'
  BY <1>3 DEF JobInv
<1> QED
  BY <1>1, <1>2, <1>3, <1>5, <1>6 DEF LaunchInv, Bounds

LEMMA InterruptInv ==
    ASSUME LaunchInv, NEW orphan, Interrupt(orphan)
    PROVE  LaunchInv'
<1>1. /\ ChainInv /\ PrivateInv /\ FilesInv /\ ServersInv /\ DepositInv /\ Bounds /\ faults \in Nat
  BY LaunchParts
<1>2. /\ Stands /\ pool' = pool /\ files' = files /\ faults' = faults + 1 /\ job' = Idle
      /\ faults < MaxFaults
  BY DEF Interrupt, Stands, chainVars
<1>3. ServersStop
  BY <1>1, ServerStopped DEF Interrupt
<1>4. ChainInv' /\ PrivateInv' /\ FilesInv' /\ ServersInv' /\ DepositInv'
  BY <1>1, <1>2, <1>3, ChainStands, PrivateStands, StoppedSettle, FilesStand, StoppedStand,
     DepositInterrupted
<1>5. JobInv'
  BY <1>2 DEF JobInv
<1>6. Bounds'
  BY <1>1, <1>2, LaunchAssumption DEF Bounds, Interrupt
<1> QED
  BY <1>4, <1>5, <1>6 DEF LaunchInv, Bounds

LEMMA StartRunInv ==
    ASSUME LaunchInv, NEW all \in BOOLEAN,
           NEW script \in {"stark", "4337", "marketplace", "verify"},
           NEW force \in BOOLEAN, NEW reuse \in BOOLEAN, StartRun(all, script, force, reuse)
    PROVE  LaunchInv'
<1>1. /\ ChainInv /\ PrivateInv /\ FilesInv /\ ServersInv /\ DepositInv /\ Bounds /\ runs \in Nat
  BY LaunchParts
<1>2. /\ Stands /\ pool' = pool /\ files' = files /\ faults' = faults /\ servers' = servers
      /\ job = Idle /\ job' = NewJob(all, script, force, reuse) /\ runs' = runs + 1
      /\ runs < MaxRuns
  BY DEF StartRun, Stands, chainVars
<1>3. /\ job'.sent = Nowhere /\ job'.todo = <<>> /\ job'.entered = FALSE
      /\ job'.script = script /\ job'.all = all /\ job'.ownBackend = FALSE
      /\ job'.next = Nowhere /\ job'.futureMint = Nowhere
  BY <1>2 DEF NewJob
<1>4. ServersStop
  BY <1>1, <1>2, ServerStopped
<1>5. ~Waits /\ ~Waits'
  <2>1. nonce' \in Nat /\ Nowhere \notin Pendings'
    BY <1>1, <1>2 DEF ChainInv, Stands, Pendings, Nowhere
  <2> QED
    BY <1>2, <1>3, <2>1 DEF Waits
<1>6. ChainInv' /\ PrivateInv' /\ FilesInv' /\ ServersInv' /\ DepositInv'
  BY <1>1, <1>2, <1>4, <1>5, ChainStands, PrivateStands, StoppedSettle, FilesStand, StoppedStand,
     DepositStands
<1>7. JobShape'
  <2>1. /\ job' = [script |-> job'.script, all |-> job'.all, entered |-> job'.entered,
              reuseStark |-> job'.reuseStark, reuse4337 |-> job'.reuse4337, todo |-> job'.todo,
              at |-> job'.at, sent |-> job'.sent, next |-> job'.next,
              futureMint |-> job'.futureMint, ownBackend |-> job'.ownBackend,
              fresh |-> job'.fresh]
    BY <1>2 DEF NewJob
  <2>2. IsSeq(<<>>)
    BY DEF IsSeq
  <2>3. 0 \in 0 .. nonce' + Len(pool')
    BY <1>1, <1>2, IsSeqProperties DEF ChainInv, Stands
  <2>4. /\ job'.script \in Scripts /\ job'.all \in BOOLEAN /\ job'.entered \in BOOLEAN
        /\ job'.ownBackend \in BOOLEAN /\ IsSeq(job'.todo)
    BY <1>3, <2>2, Zenon DEF Scripts
  <2>5. /\ job'.sent \in 0 .. nonce' + Len(pool') /\ job'.next \in Nat
        /\ job'.futureMint \in Nat
    BY <1>3, <2>3 DEF Nowhere
  <2> QED
    BY <2>1, <2>4, <2>5 DEF JobShape
<1>8. FoundInv'
  BY <1>3 DEF FoundInv
<1>9. JobInv'
  BY <1>3, <1>7, <1>8 DEF JobInv
<1>10. Bounds'
  BY <1>1, <1>2, LaunchAssumption DEF Bounds, StartRun
<1> QED
  BY <1>6, <1>9, <1>10 DEF LaunchInv, Bounds

LEMMA EditEnvInv ==
    ASSUME LaunchInv, NEW e \in Envs, EditEnv(e)
    PROVE  LaunchInv'
<1>1. /\ ChainInv /\ PrivateInv /\ FilesInv /\ ServersInv /\ DepositInv /\ Bounds
  BY LaunchParts
<1>2. /\ Stands /\ pool' = pool /\ files' = files /\ faults' = faults /\ servers' = servers
      /\ job = Idle /\ job' = job
  BY DEF EditEnv, Stands, chainVars
<1>3. ServersStop
  BY <1>1, <1>2, ServerStopped
<1>4. ChainInv' /\ PrivateInv' /\ FilesInv' /\ ServersInv' /\ DepositInv'
  BY <1>1, <1>2, <1>3, ChainStands, PrivateStands, StoppedSettle, FilesStand, StoppedStand,
     DepositStands
<1>5. JobInv' /\ Bounds'
  BY <1>1, <1>2 DEF JobInv, Bounds, EditEnv
<1> QED
  BY <1>4, <1>5 DEF LaunchInv, Bounds

-----------------------------------------------------------------------------
(* Whatever else happens while a script runs.                              *)
JobFields ==
    /\ JobKept /\ job'.all = job.all /\ job'.entered = job.entered
    /\ job'.reuseStark = job.reuseStark /\ job'.reuse4337 = job.reuse4337
    /\ job'.ownBackend = job.ownBackend
PoolKept ==
    /\ Pendings \subseteq Pendings'
    /\ \A k \in Pendings : TxAt(k)' = TxAt(k)
    /\ \A k \in Pendings' \ Pendings : TxAt(k)'.to = Nowhere /\ k > nonce + Len(pool)

LEMMA PoolSameKept ==
    ASSUME Stands, pool' = pool
    PROVE  PoolKept
  BY PoolSame DEF PoolKept

LEMMA CreateSentKept ==
    ASSUME ChainInv, Stands, NEW tx, Sent(tx), tx.to = Nowhere
    PROVE  PoolKept
<1>1. nonce \in Nat /\ Len(pool) \in Nat
  BY SentFacts
<1> QED
  BY <1>1, SentFacts DEF PoolKept, NewNumber

LEMMA OwnStands ==
    ASSUME ChainInv, OwnInv, Stands, JobFields, PoolKept, NoneSettles
    PROVE  OwnInv'
<1>1. Addresses' = Addresses /\ job'.sent = job.sent /\ nonce' = nonce /\ nonce \in Nat
  BY DEF Addresses, JobFields, JobKept, Stands, ChainInv
<1>2. Addresses \subseteq (1 .. nonce) \ Settled'
  BY <1>1 DEF OwnInv, NoneSettles, Nowhere
<1>3. job.sent # Nowhere => job.sent \notin Settled'
  BY DEF OwnInv, NoneSettles
<1>4. ASSUME NEW n \in Pendings', TxAt(n)'.to # Nowhere
      PROVE  TxAt(n)'.to # job.sent /\ (TxAt(n)'.to \in Addresses => n = job.sent)
  BY <1>4 DEF OwnInv, PoolKept
<1> QED
  BY <1>1, <1>2, <1>3, <1>4 DEF OwnInv

LEMMA SentStands ==
    ASSUME ChainInv, SentInv, JobShape, Stands, Around, JobFields, PoolKept,
           servers'[8788] = servers[8788]
    PROVE  SentInv'
<1> DEFINE tx == Transaction(Head(job.todo))
<1>1. /\ job'.sent = job.sent /\ job'.next = job.next /\ job'.todo = job.todo
      /\ job'.at = job.at /\ job'.futureMint = job.futureMint
  BY DEF JobFields, JobKept
<1>2. Transaction(Head(job.todo))' = tx
  BY <1>1, TransactionStays
<1>3. Mined' <=> Mined
  BY <1>1 DEF Mined, Stands
<1>4. job.sent \in Pendings' => job.sent \in Pendings /\ TxAt(job.sent)' = TxAt(job.sent)
  <2>1. job.sent \in 0 .. nonce + Len(pool) /\ nonce \in Nat /\ Len(pool) \in Nat
    BY IsSeqProperties DEF JobShape, ChainInv
  <2>2. ~(job.sent > nonce + Len(pool))
    BY <2>1
  <2>3. \A k : k \in Pendings' /\ ~(k > nonce + Len(pool)) => k \in Pendings /\ TxAt(k)' = TxAt(k)
    BY DEF PoolKept
  <2>4. \A k : k = job.sent /\ k \in Pendings' => k \in Pendings /\ TxAt(k)' = TxAt(k)
    BY <2>2, <2>3
  <2> QED
    BY <1>1, <2>4 DEF TxAt
<1> HIDE DEF tx
<1>5. \A t : t = tx /\ job.sent # Nowhere =>
         /\ job.next = job.sent + 1
         /\ job.sent \in Pendings => TxAt(job.sent) = t
         /\ Mined /\ t.to = Nowhere => /\ job.sent \in DOMAIN world
                                       /\ world[job.sent] = t.contract
  BY DEF SentInv, tx
<1> QED
  BY <1>1, <1>2, <1>3, <1>4, <1>5 DEF SentInv, Stands, TxAt

LEMMA ScriptStands ==
    ASSUME ChainInv, FilesInv, FoundInv, JobShape, ScriptInv, site \in Sites, faults \in Nat,
           Stands, Around, JobFields, PoolKept, faults' >= faults, faults' \in Nat, job.entered
    PROVE  ScriptInv'
<1>1. JobKept /\ Grown
  BY KeptAsItIs DEF JobFields, Stands, Grown
<1>2. /\ nonce \in Nat /\ nonce' = nonce /\ nonce <= nonce' /\ job.futureMint \in Nat
      /\ world' = world /\ (Mined' <=> Mined)
  BY <1>1 DEF ChainInv, Stands, JobShape, Mined, JobKept
<1>3. job.script = "stark" /\ ~job.reuseStark => StarkJob'
  <2> SUFFICES ASSUME StarkJob PROVE StarkJob'
    BY DEF ScriptInv
  <2>1. StarkTodo /\ (site.local => ArtJob) /\ ForetellJob /\ GateJob /\ MintJob
    BY DEF StarkJob
  <2>2. StarkTodo' /\ MintJob' /\ ForetellJob' /\ GateJob'
    BY <1>1, <1>2, <2>1, StarkTodoFrame, MintFrame, ForetellFrame, GateFrame
  <2>3. site.local => ArtJob'
    BY <1>1, <1>2, <2>1, ArtFrame
  <2> QED
    BY <2>2, <2>3 DEF StarkJob, Around
<1>4. job.script = "4337" /\ ~job.reuse4337 => AAJob'
  <2> SUFFICES ASSUME AAJob, job.script = "4337" PROVE AAJob'
    BY DEF ScriptInv
  <2>1. Is(files.stark.gate, "gate")
    BY DEF FoundInv, FilesInv, StarkInv
  <2> QED
    BY <1>1, <1>2, <2>1, AAFrame
<1>5. job.script = "marketplace" => MarketJob'
  BY <1>1, MarketFrame DEF ScriptInv
<1>6. job.script = "topUp" => TopUpJob'
  <2> SUFFICES ASSUME TopUpJob, job.script = "topUp" PROVE TopUpJob'
    BY DEF ScriptInv
  <2> DEFINE p == files.aa.paymaster
  <2>1. Is(p, "paymaster") /\ p # Nowhere
    BY DEF FoundInv, FilesInv, AAInv, Is, ChainInv, Nowhere
  <2>2. p' = p
    BY DEF Around
  <2> HIDE DEF p
  <2>3. DepositsTo(p)' = DepositsTo(p)
    <3>1. \A k \in Pendings' : TxAt(k)'.to = p => k \in Pendings /\ TxAt(k)' = TxAt(k)
      BY <2>1 DEF PoolKept
    <3>2. \A k \in Pendings : k \in Pendings' /\ TxAt(k)' = TxAt(k)
      BY DEF PoolKept
    <3> QED
      BY <2>2, <3>1, <3>2 DEF DepositsTo
  <2>4. world[p].deposit \in Nat /\ Cardinality(DepositsTo(p)) \in Nat
    BY <2>1, ContractFields, DepositsFinite DEF ChainInv, Is
  <2>5. job.todo # <<>> /\ job.sent = Nowhere =>
           world[p].deposit + Cardinality(DepositsTo(p)) <= faults
    BY DEF TopUpJob, p
  <2>6. job.todo # <<>> /\ job.sent = Nowhere =>
           world[p].deposit + Cardinality(DepositsTo(p)) <= faults'
    BY <2>4, <2>5
  <2> QED
    BY <1>1, <1>2, <2>2, <2>3, <2>6 DEF TopUpJob, JobKept, p
<1> QED
  BY <1>1, <1>3, <1>4, <1>5, <1>6 DEF ScriptInv, JobFields, JobKept

LEMMA JobStands ==
    ASSUME LaunchInv, Stands, Around, JobFields, PoolKept, NoneSettles, JobShape',
           faults' >= faults, faults' \in Nat, job # Idle,
           servers'[8788] = servers[8788]
    PROVE  JobInv'
<1>1. /\ ChainInv /\ FilesInv /\ Bounds /\ faults \in Nat /\ JobShape /\ FoundInv
      /\ job.entered => OwnInv /\ SentInv /\ ScriptInv
  BY LaunchParts
<1>2. FoundInv'
  BY <1>1 DEF FoundInv, JobFields, JobKept, Around, Reuses
<1>3. job.entered => OwnInv' /\ SentInv' /\ ScriptInv'
  BY <1>1, OwnStands, SentStands, ScriptStands DEF Bounds
<1> QED
  BY <1>2, <1>3 DEF JobInv, JobFields

LEMMA ServerOpsInv ==
    ASSUME LaunchInv, Stands, pool' = pool, job' = job, files' = files,
           UNCHANGED <<env, last, runs, faults>>,
           ServersInv', NoneSettles, servers'[8788] = servers[8788] \/ job = Idle
    PROVE  LaunchInv'
<1>1. /\ ChainInv /\ PrivateInv /\ FilesInv /\ DepositInv /\ JobInv /\ Bounds /\ faults \in Nat
      /\ job # Idle => JobShape
  BY LaunchParts
<1>2. ChainInv' /\ PrivateInv' /\ FilesInv' /\ DepositInv'
  BY <1>1, ChainStands, PrivateStands, FilesStand, DepositStands
<1>3. JobInv'
  <2> SUFFICES ASSUME job # Idle PROVE JobInv'
    BY DEF JobInv
  <2>1. JobFields /\ Around /\ PoolKept
    BY PoolSameKept DEF JobFields, JobKept, Around, Stands
  <2>2. JobShape'
    BY <1>1 DEF JobShape, Stands
  <2>3. faults' >= faults /\ faults' \in Nat
    BY <1>1
  <2> QED
    BY <2>1, <2>2, <2>3, JobStands
<1>4. Bounds'
  BY <1>1 DEF Bounds, Stands
<1> QED
  BY <1>2, <1>3, <1>4 DEF LaunchInv, Bounds

LEMMA BootedWorks ==
    ASSUME ChainInv, FilesInv, BootAccepts(Configured)
    PROVE  /\ ServerInv(Configured) /\ Configured # NoServer
           /\ Configured.gate \in Settled
<1> DEFINE d == Configured
<1>1. /\ d.gate = files.stark.gate /\ d.mint = files.stark.mint
      /\ d.factory = files.aa.factory /\ d.paymaster = files.aa.paymaster
  BY DEF Configured
<1>2. files.stark # NoStark /\ files.aa # NoAA /\ StarkInv /\ AAInv
  BY DEF BootAccepts, FilesInv
<1>3. /\ Is(d.gate, "gate") /\ Is(d.mint, "mint") /\ Is(d.factory, "factory")
      /\ Is(d.paymaster, "paymaster") /\ world[d.mint].gate = d.gate
  BY <1>1, <1>2 DEF StarkInv, AAInv
<1>4. /\ world[d.gate].signer = d.allowlistKey
      /\ world[d.factory].gate = d.gate /\ world[d.factory].mint = d.mint
      /\ {d.mint, d.factory} \subseteq world[d.gate].callers
      /\ world[d.paymaster].signer = d.paymasterKey /\ world[d.paymaster].mint = d.mint
  BY DEF BootAccepts
<1> HIDE DEF d
<1>5. DropHolds(d) /\ ServerInv(d)
  BY <1>3, <1>4 DEF DropHolds, ServerInv, Is
<1>6. d # NoServer
  <2>1. d.gate # Nowhere
    BY <1>3 DEF Is, ChainInv, Nowhere
  <2> QED
    BY <2>1 DEF NoServer
<1>7. d.gate \in Settled
  BY <1>1 DEF Settled
<1> QED
  BY <1>5, <1>6, <1>7 DEF d

Put(f, q, v) == [f EXCEPT ![q] = v]

LEMMA PutFacts ==
    ASSUME NEW ports, NEW f, f = [p \in ports |-> f[p]], NEW q \in ports, NEW v
    PROVE  /\ Put(f, q, v) = [p \in ports |-> Put(f, q, v)[p]] /\ Put(f, q, v)[q] = v
           /\ \A p \in ports : p # q => Put(f, q, v)[p] = f[p]
<1> DEFINE g == Put(f, q, v)
<1>1. DOMAIN f = ports
  OBVIOUS
<1>2. DOMAIN g = ports /\ g = [p \in ports |-> IF p = q THEN v ELSE f[p]]
  BY <1>1 DEF Put
<1> QED
  BY <1>2

LEMMA PortChanged ==
    ASSUME ServersInv, NEW port \in {8787, 8788}, NEW v, servers' = Put(servers, port, v)
    PROVE  /\ servers' = [p \in {8787, 8788} |-> servers'[p]] /\ servers'[port] = v
           /\ \A p \in {8787, 8788} : p # port => servers'[p] = servers[p]
<1> DEFINE ports == {8787, 8788}
<1>1. servers = [p \in ports |-> servers[p]] /\ port \in ports
  BY DEF ServersInv
<1> HIDE DEF ports
<1>2. /\ servers' = [p \in ports |-> servers'[p]] /\ servers'[port] = v
      /\ \A p \in ports : p # port => servers'[p] = servers[p]
  BY <1>1, PutFacts
<1> QED
  BY <1>2 DEF ports

LEMMA StartServerInv ==
    ASSUME LaunchInv, StartServer
    PROVE  LaunchInv'
<1>1. /\ ChainInv /\ FilesInv /\ ServersInv
  BY LaunchParts
<1>2. /\ Stands /\ pool' = pool /\ job' = job /\ files' = files /\ BootAccepts(Configured)
      /\ UNCHANGED <<env, last, runs, faults>>
      /\ servers' = [servers EXCEPT ![8787] = Configured]
  BY DEF StartServer, Stands, chainVars
<1>3. /\ servers' = [port \in {8787, 8788} |-> servers'[port]]
      /\ servers'[8787] = Configured /\ servers'[8788] = servers[8788]
  <2>1. servers' = Put(servers, 8787, Configured)
    BY <1>2 DEF Put
  <2> QED
    BY <1>1, <2>1, PortChanged
<1>4. ServerInv(Configured) /\ Configured.gate \in Settled
  BY <1>1, <1>2, BootedWorks
<1>5. ServersInv'
  <2>1. \A port \in {8787, 8788} : ServerInv(servers'[port])
    BY <1>1, <1>3, <1>4 DEF ServersInv
  <2> QED
    BY <1>1, <1>2, <1>3, <2>1, ServersStand
<1>6. NoneSettles
  <2>1. servers[8788].gate \in Settled
    BY DEF Settled
  <2>2. \A port \in {8787, 8788} : servers'[port].gate \in Settled \cup {Nowhere}
    BY <1>3, <1>4, <2>1
  <2> QED
    BY <1>2, <2>2, SettledStands
<1> QED
  BY <1>2, <1>3, <1>5, <1>6, ServerOpsInv

LEMMA StopServerInv ==
    ASSUME LaunchInv, NEW port \in {8787, 8788}, StopServer(port)
    PROVE  LaunchInv'
<1>1. ServersInv
  BY LaunchParts
<1>2. /\ Stands /\ pool' = pool /\ job' = job /\ files' = files
      /\ UNCHANGED <<env, last, runs, faults>>
      /\ servers' = [servers EXCEPT ![port] = NoServer]
      /\ port = 8788 => job = Idle
  BY DEF StopServer, Stands, chainVars
<1>3. ServersStop
  <2>1. servers' = Put(servers, port, NoServer)
    BY <1>2 DEF Put
  <2>2. /\ servers' = [p \in {8787, 8788} |-> servers'[p]] /\ servers'[port] = NoServer
        /\ \A p \in {8787, 8788} : p # port => servers'[p] = servers[p]
    BY <1>1, <2>1, PortChanged
  <2> QED
    BY <2>2 DEF ServersStop
<1>4. servers'[8788] = servers[8788] \/ job = Idle
  BY <1>1, <1>2 DEF ServersInv
<1>5. ServersInv' /\ NoneSettles
  BY <1>1, <1>2, <1>3, StoppedStand, StoppedSettle
<1> QED
  BY <1>2, <1>4, <1>5, ServerOpsInv

-----------------------------------------------------------------------------
(* A transaction that is sent, by the script or behind its back.           *)
LEMMA OtherTxInv ==
    ASSUME LaunchInv, OtherTx
    PROVE  LaunchInv'
<1> DEFINE tx == Create([kind |-> "none"])
<1>1. /\ ChainInv /\ PrivateInv /\ FilesInv /\ ServersInv /\ DepositInv /\ JobInv /\ Bounds
      /\ faults \in Nat /\ (job # Idle => JobShape)
  BY LaunchParts
<1>2. /\ Stands /\ Sent(tx) /\ files' = files /\ servers' = servers /\ env' = env
      /\ faults' = faults + 1 /\ faults < MaxFaults
      /\ job' = IF job = Idle THEN job ELSE [job EXCEPT !.fresh = FALSE]
  BY DEF OtherTx, Stands, Sent
<1>3. tx.to = Nowhere /\ CreateOK(tx) /\ ~Private(tx)
  BY PlainContracts DEF Create, CreateOK, NewOK, Private
<1> HIDE DEF tx
<1>4. NoneSettles
  BY <1>2, SettledStands DEF Settled
<1>5. ChainInv' /\ PrivateInv'
  BY <1>1, <1>2, <1>3, <1>4, ChainSent, PrivateSent
<1>6. FilesInv' /\ ServersInv'
  <2>1. ServersStop
    BY <1>1, <1>2, ServerStopped
  <2> QED
    BY <1>1, <1>2, <2>1, FilesStand, StoppedStand
<1>7. job # Idle => /\ JobFields /\ job' # Idle /\ JobShape'
  <2> SUFFICES ASSUME job # Idle PROVE JobFields /\ job' # Idle /\ JobShape'
    OBVIOUS
  <2>1. JobShape
    BY <1>1
  <2>2. /\ JobFields
        /\ job' = [script |-> job'.script, all |-> job'.all, entered |-> job'.entered,
              reuseStark |-> job'.reuseStark, reuse4337 |-> job'.reuse4337, todo |-> job'.todo,
              at |-> job'.at, sent |-> job'.sent, next |-> job'.next,
              futureMint |-> job'.futureMint, ownBackend |-> job'.ownBackend,
              fresh |-> job'.fresh]
    BY <1>2, <2>1 DEF JobShape, JobFields, JobKept
  <2>3. job.sent \in 0 .. nonce' + Len(pool')
    <3>1. /\ nonce \in Nat /\ Len(pool) \in Nat
          /\ nonce' + Len(pool') = nonce + Len(pool) + 1
      BY <1>1, <1>2, SentFacts DEF NewNumber
    <3> QED
      BY <2>1, <3>1 DEF JobShape
  <2>4. JobShape'
    BY <2>1, <2>2, <2>3 DEF JobShape, JobFields, JobKept
  <2>5. job' # Idle
    <3>1. job'.script # "none"
      BY <2>4 DEF JobShape, Scripts
    <3> QED
      BY <3>1 DEF Idle
  <2> QED
    BY <2>2, <2>4, <2>5
<1>8. DepositInv'
  <2>1. ASSUME NEW a \in DOMAIN world
        PROVE  DepositsTo(a)' = DepositsTo(a) /\ OthersDepositsTo(a)' = OthersDepositsTo(a)
    <3>1. a # Nowhere
      BY <1>1 DEF ChainInv, Nowhere
    <3>2. DepositsTo(a)' = DepositsTo(a)
      BY <1>1, <1>2, <1>3, <3>1, DepositsSent
    <3>3. job' = Idle <=> job = Idle
      BY <1>2, <1>7
    <3>4. job # Idle => job'.sent = job.sent
      BY <1>7 DEF JobFields, JobKept
    <3> QED
      BY <3>2, <3>3, <3>4 DEF OthersDepositsTo
  <2>2. ASSUME NEW a \in DOMAIN world, world[a].kind = "paymaster"
        PROVE  /\ world[a].deposit + Cardinality(DepositsTo(a)) <= 1 + (faults + 1)
               /\ Cardinality(OthersDepositsTo(a)) <= faults + 1
    <3>1. /\ world[a].deposit \in Nat /\ Cardinality(DepositsTo(a)) \in Nat
          /\ Cardinality(OthersDepositsTo(a)) \in Nat
      BY <1>1, <2>2, ContractFields, DepositsFinite DEF ChainInv
    <3>2. /\ world[a].deposit + Cardinality(DepositsTo(a)) <= 1 + faults
          /\ Cardinality(OthersDepositsTo(a)) <= faults
      BY <1>1, <2>2 DEF DepositInv
    <3> QED
      BY <1>1, <3>1, <3>2
  <2> QED
    BY <1>2, <2>1, <2>2 DEF DepositInv, Stands
<1>9. JobInv'
  <2>1. CASE job = Idle
    BY <1>2, <2>1 DEF JobInv
  <2>2. CASE job # Idle
    <3>1. Around /\ PoolKept
      BY <1>1, <1>2, <1>3, CreateSentKept DEF Around, Stands
    <3>2. faults' >= faults /\ faults' \in Nat
      BY <1>1, <1>2
    <3> QED
      BY <1>2, <1>4, <1>7, <2>2, <3>1, <3>2, JobStands
  <2> QED
    BY <2>1, <2>2
<1>10. Bounds'
  BY <1>1, <1>2, LaunchAssumption DEF Bounds, OtherTx
<1> QED
  BY <1>5, <1>6, <1>8, <1>9, <1>10 DEF LaunchInv, Bounds

(* What the script itself sends.                                           *)
Submits ==
    /\ Stands /\ files' = files /\ servers' = servers /\ env' = env /\ faults' = faults
    /\ Sent(Transaction(Head(job.todo))) /\ NextNonce = NewNumber
    /\ job' = [job EXCEPT !.sent = NewNumber, !.next = NewNumber + 1]

SubmittedFields ==
    /\ job'.script = job.script /\ job'.all = job.all /\ job'.entered = job.entered
    /\ job'.reuseStark = job.reuseStark /\ job'.reuse4337 = job.reuse4337
    /\ job'.todo = job.todo /\ job'.at = job.at /\ job'.futureMint = job.futureMint
    /\ job'.ownBackend = job.ownBackend
    /\ job'.sent = NewNumber /\ job'.next = NewNumber + 1
    /\ job' = [script |-> job'.script, all |-> job'.all, entered |-> job'.entered,
              reuseStark |-> job'.reuseStark, reuse4337 |-> job'.reuse4337, todo |-> job'.todo,
              at |-> job'.at, sent |-> job'.sent, next |-> job'.next,
              futureMint |-> job'.futureMint, ownBackend |-> job'.ownBackend,
              fresh |-> job'.fresh]

LEMMA Submitted ==
    ASSUME JobShape, Submits
    PROVE  SubmittedFields
  BY DEF JobShape, Submits, SubmittedFields

LEMMA SubmitShape ==
    ASSUME ChainInv, JobShape, FoundInv, Submits, job.todo # <<>>, job.entered
    PROVE  JobShape' /\ FoundInv'
<1>1. SubmittedFields
  BY Submitted
<1>2. NewNumber \in Nat /\ nonce' + Len(pool') = NewNumber
  BY SentFacts DEF Submits
<1>3. JobShape'
  <2>1. NewNumber \in 0 .. nonce' + Len(pool') /\ NewNumber + 1 \in Nat
    BY <1>2
  <2> QED
    BY <1>1, <2>1 DEF JobShape, SubmittedFields
<1>4. FoundInv'
  BY <1>1 DEF FoundInv, SubmittedFields, Submits, Reuses
<1> QED
  BY <1>3, <1>4

LEMMA SubmitOwn ==
    ASSUME ChainInv, FilesInv, ServersInv, OwnInv, JobShape, Submits, job.sent = Nowhere,
           SendOK(Transaction(Head(job.todo)))
    PROVE  OwnInv'
<1> DEFINE tx == Transaction(Head(job.todo))
<1>1. SubmittedFields /\ Stands /\ Sent(tx) /\ SendOK(tx)
  BY Submitted DEF Submits
<1> HIDE DEF tx
<1>2. /\ nonce \in Nat /\ NewNumber \in Nat /\ NewNumber > nonce
      /\ Pendings' = Pendings \cup {NewNumber}
      /\ \A k \in Pendings : TxAt(k)' = TxAt(k) /\ k # Nowhere
      /\ \A n : n = NewNumber => TxAt(n)' = tx
  <2>1. nonce \in Nat /\ \A k \in Pendings : k # Nowhere
    BY DEF ChainInv, Pendings, Nowhere
  <2> QED
    BY <1>1, <2>1, SentFacts
<1>3. Settled' = Settled /\ Addresses' = Addresses /\ nonce' = nonce
  BY <1>1 DEF Settled, Addresses, Submits, Stands, SubmittedFields
<1>4. NewNumber \notin Settled
  <2>1. Settled \subseteq 0 .. nonce
    BY SettledOld
  <2> QED
    BY <1>2, <2>1
<1>5. DOMAIN world \subseteq 1 .. nonce /\ NewNumber \notin 1 .. nonce
  BY <1>2 DEF ChainInv
<1>6. ASSUME NEW n \in Pendings', TxAt(n)'.to # Nowhere
      PROVE  TxAt(n)'.to # NewNumber /\ (TxAt(n)'.to \in Addresses => n = NewNumber)
  <2>1. CASE n \in Pendings
    <3>1. TxAt(n)' = TxAt(n) /\ n # Nowhere
      BY <1>2, <2>1
    <3>2. TxAt(n).to \in DOMAIN world
      BY <1>6, <2>1, <3>1, PendingOK
    <3>3. TxAt(n).to \notin Addresses
      BY <1>6, <2>1, <3>1 DEF OwnInv
    <3> QED
      BY <1>5, <3>1, <3>2, <3>3
  <2>2. CASE n = NewNumber
    <3>1. TxAt(n)' = tx
      BY <1>2, <2>2
    <3>2. tx.to \in DOMAIN world
      BY <1>1, <1>6, <3>1 DEF SendOK
    <3> QED
      BY <1>5, <2>2, <3>1, <3>2
  <2> QED
    BY <1>2, <1>6, <2>1, <2>2
<1> QED
  BY <1>1, <1>3, <1>4, <1>6 DEF OwnInv, SubmittedFields

LEMMA SubmitSent ==
    ASSUME ChainInv, JobShape, Submits
    PROVE  SentInv' /\ ~Mined'
<1> DEFINE tx == Transaction(Head(job.todo))
<1>1. SubmittedFields /\ Stands /\ Sent(tx)
  BY Submitted DEF Submits
<1>2. Transaction(Head(job.todo))' = tx
  <2>1. Around /\ servers'[8788] = servers[8788]
    BY DEF Submits, Around, Stands
  <2> QED
    BY <1>1, <2>1, TransactionStays DEF SubmittedFields
<1> HIDE DEF tx
<1>3. /\ NewNumber \in Nat /\ NewNumber > nonce /\ nonce' = nonce /\ nonce \in Nat
      /\ \A n : n = NewNumber => TxAt(n)' = tx
  BY <1>1, SentFacts DEF Stands
<1>4. job'.sent = NewNumber /\ job'.next = NewNumber + 1 /\ job'.todo = job.todo
  BY <1>1 DEF SubmittedFields
<1>5. ~Mined'
  <2>1. ~(NewNumber <= nonce)
    BY <1>3
  <2> QED
    BY <1>3, <1>4, <2>1 DEF Mined
<1>6. TxAt(job.sent)' = tx
  BY <1>3, <1>4 DEF TxAt
<1> QED
  BY <1>2, <1>4, <1>5, <1>6 DEF SentInv

LEMMA SubmitForetell ==
    ASSUME site \in Sites, ChainInv, StarkTodo, ForetellJob, Submits, SubmittedFields,
           JobShape, job.sent = Nowhere, job.script = "stark", Received' = Received,
           ArtSteps' = ArtSteps, Rotations' = Rotations
    PROVE  ForetellJob'
<1> DEFINE A == Len(ArtSteps)
           before == A + 2 + Rotations - Received
<1>1. A \in Nat /\ Rotations \in {0, 1} /\ Received \in Nat /\ before \in Int
  BY StarkRoles DEF StarkTodo
<1>2. /\ nonce \in Nat /\ Len(pool) \in Nat /\ NewNumber = nonce + Len(pool) + 1
      /\ NewNumber # Nowhere /\ job.next \in Nat /\ job.futureMint \in Nat
  BY IsSeqProperties DEF ChainInv, NewNumber, Nowhere, JobShape
<1>3. job.next # Nowhere => job.next = NewNumber
  BY DEF Submits, NextNonce
<1>4. /\ Received = A + 1 => /\ job.next # Nowhere /\ job.next + before <= job.futureMint
                             /\ job.futureMint <= nonce + 1 + before
      /\ Received \in {A + 2, A + 2 + Rotations} =>
            job.next # Nowhere /\ job.futureMint = job.next + before
  <2>1. Received = A + 1 => /\ job.next # Nowhere /\ job.next + before <= job.futureMint
                            /\ job.futureMint <= nonce + 1 + before
    BY DEF ForetellJob
  <2>2. Received \in {A + 2, A + 2 + Rotations} =>
            job.next # Nowhere /\ job.futureMint = job.next + before
    BY DEF ForetellJob
  <2> QED
    BY <2>1, <2>2
<1>5. /\ job'.sent = NewNumber /\ job'.futureMint = job.futureMint
  BY DEF SubmittedFields
<1>6. A' = A /\ before' = before
  OBVIOUS
<1> HIDE DEF A, before
<1>7. Received = A + 1 => job.futureMint = NewNumber + before
  BY <1>1, <1>2, <1>3, <1>4
<1>8. Received \in {A + 2, A + 2 + Rotations} => job.futureMint = NewNumber + before
  BY <1>3, <1>4
<1> QED
  BY <1>2, <1>5, <1>6, <1>7, <1>8 DEF ForetellJob, A, before

LEMMA SubmitStark ==
    ASSUME site \in Sites, ChainInv, StarkJob, Submits, JobShape, job.sent = Nowhere,
           job.script = "stark"
    PROVE  StarkJob'
<1>1. SubmittedFields /\ Stands /\ env' = env /\ ~Mined /\ ~Mined'
  BY Submitted, SubmitSent DEF Submits, Mined
<1>2. /\ StarkSteps' = StarkSteps /\ ArtSteps' = ArtSteps /\ Rotations' = Rotations
      /\ Plan' = Plan /\ Cover' = Cover
  BY <1>1, StepsStay DEF Stands
<1>3. /\ job'.todo = job.todo /\ job'.at = job.at /\ job'.futureMint = job.futureMint
      /\ site' = site /\ world' = world
  BY <1>1 DEF SubmittedFields, Stands
<1>4. Received' = Received /\ Effective' = Effective
  BY <1>1, <1>2, <1>3 DEF Received, Effective
<1>5. StarkTodo /\ (site.local => ArtJob) /\ ForetellJob /\ GateJob /\ MintJob
  BY DEF StarkJob
<1>6. StarkTodo'
  BY <1>2, <1>3, <1>4, <1>5 DEF StarkTodo
<1>7. GateJob' /\ MintJob'
  BY <1>1, <1>2, <1>3, <1>4, <1>5 DEF GateJob, MintJob, At, Is
<1>8. ForetellJob'
  BY <1>1, <1>2, <1>4, <1>5, SubmitForetell
<1>9. ArtJob => ArtJob'
  <2>1. \A store, j : StoreAt(store, j) => StoreAt(store, j)'
    BY <1>1, StoreAtStays DEF Stands
  <2>2. At("svgStorage")' = At("svgStorage") /\ At("layerRegistry")' = At("layerRegistry")
    BY <1>3 DEF At
  <2>3. NoTwins' <=> NoTwins
    BY <1>3 DEF NoTwins
  <2> QED
    BY <1>2, <1>3, <1>4, <2>1, <2>2, <2>3 DEF ArtJob, Is
<1> QED
  BY <1>3, <1>5, <1>6, <1>7, <1>8, <1>9 DEF StarkJob

LEMMA SubmitScript ==
    ASSUME ChainInv, site \in Sites, ScriptInv, JobShape, Submits, job.sent = Nowhere
    PROVE  ScriptInv'
<1>1. SubmittedFields /\ Stands /\ files' = files /\ ~Mined /\ ~Mined'
  BY Submitted, SubmitSent DEF Submits, Mined
<1>2. /\ job'.todo = job.todo /\ job'.at = job.at /\ job'.script = job.script
      /\ job'.reuseStark = job.reuseStark /\ job'.reuse4337 = job.reuse4337
      /\ job'.sent = NewNumber /\ world' = world
  BY <1>1 DEF SubmittedFields, Stands
<1>3. NewNumber # Nowhere
  BY IsSeqProperties DEF ChainInv, NewNumber, Nowhere
<1>4. job.script = "stark" /\ ~job.reuseStark => StarkJob'
  BY SubmitStark DEF ScriptInv
<1>5. AAJob => AAJob'
  BY <1>1, <1>2, <1>3 DEF AAJob, AATodo, Left, At, Is
<1>6. MarketJob => MarketJob'
  BY <1>1, <1>2 DEF MarketJob, At, Is
<1>7. TopUpJob => TopUpJob'
  BY <1>1, <1>2, <1>3 DEF TopUpJob
<1> QED
  BY <1>2, <1>4, <1>5, <1>6, <1>7 DEF ScriptInv

LEMMA SubmitDeposit ==
    ASSUME ChainInv, DepositInv, JobShape, Submits, job # Idle, job' # Idle, job.sent = Nowhere,
           faults \in Nat, SendOK(Transaction(Head(job.todo)))
    PROVE  DepositInv'
<1> DEFINE tx == Transaction(Head(job.todo))
<1>1. /\ Stands /\ Sent(tx) /\ SendOK(tx) /\ faults' = faults /\ job'.sent = NewNumber
  BY Submitted DEF Submits, SubmittedFields
<1> HIDE DEF tx
<1>2. NewNumber \notin Pendings
  BY <1>1, SentFacts
<1>3. ASSUME NEW a \in DOMAIN world, world[a].kind = "paymaster"
      PROVE  /\ world[a].deposit + Cardinality(DepositsTo(a)') <= 1 + faults
             /\ Cardinality(OthersDepositsTo(a)') <= faults
  <2> DEFINE D == DepositsTo(a)
  <2>1. /\ DepositsTo(a)' = D \cup (IF tx.to = a /\ tx.step.role = "deposit"
                                    THEN {NewNumber} ELSE {})
        /\ NewNumber \notin D /\ D \subseteq Pendings
    BY <1>1, <1>2, DepositsSent DEF DepositsTo
  <2>2. OthersDepositsTo(a)' = DepositsTo(a)' \ {NewNumber} /\ OthersDepositsTo(a)' = D
    BY <1>1, <2>1 DEF OthersDepositsTo
  <2>3. OthersDepositsTo(a) = D
    <3>1. Nowhere \notin D
      BY <2>1 DEF ChainInv, Pendings, Nowhere
    <3> QED
      BY <3>1 DEF OthersDepositsTo
  <2>4. world[a].deposit + Cardinality(D) <= 1 + faults /\ Cardinality(D) <= faults
    BY <1>3, <2>3 DEF DepositInv
  <2>5. world[a].deposit \in Nat /\ IsFiniteSet(D) /\ Cardinality(D) \in Nat
    BY <1>3, ContractFields, DepositsFinite DEF ChainInv
  <2>6. tx.to = a /\ tx.step.role = "deposit" => world[a].deposit + Cardinality(D) <= faults
    <3>1. a # Nowhere
      BY DEF ChainInv, Nowhere
    <3> QED
      BY <1>1, <3>1 DEF SendOK
  <2>7. Cardinality(D \cup {NewNumber}) = Cardinality(D) + 1
    BY <2>1, <2>5, FS_AddElement
  <2> HIDE DEF D
  <2>8. CASE tx.to = a /\ tx.step.role = "deposit"
    <3>1. DepositsTo(a)' = D \cup {NewNumber}
      BY <2>1, <2>8
    <3>2. Cardinality(DepositsTo(a)') = Cardinality(D) + 1
      BY <2>7, <3>1
    <3>3. world[a].deposit + (Cardinality(D) + 1) <= 1 + faults
      BY <2>5, <2>6, <2>8
    <3> QED
      BY <2>2, <2>4, <3>2, <3>3
  <2>9. CASE ~(tx.to = a /\ tx.step.role = "deposit")
    <3>1. DepositsTo(a)' = D
      BY <2>1, <2>9
    <3> QED
      BY <2>2, <2>4, <3>1
  <2> QED
    BY <2>8, <2>9
<1> QED
  BY <1>1, <1>3 DEF DepositInv, Stands

LEMMA SendInv ==
    ASSUME LaunchInv, Send
    PROVE  LaunchInv'
<1>1. /\ ChainInv /\ PrivateInv /\ FilesInv /\ ServersInv /\ DepositInv /\ JobInv /\ Bounds
      /\ faults \in Nat /\ job # Idle /\ job.entered /\ JobShape /\ FoundInv /\ OwnInv
      /\ SentInv /\ ScriptInv /\ InScript /\ job.todo # <<>> /\ job.sent = Nowhere
  BY LaunchParts DEF Send, InScript
<1>2. Pending = nonce + Len(pool)
  BY DEF Pending
<1>3. CASE NextNonce = Pending + 1
  <2> DEFINE tx == Transaction(Head(job.todo))
  <2>1. Submits /\ UNCHANGED <<last, runs>>
    BY <1>2, <1>3 DEF Send, Submits, Stands, Sent, NewNumber
  <2>2. SendOK(tx)
    BY <1>1, NextIsOK
  <2>3. JobShape' /\ FoundInv' /\ OwnInv' /\ SentInv' /\ ScriptInv'
    BY <1>1, <2>1, <2>2, SubmitShape, SubmitOwn, SubmitSent, SubmitScript DEF Bounds
  <2>4. job' # Idle
    <3>1. job'.script # "none"
      BY <2>3 DEF JobShape, Scripts
    <3> QED
      BY <3>1 DEF Idle
  <2>5. DepositInv'
    BY <1>1, <2>1, <2>2, <2>4, SubmitDeposit
  <2>6. JobInv'
    BY <2>3 DEF JobInv
  <2>7. Stands /\ Sent(tx) /\ files' = files /\ servers' = servers
    BY <2>1 DEF Submits
  <2> HIDE DEF tx
  <2>8. ServersStop /\ NoneSettles
    BY <1>1, <2>7, ServerStopped, StoppedSettle
  <2>9. FilesInv' /\ ServersInv'
    BY <1>1, <2>7, <2>8, FilesStand, StoppedStand
  <2>10. ChainInv' /\ PrivateInv'
    <3>1. /\ tx.to = Nowhere => CreateOK(tx)
          /\ tx.to # Nowhere => CallOK(tx)
          /\ Private(tx) => tx.to \notin Settled
      BY <1>1, <2>2 DEF SendOK, OwnInv
    <3> QED
      BY <1>1, <2>7, <2>8, <3>1, ChainSent, PrivateSent
  <2>11. Bounds'
    BY <1>1, <2>1 DEF Bounds, Submits, Stands
  <2> QED
    BY <2>5, <2>6, <2>9, <2>10, <2>11 DEF LaunchInv, Bounds
<1>4. CASE NextNonce # Pending + 1
  <2>1. /\ End("refused") /\ UNCHANGED <<site, env, chainVars, files, runs, faults>>
    BY <1>4 DEF Send, chainVars
  <2>2. ~Waits
    BY <1>1 DEF Waits, ChainInv, Pendings, Nowhere
  <2> QED
    BY <2>1, <2>2, EndInv
<1> QED
  BY <1>3, <1>4

-----------------------------------------------------------------------------
(* A script that begins: what its steps are, and where they start from.    *)
LEMMA StepsOfEach ==
    /\ Reuses(job) \/ job.script \in {"verify", "backend"} => StepsOf(job) = <<>>
    /\ job.script = "stark" /\ ~job.reuseStark => StepsOf(job) = StarkSteps
    /\ job.script = "4337" /\ ~job.reuse4337 => StepsOf(job) = AASteps
    /\ job.script = "marketplace" => StepsOf(job) = MarketplaceSteps
    /\ job.script = "topUp" => StepsOf(job) = TopUpSteps
    /\ job.script = "mintOne" => StepsOf(job) = MintSteps
<1>1. /\ Reuses(job) => StepsOf(job) = <<>>
      /\ ~Reuses(job) =>
            /\ job.script \in {"verify", "backend"} => StepsOf(job) = <<>>
            /\ job.script = "stark" => StepsOf(job) = StarkSteps
            /\ job.script = "4337" => StepsOf(job) = AASteps
            /\ job.script = "marketplace" => StepsOf(job) = MarketplaceSteps
            /\ job.script = "topUp" => StepsOf(job) = TopUpSteps
            /\ job.script = "mintOne" => StepsOf(job) = MintSteps
  BY DEF StepsOf
<1>2. /\ job.script = "stark" => (Reuses(job) <=> job.reuseStark)
      /\ job.script = "4337" => (Reuses(job) <=> job.reuse4337)
      /\ job.script \in {"marketplace", "topUp", "mintOne"} => ~Reuses(job)
  BY DEF Reuses
<1> QED
  BY <1>1, <1>2

LEMMA ShortSeqs ==
    ASSUME NEW a
    PROVE  IsSeq(<<>>) /\ IsSeq(<<a>>) /\ Len(<<a>>) = 1
<1>1. ToSet(<<a>>) = {a}
  BY DEF ToSet
<1> QED
  BY <1>1 DEF IsSeq

Mocks == {Step("entryPointMock"), Step("starknetCoreMock")}
AALayout(s) ==
    /\ IsSeq(s) /\ Len(s) \in Nat /\ Len(s) >= 6
    /\ \A i \in 1 .. Len(s) :
          IF Len(s) - i < 6 THEN s[i] = CoreSteps[6 - (Len(s) - i)] ELSE s[i] \in Mocks

LEMMA MocksBefore ==
    ASSUME NEW f \in Seq(Mocks), NEW s, AALayout(s)
    PROVE  AALayout(f \o s)
<1>1. IsSeq(f) /\ Len(f) \in Nat /\ \A i \in 1 .. Len(f) : f[i] \in Mocks
  BY SeqIsSeq
<1> DEFINE t == f \o s
<1>2. JoinOf(f, s, t) /\ IsSeq(s)
  BY <1>1, ConcatFacts DEF AALayout
<1> HIDE DEF t
<1>3. /\ IsSeq(t) /\ Len(t) = Len(f) + Len(s) /\ Len(s) \in Nat /\ Len(s) >= 6
      /\ Len(t) \in Nat /\ Len(t) >= 6
  BY <1>1, <1>2 DEF JoinOf, AALayout
<1>4. ASSUME NEW i \in 1 .. Len(t)
      PROVE  IF Len(t) - i < 6 THEN t[i] = CoreSteps[6 - (Len(t) - i)] ELSE t[i] \in Mocks
  <2>1. CASE i <= Len(f)
    <3>1. i \in 1 .. Len(f) /\ ~(Len(t) - i < 6)
      BY <1>1, <1>3, <2>1
    <3>2. t[i] = f[i]
      BY <1>2, <3>1 DEF JoinOf
    <3> QED
      BY <1>1, <3>1, <3>2
  <2>2. CASE i > Len(f)
    <3>1. PICK k \in 1 .. Len(s) : i = Len(f) + k /\ Len(t) - i = Len(s) - k
      <4>1. i - Len(f) \in 1 .. Len(s) /\ i = Len(f) + (i - Len(f))
            /\ Len(t) - i = Len(s) - (i - Len(f))
        BY <1>1, <1>3, <2>2
      <4> QED
        BY <4>1
    <3>2. t[i] = s[k]
      BY <1>2, <3>1 DEF JoinOf
    <3>3. IF Len(s) - k < 6 THEN s[k] = CoreSteps[6 - (Len(s) - k)] ELSE s[k] \in Mocks
      BY DEF AALayout
    <3> QED
      BY <3>1, <3>2, <3>3
  <2> QED
    BY <1>1, <1>3, <2>1, <2>2
<1>5. AALayout(t)
  BY <1>3, <1>4 DEF AALayout
<1> QED
  BY <1>5 DEF t

LEMMA CoreStepsAre == AALayout(CoreSteps)
<1>1. IsSeq(CoreSteps) /\ Len(CoreSteps) = 6
  <2>1. CoreSteps \in Seq({CoreSteps[i] : i \in 1 .. 6}) /\ Len(CoreSteps) = 6
    BY DEF CoreSteps
  <2> QED
    BY <2>1, SeqIsSeq
<1>2. \A i \in 1 .. 6 : 6 - (6 - i) = i /\ 6 - i < 6
  OBVIOUS
<1> QED
  BY <1>1, <1>2 DEF AALayout

LEMMA AAStepsAre == AALayout(AASteps)
<1> DEFINE f == IF site.local /\ ~EntryPointInstalled THEN <<Step("entryPointMock")>> ELSE <<>>
           g == IF site.local THEN <<Step("starknetCoreMock")>> ELSE <<>>
<1>1. f \in Seq(Mocks) /\ g \in Seq(Mocks)
  <2>1. <<>> \in Seq(Mocks) /\ \A e \in Mocks : <<e>> \in Seq(Mocks)
    OBVIOUS
  <2>2. Step("entryPointMock") \in Mocks /\ Step("starknetCoreMock") \in Mocks
    BY DEF Mocks
  <2> QED
    BY <2>1, <2>2
<1>2. AASteps = (f \o g) \o CoreSteps
  BY DEF AASteps, CoreSteps
<1> HIDE DEF f, g
<1>3. f \o g \in Seq(Mocks)
  BY <1>1, ConcatProperties
<1>4. AALayout((f \o g) \o CoreSteps)
  BY <1>3, CoreStepsAre, MocksBefore
<1> QED
  BY <1>2, <1>4

Boots == job.script = "backend" /\ servers[8788] = NoServer
Enters ==
    /\ Stands /\ pool' = pool /\ files' = files /\ env' = env /\ faults' = faults
    /\ runs' = runs /\ last' = last
    /\ MayEnter
    /\ job' = [job EXCEPT !.entered = TRUE, !.todo = StepsOf(job), !.at = <<>>,
                          !.next = Nowhere, !.ownBackend = @ \/ Boots]
    /\ servers' = IF Boots THEN [servers EXCEPT ![8788] = Configured] ELSE servers

EnteredFields ==
    /\ job'.script = job.script /\ job'.all = job.all /\ job'.entered = TRUE
    /\ job'.reuseStark = job.reuseStark /\ job'.reuse4337 = job.reuse4337
    /\ job'.todo = StepsOf(job) /\ job'.at = <<>> /\ job'.sent = job.sent
    /\ job'.next = Nowhere /\ job'.futureMint = job.futureMint
    /\ job'.ownBackend = (job.ownBackend \/ Boots)
    /\ job' = [script |-> job'.script, all |-> job'.all, entered |-> job'.entered,
              reuseStark |-> job'.reuseStark, reuse4337 |-> job'.reuse4337, todo |-> job'.todo,
              at |-> job'.at, sent |-> job'.sent, next |-> job'.next,
              futureMint |-> job'.futureMint, ownBackend |-> job'.ownBackend,
              fresh |-> job'.fresh]

LEMMA EnteredAre ==
    ASSUME JobShape, Enters
    PROVE  EnteredFields
<1> DEFINE todo == StepsOf(job)
           own == job.ownBackend \/ Boots
<1>1. job' = [job EXCEPT !.entered = TRUE, !.todo = todo, !.at = <<>>,
                         !.next = Nowhere, !.ownBackend = own]
  BY DEF Enters
<1> HIDE DEF todo, own
<1>2. /\ job'.script = job.script /\ job'.all = job.all /\ job'.entered = TRUE
      /\ job'.reuseStark = job.reuseStark /\ job'.reuse4337 = job.reuse4337
      /\ job'.todo = todo /\ job'.at = <<>> /\ job'.sent = job.sent
      /\ job'.next = Nowhere /\ job'.futureMint = job.futureMint
      /\ job'.ownBackend = own
      /\ job' = [script |-> job'.script, all |-> job'.all, entered |-> job'.entered,
              reuseStark |-> job'.reuseStark, reuse4337 |-> job'.reuse4337, todo |-> job'.todo,
              at |-> job'.at, sent |-> job'.sent, next |-> job'.next,
              futureMint |-> job'.futureMint, ownBackend |-> job'.ownBackend,
              fresh |-> job'.fresh]
  BY <1>1 DEF JobShape
<1> QED
  BY <1>2 DEF EnteredFields, todo, own

LEMMA StepsAreSeq ==
    ASSUME site \in Sites, job.script \in Scripts
    PROVE  IsSeq(StepsOf(job))
<1>1. IsSeq(StarkSteps) /\ IsSeq(AASteps)
  BY StarkStepsAre, AAStepsAre DEF StarkLayout, AALayout
<1>2. IsSeq(MarketplaceSteps) /\ IsSeq(TopUpSteps) /\ IsSeq(MintSteps) /\ IsSeq(<<>>)
  BY ShortSeqs DEF MarketplaceSteps, TopUpSteps, MintSteps
<1>3. \/ Reuses(job) \/ job.script \in {"verify", "backend"}
      \/ job.script = "stark" /\ ~job.reuseStark
      \/ job.script = "4337" /\ ~job.reuse4337
      \/ job.script \in {"marketplace", "topUp", "mintOne"}
  <2>1. /\ job.script = "stark" /\ ~Reuses(job) => ~job.reuseStark
        /\ job.script = "4337" /\ ~Reuses(job) => ~job.reuse4337
    BY DEF Reuses
  <2>2. \/ job.script = "stark" \/ job.script = "4337" \/ job.script \in {"verify", "backend"}
        \/ job.script \in {"marketplace", "topUp", "mintOne"}
    BY DEF Scripts
  <2> QED
    BY <2>1, <2>2, Zenon
<1> QED
  BY <1>1, <1>2, <1>3, StepsOfEach

LEMMA EnterServers ==
    ASSUME ChainInv, FilesInv, ServersInv, Enters
    PROVE  /\ ServersInv' /\ NoneSettles
           /\ servers' = servers \/ servers'[8788] # NoServer
           /\ Boots => servers'[8788] # NoServer
<1>1. CASE Boots
  <2>1. BootAccepts(Configured)
    BY <1>1 DEF Enters, MayEnter, Boots
  <2>2. ServerInv(Configured) /\ Configured # NoServer /\ Configured.gate \in Settled
    BY <2>1, BootedWorks
  <2>3. servers' = Put(servers, 8788, Configured)
    BY <1>1 DEF Enters, Put
  <2>4. /\ servers' = [p \in {8787, 8788} |-> servers'[p]] /\ servers'[8788] = Configured
        /\ servers'[8787] = servers[8787]
    BY <2>3, PortChanged
  <2>5. \A port \in {8787, 8788} : ServerInv(servers'[port])
    BY <2>2, <2>4 DEF ServersInv
  <2>6. \A port \in {8787, 8788} : servers'[port].gate \in Settled \cup {Nowhere}
    <3>1. servers[8787].gate \in Settled
      BY DEF Settled
    <3> QED
      BY <2>2, <2>4, <3>1
  <2> QED
    BY <2>2, <2>4, <2>5, <2>6, ServersStand, SettledStands DEF Enters
<1>2. CASE ~Boots
  <2>1. servers' = servers
    BY <1>2 DEF Enters
  <2> QED
    BY <1>2, <2>1, ServerStopped, StoppedStand, StoppedSettle DEF Enters
<1> QED
  BY <1>1, <1>2

LEMMA EnterFound ==
    ASSUME ChainInv, FilesInv, ServersInv, FoundInv, JobShape, Enters, ~job.entered
    PROVE  FoundInv'
<1>1. EnteredFields /\ files' = files /\ MayEnter
  BY EnteredAre DEF Enters
<1>2. job'.script = job.script /\ (Reuses(job)' <=> Reuses(job)) /\ job'.sent = Nowhere
      /\ job'.entered = TRUE /\ job'.todo = StepsOf(job)
  BY <1>1 DEF EnteredFields, Reuses, FoundInv
<1>3. job'.ownBackend => servers'[8788] # NoServer
  <2>1. job'.ownBackend <=> job.ownBackend \/ Boots
    BY <1>1 DEF EnteredFields
  <2>2. job.ownBackend => servers[8788] # NoServer
    BY DEF FoundInv
  <2> QED
    BY <2>1, <2>2, EnterServers
<1>4. job.script = "verify" => files.stark # NoStark /\ files.aa # NoAA
  BY <1>1 DEF MayEnter, VerifyAccepts
<1>5. job.script \in {"4337", "marketplace"} => files.stark # NoStark
  BY <1>1 DEF MayEnter
<1>6. job.script \in {"topUp", "backend", "mintOne"} => files.stark # NoStark /\ files.aa # NoAA
  BY DEF FoundInv
<1>7. Reuses(job) \/ job.script \in {"verify", "backend"} => job'.todo = <<>>
  BY <1>2, StepsOfEach
<1> QED
  BY <1>1, <1>2, <1>3, <1>4, <1>5, <1>6, <1>7 DEF FoundInv

LEMMA EnterStark ==
    ASSUME site \in Sites, site' = site, env' = env, job'.todo = StarkSteps, job'.sent = Nowhere
    PROVE  StarkJob'
<1>1. /\ StarkSteps' = StarkSteps /\ ArtSteps' = ArtSteps /\ Rotations' = Rotations
      /\ Plan' = Plan
  BY StepsStay
<1>2. Len(StarkSteps) \in Nat /\ Len(ArtSteps) \in Nat /\ Rotations \in {0, 1} /\ Len(Plan) \in Nat
  BY StarkRoles
<1>3. ~Mined'
  BY DEF Mined
<1>4. Received' = 0 /\ Effective' = 0
  BY <1>1, <1>2, <1>3 DEF Received, Effective
<1>5. StarkTodo'
  BY <1>1, <1>2, <1>4 DEF StarkTodo
<1>6. ArtJob' /\ GateJob' /\ MintJob' /\ ForetellJob'
  <2>1. ~(0 >= 1) /\ ~(0 >= 2) /\ ~(0 >= Len(Plan) + 4) /\ ~(0 >= Len(ArtSteps) + 2)
        /\ ~(0 >= Len(ArtSteps) + 3 + Rotations) /\ 0 # Len(ArtSteps) + 1
        /\ 0 # Len(ArtSteps) + 2 /\ 0 # Len(ArtSteps) + 2 + Rotations
    BY <1>2
  <2>2. ArtJob'
    BY <1>1, <1>4, <2>1 DEF ArtJob
  <2>3. GateJob' /\ MintJob'
    BY <1>1, <1>4, <2>1 DEF GateJob, MintJob
  <2>4. ForetellJob'
    BY <1>1, <1>4, <2>1 DEF ForetellJob
  <2> QED
    BY <2>2, <2>3, <2>4
<1> QED
  BY <1>5, <1>6 DEF StarkJob

LEMMA EnterTopUp ==
    ASSUME ChainInv, FilesInv, DepositInv, Stands, pool' = pool, files' = files,
           faults' = faults, files.aa # NoAA, job.sent = Nowhere, job'.todo = TopUpSteps,
           job # Idle
    PROVE  TopUpJob'
<1> DEFINE p == files.aa.paymaster
<1>1. Is(p, "paymaster")
  BY DEF FilesInv, AAInv
<1>2. p' = p /\ DepositsTo(p)' = DepositsTo(p)
  BY DepositsSame
<1>3. /\ TopUpSteps = (IF world[p].deposit = 0 THEN AlwaysTopUp ELSE <<>>)
  BY DEF TopUpSteps, AlwaysTopUp
<1>4. Cardinality(DepositsTo(p)) <= faults
  <2>1. ~Waits
    BY DEF Waits, ChainInv, Pendings, Nowhere
  <2>2. OthersDepositsTo(p) = DepositsTo(p)
    BY <2>1, NotWaiting
  <2> QED
    BY <1>1, <2>2 DEF DepositInv, Is
<1>5. Cardinality(DepositsTo(p)) \in Nat
  BY DepositsFinite
<1>6. TopUpSteps # <<>> => world[p].deposit + Cardinality(DepositsTo(p)) <= faults
  BY <1>3, <1>4, <1>5
<1> HIDE DEF p
<1>7. job'.todo # <<>> =>
         world'[p'].deposit + Cardinality(DepositsTo(p)') <= faults'
  BY <1>2, <1>6 DEF Stands
<1>8. job'.todo \in {<<>>, AlwaysTopUp}
  BY <1>3
<1> QED
  BY <1>2, <1>7, <1>8 DEF TopUpJob, p, AlwaysTopUp

LEMMA EnterScript ==
    ASSUME ChainInv, FilesInv, DepositInv, FoundInv, JobShape, Enters, ~job.entered, job # Idle,
           site \in Sites
    PROVE  ScriptInv'
<1>1. EnteredFields /\ Stands /\ pool' = pool /\ files' = files /\ env' = env /\ faults' = faults
      /\ site' = site
  BY EnteredAre DEF Enters, Stands
<1>2. /\ job'.script = job.script /\ job'.reuseStark = job.reuseStark
      /\ job'.reuse4337 = job.reuse4337 /\ job'.todo = StepsOf(job)
      /\ job.sent = Nowhere /\ job'.sent = Nowhere
  BY <1>1 DEF EnteredFields, FoundInv
<1>3. job.script = "stark" /\ ~job.reuseStark => StarkJob'
  BY <1>1, <1>2, StepsOfEach, EnterStark
<1>4. job.script = "4337" /\ ~job.reuse4337 => AAJob'
  <2> SUFFICES ASSUME job.script = "4337", ~job.reuse4337 PROVE AAJob'
    OBVIOUS
  <2>1. job'.todo = AASteps /\ AALayout(AASteps)
    BY <1>2, StepsOfEach, AAStepsAre
  <2> DEFINE s == AASteps
  <2>2. job'.todo = s /\ AALayout(s)
    BY <2>1
  <2> HIDE DEF s
  <2>3. Left' \in Nat /\ Left' >= 6 /\ Left' = Len(s)
    BY <2>2 DEF Left, AALayout
  <2>4. AATodo'
    BY <2>2, <2>3 DEF AALayout, AATodo, Mocks
  <2>5. ~(Left' <= 3) /\ ~(Left' <= 2) /\ ~(Left' = 3) /\ ~(Left' <= 1) /\ ~(Left' = 1)
    BY <2>3
  <2> QED
    BY <2>4, <2>5 DEF AAJob
<1>5. job.script = "marketplace" => MarketJob'
  BY <1>2, StepsOfEach DEF MarketJob, MarketplaceSteps
<1>6. job.script = "topUp" => TopUpJob'
  BY <1>1, <1>2, StepsOfEach, EnterTopUp DEF FoundInv
<1>7. job.script = "mintOne" => job'.todo \in {<<>>, MintSteps}
  BY <1>2, StepsOfEach
<1> QED
  BY <1>2, <1>3, <1>4, <1>5, <1>6, <1>7 DEF ScriptInv, MintSteps

LEMMA EnterInv ==
    ASSUME LaunchInv, Enter
    PROVE  LaunchInv'
<1>1. /\ ChainInv /\ PrivateInv /\ FilesInv /\ ServersInv /\ DepositInv /\ JobInv /\ Bounds
      /\ faults \in Nat /\ job # Idle /\ ~job.entered /\ JobShape /\ FoundInv
      /\ job.sent = Nowhere /\ nonce \in Nat
  BY LaunchParts DEF Enter, FoundInv, ChainInv
<1>2. Nowhere \notin Pendings /\ ~Waits
  BY <1>1 DEF Waits, Pendings, Nowhere
<1>3. CASE ~MayEnter
  <2>1. End("refused") /\ UNCHANGED <<site, env, chainVars, files, runs, faults>>
    BY <1>3 DEF Enter
  <2> QED
    BY <1>2, <2>1, EndInv
<1>4. CASE MayEnter
  <2>1. Enters
    BY <1>4 DEF Enter, Enters, Stands, Boots, chainVars
  <2>2. EnteredFields /\ Stands /\ pool' = pool /\ files' = files
    BY <1>1, <2>1, EnteredAre DEF Enters
  <2>3. JobShape'
    <3>1. /\ job'.script \in Scripts /\ job'.all \in BOOLEAN /\ job'.entered \in BOOLEAN
          /\ job'.ownBackend \in BOOLEAN
      BY <1>1, <2>2, Zenon DEF EnteredFields, JobShape
    <3>2. IsSeq(job'.todo)
      BY <1>1, <2>2, StepsAreSeq DEF EnteredFields, JobShape, Bounds
    <3>3. /\ job'.sent \in 0 .. nonce' + Len(pool') /\ job'.next \in Nat
          /\ job'.futureMint \in Nat
      BY <1>1, <2>2 DEF EnteredFields, JobShape, Stands, Nowhere
    <3> QED
      BY <2>2, <3>1, <3>2, <3>3 DEF JobShape, EnteredFields
  <2>4. FoundInv'
    BY <1>1, <2>1, EnterFound
  <2>5. OwnInv' /\ SentInv' /\ ~Waits'
    <3>1. Addresses' = {} /\ job'.sent = Nowhere
      BY <1>1, <2>2 DEF Addresses, EnteredFields
    <3>2. Nowhere \notin Pendings'
      BY <1>2, <2>2, PoolSame
    <3> QED
      BY <3>1, <3>2 DEF OwnInv, SentInv, Waits
  <2>6. ScriptInv'
    BY <1>1, <2>1, EnterScript DEF Bounds
  <2>7. ServersInv' /\ NoneSettles
    BY <1>1, <2>1, EnterServers
  <2>8. ChainInv' /\ PrivateInv' /\ FilesInv' /\ DepositInv'
    BY <1>1, <1>2, <2>1, <2>2, <2>5, <2>7, ChainStands, PrivateStands, FilesStand, DepositStands
    DEF Enters
  <2>9. JobInv' /\ Bounds'
    BY <1>1, <2>1, <2>3, <2>4, <2>5, <2>6 DEF JobInv, Bounds, Enters, Stands
  <2> QED
    BY <2>7, <2>8, <2>9 DEF LaunchInv, Bounds
<1> QED
  BY <1>3, <1>4

-----------------------------------------------------------------------------
(* A receipt: what was sent is there, and becomes the script's own.        *)
HeadRole == Head(job.todo).role
HeadTx == Transaction(Head(job.todo))
Receives ==
    /\ Stands /\ pool' = pool /\ files' = files /\ env' = env /\ faults' = faults
    /\ servers' = servers /\ runs' = runs /\ last' = last
    /\ Mined
    /\ job' = [job EXCEPT !.todo = Tail(@), !.sent = Nowhere,
                          !.at = Extended(@, HeadRole, job.sent),
                          !.futureMint = IF HeadRole = "renderer" THEN FutureMint(nonce) ELSE @]

ReceivedFields ==
    /\ job'.script = job.script /\ job'.all = job.all /\ job'.entered = job.entered
    /\ job'.reuseStark = job.reuseStark /\ job'.reuse4337 = job.reuse4337
    /\ job'.todo = Tail(job.todo) /\ job'.at = Extended(job.at, HeadRole, job.sent)
    /\ job'.sent = Nowhere /\ job'.next = job.next
    /\ job'.futureMint = (IF HeadRole = "renderer" THEN FutureMint(nonce) ELSE job.futureMint)
    /\ job'.ownBackend = job.ownBackend
    /\ job' = [script |-> job'.script, all |-> job'.all, entered |-> job'.entered,
              reuseStark |-> job'.reuseStark, reuse4337 |-> job'.reuse4337, todo |-> job'.todo,
              at |-> job'.at, sent |-> job'.sent, next |-> job'.next,
              futureMint |-> job'.futureMint, ownBackend |-> job'.ownBackend,
              fresh |-> job'.fresh]

LEMMA ReceivedAre ==
    ASSUME JobShape, Receives
    PROVE  ReceivedFields
<1> DEFINE at == Extended(job.at, HeadRole, job.sent)
           foretold == IF HeadRole = "renderer" THEN FutureMint(nonce) ELSE job.futureMint
<1>1. job' = [job EXCEPT !.todo = Tail(job.todo), !.sent = Nowhere, !.at = at,
                         !.futureMint = foretold]
  BY DEF Receives, JobShape
<1> HIDE DEF at, foretold
<1>2. /\ job'.script = job.script /\ job'.all = job.all /\ job'.entered = job.entered
      /\ job'.reuseStark = job.reuseStark /\ job'.reuse4337 = job.reuse4337
      /\ job'.todo = Tail(job.todo) /\ job'.at = at
      /\ job'.sent = Nowhere /\ job'.next = job.next /\ job'.futureMint = foretold
      /\ job'.ownBackend = job.ownBackend
      /\ job' = [script |-> job'.script, all |-> job'.all, entered |-> job'.entered,
              reuseStark |-> job'.reuseStark, reuse4337 |-> job'.reuse4337, todo |-> job'.todo,
              at |-> job'.at, sent |-> job'.sent, next |-> job'.next,
              futureMint |-> job'.futureMint, ownBackend |-> job'.ownBackend,
              fresh |-> job'.fresh]
  BY <1>1 DEF JobShape
<1> QED
  BY <1>2 DEF ReceivedFields, at, foretold

(* The addresses after a receipt, by role.                                 *)
LEMMA ReceivedAt ==
    ASSUME ReceivedFields
    PROVE  /\ HeadRole \in DOMAIN job'.at /\ job'.at[HeadRole] = job.sent
           /\ \A role \in DOMAIN job.at :
                 role \in DOMAIN job'.at /\ (role # HeadRole => job'.at[role] = job.at[role])
           /\ Addresses' \subseteq Addresses \cup {job.sent}
<1>1. /\ DOMAIN job'.at = DOMAIN job.at \cup {HeadRole}
      /\ \A role \in DOMAIN job'.at :
            job'.at[role] = IF role = HeadRole THEN job.sent ELSE job.at[role]
  BY DEF ReceivedFields, Extended
<1> QED
  BY <1>1 DEF Addresses

(* What a mined creation left at its address.                              *)
LEMMA ReceivedContract ==
    ASSUME ChainInv, SentInv, Mined, NEW contract, HeadTx = Create(contract)
    PROVE  job.sent \in DOMAIN world /\ world[job.sent] = contract
<1>1. HeadTx.to = Nowhere /\ HeadTx.contract = contract
  BY DEF Create
<1> QED
  BY <1>1 DEF SentInv, Mined, HeadTx

LEMMA ReceiptOwn ==
    ASSUME ChainInv, OwnInv, Receives, ReceivedFields, job.sent \in Nat
    PROVE  OwnInv'
<1>1. /\ Addresses' \subseteq Addresses \cup {job.sent} /\ job'.sent = Nowhere
      /\ Settled' = Settled /\ nonce' = nonce /\ Pendings' = Pendings
      /\ \A k : TxAt(k)' = TxAt(k)
  BY ReceivedAt, PoolSame DEF ReceivedFields, Receives, Stands, Settled
<1>2. job.sent # Nowhere /\ job.sent <= nonce
  BY DEF Receives, Mined
<1>3. job.sent \notin Pendings /\ nonce \in Nat
  BY <1>2 DEF ChainInv, Pendings
<1>4. job.sent \in 1 .. nonce
  BY <1>2, <1>3 DEF Nowhere
<1>5. \A n \in Pendings : TxAt(n).to # Nowhere => TxAt(n).to \notin Addresses \cup {job.sent}
  BY <1>3 DEF OwnInv
<1>6. Addresses' \subseteq (1 .. nonce) \ Settled
  BY <1>1, <1>2, <1>4 DEF OwnInv
<1>7. \A n \in Pendings : TxAt(n).to # Nowhere => TxAt(n).to \notin Addresses'
  BY <1>1, <1>5
<1> QED
  BY <1>1, <1>6, <1>7 DEF OwnInv

(* Where a receipt of deploy_stark stands.                                 *)
StarkAt(r, A, P, R) ==
    /\ A \in Nat /\ P \in Nat /\ R \in {0, 1} /\ r \in 0 .. A + R + 3
    /\ site.local => A = P + 5
    /\ ~site.local => A = 0
    /\ site.local /\ r = 0 => Head(job.todo) = Step("svgStorage")
    /\ site.local /\ r = 1 => Head(job.todo) = Step("layerRegistry")
    /\ site.local /\ r >= 1 => HeadRole # "svgStorage"
    /\ site.local /\ r >= 2 => HeadRole # "layerRegistry"
    /\ r = A <=> HeadRole = "renderer"
    /\ r = A + 1 => Head(job.todo) = Step("gate")
    /\ r >= A + 2 => HeadRole # "gate"
    /\ r = A + 2 + R => Head(job.todo) = Step("mint")
    /\ r >= A + 3 + R => HeadRole # "mint"

LEMMA StarkReceiptAt ==
    ASSUME site \in Sites, StarkTodo, IsSeq(job.todo), job.todo # <<>>
    PROVE  StarkAt(Received, Len(ArtSteps), Len(Plan), Rotations)
<1> DEFINE A == Len(ArtSteps)
           P == Len(Plan)
           r == Received
           step == Head(job.todo)
           R == Rotations
<1>1. /\ r \in 0 .. Len(StarkSteps) - 1 /\ step = StarkSteps[r + 1]
      /\ Len(StarkSteps) = A + R + 4 /\ P \in Nat /\ A \in Nat /\ R \in {0, 1}
      /\ site.local => A = P + 5
      /\ ~site.local => A = 0
  BY StarkHead, StarkRoles
<1>2. \A i \in 1 .. A :
         /\ i = 1 => StepIs(StarkSteps[i], "svgStorage")
         /\ i = 2 => StepIs(StarkSteps[i], "layerRegistry")
         /\ i \in 3 .. P + 2 => /\ StarkSteps[i] = Plan[i - 2]
                                /\ StarkSteps[i].role \in StorageRoles
         /\ i = P + 3 => StepIs(StarkSteps[i], "registerLayers")
         /\ i = P + 4 => StepIs(StarkSteps[i], "registerAssets")
         /\ i = P + 5 => StepIs(StarkSteps[i], "registerVariants")
  BY StarkRoles
<1>3. /\ StepIs(StarkSteps[A + 1], "renderer") /\ StepIs(StarkSteps[A + 2], "gate")
      /\ R = 1 => StepIs(StarkSteps[A + 3], "setAllowlistSigner")
      /\ StepIs(StarkSteps[A + R + 3], "mint")
      /\ StepIs(StarkSteps[A + R + 4], "web3")
  BY StarkRoles
<1>4. \A role : Step(role).role = role
  BY DEF Step
<1>5. HeadRole = step.role
  BY DEF HeadRole
<1> HIDE DEF A, P, r, step, R
<1>6. r < A => /\ r = 0 => step = Step("svgStorage")
               /\ r = 1 => step = Step("layerRegistry")
               /\ r >= 2 => step.role \in StorageRoles \cup RegistryRoles
  <2> SUFFICES ASSUME r < A
               PROVE  /\ r = 0 => step = Step("svgStorage")
                      /\ r = 1 => step = Step("layerRegistry")
                      /\ r >= 2 => step.role \in StorageRoles \cup RegistryRoles
    OBVIOUS
  <2>1. r + 1 \in 1 .. A /\ A = P + 5
    BY <1>1
  <2>2. /\ r = 0 => r + 1 = 1
        /\ r = 1 => r + 1 = 2
        /\ r >= 2 => r + 1 \in 3 .. P + 2 \/ r + 1 = P + 3 \/ r + 1 = P + 4 \/ r + 1 = P + 5
    BY <1>1, <2>1
  <2>3. r >= 2 => step.role \in StorageRoles \cup RegistryRoles
    BY <1>1, <1>2, <1>4, <2>1, <2>2 DEF StepIs, RegistryRoles
  <2> QED
    BY <1>1, <1>2, <2>1, <2>2, <2>3 DEF StepIs
<1>7. /\ r = A => step = Step("renderer")
      /\ r = A + 1 => step = Step("gate")
      /\ R = 1 /\ r = A + 2 => step = Step("setAllowlistSigner")
      /\ r = A + R + 2 => step = Step("mint")
      /\ r = A + R + 3 => step = Step("web3")
  <2>1. /\ r = A => r + 1 = A + 1
        /\ r = A + 1 => r + 1 = A + 2
        /\ r = A + 2 => r + 1 = A + 3
        /\ r = A + R + 2 => r + 1 = A + R + 3
        /\ r = A + R + 3 => r + 1 = A + R + 4
    BY <1>1
  <2> QED
    BY <1>1, <1>3, <2>1, Zenon DEF StepIs
<1>8. \/ r < A /\ (r = 0 \/ r = 1 \/ r >= 2)
      \/ r = A \/ r = A + 1
      \/ R = 1 /\ r = A + 2
      \/ r = A + R + 2 \/ r = A + R + 3
  BY <1>1
<1>9. StorageRoles \cup RegistryRoles =
         {"storeSvgBatch", "initializeChunkedSvg", "appendChunks", "finalizeChunkedSvg",
          "registerLayers", "registerAssets", "registerVariants"}
  BY DEF StorageRoles, RegistryRoles
<1>10. /\ r < A /\ r = 0 => step.role = "svgStorage"
       /\ r < A /\ r = 1 => step.role = "layerRegistry"
       /\ r = A => step.role = "renderer"
       /\ r = A + 1 => step.role = "gate"
       /\ R = 1 /\ r = A + 2 => step.role = "setAllowlistSigner"
       /\ r = A + R + 2 => step.role = "mint"
       /\ r = A + R + 3 => step.role = "web3"
  BY <1>4, <1>6, <1>7
<1>11. /\ site.local /\ r = 0 => step = Step("svgStorage")
       /\ site.local /\ r = 1 => step = Step("layerRegistry")
  BY <1>1, <1>6
<1>12. r + 0 = r /\ A + 2 + R = A + R + 2 /\ A + 3 + R = A + R + 3
  BY <1>1
<1> DEFINE Goal ==
             /\ site.local /\ r >= 1 => step.role # "svgStorage"
             /\ site.local /\ r >= 2 => step.role # "layerRegistry"
             /\ r = A <=> step.role = "renderer"
             /\ r >= A + 2 => step.role # "gate"
             /\ r >= A + 3 + R => step.role # "mint"
<1>13. ASSUME r < A PROVE Goal
  <2>1. ~(r = A) /\ ~(r >= A + 2) /\ ~(r >= A + 3 + R)
    BY <1>1, <1>13
  <2>2. \/ r = 0 /\ ~(r >= 1) /\ ~(r >= 2) /\ ~(r = 1)
        \/ r = 1 /\ ~(r >= 2) /\ ~(r = 0)
        \/ r >= 2
    BY <1>1, <1>8, <1>13
  <2>3. step.role # "renderer"
    BY <1>6, <1>9, <1>10, <1>13, <2>2
  <2>4. /\ r >= 1 => step.role # "svgStorage"
        /\ r >= 2 => step.role # "layerRegistry"
    BY <1>6, <1>9, <1>10, <1>13, <2>2
  <2> QED
    BY <2>1, <2>3, <2>4
<1>14. ASSUME ~(r < A) PROVE Goal
  <2>1. step.role \notin {"svgStorage", "layerRegistry"}
    BY <1>8, <1>10, <1>14
  <2>2. r = A <=> step.role = "renderer"
    BY <1>1, <1>8, <1>10, <1>14
  <2>3. r >= A + 2 => step.role # "gate"
    BY <1>1, <1>8, <1>10, <1>14
  <2>4. r >= A + 3 + R => step.role # "mint"
    BY <1>1, <1>8, <1>10, <1>14
  <2> QED
    BY <2>1, <2>2, <2>3, <2>4
<1>15. Goal
  BY <1>13, <1>14
<1>16. StarkAt(r, A, P, R)
  <2>1. /\ A \in Nat /\ P \in Nat /\ R \in {0, 1} /\ r \in 0 .. A + R + 3
        /\ site.local => A = P + 5
        /\ ~site.local => A = 0
        /\ r = A + 1 => step = Step("gate")
        /\ r = A + 2 + R => step = Step("mint")
    BY <1>1, <1>7, <1>12
  <2>2. HeadRole = step.role /\ Head(job.todo) = step
    BY <1>5 DEF step
  <2> HIDE DEF Goal
  <2> QED
    BY <1>11, <1>15, <2>1, <2>2 DEF StarkAt, Goal
<1> QED
  BY <1>16 DEF r, A, P, R

LEMMA ReceivedTodo ==
    ASSUME IsSeq(job.todo), job.todo # <<>>, ReceivedFields
    PROVE  /\ IsSeq(job'.todo) /\ Len(job.todo) \in Nat \ {0}
           /\ Len(job'.todo) = Len(job.todo) - 1 /\ Len(job'.todo) \in Nat
           /\ \A i \in 1 .. Len(job'.todo) : job'.todo[i] = job.todo[i + 1]
<1>1. /\ IsSeq(Tail(job.todo)) /\ Len(job.todo) \in Nat \ {0}
      /\ DOMAIN Tail(job.todo) = 1 .. Len(Tail(job.todo)) /\ Len(Tail(job.todo)) \in Nat
      /\ \A k \in DOMAIN Tail(job.todo) : Tail(job.todo)[k] = job.todo[k + 1]
  BY TailFacts, IsSeqProperties
<1>2. job.todo \in Seq(ToSet(job.todo))
  BY DEF IsSeq
<1>3. Len(Tail(job.todo)) = Len(job.todo) - 1
  BY <1>2
<1> QED
  BY <1>1, <1>3 DEF ReceivedFields

LEMMA ReceivedSteps ==
    ASSUME site \in Sites, StarkTodo, IsSeq(job.todo), job.todo # <<>>, Receives, ReceivedFields
    PROVE  /\ StarkTodo' /\ Received' = Received + 1 /\ Effective = Received + 1
           /\ Effective' = Received + 1 /\ Received \in Nat
           /\ ArtSteps' = ArtSteps /\ Rotations' = Rotations /\ Plan' = Plan /\ Cover' = Cover
<1>1. /\ StarkSteps' = StarkSteps /\ ArtSteps' = ArtSteps /\ Rotations' = Rotations
      /\ Plan' = Plan /\ Cover' = Cover
  BY StepsStay DEF Receives, Stands
<1>2. Len(StarkSteps) \in Nat
  BY StarkRoles
<1>3. /\ Len(job.todo) \in Nat \ {0} /\ Len(job'.todo) = Len(job.todo) - 1
      /\ Len(job'.todo) \in Nat
      /\ \A i \in 1 .. Len(job'.todo) : job'.todo[i] = job.todo[i + 1]
  BY ReceivedTodo
<1>4. Received \in Nat /\ Received = Len(StarkSteps) - Len(job.todo)
  BY DEF StarkTodo, Received
<1>5. Received' = Len(StarkSteps) - Len(job'.todo)
  BY <1>1 DEF Received
<1>6. Received' = Received + 1
  BY <1>2, <1>3, <1>4, <1>5
<1>7. ~Mined' /\ Mined
  BY DEF Mined, ReceivedFields, Receives
<1>8. Effective = Received + 1 /\ Effective' = Received + 1
  BY <1>4, <1>6, <1>7 DEF Effective
<1> DEFINE r == Received
<1>9. \A i \in 1 .. Len(job.todo) : job.todo[i] = StarkSteps[r + i]
  BY DEF StarkTodo
<1>10. r \in Nat
  BY <1>4
<1> HIDE DEF r
<1>11. ASSUME NEW i \in 1 .. Len(job'.todo) PROVE job'.todo[i] = StarkSteps[(r + 1) + i]
  <2>1. i + 1 \in 1 .. Len(job.todo) /\ r + (i + 1) = (r + 1) + i
    BY <1>3, <1>10
  <2> QED
    BY <1>3, <1>9, <2>1
<1>12. Received' = r + 1 /\ Received' \in Nat
  BY <1>6, <1>10 DEF r
<1>13. \A i \in 1 .. Len(job'.todo) : job'.todo[i] = StarkSteps'[Received' + i]
  BY <1>1, <1>11, <1>12
<1>14. StarkTodo'
  BY <1>12, <1>13 DEF StarkTodo
<1> QED
  BY <1>1, <1>4, <1>6, <1>8, <1>14

LEMMA ReceiptForetell ==
    ASSUME site \in Sites, ChainInv, StarkTodo, ForetellJob, SentInv, IsSeq(job.todo),
           job.todo # <<>>, Receives, ReceivedFields, job.sent \in Nat, job.futureMint \in Nat
    PROVE  ForetellJob'
<1> DEFINE A == Len(ArtSteps)
           r == Received
           before == A + 2 + Rotations - r
<1>1. /\ A \in Nat /\ Rotations \in {0, 1} /\ r \in Nat /\ before \in Int
      /\ r = A <=> HeadRole = "renderer"
  BY StarkReceiptAt DEF StarkAt
<1>2. r' = r + 1 /\ A' = A /\ Rotations' = Rotations
  BY ReceivedSteps
<1>3. before' = before - 1
  BY <1>1, <1>2
<1>4. /\ job.sent # Nowhere /\ job.sent <= nonce /\ nonce \in Nat /\ nonce' = nonce
      /\ job.next = job.sent + 1
  BY DEF Receives, Mined, ChainInv, Stands, SentInv
<1>5. /\ job'.sent = Nowhere /\ job'.next = job.sent + 1
      /\ job'.futureMint = (IF HeadRole = "renderer" THEN FutureMint(nonce) ELSE job.futureMint)
  BY <1>4 DEF ReceivedFields
<1>6. FutureMint(nonce) = nonce + 2 + Rotations
  BY DEF FutureMint, Rotations
<1>7. r \in {A + 1, A + 2, A + 2 + Rotations} => job.futureMint = job.sent + before
  BY <1>4 DEF ForetellJob
<1> HIDE DEF A, r, before
<1>8. r' = A' + 1 => /\ job'.next # Nowhere /\ job'.next + before' <= job'.futureMint
                     /\ job'.futureMint <= nonce' + 1 + before'
  <2> SUFFICES ASSUME r' = A' + 1
               PROVE  /\ job'.next # Nowhere /\ job'.next + before' <= job'.futureMint
                      /\ job'.futureMint <= nonce' + 1 + before'
    OBVIOUS
  <2>1. r = A /\ before = 2 + Rotations
    BY <1>1, <1>2 DEF before
  <2>2. job'.futureMint = nonce + 2 + Rotations
    BY <1>1, <1>5, <1>6, <2>1
  <2>3. before' = 1 + Rotations
    BY <1>1, <1>3, <2>1
  <2>4. job.sent + 1 + (1 + Rotations) <= nonce + 2 + Rotations
    BY <1>1, <1>4
  <2>5. nonce + 2 + Rotations <= nonce + 1 + (1 + Rotations)
    BY <1>1, <1>4
  <2>6. job.sent + 1 # Nowhere
    BY DEF Nowhere
  <2> QED
    BY <1>4, <1>5, <2>2, <2>3, <2>4, <2>5, <2>6
<1>9. r' \in {A' + 2, A' + 2 + Rotations'} =>
          job'.next # Nowhere /\ job'.futureMint = job'.next + before'
  <2> SUFFICES ASSUME r' \in {A' + 2, A' + 2 + Rotations'}
               PROVE  job'.next # Nowhere /\ job'.futureMint = job'.next + before'
    OBVIOUS
  <2>1. r = A + 1 \/ (Rotations = 1 /\ r = A + 2)
    BY <1>1, <1>2
  <2>2. r # A
    BY <1>1, <2>1
  <2>3. job'.futureMint = job.sent + before
    BY <1>1, <1>5, <1>7, <2>1, <2>2
  <2>4. job.sent + before = job.sent + 1 + (before - 1) /\ job.sent + 1 # Nowhere
    BY <1>1 DEF Nowhere
  <2> QED
    BY <1>3, <1>5, <2>3, <2>4
<1> QED
  BY <1>5, <1>8, <1>9 DEF ForetellJob, A, r, before

LEMMA ReceiptGate ==
    ASSUME site \in Sites, ChainInv, StarkTodo, GateJob, SentInv, IsSeq(job.todo),
           job.todo # <<>>, Receives, ReceivedFields
    PROVE  GateJob'
<1> DEFINE A == Len(ArtSteps)
           r == Received
<1>1. /\ A \in Nat /\ Rotations \in {0, 1} /\ r \in Nat
      /\ r = A <=> HeadRole = "renderer"
      /\ r = A + 1 => Head(job.todo) = Step("gate")
      /\ r >= A + 2 => HeadRole # "gate"
  BY StarkReceiptAt DEF StarkAt
<1>2. r' = r + 1 /\ A' = A /\ Rotations' = Rotations /\ Effective = r + 1 /\ Effective' = r + 1
  BY ReceivedSteps
<1>3. /\ HeadRole \in DOMAIN job'.at /\ job'.at[HeadRole] = job.sent
      /\ \A role \in DOMAIN job.at :
            role \in DOMAIN job'.at /\ (role # HeadRole => job'.at[role] = job.at[role])
  BY ReceivedAt
<1>4. /\ world' = world /\ env' = env
      /\ r # A => job'.futureMint = job.futureMint
  BY <1>1 DEF Receives, Stands, ReceivedFields
<1>5. r >= A + 2 =>
         /\ "gate" \in DOMAIN job.at /\ Is(At("gate"), "gate")
         /\ job.futureMint \in world[At("gate")].callers
         /\ world[At("gate")].signer =
               IF r + 1 >= A + 2 + Rotations THEN env.allowlistSigner ELSE Deployer
  BY <1>2 DEF GateJob
<1> HIDE DEF A, r
<1> DEFINE Held(g) ==
             /\ Is(g, "gate") /\ job'.futureMint \in world[g].callers
             /\ world[g].signer = IF r + 1 >= A + 2 + Rotations THEN env.allowlistSigner ELSE Deployer
<1>6. ASSUME r + 1 >= A + 2 PROVE "gate" \in DOMAIN job'.at /\ Held(job'.at["gate"])
  <2>1. r = A + 1 \/ r >= A + 2
    BY <1>1, <1>6
  <2>2. r # A
    BY <1>1, <1>6
  <2>3. CASE r = A + 1
    <3> DEFINE contract == [kind |-> "gate", signer |-> Deployer, callers |-> {job.futureMint}]
    <3>1. HeadTx = Create(contract) /\ HeadRole = "gate"
      BY <1>1, <2>3, CreatesOf DEF HeadTx, HeadRole, Step
    <3>2. job.sent \in DOMAIN world /\ world[job.sent] = contract
      BY <3>1, ReceivedContract DEF Receives
    <3>3. r + 1 >= A + 2 + Rotations => env.allowlistSigner = Deployer
      BY <1>1, <2>3 DEF Rotations, NeedsAllowlistRotation
    <3>4. world[job.sent].signer =
             IF r + 1 >= A + 2 + Rotations THEN env.allowlistSigner ELSE Deployer
      BY <3>2, <3>3
    <3> QED
      BY <1>3, <1>4, <2>2, <3>1, <3>2, <3>4 DEF Is
  <2>4. CASE r >= A + 2
    <3>1. job'.at["gate"] = At("gate") /\ "gate" \in DOMAIN job'.at
      BY <1>1, <1>3, <1>5, <2>4 DEF At
    <3> QED
      BY <1>4, <1>5, <2>2, <2>4, <3>1
  <2> QED
    BY <2>1, <2>3, <2>4
<1>7. r' >= A' + 2 =>
        /\ "gate" \in DOMAIN job'.at /\ Is(job'.at["gate"], "gate")
        /\ job'.futureMint \in world[job'.at["gate"]].callers
        /\ world[job'.at["gate"]].signer =
              IF Effective' >= A' + 2 + Rotations' THEN env.allowlistSigner ELSE Deployer
  BY <1>2, <1>6
<1> QED
  BY <1>4, <1>7 DEF GateJob, A, r, At, Is

LEMMA ReceiptMint ==
    ASSUME site \in Sites, ChainInv, StarkTodo, GateJob, MintJob, ForetellJob, SentInv, IsSeq(job.todo),
           job.todo # <<>>, Receives, ReceivedFields, job.sent \in Nat
    PROVE  MintJob'
<1> DEFINE A == Len(ArtSteps)
           r == Received
           R == Rotations
<1>1. /\ A \in Nat /\ R \in {0, 1} /\ r \in Nat
      /\ r = A <=> HeadRole = "renderer"
      /\ r >= A + 2 => HeadRole # "gate"
      /\ r = A + 2 + R => Head(job.todo) = Step("mint")
      /\ r >= A + 3 + R => HeadRole # "mint"
  BY StarkReceiptAt DEF StarkAt
<1>2. r' = r + 1 /\ A' = A /\ R' = R
  BY ReceivedSteps
<1>3. /\ HeadRole \in DOMAIN job'.at /\ job'.at[HeadRole] = job.sent
      /\ \A role \in DOMAIN job.at :
            role \in DOMAIN job'.at /\ (role # HeadRole => job'.at[role] = job.at[role])
  BY ReceivedAt
<1>4. /\ world' = world
      /\ r # A => job'.futureMint = job.futureMint
  BY <1>1 DEF Receives, Stands, ReceivedFields
<1>5. r >= A + 3 + R =>
         /\ "mint" \in DOMAIN job.at /\ Is(At("mint"), "mint") /\ At("mint") = job.futureMint
         /\ world[At("mint")].gate = At("gate")
  BY DEF MintJob
<1>6. r = A + 2 + R => job.futureMint = job.sent
  <2> SUFFICES ASSUME r = A + 2 + R PROVE job.futureMint = job.sent
    OBVIOUS
  <2>1. job.sent # Nowhere /\ A + 2 + R - r = 0 /\ job.sent + 0 = job.sent
    BY <1>1 DEF Receives, Mined
  <2>2. job.futureMint = job.sent + (A + 2 + R - r)
    BY <2>1 DEF ForetellJob
  <2> QED
    BY <2>1, <2>2
<1>10. r >= A + 2 => "gate" \in DOMAIN job.at
  BY DEF GateJob
<1> HIDE DEF A, r, R
<1>7. ASSUME r + 1 >= A + 3 + R
      PROVE  /\ "mint" \in DOMAIN job'.at /\ Is(job'.at["mint"], "mint")
             /\ job'.at["mint"] = job'.futureMint
             /\ world[job'.at["mint"]].gate = job'.at["gate"]
  <2>1. (r = A + 2 + R \/ r >= A + 3 + R) /\ r # A /\ r >= A + 2
    BY <1>1, <1>7
  <2>2. job'.at["gate"] = At("gate")
    BY <1>1, <1>3, <1>10, <2>1 DEF At
  <2>3. CASE r = A + 2 + R
    <3> DEFINE contract == [kind |-> "mint", gate |-> At("gate")]
    <3>1. HeadTx = Create(contract) /\ HeadRole = "mint"
      BY <1>1, <2>3, CreatesOf DEF HeadTx, HeadRole, Step
    <3>2. job.sent \in DOMAIN world /\ world[job.sent] = contract
      BY <3>1, ReceivedContract DEF Receives
    <3> QED
      BY <1>3, <1>4, <1>6, <2>1, <2>2, <2>3, <3>1, <3>2 DEF Is
  <2>4. CASE r >= A + 3 + R
    <3>1. job'.at["mint"] = At("mint") /\ "mint" \in DOMAIN job'.at
      BY <1>1, <1>3, <1>5, <2>4 DEF At
    <3> QED
      BY <1>4, <1>5, <2>1, <2>2, <2>4, <3>1
  <2> QED
    BY <2>1, <2>3, <2>4
<1>8. r' >= A' + 3 + R' =>
        /\ "mint" \in DOMAIN job'.at /\ Is(job'.at["mint"], "mint")
        /\ job'.at["mint"] = job'.futureMint
        /\ world[job'.at["mint"]].gate = job'.at["gate"]
  BY <1>2, <1>7
<1> QED
  BY <1>4, <1>8 DEF MintJob, A, r, R, At, Is

LEMMA ReceiptArt ==
    ASSUME site \in Sites, site.local, ChainInv, StarkTodo, ArtJob, SentInv, IsSeq(job.todo),
           job.todo # <<>>, Receives, ReceivedFields
    PROVE  ArtJob'
<1> DEFINE A == Len(ArtSteps)
           P == Len(Plan)
           r == Received
           st == At("svgStorage")
           rg == At("layerRegistry")
<1>1. /\ P \in Nat /\ r \in Nat
      /\ r = 0 => Head(job.todo) = Step("svgStorage")
      /\ r = 1 => Head(job.todo) = Step("layerRegistry")
      /\ r >= 1 => HeadRole # "svgStorage"
      /\ r >= 2 => HeadRole # "layerRegistry"
  BY StarkReceiptAt DEF StarkAt
<1>2. r' = r + 1 /\ P' = P /\ Effective = r + 1 /\ Effective' = r + 1
  BY ReceivedSteps
<1>3. /\ HeadRole \in DOMAIN job'.at /\ job'.at[HeadRole] = job.sent
      /\ \A role \in DOMAIN job.at :
            role \in DOMAIN job'.at /\ (role # HeadRole => job'.at[role] = job.at[role])
  BY ReceivedAt
<1>4. /\ world' = world /\ site' = site /\ (NoTwins' <=> NoTwins)
  BY DEF Receives, Stands, NoTwins
<1>5. \A store, j : StoreAt(store, j) => StoreAt(store, j)'
  BY StoreAtStays DEF Receives, Stands
<1>6. StoreAt(EmptyStore, 0)
  <2>1. Cover[0] = 0
    BY PlanFacts DEF Covers
  <2>2. EmptyStore.records = <<>> /\ Len(<<>>) = 0
    BY DEF EmptyStore
  <2> QED
    BY <2>1, <2>2 DEF StoreAt
<1>7. r >= 1 =>
         /\ "svgStorage" \in DOMAIN job.at /\ Is(st, "svgStorage")
         /\ NoTwins => StoreAt(world[st].store, IF r = 1 THEN 0 ELSE Least(r - 1, P))
  <2>1. Effective - 2 = r - 1
    BY <1>1, <1>2
  <2>2. r >= 1 =>
           /\ "svgStorage" \in DOMAIN job.at /\ Is(st, "svgStorage")
           /\ NoTwins => StoreAt(world[st].store, IF r = 1 THEN 0 ELSE Least(Effective - 2, P))
    BY DEF ArtJob
  <2> QED
    BY <2>1, <2>2
<1>8. r >= 2 =>
         /\ "layerRegistry" \in DOMAIN job.at /\ Is(rg, "layerRegistry")
         /\ world[rg].storage = st
         /\ NoTwins /\ r + 1 >= P + 4 => world[rg].assets = Bootstrap[site].ids
  BY <1>2 DEF ArtJob
<1>9. Least(0, P) = 0
  BY <1>1 DEF Least
<1> DEFINE s1 == job'.at["svgStorage"]
           g1 == job'.at["layerRegistry"]
           Storage == /\ "svgStorage" \in DOMAIN job'.at /\ Is(s1, "svgStorage")
                      /\ NoTwins => StoreAt(world[s1].store, IF r = 0 THEN 0 ELSE Least(r - 1, P))
           Registry == /\ "layerRegistry" \in DOMAIN job'.at /\ Is(g1, "layerRegistry")
                       /\ world[g1].storage = s1
                       /\ NoTwins /\ r + 1 >= P + 4 => world[g1].assets = Bootstrap[site].ids
<1> HIDE DEF A, P, r
<1>10. r >= 1 => s1 = st /\ Storage
  <2> SUFFICES ASSUME r >= 1 PROVE s1 = st /\ Storage
    OBVIOUS
  <2>1. s1 = st /\ "svgStorage" \in DOMAIN job'.at
    BY <1>1, <1>3, <1>7 DEF At
  <2>2. r # 0 /\ (r = 1 => r - 1 = 0)
    BY <1>1
  <2> HIDE DEF st, s1
  <2> QED
    BY <1>7, <1>9, <2>1, <2>2
<1>11. r = 0 => Storage
  <2> SUFFICES ASSUME r = 0 PROVE Storage
    OBVIOUS
  <2> DEFINE contract == [kind |-> "svgStorage", store |-> EmptyStore]
  <2>1. HeadTx = Create(contract) /\ HeadRole = "svgStorage"
    BY <1>1, CreatesOf DEF HeadTx, HeadRole, Step
  <2>2. job.sent \in DOMAIN world /\ world[job.sent] = contract
    BY <2>1, ReceivedContract DEF Receives
  <2>3. s1 = job.sent /\ "svgStorage" \in DOMAIN job'.at
    BY <1>3, <2>1
  <2> HIDE DEF s1
  <2>4. world[s1].store = EmptyStore /\ world[s1].kind = "svgStorage" /\ s1 \in DOMAIN world
    BY <2>2, <2>3
  <2> QED
    BY <1>6, <2>3, <2>4 DEF Is
<1>12. r >= 1 => Registry
  <2> SUFFICES ASSUME r >= 1 PROVE Registry
    OBVIOUS
  <2>1. s1 = st
    BY <1>10
  <2> HIDE DEF st, s1
  <2>2. CASE r = 1
    <3> DEFINE contract == [kind |-> "layerRegistry", storage |-> st, assets |-> <<>>]
    <3>1. HeadTx = Create(contract) /\ HeadRole = "layerRegistry"
      BY <1>1, <2>2, CreatesOf DEF HeadTx, HeadRole, Step, st
    <3>2. job.sent \in DOMAIN world /\ world[job.sent] = contract
      BY <3>1, ReceivedContract DEF Receives
    <3>3. ~(r + 1 >= P + 4)
      BY <1>1, <2>2
    <3> QED
      BY <1>3, <2>1, <3>1, <3>2, <3>3 DEF Is
  <2>3. CASE r >= 2
    <3>1. g1 = rg /\ "layerRegistry" \in DOMAIN job'.at
      BY <1>1, <1>3, <1>8, <2>3 DEF At
    <3> HIDE DEF g1, rg
    <3> QED
      BY <1>8, <2>1, <2>3, <3>1
  <2> QED
    BY <1>1, <2>2, <2>3
<1>13. Storage
  BY <1>1, <1>10, <1>11
<1>14. st' = s1 /\ rg' = g1
  BY DEF At
<1>15. (Received >= 1 => "svgStorage" \in DOMAIN job.at /\ Is(st, "svgStorage"))'
  BY <1>4, <1>13, <1>14 DEF Is
<1>16. (Received >= 2 => /\ "layerRegistry" \in DOMAIN job.at
                        /\ Is(rg, "layerRegistry") /\ world[rg].storage = st)'
  <2>1. Received' >= 2 => r >= 1
    BY <1>1, <1>2 DEF r
  <2> QED
    BY <1>4, <1>12, <1>14, <2>1 DEF Is
<1>17. (NoTwins /\ Effective >= P + 4 => world[rg].assets = Bootstrap[site].ids)'
  <2>1. r + 1 >= P + 4 => r >= 1
    BY <1>1
  <2> QED
    BY <1>2, <1>4, <1>12, <1>14, <2>1
<1>18. (NoTwins /\ Received >= 1 =>
          StoreAt(world[st].store, IF Received = 1 THEN 0 ELSE Least(Effective - 2, P)))'
  <2> SUFFICES ASSUME NoTwins'
               PROVE  StoreAt(world[st].store, IF Received = 1 THEN 0
                                               ELSE Least(Effective - 2, P))'
    OBVIOUS
  <2>1. /\ r' = r + 1 /\ P' = P /\ Effective' - 2 = r - 1 /\ (r' = 1 <=> r = 0)
        /\ r' = Received'
    BY <1>1, <1>2 DEF r
  <2>2. StoreAt(world'[s1].store, IF Received' = 1 THEN 0 ELSE Least(Effective' - 2, P'))
    BY <1>4, <1>13, <2>1
  <2> HIDE DEF st, s1
  <2> QED
    BY <1>5, <1>14, <2>2 DEF Least
<1> HIDE DEF Storage, Registry
<1> QED
  BY <1>15, <1>16, <1>17, <1>18 DEF ArtJob, P

LEMMA ReceiptStark ==
    ASSUME site \in Sites, ChainInv, StarkJob, SentInv, IsSeq(job.todo), job.todo # <<>>,
           Receives, ReceivedFields, job.sent \in Nat, job.futureMint \in Nat
    PROVE  StarkJob'
<1>1. StarkTodo /\ (site.local => ArtJob) /\ ForetellJob /\ GateJob /\ MintJob
  BY DEF StarkJob
<1>2. StarkTodo' /\ ForetellJob' /\ GateJob' /\ MintJob'
  BY <1>1, ReceivedSteps, ReceiptForetell, ReceiptGate, ReceiptMint
<1>3. site.local => ArtJob'
  BY <1>1, ReceiptArt
<1> QED
  BY <1>2, <1>3 DEF StarkJob, Receives, Stands

LEMMA ReceiptAA ==
    ASSUME ChainInv, AAJob, SentInv, IsSeq(job.todo), job.todo # <<>>, Receives, ReceivedFields
    PROVE  AAJob'
<1> DEFINE l == Left
<1>1. /\ l \in Nat \ {0} /\ Left' = l - 1 /\ Head(job.todo) = job.todo[1]
      /\ \A i \in 1 .. Len(job'.todo) : job'.todo[i] = job.todo[i + 1]
  BY ReceivedTodo DEF Left
<1>2. /\ HeadRole \in DOMAIN job'.at /\ job'.at[HeadRole] = job.sent
      /\ \A role \in DOMAIN job.at :
            role \in DOMAIN job'.at /\ (role # HeadRole => job'.at[role] = job.at[role])
  BY ReceivedAt
<1>3. world' = world /\ files' = files /\ job'.sent = Nowhere /\ ~Mined' /\ Mined
  BY DEF Receives, Stands, ReceivedFields, Mined
<1>4. AATodo
  BY DEF AAJob
<1>5. AATodo'
  <2>1. ASSUME NEW i \in 1 .. Left'
        PROVE  IF Left' - i < 6 THEN job'.todo[i] = CoreSteps[6 - (Left' - i)]
               ELSE job'.todo[i] \in {Step("entryPointMock"), Step("starknetCoreMock")}
    <3>1. i + 1 \in 1 .. l /\ Left' - i = l - (i + 1)
      BY <1>1, <2>1
    <3>2. job'.todo[i] = job.todo[i + 1]
      BY <1>1, <2>1 DEF Left
    <3> QED
      BY <1>4, <3>1, <3>2 DEF AATodo
  <2> QED
    BY <2>1 DEF AATodo, CoreSteps
<1>6. l <= 4 => Head(job.todo) = CoreSteps[7 - l]
  <2> SUFFICES ASSUME l <= 4 PROVE Head(job.todo) = CoreSteps[7 - l]
    OBVIOUS
  <2>1. 1 \in 1 .. l /\ l - 1 < 6 /\ 6 - (l - 1) = 7 - l
    BY <1>1
  <2> QED
    BY <1>1, <1>4, <2>1 DEF AATodo
<1>7. /\ l = 4 => Head(job.todo) = Step("factory") /\ HeadRole = "factory"
      /\ l = 3 => HeadRole = "setAuthorizedCaller"
      /\ l = 2 => Head(job.todo) = Step("paymaster") /\ HeadRole = "paymaster"
      /\ l = 1 => HeadRole = "deposit"
  <2>1. /\ l = 4 => l <= 4 /\ 7 - l = 3
        /\ l = 3 => l <= 4 /\ 7 - l = 4
        /\ l = 2 => l <= 4 /\ 7 - l = 5
        /\ l = 1 => l <= 4 /\ 7 - l = 6
    BY <1>1
  <2>2. /\ CoreSteps[3] = Step("factory") /\ CoreSteps[4] = Step("setAuthorizedCaller")
        /\ CoreSteps[5] = Step("paymaster") /\ CoreSteps[6] = Step("deposit")
    BY DEF CoreSteps
  <2>3. \A role : Step(role).role = role
    BY DEF Step
  <2> QED
    BY <1>6, <2>1, <2>2, <2>3 DEF HeadRole
<1>8. /\ l <= 3 =>
            /\ "factory" \in DOMAIN job.at /\ Is(At("factory"), "factory")
            /\ world[At("factory")].mint = files.stark.mint
            /\ world[At("factory")].gate = files.stark.gate
            /\ At("factory") \in world[files.stark.gate].callers
      /\ l <= 1 =>
            /\ "paymaster" \in DOMAIN job.at /\ Is(At("paymaster"), "paymaster")
            /\ world[At("paymaster")].mint = files.stark.mint
  <2>1. l <= 3 => l <= 2 \/ (l = 3 /\ Mined)
    BY <1>1, <1>3
  <2> QED
    BY <2>1 DEF AAJob
<1> HIDE DEF l
<1>9. l <= 3 => "factory" \in DOMAIN job'.at /\ job'.at["factory"] = At("factory")
  <2>1. l <= 3 => l = 1 \/ l = 2 \/ l = 3
    BY <1>1
  <2> QED
    BY <1>2, <1>7, <1>8, <2>1 DEF At
<1>10. Left' <= 3 =>
          /\ "factory" \in DOMAIN job'.at /\ Is(job'.at["factory"], "factory")
          /\ world[job'.at["factory"]].mint = files.stark.mint
          /\ world[job'.at["factory"]].gate = files.stark.gate
  <2>1. Left' <= 3 => l = 4 \/ l <= 3
    BY <1>1
  <2>2. CASE l = 4
    <3> DEFINE contract == [kind |-> "factory", mint |-> files.stark.mint,
                            gate |-> files.stark.gate]
    <3>1. HeadTx = Create(contract)
      BY <1>7, <2>2, CreatesOf DEF HeadTx
    <3>2. job.sent \in DOMAIN world /\ world[job.sent] = contract
      BY <3>1, ReceivedContract DEF Receives
    <3> QED
      BY <1>2, <1>7, <2>2, <3>2 DEF Is
  <2>3. CASE l <= 3
    BY <1>8, <1>9, <2>3
  <2> QED
    BY <2>1, <2>2, <2>3
<1>11. Left' <= 2 => job'.at["factory"] \in world[files.stark.gate].callers
  <2>1. Left' <= 2 => l <= 3
    BY <1>1
  <2> QED
    BY <1>8, <1>9, <2>1
<1>12. Left' <= 1 =>
          /\ "paymaster" \in DOMAIN job'.at /\ Is(job'.at["paymaster"], "paymaster")
          /\ world[job'.at["paymaster"]].mint = files.stark.mint
          /\ Left' = 1 => world[job'.at["paymaster"]].deposit = 0
  <2>1. Left' <= 1 => l = 2 \/ (l = 1 /\ l <= 1 /\ Left' # 1)
    BY <1>1
  <2>2. CASE l = 2
    <3> DEFINE contract == [kind |-> "paymaster", signer |-> env.paymasterKey,
                            mint |-> files.stark.mint, deposit |-> 0]
    <3>1. HeadTx = Create(contract)
      BY <1>7, <2>2, CreatesOf DEF HeadTx
    <3>2. job.sent \in DOMAIN world /\ world[job.sent] = contract
      BY <3>1, ReceivedContract DEF Receives
    <3> QED
      BY <1>2, <1>7, <2>2, <3>2 DEF Is
  <2>3. CASE l = 1 /\ l <= 1 /\ Left' # 1
    BY <1>2, <1>7, <1>8, <2>3 DEF At
  <2> QED
    BY <2>1, <2>2, <2>3
<1>13. Left' = 1 => Left' <= 1
  BY <1>1
<1> QED
  BY <1>3, <1>5, <1>10, <1>11, <1>12, <1>13 DEF AAJob, At, Is

LEMMA ReceiptScript ==
    ASSUME site \in Sites, ChainInv, JobShape, ScriptInv, SentInv, job.todo # <<>>, Receives
    PROVE  ScriptInv'
<1>1. ReceivedFields /\ IsSeq(job.todo) /\ job.sent \in Nat /\ job.futureMint \in Nat
  <2>1. job.sent \in Nat
    BY DEF JobShape
  <2> QED
    BY <2>1, ReceivedAre DEF JobShape
<1>2. /\ job'.script = job.script /\ job'.reuseStark = job.reuseStark
      /\ job'.reuse4337 = job.reuse4337 /\ job'.todo = Tail(job.todo)
      /\ world' = world /\ files' = files
  BY <1>1 DEF ReceivedFields, Receives, Stands
<1>3. /\ Tail(MarketplaceSteps) = <<>> /\ Tail(AlwaysTopUp) = <<>> /\ Tail(MintSteps) = <<>>
      /\ Head(MarketplaceSteps) = Step("marketplace")
  BY DEF MarketplaceSteps, AlwaysTopUp, MintSteps
<1>4. job.script = "stark" /\ ~job.reuseStark => StarkJob'
  BY <1>1, ReceiptStark DEF ScriptInv
<1>5. job.script = "4337" /\ ~job.reuse4337 => AAJob'
  BY <1>1, ReceiptAA DEF ScriptInv
<1>6. job.script = "marketplace" => MarketJob'
  <2> SUFFICES ASSUME MarketJob PROVE MarketJob'
    BY DEF ScriptInv
  <2>1. job.todo = MarketplaceSteps /\ job'.todo = <<>>
    BY <1>2, <1>3 DEF MarketJob
  <2> DEFINE contract == [kind |-> "marketplace", mint |-> files.stark.mint]
  <2>2. HeadTx = Create(contract) /\ HeadRole = "marketplace"
    BY <1>3, <2>1, CreatesOf DEF HeadTx, HeadRole, Step
  <2>3. job.sent \in DOMAIN world /\ world[job.sent] = contract
    BY <2>2, ReceivedContract DEF Receives
  <2>4. "marketplace" \in DOMAIN job'.at /\ job'.at["marketplace"] = job.sent
    BY <1>1, <2>2, ReceivedAt
  <2> QED
    BY <1>2, <2>1, <2>3, <2>4 DEF MarketJob, At, Is
<1>7. job.script = "topUp" => TopUpJob'
  BY <1>2, <1>3 DEF ScriptInv, TopUpJob
<1>8. job.script = "mintOne" => job'.todo \in {<<>>, MintSteps}
  BY <1>2, <1>3 DEF ScriptInv
<1> QED
  BY <1>2, <1>4, <1>5, <1>6, <1>7, <1>8 DEF ScriptInv, MintSteps

LEMMA ReceiptShape ==
    ASSUME ChainInv, JobShape, FoundInv, job.todo # <<>>, job.entered, Receives
    PROVE  JobShape' /\ FoundInv' /\ SentInv' /\ ReceivedFields
<1>1. ReceivedFields
  BY ReceivedAre
<1>2. IsSeq(job'.todo)
  BY <1>1, ReceivedTodo DEF JobShape
<1>3. /\ nonce \in Nat /\ nonce' = nonce /\ pool' = pool /\ Len(pool) \in Nat
      /\ files' = files /\ servers' = servers
  BY IsSeqProperties DEF ChainInv, Receives, Stands
<1>4. FutureMint(nonce) \in Nat
  BY <1>3 DEF FutureMint
<1>5. job'.futureMint \in Nat
  BY <1>1, <1>4 DEF JobShape, ReceivedFields
<1>6. Nowhere \in 0 .. nonce' + Len(pool')
  BY <1>3 DEF Nowhere
<1>7. JobShape'
  BY <1>1, <1>2, <1>5, <1>6 DEF JobShape, ReceivedFields
<1>8. ~(Reuses(job) \/ job.script \in {"verify", "backend"})
  BY DEF FoundInv
<1>9. FoundInv'
  BY <1>1, <1>3, <1>8 DEF FoundInv, ReceivedFields, Reuses
<1>10. SentInv'
  BY <1>1 DEF SentInv, ReceivedFields
<1> QED
  BY <1>1, <1>7, <1>9, <1>10

LEMMA ReceiptInv ==
    ASSUME LaunchInv, Receipt
    PROVE  LaunchInv'
<1>1. /\ ChainInv /\ PrivateInv /\ FilesInv /\ ServersInv /\ DepositInv /\ JobInv /\ Bounds
      /\ faults \in Nat /\ job # Idle /\ job.entered /\ JobShape /\ FoundInv /\ OwnInv
      /\ SentInv /\ ScriptInv /\ job.sent \in Nat
      /\ job.sent # Nowhere /\ job.sent <= nonce
  BY LaunchParts DEF Receipt, InScript
<1>2. ~Waits
  BY <1>1 DEF Waits, ChainInv, Pendings
<1>3. job.todo # <<>>
  BY <1>1 DEF FoundInv
<1>4. CASE job.sent \in reverted
  BY <1>2, <1>4, EndInv DEF Receipt
<1>5. CASE job.sent \notin reverted
  <2>1. Receives
    BY <1>1, <1>5 DEF Receipt, Receives, Stands, Mined, HeadRole, chainVars
  <2>2. JobShape' /\ FoundInv' /\ SentInv' /\ ReceivedFields
    BY <1>1, <1>3, <2>1, ReceiptShape
  <2>3. OwnInv'
    BY <1>1, <2>1, <2>2, ReceiptOwn
  <2>4. ScriptInv'
    BY <1>1, <1>3, <2>1, ReceiptScript DEF Bounds
  <2>5. Stands /\ pool' = pool /\ files' = files /\ servers' = servers /\ faults' = faults
    BY <2>1 DEF Receives
  <2>6. ~Waits'
    <3>1. job'.sent = Nowhere /\ nonce \in Nat /\ nonce' = nonce
      BY <1>1, <2>2, <2>5 DEF ReceivedFields, ChainInv, Stands
    <3> QED
      BY <3>1 DEF Waits, Pendings, Nowhere
  <2>7. ServersStop /\ NoneSettles
    BY <1>1, <2>5, ServerStopped, StoppedSettle
  <2>8. ChainInv' /\ PrivateInv' /\ FilesInv' /\ ServersInv' /\ DepositInv'
    BY <1>1, <1>2, <2>5, <2>6, <2>7, ChainStands, PrivateStands, FilesStand, StoppedStand,
       DepositStands
  <2>9. JobInv'
    BY <2>2, <2>3, <2>4 DEF JobInv
  <2>10. Bounds'
    BY <1>1, <2>1 DEF Bounds, Receives, Stands
  <2> QED
    BY <2>8, <2>9, <2>10 DEF LaunchInv, Bounds
<1> QED
  BY <1>4, <1>5

-----------------------------------------------------------------------------
(* A script that is through: what its file says.                           *)
StarkHolds(s) ==
    /\ s = [gate |-> s.gate, mint |-> s.mint, registry |-> s.registry,
            allowlistSigner |-> s.allowlistSigner]
    /\ Is(s.gate, "gate") /\ Is(s.mint, "mint")
    /\ s.mint \in world[s.gate].callers /\ world[s.mint].gate = s.gate
    /\ world[s.gate].signer = s.allowlistSigner
    /\ IF site.local
       THEN /\ Is(s.registry, "layerRegistry")
            /\ Is(world[s.registry].storage, "svgStorage")
            /\ NoTwins => ArtShown(s.registry)
       ELSE s.registry = Nowhere

AAHolds(a) ==
    /\ Is(a.gate, "gate") /\ Is(a.factory, "factory") /\ Is(a.paymaster, "paymaster")
    /\ a.factory \in world[a.gate].callers
    /\ world[a.factory].gate = a.gate /\ world[a.factory].mint = a.mint
    /\ world[a.paymaster].mint = a.mint

MarketHolds(m) == Is(m.marketplace, "marketplace") /\ world[m.marketplace].mint = m.mint

LEMMA FilesHold ==
    FilesInv <=> /\ files = [stark |-> files.stark, aa |-> files.aa, market |-> files.market]
                 /\ files.stark # NoStark => StarkHolds(files.stark)
                 /\ files.aa # NoAA => AAHolds(files.aa)
                 /\ files.market # NoMarket => MarketHolds(files.market)
<1>1. StarkInv <=> (files.stark # NoStark => StarkHolds(files.stark))
  BY DEF StarkInv, StarkHolds
<1>2. AAInv <=> (files.aa # NoAA => AAHolds(files.aa))
  BY DEF AAInv, AAHolds
<1>3. MarketInv <=> (files.market # NoMarket => MarketHolds(files.market))
  BY DEF MarketInv, MarketHolds
<1> QED
  BY <1>1, <1>2, <1>3 DEF FilesInv

LEMMA HoldStands ==
    ASSUME Stands
    PROVE  /\ \A s : StarkHolds(s) => StarkHolds(s)'
           /\ \A a : AAHolds(a) => AAHolds(a)'
           /\ \A m : MarketHolds(m) => MarketHolds(m)'
<1>1. (NoTwins' <=> NoTwins) /\ site' = site /\ world' = world
  BY DEF Stands, NoTwins
<1>2. ASSUME NEW s, StarkHolds(s) PROVE StarkHolds(s)'
  BY <1>1, <1>2, IsStands, ArtShownStands DEF StarkHolds
<1>3. ASSUME NEW a, AAHolds(a) PROVE AAHolds(a)'
  BY <1>1, <1>3, IsStands DEF AAHolds
<1>4. ASSUME NEW m, MarketHolds(m) PROVE MarketHolds(m)'
  BY <1>1, <1>4, IsStands DEF MarketHolds
<1> QED
  BY <1>2, <1>3, <1>4

(* A storage that took the whole plan shows each file's own bytes.         *)
LEMMA ArtComplete ==
    ASSUME site \in Sites, NEW store, StoreOK(store), StoreAt(store, Len(Plan)),
           NEW k \in 1 .. Len(site.files)
    PROVE  Readable(store, k) /\ StoredBytes(store.records[k]) = site.files[k]
<1> DEFINE P == Len(Plan)
<1>1. /\ P \in Nat /\ Cover[P] = Len(site.files) /\ Len(site.files) \in Nat
      /\ RoleBefore(Plan, P + 1) \notin Unfinished
  BY PlanFacts
<1>2. P > 0 => Plan[P].role \notin Unfinished
  <2>1. P > 0 => P + 1 # 1 /\ P + 1 - 1 = P
    BY <1>1
  <2> QED
    BY <1>1, <2>1 DEF RoleBefore
<1> HIDE DEF P
<1>3. Len(store.records) = Len(site.files) /\ k \in 1 .. Cover[P]
  BY <1>1 DEF StoreAt, P
<1>4. store.records[k].contentHash = site.files[k] /\ store.records[k].finalized
  BY <1>2, <1>3 DEF StoreAt, P
<1>5. k \in DOMAIN store.records
  <2>1. IsSeq(store.records)
    BY SeqIsSeq DEF StoreOK, Stores
  <2> QED
    BY <1>1, <1>3, <2>1, IsSeqProperties
<1> QED
  BY <1>4, <1>5 DEF Readable, Known, StoreOK, HoldsContent

LEMMA FinishArt ==
    ASSUME site \in Sites, site.local, ChainInv, StarkTodo, ArtJob, job.todo = <<>>
    PROVE  /\ "svgStorage" \in DOMAIN job.at /\ "layerRegistry" \in DOMAIN job.at
           /\ Is(At("layerRegistry"), "layerRegistry") /\ Is(At("svgStorage"), "svgStorage")
           /\ world[At("layerRegistry")].storage = At("svgStorage")
           /\ NoTwins => ArtShown(At("layerRegistry"))
<1> DEFINE A == Len(ArtSteps)
           P == Len(Plan)
           st == At("svgStorage")
           rg == At("layerRegistry")
<1>1. P \in Nat /\ A = P + 5 /\ Len(StarkSteps) = A + Rotations + 4 /\ Rotations \in {0, 1}
  BY StarkRoles
<1>2. Len(job.todo) = 0
  OBVIOUS
<1>3. Received = P + Rotations + 9
  BY <1>1, <1>2 DEF Received
<1>4. Effective \in Nat /\ Effective >= P + 4 /\ Effective - 2 >= P
  <2>1. Effective = P + Rotations + 9 \/ Effective = P + Rotations + 10
    BY <1>1, <1>3 DEF Effective
  <2> QED
    BY <1>1, <2>1
<1>5. Received >= 1 /\ Received >= 2 /\ Received # 1
  BY <1>1, <1>3
<1>6. Least(Effective - 2, P) = P
  BY <1>1, <1>4 DEF Least
<1>7. /\ "svgStorage" \in DOMAIN job.at /\ "layerRegistry" \in DOMAIN job.at
      /\ Is(rg, "layerRegistry") /\ Is(st, "svgStorage") /\ world[rg].storage = st
  BY <1>5 DEF ArtJob
<1>8. NoTwins => /\ StoreAt(world[st].store, P)
                 /\ world[rg].assets = Bootstrap[site].ids
  BY <1>4, <1>5, <1>6 DEF ArtJob
<1> HIDE DEF P
<1>9. ASSUME NoTwins PROVE ArtShown(rg)
  <2> DEFINE ids == Bootstrap[site].ids
             n == Len(site.files)
             store == world[st].store
  <2>1. ids \in Seq(Nat) /\ Len(ids) = n /\ Numbered(ids) /\ n \in Nat
    BY PlanFacts
  <2>2. DOMAIN ids = 1 .. n /\ \A k \in 1 .. n : ids[k] = k
    BY <2>1 DEF Numbered
  <2>3. StoreOK(store)
    <3>1. ContractOK(world[st])
      BY <1>7 DEF ChainInv, Is
    <3> QED
      BY <1>7, <3>1, ContractFields DEF Is
  <2>4. StoreAt(store, Len(Plan))
    BY <1>8, <1>9 DEF P
  <2> HIDE DEF store
  <2>5. \A k \in 1 .. n : Readable(store, k) /\ StoredBytes(store.records[k]) = site.files[k]
    BY <2>3, <2>4, ArtComplete
  <2>6. world[rg].assets = ids /\ world[world[rg].storage].store = store
    BY <1>7, <1>8, <1>9 DEF store
  <2> HIDE DEF ids, n, st, rg
  <2>7. \A k \in DOMAIN ids : /\ Readable(store, ids[k])
                              /\ StoredBytes(store.records[ids[k]]) = site.files[k]
    BY <2>2, <2>5
  <2> QED
    BY <2>1, <2>6, <2>7 DEF ArtShown, n
<1> QED
  BY <1>7, <1>9

LEMMA FinishStark ==
    ASSUME site \in Sites, ChainInv, StarkJob, job.todo = <<>>
    PROVE  /\ StarkHolds(StarkFile)
           /\ StarkFile.gate \in Addresses
           /\ IF site.local
              THEN StarkFile.registry \in Addresses /\ world[StarkFile.registry].storage \in Addresses
              ELSE StarkFile.registry = Nowhere
<1> DEFINE A == Len(ArtSteps)
<1>1. A \in Nat /\ Len(StarkSteps) = A + Rotations + 4 /\ Rotations \in {0, 1}
  BY StarkRoles
<1>2. Len(job.todo) = 0
  OBVIOUS
<1>3. Received = A + Rotations + 4
  BY <1>1, <1>2 DEF Received
<1>4. Received >= A + 2 /\ Received >= A + 3 + Rotations
  BY <1>1, <1>3
<1>5. Effective >= A + 2 + Rotations
  <2>1. Effective = A + Rotations + 4 \/ Effective = A + Rotations + 5
    BY <1>1, <1>3 DEF Effective
  <2> QED
    BY <1>1, <2>1
<1>6. /\ "gate" \in DOMAIN job.at /\ Is(At("gate"), "gate")
      /\ job.futureMint \in world[At("gate")].callers
      /\ world[At("gate")].signer = env.allowlistSigner
  BY <1>4, <1>5 DEF StarkJob, GateJob
<1>7. /\ "mint" \in DOMAIN job.at /\ Is(At("mint"), "mint") /\ At("mint") = job.futureMint
      /\ world[At("mint")].gate = At("gate")
  BY <1>4 DEF StarkJob, MintJob
<1>8. site.local =>
         /\ "svgStorage" \in DOMAIN job.at /\ "layerRegistry" \in DOMAIN job.at
         /\ Is(At("layerRegistry"), "layerRegistry") /\ Is(At("svgStorage"), "svgStorage")
         /\ world[At("layerRegistry")].storage = At("svgStorage")
         /\ NoTwins => ArtShown(At("layerRegistry"))
  BY FinishArt DEF StarkJob
<1>9. /\ StarkFile.gate = At("gate") /\ StarkFile.mint = At("mint")
      /\ StarkFile.allowlistSigner = env.allowlistSigner
      /\ site.local => StarkFile.registry = At("layerRegistry")
      /\ ~site.local => StarkFile.registry = Nowhere
      /\ StarkFile = [gate |-> StarkFile.gate, mint |-> StarkFile.mint,
                      registry |-> StarkFile.registry,
                      allowlistSigner |-> StarkFile.allowlistSigner]
  BY DEF StarkFile
<1>10. StarkHolds(StarkFile)
  BY <1>6, <1>7, <1>8, <1>9 DEF StarkHolds
<1>11. \A role : role \in DOMAIN job.at => At(role) \in Addresses
  BY DEF Addresses, At
<1> QED
  BY <1>6, <1>8, <1>9, <1>10, <1>11

LEMMA FinishAA ==
    ASSUME AAJob, job.todo = <<>>, Is(files.stark.gate, "gate")
    PROVE  AAHolds(AAFile) /\ AAFile.gate = files.stark.gate
<1>1. Left = 0 /\ 0 <= 3 /\ 0 <= 2 /\ 0 <= 1
  BY DEF Left
<1>2. /\ Is(At("factory"), "factory") /\ world[At("factory")].mint = files.stark.mint
      /\ world[At("factory")].gate = files.stark.gate
      /\ At("factory") \in world[files.stark.gate].callers
      /\ Is(At("paymaster"), "paymaster") /\ world[At("paymaster")].mint = files.stark.mint
  BY <1>1 DEF AAJob
<1> QED
  BY <1>2 DEF AAHolds, AAFile

LEMMA FinishMarket ==
    ASSUME MarketJob, job.todo = <<>>
    PROVE  MarketHolds(MarketplaceFile)
  BY DEF MarketJob, MarketHolds, MarketplaceFile

FilesWritten ==
    /\ files' = [stark |-> files'.stark, aa |-> files'.aa, market |-> files'.market]
    /\ \/ files'.stark = files.stark
       \/ /\ StarkHolds(files'.stark) /\ files'.stark.gate \in Addresses
          /\ IF site.local
             THEN /\ files'.stark.registry \in Addresses
                  /\ world[files'.stark.registry].storage \in Addresses
             ELSE files'.stark.registry = Nowhere
    /\ \/ files'.aa = files.aa
       \/ AAHolds(files'.aa) /\ files'.aa.gate = files.stark.gate
    /\ files'.market = files.market \/ MarketHolds(files'.market)

LEMMA WriteIsTrue ==
    ASSUME site \in Sites, ChainInv, FilesInv, FoundInv, JobShape, ScriptInv, job.entered,
           job.todo = <<>>, files' = WriteFile
    PROVE  FilesWritten /\ (job.script \notin {"stark", "4337", "marketplace"} => files' = files)
<1>1. files = [stark |-> files.stark, aa |-> files.aa, market |-> files.market]
  BY DEF FilesInv
<1>2. CASE Reuses(job) \/ job.script \notin {"stark", "4337", "marketplace"}
  <2>1. files' = files
    BY <1>2 DEF WriteFile
  <2>2. Reuses(job) => job.script \in {"stark", "4337"}
    BY DEF Reuses
  <2> QED
    BY <1>1, <2>1 DEF FilesWritten
<1>3. CASE ~Reuses(job) /\ job.script = "stark"
  <2>1. files' = [files EXCEPT !.stark = StarkFile]
    BY <1>3 DEF WriteFile
  <2>2. files'.stark = StarkFile /\ files'.aa = files.aa /\ files'.market = files.market
        /\ files' = [stark |-> files'.stark, aa |-> files'.aa, market |-> files'.market]
    BY <1>1, <2>1
  <2>3. StarkJob
    BY <1>3 DEF ScriptInv, Reuses
  <2> QED
    BY <1>3, <2>2, <2>3, FinishStark DEF FilesWritten
<1>4. CASE ~Reuses(job) /\ job.script = "4337"
  <2>1. files' = [files EXCEPT !.aa = AAFile]
    BY <1>4 DEF WriteFile
  <2>2. files'.aa = AAFile /\ files'.stark = files.stark /\ files'.market = files.market
        /\ files' = [stark |-> files'.stark, aa |-> files'.aa, market |-> files'.market]
    BY <1>1, <2>1
  <2>3. AAJob
    BY <1>4 DEF ScriptInv, Reuses
  <2>4. Is(files.stark.gate, "gate")
    BY <1>4 DEF FoundInv, FilesInv, StarkInv
  <2> QED
    BY <1>4, <2>2, <2>3, <2>4, FinishAA DEF FilesWritten
<1>5. CASE ~Reuses(job) /\ job.script = "marketplace"
  <2>1. files' = [files EXCEPT !.market = MarketplaceFile]
    BY <1>5 DEF WriteFile
  <2>2. files'.market = MarketplaceFile /\ files'.stark = files.stark /\ files'.aa = files.aa
        /\ files' = [stark |-> files'.stark, aa |-> files'.aa, market |-> files'.market]
    BY <1>1, <2>1
  <2>3. MarketJob
    BY <1>5 DEF ScriptInv
  <2> QED
    BY <1>5, <2>2, <2>3, FinishMarket DEF FilesWritten
<1> QED
  BY <1>2, <1>3, <1>4, <1>5

LEMMA WrittenFiles ==
    ASSUME FilesInv, FilesWritten, Stands
    PROVE  FilesInv'
<1>1. files.stark # NoStark => StarkHolds(files.stark)
  BY FilesHold
<1>2. files.aa # NoAA => AAHolds(files.aa)
  BY FilesHold
<1>3. files.market # NoMarket => MarketHolds(files.market)
  BY FilesHold
<1>4. files'.stark # NoStark => StarkHolds(files'.stark)
  BY <1>1 DEF FilesWritten
<1>5. files'.aa # NoAA => AAHolds(files'.aa)
  BY <1>2 DEF FilesWritten
<1>6. files'.market # NoMarket => MarketHolds(files'.market)
  BY <1>3 DEF FilesWritten
<1>7. /\ \A s : StarkHolds(s) => StarkHolds(s)'
      /\ \A a : AAHolds(a) => AAHolds(a)'
      /\ \A m : MarketHolds(m) => MarketHolds(m)'
  BY HoldStands
<1>8. (FilesInv <=> /\ files = [stark |-> files.stark, aa |-> files.aa, market |-> files.market]
                    /\ files.stark # NoStark => StarkHolds(files.stark)
                    /\ files.aa # NoAA => AAHolds(files.aa)
                    /\ files.market # NoMarket => MarketHolds(files.market))'
  BY FilesHold, PTL
<1> QED
  BY <1>4, <1>5, <1>6, <1>7, <1>8 DEF FilesWritten, NoStark, NoAA, NoMarket

LEMMA WrittenSettle ==
    ASSUME FilesWritten, Stands, ServersStop
    PROVE  Settled' \subseteq Settled \cup Addresses \cup {Nowhere}
<1> DEFINE S == Settled \cup Addresses \cup {Nowhere}
<1>1. /\ files.stark.gate \in S /\ files.aa.gate \in S /\ files.stark.registry \in S
      /\ \A port \in {8787, 8788} : servers[port].gate \in S
      /\ files.stark.registry # Nowhere => world[files.stark.registry].storage \in S
  BY DEF Settled
<1>2. Addresses \subseteq S /\ Nowhere \in S
  OBVIOUS
<1> HIDE DEF S
<1>3. files'.stark.gate \in S /\ files'.aa.gate \in S
  BY <1>1, <1>2 DEF FilesWritten
<1>4. /\ files'.stark.registry \in S
      /\ files'.stark.registry # Nowhere => world[files'.stark.registry].storage \in S
  BY <1>1, <1>2 DEF FilesWritten
<1>5. \A port \in {8787, 8788} : servers'[port].gate \in S
  BY <1>1, <1>2 DEF ServersStop, NoServer
<1>6. world' = world
  BY DEF Stands
<1>7. Settled' \subseteq S
  BY <1>3, <1>4, <1>5, <1>6 DEF Settled
<1> QED
  BY <1>7 DEF S

LEMMA WrittenPrivate ==
    ASSUME ChainInv, PrivateInv, OwnInv, Stands, pool' = pool, job.sent = Nowhere,
           Settled' \subseteq Settled \cup Addresses \cup {Nowhere}
    PROVE  PrivateInv'
<1>1. Pendings' = Pendings /\ \A k : TxAt(k)' = TxAt(k)
  BY PoolSame
<1>2. ASSUME NEW n \in Pendings, TxAt(n).to # Nowhere PROVE TxAt(n).to \notin Addresses
  <2>1. n # Nowhere
    BY DEF ChainInv, Pendings, Nowhere
  <2> QED
    BY <1>2, <2>1 DEF OwnInv
<1> QED
  BY <1>1, <1>2 DEF PrivateInv, Private

NextScript == ScriptOrder[1 + CHOOSE k \in DOMAIN ScriptOrder : ScriptOrder[k] = job.script]

LEMMA NextScriptIs ==
    ASSUME job.script \in Scripts, job.script # "mintOne"
    PROVE  /\ NextScript \in Scripts
           /\ NextScript = "topUp" => job.script = "verify"
           /\ NextScript = "backend" => job.script = "topUp"
           /\ NextScript = "mintOne" => job.script = "backend"
<1> DEFINE k == CHOOSE k \in DOMAIN ScriptOrder : ScriptOrder[k] = job.script
<1>1. /\ DOMAIN ScriptOrder = {1, 2, 3, 4, 5, 6, 7}
      /\ ScriptOrder[1] = "stark" /\ ScriptOrder[2] = "4337" /\ ScriptOrder[3] = "marketplace"
      /\ ScriptOrder[4] = "verify" /\ ScriptOrder[5] = "topUp" /\ ScriptOrder[6] = "backend"
      /\ ScriptOrder[7] = "mintOne"
  BY DEF ScriptOrder
<1>2. \E i \in DOMAIN ScriptOrder : ScriptOrder[i] = job.script
  BY <1>1 DEF Scripts
<1>3. k \in DOMAIN ScriptOrder /\ ScriptOrder[k] = job.script
  BY <1>2
<1>4. NextScript = ScriptOrder[1 + k]
  BY DEF NextScript
<1> HIDE DEF k
<1>5. k \in {1, 2, 3, 4, 5, 6}
  BY <1>1, <1>3
<1>6. /\ k = 1 => NextScript = "4337"
      /\ k = 2 => NextScript = "marketplace"
      /\ k = 3 => NextScript = "verify"
      /\ k = 4 => NextScript = "topUp" /\ job.script = "verify"
      /\ k = 5 => NextScript = "backend" /\ job.script = "topUp"
      /\ k = 6 => NextScript = "mintOne" /\ job.script = "backend"
  <2>1. /\ 1 + 1 = 2 /\ 1 + 2 = 3 /\ 1 + 3 = 4 /\ 1 + 4 = 5 /\ 1 + 5 = 6 /\ 1 + 6 = 7
    OBVIOUS
  <2> QED
    BY <1>1, <1>3, <1>4, <2>1
<1> QED
  BY <1>5, <1>6 DEF Scripts

LEMMA MovesOn ==
    ASSUME ChainInv, JobShape, FoundInv, job.entered, job.todo = <<>>, job.script # "mintOne",
           Stands, pool' = pool, servers' = servers,
           job.script \notin {"stark", "4337", "marketplace"} => files' = files,
           job' = [job EXCEPT !.entered = FALSE, !.script = NextScript]
    PROVE  JobShape' /\ FoundInv' /\ ~job'.entered /\ job'.sent = Nowhere
<1>1. /\ job'.script = NextScript /\ job'.all = job.all /\ job'.entered = FALSE
      /\ job'.reuseStark = job.reuseStark /\ job'.reuse4337 = job.reuse4337
      /\ job'.todo = job.todo /\ job'.at = job.at /\ job'.sent = job.sent
      /\ job'.next = job.next /\ job'.futureMint = job.futureMint
      /\ job'.ownBackend = job.ownBackend
      /\ job' = [script |-> job'.script, all |-> job'.all, entered |-> job'.entered,
              reuseStark |-> job'.reuseStark, reuse4337 |-> job'.reuse4337, todo |-> job'.todo,
              at |-> job'.at, sent |-> job'.sent, next |-> job'.next,
              futureMint |-> job'.futureMint, ownBackend |-> job'.ownBackend,
              fresh |-> job'.fresh]
  BY DEF JobShape
<1>2. /\ NextScript \in Scripts
      /\ NextScript = "topUp" => job.script = "verify"
      /\ NextScript = "backend" => job.script = "topUp"
      /\ NextScript = "mintOne" => job.script = "backend"
  BY NextScriptIs DEF JobShape
<1>3. job.sent = Nowhere
  BY DEF FoundInv
<1>4. JobShape'
  <2>1. job'.entered \in BOOLEAN /\ nonce' = nonce /\ pool' = pool
    BY <1>1 DEF Stands
  <2> QED
    BY <1>1, <1>2, <2>1 DEF JobShape
<1>5. NextScript \in {"topUp", "backend", "mintOne"} =>
         files' = files /\ files.stark # NoStark /\ files.aa # NoAA
  BY <1>2 DEF FoundInv
<1>6. FoundInv'
  <2>1. /\ job'.ownBackend => servers'[8788] # NoServer
    BY <1>1 DEF FoundInv
  <2>2. job'.script \in {"topUp", "backend", "mintOne"} =>
           files'.stark # NoStark /\ files'.aa # NoAA
    BY <1>1, <1>5
  <2> QED
    BY <1>1, <1>3, <2>1, <2>2 DEF FoundInv, NoServer, NoStark, NoAA
<1> QED
  BY <1>1, <1>3, <1>4, <1>6

LEMMA FinishInv ==
    ASSUME LaunchInv, Finish
    PROVE  LaunchInv'
<1>1. /\ ChainInv /\ PrivateInv /\ FilesInv /\ ServersInv /\ DepositInv /\ JobInv /\ Bounds
      /\ faults \in Nat /\ job # Idle /\ job.entered /\ JobShape /\ FoundInv /\ OwnInv
      /\ SentInv /\ ScriptInv /\ job.todo = <<>>
  BY LaunchParts DEF Finish, InScript
<1>2. /\ Stands /\ pool' = pool /\ faults' = faults /\ runs' = runs /\ env' = env
      /\ files' = WriteFile
  BY DEF Finish, Stands, chainVars
<1>3. job.sent = Nowhere /\ site \in Sites
  BY <1>1 DEF FoundInv, Bounds
<1>4. FilesWritten /\ (job.script \notin {"stark", "4337", "marketplace"} => files' = files)
  BY <1>1, <1>2, <1>3, WriteIsTrue
<1>5. /\ servers' = servers \/ (\E port \in {8787, 8788} :
                                   servers' = [servers EXCEPT ![port] = NoServer])
      /\ last' \in {"none", "done", "minted", "refused", "interrupted"}
      /\ JobInv' /\ ~Waits'
  <2>1. nonce \in Nat /\ nonce' = nonce /\ Nowhere \notin Pendings'
    BY <1>1, <1>2 DEF ChainInv, Stands, Pendings, Nowhere
  <2>2. ASSUME NEW outcome \in {"minted", "done"}, End(outcome)
        PROVE  /\ servers' = servers \/ (\E port \in {8787, 8788} :
                                            servers' = [servers EXCEPT ![port] = NoServer])
               /\ last' \in {"none", "done", "minted", "refused", "interrupted"}
               /\ JobInv' /\ ~Waits'
    <3>1. job' = Idle /\ last' = outcome
      BY <2>2 DEF End
    <3> QED
      BY <2>2, <3>1 DEF End, JobInv, Waits
  <2>3. CASE /\ job.script # "mintOne" /\ servers' = servers /\ last' = last
             /\ job' = [job EXCEPT !.entered = FALSE, !.script = NextScript]
    <3>1. JobShape' /\ FoundInv' /\ ~job'.entered /\ job'.sent = Nowhere
      BY <1>1, <1>2, <1>4, <2>3, MovesOn
    <3> QED
      BY <1>1, <2>1, <2>3, <3>1 DEF JobInv, Waits, Bounds
  <2> QED
    BY <2>2, <2>3 DEF Finish, NextScript
<1>6. ServersStop
  BY <1>1, <1>5, ServerStopped
<1>7. Settled' \subseteq Settled \cup Addresses \cup {Nowhere}
  BY <1>2, <1>4, <1>6, WrittenSettle
<1>8. ~Waits
  BY <1>1, <1>3 DEF Waits, ChainInv, Pendings, Nowhere
<1>9. ChainInv' /\ PrivateInv' /\ FilesInv' /\ ServersInv' /\ DepositInv'
  BY <1>1, <1>2, <1>3, <1>4, <1>5, <1>6, <1>7, <1>8, ChainStands, WrittenPrivate, WrittenFiles,
     StoppedStand, DepositStands
<1>10. Bounds'
  BY <1>1, <1>2, <1>5 DEF Bounds, Stands
<1> QED
  BY <1>5, <1>9, <1>10 DEF LaunchInv, Bounds

-----------------------------------------------------------------------------
LEMMA InitInv == Init => LaunchInv
<1> SUFFICES ASSUME Init PROVE LaunchInv
  OBVIOUS
<1>1. /\ nonce = 0 /\ pool = <<>> /\ world = <<>> /\ reverted = {} /\ job = Idle
      /\ files = [stark |-> NoStark, aa |-> NoAA, market |-> NoMarket]
      /\ servers = [port \in {8787, 8788} |-> NoServer]
  BY DEF Init
<1>2. Pendings = {} /\ IsSeq(pool)
  <2>1. IsSeq(pool)
    BY <1>1 DEF IsSeq
  <2>2. Len(pool) = 0
    BY <1>1
  <2> QED
    BY <1>1, <2>1, <2>2 DEF Pendings
<1>3. DOMAIN world = {}
  BY <1>1
<1>4. ChainInv /\ PrivateInv /\ DepositInv
  BY <1>1, <1>2, <1>3 DEF ChainInv, PrivateInv, DepositInv
<1>5. FilesInv
  BY <1>1 DEF FilesInv, StarkInv, AAInv, MarketInv
<1>6. ServersInv
  BY <1>1 DEF ServersInv, ServerInv
<1>7. JobInv
  BY <1>1 DEF JobInv
<1>8. Bounds
  BY LaunchAssumption DEF Init, Bounds
<1> QED
  BY <1>4, <1>5, <1>6, <1>7, <1>8 DEF LaunchInv, Bounds

LEMMA StutterInv ==
    ASSUME LaunchInv, UNCHANGED vars
    PROVE  LaunchInv'
<1>1. /\ ChainInv /\ PrivateInv /\ FilesInv /\ ServersInv /\ DepositInv /\ JobInv /\ Bounds
      /\ faults \in Nat /\ job # Idle => JobShape
  BY LaunchParts
<1>2. /\ Stands /\ pool' = pool /\ files' = files /\ servers' = servers /\ job' = job
      /\ UNCHANGED <<env, last, runs, faults>>
  BY DEF vars, chainVars, Stands
<1>3. ServersStop
  BY <1>1, <1>2, ServerStopped
<1>4. ServersInv' /\ NoneSettles
  BY <1>1, <1>2, <1>3, StoppedStand, StoppedSettle
<1> QED
  BY <1>2, <1>4, ServerOpsInv

LEMMA StartSomeInv ==
    ASSUME LaunchInv, StartSome
    PROVE  LaunchInv'
<1>1. ASSUME NEW force \in BOOLEAN, StartRun(TRUE, "stark", force, FALSE)
      PROVE  LaunchInv'
  BY <1>1, StartRunInv
<1>2. ASSUME NEW force \in BOOLEAN, NEW reuse \in BOOLEAN,
             NEW script \in {"stark", "4337", "marketplace", "verify"},
             StartRun(FALSE, script, force, reuse)
      PROVE  LaunchInv'
  BY <1>2, StartRunInv
<1> QED
  BY <1>1, <1>2 DEF StartSome

LEMMA OperatorInv ==
    ASSUME LaunchInv, OperatorStep
    PROVE  LaunchInv'
<1>1. CASE StartSome
  BY <1>1, StartSomeInv
<1>2. ASSUME NEW orphan \in BOOLEAN, Interrupt(orphan) PROVE LaunchInv'
  BY <1>2, InterruptInv
<1>3. ASSUME NEW e \in Envs, EditEnv(e) PROVE LaunchInv'
  BY <1>3, EditEnvInv
<1>4. CASE StartServer
  BY <1>4, StartServerInv
<1>5. ASSUME NEW port \in {8787, 8788}, StopServer(port) PROVE LaunchInv'
  BY <1>5, StopServerInv
<1> QED
  BY <1>1, <1>2, <1>3, <1>4, <1>5 DEF OperatorStep

LEMMA StepInv == LaunchInv /\ [Next]_vars => LaunchInv'
<1> SUFFICES ASSUME LaunchInv, [Next]_vars PROVE LaunchInv'
  OBVIOUS
<1>1. CASE UNCHANGED vars
  BY <1>1, StutterInv
<1>2. CASE Mine
  BY <1>2, MineInv
<1>3. CASE ScriptStep
  BY <1>3, EnterInv, SendInv, ReceiptInv, FinishInv DEF ScriptStep
<1>4. CASE OperatorStep
  BY <1>4, OperatorInv
<1>5. CASE OtherTx
  BY <1>5, OtherTxInv
<1> QED
  BY <1>1, <1>2, <1>3, <1>4, <1>5 DEF Next

(* LaunchInv holds throughout: chain, files, servers and the script that   *)
(* runs agree, whatever was interrupted, sent besides or edited before.    *)
THEOREM LaunchInvariant == Spec => []LaunchInv
<1>1. Init => LaunchInv
  BY InitInv
<1>2. LaunchInv /\ [Next]_vars => LaunchInv'
  BY StepInv
<1> QED
  BY <1>1, <1>2, PTL DEF Spec

(* The types: the files name contracts that exist, and a paymaster holds   *)
(* one deposit and at most one more for each interruption.                 *)
THEOREM LaunchTypesCorrect == Spec => []LaunchTypeOK
<1>1. LaunchInv => LaunchTypeOK
  <2> SUFFICES ASSUME LaunchInv PROVE LaunchTypeOK
    OBVIOUS
  <2>1. /\ ChainInv /\ FilesInv /\ DepositInv /\ Bounds /\ faults \in Nat
        /\ job # Idle => JobShape /\ FoundInv
    BY LaunchParts
  <2>2. \A f \in {files.stark.gate, files.stark.mint, files.stark.registry, files.aa.factory,
                   files.aa.paymaster, files.market.marketplace} \ {Nowhere} : f \in DOMAIN world
    <3>1. {files.stark.gate, files.stark.mint, files.stark.registry} \ {Nowhere} \subseteq DOMAIN world
      BY <2>1 DEF FilesInv, StarkInv, Is, NoStark
    <3>2. {files.aa.factory, files.aa.paymaster} \ {Nowhere} \subseteq DOMAIN world
      BY <2>1 DEF FilesInv, AAInv, Is, NoAA
    <3>3. {files.market.marketplace} \ {Nowhere} \subseteq DOMAIN world
      BY <2>1 DEF FilesInv, MarketInv, Is, NoMarket
    <3> QED
      BY <3>1, <3>2, <3>3
  <2>3. ASSUME NEW a \in DOMAIN world, world[a].kind = "paymaster"
        PROVE  world[a].deposit \in 0 .. 1 + faults
    <3>1. world[a].deposit + Cardinality(DepositsTo(a)) <= 1 + faults
      BY <2>1, <2>3 DEF DepositInv
    <3>2. world[a].deposit \in Nat
      BY <2>1, <2>3, ContractFields DEF ChainInv
    <3>3. Cardinality(DepositsTo(a)) \in Nat
      BY <2>1, DepositsFinite
    <3> QED
      BY <2>1, <3>1, <3>2, <3>3
  <2>4. job # Idle => /\ job.sent \in 0 .. nonce + Len(pool)
                      /\ job.ownBackend => servers[8788] # NoServer
    BY <2>1 DEF JobShape, FoundInv
  <2> QED
    BY <2>1, <2>2, <2>3, <2>4 DEF LaunchTypeOK, ChainInv, Bounds
<1> QED
  BY <1>1, LaunchInvariant, PTL

(* What a deployment file says is so on the chain.                         *)
THEOREM FilesTrue == Spec => []FilesAreTrue
<1>1. LaunchInv => FilesAreTrue
  <2> SUFFICES ASSUME LaunchInv PROVE FilesAreTrue
    OBVIOUS
  <2>1. FilesInv
    BY LaunchParts
  <2>2. files.stark # NoStark =>
           LET s == files.stark
           IN /\ s.mint \in world[s.gate].callers /\ world[s.mint].gate = s.gate
              /\ world[s.gate].signer = s.allowlistSigner
              /\ site.local /\ NoTwins => ArtShown(s.registry)
    BY <2>1 DEF FilesInv, StarkInv
  <2>3. files.aa # NoAA =>
           LET a == files.aa
           IN /\ a.factory \in world[a.gate].callers
              /\ world[a.factory].gate = a.gate /\ world[a.factory].mint = a.mint
              /\ world[a.paymaster].mint = a.mint
    BY <2>1 DEF FilesInv, AAInv
  <2>4. files.market # NoMarket => world[files.market.marketplace].mint = files.market.mint
    BY <2>1 DEF FilesInv, MarketInv
  <2> QED
    BY <2>2, <2>3, <2>4 DEF FilesAreTrue
<1> QED
  BY <1>1, LaunchInvariant, PTL

(* A server that is up serves one drop that works.                         *)
THEOREM ServedDropsWork == Spec => []ServedDropWorks
<1>1. LaunchInv => ServedDropWorks
  <2> SUFFICES ASSUME LaunchInv PROVE ServedDropWorks
    OBVIOUS
  <2>1. ServersInv
    BY LaunchParts
  <2>2. DOMAIN servers = {8787, 8788}
    BY <2>1 DEF ServersInv
  <2> QED
    BY <2>1, <2>2 DEF ServersInv, ServerInv, ServedDropWorks
<1> QED
  BY <1>1, LaunchInvariant, PTL
=============================================================================
