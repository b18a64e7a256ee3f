------------------------------ MODULE Release ------------------------------
(***************************************************************************)
(* Publishing the art: scripts/deploy-sepolia.mjs and upload-svgs.mjs over *)
(* src/sepolia-pipeline.mjs.  One script runs at a time and each of its    *)
(* transactions is awaited, but the wait may time out while the            *)
(* transaction stays pending: it is mined later, before those sent after   *)
(* it (one signer, consecutive nonces), or dropped.  A script that throws  *)
(* loses its memory; the chain and the files on disk stay.                 *)
(***************************************************************************)
EXTENDS LayerCatalog, SVGStorage, PhilNFT

CONSTANTS
    Files,              \* every file the art directory may hold
    Trees,              \* bound: the directories to start from
    BytesOf,            \* the content of each file at the start
    Edits,              \* bound: pairs of a file and the content it may be given
    SmallBatchMaxItems, SmallBatchMaxBytes, RegisterBatchSize,
    MaxFailures,        \* bound: timeouts and transactions out of gas
    MaxDeploys, MaxUploads, \* bound: runs of each script
    MaxTokens           \* bound: tokens minted

ASSUME ReleaseAssumption ==
    /\ Trees \subseteq SUBSET Files
    /\ BytesOf \in [Files -> Contents]
    /\ Edits \subseteq [file : Files, bytes : Contents]
    /\ RegisterBatchSize \in Nat \ {0}

VARIABLES
    art,        \* the directory: its files, what the catalog makes of them, their bytes,
                \* whether one was edited
    chain,      \* the contracts deployed by the signer, in order
    mempool,    \* the signer's pending transactions, by nonce
    receipt,    \* what the transaction the script waits for came to
    disk,       \* layer-catalog, upload-state, upload-manifest and addresses files
    job,        \* the running script
    spent,      \* counters behind the bounds
    tokens      \* minted Phils

vars == <<art, chain, mempool, receipt, disk, job, spent, tokens>>

NoIds == [f \in Files |-> 0]
NoCatalog == [ok |-> FALSE]
Idle == [pc |-> "idle"]

Init ==
    /\ \E tree \in Trees : art = [tree |-> tree, catalog |-> BuildLayerCatalog(tree),
                                 bytes |-> BytesOf, edited |-> FALSE]
    /\ chain = [storages |-> <<>>, registries |-> <<>>, nfts |-> <<>>]
    /\ mempool = <<>> /\ receipt = "none"
    /\ disk = [catalog |-> NoCatalog, state |-> [storage |-> 0, files |-> NoIds],
               manifest |-> [storage |-> 0, files |-> NoIds],
               addresses |-> [storage |-> 0, registry |-> 0, nft |-> 0]]
    /\ job = Idle
    /\ spent = [failures |-> 0, deploys |-> 0, uploads |-> 0]
    /\ tokens = <<>>

----------------------------------------------------------------------------
(* The chain.                                                              *)

AtStorage(tx) ==
    LET store == chain.storages[tx.at]
    IN CASE tx.op = "storeSvgBatch" -> StoreSvgBatch(store, tx.svgs)
         [] tx.op = "initializeChunkedSvg" ->
                InitializeChunkedSvg(store, tx.size, tx.hash, tx.expected)
         [] tx.op = "appendChunks" -> AppendChunks(store, tx.id, tx.chunks)
         [] OTHER -> FinalizeChunkedSvg(store, tx.id)

AtRegistry(tx) ==
    LET registry == chain.registries[tx.at]
    IN CASE tx.op = "registerLayers" -> RegisterLayers(registry, tx.inputs)
         [] tx.op = "registerAssets" -> RegisterAssets(registry, tx.inputs)
         [] OTHER -> RegisterVariants(registry, tx.inputs)

Execute(tx) ==
    CASE tx.to = "create" ->
           [ok |-> TRUE,
            chain |-> CASE tx.op = "PhilSVGStorage" -> [chain EXCEPT !.storages = Append(@, EmptyStore)]
                        [] tx.op = "PhilLayerRegistry" ->
                             [chain EXCEPT !.registries = Append(@, EmptyRegistry(tx.storage))]
                        [] OTHER -> [chain EXCEPT !.nfts = Append(@, [registry |-> tx.registry,
                                                                      storage |-> tx.storage])]]
      [] tx.to = "storage" ->
           LET r == AtStorage(tx)
           IN [ok |-> r.ok, chain |-> [chain EXCEPT !.storages[tx.at] = r.store]]
      [] OTHER ->
           LET r == AtRegistry(tx)
           IN [ok |-> r.ok, chain |-> [chain EXCEPT !.registries[tx.at] = r.registry]]

Waiting == job.pc \in {"storage", "batch", "init", "append", "finalize", "registry", "register", "nft"}

MineWith(ok, after) ==
    /\ mempool # <<>>
    /\ chain' = after
    /\ mempool' = Tail(mempool)
    /\ receipt' = IF Waiting /\ Len(mempool) = 1
                  THEN (IF ok THEN "success" ELSE "reverted") ELSE receipt
    /\ UNCHANGED <<art, disk, job, tokens>>

Mine ==
    /\ mempool # <<>>
    /\ LET r == Execute(Head(mempool)) IN MineWith(r.ok, r.chain)
    /\ UNCHANGED spent

(* A batch of several files may need more gas than a block has.            *)
MineOutOfGas ==
    /\ mempool # <<>>
    /\ Head(mempool).op = "storeSvgBatch" /\ Len(Head(mempool).svgs) > 1
    /\ spent.failures < MaxFailures
    /\ MineWith(FALSE, chain)
    /\ spent' = [spent EXCEPT !.failures = @ + 1]

Drop ==
    /\ ~Waiting /\ mempool # <<>>
    /\ mempool' = Front(mempool)
    /\ UNCHANGED <<art, chain, receipt, disk, job, spent, tokens>>

----------------------------------------------------------------------------
(* The script.                                                             *)

Store == chain.storages[job.storage]
FileAt == disk.catalog.assets[job.i]
Bytes(f) == art.bytes[f]
Chunked(f) == Len(disk.catalog.bytes[f]) > SingleUploadLimit

Send(tx, next) ==
    /\ mempool' = Append(mempool, tx)
    /\ receipt' = "none"
    /\ job' = next
    /\ UNCHANGED <<art, chain, disk, spent, tokens>>

Goto(next) ==
    /\ job' = next
    /\ receipt' = "none"
    /\ UNCHANGED <<art, chain, mempool, disk, spent, tokens>>

(* A call whose gas estimate reverts throws before it is sent.             *)
SendIfAccepted(tx, next) == IF Execute(tx).ok THEN Send(tx, next) ELSE Goto(Idle)

Succeeded(pc) == job.pc = pc /\ mempool = <<>> /\ receipt = "success"

StateOfAnyStorage(storage) == disk.state.files
StateOf(storage) == IF disk.state.storage = storage THEN disk.state.files ELSE NoIds

BeginUpload(kind, storage) ==
    [pc |-> "scan", kind |-> kind, storage |-> storage, i |-> 1, pending |-> <<>>, batches |-> <<>>,
     then |-> "scan", ids |-> <<>>, registry |-> 0, plan |-> <<>>, manifest |-> NoIds,
     state |-> StateOf(storage)]

BuiltCatalog ==
    [ok |-> art.catalog.ok, layers |-> art.catalog.layers, assets |-> art.catalog.assets,
     bytes |-> art.bytes]

(* deploy-sepolia.mjs: the storage named by the environment, else by the   *)
(* addresses file, else a new one.                                         *)
StartDeploy ==
    /\ job.pc = "idle" /\ spent.deploys < MaxDeploys
    /\ LET catalog == BuiltCatalog
       IN catalog.ok /\ disk' = [disk EXCEPT !.catalog = catalog]
    /\ spent' = [spent EXCEPT !.deploys = @ + 1]
    /\ \E requested \in 0 .. Len(chain.storages) :
          LET storage == IF requested # 0 THEN requested ELSE disk.addresses.storage
          IN IF storage # 0
             THEN job' = BeginUpload("deploy", storage) /\ UNCHANGED <<mempool, receipt>>
             ELSE /\ job' = [pc |-> "storage"]
                  /\ mempool' = Append(mempool, [to |-> "create", op |-> "PhilSVGStorage"])
                  /\ receipt' = "none"
    /\ UNCHANGED <<art, chain, tokens>>

StorageDeployed ==
    /\ Succeeded("storage")
    /\ Goto(BeginUpload("deploy", Len(chain.storages)))

(* upload-svgs.mjs: the catalog file is used as it is when there is one.   *)
StartUpload ==
    /\ job.pc = "idle" /\ spent.uploads < MaxUploads
    /\ LET catalog == IF disk.catalog = NoCatalog THEN BuiltCatalog ELSE disk.catalog
       IN catalog.ok /\ disk' = [disk EXCEPT !.catalog = catalog]
    /\ spent' = [spent EXCEPT !.uploads = @ + 1]
    /\ \E storage \in DOMAIN chain.storages : job' = BeginUpload("upload", storage)
    /\ UNCHANGED <<art, chain, mempool, receipt, tokens>>

(* ensureExistingRecord                                                    *)
Holds(id, f) == Readable(Store, id) /\ Store.records[id].contentHash = Bytes(f)
StoredAs(f) ==
    LET known == job.state[f]
        found == Store.svgIdForHash[Bytes(f)]
    IN IF known # 0 /\ Holds(known, f) THEN known
       ELSE IF found # 0 /\ Holds(found, f) THEN found ELSE 0

(* Entries of the upload state and of the manifest; the state file is      *)
(* written at once.                                                        *)
Enter(entries, next) ==
    LET state == [f \in Files |-> IF f \in DOMAIN entries THEN entries[f] ELSE job.state[f]]
    IN /\ job' = [next EXCEPT !.state = state,
                     !.manifest = [f \in Files |->
                         IF f \in DOMAIN entries THEN entries[f] ELSE job.manifest[f]]]
       /\ disk' = [disk EXCEPT !.state = [storage |-> job.storage, files |-> state]]
       /\ receipt' = "none"
       /\ UNCHANGED <<art, chain, mempool, spent, tokens>>

Scanning == job.pc = "scan" /\ job.i <= Len(disk.catalog.assets)

AlreadyStored ==
    /\ Scanning /\ StoredAs(FileAt) # 0
    /\ Enter([f \in {FileAt} |-> StoredAs(f)], [job EXCEPT !.i = @ + 1])

SumOfSizes(files) == FoldLeft(LAMBDA sum, f : sum + Len(disk.catalog.bytes[f]), 0, files)
Flush(next, then) == [next EXCEPT !.pc = "flush", !.then = then, !.batches =
                         IF next.pending = <<>> THEN <<>> ELSE <<next.pending>>,
                      !.pending = <<>>]

CollectSmall ==
    /\ Scanning /\ StoredAs(FileAt) = 0 /\ ~Chunked(FileAt)
    /\ LET next == [job EXCEPT !.i = @ + 1, !.pending = Append(@, FileAt)]
       IN Goto(IF \/ Len(next.pending) >= SmallBatchMaxItems
                  \/ SumOfSizes(next.pending) >= SmallBatchMaxBytes
               THEN Flush(next, "scan") ELSE next)

MeetChunked ==
    /\ Scanning /\ StoredAs(FileAt) = 0 /\ Chunked(FileAt)
    /\ Goto(Flush(job, "chunked"))

EndScan ==
    /\ job.pc = "scan" /\ job.i > Len(disk.catalog.assets)
    /\ Goto(Flush(job, "finish"))

FirstHalf(batches) ==
    LET batch == Head(batches)
    IN <<SubSeq(batch, 1, (Len(batch) + 1) \div 2)>> \o Tail(batches)
Halved(batches) ==
    LET batch == Head(batches)
        half == (Len(batch) + 1) \div 2
    IN <<SubSeq(batch, 1, half), SubSeq(batch, half + 1, Len(batch))>> \o Tail(batches)

BatchFailed ==
    IF Len(Head(job.batches)) = 1 THEN Idle
    ELSE [job EXCEPT !.pc = "flush", !.batches = Halved(@)]

(* The ids are those of a call before the transaction is sent.             *)
SendBatch ==
    /\ job.pc = "flush" /\ job.batches # <<>>
    /\ LET batch == Head(job.batches)
           svgs == [k \in DOMAIN batch |-> Bytes(batch[k])]
           predicted == StoreSvgBatch(Store, svgs)
       IN IF predicted.ok
          THEN Send([to |-> "storage", op |-> "storeSvgBatch", at |-> job.storage, svgs |-> svgs],
                    [job EXCEPT !.pc = "batch", !.ids = predicted.id])
          ELSE Goto(BatchFailed)

BatchStored ==
    /\ Succeeded("batch")
    /\ LET batch == Head(job.batches)
       IN Enter([f \in ToSet(batch) |-> job.ids[CHOOSE k \in DOMAIN batch : batch[k] = f]],
                [job EXCEPT !.pc = "flush", !.batches = Tail(@), !.ids = <<>>])

Flushed ==
    /\ job.pc = "flush" /\ job.batches = <<>>
    /\ Goto([job EXCEPT !.pc = job.then])

Resumed(f) == job.state[f]
StartChunked ==
    /\ job.pc = "chunked"
    /\ LET chunks == ChunksOf(Bytes(FileAt))
           tx == [to |-> "storage", op |-> "initializeChunkedSvg", at |-> job.storage,
                  size |-> Len(disk.catalog.bytes[FileAt]), hash |-> Bytes(FileAt),
                  expected |-> Len(chunks)]
       IN IF Resumed(FileAt) # 0
          THEN Goto([job EXCEPT !.pc = "chunks", !.ids = Resumed(FileAt)])
          ELSE SendIfAccepted(tx, [job EXCEPT !.pc = "init", !.ids = AtStorage(tx).id])

Initialized ==
    /\ Succeeded("init")
    /\ Goto([job EXCEPT !.pc = "chunks"])

MissingChunks == LET chunks == ChunksOf(Bytes(FileAt))
                 IN SubSeq(chunks, Len(Store.records[job.ids].chunkPointers) + 1, Len(chunks))

UploadChunks ==
    /\ job.pc = "chunks"
    /\ IF MissingChunks # <<>>
       THEN SendIfAccepted([to |-> "storage", op |-> "appendChunks", at |-> job.storage,
                            id |-> job.ids, chunks |-> MissingChunks],
                           [job EXCEPT !.pc = "append"])
       ELSE Goto([job EXCEPT !.pc = "complete"])

Appended ==
    /\ Succeeded("append")
    /\ Goto([job EXCEPT !.pc = "complete"])

ChunkedEntry ==
    Enter([f \in {FileAt} |-> job.ids], [job EXCEPT !.pc = "scan", !.i = @ + 1, !.ids = <<>>])

Complete ==
    /\ job.pc = "complete"
    /\ IF Store.records[job.ids].finalized THEN ChunkedEntry
       ELSE SendIfAccepted([to |-> "storage", op |-> "finalizeChunkedSvg", at |-> job.storage,
                            id |-> job.ids],
                           [job EXCEPT !.pc = "finalize"])

Finalized == Succeeded("finalize") /\ ChunkedEntry

(* The upload manifest is written; a deployment goes on with a registry of *)
(* its own.                                                                *)
FinishUpload ==
    /\ job.pc = "finish"
    /\ disk' = [disk EXCEPT !.manifest = [storage |-> job.storage, files |-> job.manifest]]
    /\ receipt' = "none"
    /\ IF job.kind = "upload" THEN job' = Idle /\ UNCHANGED mempool
       ELSE /\ job' = [job EXCEPT !.pc = "registry"]
            /\ mempool' = Append(mempool, [to |-> "create", op |-> "PhilLayerRegistry",
                                          storage |-> job.storage])
    /\ UNCHANGED <<art, chain, spent, tokens>>

Batches(items) ==
    [b \in 1 .. (Len(items) + RegisterBatchSize - 1) \div RegisterBatchSize |->
        SubSeq(items, (b - 1) * RegisterBatchSize + 1,
               Smaller(b * RegisterBatchSize, Len(items)))]

AssetIdByKey(f) == CHOOSE i \in DOMAIN disk.catalog.assets : disk.catalog.assets[i] = f

(* The ids that variants refer to are counted, not read back.              *)
LayerRegistrations(registry, l) ==
    LET layer == disk.catalog.layers[l]
        ToRegistry(op, inputs) ==
            [to |-> "registry", op |-> op, at |-> registry, inputs |-> inputs]
        registered == {i \in DOMAIN layer.assets :
                          AssetIdByKey(layer.assets[i]) < NextAssetId(chain.registries[registry])}
        new == SubSeq(layer.assets, Cardinality(registered) + 1, Len(layer.assets))
        assets == [i \in DOMAIN new |-> [layerId |-> l - 1, storageId |-> job.manifest[new[i]]]]
        variants == [i \in DOMAIN layer.variants |->
            [layerId |-> l - 1, color |-> layer.variants[i].color,
             assetIds |-> [k \in DOMAIN layer.variants[i].assets |->
                              AssetIdByKey(layer.variants[i].assets[k])]]]
    IN [b \in DOMAIN Batches(assets) |-> ToRegistry("registerAssets", Batches(assets)[b])]
       \o [b \in DOMAIN Batches(variants) |-> ToRegistry("registerVariants", Batches(variants)[b])]

Registrations(registry) ==
    LET layers == disk.catalog.layers
    IN <<[to |-> "registry", op |-> "registerLayers", at |-> registry,
          inputs |-> [l \in DOMAIN layers |->
                         [name |-> layers[l].name, min |-> layers[l].min, max |-> layers[l].max]]]>>
       \o FlattenSeq([l \in DOMAIN layers |-> LayerRegistrations(registry, l)])

RegisterNext(next) ==
    IF next.plan # <<>>
    THEN Send(Head(next.plan), [next EXCEPT !.pc = "register", !.plan = Tail(@)])
    ELSE Send([to |-> "create", op |-> "PhilNFT", registry |-> next.registry,
               storage |-> next.storage],
              [next EXCEPT !.pc = "nft"])

RegistryDeployed ==
    /\ Succeeded("registry")
    /\ LET registry == Len(chain.registries)
       IN RegisterNext([job EXCEPT !.registry = registry, !.plan = Registrations(registry)])

Registered == Succeeded("register") /\ RegisterNext(job)

Publish ==
    /\ Succeeded("nft")
    /\ disk' = [disk EXCEPT !.addresses = [storage |-> job.storage, registry |-> job.registry,
                                           nft |-> Len(chain.nfts)]]
    /\ job' = Idle
    /\ receipt' = "none"
    /\ UNCHANGED <<art, chain, mempool, spent, tokens>>

Failed == IF job.pc = "batch" THEN BatchFailed ELSE Idle

SeeRevert ==
    /\ Waiting /\ receipt = "reverted"
    /\ Goto(Failed)

(* waitForReceiptWithTimeout gives up; the transaction may still be mined. *)
TimeOut ==
    /\ Waiting /\ spent.failures < MaxFailures
    /\ spent' = [spent EXCEPT !.failures = @ + 1]
    /\ job' = Failed
    /\ receipt' = "none"
    /\ UNCHANGED <<art, chain, mempool, disk, tokens>>

----------------------------------------------------------------------------
(* The artist edits a file between two runs; anyone mints.                 *)

Edit ==
    /\ job.pc = "idle" /\ ~art.edited
    /\ \E e \in Edits : art' = [art EXCEPT !.bytes[e.file] = e.bytes, !.edited = TRUE]
    /\ UNCHANGED <<chain, mempool, receipt, disk, job, spent, tokens>>

(* The page mints from the published collection.  Bound: when the runs are *)
(* over; what a token reads only grows.                                    *)
Mint ==
    /\ Len(tokens) < MaxTokens /\ spent.deploys = MaxDeploys /\ spent.uploads = MaxUploads
    /\ job.pc = "idle" /\ mempool = <<>> /\ disk.addresses.nft # 0
    /\ \E phil \in Mintable(chain.registries[chain.nfts[disk.addresses.nft].registry]) :
          tokens' = Append(tokens, [slots |-> phil.slots, counts |-> phil.counts,
                                    nft |-> disk.addresses.nft])
    /\ UNCHANGED <<art, chain, mempool, receipt, disk, job, spent>>

Upload ==
    \/ AlreadyStored \/ CollectSmall \/ MeetChunked \/ EndScan
    \/ SendBatch \/ BatchStored \/ Flushed
    \/ StartChunked \/ Initialized \/ UploadChunks \/ Appended \/ Complete \/ Finalized
    \/ FinishUpload

Script ==
    \/ StorageDeployed \/ Upload \/ RegistryDeployed \/ Registered \/ Publish \/ SeeRevert

Next ==
    \/ StartDeploy \/ StartUpload \/ Script \/ TimeOut
    \/ Mine \/ MineOutOfGas \/ Drop
    \/ Edit \/ Mint

(* The chain mines what is pending, a running script goes on, and the      *)
(* operator runs a deployment that failed again.                           *)
Fairness == WF_vars(Mine) /\ WF_vars(Script) /\ WF_vars(StartDeploy)

Spec == Init /\ [][Next]_vars /\ Fairness

----------------------------------------------------------------------------
(* The script waits for the last pending transaction and has its receipt   *)
(* when nothing is pending; the files on disk name contracts and records   *)
(* that exist.                                                             *)
ReleaseTypeOK ==
    /\ Waiting => (receipt = "none" <=> mempool # <<>>)
    /\ ~Waiting => receipt = "none"
    /\ disk.state.storage \in 0 .. Len(chain.storages)
    /\ \A f \in Files : disk.state.files[f] # 0 =>
            Known(chain.storages[disk.state.storage], disk.state.files[f])
    /\ disk.addresses.nft \in 0 .. Len(chain.nfts)

(* Whatever was resumed, retried, sent twice or edited on the way, the     *)
(* chunks of a finalized record are the bytes its hash announces, and no   *)
(* storage holds the same content under two ids.                           *)
RecordsHoldTheirContent ==
    \A s \in DOMAIN chain.storages :
        LET records == chain.storages[s].records
        IN /\ \A r \in DOMAIN records :
                 records[r].finalized => StoredBytes(records[r]) = records[r].contentHash
           /\ \A q, r \in DOMAIN records : records[q].contentHash = records[r].contentHash => q = r

(* A script that ends leaves a manifest that names, for each file of the    *)
(* catalog, a readable record with the bytes of that file: ids predicted   *)
(* by a call before a transaction stay right when older transactions are   *)
(* mined in between.  It holds as long as the files are not edited: the    *)
(* uploader does not compare an edited file with the record that its id    *)
(* names.                                                                  *)
ManifestNamesContent ==
    ~art.edited /\ disk.manifest.storage # 0 =>
        \A f \in ToSet(art.catalog.assets) :
            LET store == chain.storages[disk.manifest.storage]
                id == disk.manifest.files[f]
            IN Readable(store, id) /\ store.records[id].contentHash = art.bytes[f]

(* Every variant a minted Phil shows is a variant of its layer, shown once, *)
(* and every asset under it reads back, from the storage the collection is *)
(* bound to, the bytes of the file that the catalog gives that number.     *)
PhilsShowTheirArt ==
    \A t \in Range(tokens) :
        LET nft == chain.nfts[t.nft]
            registry == chain.registries[nft.registry]
            store == chain.storages[nft.storage]
        IN /\ \A l \in LayerIds :
                 LET shown == LayerSelections(t, l)
                 IN /\ ToSet(shown) \subseteq ToSet(LayerVariantIds(registry, l))
                    /\ IsInjective(shown)
           /\ ~art.edited => \A a \in ShownAssets(registry, t) :
                 LET id == registry.assets[a].storageId
                 IN /\ Readable(store, id)
                    /\ store.records[id].contentHash = art.bytes[disk.catalog.assets[a]]

(* What is published stays: a finalized record never changes, and a         *)
(* content keeps its id.                                                   *)
RecordsPermanent ==
    [][\A s \in DOMAIN chain.storages :
        /\ \A r \in DOMAIN chain.storages[s].records :
              chain.storages[s].records[r].finalized =>
                  chain'.storages[s].records[r] = chain.storages[s].records[r]
        /\ \A c \in Contents : chain.storages[s].svgIdForHash[c] # 0 =>
              chain'.storages[s].svgIdForHash[c] = chain.storages[s].svgIdForHash[c]]_chain

(* A deployment that is run again after each failure gets published: no     *)
(* timeout, late or dropped transaction leaves an upload that can be       *)
(* neither continued nor finalized.  An edited file may leave one.         *)
ReleasePublished ==
    <>(disk.addresses.nft # 0 \/ art.edited \/ ~art.catalog.ok)
=============================================================================
