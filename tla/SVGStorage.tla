----------------------------- MODULE SVGStorage -----------------------------
(***************************************************************************)
(* contracts/PhilSVGStorage.sol: what each call makes of the contract's    *)
(* state.  Bytes are sequences of symbols, a hash is the bytes it stands   *)
(* for, and a call that reverts leaves the state as it was.                *)
(***************************************************************************)
EXTENDS Naturals, Sequences, SequencesExt

CONSTANTS
    Contents,           \* the byte strings a file may hold
    SingleUploadLimit,  \* SINGLE_UPLOAD_LIMIT
    StorageChunkLimit   \* STORAGE_CHUNK_LIMIT

ASSUME StorageAssumption ==
    /\ \A c \in Contents : c \in Seq(ToSet(c))
    /\ SingleUploadLimit \in Nat /\ StorageChunkLimit \in Nat \ {0}

EmptyStore == [records |-> <<>>, svgIdForHash |-> [c \in Contents |-> 0]]

Done(store, id) == [ok |-> TRUE, store |-> store, id |-> id]
Reverted(store) == [ok |-> FALSE, store |-> store, id |-> 0]

Smaller(a, b) == IF a < b THEN a ELSE b

(* The bytes cut at every multiple of the chunk limit.                     *)
ChunksLosingATail(bytes) ==
    [i \in 1 .. (Len(bytes) + StorageChunkLimit - 1) \div StorageChunkLimit |->
        SubSeq(bytes, (i - 1) * StorageChunkLimit + 1,
               Smaller(i * StorageChunkLimit - 1, Len(bytes)))]
ChunksOf(bytes) ==
    [i \in 1 .. (Len(bytes) + StorageChunkLimit - 1) \div StorageChunkLimit |->
        SubSeq(bytes, (i - 1) * StorageChunkLimit + 1,
               Smaller(i * StorageChunkLimit, Len(bytes)))]

StoredBytes(record) == FlattenSeq(record.chunkPointers)

Known(store, id) == id \in DOMAIN store.records

CreateRecord(store, record) ==
    [records |-> Append(store.records, record),
     svgIdForHash |-> [store.svgIdForHash EXCEPT ![record.contentHash] = Len(store.records) + 1]]

RecordOf(size, expected, hash, chunks, final) ==
    [totalSize |-> size, expectedChunks |-> expected, contentHash |-> hash,
     chunkPointers |-> chunks, finalized |-> final]

NoExistingId(store, hash) == 0
ExistingId(store, hash) == store.svgIdForHash[hash]

Storable(store, svg) ==
    /\ Len(svg) \in 1 .. SingleUploadLimit
    /\ ExistingId(store, svg) # 0 => store.records[ExistingId(store, svg)].finalized

(* The contents of a batch that the storage does not have, in the order of *)
(* the batch.                                                              *)
NewContents(store, svgs) ==
    LET upTo[k \in 0 .. Len(svgs)] ==
            IF k = 0 THEN <<>>
            ELSE IF ExistingId(store, svgs[k]) # 0 \/ \E j \in 1 .. k - 1 : svgs[j] = svgs[k]
                 THEN upTo[k - 1]
                 ELSE Append(upTo[k - 1], svgs[k])
    IN upTo[Len(svgs)]

SingleUpload(svg) == RecordOf(Len(svg), Len(ChunksOf(svg)), svg, ChunksOf(svg), TRUE)

(* Each of them makes one record; the ids of the whole batch are returned. *)
StoreSvgBatch(store, svgs) ==
    LET new == NewContents(store, svgs)
        IdOf(svg) == IF ExistingId(store, svg) # 0 THEN ExistingId(store, svg)
                     ELSE Len(store.records) + (CHOOSE n \in DOMAIN new : new[n] = svg)
    IN IF \E k \in DOMAIN svgs : ~Storable(store, svgs[k]) THEN Reverted(store)
       ELSE Done([records |-> store.records \o [n \in DOMAIN new |-> SingleUpload(new[n])],
                  svgIdForHash |-> [c \in Contents |->
                      IF c \in ToSet(svgs) THEN IdOf(c) ELSE store.svgIdForHash[c]]],
                 [k \in DOMAIN svgs |-> IdOf(svgs[k])])

NeverAgain(record, size, expected) == FALSE
SameUpload(record, size, expected) == record.totalSize = size /\ record.expectedChunks = expected

InitializeChunkedSvg(store, size, hash, expected) ==
    LET id == ExistingId(store, hash)
    IN IF size = 0 \/ expected = 0 THEN Reverted(store)
       ELSE IF id = 0
       THEN Done(CreateRecord(store, RecordOf(size, expected, hash, <<>>, FALSE)),
                 Len(store.records) + 1)
       ELSE IF SameUpload(store.records[id], size, expected) THEN Done(store, id) ELSE Reverted(store)

AtMostExpectedChunks(record, chunks) ==
    Len(record.chunkPointers) + Len(chunks) <= record.expectedChunks

AppendChunks(store, id, chunks) ==
    IF /\ Known(store, id)
       /\ ~store.records[id].finalized
       /\ \A i \in DOMAIN chunks : Len(chunks[i]) \in 1 .. StorageChunkLimit
       /\ AtMostExpectedChunks(store.records[id], chunks)
    THEN Done([store EXCEPT !.records[id].chunkPointers = @ \o chunks], id)
    ELSE Reverted(store)

FinalizeChunkedSvg(store, id) ==
    IF /\ Known(store, id)
       /\ ~store.records[id].finalized
       /\ Len(store.records[id].chunkPointers) = store.records[id].expectedChunks
       /\ Len(StoredBytes(store.records[id])) = store.records[id].totalSize
       /\ StoredBytes(store.records[id]) = store.records[id].contentHash
    THEN Done([store EXCEPT !.records[id].finalized = TRUE], id)
    ELSE Reverted(store)

(* readSvgBytes answers.                                                   *)
Readable(store, id) == Known(store, id) /\ store.records[id].finalized
=============================================================================
