--------------------------- MODULE Release_proofs ---------------------------
(***************************************************************************)
(* Proofs about publishing the art, for every directory, every edit and    *)
(* every number of failures.                                               *)
(***************************************************************************)
EXTENDS Release, SVGStorage_proofs

-----------------------------------------------------------------------------
(* The catalog lists files of the directory.                               *)

LEMMA FlattensSeqs ==
    ASSUME NEW s, IsSeq(s), \A i \in DOMAIN s : IsSeq(s[i])
    PROVE  IsSeq(FlattenSeq(s))
<1> DEFINE S == UNION {ToSet(s[i]) : i \in DOMAIN s}
<1>1. ASSUME NEW i \in DOMAIN s PROVE s[i] \in Seq(S)
  <2>1. s[i] \in Seq(ToSet(s[i])) /\ ToSet(s[i]) \subseteq S
    BY <1>1 DEF IsSeq
  <2> HIDE DEF S
  <2> QED
    BY <2>1, SeqMonotonic
<1>2. s \in Seq(Seq(S))
  <2>1. s \in [1 .. Len(s) -> Seq(S)] /\ Len(s) \in Nat
    <3>1. Len(s) \in Nat /\ s \in [1 .. Len(s) -> ToSet(s)]
      BY LenProperties DEF IsSeq
    <3> HIDE DEF S
    <3> QED
      BY <1>1, <3>1
  <2> QED
    BY <2>1, SeqDef
<1>3. FlattenSeq(s) \in Seq(S)
  <2> HIDE DEF S
  <2> QED
    BY <1>2, FlattenType
<1> QED
  BY <1>3, SeqIsSeq

LEMMA FlattensSeqsOf ==
    ASSUME NEW S, NEW s, IsSeq(s), \A i \in DOMAIN s : s[i] \in Seq(S)
    PROVE  FlattenSeq(s) \in Seq(S)
<1>1. s \in [1 .. Len(s) -> Seq(S)] /\ Len(s) \in Nat
  BY LenProperties DEF IsSeq
<1>2. s \in Seq(Seq(S))
  BY <1>1, SeqDef
<1> QED
  BY <1>2, FlattenType

LEMMA ListedFiles ==
    ASSUME NEW tree, NEW dir
    PROVE  ListSvgFiles(tree, dir) \in Seq(tree)
<1> DEFINE found == [k \in 1 .. 2 * Len(Colors) |->
                        LET f == [dir |-> dir, color |-> Colors[(k + 1) \div 2], alt |-> k % 2 = 0]
                        IN IF f \in tree THEN <<f>> ELSE <<>>]
<1>1. 2 * Len(Colors) \in Nat
  BY CatalogAssumption, LenProperties
<1>2. \A k \in DOMAIN found : found[k] \in Seq(tree)
  OBVIOUS
<1>3. IsSeq(found)
  <2>1. DOMAIN found = 1 .. 2 * Len(Colors) /\ found = [k \in DOMAIN found |-> found[k]]
    OBVIOUS
  <2> HIDE DEF found
  <2> QED
    BY <1>1, <2>1, MadeSeq
<1>4. ListSvgFiles(tree, dir) = FlattenSeq(found)
  BY DEF ListSvgFiles
<1> HIDE DEF found
<1> QED
  BY <1>2, <1>3, <1>4, FlattensSeqsOf

(* What the catalog has for a layer, or for some of its directories.       *)
Piece(piece, tree) == piece.assets \in Seq(tree) /\ IsSeq(piece.variants)

LEMMA GroupsList ==
    ASSUME NEW tree, NEW dirs, IsSeq(dirs)
    PROVE  Piece(SingleAssetGroups(tree, dirs), tree)
<1> DEFINE lists == [i \in DOMAIN dirs |-> ListSvgFiles(tree, dirs[i])]
           files == FlattenSeq(lists)
<1>1. IsSeq(lists) /\ \A i \in DOMAIN lists : lists[i] \in Seq(tree)
  <2>1. Len(dirs) \in Nat /\ DOMAIN lists = 1 .. Len(dirs) /\ lists = [i \in DOMAIN lists |-> lists[i]]
    BY IsSeqProperties
  <2>2. \A i \in DOMAIN lists : lists[i] \in Seq(tree)
    BY ListedFiles
  <2> HIDE DEF lists
  <2> QED
    BY <2>1, <2>2, MadeSeq
<1> HIDE DEF lists
<1>2. files \in Seq(tree)
  BY <1>1, FlattensSeqsOf
<1>3. /\ SingleAssetGroups(tree, dirs).assets = files
      /\ SingleAssetGroups(tree, dirs).variants = OnePerFile(files)
  BY DEF SingleAssetGroups, lists
<1> HIDE DEF files
<1>4. IsSeq(OnePerFile(files))
  <2>1. /\ Len(files) \in Nat /\ DOMAIN OnePerFile(files) = 1 .. Len(files)
        /\ OnePerFile(files) = [i \in DOMAIN OnePerFile(files) |-> OnePerFile(files)[i]]
    BY <1>2, LenProperties DEF OnePerFile
  <2> QED
    BY <2>1, MadeSeq
<1> QED
  BY <1>2, <1>3, <1>4 DEF Piece

LEMMA BothList ==
    ASSUME NEW tree, NEW a, NEW b, Piece(a, tree), Piece(b, tree)
    PROVE  Piece(Both(a, b), tree)
<1>1. a.assets \o b.assets \in Seq(tree)
  BY ConcatProperties DEF Piece
<1>2. IsSeq(a.variants \o b.variants)
  BY ConcatIsSeq DEF Piece
<1>3. Both(a, b).assets = a.assets \o b.assets /\ Both(a, b).variants = a.variants \o b.variants
  BY DEF Both
<1> QED
  BY <1>1, <1>2, <1>3 DEF Piece

LEMMA EyePairList ==
    ASSUME NEW tree, NEW pair
    PROVE  Piece(EyePair(tree, pair), tree)
<1> DEFINE dirs == <<pair.frames, pair.lenses>>
           pieces == SingleAssetGroups(tree, dirs)
           shown == [i \in DOMAIN Colors |->
                       VariantOf([k \in 1 .. 2 |-> FileOf(tree, dirs[k], Colors[i])])]
<1>1. IsSeq(dirs)
  <2>1. dirs \in Seq({pair.frames, pair.lenses})
    OBVIOUS
  <2> HIDE DEF dirs
  <2> QED
    BY <2>1, SeqIsSeq
<1>2. Piece(pieces, tree)
  <2> HIDE DEF dirs
  <2> QED
    BY <1>1, GroupsList
<1>3. IsSeq(shown)
  <2>1. Len(Colors) \in Nat /\ DOMAIN shown = 1 .. Len(Colors) /\ shown = [i \in DOMAIN shown |-> shown[i]]
    BY CatalogAssumption, LenProperties
  <2> HIDE DEF shown
  <2> QED
    BY <2>1, MadeSeq
<1>4. CASE ~pieces.ok
  <2>1. EyePair(tree, pair) = [ok |-> FALSE, assets |-> <<>>, variants |-> <<>>]
    BY <1>4 DEF EyePair
  <2>2. <<>> \in Seq(tree) /\ <<>> \in Seq({})
    OBVIOUS
  <2>3. IsSeq(<<>>)
    BY <2>2, SeqIsSeq
  <2> QED
    BY <2>1, <2>2, <2>3 DEF Piece
<1>5. CASE pieces.ok
  <2>1. EyePair(tree, pair) = [pieces EXCEPT !.variants = shown]
    BY <1>5 DEF EyePair
  <2>2. DOMAIN pieces = {"ok", "assets", "variants"}
    BY DEF SingleAssetGroups
  <2> HIDE DEF pieces, shown
  <2>3. EyePair(tree, pair).assets = pieces.assets /\ EyePair(tree, pair).variants = shown
    BY <2>1, <2>2
  <2> QED
    BY <1>2, <1>3, <2>3 DEF Piece
<1> QED
  BY <1>4, <1>5

LEMMA EyesList ==
    ASSUME NEW tree, "Eyes" \in DOMAIN Groups
    PROVE  Piece(BuildEyesLayer(tree), tree)
<1> DEFINE pairs == [i \in DOMAIN EyePairs |-> EyePair(tree, EyePairs[i])]
           assets == [i \in DOMAIN EyePairs |-> pairs[i].assets]
           variants == [i \in DOMAIN EyePairs |-> pairs[i].variants]
           shown == [ok |-> \A i \in DOMAIN pairs : pairs[i].ok,
                     assets |-> FlattenSeq(assets), variants |-> FlattenSeq(variants)]
<1>1. Len(EyePairs) \in Nat /\ DOMAIN EyePairs = 1 .. Len(EyePairs)
  BY CatalogAssumption, LenProperties
<1>2. \A i \in DOMAIN EyePairs : Piece(pairs[i], tree)
  BY EyePairList
<1>3. IsSeq(assets) /\ \A i \in DOMAIN assets : assets[i] \in Seq(tree)
  <2>1. DOMAIN assets = 1 .. Len(EyePairs) /\ assets = [i \in DOMAIN assets |-> assets[i]]
    BY <1>1
  <2>2. \A i \in DOMAIN assets : assets[i] \in Seq(tree)
    BY <1>2 DEF Piece
  <2> HIDE DEF assets
  <2> QED
    BY <1>1, <2>1, <2>2, MadeSeq
<1>4. IsSeq(variants) /\ \A i \in DOMAIN variants : IsSeq(variants[i])
  <2>1. DOMAIN variants = 1 .. Len(EyePairs) /\ variants = [i \in DOMAIN variants |-> variants[i]]
    BY <1>1
  <2>2. \A i \in DOMAIN variants : IsSeq(variants[i])
    BY <1>2 DEF Piece
  <2> HIDE DEF variants
  <2> QED
    BY <1>1, <2>1, <2>2, MadeSeq
<1>5. BuildEyesLayer(tree) = Both(SingleAssetGroups(tree, Groups["Eyes"]), shown)
  BY DEF BuildEyesLayer
<1> HIDE DEF assets, variants
<1>6. Piece(shown, tree)
  BY <1>3, <1>4, FlattensSeqsOf, FlattensSeqs DEF Piece
<1>7. Piece(SingleAssetGroups(tree, Groups["Eyes"]), tree)
  BY CatalogAssumption, GroupsList DEF IsSeq
<1> HIDE DEF shown
<1> QED
  BY <1>5, <1>6, <1>7, BothList

LEMMA LayerLists ==
    ASSUME NEW tree, NEW name, name = "Special" \/ name \in DOMAIN Groups
    PROVE  Piece(BuildLayer(tree, name), tree)
<1>0. /\ name # "Special" => IsSeq(Groups[name])
      /\ IsSeq(Alternates["Spikes"])
      /\ IsSeq(<<>>) /\ <<>> \in Seq(tree)
  <2>1. <<>> \in Seq({}) /\ <<>> \in Seq(tree)
    OBVIOUS
  <2> QED
    BY <2>1, CatalogAssumption, SeqIsSeq DEF IsSeq
<1>1. CASE name = "Eyes"
  <2>1. BuildLayer(tree, name) = BuildEyesLayer(tree)
    BY <1>1 DEF BuildLayer
  <2> QED
    BY <1>1, <2>1, EyesList
<1>2. CASE name = "Spikes"
  <2> DEFINE a == SingleAssetGroups(tree, Groups["Spikes"])
             pairs == SingleAssetGroups(tree, Alternates["Spikes"])
             b == [pairs EXCEPT !.ok = @ /\ \A d \in ToSet(Alternates["Spikes"]) :
                                                HasAlternates(FilesIn(tree, d))]
  <2>1. BuildLayer(tree, name) = Both(a, b)
    BY <1>2 DEF BuildLayer, BuildSpikesLayer
  <2>2. Piece(a, tree) /\ Piece(pairs, tree)
    BY <1>0, <1>2, GroupsList
  <2>3. DOMAIN pairs = {"ok", "assets", "variants"}
    BY DEF SingleAssetGroups
  <2> HIDE DEF a, pairs
  <2>4. b.assets = pairs.assets /\ b.variants = pairs.variants
    BY <2>3
  <2>5. Piece(b, tree)
    BY <2>2, <2>4 DEF Piece
  <2> HIDE DEF b
  <2> QED
    BY <2>1, <2>2, <2>5, BothList
<1>3. CASE name = "BodyBase"
  <2> DEFINE files == ListSvgFiles(tree, "BodyBase")
             old == [ok |-> NamesColors(ToSet(files)), assets |-> files, variants |-> OnePerFile(files)]
  <2>1. \/ BuildLayer(tree, name) = SingleAssetGroups(tree, Groups["BodyBase"])
        \/ BuildLayer(tree, name) = old
    BY <1>3 DEF BuildLayer, BuildBodyBaseLayer
  <2>2. files \in Seq(tree)
    BY ListedFiles
  <2> HIDE DEF files
  <2>3. IsSeq(OnePerFile(files))
    <3>1. /\ Len(files) \in Nat /\ DOMAIN OnePerFile(files) = 1 .. Len(files)
          /\ OnePerFile(files) = [i \in DOMAIN OnePerFile(files) |-> OnePerFile(files)[i]]
      BY <2>2, LenProperties DEF OnePerFile
    <3> QED
      BY <3>1, MadeSeq
  <2>4. Piece(old, tree)
    BY <2>2, <2>3 DEF Piece
  <2> HIDE DEF old
  <2> QED
    BY <1>0, <1>3, <2>1, <2>4, GroupsList
<1>4. CASE name = "Special"
  <2>1. BuildLayer(tree, name) = [ok |-> TRUE, assets |-> <<>>, variants |-> <<>>]
    BY <1>4 DEF BuildLayer
  <2> QED
    BY <1>0, <2>1 DEF Piece
<1>5. CASE name \notin {"Eyes", "Spikes", "BodyBase", "Special"}
  <2>1. BuildLayer(tree, name) = SingleAssetGroups(tree, Groups[name])
    BY <1>5 DEF BuildLayer
  <2> QED
    BY <1>0, <1>5, <2>1, GroupsList
<1> QED
  BY <1>1, <1>2, <1>3, <1>4, <1>5

Catalog(c, files) ==
    /\ c.assets \in Seq(files) /\ IsSeq(c.layers)
    /\ \A l \in DOMAIN c.layers : Piece(c.layers[l], files)

LEMMA CatalogLists ==
    ASSUME NEW tree
    PROVE  /\ Catalog(BuildLayerCatalog(tree), tree)
           /\ DOMAIN BuildLayerCatalog(tree) = {"ok", "layers", "assets"}
           /\ BuildLayerCatalog(tree).ok \in BOOLEAN
<1> DEFINE order == PhilLayerOrder(tree)
           built == [i \in DOMAIN order |-> BuildLayer(tree, order[i].name)]
           layers == [i \in DOMAIN order |->
                        [name |-> order[i].name, min |-> order[i].min, max |-> order[i].max,
                         assets |-> built[i].assets, variants |-> built[i].variants]]
           assets == [i \in DOMAIN order |-> layers[i].assets]
<1>1. /\ Len(LayerOrder) \in Nat /\ DOMAIN order = 1 .. Len(LayerOrder)
      /\ \A i \in DOMAIN order : order[i].name = "Special" \/ order[i].name \in DOMAIN Groups
  BY CatalogAssumption, LenProperties DEF PhilLayerOrder
<1>2. \A i \in DOMAIN order : Piece(built[i], tree)
  <2> HIDE DEF order
  <2> QED
    BY <1>1, LayerLists
<1>3. \A i \in DOMAIN order : Piece(layers[i], tree)
  <2> HIDE DEF order, built
  <2> QED
    BY <1>2 DEF Piece
<1>4. IsSeq(layers) /\ DOMAIN layers = DOMAIN order
  <2>1. DOMAIN layers = 1 .. Len(LayerOrder) /\ layers = [i \in DOMAIN layers |-> layers[i]]
    BY <1>1
  <2> HIDE DEF layers
  <2> QED
    BY <1>1, <2>1, MadeSeq
<1>5. IsSeq(assets) /\ \A i \in DOMAIN assets : assets[i] \in Seq(tree)
  <2>1. DOMAIN assets = 1 .. Len(LayerOrder) /\ assets = [i \in DOMAIN assets |-> assets[i]]
    BY <1>1
  <2>2. \A i \in DOMAIN assets : assets[i] \in Seq(tree)
    BY <1>3 DEF Piece
  <2> HIDE DEF assets
  <2> QED
    BY <1>1, <2>1, <2>2, MadeSeq
<1>6. /\ BuildLayerCatalog(tree).layers = layers
      /\ BuildLayerCatalog(tree).assets = FlattenSeq(assets)
      /\ DOMAIN BuildLayerCatalog(tree) = {"ok", "layers", "assets"}
      /\ BuildLayerCatalog(tree).ok \in BOOLEAN
  BY DEF BuildLayerCatalog
<1> HIDE DEF layers, assets, order
<1> QED
  BY <1>3, <1>4, <1>5, <1>6, FlattensSeqsOf DEF Catalog

-----------------------------------------------------------------------------
(* The contents of a batch that a storage does not have: while the batch   *)
(* waits, a record made of one of them leaves one fewer to come, so what   *)
(* was predicted for the batch stays within what the storage will have.    *)
Missing(store, svgs) == {c \in ToSet(svgs) : ExistingId(store, c) = 0}

LEMMA MissingFinite ==
    ASSUME NEW store, NEW svgs \in Seq(Contents)
    PROVE  /\ IsFiniteSet(Missing(store, svgs)) /\ Cardinality(Missing(store, svgs)) \in Nat
           /\ Missing(store, svgs) \subseteq Contents
<1>1. IsFiniteSet(ToSet(svgs)) /\ ToSet(svgs) \subseteq Contents
  BY SeqRange
<1>2. Missing(store, svgs) \in SUBSET ToSet(svgs)
  BY DEF Missing
<1> QED
  BY <1>1, <1>2, FS_Subset, FS_CardinalityType

LEMMA MissingShrinks ==
    ASSUME NEW old, NEW new, StoreOK(old), StoreOK(new), Grows(old, new),
           NEW svgs \in Seq(Contents)
    PROVE  Len(old.records) + Cardinality(Missing(old, svgs))
              <= Len(new.records) + Cardinality(Missing(new, svgs))
<1> DEFINE before == Missing(old, svgs)
           after == Missing(new, svgs)
           came == before \ after
           slots == Len(old.records) + 1 .. Len(new.records)
           place == [c \in came |-> ExistingId(new, c)]
<1>1. /\ Len(old.records) \in Nat /\ Len(new.records) \in Nat
      /\ Len(old.records) <= Len(new.records)
      /\ DOMAIN old.records = 1 .. Len(old.records) /\ DOMAIN new.records = 1 .. Len(new.records)
  BY StoreFacts DEF StoreOK, Grows
<1>2. ASSUME NEW c \in came
      PROVE  /\ c \in Contents /\ ExistingId(old, c) = 0
             /\ ExistingId(new, c) \in slots
             /\ new.records[ExistingId(new, c)].contentHash = c
  <2>1. c \in Contents /\ ExistingId(old, c) = 0 /\ ExistingId(new, c) # 0
    BY MissingFinite DEF Missing
  <2>2. /\ ExistingId(new, c) \in 1 .. Len(new.records)
        /\ new.records[ExistingId(new, c)].contentHash = c
    BY <1>1, <2>1 DEF StoreOK, Indexed, Known
  <2>3. ~(ExistingId(new, c) <= Len(old.records))
    <3> SUFFICES ASSUME ExistingId(new, c) <= Len(old.records) PROVE FALSE
      OBVIOUS
    <3>1. ExistingId(new, c) \in DOMAIN old.records
      BY <1>1, <2>2
    <3>2. old.records[ExistingId(new, c)].contentHash = c
      BY <2>2, <3>1 DEF Grows
    <3>3. ExistingId(old, c) = ExistingId(new, c)
      BY <3>1, <3>2 DEF StoreOK, Indexed, ExistingId
    <3> QED
      BY <2>1, <3>3
  <2> QED
    BY <1>1, <2>1, <2>2, <2>3
<1>3. place \in Injection(came, slots)
  <2>1. place \in [came -> slots]
    BY <1>2
  <2>2. \A b, c \in came : place[b] = place[c] => b = c
    BY <1>2
  <2> HIDE DEF place, came, slots
  <2> QED
    BY <2>1, <2>2 DEF Injection, IsInjective
<1>4. IsFiniteSet(slots) /\ Cardinality(slots) = Len(new.records) - Len(old.records)
  <2>1. \A m, n \in Nat : m <= n => IsFiniteSet(m + 1 .. n) /\ Cardinality(m + 1 .. n) = n - m
    <3> SUFFICES ASSUME NEW m \in Nat, NEW n \in Nat, m <= n
                 PROVE  IsFiniteSet(m + 1 .. n) /\ Cardinality(m + 1 .. n) = n - m
      OBVIOUS
    <3>1. /\ IsFiniteSet(m + 1 .. n)
          /\ Cardinality(m + 1 .. n) = IF m + 1 > n THEN 0 ELSE n - (m + 1) + 1
      BY FS_Interval
    <3> QED
      BY <3>1
  <2> QED
    BY <1>1, <2>1
<1>5. Cardinality(came) <= Cardinality(slots)
  <2> HIDE DEF came, slots, place
  <2> QED
    BY <1>3, <1>4, FS_Injection
<1>6. IsFiniteSet(before) /\ IsFiniteSet(after) /\ Cardinality(before) \in Nat /\ Cardinality(after) \in Nat
  BY MissingFinite
<1>7. Cardinality(came) = Cardinality(before) - Cardinality(before \cap after)
  <2> HIDE DEF before, after
  <2> QED
    BY <1>6, FS_Difference
<1>8. Cardinality(before \cap after) <= Cardinality(after) /\ Cardinality(before \cap after) \in Nat
  <2> HIDE DEF before, after
  <2> QED
    BY <1>6, FS_Intersection, FS_CardinalityType
<1> QED
  <2> HIDE DEF came, slots, before, after
  <2>1. Cardinality(before) - Cardinality(before \cap after) <= Len(new.records) - Len(old.records)
    BY <1>4, <1>5, <1>7
  <2>2. \A m, n, a, b, both \in Nat : b - both <= n - m /\ both <= a => m + b <= n + a
    OBVIOUS
  <2>3. Len(old.records) + Cardinality(before) <= Len(new.records) + Cardinality(after)
    BY <1>1, <1>6, <1>8, <2>1, <2>2
  <2> QED
    BY <2>3 DEF before, after

LEMMA BatchPredicts ==
    ASSUME NEW store, StoreOK(store), NEW svgs \in Seq(Contents), StoreSvgBatch(store, svgs).ok
    PROVE  /\ StoreSvgBatch(store, svgs).id \in [1 .. Len(svgs) -> Nat]
           /\ \A k \in 1 .. Len(svgs) :
                 StoreSvgBatch(store, svgs).id[k]
                     <= Len(store.records) + Cardinality(Missing(store, svgs))
<1> DEFINE new == NewContents(store, svgs)
           n == Len(store.records)
           after == StoreSvgBatch(store, svgs).store
<1>1. /\ after \in Stores /\ Len(after.records) = n + Len(new)
      /\ StoreSvgBatch(store, svgs).id = [k \in 1 .. Len(svgs) |-> ExistingId(after, svgs[k])]
  BY BatchStores
<1>2. StoreOK(after)
  BY BatchKeeps
<1>3. NewAmongFirst(new, store, svgs, Len(svgs))
  BY NewContentsOfBatch
<1>4. n \in Nat
  BY StoreFacts DEF StoreOK
<1> HIDE DEF new, after, n
<1>5. /\ new \in Seq(Contents) /\ Len(new) \in Nat /\ DOMAIN new = 1 .. Len(new)
      /\ \A i \in 1 .. Len(new) : new[i] \in Missing(store, svgs)
  <2>1. \A i \in 1 .. Len(new) : ExistingId(store, new[i]) = 0 /\ \E k \in 1 .. Len(svgs) : svgs[k] = new[i]
    BY <1>3 DEF NewAmongFirst
  <2>2. \A i \in 1 .. Len(new) : new[i] \in ToSet(svgs)
    BY <2>1, SeqRange
  <2> QED
    BY <1>3, <2>1, <2>2 DEF NewAmongFirst, Missing
<1>6. new \in Injection(1 .. Len(new), Missing(store, svgs))
  <2>1. new \in [1 .. Len(new) -> Missing(store, svgs)]
    BY <1>5
  <2>2. \A i, j \in 1 .. Len(new) : new[i] = new[j] => i = j
    BY <1>3 DEF NewAmongFirst
  <2> QED
    BY <2>1, <2>2 DEF Injection, IsInjective
<1>7. Cardinality(1 .. Len(new)) <= Cardinality(Missing(store, svgs))
  BY <1>6, MissingFinite, FS_Injection
<1>8. Len(new) <= Cardinality(Missing(store, svgs)) /\ Cardinality(Missing(store, svgs)) \in Nat
  BY <1>5, <1>7, FS_Interval, MissingFinite
<1>9. ASSUME NEW k \in 1 .. Len(svgs)
      PROVE  /\ ExistingId(after, svgs[k]) \in Nat
             /\ ExistingId(after, svgs[k]) <= n + Cardinality(Missing(store, svgs))
  <2>1. svgs[k] \in Contents
    OBVIOUS
  <2>2. ExistingId(after, svgs[k]) \in Nat
    BY <1>1, <2>1, StoreFacts
  <2>3. ExistingId(after, svgs[k]) # 0 => ExistingId(after, svgs[k]) \in 1 .. n + Len(new)
    BY <1>1, <1>2, <2>1, StoreFacts DEF StoreOK, Indexed, Known
  <2>4. 0 <= n + Cardinality(Missing(store, svgs)) /\ n + Len(new) <= n + Cardinality(Missing(store, svgs))
    BY <1>4, <1>5, <1>8
  <2> QED
    BY <1>4, <1>5, <1>8, <2>2, <2>3, <2>4
<1> QED
  BY <1>1, <1>9 DEF n

LEMMA BatchReads ==
    ASSUME NEW store, StoreOK(store), NEW svgs \in Seq(Contents), StoreSvgBatch(store, svgs).ok
    PROVE  \A k \in 1 .. Len(svgs) :
              Readable(StoreSvgBatch(store, svgs).store,
                       ExistingId(StoreSvgBatch(store, svgs).store, svgs[k]))
<1> DEFINE new == NewContents(store, svgs)
           n == Len(store.records)
           after == StoreSvgBatch(store, svgs).store
<1>1. /\ after.records \in Seq(Records) /\ Len(after.records) = n + Len(new)
      /\ \A r \in 1 .. n : after.records[r] = store.records[r]
      /\ \A i \in 1 .. Len(new) : /\ after.records[n + i] = SingleUpload(new[i])
                                  /\ ExistingId(after, new[i]) = n + i
      /\ \A c \in Contents : ExistingId(store, c) # 0 =>
            ExistingId(after, c) = ExistingId(store, c)
  BY BatchStores
<1>2. NewAmongFirst(new, store, svgs, Len(svgs))
  BY NewContentsOfBatch
<1>3. n \in Nat /\ DOMAIN store.records = 1 .. n /\ Indexed(store)
  BY StoreFacts DEF StoreOK
<1>4. \A k \in DOMAIN svgs : Storable(store, svgs[k])
  BY DEF StoreSvgBatch, Reverted
<1> HIDE DEF new, after, n
<1>5. ASSUME NEW k \in 1 .. Len(svgs) PROVE Readable(after, ExistingId(after, svgs[k]))
  <2>1. svgs[k] \in Contents /\ k \in DOMAIN svgs
    OBVIOUS
  <2>2. CASE ExistingId(store, svgs[k]) # 0
    <3>1. ExistingId(store, svgs[k]) \in 1 .. n /\ store.records[ExistingId(store, svgs[k])].finalized
      BY <1>3, <1>4, <2>1, <2>2 DEF Storable, Indexed, Known
    <3>2. ExistingId(store, svgs[k]) \in 1 .. n + Len(new)
      BY <1>2, <1>3, <3>1 DEF NewAmongFirst
    <3> QED
      BY <1>1, <2>1, <2>2, <3>1, <3>2 DEF Readable, Known
  <2>3. CASE ExistingId(store, svgs[k]) = 0
    <3>1. PICK i \in 1 .. Len(new) : new[i] = svgs[k]
      BY <1>2, <2>3 DEF NewAmongFirst
    <3>2. n + i \in 1 .. n + Len(new)
      BY <1>2, <1>3 DEF NewAmongFirst
    <3> QED
      BY <1>1, <2>1, <3>1, <3>2, SingleUploadType DEF Readable, Known
  <2> QED
    BY <2>2, <2>3
<1> QED
  BY <1>5 DEF after

-----------------------------------------------------------------------------
(* The state of a release.  The stored records, the pending transactions   *)
(* and the files name only what exists.                                    *)
ArtOK(a) ==
    /\ a \in [tree : SUBSET Files, catalog : {a.catalog}, bytes : [Files -> Contents],
              edited : BOOLEAN]
    /\ a.catalog = BuildLayerCatalog(a.tree)

ChainOK(c) ==
    /\ c \in [storages : Seq(Stores), registries : {c.registries}, nfts : {c.nfts}]
    /\ IsSeq(c.registries) /\ IsSeq(c.nfts)
    /\ \A s \in DOMAIN c.storages : StoreOK(c.storages[s])
Later(old, new) ==
    /\ Len(old.storages) <= Len(new.storages)
    /\ \A s \in DOMAIN old.storages : Grows(old.storages[s], new.storages[s])
    /\ Len(old.nfts) <= Len(new.nfts)

StorageTxOK(tx) ==
    \/ tx.op = "storeSvgBatch" /\ tx.svgs \in Seq(Contents)
    \/ /\ tx.op = "initializeChunkedSvg"
       /\ tx.size \in Nat /\ tx.hash \in Contents /\ tx.expected \in Nat
    \/ tx.op = "appendChunks" /\ tx.chunks \in Seq(Seq(Symbols))
    \/ tx.op = "finalizeChunkedSvg"
TxOK(tx, c) ==
    \/ tx.to \in {"create", "registry"}
    \/ tx.to = "storage" /\ tx.at \in DOMAIN c.storages /\ StorageTxOK(tx)
MempoolOK(pool, c) == IsSeq(pool) /\ \A k \in DOMAIN pool : TxOK(pool[k], c)

Entries(c) == [storage : 0 .. Len(c.storages), files : [Files -> Nat]]
BuiltCatalogs(a) ==
    [ok : {TRUE}, layers : {a.catalog.layers}, assets : {a.catalog.assets},
     bytes : [Files -> Contents]]
DiskOK(d, c, a) ==
    /\ d \in [catalog : {d.catalog}, state : Entries(c), manifest : Entries(c),
              addresses : [storage : 0 .. Len(c.storages), registry : Nat,
                           nft : 0 .. Len(c.nfts)]]
    /\ d.catalog # NoCatalog => d.catalog \in BuiltCatalogs(a)
    /\ \A f \in Files : d.state.files[f] # 0 =>
          d.state.storage # 0 /\ Known(c.storages[d.state.storage], d.state.files[f])

Uploading == job.pc \notin {"idle", "storage"}
NotUploading(j, catalog) == j = Idle \/ (j = [pc |-> "storage"] /\ catalog # NoCatalog)
OnChunked == {"chunked", "init", "chunks", "append", "complete", "finalize"}
UploadPcs == OnChunked \cup {"scan", "flush", "batch", "finish", "registry", "register", "nft"}
Uploads(j, c) ==
    [pc : UploadPcs, kind : {"deploy", "upload"}, storage : DOMAIN c.storages,
     i : Nat \ {0}, pending : Seq(Files), batches : Seq(Seq(Files)),
     then : {"scan", "chunked", "finish"}, ids : {j.ids}, registry : Nat,
     plan : {j.plan}, manifest : [Files -> Nat], state : [Files -> Nat]]
UploadOK(j, c, catalog) ==
    /\ j \in Uploads(j, c)
    /\ catalog # NoCatalog
    /\ IsSeq(j.plan) /\ \A k \in DOMAIN j.plan : j.plan[k].to = "registry"
    /\ \/ j.pc \in OnChunked
       \/ j.pc \in {"flush", "batch"} /\ j.then = "chunked"
       => j.i \in DOMAIN catalog.assets
    /\ j.pc = "batch" => j.batches # <<>> /\ j.ids \in [DOMAIN Head(j.batches) -> Nat]
    /\ j.pc \in OnChunked \ {"chunked"} => j.ids \in Nat \ {0}
    /\ j.pc \in {"chunks", "append", "complete", "finalize"} => Known(c.storages[j.storage], j.ids)
    /\ \A f \in Files : j.state[f] # 0 => Known(c.storages[j.storage], j.state[f])
JobOK(j, c, catalog) == NotUploading(j, catalog) \/ UploadOK(j, c, catalog)

ReceiptFollows ==
    /\ Waiting => (receipt = "none" <=> mempool # <<>>)
    /\ ~Waiting => receipt = "none"

StorageAwaited(j, c, pool) ==
    j.pc = "storage" =>
        IF pool = <<>> THEN c.storages # <<>>
        ELSE Last(pool) = [to |-> "create", op |-> "PhilSVGStorage"]
BytesIn(files, a) == [k \in DOMAIN files |-> a.bytes[files[k]]]
BatchAwaited(j, c, a, pool, r) ==
    j.pc = "batch" =>
        LET store == c.storages[j.storage]
            svgs == BytesIn(Head(j.batches), a)
        IN /\ \A k \in DOMAIN j.ids :
                 j.ids[k] <= Len(store.records) + Cardinality(Missing(store, svgs))
           /\ pool # <<>> => Last(pool) = [to |-> "storage", op |-> "storeSvgBatch",
                                          at |-> j.storage, svgs |-> svgs]
           /\ r = "success" => \A k \in DOMAIN svgs : Readable(store, ExistingId(store, svgs[k]))
InitAwaited(j, c, pool, r) ==
    j.pc = "init" =>
        LET store == c.storages[j.storage]
        IN \/ Known(store, j.ids)
           \/ /\ j.ids = Len(store.records) + 1 /\ r # "success"
              /\ pool # <<>> => /\ Last(pool).to = "storage" /\ Last(pool).op = "initializeChunkedSvg"
                                /\ Last(pool).at = j.storage
                                /\ ExistingId(store, Last(pool).hash) = 0

ReleaseInv ==
    /\ ArtOK(art) /\ ChainOK(chain) /\ MempoolOK(mempool, chain) /\ DiskOK(disk, chain, art)
    /\ JobOK(job, chain, disk.catalog)
    /\ ReceiptFollows
    /\ StorageAwaited(job, chain, mempool)
    /\ BatchAwaited(job, chain, art, mempool, receipt)
    /\ InitAwaited(job, chain, mempool, receipt)

LEMMA ChainFacts ==
    ASSUME NEW c, ChainOK(c)
    PROVE  /\ c.storages \in Seq(Stores) /\ Len(c.storages) \in Nat
           /\ DOMAIN c.storages = 1 .. Len(c.storages)
           /\ \A s \in DOMAIN c.storages : c.storages[s] \in Stores /\ StoreOK(c.storages[s])
           /\ Len(c.nfts) \in Nat /\ Len(c.registries) \in Nat
           /\ DOMAIN c = {"storages", "registries", "nfts"}
<1>1. Len(c.nfts) \in Nat /\ Len(c.registries) \in Nat
  BY IsSeqProperties DEF ChainOK
<1> QED
  BY <1>1 DEF ChainOK, StoreOK

LEMMA LaterReflexive == ASSUME NEW c, ChainOK(c) PROVE Later(c, c)
  BY ChainFacts, GrowsReflexive DEF Later

LEMMA StorageTxKeeps ==
    ASSUME ChainOK(chain), NEW tx, TxOK(tx, chain), tx.to = "storage"
    PROVE  /\ StoreOK(AtStorage(tx).store)
           /\ Grows(chain.storages[tx.at], AtStorage(tx).store)
<1> DEFINE store == chain.storages[tx.at]
<1>1. StoreOK(store) /\ StorageTxOK(tx)
  BY ChainFacts DEF TxOK
<1>2. CASE tx.op = "storeSvgBatch" /\ tx.svgs \in Seq(Contents)
  <2>1. AtStorage(tx) = StoreSvgBatch(store, tx.svgs)
    BY <1>2 DEF AtStorage
  <2> HIDE DEF store
  <2> QED
    BY <1>1, <1>2, <2>1, BatchKeeps DEF store
<1>3. CASE /\ tx.op = "initializeChunkedSvg"
           /\ tx.size \in Nat /\ tx.hash \in Contents /\ tx.expected \in Nat
  <2>1. AtStorage(tx) = InitializeChunkedSvg(store, tx.size, tx.hash, tx.expected)
    BY <1>3 DEF AtStorage
  <2> HIDE DEF store
  <2> QED
    BY <1>1, <1>3, <2>1, InitializeKeeps DEF store
<1>4. CASE tx.op = "appendChunks" /\ tx.chunks \in Seq(Seq(Symbols))
  <2>1. AtStorage(tx) = AppendChunks(store, tx.id, tx.chunks)
    BY <1>4 DEF AtStorage
  <2> HIDE DEF store
  <2> QED
    BY <1>1, <1>4, <2>1, AppendChunksKeeps DEF store
<1>5. CASE tx.op = "finalizeChunkedSvg"
  <2>1. AtStorage(tx) = FinalizeChunkedSvg(store, tx.id)
    BY <1>5 DEF AtStorage
  <2> HIDE DEF store
  <2> QED
    BY <1>1, <1>5, <2>1, FinalizeKeeps DEF store
<1> QED
  BY <1>1, <1>2, <1>3, <1>4, <1>5 DEF StorageTxOK

(* What a mined transaction leaves.                                        *)
LEMMA TxKeeps ==
    ASSUME ChainOK(chain), NEW tx, TxOK(tx, chain)
    PROVE  /\ ChainOK(Execute(tx).chain) /\ Later(chain, Execute(tx).chain)
           /\ tx.to = "storage" =>
                 /\ Execute(tx).chain.storages[tx.at] = AtStorage(tx).store
                 /\ Execute(tx).ok = AtStorage(tx).ok
                 /\ \A s \in DOMAIN chain.storages :
                       s # tx.at => Execute(tx).chain.storages[s] = chain.storages[s]
                 /\ DOMAIN Execute(tx).chain.storages = DOMAIN chain.storages
           /\ tx = [to |-> "create", op |-> "PhilSVGStorage"] => Execute(tx).chain.storages # <<>>
<1> DEFINE after == Execute(tx).chain
<1>1. ChainOK(chain)
  OBVIOUS
<1>2. /\ chain.storages \in Seq(Stores) /\ Len(chain.storages) \in Nat
      /\ DOMAIN chain.storages = 1 .. Len(chain.storages)
      /\ \A s \in DOMAIN chain.storages : chain.storages[s] \in Stores /\ StoreOK(chain.storages[s])
      /\ Len(chain.nfts) \in Nat
      /\ DOMAIN chain = {"storages", "registries", "nfts"}
      /\ IsSeq(chain.registries) /\ IsSeq(chain.nfts)
      /\ chain \in [storages : {chain.storages}, registries : {chain.registries},
                    nfts : {chain.nfts}]
  BY <1>1, ChainFacts DEF ChainOK
<1>3. \A s \in DOMAIN chain.storages : Grows(chain.storages[s], chain.storages[s])
  BY <1>2, GrowsReflexive
<1>4. CASE tx.to = "create" /\ tx.op = "PhilSVGStorage"
  <2>1. after = [chain EXCEPT !.storages = Append(@, EmptyStore)]
    BY <1>4 DEF Execute
  <2>2. EmptyStore \in Stores /\ StoreOK(EmptyStore)
    BY EmptyStoreOK DEF StoreOK
  <2>3. /\ Append(chain.storages, EmptyStore) \in Seq(Stores)
        /\ Append(chain.storages, EmptyStore) # <<>>
        /\ Len(Append(chain.storages, EmptyStore)) = Len(chain.storages) + 1
        /\ \A i \in 1 .. Len(chain.storages) : Append(chain.storages, EmptyStore)[i] = chain.storages[i]
        /\ Append(chain.storages, EmptyStore)[Len(chain.storages) + 1] = EmptyStore
    BY <1>2, <2>2, AppendProperties
  <2>4. after.storages = Append(chain.storages, EmptyStore) /\ after.registries = chain.registries
        /\ after.nfts = chain.nfts /\ DOMAIN after = {"storages", "registries", "nfts"}
        /\ after \in [storages : Seq(Stores), registries : {after.registries}, nfts : {after.nfts}]
    BY <1>2, <2>1, <2>3
  <2> HIDE DEF after
  <2>5. \A s \in DOMAIN after.storages : StoreOK(after.storages[s])
    <3> SUFFICES ASSUME NEW s \in 1 .. Len(chain.storages) + 1 PROVE StoreOK(after.storages[s])
      BY <2>3, <2>4
    <3> QED
      BY <1>2, <2>2, <2>3, <2>4
  <2>6. ChainOK(after)
    BY <1>2, <2>4, <2>5 DEF ChainOK
  <2>7. Later(chain, after)
    BY <1>2, <1>3, <2>3, <2>4 DEF Later
  <2> QED
    BY <1>4, <2>3, <2>4, <2>6, <2>7 DEF after
<1>5. CASE tx.to = "create" /\ tx.op = "PhilLayerRegistry"
  <2>1. after = [chain EXCEPT !.registries = Append(@, EmptyRegistry(tx.storage))]
    BY <1>5 DEF Execute
  <2>2. IsSeq(Append(chain.registries, EmptyRegistry(tx.storage)))
    BY <1>2, AppendIsSeq
  <2>3. ChainOK(after) /\ Later(chain, after)
    <3>1. /\ after.storages = chain.storages /\ after.nfts = chain.nfts
          /\ after.registries = Append(chain.registries, EmptyRegistry(tx.storage))
          /\ after \in [storages : Seq(Stores), registries : {after.registries}, nfts : {after.nfts}]
      BY <1>2, <2>1
    <3> HIDE DEF after
    <3> QED
      BY <1>2, <1>3, <2>2, <3>1 DEF ChainOK, Later
  <2> QED
    BY <1>5, <2>3
<1>6. CASE tx.to = "create" /\ tx.op \notin {"PhilSVGStorage", "PhilLayerRegistry"}
  <2> DEFINE nft == [registry |-> tx.registry, storage |-> tx.storage]
  <2>1. after = [chain EXCEPT !.nfts = Append(@, nft)]
    BY <1>6 DEF Execute
  <2> HIDE DEF nft
  <2>2. IsSeq(Append(chain.nfts, nft)) /\ Len(Append(chain.nfts, nft)) = Len(chain.nfts) + 1
    BY <1>2, AppendIsSeq
  <2>3. ChainOK(after) /\ Later(chain, after)
    <3>1. /\ after.storages = chain.storages /\ after.registries = chain.registries
          /\ after.nfts = Append(chain.nfts, nft)
          /\ after \in [storages : Seq(Stores), registries : {after.registries}, nfts : {after.nfts}]
      BY <1>2, <2>1
    <3> HIDE DEF after
    <3> QED
      BY <1>2, <1>3, <2>2, <3>1 DEF ChainOK, Later
  <2> QED
    BY <1>6, <2>3
<1>7. CASE tx.to = "storage"
  <2> DEFINE store == AtStorage(tx).store
  <2>1. /\ after = [chain EXCEPT !.storages[tx.at] = store]
        /\ Execute(tx).ok = AtStorage(tx).ok
    BY <1>7 DEF Execute
  <2>2. StoreOK(store) /\ Grows(chain.storages[tx.at], store) /\ store \in Stores
    BY <1>7, StorageTxKeeps DEF StoreOK
  <2>3. tx.at \in 1 .. Len(chain.storages)
    BY <1>2, <1>7 DEF TxOK
  <2> HIDE DEF store
  <2> DEFINE storages == [chain.storages EXCEPT ![tx.at] = store]
  <2>4. /\ storages \in Seq(Stores) /\ Len(storages) = Len(chain.storages)
        /\ DOMAIN storages = DOMAIN chain.storages
        /\ storages[tx.at] = store
        /\ \A s \in DOMAIN chain.storages : s # tx.at => storages[s] = chain.storages[s]
    BY <1>2, <2>2, <2>3, ExceptSeq
  <2>5. /\ after.storages = storages /\ after.registries = chain.registries
        /\ after.nfts = chain.nfts
        /\ after \in [storages : Seq(Stores), registries : {after.registries}, nfts : {after.nfts}]
    BY <1>2, <2>1, <2>4
  <2> HIDE DEF after, storages
  <2>6. ChainOK(after)
    BY <1>2, <2>2, <2>4, <2>5 DEF ChainOK
  <2>7. Later(chain, after)
    BY <1>2, <1>3, <2>2, <2>4, <2>5 DEF Later
  <2>8. tx # [to |-> "create", op |-> "PhilSVGStorage"]
    BY <1>7
  <2>9. /\ after.storages[tx.at] = store
        /\ \A s \in DOMAIN chain.storages : s # tx.at => after.storages[s] = chain.storages[s]
        /\ DOMAIN after.storages = DOMAIN chain.storages
    BY <2>4, <2>5
  <2> QED
    BY <2>1, <2>6, <2>7, <2>8, <2>9 DEF after, store
<1>8. CASE tx.to = "registry"
  <2> DEFINE registry == AtRegistry(tx).registry
  <2>1. after = [chain EXCEPT !.registries[tx.at] = registry]
    BY <1>8 DEF Execute
  <2> HIDE DEF registry
  <2> DEFINE registries == [chain.registries EXCEPT ![tx.at] = registry]
  <2>2. IsSeq(registries)
    <3>1. Len(chain.registries) \in Nat /\ DOMAIN registries = 1 .. Len(chain.registries)
          /\ registries = [i \in DOMAIN registries |-> registries[i]]
      BY <1>2, IsSeqProperties
    <3> HIDE DEF registries
    <3> QED
      BY <3>1, MadeSeq
  <2>3. ChainOK(after) /\ Later(chain, after)
    <3>1. /\ after.storages = chain.storages /\ after.nfts = chain.nfts
          /\ after.registries = registries
          /\ after \in [storages : Seq(Stores), registries : {after.registries}, nfts : {after.nfts}]
      BY <1>2, <2>1
    <3> HIDE DEF after, registries
    <3> QED
      BY <1>2, <1>3, <2>2, <3>1 DEF ChainOK, Later
  <2> QED
    BY <1>8, <2>3
<1> QED
  BY <1>4, <1>5, <1>6, <1>7, <1>8 DEF TxOK

(* A later chain has what an earlier one had.                              *)
LEMMA StoreLater ==
    ASSUME NEW c, NEW d, ChainOK(c), ChainOK(d), Later(c, d), NEW s \in DOMAIN c.storages
    PROVE  /\ s \in DOMAIN d.storages /\ s \in Nat \ {0}
           /\ StoreOK(c.storages[s]) /\ StoreOK(d.storages[s])
           /\ Grows(c.storages[s], d.storages[s])
           /\ \A id : Known(c.storages[s], id) => Known(d.storages[s], id)
           /\ \A id : Readable(c.storages[s], id) => Readable(d.storages[s], id)
<1>1. s \in DOMAIN d.storages /\ s \in Nat \ {0}
  BY ChainFacts DEF Later
<1>2. StoreOK(c.storages[s]) /\ StoreOK(d.storages[s]) /\ Grows(c.storages[s], d.storages[s])
  BY <1>1, ChainFacts DEF Later
<1> DEFINE old == c.storages[s]
           new == d.storages[s]
<1> HIDE DEF old, new
<1>3. StoreOK(old) /\ StoreOK(new) /\ Grows(old, new)
  BY <1>2 DEF old, new
<1>4. \A id : Known(old, id) => Known(new, id)
  BY <1>3, StoreFacts DEF Known, StoreOK, Grows
<1>5. \A id : Readable(old, id) => Readable(new, id)
  BY <1>3, <1>4 DEF Readable, Known, Grows
<1> QED
  BY <1>1, <1>2, <1>4, <1>5 DEF old, new

LEMMA DiskLater ==
    ASSUME NEW d, NEW a, NEW c1, NEW c2, ChainOK(c1), ChainOK(c2), Later(c1, c2), DiskOK(d, c1, a)
    PROVE  DiskOK(d, c2, a)
<1>1. /\ Len(c1.storages) \in Nat /\ Len(c2.storages) \in Nat /\ Len(c1.nfts) \in Nat
      /\ Len(c2.nfts) \in Nat /\ Len(c1.storages) <= Len(c2.storages)
      /\ Len(c1.nfts) <= Len(c2.nfts) /\ DOMAIN c1.storages = 1 .. Len(c1.storages)
  BY ChainFacts DEF Later
<1>2. /\ \A n \in 0 .. Len(c1.storages) : n \in 0 .. Len(c2.storages)
      /\ \A n \in 0 .. Len(c1.nfts) : n \in 0 .. Len(c2.nfts)
  BY <1>1
<1>3. /\ d.state \in Entries(c1) /\ d.manifest \in Entries(c1)
      /\ d.addresses \in [storage : 0 .. Len(c1.storages), registry : Nat, nft : 0 .. Len(c1.nfts)]
      /\ d = [catalog |-> d.catalog, state |-> d.state, manifest |-> d.manifest,
              addresses |-> d.addresses]
  BY DEF DiskOK
<1>4. /\ d.state \in Entries(c2) /\ d.manifest \in Entries(c2)
      /\ d.addresses \in [storage : 0 .. Len(c2.storages), registry : Nat, nft : 0 .. Len(c2.nfts)]
  BY <1>2, <1>3 DEF Entries
<1>5. d \in [catalog : {d.catalog}, state : Entries(c2), manifest : Entries(c2),
             addresses : [storage : 0 .. Len(c2.storages), registry : Nat, nft : 0 .. Len(c2.nfts)]]
  BY <1>3, <1>4
<1>6. ASSUME NEW f \in Files, d.state.files[f] # 0
      PROVE  d.state.storage # 0 /\ Known(c2.storages[d.state.storage], d.state.files[f])
  <2>1. d.state.storage # 0 /\ Known(c1.storages[d.state.storage], d.state.files[f])
    BY <1>6 DEF DiskOK
  <2>2. d.state.storage \in DOMAIN c1.storages
    BY <1>1, <1>3, <2>1 DEF Entries
  <2> QED
    BY <2>1, <2>2, StoreLater
<1> QED
  BY <1>5, <1>6 DEF DiskOK

LEMMA JobLater ==
    ASSUME NEW j, NEW catalog, NEW c1, NEW c2, ChainOK(c1), ChainOK(c2), Later(c1, c2),
           JobOK(j, c1, catalog)
    PROVE  JobOK(j, c2, catalog)
<1>1. CASE NotUploading(j, catalog)
  BY <1>1 DEF JobOK
<1>2. CASE UploadOK(j, c1, catalog)
  <2>1. j.storage \in DOMAIN c1.storages
    BY <1>2 DEF UploadOK, Uploads
  <2>2. j.storage \in DOMAIN c2.storages
    BY <2>1, StoreLater
  <2>3. j \in Uploads(j, c2)
    BY <1>2, <2>2 DEF UploadOK, Uploads
  <2>4. \A id : Known(c1.storages[j.storage], id) => Known(c2.storages[j.storage], id)
    BY <2>1, StoreLater
  <2> QED
    BY <1>2, <2>3, <2>4 DEF UploadOK, JobOK
<1> QED
  BY <1>1, <1>2 DEF JobOK

LEMMA TxLater ==
    ASSUME NEW tx, NEW c1, NEW c2, ChainOK(c1), ChainOK(c2), Later(c1, c2), TxOK(tx, c1)
    PROVE  TxOK(tx, c2)
  BY StoreLater DEF TxOK

LEMMA ArtFacts ==
    ASSUME NEW a, ArtOK(a)
    PROVE  Catalog(a.catalog, Files)
<1>1. a.tree \in SUBSET Files /\ Catalog(a.catalog, a.tree)
  BY CatalogLists DEF ArtOK
<1>2. \A s : s \in Seq(a.tree) => s \in Seq(Files)
  BY <1>1, SeqMonotonic
<1> QED
  BY <1>1, <1>2 DEF Catalog, Piece

LEMMA UploadFacts ==
    ASSUME ReleaseInv, Uploading
    PROVE  /\ UploadOK(job, chain, disk.catalog) /\ job \in Uploads(job, chain)
           /\ disk.catalog \in BuiltCatalogs(art) /\ Catalog(disk.catalog, Files)
           /\ disk.catalog.assets = art.catalog.assets
           /\ disk.catalog.bytes \in [Files -> Contents] /\ art.bytes \in [Files -> Contents]
           /\ job.storage \in DOMAIN chain.storages /\ job.storage \in 1 .. Len(chain.storages)
           /\ StoreOK(Store) /\ Store \in Stores
<1>1. UploadOK(job, chain, disk.catalog)
  BY DEF ReleaseInv, JobOK, NotUploading, Uploading, Idle
<1>2. disk.catalog \in BuiltCatalogs(art) /\ Catalog(art.catalog, Files)
  BY <1>1, ArtFacts DEF UploadOK, ReleaseInv, DiskOK
<1>3. Catalog(disk.catalog, Files)
  BY <1>2 DEF Catalog, BuiltCatalogs
<1>4. job \in Uploads(job, chain) /\ job.storage \in DOMAIN chain.storages
  BY <1>1 DEF UploadOK, Uploads
<1>5. StoreOK(Store) /\ Store \in Stores /\ job.storage \in 1 .. Len(chain.storages)
  BY <1>4, ChainFacts DEF ReleaseInv, Store
<1> QED
  BY <1>1, <1>2, <1>3, <1>4, <1>5 DEF BuiltCatalogs, ReleaseInv, ArtOK

(* What a step leaves to be shown of it.                                   *)
LEMMA GotoKeeps ==
    ASSUME ReleaseInv, chain' = chain, art' = art, mempool' = mempool, receipt' = "none",
           ~Waiting', DiskOK(disk', chain, art), JobOK(job', chain, disk'.catalog)
    PROVE  ReleaseInv'
<1>1. job'.pc \notin {"storage", "batch", "init"}
  BY DEF Waiting
<1>2. ReceiptFollows'
  BY DEF ReceiptFollows
<1> QED
  BY <1>1, <1>2 DEF ReleaseInv, StorageAwaited, BatchAwaited, InitAwaited

LEMMA SendKeeps ==
    ASSUME ReleaseInv, chain' = chain, art' = art, receipt' = "none", NEW tx, TxOK(tx, chain),
           mempool' = Append(mempool, tx), Waiting',
           DiskOK(disk', chain, art), JobOK(job', chain, disk'.catalog),
           job'.pc = "storage" => tx = [to |-> "create", op |-> "PhilSVGStorage"],
           job'.pc = "batch" =>
               LET store == chain.storages[job'.storage]
                   svgs == BytesIn(Head(job'.batches), art)
               IN /\ \A k \in DOMAIN job'.ids :
                        job'.ids[k] <= Len(store.records) + Cardinality(Missing(store, svgs))
                  /\ tx = [to |-> "storage", op |-> "storeSvgBatch", at |-> job'.storage,
                           svgs |-> svgs],
           job'.pc = "init" =>
               LET store == chain.storages[job'.storage]
               IN \/ Known(store, job'.ids)
                  \/ /\ job'.ids = Len(store.records) + 1
                     /\ tx.to = "storage" /\ tx.op = "initializeChunkedSvg" /\ tx.at = job'.storage
                     /\ ExistingId(store, tx.hash) = 0
    PROVE  ReleaseInv'
<1>1. IsSeq(mempool)
  BY DEF ReleaseInv, MempoolOK
<1>2. /\ IsSeq(mempool') /\ Len(mempool') = Len(mempool) + 1 /\ Len(mempool) \in Nat
      /\ \A i \in DOMAIN mempool : mempool'[i] = mempool[i]
      /\ mempool'[Len(mempool) + 1] = tx
  BY <1>1, AppendIsSeq
<1>3. DOMAIN mempool' = 1 .. Len(mempool) + 1 /\ DOMAIN mempool = 1 .. Len(mempool)
  BY <1>1, <1>2, IsSeqProperties
<1>4. mempool' # <<>> /\ Last(mempool') = tx
  BY <1>2 DEF Last
<1>5. MempoolOK(mempool', chain)
  <2> SUFFICES ASSUME NEW k \in DOMAIN mempool' PROVE TxOK(mempool'[k], chain)
    BY <1>2 DEF MempoolOK
  <2>1. k \in DOMAIN mempool \/ k = Len(mempool) + 1
    BY <1>2, <1>3
  <2> QED
    BY <1>2, <2>1 DEF ReleaseInv, MempoolOK
<1>6. ReceiptFollows'
  BY <1>4 DEF ReceiptFollows
<1>7. StorageAwaited(job, chain, mempool)'
  BY <1>4 DEF StorageAwaited
<1>8. BatchAwaited(job, chain, art, mempool, receipt)'
  BY <1>4 DEF BatchAwaited
<1>9. InitAwaited(job, chain, mempool, receipt)'
  BY <1>4 DEF InitAwaited
<1> QED
  BY <1>5, <1>6, <1>7, <1>8, <1>9 DEF ReleaseInv

LEMMA EnterKeeps ==
    ASSUME ReleaseInv, Uploading, NEW entries, NEW next, Enter(entries, next),
           next \in Uploads(next, chain), next.storage = job.storage,
           UploadOK([next EXCEPT !.state = job.state], chain, disk.catalog),
           next.pc \in {"scan", "flush"},
           \A f \in Files \cap DOMAIN entries :
               entries[f] \in Nat /\ (entries[f] # 0 => Known(Store, entries[f]))
    PROVE  ReleaseInv'
<1> DEFINE state == [f \in Files |-> IF f \in DOMAIN entries THEN entries[f] ELSE job.state[f]]
           manifest == [f \in Files |-> IF f \in DOMAIN entries THEN entries[f] ELSE job.manifest[f]]
<1>1. /\ job' = [next EXCEPT !.state = state, !.manifest = manifest]
      /\ disk' = [disk EXCEPT !.state = [storage |-> job.storage, files |-> state]]
      /\ receipt' = "none" /\ art' = art /\ chain' = chain /\ mempool' = mempool
  BY DEF Enter
<1>2. /\ UploadOK(job, chain, disk.catalog) /\ job \in Uploads(job, chain)
      /\ job.storage \in 1 .. Len(chain.storages)
  BY UploadFacts
<1>3. state \in [Files -> Nat] /\ manifest \in [Files -> Nat]
      /\ \A f \in Files : state[f] # 0 => Known(Store, state[f])
  BY <1>2 DEF UploadOK, Uploads, Store
<1> HIDE DEF state, manifest
<1>4. DiskOK(disk', chain, art)
  <2>1. DiskOK(disk, chain, art)
    BY DEF ReleaseInv
  <2>2. [storage |-> job.storage, files |-> state] \in Entries(chain)
    BY <1>2, <1>3 DEF Entries
  <2>3. /\ disk'.state = [storage |-> job.storage, files |-> state]
        /\ disk'.catalog = disk.catalog /\ disk'.manifest = disk.manifest
        /\ disk'.addresses = disk.addresses
        /\ disk' \in [catalog : {disk'.catalog}, state : Entries(chain), manifest : Entries(chain),
                      addresses : [storage : 0 .. Len(chain.storages), registry : Nat,
                                   nft : 0 .. Len(chain.nfts)]]
    BY <1>1, <2>1, <2>2 DEF DiskOK
  <2> QED
    BY <1>2, <1>3, <2>1, <2>3 DEF DiskOK, Store
<1>5. UploadOK(job', chain, disk'.catalog)
  <2>1. disk'.catalog = disk.catalog
    BY <1>1 DEF ReleaseInv, DiskOK
  <2>2. /\ job' \in Uploads(job', chain) /\ job'.pc = next.pc /\ job'.storage = next.storage
        /\ job'.i = next.i /\ job'.then = next.then
        /\ job'.plan = next.plan /\ job'.state = state
    BY <1>1, <1>3 DEF Uploads
  <2>3. LET j == [next EXCEPT !.state = job.state]
        IN j.pc = next.pc /\ j.i = next.i /\ j.then = next.then /\ j.plan = next.plan
    BY DEF Uploads
  <2> QED
    BY <1>3, <2>1, <2>2, <2>3 DEF UploadOK, OnChunked, Store
<1>6. ~Waiting'
  BY <1>1 DEF Waiting, Uploads
<1> QED
  BY <1>1, <1>4, <1>5, <1>6, GotoKeeps DEF JobOK

(* A script starts.                                                        *)
LEMMA BuiltOK ==
    ASSUME ReleaseInv, BuiltCatalog.ok
    PROVE  BuiltCatalog \in BuiltCatalogs(art) /\ BuiltCatalog # NoCatalog
<1>1. art.catalog.ok \in BOOLEAN /\ art.bytes \in [Files -> Contents]
  BY CatalogLists DEF ReleaseInv, ArtOK
<1>2. BuiltCatalog \in BuiltCatalogs(art)
  BY <1>1 DEF BuiltCatalog, BuiltCatalogs
<1>3. NoCatalog.ok = FALSE
  BY DEF NoCatalog
<1> QED
  BY <1>2, <1>3

LEMMA BeginUploadOK ==
    ASSUME ReleaseInv, NEW kind \in {"deploy", "upload"}, NEW storage \in 1 .. Len(chain.storages),
           NEW catalog, catalog # NoCatalog
    PROVE  JobOK(BeginUpload(kind, storage), chain, catalog)
<1> DEFINE j == BeginUpload(kind, storage)
<1>1. NoIds \in [Files -> Nat] /\ \A f \in Files : NoIds[f] = 0
  BY DEF NoIds
<1>2. StateOf(storage) \in [Files -> Nat]
      /\ \A f \in Files : StateOf(storage)[f] # 0 => Known(chain.storages[storage], StateOf(storage)[f])
  BY <1>1 DEF StateOf, ReleaseInv, DiskOK, Entries
<1>3. DOMAIN chain.storages = 1 .. Len(chain.storages)
  BY ChainFacts DEF ReleaseInv
<1> HIDE DEF NoIds
<1>4. j = [pc |-> "scan", kind |-> kind, storage |-> storage, i |-> 1, pending |-> <<>>,
           batches |-> <<>>, then |-> "scan", ids |-> <<>>, registry |-> 0, plan |-> <<>>,
           manifest |-> NoIds, state |-> StateOf(storage)]
  BY DEF BeginUpload
<1> HIDE DEF j
<1>5. j \in Uploads(j, chain)
  BY <1>1, <1>2, <1>3, <1>4 DEF Uploads, UploadPcs
<1>6. IsSeq(j.plan)
  <2>1. <<>> \in Seq({})
    OBVIOUS
  <2> QED
    BY <1>4, <2>1, SeqIsSeq
<1> QED
  BY <1>2, <1>4, <1>5, <1>6 DEF UploadOK, JobOK, OnChunked, j

LEMMA CatalogWritten ==
    ASSUME ReleaseInv, NEW catalog \in BuiltCatalogs(art), disk' = [disk EXCEPT !.catalog = catalog]
    PROVE  DiskOK(disk', chain, art) /\ disk'.catalog = catalog
           /\ disk'.addresses = disk.addresses /\ disk'.state = disk.state
<1>1. DiskOK(disk, chain, art)
  BY DEF ReleaseInv
<1>2. /\ disk'.state = disk.state /\ disk'.catalog = catalog
      /\ disk'.manifest = disk.manifest /\ disk'.addresses = disk.addresses
      /\ disk' \in [catalog : {disk'.catalog}, state : Entries(chain), manifest : Entries(chain),
                    addresses : [storage : 0 .. Len(chain.storages), registry : Nat,
                                 nft : 0 .. Len(chain.nfts)]]
  BY <1>1 DEF DiskOK
<1> QED
  BY <1>1, <1>2 DEF DiskOK

LEMMA StartDeployKeeps == ASSUME ReleaseInv, StartDeploy PROVE ReleaseInv'
<1>1. BuiltCatalog.ok /\ disk' = [disk EXCEPT !.catalog = BuiltCatalog]
  BY DEF StartDeploy
<1>2. /\ DiskOK(disk', chain, art) /\ disk'.catalog = BuiltCatalog /\ BuiltCatalog # NoCatalog
  BY <1>1, BuiltOK, CatalogWritten
<1>3. job.pc = "idle" /\ chain' = chain /\ art' = art
  BY DEF StartDeploy
<1>4. receipt = "none"
  BY <1>3 DEF ReleaseInv, ReceiptFollows, Waiting
<1>5. disk.addresses.storage \in 0 .. Len(chain.storages) /\ Len(chain.storages) \in Nat
  BY ChainFacts DEF ReleaseInv, DiskOK
<1>6. PICK requested \in 0 .. Len(chain.storages) :
          LET storage == IF requested # 0 THEN requested ELSE disk.addresses.storage
          IN IF storage # 0
             THEN job' = BeginUpload("deploy", storage) /\ UNCHANGED <<mempool, receipt>>
             ELSE /\ job' = [pc |-> "storage"]
                  /\ mempool' = Append(mempool, [to |-> "create", op |-> "PhilSVGStorage"])
                  /\ receipt' = "none"
  BY DEF StartDeploy
<1> DEFINE storage == IF requested # 0 THEN requested ELSE disk.addresses.storage
<1>7. CASE storage # 0
  <2>1. /\ storage \in 1 .. Len(chain.storages) /\ job' = BeginUpload("deploy", storage)
        /\ mempool' = mempool /\ receipt' = "none"
    BY <1>4, <1>5, <1>6, <1>7
  <2> HIDE DEF storage
  <2>2. JobOK(job', chain, disk'.catalog)
    BY <1>2, <2>1, BeginUploadOK
  <2>3. ~Waiting'
    BY <2>1 DEF Waiting, BeginUpload
  <2> QED
    BY <1>2, <1>3, <2>1, <2>2, <2>3, GotoKeeps
<1>8. CASE storage = 0
  <2> DEFINE tx == [to |-> "create", op |-> "PhilSVGStorage"]
  <2>1. job' = [pc |-> "storage"] /\ mempool' = Append(mempool, tx) /\ receipt' = "none"
    BY <1>6, <1>8
  <2>2. JobOK(job', chain, disk'.catalog)
    BY <1>2, <2>1 DEF JobOK, NotUploading
  <2>3. Waiting' /\ TxOK(tx, chain) /\ job'.pc = "storage"
    BY <2>1 DEF Waiting, TxOK
  <2> HIDE DEF tx
  <2> QED
    BY <1>2, <1>3, <2>1, <2>2, <2>3, SendKeeps DEF tx
<1> QED
  BY <1>7, <1>8

LEMMA StartUploadKeeps == ASSUME ReleaseInv, StartUpload PROVE ReleaseInv'
<1> DEFINE catalog == IF disk.catalog = NoCatalog THEN BuiltCatalog ELSE disk.catalog
<1>1. catalog.ok /\ disk' = [disk EXCEPT !.catalog = catalog]
  BY DEF StartUpload
<1>2. catalog \in BuiltCatalogs(art) /\ catalog # NoCatalog
  BY <1>1, BuiltOK DEF ReleaseInv, DiskOK
<1> HIDE DEF catalog
<1>3. DiskOK(disk', chain, art) /\ disk'.catalog = catalog
  BY <1>1, <1>2, CatalogWritten
<1>4. /\ job.pc = "idle" /\ chain' = chain /\ art' = art /\ mempool' = mempool
      /\ receipt' = receipt
  BY DEF StartUpload
<1>5. receipt = "none"
  BY <1>4 DEF ReleaseInv, ReceiptFollows, Waiting
<1>6. PICK storage \in DOMAIN chain.storages : job' = BeginUpload("upload", storage)
  BY DEF StartUpload
<1>7. storage \in 1 .. Len(chain.storages)
  BY ChainFacts DEF ReleaseInv
<1>8. JobOK(job', chain, disk'.catalog)
  BY <1>2, <1>3, <1>6, <1>7, BeginUploadOK
<1>9. ~Waiting'
  BY <1>6 DEF Waiting, BeginUpload
<1> QED
  BY <1>3, <1>4, <1>5, <1>8, <1>9, GotoKeeps

LEMMA NothingPending ==
    ASSUME ReleaseInv, NEW pc, Succeeded(pc)
    PROVE  job.pc = pc /\ mempool = <<>> /\ receipt = "success"
  BY DEF Succeeded

(* Goto to a job of the same upload.                                       *)
LEMMA GotoUpload ==
    ASSUME ReleaseInv, NEW next, Goto(next), JobOK(next, chain, disk.catalog),
           next.pc \notin {"storage", "batch", "init", "append", "finalize", "registry",
                           "register", "nft"}
    PROVE  ReleaseInv'
<1>1. /\ job' = next /\ receipt' = "none" /\ art' = art /\ chain' = chain /\ mempool' = mempool
      /\ disk' = disk
  BY DEF Goto
<1>2. ~Waiting' /\ DiskOK(disk', chain, art)
  BY <1>1 DEF Waiting, ReleaseInv
<1> QED
  BY <1>1, <1>2, GotoKeeps

LEMMA IdleOK == ASSUME NEW c, NEW catalog PROVE JobOK(Idle, c, catalog) /\ Idle.pc = "idle"
  BY DEF JobOK, NotUploading, Idle

LEMMA StorageDeployedKeeps == ASSUME ReleaseInv, StorageDeployed PROVE ReleaseInv'
<1>1. /\ job.pc = "storage" /\ mempool = <<>>
      /\ Goto(BeginUpload("deploy", Len(chain.storages)))
  BY DEF StorageDeployed, Succeeded
<1>2. chain.storages # <<>>
  BY <1>1 DEF ReleaseInv, StorageAwaited
<1>3. Len(chain.storages) \in 1 .. Len(chain.storages)
  BY <1>2, ChainFacts DEF ReleaseInv, ChainOK
<1>4. disk.catalog # NoCatalog
  BY <1>1 DEF ReleaseInv, JobOK, NotUploading, Idle, UploadOK, Uploads, UploadPcs, OnChunked
<1>5. JobOK(BeginUpload("deploy", Len(chain.storages)), chain, disk.catalog)
  BY <1>3, <1>4, BeginUploadOK
<1>6. BeginUpload("deploy", Len(chain.storages)).pc = "scan"
  BY DEF BeginUpload
<1> QED
  BY <1>1, <1>5, <1>6, GotoUpload

(* The scan of the catalog.                                                *)
LEMMA FileFacts ==
    ASSUME ReleaseInv, Uploading, job.i <= Len(disk.catalog.assets)
    PROVE  /\ job.i \in DOMAIN disk.catalog.assets /\ FileAt \in Files
           /\ Bytes(FileAt) \in Contents
<1>1. /\ Catalog(disk.catalog, Files) /\ job \in Uploads(job, chain)
      /\ art.bytes \in [Files -> Contents]
  BY UploadFacts
<1>2. job.i \in DOMAIN disk.catalog.assets
  BY <1>1 DEF Catalog, Uploads
<1>3. FileAt \in Files
  BY <1>1, <1>2 DEF FileAt, Catalog
<1> QED
  BY <1>1, <1>2, <1>3 DEF Bytes

LEMMA ScanningFacts ==
    ASSUME ReleaseInv, Scanning
    PROVE  /\ Uploading /\ job.pc = "scan" /\ job.i \in DOMAIN disk.catalog.assets
           /\ FileAt \in Files /\ Bytes(FileAt) \in Contents
<1>1. Uploading /\ job.pc = "scan" /\ job.i <= Len(disk.catalog.assets)
  BY DEF Scanning, Uploading
<1> QED
  BY <1>1, FileFacts

LEMMA StoredAsFacts ==
    ASSUME ReleaseInv, Uploading, NEW f \in Files
    PROVE  /\ StoredAs(f) \in Nat
           /\ StoredAs(f) # 0 => Holds(StoredAs(f), f) /\ Known(Store, StoredAs(f))
<1>1. job \in Uploads(job, chain) /\ Store \in Stores /\ art.bytes \in [Files -> Contents]
  BY UploadFacts
<1>2. job.state[f] \in Nat
  BY <1>1 DEF Uploads
<1>3. Store.svgIdForHash[Bytes(f)] \in Nat
  BY <1>1, StoreFacts DEF Bytes
<1>4. \/ StoredAs(f) = 0
      \/ StoredAs(f) = job.state[f] /\ Holds(StoredAs(f), f)
      \/ StoredAs(f) = Store.svgIdForHash[Bytes(f)] /\ Holds(StoredAs(f), f)
  BY DEF StoredAs
<1> QED
  BY <1>2, <1>3, <1>4 DEF Holds, Readable

LEMMA AlreadyStoredKeeps == ASSUME ReleaseInv, AlreadyStored PROVE ReleaseInv'
<1> DEFINE next == [job EXCEPT !.i = @ + 1]
           entries == [f \in {FileAt} |-> StoredAs(f)]
<1>1. Scanning /\ Enter(entries, next)
  BY DEF AlreadyStored
<1>2. /\ Uploading /\ job.pc = "scan" /\ FileAt \in Files
  BY <1>1, ScanningFacts
<1>3. UploadOK(job, chain, disk.catalog) /\ job \in Uploads(job, chain)
  BY <1>2, UploadFacts
<1>9. job.i + 1 \in Nat \ {0}
  BY <1>3 DEF Uploads
<1>4. /\ next \in Uploads(next, chain) /\ next.pc = "scan" /\ next.storage = job.storage
      /\ next.state = job.state /\ next.plan = job.plan
  BY <1>2, <1>3, <1>9 DEF Uploads
<1>5. \A f \in Files \cap DOMAIN entries :
          entries[f] \in Nat /\ (entries[f] # 0 => Known(Store, entries[f]))
  BY <1>2, StoredAsFacts
<1> HIDE DEF next, entries
<1>6. /\ [next EXCEPT !.state = job.state] = next
  BY <1>4 DEF Uploads
<1>7. UploadOK(next, chain, disk.catalog)
  BY <1>3, <1>4 DEF UploadOK, OnChunked
<1> QED
  BY <1>1, <1>2, <1>4, <1>5, <1>6, <1>7, EnterKeeps

LEMMA FlushOK ==
    ASSUME NEW j, NEW c, NEW catalog, UploadOK(j, c, catalog), j.pc = "scan",
           NEW then \in {"scan", "chunked", "finish"},
           then = "chunked" => j.i \in DOMAIN catalog.assets
    PROVE  JobOK(Flush(j, then), c, catalog) /\ Flush(j, then).pc = "flush"
<1> DEFINE next == Flush(j, then)
           batches == IF j.pending = <<>> THEN <<>> ELSE <<j.pending>>
<1>1. j \in Uploads(j, c)
  BY DEF UploadOK
<1>2. batches \in Seq(Seq(Files))
  BY <1>1 DEF Uploads
<1>3. next = [j EXCEPT !.pc = "flush", !.then = then, !.batches = batches, !.pending = <<>>]
  BY DEF Flush
<1> HIDE DEF next, batches
<1>6. <<>> \in Seq(Files) /\ "flush" \in UploadPcs
  BY DEF UploadPcs
<1>4. /\ next \in Uploads(next, c) /\ next.pc = "flush" /\ next.then = then /\ next.i = j.i
      /\ next.plan = j.plan /\ next.state = j.state /\ next.storage = j.storage
  BY <1>1, <1>2, <1>3, <1>6 DEF Uploads
<1>5. UploadOK(next, c, catalog)
  BY <1>4 DEF UploadOK, OnChunked
<1> QED
  BY <1>4, <1>5 DEF JobOK, next

LEMMA CollectSmallKeeps == ASSUME ReleaseInv, CollectSmall PROVE ReleaseInv'
<1> DEFINE next == [job EXCEPT !.i = @ + 1, !.pending = Append(@, FileAt)]
<1>1. Scanning /\ (Goto(Flush(next, "scan")) \/ Goto(next))
  BY DEF CollectSmall
<1>2. /\ Uploading /\ job.pc = "scan" /\ FileAt \in Files
  BY <1>1, ScanningFacts
<1>3. UploadOK(job, chain, disk.catalog) /\ job \in Uploads(job, chain)
  BY <1>2, UploadFacts
<1>4. Append(job.pending, FileAt) \in Seq(Files)
  BY <1>2, <1>3 DEF Uploads
<1>8. job.i + 1 \in Nat \ {0}
  BY <1>3 DEF Uploads
<1>5. /\ next \in Uploads(next, chain) /\ next.pc = "scan" /\ next.storage = job.storage
      /\ next.state = job.state /\ next.plan = job.plan
  BY <1>2, <1>3, <1>4, <1>8 DEF Uploads
<1> HIDE DEF next
<1>6. UploadOK(next, chain, disk.catalog)
  BY <1>3, <1>5 DEF UploadOK, OnChunked
<1>7. JobOK(next, chain, disk.catalog) /\ JobOK(Flush(next, "scan"), chain, disk.catalog)
      /\ Flush(next, "scan").pc = "flush"
  BY <1>5, <1>6, FlushOK DEF JobOK
<1> QED
  BY <1>1, <1>5, <1>7, GotoUpload

LEMMA MeetChunkedKeeps == ASSUME ReleaseInv, MeetChunked PROVE ReleaseInv'
<1>1. Scanning /\ Goto(Flush(job, "chunked"))
  BY DEF MeetChunked
<1>2. Uploading /\ job.pc = "scan" /\ job.i \in DOMAIN disk.catalog.assets
  BY <1>1, ScanningFacts
<1>3. JobOK(Flush(job, "chunked"), chain, disk.catalog) /\ Flush(job, "chunked").pc = "flush"
  BY <1>2, UploadFacts, FlushOK
<1> QED
  BY <1>1, <1>3, GotoUpload

LEMMA EndScanKeeps == ASSUME ReleaseInv, EndScan PROVE ReleaseInv'
<1>1. job.pc = "scan" /\ Goto(Flush(job, "finish"))
  BY DEF EndScan
<1>2. JobOK(Flush(job, "finish"), chain, disk.catalog) /\ Flush(job, "finish").pc = "flush"
  BY <1>1, UploadFacts, FlushOK DEF Uploading
<1> QED
  BY <1>1, <1>2, GotoUpload

(* Batches.                                                                *)
LEMMA HalvedOK ==
    ASSUME NEW batches \in Seq(Seq(Files)), batches # <<>>
    PROVE  Halved(batches) \in Seq(Seq(Files)) /\ Halved(batches) # <<>>
<1> DEFINE batch == Head(batches)
           half == (Len(batch) + 1) \div 2
           halves == <<SubSeq(batch, 1, half), SubSeq(batch, half + 1, Len(batch))>>
<1>1. batch \in Seq(Files) /\ Tail(batches) \in Seq(Seq(Files))
  OBVIOUS
<1>2. Halved(batches) = halves \o Tail(batches)
  BY DEF Halved
<1> HIDE DEF batch
<1>3. half \in Nat /\ half <= Len(batch) /\ Len(batch) \in Nat
  <2>1. Len(batch) \in Nat
    BY <1>1
  <2>2. \A n \in Nat : n # 0 => (n + 1) \div 2 <= n /\ (n + 1) \div 2 \in Nat
    OBVIOUS
  <2>3. (0 + 1) \div 2 = 0
    OBVIOUS
  <2> QED
    BY <2>1, <2>2, <2>3
<1> HIDE DEF half
<1>4. SubSeq(batch, 1, half) \in Seq(Files) /\ SubSeq(batch, half + 1, Len(batch)) \in Seq(Files)
  <2>1. \A i \in 1 .. half : batch[i] \in Files
    BY <1>1, <1>3
  <2>2. \A i \in half + 1 .. Len(batch) : batch[i] \in Files
    BY <1>1, <1>3
  <2> QED
    BY <1>3, <2>1, <2>2, SubSeqProperties
<1>5. halves \in Seq(Seq(Files)) /\ halves # <<>>
  BY <1>4
<1> HIDE DEF halves
<1> QED
  BY <1>1, <1>2, <1>5, ConcatProperties, ConcatEqualIffEmpty

LEMMA BatchFailedOK ==
    ASSUME ReleaseInv, job.pc \in {"flush", "batch"}, job.batches # <<>>
    PROVE  /\ JobOK(BatchFailed, chain, disk.catalog)
           /\ BatchFailed.pc \in {"idle", "flush"}
<1> DEFINE next == [job EXCEPT !.pc = "flush", !.batches = Halved(@)]
<1>1. UploadOK(job, chain, disk.catalog) /\ job \in Uploads(job, chain)
  BY UploadFacts DEF Uploading
<1>2. Halved(job.batches) \in Seq(Seq(Files))
  BY <1>1, HalvedOK DEF Uploads
<1>3. /\ next \in Uploads(next, chain) /\ next.pc = "flush" /\ next.then = job.then
      /\ next.i = job.i /\ next.plan = job.plan /\ next.state = job.state
      /\ next.storage = job.storage
  BY <1>1, <1>2 DEF Uploads, UploadPcs
<1>4. BatchFailed = Idle \/ BatchFailed = next
  BY DEF BatchFailed
<1> HIDE DEF next
<1>5. UploadOK(next, chain, disk.catalog)
  BY <1>1, <1>3 DEF UploadOK, OnChunked
<1> QED
  BY <1>3, <1>4, <1>5, IdleOK DEF JobOK

LEMMA BatchBytes ==
    ASSUME ReleaseInv, Uploading, job.batches # <<>>
    PROVE  /\ Head(job.batches) \in Seq(Files)
           /\ BytesIn(Head(job.batches), art) \in Seq(Contents)
           /\ Len(BytesIn(Head(job.batches), art)) = Len(Head(job.batches))
           /\ DOMAIN BytesIn(Head(job.batches), art) = DOMAIN Head(job.batches)
           /\ DOMAIN Head(job.batches) = 1 .. Len(Head(job.batches))
           /\ \A k \in DOMAIN Head(job.batches) :
                 BytesIn(Head(job.batches), art)[k] = Bytes(Head(job.batches)[k])
<1>1. job \in Uploads(job, chain) /\ art.bytes \in [Files -> Contents]
  BY UploadFacts
<1>2. Head(job.batches) \in Seq(Files)
  BY <1>1 DEF Uploads
<1> QED
  BY <1>1, <1>2 DEF BytesIn, Bytes

LEMMA SendBatchKeeps == ASSUME ReleaseInv, SendBatch PROVE ReleaseInv'
<1> DEFINE batch == Head(job.batches)
           svgs == BytesIn(batch, art)
           predicted == StoreSvgBatch(Store, svgs)
           tx == [to |-> "storage", op |-> "storeSvgBatch", at |-> job.storage, svgs |-> svgs]
           next == [job EXCEPT !.pc = "batch", !.ids = predicted.id]
<1>1. /\ job.pc = "flush" /\ job.batches # <<>> /\ Uploading
      /\ IF predicted.ok THEN Send(tx, next) ELSE Goto(BatchFailed)
  BY DEF SendBatch, BytesIn, Bytes, Uploading
<1>2. UploadOK(job, chain, disk.catalog) /\ job \in Uploads(job, chain) /\ StoreOK(Store)
      /\ job.storage \in DOMAIN chain.storages
  BY <1>1, UploadFacts
<1>3. batch \in Seq(Files) /\ svgs \in Seq(Contents) /\ Len(svgs) = Len(batch)
      /\ DOMAIN batch = 1 .. Len(svgs)
  BY <1>1, BatchBytes
<1>4. CASE predicted.ok
  <2>1. /\ predicted.id \in [1 .. Len(svgs) -> Nat]
        /\ \A k \in 1 .. Len(svgs) :
              predicted.id[k] <= Len(Store.records) + Cardinality(Missing(Store, svgs))
    <3> HIDE DEF svgs
    <3> QED
      BY <1>2, <1>3, <1>4, BatchPredicts
  <2> DEFINE ids == predicted.id
  <2>2. Send(tx, next)
    BY <1>1, <1>4
  <2>3. /\ next = [job EXCEPT !.pc = "batch", !.ids = ids]
        /\ ids \in [DOMAIN batch -> Nat]
        /\ \A k \in DOMAIN ids : ids[k] <= Len(Store.records) + Cardinality(Missing(Store, svgs))
    BY <1>3, <2>1
  <2> HIDE DEF ids, predicted, svgs, next
  <2>4. /\ next \in Uploads(next, chain) /\ next.pc = "batch" /\ next.then = job.then
        /\ next.i = job.i /\ next.plan = job.plan /\ next.state = job.state
        /\ next.storage = job.storage /\ next.ids = ids /\ next.batches = job.batches
    BY <1>2, <2>3 DEF Uploads, UploadPcs
  <2>5. UploadOK(next, chain, disk.catalog)
    BY <1>1, <1>2, <2>3, <2>4 DEF UploadOK, OnChunked
  <2>6. TxOK(tx, chain)
    BY <1>2, <1>3 DEF TxOK, StorageTxOK
  <2>7. /\ job' = next /\ mempool' = Append(mempool, tx) /\ receipt' = "none" /\ art' = art
        /\ chain' = chain /\ disk' = disk
    BY <2>2 DEF Send
  <2>8. Waiting' /\ DiskOK(disk', chain, art) /\ JobOK(job', chain, disk'.catalog)
    BY <2>4, <2>5, <2>7 DEF Waiting, ReleaseInv, JobOK
  <2>9. /\ \A k \in DOMAIN job'.ids : job'.ids[k] <= Len(chain.storages[job'.storage].records)
                          + Cardinality(Missing(chain.storages[job'.storage], svgs))
        /\ svgs = BytesIn(Head(job'.batches), art)
        /\ tx = [to |-> "storage", op |-> "storeSvgBatch", at |-> job'.storage, svgs |-> svgs]
        /\ job'.pc = "batch"
    BY <2>3, <2>4, <2>7 DEF Store, svgs
  <2> HIDE DEF tx
  <2> QED
    BY <2>6, <2>7, <2>8, <2>9, SendKeeps
<1>5. CASE ~predicted.ok
  <2>1. Goto(BatchFailed)
    BY <1>1, <1>5
  <2> QED
    BY <1>1, <2>1, BatchFailedOK, GotoUpload
<1> QED
  BY <1>4, <1>5

(* A batch that was stored leaves none of its contents missing.            *)
LEMMA BatchIdsKnown ==
    ASSUME ReleaseInv, Succeeded("batch"), NEW k \in DOMAIN Head(job.batches)
    PROVE  job.ids[k] \in Nat /\ (job.ids[k] # 0 => Known(Store, job.ids[k]))
<1> DEFINE svgs == BytesIn(Head(job.batches), art)
<1>1. job.pc = "batch" /\ receipt = "success" /\ Uploading
  BY DEF Succeeded, Uploading
<1>2. /\ UploadOK(job, chain, disk.catalog) /\ StoreOK(Store)
  BY <1>1, UploadFacts
<1>3. job.batches # <<>> /\ job.ids \in [DOMAIN Head(job.batches) -> Nat]
  BY <1>1, <1>2 DEF UploadOK
<1>4. /\ svgs \in Seq(Contents) /\ DOMAIN svgs = DOMAIN Head(job.batches)
  BY <1>1, <1>3, BatchBytes
<1>5. /\ job.ids[k] <= Len(Store.records) + Cardinality(Missing(Store, svgs))
      /\ \A m \in DOMAIN svgs : Readable(Store, ExistingId(Store, svgs[m]))
  BY <1>1, <1>3 DEF ReleaseInv, BatchAwaited, Store
<1> HIDE DEF svgs
<1>6. Len(Store.records) \in Nat /\ DOMAIN Store.records = 1 .. Len(Store.records)
  BY <1>2, StoreFacts DEF StoreOK
<1>7. Missing(Store, svgs) = {}
  <2>1. \A m \in DOMAIN svgs : ExistingId(Store, svgs[m]) # 0
    BY <1>5, <1>6 DEF Readable, Known
  <2> QED
    BY <2>1 DEF Missing, ToSet
<1>8. job.ids[k] \in Nat /\ job.ids[k] <= Len(Store.records)
  BY <1>3, <1>5, <1>6, <1>7, FS_EmptySet
<1> QED
  BY <1>6, <1>8 DEF Known

LEMMA BatchStoredKeeps == ASSUME ReleaseInv, BatchStored PROVE ReleaseInv'
<1> DEFINE batch == Head(job.batches)
           At(f) == CHOOSE k \in DOMAIN batch : batch[k] = f
           entries == [f \in ToSet(batch) |-> job.ids[At(f)]]
           next == [job EXCEPT !.pc = "flush", !.batches = Tail(@), !.ids = <<>>]
<1>1. Succeeded("batch") /\ Enter(entries, next) /\ job.pc = "batch" /\ Uploading
  BY DEF BatchStored, Succeeded, Uploading
<1>2. UploadOK(job, chain, disk.catalog) /\ job \in Uploads(job, chain)
  BY <1>1, UploadFacts
<1>3. Tail(job.batches) \in Seq(Seq(Files))
  BY <1>1, <1>2 DEF UploadOK, Uploads
<1>4. /\ next \in Uploads(next, chain) /\ next.pc = "flush" /\ next.then = job.then
      /\ next.i = job.i /\ next.plan = job.plan /\ next.state = job.state
      /\ next.storage = job.storage
  BY <1>2, <1>3 DEF Uploads, UploadPcs
<1>5. ASSUME NEW f \in Files \cap DOMAIN entries
      PROVE  entries[f] \in Nat /\ (entries[f] # 0 => Known(Store, entries[f]))
  <2>1. \E k \in DOMAIN batch : batch[k] = f
    BY DEF ToSet
  <2>2. At(f) \in DOMAIN batch
    BY <2>1
  <2>3. entries[f] = job.ids[At(f)]
    OBVIOUS
  <2> HIDE DEF At, entries, batch
  <2> QED
    BY <1>1, <2>2, <2>3, BatchIdsKnown DEF batch
<1> HIDE DEF entries, next
<1>6. [next EXCEPT !.state = job.state] = next
  BY <1>4 DEF Uploads
<1>7. UploadOK(next, chain, disk.catalog)
  BY <1>1, <1>2, <1>4 DEF UploadOK, OnChunked
<1> QED
  BY <1>1, <1>4, <1>5, <1>6, <1>7, EnterKeeps

LEMMA FlushedKeeps == ASSUME ReleaseInv, Flushed PROVE ReleaseInv'
<1> DEFINE next == [job EXCEPT !.pc = job.then]
<1>1. job.pc = "flush" /\ Goto(next)
  BY DEF Flushed
<1>2. UploadOK(job, chain, disk.catalog) /\ job \in Uploads(job, chain)
  BY <1>1, UploadFacts DEF Uploading
<1>3. /\ next \in Uploads(next, chain) /\ next.pc = job.then
      /\ next.pc \in {"scan", "chunked", "finish"}
      /\ next.i = job.i /\ next.plan = job.plan /\ next.state = job.state
      /\ next.storage = job.storage
  BY <1>2 DEF Uploads, UploadPcs, OnChunked
<1> HIDE DEF next
<1>4. UploadOK(next, chain, disk.catalog)
  BY <1>1, <1>2, <1>3 DEF UploadOK, OnChunked
<1> QED
  BY <1>1, <1>3, <1>4, GotoUpload DEF JobOK

(* Uploads in chunks.                                                      *)
LEMMA ChunkedFacts ==
    ASSUME ReleaseInv, job.pc \in OnChunked
    PROVE  /\ Uploading /\ UploadOK(job, chain, disk.catalog) /\ job \in Uploads(job, chain)
           /\ job.i \in DOMAIN disk.catalog.assets
           /\ FileAt \in Files /\ Bytes(FileAt) \in Contents
           /\ job.storage \in DOMAIN chain.storages
           /\ StoreOK(Store) /\ Store \in Stores
           /\ Len(disk.catalog.bytes[FileAt]) \in Nat
<1>1. Uploading
  BY DEF Uploading, OnChunked
<1>2. /\ UploadOK(job, chain, disk.catalog) /\ job \in Uploads(job, chain)
      /\ job.storage \in DOMAIN chain.storages
      /\ StoreOK(Store) /\ Store \in Stores
      /\ Catalog(disk.catalog, Files) /\ disk.catalog.bytes \in [Files -> Contents]
  BY <1>1, UploadFacts
<1>3. job.i \in DOMAIN disk.catalog.assets
  BY <1>2 DEF UploadOK
<1>4. job.i <= Len(disk.catalog.assets)
  BY <1>2, <1>3 DEF Catalog
<1>5. FileAt \in Files /\ Bytes(FileAt) \in Contents
  BY <1>1, <1>4, FileFacts
<1>6. disk.catalog.bytes[FileAt] \in Contents
  BY <1>2, <1>5
<1> QED
  BY <1>1, <1>2, <1>3, <1>5, <1>6, ContentIsSeq

(* The same upload goes on with another pc and another id.                 *)
LEMMA ChunkedNext ==
    ASSUME ReleaseInv, job.pc \in OnChunked, NEW pc \in OnChunked \ {"chunked"},
           NEW id \in Nat \ {0}, pc # "init" => Known(Store, id)
    PROVE  LET next == [job EXCEPT !.pc = pc, !.ids = id]
           IN /\ UploadOK(next, chain, disk.catalog) /\ next.pc = pc /\ next.ids = id
              /\ next.storage = job.storage /\ next.batches = job.batches
<1> DEFINE next == [job EXCEPT !.pc = pc, !.ids = id]
<1>1. /\ UploadOK(job, chain, disk.catalog) /\ job \in Uploads(job, chain)
      /\ job.i \in DOMAIN disk.catalog.assets
  BY ChunkedFacts
<1>2. pc \in UploadPcs /\ pc # "batch" /\ pc # "flush"
  BY DEF UploadPcs, OnChunked
<1>3. /\ next \in Uploads(next, chain) /\ next.pc = pc /\ next.ids = id
      /\ next.i = job.i /\ next.plan = job.plan /\ next.state = job.state
      /\ next.storage = job.storage /\ next.batches = job.batches
  BY <1>1, <1>2 DEF Uploads
<1> HIDE DEF next
<1>4. UploadOK(next, chain, disk.catalog)
  BY <1>1, <1>2, <1>3 DEF UploadOK, Store
<1> QED
  BY <1>3, <1>4 DEF next

LEMMA SamePc ==
    ASSUME ReleaseInv, job.pc \in OnChunked, NEW pc
    PROVE  [job EXCEPT !.pc = pc] = [job EXCEPT !.pc = pc, !.ids = job.ids]
  BY ChunkedFacts DEF Uploads

(* A call that is made only when it would be accepted.                     *)
LEMMA SendChunkedKeeps ==
    ASSUME ReleaseInv, NEW tx, NEW next, SendIfAccepted(tx, next), TxOK(tx, chain),
           UploadOK(next, chain, disk.catalog),
           next.pc \in {"init", "append", "finalize"},
           Execute(tx).ok /\ next.pc = "init" =>
               LET store == chain.storages[next.storage]
               IN \/ Known(store, next.ids)
                  \/ /\ next.ids = Len(store.records) + 1
                     /\ tx.to = "storage" /\ tx.op = "initializeChunkedSvg" /\ tx.at = next.storage
                     /\ ExistingId(store, tx.hash) = 0
    PROVE  ReleaseInv'
<1>1. CASE Execute(tx).ok
  <2>1. /\ mempool' = Append(mempool, tx) /\ receipt' = "none" /\ job' = next
        /\ art' = art /\ chain' = chain /\ disk' = disk
    BY <1>1 DEF SendIfAccepted, Send
  <2>2. /\ DiskOK(disk', chain, art) /\ JobOK(job', chain, disk'.catalog) /\ Waiting'
        /\ job'.pc # "storage" /\ job'.pc # "batch"
    BY <2>1 DEF ReleaseInv, JobOK, Waiting
  <2>3. job'.pc = "init" =>
               LET store == chain.storages[job'.storage]
               IN \/ Known(store, job'.ids)
                  \/ /\ job'.ids = Len(store.records) + 1
                     /\ tx.to = "storage" /\ tx.op = "initializeChunkedSvg" /\ tx.at = job'.storage
                     /\ ExistingId(store, tx.hash) = 0
    BY <1>1, <2>1
  <2> QED
    BY <2>1, <2>2, <2>3, SendKeeps
<1>2. CASE ~Execute(tx).ok
  <2>1. Goto(Idle)
    BY <1>2 DEF SendIfAccepted
  <2> QED
    BY <2>1, IdleOK, GotoUpload
<1> QED
  BY <1>1, <1>2

LEMMA InitPredicts ==
    ASSUME NEW store, StoreOK(store), NEW size, NEW hash \in Contents, NEW expected,
           InitializeChunkedSvg(store, size, hash, expected).ok
    PROVE  LET id == InitializeChunkedSvg(store, size, hash, expected).id
           IN /\ id \in Nat \ {0}
              /\ \/ Known(store, id)
                 \/ id = Len(store.records) + 1 /\ ExistingId(store, hash) = 0
<1>1. /\ Len(store.records) \in Nat /\ DOMAIN store.records = 1 .. Len(store.records)
      /\ ExistingId(store, hash) \in Nat
      /\ ExistingId(store, hash) # 0 => Known(store, ExistingId(store, hash))
  BY StoreFacts DEF StoreOK, Indexed
<1> DEFINE r == InitializeChunkedSvg(store, size, hash, expected)
<1>2. CASE ExistingId(store, hash) = 0
  BY <1>1, <1>2 DEF InitializeChunkedSvg, Done, Reverted
<1>3. CASE ExistingId(store, hash) # 0
  BY <1>1, <1>3 DEF InitializeChunkedSvg, Done, Reverted
<1> QED
  BY <1>2, <1>3

LEMMA ChunkCountNat ==
    ASSUME NEW c \in Contents
    PROVE  Len(ChunksOf(c)) \in Nat
  BY ChunksAreStored

LEMMA StartChunkedKeeps == ASSUME ReleaseInv, StartChunked PROVE ReleaseInv'
<1> DEFINE chunks == ChunksOf(Bytes(FileAt))
           tx == [to |-> "storage", op |-> "initializeChunkedSvg", at |-> job.storage,
                  size |-> Len(disk.catalog.bytes[FileAt]), hash |-> Bytes(FileAt),
                  expected |-> Len(chunks)]
           next == [job EXCEPT !.pc = "init", !.ids = AtStorage(tx).id]
           resumed == [job EXCEPT !.pc = "chunks", !.ids = Resumed(FileAt)]
<1>1. /\ job.pc = "chunked"
      /\ IF Resumed(FileAt) # 0 THEN Goto(resumed) ELSE SendIfAccepted(tx, next)
  BY DEF StartChunked
<1>2. job.pc \in OnChunked
  BY <1>1 DEF OnChunked
<1>3. /\ UploadOK(job, chain, disk.catalog) /\ job \in Uploads(job, chain)
      /\ FileAt \in Files /\ Bytes(FileAt) \in Contents
      /\ Len(disk.catalog.bytes[FileAt]) \in Nat /\ StoreOK(Store)
      /\ job.storage \in DOMAIN chain.storages
  BY <1>2, ChunkedFacts
<1>4. CASE Resumed(FileAt) # 0
  <2>1. Resumed(FileAt) \in Nat \ {0} /\ Known(Store, Resumed(FileAt))
    BY <1>3, <1>4 DEF UploadOK, Uploads, Resumed, Store
  <2>2. UploadOK(resumed, chain, disk.catalog) /\ resumed.pc = "chunks"
    BY <1>2, <2>1, ChunkedNext DEF OnChunked
  <2>3. Goto(resumed)
    BY <1>1, <1>4
  <2> HIDE DEF resumed
  <2> QED
    BY <2>2, <2>3, GotoUpload DEF JobOK
<1>5. CASE ~(Resumed(FileAt) # 0)
  <2>1. SendIfAccepted(tx, next)
    BY <1>1, <1>5
  <2>2. /\ tx.to = "storage" /\ tx.op = "initializeChunkedSvg" /\ tx.at = job.storage
        /\ tx.size = Len(disk.catalog.bytes[FileAt]) /\ tx.hash = Bytes(FileAt)
        /\ tx.expected = Len(chunks)
    OBVIOUS
  <2>3. Len(chunks) \in Nat
    BY <1>3, ChunkCountNat
  <2> HIDE DEF tx
  <2>4. TxOK(tx, chain)
    BY <1>3, <2>2, <2>3 DEF TxOK, StorageTxOK
  <2>5. CASE Execute(tx).ok
    <3>1. AtStorage(tx) = InitializeChunkedSvg(Store, tx.size, tx.hash, tx.expected)
      BY <2>2 DEF AtStorage, Store
    <3>2. AtStorage(tx).ok
      BY <2>2, <2>4, <2>5, TxKeeps DEF ReleaseInv
    <3>3. /\ AtStorage(tx).id \in Nat \ {0}
          /\ \/ Known(Store, AtStorage(tx).id)
             \/ AtStorage(tx).id = Len(Store.records) + 1 /\ ExistingId(Store, tx.hash) = 0
      BY <1>3, <2>2, <3>1, <3>2, InitPredicts
    <3>4. /\ UploadOK(next, chain, disk.catalog) /\ next.pc = "init" /\ next.storage = job.storage
          /\ next.ids = AtStorage(tx).id
      BY <1>2, <3>3, ChunkedNext DEF OnChunked
    <3> HIDE DEF next
    <3> QED
      BY <2>1, <2>2, <2>4, <3>3, <3>4, SendChunkedKeeps DEF Store
  <2>6. CASE ~Execute(tx).ok
    <3>1. Goto(Idle)
      BY <2>1, <2>6 DEF SendIfAccepted
    <3> QED
      BY <3>1, IdleOK, GotoUpload
  <2> QED
    BY <2>5, <2>6
<1> QED
  BY <1>4, <1>5

LEMMA InitializedKeeps == ASSUME ReleaseInv, Initialized PROVE ReleaseInv'
<1>1. job.pc = "init" /\ receipt = "success" /\ Goto([job EXCEPT !.pc = "chunks"])
  BY DEF Initialized, Succeeded
<1>2. job.pc \in OnChunked /\ "chunks" \in OnChunked \ {"chunked"}
  BY <1>1 DEF OnChunked
<1>3. Known(Store, job.ids)
  BY <1>1 DEF ReleaseInv, InitAwaited, Store
<1>4. job.ids \in Nat \ {0}
  BY <1>1, <1>2, ChunkedFacts DEF UploadOK
<1> DEFINE next == [job EXCEPT !.pc = "chunks", !.ids = job.ids]
<1>5. UploadOK(next, chain, disk.catalog) /\ next.pc = "chunks"
  BY <1>2, <1>3, <1>4, ChunkedNext
<1>6. Goto(next)
  BY <1>1, <1>2, SamePc
<1> HIDE DEF next
<1> QED
  BY <1>5, <1>6, GotoUpload DEF JobOK

LEMMA OnRecord ==
    ASSUME ReleaseInv, job.pc \in {"chunks", "append", "complete", "finalize"}
    PROVE  /\ job.pc \in OnChunked /\ job.ids \in Nat \ {0} /\ Known(Store, job.ids)
           /\ Store.records[job.ids] \in Records
<1>1. job.pc \in OnChunked \ {"chunked"}
  BY DEF OnChunked
<1>2. UploadOK(job, chain, disk.catalog) /\ Store \in Stores
  BY <1>1, ChunkedFacts
<1>3. job.ids \in Nat \ {0} /\ Known(Store, job.ids)
  BY <1>1, <1>2 DEF UploadOK, Store
<1> QED
  BY <1>1, <1>2, <1>3, StoreFacts DEF Known

LEMMA NextOnRecord ==
    ASSUME ReleaseInv, job.pc \in {"chunks", "append", "complete", "finalize"},
           NEW pc \in {"append", "complete", "finalize"}
    PROVE  LET next == [job EXCEPT !.pc = pc]
           IN UploadOK(next, chain, disk.catalog) /\ next.pc = pc
<1>1. /\ job.pc \in OnChunked /\ job.ids \in Nat \ {0} /\ Known(Store, job.ids)
      /\ pc \in OnChunked \ {"chunked"}
  BY OnRecord DEF OnChunked
<1> DEFINE next == [job EXCEPT !.pc = pc]
           same == [job EXCEPT !.pc = pc, !.ids = job.ids]
<1>2. next = same
  BY <1>1, SamePc
<1>3. UploadOK(same, chain, disk.catalog) /\ same.pc = pc
  BY <1>1, ChunkedNext
<1> HIDE DEF next, same
<1>4. UploadOK(next, chain, disk.catalog) /\ next.pc = pc
  BY <1>2, <1>3
<1> QED
  BY <1>4 DEF next

LEMMA MissingChunksType ==
    ASSUME ReleaseInv, job.pc = "chunks"
    PROVE  MissingChunks \in Seq(Seq(Symbols))
<1> DEFINE chunks == ChunksOf(Bytes(FileAt))
           from == Len(Store.records[job.ids].chunkPointers) + 1
<1>1. job.pc \in OnChunked /\ Store.records[job.ids] \in Records
  BY OnRecord
<1>2. chunks \in Seq(Seq(Symbols)) /\ Len(chunks) \in Nat
  BY <1>1, ChunkedFacts, ChunksAreStored
<1>3. from \in Nat \ {0}
  BY <1>1 DEF Records
<1>4. MissingChunks = SubSeq(chunks, from, Len(chunks))
  BY DEF MissingChunks
<1> HIDE DEF chunks, from
<1>5. \A i \in from .. Len(chunks) : chunks[i] \in Seq(Symbols)
  BY <1>2, <1>3
<1> QED
  BY <1>2, <1>3, <1>4, <1>5, SubSeqProperties

LEMMA UploadChunksKeeps == ASSUME ReleaseInv, UploadChunks PROVE ReleaseInv'
<1> DEFINE tx == [to |-> "storage", op |-> "appendChunks", at |-> job.storage,
                  id |-> job.ids, chunks |-> MissingChunks]
           sent == [job EXCEPT !.pc = "append"]
           next == [job EXCEPT !.pc = "complete"]
<1>1. job.pc = "chunks" /\ (SendIfAccepted(tx, sent) \/ Goto(next))
  BY DEF UploadChunks
<1>2. /\ UploadOK(sent, chain, disk.catalog) /\ sent.pc = "append"
      /\ UploadOK(next, chain, disk.catalog) /\ next.pc = "complete"
  BY <1>1, NextOnRecord
<1>3. job.storage \in DOMAIN chain.storages
  BY <1>1, OnRecord, ChunkedFacts
<1>4. TxOK(tx, chain)
  BY <1>1, <1>3, MissingChunksType DEF TxOK, StorageTxOK
<1> HIDE DEF tx, sent, next
<1> QED
  BY <1>1, <1>2, <1>4, SendChunkedKeeps, GotoUpload DEF JobOK

LEMMA AppendedKeeps == ASSUME ReleaseInv, Appended PROVE ReleaseInv'
<1> DEFINE next == [job EXCEPT !.pc = "complete"]
<1>1. job.pc = "append" /\ Goto(next)
  BY DEF Appended, Succeeded
<1>2. UploadOK(next, chain, disk.catalog) /\ next.pc = "complete"
  BY <1>1, NextOnRecord
<1> HIDE DEF next
<1> QED
  BY <1>1, <1>2, GotoUpload DEF JobOK

LEMMA ChunkedEntryKeeps ==
    ASSUME ReleaseInv, job.pc \in {"complete", "finalize"}, ChunkedEntry
    PROVE  ReleaseInv'
<1> DEFINE next == [job EXCEPT !.pc = "scan", !.i = @ + 1, !.ids = <<>>]
           entries == [f \in {FileAt} |-> job.ids]
<1>1. Enter(entries, next)
  BY DEF ChunkedEntry
<1>2. job.pc \in OnChunked /\ job.ids \in Nat \ {0} /\ Known(Store, job.ids)
  BY OnRecord
<1>3. Uploading /\ UploadOK(job, chain, disk.catalog) /\ job \in Uploads(job, chain)
  BY <1>2, ChunkedFacts
<1>9. job.i + 1 \in Nat \ {0} /\ "scan" \in UploadPcs
  BY <1>3 DEF Uploads, UploadPcs
<1>4. /\ next \in Uploads(next, chain) /\ next.pc = "scan" /\ next.storage = job.storage
      /\ next.state = job.state /\ next.plan = job.plan
  BY <1>3, <1>9 DEF Uploads
<1>5. \A f \in Files \cap DOMAIN entries :
          entries[f] \in Nat /\ (entries[f] # 0 => Known(Store, entries[f]))
  BY <1>2
<1> HIDE DEF next, entries
<1>6. [next EXCEPT !.state = job.state] = next
  BY <1>4 DEF Uploads
<1>7. UploadOK(next, chain, disk.catalog)
  BY <1>3, <1>4 DEF UploadOK, OnChunked
<1> QED
  BY <1>1, <1>3, <1>4, <1>5, <1>6, <1>7, EnterKeeps

LEMMA CompleteKeeps == ASSUME ReleaseInv, Complete PROVE ReleaseInv'
<1> DEFINE tx == [to |-> "storage", op |-> "finalizeChunkedSvg", at |-> job.storage,
                  id |-> job.ids]
           next == [job EXCEPT !.pc = "finalize"]
<1>1. job.pc = "complete" /\ (ChunkedEntry \/ SendIfAccepted(tx, next))
  BY DEF Complete
<1>2. UploadOK(next, chain, disk.catalog) /\ next.pc = "finalize"
  BY <1>1, NextOnRecord
<1>3. job.storage \in DOMAIN chain.storages
  BY <1>1, OnRecord, ChunkedFacts
<1>4. TxOK(tx, chain)
  BY <1>3 DEF TxOK, StorageTxOK
<1> HIDE DEF tx, next
<1> QED
  BY <1>1, <1>2, <1>4, SendChunkedKeeps, ChunkedEntryKeeps

LEMMA FinalizedKeeps == ASSUME ReleaseInv, Finalized PROVE ReleaseInv'
  BY ChunkedEntryKeeps DEF Finalized, Succeeded

(* The manifest, the registry and the collection.                          *)
LEMMA FinishUploadKeeps == ASSUME ReleaseInv, FinishUpload PROVE ReleaseInv'
<1>1. /\ job.pc = "finish" /\ receipt' = "none" /\ art' = art /\ chain' = chain
      /\ disk' = [disk EXCEPT !.manifest = [storage |-> job.storage, files |-> job.manifest]]
  BY DEF FinishUpload
<1>2. UploadOK(job, chain, disk.catalog) /\ job \in Uploads(job, chain)
      /\ job.storage \in 1 .. Len(chain.storages)
  BY <1>1, UploadFacts DEF Uploading
<1>3. DiskOK(disk', chain, art) /\ disk'.catalog = disk.catalog
  <2>1. DiskOK(disk, chain, art)
    BY DEF ReleaseInv
  <2>2. [storage |-> job.storage, files |-> job.manifest] \in Entries(chain)
    BY <1>2 DEF Entries, Uploads
  <2>3. /\ disk'.state = disk.state /\ disk'.catalog = disk.catalog
        /\ disk' \in [catalog : {disk'.catalog}, state : Entries(chain), manifest : Entries(chain),
                      addresses : [storage : 0 .. Len(chain.storages), registry : Nat,
                                   nft : 0 .. Len(chain.nfts)]]
    BY <1>1, <2>1, <2>2 DEF DiskOK
  <2> QED
    BY <2>1, <2>3 DEF DiskOK
<1>4. CASE job.kind = "upload"
  <2>1. job' = Idle /\ mempool' = mempool
    BY <1>4 DEF FinishUpload
  <2>2. ~Waiting' /\ JobOK(job', chain, disk'.catalog)
    BY <2>1, IdleOK DEF Waiting
  <2> QED
    BY <1>1, <1>3, <2>1, <2>2, GotoKeeps
<1>5. CASE job.kind # "upload"
  <2> DEFINE tx == [to |-> "create", op |-> "PhilLayerRegistry", storage |-> job.storage]
             next == [job EXCEPT !.pc = "registry"]
  <2>1. job' = next /\ mempool' = Append(mempool, tx)
    BY <1>5 DEF FinishUpload
  <2>2. next \in Uploads(next, chain) /\ next.pc = "registry" /\ next.plan = job.plan
        /\ next.state = job.state /\ next.storage = job.storage
    BY <1>2 DEF Uploads, UploadPcs
  <2>3. TxOK(tx, chain)
    BY DEF TxOK
  <2> HIDE DEF tx, next
  <2>4. UploadOK(next, chain, disk.catalog)
    BY <1>2, <2>2 DEF UploadOK, OnChunked
  <2>5. Waiting' /\ JobOK(job', chain, disk'.catalog)
    BY <1>3, <2>1, <2>2, <2>4 DEF Waiting, JobOK
  <2> QED
    BY <1>1, <1>3, <2>1, <2>2, <2>3, <2>5, SendKeeps
<1> QED
  BY <1>4, <1>5

(* What is registered: calls of the registry, in a sequence.               *)
Calls(s) == IsSeq(s) /\ \A k \in DOMAIN s : s[k].to = "registry"

LEMMA BatchesAreSeq ==
    ASSUME NEW items, IsSeq(items)
    PROVE  IsSeq(Batches(items))
<1> DEFINE n == (Len(items) + RegisterBatchSize - 1) \div RegisterBatchSize
<1>1. n \in Nat
  BY ReleaseAssumption, IsSeqProperties
<1>2. DOMAIN Batches(items) = 1 .. n /\ Batches(items) = [b \in DOMAIN Batches(items) |-> Batches(items)[b]]
  BY DEF Batches
<1> HIDE DEF n
<1> QED
  BY <1>1, <1>2, MadeSeq

LEMMA CallsOf ==
    ASSUME NEW items, IsSeq(items), NEW op, NEW registry
    PROVE  Calls([b \in DOMAIN Batches(items) |->
                     [to |-> "registry", op |-> op, at |-> registry, inputs |-> Batches(items)[b]]])
<1> DEFINE calls == [b \in DOMAIN Batches(items) |->
                     [to |-> "registry", op |-> op, at |-> registry, inputs |-> Batches(items)[b]]]
<1>1. Len(Batches(items)) \in Nat /\ DOMAIN calls = 1 .. Len(Batches(items))
      /\ calls = [b \in DOMAIN calls |-> calls[b]]
  BY BatchesAreSeq, IsSeqProperties
<1>2. \A b \in DOMAIN calls : calls[b].to = "registry"
  OBVIOUS
<1> HIDE DEF calls
<1>3. IsSeq(calls)
  BY <1>1, MadeSeq
<1> QED
  BY <1>2, <1>3 DEF Calls, calls

LEMMA ConcatCalls ==
    ASSUME NEW a, NEW b, Calls(a), Calls(b)
    PROVE  Calls(a \o b)
<1> DEFINE S == ToSet(a) \cup ToSet(b)
<1>1. a \in Seq(S) /\ b \in Seq(S)
  BY SeqMonotonic DEF IsSeq, Calls
<1>2. \A x \in S : x.to = "registry"
  BY DEF Calls, ToSet
<1> HIDE DEF S
<1>3. a \o b \in Seq(S)
  BY <1>1, ConcatProperties
<1>4. IsSeq(a \o b)
  BY <1>3, SeqIsSeq
<1>5. \A k \in DOMAIN (a \o b) : (a \o b)[k] \in S
  BY <1>3
<1> QED
  BY <1>2, <1>4, <1>5 DEF Calls

LEMMA FlattenCalls ==
    ASSUME NEW s, IsSeq(s), \A i \in DOMAIN s : Calls(s[i])
    PROVE  Calls(FlattenSeq(s))
<1> DEFINE S == UNION {ToSet(s[i]) : i \in DOMAIN s}
<1>1. \A x \in S : x.to = "registry"
  BY DEF Calls, ToSet
<1>2. \A i \in DOMAIN s : s[i] \in Seq(S)
  <2> SUFFICES ASSUME NEW i \in DOMAIN s PROVE s[i] \in Seq(S)
    OBVIOUS
  <2>1. s[i] \in Seq(ToSet(s[i])) /\ ToSet(s[i]) \subseteq S
    BY DEF Calls, IsSeq
  <2> HIDE DEF S
  <2> QED
    BY <2>1, SeqMonotonic
<1> HIDE DEF S
<1>3. FlattenSeq(s) \in Seq(S)
  BY <1>2, FlattensSeqsOf
<1>4. IsSeq(FlattenSeq(s))
  BY <1>3, SeqIsSeq
<1>5. \A k \in DOMAIN FlattenSeq(s) : FlattenSeq(s)[k] \in S
  BY <1>3
<1> QED
  BY <1>1, <1>4, <1>5 DEF Calls

LEMMA LayerCalls ==
    ASSUME ReleaseInv, Uploading, NEW registry, NEW l \in DOMAIN disk.catalog.layers
    PROVE  Calls(LayerRegistrations(registry, l))
<1> DEFINE layer == disk.catalog.layers[l]
           registered == {i \in DOMAIN layer.assets :
                          AssetIdByKey(layer.assets[i]) < NextAssetId(chain.registries[registry])}
           new == SubSeq(layer.assets, Cardinality(registered) + 1, Len(layer.assets))
           assets == [i \in DOMAIN new |-> [layerId |-> l - 1, storageId |-> job.manifest[new[i]]]]
           variants == [i \in DOMAIN layer.variants |->
            [layerId |-> l - 1, color |-> layer.variants[i].color,
             assetIds |-> [k \in DOMAIN layer.variants[i].assets |->
                              AssetIdByKey(layer.variants[i].assets[k])]]]
           one == [b \in DOMAIN Batches(assets) |->
                     [to |-> "registry", op |-> "registerAssets", at |-> registry,
                      inputs |-> Batches(assets)[b]]]
           two == [b \in DOMAIN Batches(variants) |->
                     [to |-> "registry", op |-> "registerVariants", at |-> registry,
                      inputs |-> Batches(variants)[b]]]
<1>1. layer.assets \in Seq(Files) /\ IsSeq(layer.variants)
  BY UploadFacts DEF Catalog, Piece
<1>2. Cardinality(registered) + 1 \in Nat \ {0}
  <2>1. registered \subseteq DOMAIN layer.assets
    OBVIOUS
  <2> HIDE DEF registered
  <2>2. IsFiniteSet(DOMAIN layer.assets)
    BY <1>1, FS_Interval
  <2>3. IsFiniteSet(registered)
    BY <2>1, <2>2, FS_Subset
  <2> QED
    BY <2>3, FS_CardinalityType
<1> HIDE DEF registered
<1>3. IsSeq(new)
  <2>1. Len(layer.assets) \in Nat
    BY <1>1
  <2> HIDE DEF layer
  <2>2. \A i \in Cardinality(registered) + 1 .. Len(layer.assets) : layer.assets[i] \in Files
    BY <1>1, <1>2, <2>1
  <2>3. new \in Seq(Files)
    BY <1>2, <2>1, <2>2, SubSeqProperties
  <2> HIDE DEF new
  <2> QED
    BY <2>3, SeqIsSeq
<1> HIDE DEF new
<1>4. IsSeq(assets)
  <2>1. Len(new) \in Nat /\ DOMAIN assets = 1 .. Len(new) /\ assets = [i \in DOMAIN assets |-> assets[i]]
    BY <1>3, IsSeqProperties
  <2> HIDE DEF assets
  <2> QED
    BY <2>1, MadeSeq
<1>5. IsSeq(variants)
  <2>1. Len(layer.variants) \in Nat /\ DOMAIN variants = 1 .. Len(layer.variants)
        /\ variants = [i \in DOMAIN variants |-> variants[i]]
    BY <1>1, IsSeqProperties
  <2> HIDE DEF variants
  <2> QED
    BY <2>1, MadeSeq
<1>6. LayerRegistrations(registry, l) = one \o two
  BY DEF LayerRegistrations, new, registered
<1> HIDE DEF assets, variants
<1>7. Calls(one) /\ Calls(two)
  BY <1>4, <1>5, CallsOf
<1> HIDE DEF one, two
<1> QED
  BY <1>6, <1>7, ConcatCalls

LEMMA RegistrationsAreCalls ==
    ASSUME ReleaseInv, Uploading, NEW registry
    PROVE  Calls(Registrations(registry))
<1> DEFINE layers == disk.catalog.layers
           first == [to |-> "registry", op |-> "registerLayers", at |-> registry,
                     inputs |-> [l \in DOMAIN layers |->
                         [name |-> layers[l].name, min |-> layers[l].min, max |-> layers[l].max]]]
           rest == [l \in DOMAIN layers |-> LayerRegistrations(registry, l)]
<1>1. Registrations(registry) = <<first>> \o FlattenSeq(rest)
  BY DEF Registrations
<1>2. IsSeq(layers)
  BY UploadFacts DEF Catalog
<1>3. IsSeq(rest)
  <2>1. Len(layers) \in Nat /\ DOMAIN rest = 1 .. Len(layers) /\ rest = [l \in DOMAIN rest |-> rest[l]]
    BY <1>2, IsSeqProperties
  <2> HIDE DEF rest
  <2> QED
    BY <2>1, MadeSeq
<1>4. \A l \in DOMAIN rest : Calls(rest[l])
  BY LayerCalls
<1> HIDE DEF rest
<1>5. Calls(FlattenSeq(rest))
  BY <1>3, <1>4, FlattenCalls
<1>6. first.to = "registry"
  OBVIOUS
<1> HIDE DEF first
<1>7. Calls(<<first>>)
  <2>1. <<first>> \in Seq({first})
    OBVIOUS
  <2>2. IsSeq(<<first>>)
    BY <2>1, SeqIsSeq
  <2>3. \A k \in DOMAIN <<first>> : <<first>>[k] = first
    OBVIOUS
  <2> QED
    BY <1>6, <2>2, <2>3 DEF Calls
<1> QED
  BY <1>1, <1>5, <1>7, ConcatCalls

LEMMA RegisterNextKeeps ==
    ASSUME ReleaseInv, NEW next, UploadOK(next, chain, disk.catalog), RegisterNext(next)
    PROVE  ReleaseInv'
<1>1. next \in Uploads(next, chain) /\ Calls(next.plan)
  BY DEF UploadOK, Calls
<1>2. CASE next.plan # <<>>
  <2> DEFINE then == [next EXCEPT !.pc = "register", !.plan = Tail(@)]
             tx == Head(next.plan)
  <2>1. Send(tx, then)
    BY <1>2 DEF RegisterNext
  <2>2. /\ tx.to = "registry" /\ IsSeq(Tail(next.plan))
        /\ \A k \in DOMAIN Tail(next.plan) : Tail(next.plan)[k].to = "registry"
    <3> DEFINE S == ToSet(next.plan)
    <3>1. next.plan \in Seq(S) /\ \A x \in S : x.to = "registry"
      BY <1>1 DEF Calls, IsSeq, ToSet
    <3> HIDE DEF S
    <3>2. tx \in S /\ Tail(next.plan) \in Seq(S)
      BY <1>2, <3>1
    <3>3. \A k \in DOMAIN Tail(next.plan) : Tail(next.plan)[k] \in S
      BY <3>2
    <3> QED
      BY <3>1, <3>2, <3>3, SeqIsSeq
  <2>3. /\ then \in Uploads(then, chain) /\ then.pc = "register" /\ then.plan = Tail(next.plan)
        /\ then.state = next.state /\ then.storage = next.storage
    BY <1>1 DEF Uploads, UploadPcs
  <2> HIDE DEF then, tx
  <2>4. UploadOK(then, chain, disk.catalog)
    BY <2>2, <2>3 DEF UploadOK, OnChunked
  <2>5. TxOK(tx, chain)
    BY <2>2 DEF TxOK
  <2>6. /\ job' = then /\ mempool' = Append(mempool, tx) /\ receipt' = "none" /\ art' = art
        /\ chain' = chain /\ disk' = disk
    BY <2>1 DEF Send
  <2>7. Waiting' /\ DiskOK(disk', chain, art) /\ JobOK(job', chain, disk'.catalog)
        /\ job'.pc \notin {"storage", "batch", "init"}
    BY <2>3, <2>4, <2>6 DEF Waiting, ReleaseInv, JobOK
  <2> QED
    BY <2>5, <2>6, <2>7, SendKeeps
<1>3. CASE next.plan = <<>>
  <2> DEFINE then == [next EXCEPT !.pc = "nft"]
             tx == [to |-> "create", op |-> "PhilNFT", registry |-> next.registry,
                    storage |-> next.storage]
  <2>1. Send(tx, then)
    BY <1>3 DEF RegisterNext
  <2>3. /\ then \in Uploads(then, chain) /\ then.pc = "nft" /\ then.plan = next.plan
        /\ then.state = next.state /\ then.storage = next.storage
    BY <1>1 DEF Uploads, UploadPcs
  <2>5. TxOK(tx, chain)
    BY DEF TxOK
  <2> HIDE DEF then, tx
  <2>4. UploadOK(then, chain, disk.catalog)
    BY <1>1, <2>3 DEF UploadOK, OnChunked
  <2>6. /\ job' = then /\ mempool' = Append(mempool, tx) /\ receipt' = "none" /\ art' = art
        /\ chain' = chain /\ disk' = disk
    BY <2>1 DEF Send
  <2>7. Waiting' /\ DiskOK(disk', chain, art) /\ JobOK(job', chain, disk'.catalog)
        /\ job'.pc \notin {"storage", "batch", "init"}
    BY <2>3, <2>4, <2>6 DEF Waiting, ReleaseInv, JobOK
  <2> QED
    BY <2>5, <2>6, <2>7, SendKeeps
<1> QED
  BY <1>2, <1>3

LEMMA RegistryDeployedKeeps == ASSUME ReleaseInv, RegistryDeployed PROVE ReleaseInv'
<1> DEFINE registry == Len(chain.registries)
           plan == Registrations(registry)
           next == [job EXCEPT !.registry = registry, !.plan = plan]
<1>1. job.pc = "registry" /\ RegisterNext(next) /\ Uploading
  BY DEF RegistryDeployed, Succeeded, Uploading
<1>2. UploadOK(job, chain, disk.catalog) /\ job \in Uploads(job, chain)
  BY <1>1, UploadFacts
<1>3. registry \in Nat
  BY ChainFacts DEF ReleaseInv
<1>4. Calls(plan)
  BY <1>1, RegistrationsAreCalls
<1> HIDE DEF registry, plan
<1>5. /\ next \in Uploads(next, chain) /\ next.pc = job.pc /\ next.plan = plan
      /\ next.state = job.state /\ next.storage = job.storage
  BY <1>2, <1>3 DEF Uploads
<1> HIDE DEF next
<1>6. UploadOK(next, chain, disk.catalog)
  BY <1>1, <1>2, <1>4, <1>5 DEF UploadOK, OnChunked, Calls
<1> QED
  BY <1>1, <1>6, RegisterNextKeeps

LEMMA RegisteredKeeps == ASSUME ReleaseInv, Registered PROVE ReleaseInv'
<1>1. RegisterNext(job) /\ job.pc = "register"
  BY DEF Registered, Succeeded
<1>2. UploadOK(job, chain, disk.catalog)
  BY <1>1, UploadFacts DEF Uploading
<1> QED
  BY <1>1, <1>2, RegisterNextKeeps

LEMMA PublishKeeps == ASSUME ReleaseInv, Publish PROVE ReleaseInv'
<1> DEFINE addresses == [storage |-> job.storage, registry |-> job.registry,
                         nft |-> Len(chain.nfts)]
<1>1. /\ job.pc = "nft" /\ job' = Idle /\ receipt' = "none" /\ art' = art /\ chain' = chain
      /\ mempool' = mempool /\ disk' = [disk EXCEPT !.addresses = addresses]
  BY DEF Publish, Succeeded
<1>2. job \in Uploads(job, chain) /\ job.storage \in 1 .. Len(chain.storages)
  BY <1>1, UploadFacts DEF Uploading
<1>3. addresses \in [storage : 0 .. Len(chain.storages), registry : Nat, nft : 0 .. Len(chain.nfts)]
  BY <1>2, ChainFacts DEF Uploads, ReleaseInv
<1> HIDE DEF addresses
<1>4. DiskOK(disk, chain, art)
  BY DEF ReleaseInv
<1>5. /\ disk'.state = disk.state /\ disk'.catalog = disk.catalog
      /\ disk' \in [catalog : {disk'.catalog}, state : Entries(chain), manifest : Entries(chain),
                    addresses : [storage : 0 .. Len(chain.storages), registry : Nat,
                                 nft : 0 .. Len(chain.nfts)]]
  BY <1>1, <1>3, <1>4 DEF DiskOK
<1>6. DiskOK(disk', chain, art)
  BY <1>4, <1>5 DEF DiskOK
<1>7. ~Waiting' /\ JobOK(job', chain, disk'.catalog)
  BY <1>1, IdleOK DEF Waiting
<1> QED
  BY <1>1, <1>6, <1>7, GotoKeeps

-----------------------------------------------------------------------------
(* The script sees that a transaction failed, or waits no longer.          *)
LEMMA FailedOK ==
    ASSUME ReleaseInv, Waiting
    PROVE  JobOK(Failed, chain, disk.catalog) /\ Failed.pc \in {"idle", "flush"}
<1>1. CASE job.pc = "batch"
  <2>1. Uploading
    BY <1>1 DEF Uploading
  <2>2. job.batches # <<>>
    BY <1>1, <2>1, UploadFacts DEF UploadOK
  <2> QED
    BY <1>1, <2>2, BatchFailedOK DEF Failed
<1>2. CASE job.pc # "batch"
  BY <1>2, IdleOK DEF Failed
<1> QED
  BY <1>1, <1>2

LEMMA SeeRevertKeeps == ASSUME ReleaseInv, SeeRevert PROVE ReleaseInv'
<1>1. Waiting /\ Goto(Failed)
  BY DEF SeeRevert
<1>2. JobOK(Failed, chain, disk.catalog) /\ Failed.pc \in {"idle", "flush"}
  BY <1>1, FailedOK
<1> QED
  BY <1>1, <1>2, GotoUpload

LEMMA TimeOutKeeps == ASSUME ReleaseInv, TimeOut PROVE ReleaseInv'
<1>1. /\ Waiting /\ job' = Failed /\ receipt' = "none"
      /\ art' = art /\ chain' = chain /\ mempool' = mempool /\ disk' = disk
  BY DEF TimeOut
<1>2. JobOK(Failed, chain, disk.catalog) /\ Failed.pc \in {"idle", "flush"}
  BY <1>1, FailedOK
<1>3. ~Waiting' /\ DiskOK(disk', chain, art)
  BY <1>1, <1>2 DEF Waiting, ReleaseInv
<1> QED
  BY <1>1, <1>2, <1>3, GotoKeeps

-----------------------------------------------------------------------------
LEMMA DropKeeps == ASSUME ReleaseInv, Drop PROVE ReleaseInv'
<1>1. /\ ~Waiting /\ mempool # <<>> /\ mempool' = Front(mempool)
      /\ art' = art /\ chain' = chain /\ receipt' = receipt /\ disk' = disk /\ job' = job
  BY DEF Drop
<1>2. MempoolOK(mempool', chain)
  BY <1>1, FrontFacts DEF ReleaseInv, MempoolOK
<1>3. ReceiptFollows'
  BY <1>1 DEF ReleaseInv, ReceiptFollows, Waiting
<1>4. job.pc \notin {"storage", "batch", "init"}
  BY <1>1 DEF Waiting
<1> QED
  BY <1>1, <1>2, <1>3, <1>4 DEF ReleaseInv, StorageAwaited, BatchAwaited, InitAwaited

(* What the first pending transaction may leave when it is mined.          *)
Mined(tx, ok, old, new) ==
    /\ ChainOK(new) /\ Later(old, new)
    /\ tx = [to |-> "create", op |-> "PhilSVGStorage"] => new.storages # <<>>
    /\ ok /\ tx.to = "storage" /\ tx.op = "storeSvgBatch" =>
          \A k \in 1 .. Len(tx.svgs) :
              Readable(new.storages[tx.at], ExistingId(new.storages[tx.at], tx.svgs[k]))
    /\ ok /\ tx.to = "storage" /\ tx.op = "initializeChunkedSvg"
             /\ ExistingId(old.storages[tx.at], tx.hash) = 0 =>
          Known(new.storages[tx.at], Len(old.storages[tx.at].records) + 1)

LEMMA InitializeMakesRecord ==
    ASSUME NEW store \in Stores, NEW size, NEW hash, NEW expected,
           InitializeChunkedSvg(store, size, hash, expected).ok, ExistingId(store, hash) = 0
    PROVE  Known(InitializeChunkedSvg(store, size, hash, expected).store, Len(store.records) + 1)
<1> DEFINE record == RecordOf(size, expected, hash, <<>>, FALSE)
           after == InitializeChunkedSvg(store, size, hash, expected).store
<1>1. after = CreateRecord(store, record)
  <2>1. size # 0 /\ expected # 0
    BY DEF InitializeChunkedSvg, Reverted
  <2> QED
    BY <2>1 DEF InitializeChunkedSvg, Done
<1> HIDE DEF record, after
<1>2. after.records = Append(store.records, record)
  BY <1>1 DEF CreateRecord
<1>3. IsSeq(store.records)
  BY StoreFacts, SeqIsSeq
<1>4. IsSeq(after.records) /\ Len(after.records) = Len(store.records) + 1 /\ Len(store.records) \in Nat
  BY <1>2, <1>3, AppendIsSeq
<1>5. DOMAIN after.records = 1 .. Len(store.records) + 1
  BY <1>4, IsSeqProperties
<1>6. Known(after, Len(store.records) + 1)
  BY <1>4, <1>5 DEF Known
<1> QED
  BY <1>6 DEF after

LEMMA TxMined ==
    ASSUME ChainOK(chain), NEW tx, TxOK(tx, chain)
    PROVE  Mined(tx, Execute(tx).ok, chain, Execute(tx).chain)
<1> DEFINE after == Execute(tx).chain
<1>1. /\ ChainOK(after) /\ Later(chain, after)
      /\ tx.to = "storage" => /\ after.storages[tx.at] = AtStorage(tx).store
                              /\ Execute(tx).ok = AtStorage(tx).ok
      /\ tx = [to |-> "create", op |-> "PhilSVGStorage"] => after.storages # <<>>
  BY TxKeeps
<1> HIDE DEF after
<1>2. ASSUME Execute(tx).ok, tx.to = "storage", tx.op = "storeSvgBatch"
      PROVE  \A k \in 1 .. Len(tx.svgs) :
                 Readable(after.storages[tx.at], ExistingId(after.storages[tx.at], tx.svgs[k]))
  <2> DEFINE store == chain.storages[tx.at]
  <2>1. tx.svgs \in Seq(Contents) /\ StoreOK(store)
    BY <1>2, ChainFacts DEF TxOK, StorageTxOK
  <2>2. AtStorage(tx) = StoreSvgBatch(store, tx.svgs)
    BY <1>2 DEF AtStorage
  <2>3. /\ after.storages[tx.at] = StoreSvgBatch(store, tx.svgs).store
        /\ StoreSvgBatch(store, tx.svgs).ok
    BY <1>1, <1>2, <2>2
  <2> HIDE DEF store
  <2> QED
    BY <2>1, <2>3, BatchReads
<1>3. ASSUME Execute(tx).ok, tx.to = "storage", tx.op = "initializeChunkedSvg",
             ExistingId(chain.storages[tx.at], tx.hash) = 0
      PROVE  Known(after.storages[tx.at], Len(chain.storages[tx.at].records) + 1)
  <2> DEFINE store == chain.storages[tx.at]
  <2>1. store \in Stores
    BY <1>3, ChainFacts DEF TxOK
  <2>2. AtStorage(tx) = InitializeChunkedSvg(store, tx.size, tx.hash, tx.expected)
    BY <1>3 DEF AtStorage
  <2>3. /\ after.storages[tx.at] = InitializeChunkedSvg(store, tx.size, tx.hash, tx.expected).store
        /\ InitializeChunkedSvg(store, tx.size, tx.hash, tx.expected).ok
        /\ ExistingId(store, tx.hash) = 0
    BY <1>1, <1>3, <2>2
  <2> HIDE DEF store
  <2>4. Known(after.storages[tx.at], Len(store.records) + 1)
    BY <2>1, <2>3, InitializeMakesRecord
  <2> QED
    BY <2>4 DEF store
<1> QED
  BY <1>1, <1>2, <1>3 DEF Mined, after

(* The id of a record to be created is that of the next record, or of one  *)
(* that was created in between.                                            *)
LEMMA NextIdLater ==
    ASSUME NEW old, NEW new, StoreOK(old), StoreOK(new), Grows(old, new),
           NEW hash \in Contents, ExistingId(old, hash) = 0
    PROVE  \/ Known(new, Len(old.records) + 1)
           \/ Len(new.records) = Len(old.records) /\ ExistingId(new, hash) = 0
<1>1. /\ Len(old.records) \in Nat /\ Len(new.records) \in Nat
      /\ Len(old.records) <= Len(new.records)
      /\ DOMAIN old.records = 1 .. Len(old.records) /\ DOMAIN new.records = 1 .. Len(new.records)
  BY StoreFacts DEF StoreOK, Grows
<1>2. CASE Len(old.records) # Len(new.records)
  BY <1>1, <1>2 DEF Known
<1>3. CASE Len(old.records) = Len(new.records)
  <2> SUFFICES ASSUME ExistingId(new, hash) # 0 PROVE FALSE
    BY <1>3
  <2> DEFINE r == ExistingId(new, hash)
  <2>1. r \in DOMAIN old.records /\ new.records[r].contentHash = hash
    BY <1>1, <1>3 DEF StoreOK, Indexed, Known
  <2> HIDE DEF r
  <2>2. old.records[r].contentHash = hash
    BY <2>1 DEF Grows
  <2>3. ExistingId(old, hash) = r
    BY <2>1, <2>2 DEF StoreOK, Indexed, ExistingId
  <2> QED
    BY <1>1, <2>1, <2>3
<1> QED
  BY <1>2, <1>3

LEMMA MinedInitAwaited ==
    ASSUME ReleaseInv, job.pc = "init", mempool # <<>>, receipt = "none", NEW ok \in BOOLEAN,
           NEW new, Mined(Head(mempool), ok, chain, new), NEW r,
           r = "success" => Tail(mempool) = <<>> /\ ok
    PROVE  InitAwaited(job, new, Tail(mempool), r)
<1> DEFINE store == chain.storages[job.storage]
           after == new.storages[job.storage]
<1>1. job.storage \in DOMAIN chain.storages
  BY UploadFacts DEF Uploading
<1>2. /\ StoreOK(store) /\ StoreOK(after) /\ Grows(store, after)
      /\ \A id : Known(store, id) => Known(after, id)
  BY <1>1, StoreLater DEF ReleaseInv, Mined
<1>3. CASE Known(store, job.ids)
  BY <1>2, <1>3 DEF InitAwaited
<1>4. CASE ~Known(store, job.ids)
  <2> DEFINE tx == Last(mempool)
  <2>1. /\ job.ids = Len(store.records) + 1
        /\ tx.to = "storage" /\ tx.op = "initializeChunkedSvg" /\ tx.at = job.storage
        /\ ExistingId(store, tx.hash) = 0
    BY <1>4 DEF ReleaseInv, InitAwaited
  <2>2. IsSeq(mempool)
    BY DEF ReleaseInv, MempoolOK
  <2>3. TxOK(tx, chain)
    BY <2>2, TailFacts DEF ReleaseInv, MempoolOK, Last
  <2>4. tx.hash \in Contents
    BY <2>1, <2>3 DEF TxOK, StorageTxOK
  <2>5. /\ Tail(mempool) # <<>> => Last(Tail(mempool)) = tx
        /\ Tail(mempool) = <<>> => Head(mempool) = tx
    BY <2>2, TailFacts
  <2> HIDE DEF tx
  <2>6. CASE Known(after, job.ids)
    BY <2>6 DEF InitAwaited
  <2>7. CASE ~Known(after, job.ids)
    <3>1. Len(after.records) = Len(store.records) /\ ExistingId(after, tx.hash) = 0
      <4> HIDE DEF store, after
      <4> QED
        BY <1>2, <2>1, <2>4, <2>7, NextIdLater
    <3>2. r # "success"
      <4> SUFFICES ASSUME r = "success" PROVE FALSE
        OBVIOUS
      <4>1. ok /\ Head(mempool) = tx
        BY <2>5
      <4> QED
        BY <2>1, <2>7, <4>1 DEF Mined
    <3> QED
      BY <2>1, <2>5, <3>1, <3>2 DEF InitAwaited
  <2> QED
    BY <2>6, <2>7
<1> QED
  BY <1>3, <1>4

LEMMA MinedBatchAwaited ==
    ASSUME ReleaseInv, job.pc = "batch", mempool # <<>>, NEW ok \in BOOLEAN,
           NEW new, Mined(Head(mempool), ok, chain, new), NEW r,
           r = "success" => Tail(mempool) = <<>> /\ ok
    PROVE  BatchAwaited(job, new, art, Tail(mempool), r)
<1> DEFINE store == chain.storages[job.storage]
           after == new.storages[job.storage]
           svgs == BytesIn(Head(job.batches), art)
           tx == [to |-> "storage", op |-> "storeSvgBatch", at |-> job.storage, svgs |-> svgs]
<1>1. /\ job.storage \in DOMAIN chain.storages /\ Uploading
      /\ UploadOK(job, chain, disk.catalog)
  BY UploadFacts DEF Uploading
<1>2. StoreOK(store) /\ StoreOK(after) /\ Grows(store, after)
  BY <1>1, StoreLater DEF ReleaseInv, Mined
<1>3. job.batches # <<>> /\ job.ids \in [DOMAIN Head(job.batches) -> Nat]
  BY <1>1 DEF UploadOK
<1>4. svgs \in Seq(Contents) /\ DOMAIN svgs = 1 .. Len(svgs)
  BY <1>1, <1>3, BatchBytes
<1>5. /\ \A k \in DOMAIN job.ids :
            job.ids[k] \in Nat /\ job.ids[k] <= Len(store.records) + Cardinality(Missing(store, svgs))
      /\ Last(mempool) = tx
  BY <1>3 DEF ReleaseInv, BatchAwaited
<1>6. IsSeq(mempool)
  BY DEF ReleaseInv, MempoolOK
<1>7. /\ Tail(mempool) # <<>> => Last(Tail(mempool)) = tx
      /\ Tail(mempool) = <<>> => Head(mempool) = tx
  BY <1>5, <1>6, TailFacts
<1>8. ASSUME NEW k \in DOMAIN job.ids
      PROVE  job.ids[k] <= Len(after.records) + Cardinality(Missing(after, svgs))
  <2> HIDE DEF store, after, svgs
  <2>1. Len(store.records) + Cardinality(Missing(store, svgs))
           <= Len(after.records) + Cardinality(Missing(after, svgs))
    BY <1>2, <1>4, MissingShrinks
  <2>2. /\ Len(store.records) \in Nat /\ Len(after.records) \in Nat
        /\ Cardinality(Missing(store, svgs)) \in Nat /\ Cardinality(Missing(after, svgs)) \in Nat
    BY <1>2, <1>4, MissingFinite, StoreFacts DEF StoreOK
  <2> QED
    BY <1>5, <1>8, <2>1, <2>2
<1>9. ASSUME r = "success" PROVE \A k \in DOMAIN svgs : Readable(after, ExistingId(after, svgs[k]))
  <2>1. ok /\ Head(mempool) = tx
    BY <1>7, <1>9
  <2> QED
    BY <1>4, <2>1 DEF Mined
<1> QED
  BY <1>7, <1>8, <1>9 DEF BatchAwaited

LEMMA MineWithKeeps ==
    ASSUME ReleaseInv, NEW ok \in BOOLEAN, NEW new, MineWith(ok, new),
           Mined(Head(mempool), ok, chain, new)
    PROVE  ReleaseInv'
<1>1. /\ mempool # <<>> /\ chain' = new /\ mempool' = Tail(mempool)
      /\ receipt' = IF Waiting /\ Len(mempool) = 1
                    THEN (IF ok THEN "success" ELSE "reverted") ELSE receipt
      /\ art' = art /\ disk' = disk /\ job' = job
  BY DEF MineWith
<1>2. /\ ChainOK(chain) /\ ChainOK(new) /\ Later(chain, new)
  BY DEF ReleaseInv, Mined
<1>3. IsSeq(mempool)
  BY DEF ReleaseInv, MempoolOK
<1>4. MempoolOK(mempool', new)
  <2> SUFFICES ASSUME NEW k \in DOMAIN Tail(mempool) PROVE TxOK(Tail(mempool)[k], new)
    BY <1>1, <1>3, TailFacts DEF MempoolOK
  <2>1. TxOK(Tail(mempool)[k], chain)
    BY <1>1, <1>3, TailFacts DEF ReleaseInv, MempoolOK
  <2> QED
    BY <1>2, <2>1, TxLater
<1>5. DiskOK(disk', new, art) /\ JobOK(job', new, disk'.catalog)
  BY <1>1, <1>2, DiskLater, JobLater DEF ReleaseInv
<1>6. Waiting => receipt = "none"
  BY <1>1 DEF ReleaseInv, ReceiptFollows
<1>7. ReceiptFollows'
  BY <1>1, <1>3, <1>6, TailFacts DEF ReleaseInv, ReceiptFollows, Waiting
<1>8. job.pc \in {"storage", "batch", "init"} =>
          /\ receipt = "none"
          /\ receipt' = "success" => Tail(mempool) = <<>> /\ ok
  BY <1>1, <1>3, <1>6, TailFacts DEF Waiting
<1>9. StorageAwaited(job', new, mempool')
  BY <1>1, <1>3, TailFacts DEF ReleaseInv, StorageAwaited, Mined
<1>10. BatchAwaited(job', new, art', mempool', receipt')
  <2>1. CASE job.pc = "batch"
    BY <1>1, <1>8, <2>1, MinedBatchAwaited
  <2>2. CASE job.pc # "batch"
    BY <1>1, <2>2 DEF BatchAwaited
  <2> QED
    BY <2>1, <2>2
<1>11. InitAwaited(job', new, mempool', receipt')
  <2>1. CASE job.pc = "init"
    BY <1>1, <1>8, <2>1, MinedInitAwaited
  <2>2. CASE job.pc # "init"
    BY <1>1, <2>2 DEF InitAwaited
  <2> QED
    BY <2>1, <2>2
<1>12. ArtOK(art')
  BY <1>1 DEF ReleaseInv
<1> QED
  BY <1>1, <1>2, <1>4, <1>5, <1>7, <1>9, <1>10, <1>11, <1>12 DEF ReleaseInv

LEMMA FirstPendingOK ==
    ASSUME ReleaseInv, mempool # <<>>
    PROVE  TxOK(Head(mempool), chain)
  BY TailFacts DEF ReleaseInv, MempoolOK

LEMMA ExecuteAnswers ==
    ASSUME NEW tx, TxOK(tx, chain)
    PROVE  Execute(tx).ok \in BOOLEAN
<1>1. CASE tx.to = "create"
  BY <1>1 DEF Execute
<1>2. CASE tx.to = "storage"
  <2>1. AtStorage(tx).ok \in BOOLEAN
    BY DEF AtStorage, StoreSvgBatch, InitializeChunkedSvg, AppendChunks, FinalizeChunkedSvg,
           Done, Reverted
  <2> QED
    BY <1>2, <2>1 DEF Execute
<1>3. CASE tx.to = "registry"
  <2>1. AtRegistry(tx).ok \in BOOLEAN
    BY DEF AtRegistry, RegisterLayers, RegisterAssets, RegisterVariants, Accepted, Refused
  <2> QED
    BY <1>3, <2>1 DEF Execute
<1> QED
  BY <1>1, <1>2, <1>3 DEF TxOK

LEMMA MineKeeps == ASSUME ReleaseInv, Mine PROVE ReleaseInv'
<1> DEFINE tx == Head(mempool)
<1>1. mempool # <<>> /\ MineWith(Execute(tx).ok, Execute(tx).chain)
  BY DEF Mine
<1>2. ChainOK(chain) /\ TxOK(tx, chain)
  BY <1>1, FirstPendingOK DEF ReleaseInv
<1>3. Execute(tx).ok \in BOOLEAN /\ Mined(tx, Execute(tx).ok, chain, Execute(tx).chain)
  BY <1>2, TxMined, ExecuteAnswers
<1> QED
  BY <1>1, <1>3, MineWithKeeps

LEMMA MineOutOfGasKeeps == ASSUME ReleaseInv, MineOutOfGas PROVE ReleaseInv'
<1>1. Head(mempool).op = "storeSvgBatch" /\ MineWith(FALSE, chain)
  BY DEF MineOutOfGas
<1>2. ChainOK(chain) /\ Later(chain, chain)
  BY LaterReflexive DEF ReleaseInv
<1>3. Mined(Head(mempool), FALSE, chain, chain)
  BY <1>1, <1>2 DEF Mined
<1> QED
  BY <1>1, <1>3, MineWithKeeps

-----------------------------------------------------------------------------
(* The rest of the steps, and the invariant.                               *)
LEMMA EditKeeps == ASSUME ReleaseInv, Edit PROVE ReleaseInv'
<1>1. PICK e \in Edits : art' = [art EXCEPT !.bytes[e.file] = e.bytes, !.edited = TRUE]
  BY DEF Edit
<1>2. /\ job.pc = "idle" /\ chain' = chain /\ mempool' = mempool /\ receipt' = receipt
      /\ disk' = disk /\ job' = job
  BY DEF Edit
<1>3. e \in [file : Files, bytes : Contents]
  BY ReleaseAssumption
<1>4. ArtOK(art') /\ art'.catalog = art.catalog
  BY <1>1, <1>3 DEF ReleaseInv, ArtOK
<1>5. DiskOK(disk', chain', art')
  BY <1>2, <1>4 DEF ReleaseInv, DiskOK, BuiltCatalogs
<1>6. ReceiptFollows'
  BY <1>2 DEF ReleaseInv, ReceiptFollows, Waiting
<1> QED
  BY <1>2, <1>4, <1>5, <1>6 DEF ReleaseInv, StorageAwaited, BatchAwaited, InitAwaited

LEMMA MintKeeps == ASSUME ReleaseInv, Mint PROVE ReleaseInv'
  BY DEF Mint, ReleaseInv, ReceiptFollows, Waiting

LEMMA ReleaseInit == ASSUME Init PROVE ReleaseInv
<1>1. PICK tree \in Trees : art = [tree |-> tree, catalog |-> BuildLayerCatalog(tree),
                                   bytes |-> BytesOf, edited |-> FALSE]
  BY DEF Init
<1>2. ArtOK(art)
  BY <1>1, ReleaseAssumption DEF ArtOK
<1>3. chain = [storages |-> <<>>, registries |-> <<>>, nfts |-> <<>>] /\ mempool = <<>>
      /\ receipt = "none" /\ job = Idle
  BY DEF Init
<1>4. IsSeq(<<>>) /\ <<>> \in Seq(Stores) /\ Len(<<>>) = 0 /\ DOMAIN <<>> = {}
  <2>1. <<>> \in Seq({})
    OBVIOUS
  <2>2. IsSeq(<<>>)
    BY <2>1, SeqIsSeq
  <2> QED
    BY <2>2
<1>5. ChainOK(chain) /\ MempoolOK(mempool, chain)
  BY <1>3, <1>4 DEF ChainOK, MempoolOK
<1>6. disk = [catalog |-> NoCatalog, state |-> [storage |-> 0, files |-> NoIds],
              manifest |-> [storage |-> 0, files |-> NoIds],
              addresses |-> [storage |-> 0, registry |-> 0, nft |-> 0]]
  BY DEF Init
<1>7. DiskOK(disk, chain, art)
  BY <1>3, <1>4, <1>6 DEF DiskOK, Entries, NoIds
<1>8. JobOK(job, chain, disk.catalog) /\ job.pc = "idle"
  BY <1>3, IdleOK
<1>9. ReceiptFollows
  BY <1>3, <1>8 DEF ReceiptFollows, Waiting
<1> QED
  BY <1>2, <1>5, <1>7, <1>8, <1>9 DEF ReleaseInv, StorageAwaited, BatchAwaited, InitAwaited

LEMMA UploadKeeps == ASSUME ReleaseInv, Upload PROVE ReleaseInv'
  BY AlreadyStoredKeeps, CollectSmallKeeps, MeetChunkedKeeps, EndScanKeeps, SendBatchKeeps,
     BatchStoredKeeps, FlushedKeeps, StartChunkedKeeps, InitializedKeeps, UploadChunksKeeps,
     AppendedKeeps, CompleteKeeps, FinalizedKeeps, FinishUploadKeeps DEF Upload

LEMMA NextKeeps == ASSUME ReleaseInv, [Next]_vars PROVE ReleaseInv'
<1>1. CASE Script
  BY <1>1, UploadKeeps, StorageDeployedKeeps, RegistryDeployedKeeps, RegisteredKeeps,
     PublishKeeps, SeeRevertKeeps DEF Script
<1>2. CASE StartDeploy \/ StartUpload \/ TimeOut \/ Mine \/ MineOutOfGas \/ Drop \/ Edit \/ Mint
  BY <1>2, StartDeployKeeps, StartUploadKeeps, TimeOutKeeps, MineKeeps, MineOutOfGasKeeps,
     DropKeeps, EditKeeps, MintKeeps
<1>3. CASE UNCHANGED vars
  BY <1>3 DEF vars, ReleaseInv, ReceiptFollows, Waiting
<1> QED
  BY <1>1, <1>2, <1>3 DEF Next

(* In every state of a release, the records that the files, the running    *)
(* script and its pending transactions name exist, the ids predicted for a *)
(* batch do not pass the ids that its missing contents will get, and every *)
(* store keeps its index and its contents.                                 *)
THEOREM ReleaseInvariant == Spec => []ReleaseInv
<1>1. Init => ReleaseInv
  BY ReleaseInit
<1>2. ReleaseInv /\ [Next]_vars => ReleaseInv'
  BY NextKeeps
<1> QED
  BY <1>1, <1>2, PTL DEF Spec

(* The script waits for the last pending transaction and has its receipt   *)
(* when nothing is pending; the upload state and the addresses on disk     *)
(* name records and contracts that exist.                                  *)
THEOREM ReleaseTypesCorrect == Spec => []ReleaseTypeOK
<1>1. ReleaseInv => ReleaseTypeOK
  BY DEF ReleaseInv, ReceiptFollows, DiskOK, Entries, ReleaseTypeOK
<1> QED
  BY <1>1, ReleaseInvariant, PTL

(* In every storage, the chunks of a finalized record are the bytes that   *)
(* its hash announces, and no content has two ids.                         *)
THEOREM RecordsAreTrue == Spec => []RecordsHoldTheirContent
<1>1. ASSUME ReleaseInv PROVE RecordsHoldTheirContent
  <2> SUFFICES ASSUME NEW s \in DOMAIN chain.storages
               PROVE  LET records == chain.storages[s].records
                      IN /\ \A r \in DOMAIN records :
                               records[r].finalized =>
                                   StoredBytes(records[r]) = records[r].contentHash
                         /\ \A q, r \in DOMAIN records :
                               records[q].contentHash = records[r].contentHash => q = r
    BY DEF RecordsHoldTheirContent
  <2>1. StoreOK(chain.storages[s])
    BY <1>1 DEF ReleaseInv, ChainOK
  <2> QED
    BY <2>1 DEF StoreOK, Indexed, HoldsContent
<1> QED
  BY <1>1, ReleaseInvariant, PTL

(* No step of the chain changes a finalized record or the id of a content. *)
THEOREM RecordsStay == Spec => RecordsPermanent
<1> DEFINE Stays ==
        \A s \in DOMAIN chain.storages :
            /\ \A r \in DOMAIN chain.storages[s].records :
                  chain.storages[s].records[r].finalized =>
                      chain'.storages[s].records[r] = chain.storages[s].records[r]
            /\ \A c \in Contents : chain.storages[s].svgIdForHash[c] # 0 =>
                  chain'.storages[s].svgIdForHash[c] = chain.storages[s].svgIdForHash[c]
<1>1. ASSUME ReleaseInv, [Next]_vars PROVE [Stays]_chain
  <2>1. CASE Mine
    <3>1. mempool # <<>> /\ chain' = Execute(Head(mempool)).chain
      BY <2>1 DEF Mine, MineWith
    <3>2. Later(chain, chain')
      BY <1>1, <3>1, FirstPendingOK, TxKeeps DEF ReleaseInv
    <3> QED
      BY <3>2 DEF Later, Grows, ExistingId
  <2>2. CASE ~Mine
    <3>1. chain' = chain
      <4>1. CASE Upload
        BY <4>1 DEF Upload, AlreadyStored, CollectSmall, MeetChunked, EndScan, SendBatch,
           BatchStored, Flushed, StartChunked, Initialized, UploadChunks, Appended, Complete,
           Finalized, FinishUpload, ChunkedEntry, Enter, Goto, Send, SendIfAccepted
      <4>2. CASE Script /\ ~Upload
        BY <4>2 DEF Script, StorageDeployed, RegistryDeployed, Registered, RegisterNext, Publish,
           SeeRevert, Goto, Send
      <4>3. CASE ~Script
        BY <1>1, <2>2, <4>3 DEF Next, StartDeploy, StartUpload, TimeOut, MineOutOfGas, MineWith,
           Drop, Edit, Mint, vars
      <4> QED
        BY <4>1, <4>2, <4>3
    <3> QED
      BY <3>1
  <2> QED
    BY <2>1, <2>2
<1> QED
  BY <1>1, ReleaseInvariant, PTL DEF Spec, RecordsPermanent

-----------------------------------------------------------------------------
(* The order in which contents are stored.  While no file is edited, every *)
(* storage receives the contents of the catalog in the order in which the  *)
(* catalog first lists them, whichever transactions are lost or late, so   *)
(* that the id of a content is its place in that order.                    *)
AssetBytes(a) == BytesIn(a.catalog.assets, a)
Order(a) == NewContents(EmptyStore, AssetBytes(a))

Ordered(o) == o \in Seq(Contents) /\ \A i, j \in DOMAIN o : o[i] = o[j] => i = j
InOrder(store, o) ==
    \A r \in DOMAIN store.records : r \in DOMAIN o /\ store.records[r].contentHash = o[r]
(* What comes before the k-th of svgs is stored, or comes before it there. *)
Follows(store, svgs, k, o) ==
    \E d \in DOMAIN o :
        /\ o[d] = svgs[k]
        /\ \A e \in 1 .. d - 1 : \/ ExistingId(store, o[e]) # 0
                                 \/ \E j \in 1 .. k - 1 : svgs[j] = o[e]

LEMMA OrderFacts ==
    ASSUME NEW a, ArtOK(a)
    PROVE  /\ Ordered(Order(a)) /\ AssetBytes(a) \in Seq(Contents)
           /\ DOMAIN AssetBytes(a) = DOMAIN a.catalog.assets
           /\ \A j \in DOMAIN a.catalog.assets :
                \E d \in DOMAIN Order(a) :
                   /\ Order(a)[d] = a.bytes[a.catalog.assets[j]]
                   /\ \A e \in 1 .. d - 1 : \E m \in 1 .. j - 1 :
                         a.bytes[a.catalog.assets[m]] = Order(a)[e]
<1> DEFINE svgs == AssetBytes(a)
           o == Order(a)
           assets == a.catalog.assets
<1>1. a.bytes \in [Files -> Contents] /\ assets \in Seq(Files)
  BY ArtFacts DEF ArtOK, Catalog
<1>2. /\ svgs \in Seq(Contents) /\ DOMAIN svgs = 1 .. Len(svgs) /\ Len(svgs) = Len(assets)
      /\ DOMAIN assets = 1 .. Len(assets) /\ Len(svgs) \in Nat
      /\ \A j \in DOMAIN assets : svgs[j] = a.bytes[assets[j]]
  BY <1>1 DEF AssetBytes, BytesIn
<1>3. NewAmongFirst(o, EmptyStore, svgs, Len(svgs))
  BY <1>2, NewContentsOfBatch DEF Order
<1>4. \A c \in Contents : ExistingId(EmptyStore, c) = 0
  BY DEF ExistingId, EmptyStore
<1> HIDE DEF svgs, o
<1>5. /\ o \in Seq(Contents) /\ DOMAIN o = 1 .. Len(o) /\ Len(o) \in Nat
      /\ \A i, j \in 1 .. Len(o) : o[i] = o[j] => i = j
  BY <1>3 DEF NewAmongFirst
<1>6. ASSUME NEW j \in DOMAIN assets
      PROVE  \E d \in DOMAIN o :
                 /\ o[d] = a.bytes[assets[j]]
                 /\ \A e \in 1 .. d - 1 : \E m \in 1 .. j - 1 : a.bytes[assets[m]] = o[e]
  <2>1. j \in 1 .. Len(svgs) /\ svgs[j] \in Contents
    BY <1>2
  <2>2. PICK d \in 1 .. Len(o) : o[d] = svgs[j]
    BY <1>3, <1>4, <2>1 DEF NewAmongFirst
  <2>3. ASSUME NEW e \in 1 .. d - 1
        PROVE  \E m \in 1 .. j - 1 : svgs[m] = o[e]
    <3>1. e \in 1 .. Len(o) /\ e \in Nat /\ e < d
      BY <1>5
    <3>2. PICK k \in 1 .. Len(svgs) :
              /\ svgs[k] = o[e]
              /\ \A n \in 1 .. k - 1 : ExistingId(EmptyStore, svgs[n]) = 0 =>
                    \E m \in 1 .. e - 1 : o[m] = svgs[n]
      BY <1>3, <3>1 DEF NewAmongFirst
    <3>3. ~(j < k)
      <4> SUFFICES ASSUME j < k PROVE FALSE
        OBVIOUS
      <4>1. j \in 1 .. k - 1
        BY <2>1
      <4>2. PICK m \in 1 .. e - 1 : o[m] = svgs[j]
        BY <1>4, <2>1, <3>2, <4>1
      <4>3. m \in 1 .. Len(o) /\ m < d
        BY <1>5, <3>1
      <4> QED
        BY <1>5, <2>2, <4>2, <4>3
    <3>4. j # k
      BY <1>5, <2>2, <3>1, <3>2
    <3> QED
      BY <2>1, <3>2, <3>3, <3>4
  <2>4. \A m \in 1 .. j - 1 : m \in DOMAIN assets
    BY <1>2
  <2>5. \A e \in 1 .. d - 1 : \E m \in 1 .. j - 1 : a.bytes[assets[m]] = o[e]
    <3> SUFFICES ASSUME NEW e \in 1 .. d - 1
                 PROVE  \E m \in 1 .. j - 1 : a.bytes[assets[m]] = o[e]
      OBVIOUS
    <3>1. PICK m \in 1 .. j - 1 : svgs[m] = o[e]
      BY <2>3
    <3>2. svgs[m] = a.bytes[assets[m]]
      BY <1>2, <2>4
    <3> QED
      BY <3>1, <3>2
  <2> QED
    BY <1>2, <1>5, <2>2, <2>5
<1>7. Ordered(o)
  BY <1>5 DEF Ordered
<1> QED
  BY <1>2, <1>6, <1>7 DEF svgs, o

LEMMA InOrderFacts ==
    ASSUME NEW store, StoreOK(store), NEW o, Ordered(o), InOrder(store, o)
    PROVE  /\ Len(store.records) \in Nat /\ DOMAIN store.records = 1 .. Len(store.records)
           /\ DOMAIN o = 1 .. Len(o) /\ Len(o) \in Nat
           /\ \A d \in DOMAIN o : o[d] \in Contents
           /\ \A d \in DOMAIN o : d <= Len(store.records) => ExistingId(store, o[d]) = d
           /\ \A d \in DOMAIN o : ExistingId(store, o[d]) # 0 =>
                 ExistingId(store, o[d]) = d /\ d <= Len(store.records)
           /\ \A c \in Contents : ExistingId(store, c) # 0 =>
                 ExistingId(store, c) \in DOMAIN o /\ o[ExistingId(store, c)] = c
<1>1. /\ Len(store.records) \in Nat /\ DOMAIN store.records = 1 .. Len(store.records)
      /\ DOMAIN o = 1 .. Len(o) /\ Len(o) \in Nat /\ \A d \in DOMAIN o : o[d] \in Contents
  BY StoreFacts DEF StoreOK, Ordered
<1>2. ASSUME NEW d \in DOMAIN o, d <= Len(store.records) PROVE ExistingId(store, o[d]) = d
  <2>1. d \in DOMAIN store.records
    BY <1>1, <1>2
  <2>2. store.records[d].contentHash = o[d]
    BY <2>1 DEF InOrder
  <2> QED
    BY <2>1, <2>2 DEF StoreOK, Indexed, ExistingId
<1>3. ASSUME NEW c \in Contents, ExistingId(store, c) # 0
      PROVE  /\ ExistingId(store, c) \in DOMAIN o /\ o[ExistingId(store, c)] = c
             /\ ExistingId(store, c) <= Len(store.records)
  <2>1. /\ ExistingId(store, c) \in DOMAIN store.records
        /\ store.records[ExistingId(store, c)].contentHash = c
    BY <1>3 DEF StoreOK, Indexed, Known
  <2> QED
    BY <1>1, <2>1 DEF InOrder
<1>4. ASSUME NEW d \in DOMAIN o, ExistingId(store, o[d]) # 0
      PROVE  ExistingId(store, o[d]) = d /\ d <= Len(store.records)
  BY <1>1, <1>3, <1>4 DEF Ordered
<1> QED
  BY <1>1, <1>2, <1>3, <1>4

(* A content that is not stored, when all before it are, is the next.      *)
LEMMA NextInOrder ==
    ASSUME NEW store, StoreOK(store), NEW o, Ordered(o), InOrder(store, o),
           NEW hash, ExistingId(store, hash) = 0, Follows(store, <<hash>>, 1, o)
    PROVE  Len(store.records) + 1 \in DOMAIN o /\ o[Len(store.records) + 1] = hash
<1> DEFINE n == Len(store.records)
<1>1. PICK d \in DOMAIN o : /\ o[d] = hash
                            /\ \A e \in 1 .. d - 1 : ExistingId(store, o[e]) # 0
  BY DEF Follows
<1>2. n \in Nat /\ DOMAIN o = 1 .. Len(o) /\ Len(o) \in Nat
      /\ \A e \in DOMAIN o : e <= n <=> ExistingId(store, o[e]) # 0
  BY InOrderFacts
<1> HIDE DEF n
<1>3. ~(d <= n)
  BY <1>1, <1>2
<1>4. ~(d > n + 1)
  <2> SUFFICES ASSUME d > n + 1 PROVE FALSE
    OBVIOUS
  <2>1. n + 1 \in 1 .. d - 1 /\ n + 1 \in DOMAIN o /\ ~(n + 1 <= n)
    BY <1>2
  <2> QED
    BY <1>1, <1>2, <2>1
<1>5. d = n + 1
  BY <1>2, <1>3, <1>4
<1> QED
  BY <1>1, <1>5 DEF n

(* A batch in order adds its new contents where they belong.               *)
LEMMA BatchInOrder ==
    ASSUME NEW store, StoreOK(store), NEW o, Ordered(o), InOrder(store, o),
           NEW svgs \in Seq(Contents), \A k \in 1 .. Len(svgs) : Follows(store, svgs, k, o),
           StoreSvgBatch(store, svgs).ok
    PROVE  InOrder(StoreSvgBatch(store, svgs).store, o)
<1> DEFINE new == NewContents(store, svgs)
           n == Len(store.records)
           after == StoreSvgBatch(store, svgs).store
           Wrong == {i \in 1 .. Len(new) : ~(n + i \in DOMAIN o /\ o[n + i] = new[i])}
<1>1. /\ after.records \in Seq(Records) /\ Len(after.records) = n + Len(new)
      /\ \A r \in 1 .. n : after.records[r] = store.records[r]
      /\ \A i \in 1 .. Len(new) : after.records[n + i] = SingleUpload(new[i])
  BY BatchStores
<1>2. NewAmongFirst(new, store, svgs, Len(svgs))
  BY NewContentsOfBatch
<1>3. /\ n \in Nat /\ DOMAIN store.records = 1 .. n /\ DOMAIN o = 1 .. Len(o) /\ Len(o) \in Nat
      /\ \A d \in DOMAIN o : d <= n <=> ExistingId(store, o[d]) # 0
  BY InOrderFacts
<1> HIDE DEF new, after, n
<1>4. /\ new \in Seq(Contents) /\ Len(new) \in Nat
      /\ \A i, j \in 1 .. Len(new) : new[i] = new[j] => i = j
  BY <1>2 DEF NewAmongFirst
<1>5. Wrong = {}
  <2> SUFFICES ASSUME Wrong # {} PROVE FALSE
    OBVIOUS
  <2>1. PICK i \in Wrong : \A m \in Nat : m < i => m \notin Wrong
    <3>1. Wrong \in SUBSET Nat
      OBVIOUS
    <3> HIDE DEF Wrong
    <3> QED
      BY <3>1, SmallestNumber
  <2>2. i \in 1 .. Len(new)
    OBVIOUS
  <2>3. \A m \in 1 .. i - 1 : m \in 1 .. Len(new) /\ n + m \in DOMAIN o /\ o[n + m] = new[m]
    BY <1>4, <2>1, <2>2
  <2>4. ~(n + i \in DOMAIN o /\ o[n + i] = new[i])
    OBVIOUS
  <2> HIDE DEF Wrong
  <2>5. /\ ExistingId(store, new[i]) = 0
        /\ \E k \in 1 .. Len(svgs) :
              /\ svgs[k] = new[i]
              /\ \A j \in 1 .. k - 1 : ExistingId(store, svgs[j]) = 0 =>
                    \E m \in 1 .. i - 1 : new[m] = svgs[j]
    BY <1>2, <2>2 DEF NewAmongFirst
  <2>6. PICK k \in 1 .. Len(svgs) :
            /\ svgs[k] = new[i]
            /\ \A j \in 1 .. k - 1 : ExistingId(store, svgs[j]) = 0 =>
                  \E m \in 1 .. i - 1 : new[m] = svgs[j]
    BY <2>5
  <2>7. Follows(store, svgs, k, o)
    OBVIOUS
  <2>8. PICK d \in DOMAIN o :
            /\ o[d] = new[i]
            /\ \A e \in 1 .. d - 1 : \/ ExistingId(store, o[e]) # 0
                                     \/ \E j \in 1 .. k - 1 : svgs[j] = o[e]
    BY <2>6, <2>7 DEF Follows
  <2>9. ~(d <= n)
    BY <1>3, <2>5, <2>8
  <2>10. ~(d < n + i)
    <3> SUFFICES ASSUME d < n + i PROVE FALSE
      OBVIOUS
    <3> DEFINE m == d - n
    <3>1. m \in 1 .. i - 1 /\ n + m = d
      BY <1>3, <1>4, <2>2, <2>9
    <3> HIDE DEF m
    <3>2. new[m] = new[i] /\ m \in 1 .. Len(new)
      BY <2>3, <2>8, <3>1
    <3>3. m = i
      BY <1>4, <2>2, <3>2
    <3> QED
      BY <1>4, <2>2, <3>1, <3>3
  <2>11. ~(d > n + i)
    <3> SUFFICES ASSUME d > n + i PROVE FALSE
      OBVIOUS
    <3>1. /\ n + i \in 1 .. d - 1 /\ n + i \in DOMAIN o /\ ~(n + i <= n)
      BY <1>3, <1>4, <2>2
    <3>2. ExistingId(store, o[n + i]) = 0
      BY <1>3, <3>1
    <3>3. PICK j \in 1 .. k - 1 : svgs[j] = o[n + i]
      BY <2>8, <3>1, <3>2
    <3>4. PICK m \in 1 .. i - 1 : new[m] = o[n + i]
      BY <2>6, <3>2, <3>3
    <3>5. o[n + m] = o[n + i] /\ n + m \in DOMAIN o
      BY <2>3, <3>4
    <3>6. n + m = n + i
      BY <3>1, <3>5 DEF Ordered
    <3> QED
      BY <1>3, <2>2, <3>6
  <2>12. d = n + i
    BY <1>3, <1>4, <2>2, <2>10, <2>11
  <2> QED
    BY <2>4, <2>8, <2>12
<1>6. \A i \in 1 .. Len(new) : n + i \in DOMAIN o /\ o[n + i] = new[i]
  BY <1>5
<1> HIDE DEF Wrong
<1>7. DOMAIN after.records = 1 .. n + Len(new)
  BY <1>1
<1>8. ASSUME NEW r \in 1 .. n + Len(new)
      PROVE  r \in DOMAIN o /\ after.records[r].contentHash = o[r]
  <2>1. CASE r \in 1 .. n
    BY <1>1, <1>3, <2>1 DEF InOrder
  <2>2. CASE ~(r \in 1 .. n)
    <3> DEFINE i == r - n
    <3>1. i \in 1 .. Len(new) /\ r = n + i
      BY <1>3, <1>4, <2>2
    <3> HIDE DEF i
    <3>2. r \in DOMAIN o /\ o[r] = new[i]
      BY <1>6, <3>1
    <3>3. after.records[r].contentHash = new[i]
      <4>1. after.records[r] = SingleUpload(new[i])
        BY <1>1, <3>1
      <4>2. SingleUpload(new[i]).contentHash = new[i]
        BY DEF SingleUpload, RecordOf
      <4> QED
        BY <4>1, <4>2
    <3> QED
      BY <3>2, <3>3
  <2> QED
    BY <2>1, <2>2
<1>9. InOrder(after, o)
  BY <1>7, <1>8 DEF InOrder
<1> QED
  BY <1>9 DEF after

(* The ids of a batch, known before it is mined, are places in the order.  *)
LEMMA BatchNamesPlaces ==
    ASSUME NEW store, StoreOK(store), NEW o, Ordered(o), InOrder(store, o),
           NEW svgs \in Seq(Contents), \A k \in 1 .. Len(svgs) : Follows(store, svgs, k, o),
           StoreSvgBatch(store, svgs).ok, NEW k \in 1 .. Len(svgs)
    PROVE  /\ StoreSvgBatch(store, svgs).id[k] \in DOMAIN o
           /\ o[StoreSvgBatch(store, svgs).id[k]] = svgs[k]
<1> DEFINE after == StoreSvgBatch(store, svgs).store
<1>1. StoreSvgBatch(store, svgs).id = [m \in 1 .. Len(svgs) |-> ExistingId(after, svgs[m])]
  BY BatchStores
<1>2. /\ StoreOK(after) /\ InOrder(after, o) /\ Readable(after, ExistingId(after, svgs[k]))
  BY BatchKeeps, BatchInOrder, BatchReads
<1> HIDE DEF after
<1>3. Len(after.records) \in Nat /\ DOMAIN after.records = 1 .. Len(after.records)
  BY <1>2, InOrderFacts
<1>4. svgs[k] \in Contents /\ ExistingId(after, svgs[k]) # 0
  BY <1>2, <1>3 DEF Readable, Known
<1>5. ExistingId(after, svgs[k]) \in DOMAIN o /\ o[ExistingId(after, svgs[k])] = svgs[k]
  BY <1>2, <1>4, InOrderFacts
<1> QED
  BY <1>1, <1>5

(* A storage without a new record stays in order.                          *)
LEMMA SameRecordsInOrder ==
    ASSUME NEW old, NEW new, Grows(old, new), DOMAIN new.records = DOMAIN old.records,
           NEW o, InOrder(old, o)
    PROVE  InOrder(new, o)
  BY DEF InOrder, Grows

LEMMA OrderLater ==
    ASSUME NEW old, NEW new, Grows(old, new), NEW o, Ordered(o), NEW svgs, NEW k,
           Follows(old, svgs, k, o)
    PROVE  Follows(new, svgs, k, o)
<1>1. PICK d \in DOMAIN o :
          /\ o[d] = svgs[k]
          /\ \A e \in 1 .. d - 1 : \/ ExistingId(old, o[e]) # 0
                                   \/ \E j \in 1 .. k - 1 : svgs[j] = o[e]
  BY DEF Follows
<1>2. ASSUME NEW e \in 1 .. d - 1, ExistingId(old, o[e]) # 0 PROVE ExistingId(new, o[e]) # 0
  <2>1. o[e] \in Contents
    BY DEF Ordered
  <2> QED
    BY <1>2, <2>1 DEF Grows
<1> QED
  BY <1>1, <1>2 DEF Follows

-----------------------------------------------------------------------------
(* The files an upload has still to send, batch by batch, come in the order *)
(* of the catalog, and every file before the next one has its entry in the *)
(* manifest or its place in a batch.                                       *)
Queue(j) == IF j.pc = "scan" THEN <<j.pending>> ELSE j.batches
Earlier(q, b, k, f) ==
    \/ \E c \in 1 .. b - 1 : f \in ToSet(q[c])
    \/ \E m \in 1 .. k - 1 : q[b][m] = f
InLine(q, i, assets, manifest) ==
    /\ \A m \in 1 .. i - 1 : \/ manifest[assets[m]] # 0
                             \/ \E b \in DOMAIN q : assets[m] \in ToSet(q[b])
    /\ \A b \in DOMAIN q : \A k \in DOMAIN q[b] :
          \E m \in 1 .. i - 1 :
              /\ assets[m] = q[b][k]
              /\ \A n \in 1 .. m - 1 : manifest[assets[n]] # 0 \/ Earlier(q, b, k, assets[n])

InLineAlone(p, i, assets, manifest) ==
    /\ \A m \in 1 .. i - 1 : manifest[assets[m]] # 0 \/ assets[m] \in ToSet(p)
    /\ \A k \in DOMAIN p :
          \E m \in 1 .. i - 1 :
              /\ assets[m] = p[k]
              /\ \A n \in 1 .. m - 1 : \/ manifest[assets[n]] # 0
                                       \/ \E e \in 1 .. k - 1 : p[e] = assets[n]

LEMMA InLineOne ==
    ASSUME NEW p, NEW i, NEW assets, NEW manifest
    PROVE  InLine(<<p>>, i, assets, manifest) <=> InLineAlone(p, i, assets, manifest)
<1> DEFINE q == <<p>>
<1>1. DOMAIN q = {1} /\ q[1] = p
  OBVIOUS
<1> HIDE DEF q
<1>2. \A k, f : Earlier(q, 1, k, f) <=> \E e \in 1 .. k - 1 : p[e] = f
  BY <1>1 DEF Earlier
<1>3. InLine(q, i, assets, manifest) <=>
             /\ \A m \in 1 .. i - 1 : manifest[assets[m]] # 0 \/ assets[m] \in ToSet(p)
             /\ \A k \in DOMAIN p :
                   \E m \in 1 .. i - 1 :
                       /\ assets[m] = p[k]
                       /\ \A n \in 1 .. m - 1 : \/ manifest[assets[n]] # 0
                                                \/ Earlier(q, 1, k, assets[n])
  BY <1>1 DEF InLine
<1>4. InLine(q, i, assets, manifest) <=> InLineAlone(p, i, assets, manifest)
  BY <1>2, <1>3 DEF InLineAlone
<1> QED
  BY <1>4 DEF q

LEMMA InLineNone ==
    ASSUME NEW i, NEW assets, NEW manifest
    PROVE  /\ InLine(<<>>, i, assets, manifest) <=>
                  \A m \in 1 .. i - 1 : manifest[assets[m]] # 0
           /\ InLine(<< <<>> >>, i, assets, manifest) <=>
                  \A m \in 1 .. i - 1 : manifest[assets[m]] # 0
<1>1. DOMAIN <<>> = {}
  OBVIOUS
<1>2. ToSet(<<>>) = {}
  BY <1>1 DEF ToSet
<1>3. InLine(<<>>, i, assets, manifest) <=> \A m \in 1 .. i - 1 : manifest[assets[m]] # 0
  BY <1>1 DEF InLine
<1>4. InLine(<< <<>> >>, i, assets, manifest) <=> \A m \in 1 .. i - 1 : manifest[assets[m]] # 0
  BY <1>1, <1>2, InLineOne DEF InLineAlone
<1> QED
  BY <1>3, <1>4

LEMMA InLineCollects ==
    ASSUME NEW p \in Seq(Files), NEW i \in Nat \ {0}, NEW assets, assets[i] \in Files,
           NEW manifest, InLine(<<p>>, i, assets, manifest)
    PROVE  InLine(<<Append(p, assets[i])>>, i + 1, assets, manifest)
<1> DEFINE grown == Append(p, assets[i])
<1>1. /\ DOMAIN p = 1 .. Len(p) /\ Len(p) \in Nat
      /\ DOMAIN grown = 1 .. Len(p) + 1 /\ grown[Len(p) + 1] = assets[i]
      /\ \A k \in 1 .. Len(p) : grown[k] = p[k]
  OBVIOUS
<1> HIDE DEF grown
<1>2. /\ \A m \in 1 .. i - 1 : manifest[assets[m]] # 0 \/ assets[m] \in ToSet(p)
      /\ \A k \in DOMAIN p :
            \E m \in 1 .. i - 1 :
                /\ assets[m] = p[k]
                /\ \A n \in 1 .. m - 1 : \/ manifest[assets[n]] # 0
                                         \/ \E e \in 1 .. k - 1 : p[e] = assets[n]
  <2>1. InLineAlone(p, i, assets, manifest)
    BY InLineOne
  <2> QED
    BY <2>1 DEF InLineAlone
<1>3. ASSUME NEW m \in 1 .. (i + 1) - 1
      PROVE  manifest[assets[m]] # 0 \/ assets[m] \in ToSet(grown)
  <2>1. CASE m = i
    BY <1>1, <2>1 DEF ToSet
  <2>2. CASE m # i
    <3>1. m \in 1 .. i - 1
      BY <2>2
    <3>2. ToSet(p) \subseteq ToSet(grown)
      BY <1>1 DEF ToSet
    <3> QED
      BY <1>2, <3>1, <3>2
  <2> QED
    BY <2>1, <2>2
<1>4. ASSUME NEW k \in DOMAIN grown
      PROVE  \E m \in 1 .. (i + 1) - 1 :
                 /\ assets[m] = grown[k]
                 /\ \A n \in 1 .. m - 1 : \/ manifest[assets[n]] # 0
                                          \/ \E e \in 1 .. k - 1 : grown[e] = assets[n]
  <2>1. CASE k \in DOMAIN p
    <3>1. PICK m \in 1 .. i - 1 :
                /\ assets[m] = p[k]
                /\ \A n \in 1 .. m - 1 : \/ manifest[assets[n]] # 0
                                         \/ \E e \in 1 .. k - 1 : p[e] = assets[n]
      BY <1>2, <2>1
    <3>2. m \in 1 .. (i + 1) - 1 /\ grown[k] = p[k] /\ \A e \in 1 .. k - 1 : grown[e] = p[e]
      BY <1>1, <2>1
    <3> QED
      BY <3>1, <3>2
  <2>2. CASE k = Len(p) + 1
    <3>1. i \in 1 .. (i + 1) - 1 /\ grown[k] = assets[i]
      BY <1>1, <2>2
    <3>2. ASSUME NEW n \in 1 .. i - 1
          PROVE  manifest[assets[n]] # 0 \/ \E e \in 1 .. k - 1 : grown[e] = assets[n]
      <4>1. CASE assets[n] \in ToSet(p)
        BY <1>1, <2>2, <4>1 DEF ToSet
      <4> QED
        BY <1>2, <4>1
    <3> QED
      BY <3>1, <3>2
  <2> QED
    BY <1>1, <2>1, <2>2
<1>5. InLineAlone(grown, i + 1, assets, manifest)
  BY <1>3, <1>4 DEF InLineAlone
<1>6. InLine(<<grown>>, i + 1, assets, manifest)
  BY <1>5, InLineOne
<1> QED
  BY <1>6 DEF grown

(* The next file gets its entry.                                           *)
LEMMA InLineEnters ==
    ASSUME NEW q, NEW i \in Nat \ {0}, NEW assets, NEW old, NEW new,
           InLine(q, i, assets, old), new[assets[i]] # 0,
           \A m \in 1 .. i - 1 : old[assets[m]] # 0 => new[assets[m]] # 0
    PROVE  InLine(q, i + 1, assets, new)
<1>1. ASSUME NEW m \in 1 .. (i + 1) - 1
      PROVE  new[assets[m]] # 0 \/ \E b \in DOMAIN q : assets[m] \in ToSet(q[b])
  <2>1. m = i \/ m \in 1 .. i - 1
    OBVIOUS
  <2> QED
    BY <2>1 DEF InLine
<1>2. ASSUME NEW b \in DOMAIN q, NEW k \in DOMAIN q[b]
      PROVE  \E m \in 1 .. (i + 1) - 1 :
                 /\ assets[m] = q[b][k]
                 /\ \A n \in 1 .. m - 1 : new[assets[n]] # 0 \/ Earlier(q, b, k, assets[n])
  <2>1. PICK m \in 1 .. i - 1 :
                 /\ assets[m] = q[b][k]
                 /\ \A n \in 1 .. m - 1 : old[assets[n]] # 0 \/ Earlier(q, b, k, assets[n])
    BY DEF InLine
  <2>2. m \in 1 .. (i + 1) - 1 /\ \A n \in 1 .. m - 1 : n \in 1 .. i - 1
    OBVIOUS
  <2> QED
    BY <2>1, <2>2
<1> QED
  BY <1>1, <1>2 DEF InLine

(* The first batch is done.                                                *)
LEMMA InLineLeaves ==
    ASSUME NEW q \in Seq(Seq(Files)), q # <<>>, NEW i \in Nat \ {0}, NEW assets,
           NEW old, NEW new, InLine(q, i, assets, old),
           \A f \in ToSet(Head(q)) : new[f] # 0,
           \A m \in 1 .. i - 1 : old[assets[m]] # 0 => new[assets[m]] # 0
    PROVE  InLine(Tail(q), i, assets, new)
<1> DEFINE t == Tail(q)
<1>1. /\ DOMAIN q = 1 .. Len(q) /\ Len(q) \in Nat \ {0} /\ Head(q) = q[1]
      /\ DOMAIN t = 1 .. Len(q) - 1 /\ \A b \in 1 .. Len(q) - 1 : t[b] = q[b + 1]
  OBVIOUS
<1> HIDE DEF t
<1>2. ASSUME NEW m \in 1 .. i - 1
      PROVE  new[assets[m]] # 0 \/ \E b \in DOMAIN t : assets[m] \in ToSet(t[b])
  <2>1. CASE old[assets[m]] # 0
    BY <2>1
  <2>2. CASE \E b \in DOMAIN q : assets[m] \in ToSet(q[b])
    <3>1. PICK b \in DOMAIN q : assets[m] \in ToSet(q[b])
      BY <2>2
    <3>2. CASE b = 1
      BY <1>1, <3>1, <3>2
    <3>3. CASE b # 1
      <4>1. b - 1 \in DOMAIN t /\ (b - 1) + 1 = b
        BY <1>1, <3>3
      <4>2. t[b - 1] = q[b]
        BY <1>1, <4>1
      <4> QED
        BY <3>1, <4>1, <4>2
    <3> QED
      BY <3>2, <3>3
  <2> QED
    BY <2>1, <2>2 DEF InLine
<1>3. ASSUME NEW b \in DOMAIN t, NEW k \in DOMAIN t[b]
      PROVE  \E m \in 1 .. i - 1 :
                 /\ assets[m] = t[b][k]
                 /\ \A n \in 1 .. m - 1 : new[assets[n]] # 0 \/ Earlier(t, b, k, assets[n])
  <2>1. b + 1 \in DOMAIN q /\ t[b] = q[b + 1] /\ b \in Nat
    BY <1>1
  <2>2. PICK m \in 1 .. i - 1 :
                 /\ assets[m] = q[b + 1][k]
                 /\ \A n \in 1 .. m - 1 : old[assets[n]] # 0 \/ Earlier(q, b + 1, k, assets[n])
    BY <2>1 DEF InLine
  <2>3. ASSUME NEW n \in 1 .. m - 1
        PROVE  new[assets[n]] # 0 \/ Earlier(t, b, k, assets[n])
    <3>1. CASE old[assets[n]] # 0
      <4>1. n \in 1 .. i - 1
        OBVIOUS
      <4> QED
        BY <3>1, <4>1
    <3>2. CASE \E c \in 1 .. (b + 1) - 1 : assets[n] \in ToSet(q[c])
      <4>1. PICK c \in 1 .. (b + 1) - 1 : assets[n] \in ToSet(q[c])
        BY <3>2
      <4>2. CASE c = 1
        BY <1>1, <4>1, <4>2
      <4>3. CASE c # 1
        <5>1. c - 1 \in 1 .. b - 1 /\ c - 1 \in 1 .. Len(q) - 1 /\ (c - 1) + 1 = c
          BY <1>1, <2>1, <4>3
        <5>2. t[c - 1] = q[c]
          BY <1>1, <5>1
        <5> QED
          BY <4>1, <5>1, <5>2 DEF Earlier
      <4> QED
        BY <4>2, <4>3
    <3>3. CASE \E e \in 1 .. k - 1 : q[b + 1][e] = assets[n]
      BY <2>1, <3>3 DEF Earlier
    <3> QED
      BY <2>2, <3>1, <3>2, <3>3 DEF Earlier
  <2> QED
    BY <2>1, <2>2, <2>3
<1>4. InLine(t, i, assets, new)
  BY <1>2, <1>3 DEF InLine
<1> QED
  BY <1>4 DEF t

(* A batch cut in two: half is the length of the first part.               *)
Cut(q, h, half) ==
    /\ half \in Nat /\ half <= Len(q[1])
    /\ DOMAIN h = 1 .. Len(q) + 1
    /\ DOMAIN h[1] = 1 .. half /\ \A k \in 1 .. half : h[1][k] = q[1][k]
    /\ DOMAIN h[2] = 1 .. Len(q[1]) - half
    /\ \A k \in 1 .. Len(q[1]) - half : h[2][k] = q[1][half + k]
    /\ \A b \in 2 .. Len(q) : h[b + 1] = q[b]

LEMMA HalvedIsCut ==
    ASSUME NEW q \in Seq(Seq(Files)), q # <<>>
    PROVE  \E half : Cut(q, Halved(q), half)
<1> DEFINE batch == Head(q)
           half == (Len(batch) + 1) \div 2
           one == SubSeq(batch, 1, half)
           two == SubSeq(batch, half + 1, Len(batch))
           h == Halved(q)
<1>1. /\ batch \in Seq(Files) /\ Tail(q) \in Seq(Seq(Files)) /\ batch = q[1]
      /\ Len(q) \in Nat \ {0} /\ Len(Tail(q)) = Len(q) - 1
      /\ \A b \in 1 .. Len(q) - 1 : Tail(q)[b] = q[b + 1]
  OBVIOUS
<1>2. h = <<one, two>> \o Tail(q)
  BY DEF Halved
<1> HIDE DEF batch
<1>3. half \in Nat /\ half <= Len(batch) /\ Len(batch) \in Nat
  <2>1. Len(batch) \in Nat
    BY <1>1
  <2>2. \A n \in Nat : n # 0 => (n + 1) \div 2 <= n /\ (n + 1) \div 2 \in Nat
    OBVIOUS
  <2>3. (0 + 1) \div 2 = 0
    OBVIOUS
  <2> QED
    BY <2>1, <2>2, <2>3
<1> HIDE DEF half
<1>4. /\ one \in Seq(Files) /\ Len(one) = half /\ \A k \in 1 .. half : one[k] = batch[k]
  <2>1. \A i \in 1 .. half : batch[i] \in Files
    BY <1>1, <1>3
  <2>2. one = [k \in 1 .. half |-> batch[k]]
    BY <1>3
  <2> QED
    BY <1>3, <2>1, <2>2
<1>5. /\ two \in Seq(Files) /\ Len(two) = Len(batch) - half
      /\ \A k \in 1 .. Len(batch) - half : two[k] = batch[half + k]
  <2>1. \A i \in half + 1 .. Len(batch) : batch[i] \in Files
    BY <1>1, <1>3
  <2>2. two = [k \in 1 .. Len(batch) - half |-> batch[half + k]]
    BY <1>3
  <2>3. \A k \in 1 .. Len(batch) - half : half + k \in half + 1 .. Len(batch)
    BY <1>3
  <2> QED
    BY <1>3, <2>1, <2>2, <2>3
<1> HIDE DEF one, two
<1>6. /\ <<one, two>> \in Seq(Seq(Files)) /\ Len(<<one, two>>) = 2
      /\ <<one, two>>[1] = one /\ <<one, two>>[2] = two
  BY <1>4, <1>5
<1> DEFINE halves == <<one, two>>
<1>7. /\ halves \in Seq(Seq(Files)) /\ Len(halves) = 2 /\ halves[1] = one /\ halves[2] = two
      /\ h = halves \o Tail(q)
  BY <1>2, <1>6
<1> HIDE DEF halves, h
<1>8. /\ h \in Seq(Seq(Files)) /\ Len(h) = 2 + (Len(q) - 1)
      /\ \A b \in 1 .. 2 + (Len(q) - 1) :
            h[b] = IF b <= 2 THEN halves[b] ELSE Tail(q)[b - 2]
  <2>1. \A x, y \in Seq(Seq(Files)) :
            /\ x \o y \in Seq(Seq(Files)) /\ Len(x \o y) = Len(x) + Len(y)
            /\ \A b \in 1 .. Len(x) + Len(y) :
                  (x \o y)[b] = IF b <= Len(x) THEN x[b] ELSE y[b - Len(x)]
    BY ConcatProperties
  <2> DEFINE rest == Tail(q)
  <2>2. /\ rest \in Seq(Seq(Files)) /\ Len(rest) = Len(q) - 1 /\ Len(q) \in Nat
        /\ h = halves \o rest
    BY <1>1, <1>7
  <2> HIDE DEF rest
  <2>3. /\ h \in Seq(Seq(Files)) /\ Len(h) = Len(halves) + Len(rest)
        /\ \A b \in 1 .. Len(halves) + Len(rest) :
              h[b] = IF b <= Len(halves) THEN halves[b] ELSE rest[b - Len(halves)]
    <3>1. halves \in Seq(Seq(Files)) /\ rest \in Seq(Seq(Files)) /\ h = halves \o rest
      BY <1>7, <2>2
    <3>2. \A x, y \in Seq(Seq(Files)) : h = x \o y =>
              /\ h \in Seq(Seq(Files)) /\ Len(h) = Len(x) + Len(y)
              /\ \A b \in 1 .. Len(x) + Len(y) :
                    h[b] = IF b <= Len(x) THEN x[b] ELSE y[b - Len(x)]
      BY <2>1
    <3> QED
      BY <3>1, <3>2
  <2>4. Len(halves) = 2 /\ Len(halves) + Len(rest) = 2 + (Len(q) - 1)
    BY <1>7, <2>2
  <2> QED
    BY <2>3, <2>4 DEF rest
<1>9. h[1] = one /\ h[2] = two /\ DOMAIN h = 1 .. Len(q) + 1
  BY <1>1, <1>7, <1>8
<1>10. ASSUME NEW b \in 2 .. Len(q) PROVE h[b + 1] = q[b]
  <2>1. b + 1 \in 1 .. 2 + (Len(q) - 1) /\ ~(b + 1 <= 2) /\ b - 1 \in 1 .. Len(q) - 1
        /\ (b + 1) - 2 = b - 1 /\ (b - 1) + 1 = b
    BY <1>1
  <2> QED
    BY <1>1, <1>8, <2>1
<1>11. Cut(q, h, half)
  BY <1>1, <1>3, <1>4, <1>5, <1>9, <1>10 DEF Cut
<1> QED
  BY <1>11 DEF h

LEMMA InLineCut ==
    ASSUME NEW q \in Seq(Seq(Files)), q # <<>>, NEW i, NEW assets, NEW manifest,
           InLine(q, i, assets, manifest), NEW h, NEW half, Cut(q, h, half)
    PROVE  InLine(h, i, assets, manifest)
<1>1. /\ DOMAIN q = 1 .. Len(q) /\ Len(q) \in Nat \ {0} /\ q[1] \in Seq(Files)
      /\ DOMAIN q[1] = 1 .. Len(q[1]) /\ Len(q[1]) \in Nat
  OBVIOUS
<1>2. /\ half \in Nat /\ half <= Len(q[1])
      /\ DOMAIN h = 1 .. Len(q) + 1
      /\ DOMAIN h[1] = 1 .. half /\ \A k \in 1 .. half : h[1][k] = q[1][k]
      /\ DOMAIN h[2] = 1 .. Len(q[1]) - half
      /\ \A k \in 1 .. Len(q[1]) - half : h[2][k] = q[1][half + k]
      /\ \A b \in 2 .. Len(q) : h[b + 1] = q[b]
  BY DEF Cut
<1>3. ASSUME NEW k \in 1 .. Len(q[1])
      PROVE  q[1][k] \in ToSet(h[1]) \/ q[1][k] \in ToSet(h[2])
  <2>1. CASE k <= half
    <3>1. k \in DOMAIN h[1] /\ h[1][k] = q[1][k]
      BY <1>2, <2>1
    <3> QED
      BY <3>1 DEF ToSet
  <2>2. CASE ~(k <= half)
    <3> DEFINE e == k - half
    <3>1. e \in 1 .. Len(q[1]) - half /\ half + e = k
      BY <1>1, <1>2, <2>2
    <3> HIDE DEF e
    <3>2. e \in DOMAIN h[2] /\ h[2][e] = q[1][k]
      BY <1>2, <3>1
    <3> QED
      BY <3>2 DEF ToSet
  <2> QED
    BY <2>1, <2>2
<1>4. ASSUME NEW b \in DOMAIN q, NEW f \in ToSet(q[b])
      PROVE  \E c \in DOMAIN h : c <= b + 1 /\ f \in ToSet(h[c])
  <2>1. CASE b = 1
    <3>1. PICK k \in 1 .. Len(q[1]) : q[1][k] = f
      BY <1>1, <2>1 DEF ToSet
    <3>2. f \in ToSet(h[1]) \/ f \in ToSet(h[2])
      BY <1>3, <3>1
    <3>3. 1 \in DOMAIN h /\ 2 \in DOMAIN h
      BY <1>1, <1>2
    <3> QED
      BY <2>1, <3>2, <3>3
  <2>2. CASE b # 1
    <3>1. b \in 2 .. Len(q) /\ b + 1 \in DOMAIN h /\ b + 1 <= b + 1
      BY <1>1, <1>2, <2>2
    <3>2. f \in ToSet(h[b + 1])
      BY <1>2, <3>1
    <3> QED
      BY <3>1, <3>2
  <2> QED
    BY <2>1, <2>2
<1>5. ASSUME NEW m \in 1 .. i - 1
      PROVE  manifest[assets[m]] # 0 \/ \E b \in DOMAIN h : assets[m] \in ToSet(h[b])
  BY <1>4 DEF InLine
<1>6. ASSUME NEW b \in DOMAIN h, NEW k \in DOMAIN h[b]
      PROVE  \E c \in DOMAIN q : \E e \in DOMAIN q[c] :
                 /\ q[c][e] = h[b][k]
                 /\ \A f : Earlier(q, c, e, f) => Earlier(h, b, k, f)
  <2>1. CASE b = 1
    <3>1. k \in 1 .. half /\ k \in 1 .. Len(q[1]) /\ h[1][k] = q[1][k]
      BY <1>1, <1>2, <2>1
    <3>2. ASSUME NEW f, Earlier(q, 1, k, f) PROVE Earlier(h, 1, k, f)
      <4>1. PICK m \in 1 .. k - 1 : q[1][m] = f
        BY <3>2 DEF Earlier
      <4>2. h[1][m] = f
        BY <1>2, <3>1, <4>1
      <4> QED
        BY <4>2 DEF Earlier
    <3>3. 1 \in DOMAIN q /\ k \in DOMAIN q[1]
      BY <1>1, <3>1
    <3> QED
      BY <2>1, <3>1, <3>2, <3>3
  <2>2. CASE b = 2
    <3> DEFINE e == half + k
    <3>1. k \in 1 .. Len(q[1]) - half /\ e \in 1 .. Len(q[1]) /\ h[2][k] = q[1][e]
      BY <1>1, <1>2, <2>2
    <3>2. ASSUME NEW f, Earlier(q, 1, e, f) PROVE Earlier(h, 2, k, f)
      <4>1. PICK m \in 1 .. e - 1 : q[1][m] = f
        BY <3>2 DEF Earlier
      <4>2. CASE m <= half
        <5>1. m \in DOMAIN h[1] /\ h[1][m] = f
          BY <1>2, <4>1, <4>2
        <5>2. f \in ToSet(h[1]) /\ 1 \in 1 .. 2 - 1
          BY <5>1 DEF ToSet
        <5> QED
          BY <5>2 DEF Earlier
      <4>3. CASE ~(m <= half)
        <5> DEFINE p == m - half
        <5>1. p \in 1 .. k - 1 /\ p \in 1 .. Len(q[1]) - half /\ half + p = m
          BY <1>1, <1>2, <3>1, <4>3
        <5> HIDE DEF p
        <5>2. h[2][p] = f
          BY <1>2, <4>1, <5>1
        <5> QED
          BY <5>1, <5>2 DEF Earlier
      <4> QED
        BY <4>2, <4>3
    <3>3. 1 \in DOMAIN q /\ e \in DOMAIN q[1]
      BY <1>1, <3>1
    <3> HIDE DEF e
    <3> QED
      BY <2>2, <3>1, <3>2, <3>3
  <2>3. CASE b > 2
    <3> DEFINE c == b - 1
    <3>1. c \in 2 .. Len(q) /\ c + 1 = b
      BY <1>1, <1>2, <2>3
    <3> HIDE DEF c
    <3>2. c \in DOMAIN q /\ h[b] = q[c] /\ k \in DOMAIN q[c]
      BY <1>1, <1>2, <3>1
    <3>3. ASSUME NEW f, Earlier(q, c, k, f) PROVE Earlier(h, b, k, f)
      <4>1. CASE \E d \in 1 .. c - 1 : f \in ToSet(q[d])
        <5>1. PICK d \in 1 .. c - 1 : f \in ToSet(q[d])
          BY <4>1
        <5>2. d \in DOMAIN q
          BY <1>1, <3>1
        <5>3. PICK a \in DOMAIN h : a <= d + 1 /\ f \in ToSet(h[a])
          BY <1>4, <5>1, <5>2
        <5>4. a \in 1 .. b - 1
          BY <1>1, <1>2, <3>1, <5>3
        <5> QED
          BY <5>3, <5>4 DEF Earlier
      <4>2. CASE \E m \in 1 .. k - 1 : q[c][m] = f
        BY <3>2, <4>2 DEF Earlier
      <4> QED
        BY <3>3, <4>1, <4>2 DEF Earlier
    <3> QED
      BY <3>2, <3>3
  <2> QED
    BY <1>1, <1>2, <2>1, <2>2, <2>3
<1>7. ASSUME NEW b \in DOMAIN h, NEW k \in DOMAIN h[b]
      PROVE  \E m \in 1 .. i - 1 :
                 /\ assets[m] = h[b][k]
                 /\ \A n \in 1 .. m - 1 : manifest[assets[n]] # 0 \/ Earlier(h, b, k, assets[n])
  <2>1. PICK c \in DOMAIN q : \E e \in DOMAIN q[c] :
                 /\ q[c][e] = h[b][k]
                 /\ \A f : Earlier(q, c, e, f) => Earlier(h, b, k, f)
    BY <1>6
  <2>2. PICK e \in DOMAIN q[c] :
                 /\ q[c][e] = h[b][k]
                 /\ \A f : Earlier(q, c, e, f) => Earlier(h, b, k, f)
    BY <2>1
  <2>3. PICK m \in 1 .. i - 1 :
                 /\ assets[m] = q[c][e]
                 /\ \A n \in 1 .. m - 1 : manifest[assets[n]] # 0 \/ Earlier(q, c, e, assets[n])
    BY DEF InLine
  <2> QED
    BY <2>2, <2>3
<1> QED
  BY <1>5, <1>7 DEF InLine

LEMMA InLineHalved ==
    ASSUME NEW q \in Seq(Seq(Files)), q # <<>>, NEW i, NEW assets, NEW manifest,
           InLine(q, i, assets, manifest)
    PROVE  InLine(Halved(q), i, assets, manifest)
  BY HalvedIsCut, InLineCut

-----------------------------------------------------------------------------
(* The invariant of a release in which no file was edited.                 *)
ChainInOrder(c, o) == \A s \in DOMAIN c.storages : InOrder(c.storages[s], o)

TxInOrder(tx, c, o) ==
    tx.to = "storage" =>
        /\ tx.op = "storeSvgBatch" =>
              \A k \in 1 .. Len(tx.svgs) : Follows(c.storages[tx.at], tx.svgs, k, o)
        /\ tx.op = "initializeChunkedSvg" => Follows(c.storages[tx.at], <<tx.hash>>, 1, o)
PoolInOrder(pool, c, o) == \A k \in DOMAIN pool : TxInOrder(pool[k], c, o)

(* An entry names a readable record of the storage with that content.      *)
Names(c, s, id, content) ==
    id # 0 => /\ s \in DOMAIN c.storages /\ Readable(c.storages[s], id)
              /\ c.storages[s].records[id].contentHash = content
AllName(c, s, files, a) == \A f \in Files : Names(c, s, files[f], a.bytes[f])

DiskNames(d, c, a) ==
    /\ AllName(c, d.state.storage, d.state.files, a)
    /\ AllName(c, d.manifest.storage, d.manifest.files, a)
    /\ d.manifest.storage # 0 => \A f \in ToSet(a.catalog.assets) : d.manifest.files[f] # 0

Working(j) == j.pc \notin {"idle", "storage"}
JobNames(j, c, a) ==
    Working(j) => AllName(c, j.storage, j.state, a) /\ AllName(c, j.storage, j.manifest, a)

QueueOK(j, a) ==
    Working(j) =>
        /\ j.i <= Len(a.catalog.assets) + 1
        /\ InLine(Queue(j), j.i, a.catalog.assets, j.manifest)
        /\ j.pc = "scan" => j.batches = <<>>
        /\ j.pc # "scan" => j.pending = <<>>
        /\ j.pc \notin {"scan", "flush", "batch"} => j.batches = <<>>
        /\ \/ j.pc \in {"flush", "batch"} /\ j.then = "finish"
           \/ j.pc \in {"finish", "registry", "register", "nft"}
           => j.i > Len(a.catalog.assets)

(* The ids a script works with are those of the contents it stores.        *)
Predictions(j, c, pool, r, a, o) ==
    /\ j.pc = "batch" =>
          \A k \in DOMAIN j.ids :
              j.ids[k] \in DOMAIN o /\ o[j.ids[k]] = a.bytes[Head(j.batches)[k]]
    /\ j.pc = "init" => j.ids \in DOMAIN o /\ o[j.ids] = a.bytes[a.catalog.assets[j.i]]
    /\ j.pc \in {"chunks", "append", "complete", "finalize"} =>
          c.storages[j.storage].records[j.ids].contentHash = a.bytes[a.catalog.assets[j.i]]
    /\ j.pc = "finalize" =>
          /\ r = "success" => c.storages[j.storage].records[j.ids].finalized
          /\ pool # <<>> => Last(pool) = [to |-> "storage", op |-> "finalizeChunkedSvg",
                                         at |-> j.storage, id |-> j.ids]

RightOrder ==
    /\ ChainInOrder(chain, Order(art)) /\ PoolInOrder(mempool, chain, Order(art))
    /\ DiskNames(disk, chain, art) /\ JobNames(job, chain, art) /\ QueueOK(job, art)
    /\ Predictions(job, chain, mempool, receipt, art, Order(art))
OrderInv == ~art.edited => RightOrder

LEMMA OrderOfArt ==
    ASSUME ReleaseInv
    PROVE  Ordered(Order(art)) /\ art.bytes \in [Files -> Contents]
  BY OrderFacts DEF ReleaseInv, ArtOK

LEMMA NamesLater ==
    ASSUME NEW c, NEW d, ChainOK(c), ChainOK(d), Later(c, d), NEW s, NEW id, NEW content,
           Names(c, s, id, content)
    PROVE  Names(d, s, id, content)
<1> SUFFICES ASSUME id # 0
             PROVE  /\ s \in DOMAIN d.storages /\ Readable(d.storages[s], id)
                    /\ d.storages[s].records[id].contentHash = content
  BY DEF Names
<1>1. /\ s \in DOMAIN c.storages /\ Readable(c.storages[s], id)
      /\ c.storages[s].records[id].contentHash = content
  BY DEF Names
<1>2. /\ s \in DOMAIN d.storages /\ Readable(d.storages[s], id)
      /\ Grows(c.storages[s], d.storages[s])
  BY <1>1, StoreLater
<1> QED
  BY <1>1, <1>2 DEF Grows, Readable, Known

LEMMA TxInOrderLater ==
    ASSUME NEW c, NEW d, ChainOK(c), ChainOK(d), Later(c, d), NEW o, Ordered(o),
           NEW tx, TxOK(tx, c), TxInOrder(tx, c, o)
    PROVE  TxInOrder(tx, d, o)
<1> SUFFICES ASSUME tx.to = "storage"
             PROVE  /\ tx.op = "storeSvgBatch" =>
                          \A k \in 1 .. Len(tx.svgs) : Follows(d.storages[tx.at], tx.svgs, k, o)
                    /\ tx.op = "initializeChunkedSvg" =>
                          Follows(d.storages[tx.at], <<tx.hash>>, 1, o)
  BY DEF TxInOrder
<1>1. Grows(c.storages[tx.at], d.storages[tx.at])
  BY StoreLater DEF TxOK
<1> QED
  BY <1>1, OrderLater DEF TxInOrder

(* What executing a transaction in order makes of its storage.             *)
LEMMA InitializeInOrder ==
    ASSUME NEW store, StoreOK(store), NEW o, Ordered(o), InOrder(store, o), NEW size \in Nat,
           NEW hash \in Contents, NEW expected \in Nat, Follows(store, <<hash>>, 1, o)
    PROVE  InOrder(InitializeChunkedSvg(store, size, hash, expected).store, o)
<1> DEFINE record == RecordOf(size, expected, hash, <<>>, FALSE)
           after == InitializeChunkedSvg(store, size, hash, expected).store
<1>1. CASE size # 0 /\ expected # 0 /\ ExistingId(store, hash) = 0
  <2>1. after = CreateRecord(store, record)
    BY <1>1 DEF InitializeChunkedSvg, Done
  <2>2. record.contentHash = hash
    BY DEF RecordOf
  <2>3. IsSeq(store.records)
    BY StoreFacts, SeqIsSeq DEF StoreOK
  <2> HIDE DEF record, after
  <2>4. after.records = Append(store.records, record)
    BY <2>1 DEF CreateRecord
  <2>5. /\ IsSeq(after.records) /\ Len(after.records) = Len(store.records) + 1
        /\ \A i \in DOMAIN store.records : after.records[i] = store.records[i]
        /\ after.records[Len(store.records) + 1] = record
    BY <2>3, <2>4, AppendIsSeq
  <2>6. /\ DOMAIN after.records = 1 .. Len(store.records) + 1 /\ Len(store.records) \in Nat
        /\ DOMAIN store.records = 1 .. Len(store.records)
    BY <2>3, <2>5, IsSeqProperties
  <2>7. Len(store.records) + 1 \in DOMAIN o /\ o[Len(store.records) + 1] = hash
    BY <1>1, NextInOrder
  <2>8. ASSUME NEW r \in DOMAIN after.records
        PROVE  r \in DOMAIN o /\ after.records[r].contentHash = o[r]
    <3>1. r \in DOMAIN store.records \/ r = Len(store.records) + 1
      BY <2>6
    <3> QED
      BY <2>2, <2>5, <2>7, <3>1 DEF InOrder
  <2>9. InOrder(after, o)
    BY <2>8 DEF InOrder
  <2> QED
    BY <2>9 DEF after
<1>2. CASE ~(size # 0 /\ expected # 0 /\ ExistingId(store, hash) = 0)
  <2>1. after = store
    BY <1>2 DEF InitializeChunkedSvg, Done, Reverted
  <2> QED
    BY <2>1
<1> QED
  BY <1>1, <1>2

LEMMA AtStorageInOrder ==
    ASSUME ChainOK(chain), NEW tx, TxOK(tx, chain), tx.to = "storage", NEW o, Ordered(o),
           ChainInOrder(chain, o), TxInOrder(tx, chain, o)
    PROVE  InOrder(AtStorage(tx).store, o)
<1> DEFINE store == chain.storages[tx.at]
<1>1. StoreOK(store) /\ StorageTxOK(tx) /\ InOrder(store, o)
  BY ChainFacts DEF TxOK, ChainInOrder
<1>2. CASE tx.op = "storeSvgBatch" /\ tx.svgs \in Seq(Contents)
  <2>1. AtStorage(tx) = StoreSvgBatch(store, tx.svgs)
    BY <1>2 DEF AtStorage
  <2>2. \A k \in 1 .. Len(tx.svgs) : Follows(store, tx.svgs, k, o)
    BY <1>2 DEF TxInOrder
  <2>3. ~StoreSvgBatch(store, tx.svgs).ok => StoreSvgBatch(store, tx.svgs).store = store
    BY DEF StoreSvgBatch, Done, Reverted
  <2> HIDE DEF store
  <2> QED
    BY <1>1, <1>2, <2>1, <2>2, <2>3, BatchInOrder
<1>3. CASE /\ tx.op = "initializeChunkedSvg"
           /\ tx.size \in Nat /\ tx.hash \in Contents /\ tx.expected \in Nat
  <2>1. AtStorage(tx) = InitializeChunkedSvg(store, tx.size, tx.hash, tx.expected)
    BY <1>3 DEF AtStorage
  <2>2. Follows(store, <<tx.hash>>, 1, o)
    BY <1>3 DEF TxInOrder
  <2> HIDE DEF store
  <2> QED
    BY <1>1, <1>3, <2>1, <2>2, InitializeInOrder
<1>4. CASE \/ tx.op = "appendChunks" /\ tx.chunks \in Seq(Seq(Symbols))
           \/ tx.op = "finalizeChunkedSvg"
  <2>1. \/ AtStorage(tx) = AppendChunks(store, tx.id, tx.chunks)
        \/ AtStorage(tx) = FinalizeChunkedSvg(store, tx.id)
    BY <1>4 DEF AtStorage
  <2>2. store \in Stores
    BY <1>1 DEF StoreOK
  <2> HIDE DEF store
  <2>3. DOMAIN AtStorage(tx).store.records = DOMAIN store.records
    <3>1. DOMAIN AppendChunks(store, tx.id, tx.chunks).store.records = DOMAIN store.records
      BY <2>2 DEF AppendChunks, Done, Reverted, Stores
    <3>2. DOMAIN FinalizeChunkedSvg(store, tx.id).store.records = DOMAIN store.records
      BY <2>2 DEF FinalizeChunkedSvg, Done, Reverted, Stores
    <3> QED
      BY <2>1, <3>1, <3>2
  <2>4. Grows(store, AtStorage(tx).store)
    BY StorageTxKeeps DEF store
  <2> QED
    BY <1>1, <2>3, <2>4, SameRecordsInOrder
<1> QED
  BY <1>1, <1>2, <1>3, <1>4 DEF StorageTxOK

LEMMA StoragesAfter ==
    ASSUME ChainOK(chain), NEW tx, TxOK(tx, chain), NEW s \in DOMAIN Execute(tx).chain.storages
    PROVE  \/ /\ s \in DOMAIN chain.storages
              /\ Execute(tx).chain.storages[s] = chain.storages[s]
           \/ Execute(tx).chain.storages[s] = EmptyStore
           \/ tx.to = "storage" /\ Execute(tx).chain.storages[s] = AtStorage(tx).store
<1> DEFINE after == Execute(tx).chain
<1>1. CASE tx.to = "storage"
  BY <1>1, TxKeeps
<1>2. /\ chain.storages \in Seq(Stores) /\ DOMAIN chain = {"storages", "registries", "nfts"}
      /\ Len(chain.storages) \in Nat /\ DOMAIN chain.storages = 1 .. Len(chain.storages)
  BY ChainFacts DEF ChainOK
<1>3. CASE tx.to = "create" /\ tx.op = "PhilSVGStorage"
  <2>1. after = [chain EXCEPT !.storages = Append(@, EmptyStore)]
    BY <1>3 DEF Execute
  <2>2. after.storages = Append(chain.storages, EmptyStore)
    BY <1>2, <2>1
  <2>3. EmptyStore \in Stores
    BY EmptyStoreOK DEF StoreOK
  <2>4. /\ Len(Append(chain.storages, EmptyStore)) = Len(chain.storages) + 1
        /\ DOMAIN Append(chain.storages, EmptyStore) = 1 .. Len(chain.storages) + 1
        /\ \A i \in 1 .. Len(chain.storages) :
              Append(chain.storages, EmptyStore)[i] = chain.storages[i]
        /\ Append(chain.storages, EmptyStore)[Len(chain.storages) + 1] = EmptyStore
    BY <1>2, <2>3, AppendProperties
  <2>5. s \in 1 .. Len(chain.storages) \/ s = Len(chain.storages) + 1
    BY <1>2, <2>2, <2>4
  <2> QED
    BY <1>2, <2>2, <2>4, <2>5
<1>4. CASE ~(tx.to = "storage" \/ (tx.to = "create" /\ tx.op = "PhilSVGStorage"))
  <2>1. after.storages = chain.storages
    BY <1>2, <1>4 DEF Execute, TxOK
  <2> QED
    BY <2>1
<1> QED
  BY <1>1, <1>3, <1>4

LEMMA ExecuteInOrder ==
    ASSUME ChainOK(chain), NEW tx, TxOK(tx, chain), NEW o, Ordered(o),
           ChainInOrder(chain, o), TxInOrder(tx, chain, o)
    PROVE  ChainInOrder(Execute(tx).chain, o)
<1> DEFINE after == Execute(tx).chain
<1>1. InOrder(EmptyStore, o)
  BY DEF InOrder, EmptyStore
<1>2. ASSUME NEW s \in DOMAIN after.storages PROVE InOrder(after.storages[s], o)
  <2>1. \/ s \in DOMAIN chain.storages /\ after.storages[s] = chain.storages[s]
        \/ after.storages[s] = EmptyStore
        \/ tx.to = "storage" /\ after.storages[s] = AtStorage(tx).store
    BY StoragesAfter
  <2> QED
    BY <1>1, <2>1, AtStorageInOrder DEF ChainInOrder
<1> QED
  BY <1>2 DEF ChainInOrder

(* Mining keeps the order, and a finalization that succeeds finalizes.     *)
LEMMA FinalizeFinalizes ==
    ASSUME ChainOK(chain), NEW tx, TxOK(tx, chain), tx.to = "storage",
           tx.op = "finalizeChunkedSvg", Execute(tx).ok
    PROVE  Execute(tx).chain.storages[tx.at].records[tx.id].finalized
<1> DEFINE store == chain.storages[tx.at]
           after == AtStorage(tx).store
<1>1. /\ Execute(tx).chain.storages[tx.at] = after /\ AtStorage(tx).ok
  BY TxKeeps
<1>2. AtStorage(tx) = FinalizeChunkedSvg(store, tx.id)
  BY DEF AtStorage
<1>3. store \in Stores
  BY ChainFacts DEF TxOK
<1> HIDE DEF store, after
<1>4. AtStorage(tx).store.records[tx.id].finalized
  <2>1. Known(store, tx.id) /\ FinalizeChunkedSvg(store, tx.id).store
                                  = [store EXCEPT !.records[tx.id].finalized = TRUE]
    BY <1>1, <1>2 DEF FinalizeChunkedSvg, Done, Reverted
  <2>2. store.records[tx.id] \in Records /\ tx.id \in DOMAIN store.records
    BY <1>3, <2>1, StoreFacts DEF Known
  <2>3. [store EXCEPT !.records[tx.id].finalized = TRUE].records[tx.id].finalized = TRUE
    BY <1>3, <2>2 DEF Stores, Records
  <2> QED
    BY <1>2, <2>1, <2>3
<1> QED
  BY <1>1, <1>4 DEF after

LEMMA MinedPredictions ==
    ASSUME ReleaseInv, Predictions(job, chain, mempool, receipt, art, Order(art)),
           mempool # <<>>, NEW ok \in BOOLEAN, NEW new, ChainOK(new), Later(chain, new),
           LET tx == Head(mempool)
           IN ok /\ tx.to = "storage" /\ tx.op = "finalizeChunkedSvg" =>
                 new.storages[tx.at].records[tx.id].finalized,
           NEW r, job.pc = "finalize" /\ r = "success" => Tail(mempool) = <<>> /\ ok
    PROVE  Predictions(job, new, Tail(mempool), r, art, Order(art))
<1>1. IsSeq(mempool) /\ ChainOK(chain)
  BY DEF ReleaseInv, MempoolOK
<1>2. ASSUME job.pc \in {"chunks", "append", "complete", "finalize"}
      PROVE  /\ job.storage \in DOMAIN chain.storages
             /\ new.storages[job.storage].records[job.ids].contentHash
                   = chain.storages[job.storage].records[job.ids].contentHash
  <2>1. Known(chain.storages[job.storage], job.ids) /\ job.storage \in DOMAIN chain.storages
    BY <1>2, OnRecord, UploadFacts DEF Store, Uploading
  <2>2. Grows(chain.storages[job.storage], new.storages[job.storage])
    BY <2>1 DEF Later
  <2> QED
    BY <2>1, <2>2 DEF Grows, Known
<1>3. ASSUME job.pc = "finalize"
      PROVE  LET tx == [to |-> "storage", op |-> "finalizeChunkedSvg",
                        at |-> job.storage, id |-> job.ids]
             IN /\ r = "success" => new.storages[job.storage].records[job.ids].finalized
                /\ Tail(mempool) # <<>> => Last(Tail(mempool)) = tx
  <2> DEFINE tx == [to |-> "storage", op |-> "finalizeChunkedSvg",
                    at |-> job.storage, id |-> job.ids]
  <2>1. Last(mempool) = tx
    BY <1>3 DEF Predictions
  <2>2. /\ Tail(mempool) # <<>> => Last(Tail(mempool)) = tx
        /\ Tail(mempool) = <<>> => Head(mempool) = tx
    BY <1>1, <2>1, TailFacts
  <2>3. r = "success" => ok /\ Head(mempool) = tx
    BY <1>3, <2>2
  <2> QED
    BY <2>2, <2>3
<1> QED
  BY <1>2, <1>3 DEF Predictions

LEMMA MineWithRight ==
    ASSUME ReleaseInv, RightOrder, NEW ok \in BOOLEAN, NEW new, MineWith(ok, new),
           ChainOK(new), Later(chain, new), ChainInOrder(new, Order(art)),
           LET tx == Head(mempool)
           IN ok /\ tx.to = "storage" /\ tx.op = "finalizeChunkedSvg" =>
                 new.storages[tx.at].records[tx.id].finalized
    PROVE  RightOrder'
<1>1. /\ mempool # <<>> /\ chain' = new /\ mempool' = Tail(mempool)
      /\ receipt' = IF Waiting /\ Len(mempool) = 1
                    THEN (IF ok THEN "success" ELSE "reverted") ELSE receipt
      /\ art' = art /\ disk' = disk /\ job' = job
  BY DEF MineWith
<1>2. ChainOK(chain) /\ IsSeq(mempool) /\ Ordered(Order(art))
  BY OrderOfArt DEF ReleaseInv, MempoolOK
<1>3. ASSUME NEW k \in DOMAIN Tail(mempool) PROVE TxInOrder(Tail(mempool)[k], new, Order(art))
  <2>1. k + 1 \in DOMAIN mempool /\ Tail(mempool)[k] = mempool[k + 1]
    BY <1>1, <1>2, TailFacts
  <2>2. TxOK(mempool[k + 1], chain) /\ TxInOrder(mempool[k + 1], chain, Order(art))
    BY <2>1 DEF ReleaseInv, MempoolOK, RightOrder, PoolInOrder
  <2> QED
    BY <1>2, <2>1, <2>2, TxInOrderLater
<1>4. PoolInOrder(mempool', new, Order(art))
  BY <1>1, <1>3 DEF PoolInOrder
<1>5. DiskNames(disk', new, art) /\ JobNames(job', new, art)
  <2>1. \A s, id, content : Names(chain, s, id, content) => Names(new, s, id, content)
    BY <1>2, NamesLater
  <2>2. /\ AllName(new, disk.state.storage, disk.state.files, art)
        /\ AllName(new, disk.manifest.storage, disk.manifest.files, art)
    BY <2>1 DEF RightOrder, DiskNames, AllName
  <2>3. Working(job) => /\ AllName(new, job.storage, job.state, art)
                        /\ AllName(new, job.storage, job.manifest, art)
    BY <2>1 DEF RightOrder, JobNames, AllName
  <2> QED
    BY <1>1, <2>2, <2>3 DEF RightOrder, DiskNames, JobNames
<1>6. job.pc = "finalize" /\ receipt' = "success" => Tail(mempool) = <<>> /\ ok
  <2>1. job.pc = "finalize" => Waiting /\ receipt = "none"
    BY <1>1 DEF ReleaseInv, ReceiptFollows, Waiting
  <2> QED
    BY <1>1, <1>2, <2>1, TailFacts
<1>7. Predictions(job, new, Tail(mempool), receipt', art, Order(art))
  BY <1>1, <1>6, MinedPredictions DEF RightOrder
<1> QED
  BY <1>1, <1>4, <1>5, <1>7 DEF RightOrder

LEMMA MineRight == ASSUME ReleaseInv, RightOrder, Mine PROVE RightOrder'
<1> DEFINE tx == Head(mempool)
<1>1. mempool # <<>> /\ MineWith(Execute(tx).ok, Execute(tx).chain)
  BY DEF Mine
<1>2. ChainOK(chain) /\ TxOK(tx, chain) /\ Ordered(Order(art))
  BY <1>1, FirstPendingOK, OrderOfArt DEF ReleaseInv
<1>3. TxInOrder(tx, chain, Order(art))
  <2>1. 1 \in DOMAIN mempool /\ tx = mempool[1]
    BY <1>1, TailFacts DEF ReleaseInv, MempoolOK
  <2> QED
    BY <2>1 DEF RightOrder, PoolInOrder
<1>4. /\ Execute(tx).ok \in BOOLEAN /\ ChainOK(Execute(tx).chain)
      /\ Later(chain, Execute(tx).chain) /\ ChainInOrder(Execute(tx).chain, Order(art))
      /\ Execute(tx).ok /\ tx.to = "storage" /\ tx.op = "finalizeChunkedSvg" =>
            Execute(tx).chain.storages[tx.at].records[tx.id].finalized
  BY <1>2, <1>3, ExecuteAnswers, TxKeeps, ExecuteInOrder, FinalizeFinalizes DEF RightOrder
<1> QED
  BY <1>1, <1>4, MineWithRight

LEMMA MineOutOfGasRight == ASSUME ReleaseInv, RightOrder, MineOutOfGas PROVE RightOrder'
<1>1. MineWith(FALSE, chain)
  BY DEF MineOutOfGas
<1>2. ChainOK(chain) /\ Later(chain, chain) /\ ChainInOrder(chain, Order(art))
  BY LaterReflexive DEF ReleaseInv, RightOrder
<1> QED
  BY <1>1, <1>2, MineWithRight

LEMMA DropRight == ASSUME ReleaseInv, RightOrder, Drop PROVE RightOrder'
<1>1. /\ ~Waiting /\ mempool # <<>> /\ mempool' = Front(mempool)
      /\ art' = art /\ chain' = chain /\ receipt' = receipt /\ disk' = disk /\ job' = job
  BY DEF Drop
<1>2. PoolInOrder(mempool', chain, Order(art))
  BY <1>1, FrontFacts DEF ReleaseInv, MempoolOK, RightOrder, PoolInOrder
<1>3. job.pc # "finalize"
  BY <1>1 DEF Waiting
<1>4. Predictions(job, chain, mempool', receipt, art, Order(art))
  BY <1>3 DEF RightOrder, Predictions
<1> QED
  BY <1>1, <1>2, <1>4 DEF RightOrder

-----------------------------------------------------------------------------
(* What a step of the script leaves to be shown of it.                     *)
LEMMA GotoRight ==
    ASSUME RightOrder, chain' = chain, art' = art, mempool' = mempool, receipt' = "none",
           DiskNames(disk', chain, art), JobNames(job', chain, art), QueueOK(job', art),
           Predictions(job', chain, mempool, "none", art, Order(art))
    PROVE  RightOrder'
  BY DEF RightOrder

LEMMA SendRight ==
    ASSUME ReleaseInv, RightOrder, chain' = chain, art' = art, receipt' = "none", NEW tx,
           mempool' = Append(mempool, tx), TxInOrder(tx, chain, Order(art)),
           DiskNames(disk', chain, art), JobNames(job', chain, art), QueueOK(job', art),
           Predictions(job', chain, <<tx>>, "none", art, Order(art))
    PROVE  RightOrder'
<1>1. IsSeq(mempool)
  BY DEF ReleaseInv, MempoolOK
<1>2. /\ IsSeq(mempool') /\ Len(mempool') = Len(mempool) + 1 /\ Len(mempool) \in Nat
      /\ \A i \in DOMAIN mempool : mempool'[i] = mempool[i]
      /\ mempool'[Len(mempool) + 1] = tx
  BY <1>1, AppendIsSeq
<1>3. DOMAIN mempool' = 1 .. Len(mempool) + 1 /\ DOMAIN mempool = 1 .. Len(mempool)
  BY <1>1, <1>2, IsSeqProperties
<1>4. PoolInOrder(mempool', chain, Order(art))
  <2> SUFFICES ASSUME NEW k \in DOMAIN mempool' PROVE TxInOrder(mempool'[k], chain, Order(art))
    BY DEF PoolInOrder
  <2>1. k \in DOMAIN mempool \/ k = Len(mempool) + 1
    BY <1>2, <1>3
  <2> QED
    BY <1>2, <2>1 DEF RightOrder, PoolInOrder
<1>5. Last(mempool') = tx /\ Last(<<tx>>) = tx
  BY <1>2 DEF Last
<1>6. Predictions(job', chain, mempool', "none", art, Order(art))
  BY <1>5 DEF Predictions
<1> QED
  BY <1>4, <1>6 DEF RightOrder

LEMMA IdleRight ==
    ASSUME NEW j, j.pc \in {"idle", "storage"}, NEW c, NEW pool, NEW a, NEW o
    PROVE  JobNames(j, c, a) /\ QueueOK(j, a) /\ Predictions(j, c, pool, "none", a, o)
  BY DEF JobNames, QueueOK, Predictions, Working

LEMMA DiskStays == ASSUME RightOrder PROVE DiskNames(disk, chain, art)
  BY DEF RightOrder

(* A script that starts.                                                   *)
LEMMA BeginUploadRight ==
    ASSUME ReleaseInv, RightOrder, NEW kind, NEW storage \in 1 .. Len(chain.storages),
           NEW pool
    PROVE  LET j == BeginUpload(kind, storage)
           IN /\ JobNames(j, chain, art) /\ QueueOK(j, art)
              /\ Predictions(j, chain, pool, "none", art, Order(art))
<1> DEFINE j == BeginUpload(kind, storage)
<1>1. \A f \in Files : NoIds[f] = 0
  BY DEF NoIds
<1>2. AllName(chain, storage, NoIds, art) /\ AllName(chain, storage, StateOf(storage), art)
  BY <1>1 DEF AllName, Names, StateOf, RightOrder, DiskNames
<1> HIDE DEF NoIds
<1>3. /\ j.pc = "scan" /\ j.storage = storage /\ j.state = StateOf(storage)
      /\ j.manifest = NoIds /\ j.i = 1 /\ j.pending = <<>> /\ j.batches = <<>>
  BY DEF BeginUpload
<1> HIDE DEF j
<1>4. Len(art.catalog.assets) \in Nat
  BY ArtFacts DEF ReleaseInv, Catalog
<1>5. InLine(Queue(j), j.i, art.catalog.assets, j.manifest)
  <2>1. Queue(j) = << <<>> >> /\ \A m \in 1 .. 1 - 1 : FALSE
    BY <1>3 DEF Queue
  <2> QED
    BY <1>3, <2>1, InLineNone
<1>6. QueueOK(j, art)
  BY <1>3, <1>4, <1>5 DEF QueueOK
<1>7. JobNames(j, chain, art) /\ Predictions(j, chain, pool, "none", art, Order(art))
  BY <1>2, <1>3 DEF JobNames, Predictions
<1> QED
  BY <1>6, <1>7 DEF j

LEMMA StartDeployRight == ASSUME ReleaseInv, RightOrder, StartDeploy PROVE RightOrder'
<1>1. BuiltCatalog.ok /\ disk' = [disk EXCEPT !.catalog = BuiltCatalog]
  BY DEF StartDeploy
<1>2. disk'.state = disk.state /\ disk'.manifest = disk.manifest
  BY <1>1 DEF ReleaseInv, DiskOK
<1>3. DiskNames(disk', chain, art)
  BY <1>2 DEF RightOrder, DiskNames
<1>4. job.pc = "idle" /\ chain' = chain /\ art' = art
  BY DEF StartDeploy
<1>5. receipt = "none"
  BY <1>4 DEF ReleaseInv, ReceiptFollows, Waiting
<1>6. disk.addresses.storage \in 0 .. Len(chain.storages) /\ Len(chain.storages) \in Nat
  BY ChainFacts DEF ReleaseInv, DiskOK
<1>7. PICK requested \in 0 .. Len(chain.storages) :
          LET storage == IF requested # 0 THEN requested ELSE disk.addresses.storage
          IN IF storage # 0
             THEN job' = BeginUpload("deploy", storage) /\ UNCHANGED <<mempool, receipt>>
             ELSE /\ job' = [pc |-> "storage"]
                  /\ mempool' = Append(mempool, [to |-> "create", op |-> "PhilSVGStorage"])
                  /\ receipt' = "none"
  BY DEF StartDeploy
<1> DEFINE storage == IF requested # 0 THEN requested ELSE disk.addresses.storage
<1>8. CASE storage # 0
  <2>1. /\ storage \in 1 .. Len(chain.storages) /\ job' = BeginUpload("deploy", storage)
        /\ mempool' = mempool /\ receipt' = "none"
    BY <1>5, <1>6, <1>7, <1>8
  <2> HIDE DEF storage
  <2> QED
    BY <1>3, <1>4, <2>1, BeginUploadRight, GotoRight
<1>9. CASE storage = 0
  <2> DEFINE tx == [to |-> "create", op |-> "PhilSVGStorage"]
  <2>1. job' = [pc |-> "storage"] /\ mempool' = Append(mempool, tx) /\ receipt' = "none"
    BY <1>7, <1>9
  <2>2. TxInOrder(tx, chain, Order(art)) /\ job'.pc = "storage"
    BY <2>1 DEF TxInOrder
  <2> HIDE DEF tx
  <2>3. JobNames(job', chain, art) /\ QueueOK(job', art)
        /\ Predictions(job', chain, <<tx>>, "none", art, Order(art))
    BY <2>2, IdleRight
  <2> QED
    BY <1>3, <1>4, <2>1, <2>2, <2>3, SendRight
<1> QED
  BY <1>8, <1>9

LEMMA StartUploadRight == ASSUME ReleaseInv, RightOrder, StartUpload PROVE RightOrder'
<1>1. PICK catalog : disk' = [disk EXCEPT !.catalog = catalog]
  BY DEF StartUpload
<1>2. disk'.state = disk.state /\ disk'.manifest = disk.manifest
  BY <1>1 DEF ReleaseInv, DiskOK
<1>3. DiskNames(disk', chain, art)
  BY <1>2 DEF RightOrder, DiskNames
<1>4. /\ job.pc = "idle" /\ chain' = chain /\ art' = art /\ mempool' = mempool
      /\ receipt' = receipt
  BY DEF StartUpload
<1>5. receipt = "none"
  BY <1>4 DEF ReleaseInv, ReceiptFollows, Waiting
<1>6. PICK storage \in DOMAIN chain.storages : job' = BeginUpload("upload", storage)
  BY DEF StartUpload
<1>7. storage \in 1 .. Len(chain.storages)
  BY ChainFacts DEF ReleaseInv
<1> QED
  BY <1>3, <1>4, <1>5, <1>6, <1>7, BeginUploadRight, GotoRight

LEMMA StorageDeployedRight == ASSUME ReleaseInv, RightOrder, StorageDeployed PROVE RightOrder'
<1>1. /\ job.pc = "storage" /\ mempool = <<>>
      /\ Goto(BeginUpload("deploy", Len(chain.storages)))
  BY DEF StorageDeployed, Succeeded
<1>2. chain.storages # <<>>
  BY <1>1 DEF ReleaseInv, StorageAwaited
<1>3. Len(chain.storages) \in 1 .. Len(chain.storages)
  BY <1>2, ChainFacts DEF ReleaseInv, ChainOK
<1>4. /\ job' = BeginUpload("deploy", Len(chain.storages)) /\ receipt' = "none"
      /\ art' = art /\ chain' = chain /\ mempool' = mempool /\ disk' = disk
  BY <1>1 DEF Goto
<1> QED
  BY <1>3, <1>4, BeginUploadRight, DiskStays, GotoRight

-----------------------------------------------------------------------------
(* The steps of an upload.                                                 *)
LEMMA WorkingFacts ==
    ASSUME ReleaseInv, RightOrder, Uploading
    PROVE  /\ job \in Uploads(job, chain) /\ UploadOK(job, chain, disk.catalog)
           /\ disk.catalog.assets = art.catalog.assets
           /\ art.catalog.assets \in Seq(Files) /\ Len(art.catalog.assets) \in Nat
           /\ DOMAIN art.catalog.assets = 1 .. Len(art.catalog.assets)
           /\ art.bytes \in [Files -> Contents]
           /\ job.i \in Nat \ {0} /\ job.i <= Len(art.catalog.assets) + 1
           /\ InLine(Queue(job), job.i, art.catalog.assets, job.manifest)
           /\ AllName(chain, job.storage, job.state, art)
           /\ AllName(chain, job.storage, job.manifest, art)
           /\ job.storage \in DOMAIN chain.storages
           /\ StoreOK(Store) /\ Store = chain.storages[job.storage]
           /\ Ordered(Order(art)) /\ InOrder(Store, Order(art))
<1>1. Working(job)
  BY DEF Working, Uploading
<1>2. /\ job \in Uploads(job, chain) /\ UploadOK(job, chain, disk.catalog)
      /\ disk.catalog.assets = art.catalog.assets
      /\ art.bytes \in [Files -> Contents] /\ job.storage \in DOMAIN chain.storages
      /\ StoreOK(Store) /\ Catalog(disk.catalog, Files)
  BY UploadFacts
<1>3. art.catalog.assets \in Seq(Files)
  BY <1>2 DEF Catalog
<1>4. job.i \in Nat \ {0}
  BY <1>2 DEF Uploads
<1>5. /\ job.i <= Len(art.catalog.assets) + 1
      /\ InLine(Queue(job), job.i, art.catalog.assets, job.manifest)
      /\ AllName(chain, job.storage, job.state, art)
      /\ AllName(chain, job.storage, job.manifest, art)
  BY <1>1 DEF RightOrder, QueueOK, JobNames
<1>6. Ordered(Order(art)) /\ InOrder(Store, Order(art))
  BY <1>2, OrderOfArt DEF RightOrder, ChainInOrder, Store
<1> QED
  BY <1>2, <1>3, <1>4, <1>5, <1>6 DEF Store

(* The same place of the catalog, with nothing left to send.               *)
Late == {"finish", "registry", "register", "nft"}
SamePlace(j, k) ==
    /\ k.i = j.i /\ k.storage = j.storage /\ k.manifest = j.manifest /\ k.state = j.state
    /\ k.batches = j.batches /\ k.pending = j.pending

LEMMA MovesOn ==
    ASSUME RightOrder, NEW next, SamePlace(job, next),
           job.pc \in OnChunked \cup Late, next.pc \in OnChunked \cup Late,
           next.pc \in Late => job.pc \in Late
    PROVE  JobNames(next, chain, art) /\ QueueOK(next, art)
<1>1. Working(job) /\ Working(next)
  BY DEF Working, OnChunked, Late
<1>2. job.pc \notin {"scan", "flush", "batch"} /\ next.pc \notin {"scan", "flush", "batch"}
  BY DEF OnChunked, Late
<1>3. JobNames(next, chain, art)
  BY <1>1 DEF RightOrder, JobNames, SamePlace
<1>4. Queue(next) = Queue(job)
  BY <1>2 DEF Queue, SamePlace
<1>5. QueueOK(next, art)
  BY <1>1, <1>2, <1>4 DEF RightOrder, QueueOK, SamePlace, Late
<1> QED
  BY <1>3, <1>5

Merged(entries, old) == [f \in Files |-> IF f \in DOMAIN entries THEN entries[f] ELSE old[f]]

LEMMA EnterRight ==
    ASSUME ReleaseInv, RightOrder, Uploading, NEW entries, NEW next, Enter(entries, next),
           next \in Uploads(next, chain), next.storage = job.storage,
           next.pc \in {"scan", "flush"}, next.i <= Len(art.catalog.assets) + 1,
           \A f \in Files \cap DOMAIN entries :
               Names(chain, job.storage, entries[f], art.bytes[f]),
           InLine(Queue(next), next.i, art.catalog.assets, Merged(entries, job.manifest)),
           next.pc = "scan" => next.batches = <<>>,
           next.pc = "flush" => next.pending = <<>>,
           next.pc = "flush" /\ next.then = "finish" => next.i > Len(art.catalog.assets)
    PROVE  RightOrder'
<1> DEFINE state == Merged(entries, job.state)
           manifest == Merged(entries, job.manifest)
<1>1. /\ job' = [next EXCEPT !.state = state, !.manifest = manifest]
      /\ disk' = [disk EXCEPT !.state = [storage |-> job.storage, files |-> state]]
      /\ receipt' = "none" /\ art' = art /\ chain' = chain /\ mempool' = mempool
  BY DEF Enter, Merged
<1>2. AllName(chain, job.storage, state, art) /\ AllName(chain, job.storage, manifest, art)
  BY WorkingFacts DEF AllName, Merged
<1> HIDE DEF state, manifest
<1>3. /\ job'.pc = next.pc /\ job'.storage = next.storage /\ job'.i = next.i
      /\ job'.then = next.then /\ job'.batches = next.batches /\ job'.pending = next.pending
      /\ job'.state = state /\ job'.manifest = manifest
  BY <1>1 DEF Uploads
<1>4. DiskNames(disk', chain, art)
  <2>1. /\ disk'.state = [storage |-> job.storage, files |-> state]
        /\ disk'.manifest = disk.manifest
    BY <1>1 DEF ReleaseInv, DiskOK
  <2> QED
    BY <1>2, <2>1 DEF RightOrder, DiskNames
<1>5. JobNames(job', chain, art)
  BY <1>2, <1>3 DEF JobNames
<1>6. Queue(job') = Queue(next)
  BY <1>3 DEF Queue
<1>7. QueueOK(job', art)
  BY <1>3, <1>6 DEF QueueOK, manifest
<1>8. Predictions(job', chain, mempool, "none", art, Order(art))
  BY <1>3 DEF Predictions
<1> QED
  BY <1>1, <1>4, <1>5, <1>7, <1>8, GotoRight

LEMMA AlreadyStoredRight == ASSUME ReleaseInv, RightOrder, AlreadyStored PROVE RightOrder'
<1> DEFINE next == [job EXCEPT !.i = @ + 1]
           entries == [f \in {FileAt} |-> StoredAs(f)]
<1>1. Scanning /\ Enter(entries, next) /\ StoredAs(FileAt) # 0
  BY DEF AlreadyStored
<1>2. /\ Uploading /\ job.pc = "scan" /\ FileAt \in Files /\ job.i \in DOMAIN disk.catalog.assets
  BY <1>1, ScanningFacts
<1>3. /\ job \in Uploads(job, chain) /\ disk.catalog.assets = art.catalog.assets
      /\ Len(art.catalog.assets) \in Nat
      /\ DOMAIN art.catalog.assets = 1 .. Len(art.catalog.assets) /\ job.i \in Nat \ {0}
      /\ InLine(Queue(job), job.i, art.catalog.assets, job.manifest)
      /\ art.catalog.assets \in Seq(Files)
  BY <1>2, WorkingFacts
<1>4. job.i + 1 \in Nat \ {0} /\ job.i + 1 <= Len(art.catalog.assets) + 1
  BY <1>2, <1>3
<1>5. /\ next \in Uploads(next, chain) /\ next.pc = "scan" /\ next.storage = job.storage
      /\ next.i = job.i + 1 /\ next.pending = job.pending /\ next.batches = job.batches
  BY <1>2, <1>3, <1>4 DEF Uploads
<1>6. job.batches = <<>>
  BY <1>2 DEF RightOrder, QueueOK, Working
<1>7. Names(chain, job.storage, StoredAs(FileAt), art.bytes[FileAt])
  BY <1>1, <1>2, StoredAsFacts, WorkingFacts DEF Names, Holds, Bytes
<1>8. /\ Merged(entries, job.manifest)[art.catalog.assets[job.i]] # 0
      /\ \A m \in 1 .. job.i - 1 : job.manifest[art.catalog.assets[m]] # 0 =>
            Merged(entries, job.manifest)[art.catalog.assets[m]] # 0
  <2>1. art.catalog.assets[job.i] = FileAt
    BY <1>3 DEF FileAt
  <2>2. \A m \in 1 .. job.i - 1 : art.catalog.assets[m] \in Files
    BY <1>2, <1>3
  <2> QED
    BY <1>1, <1>2, <2>1, <2>2 DEF Merged
<1>9. Queue(next) = Queue(job)
  BY <1>2, <1>5 DEF Queue
<1>10. \A f \in Files \cap DOMAIN entries : Names(chain, job.storage, entries[f], art.bytes[f])
  BY <1>7
<1> HIDE DEF next, entries
<1>11. InLine(Queue(job), job.i + 1, art.catalog.assets, Merged(entries, job.manifest))
  BY <1>3, <1>8, InLineEnters
<1> QED
  BY <1>1, <1>2, <1>4, <1>5, <1>6, <1>9, <1>10, <1>11, EnterRight

LEMMA FlushRight ==
    ASSUME NEW j, j \in Uploads(j, chain), j.pc = "scan", NEW then,
           AllName(chain, j.storage, j.state, art), AllName(chain, j.storage, j.manifest, art),
           j.i <= Len(art.catalog.assets) + 1,
           InLine(<<j.pending>>, j.i, art.catalog.assets, j.manifest),
           then = "finish" => j.i > Len(art.catalog.assets)
    PROVE  LET next == Flush(j, then)
           IN /\ JobNames(next, chain, art) /\ QueueOK(next, art)
              /\ Predictions(next, chain, mempool, "none", art, Order(art))
<1> DEFINE next == Flush(j, then)
           batches == IF j.pending = <<>> THEN <<>> ELSE <<j.pending>>
<1>1. next = [j EXCEPT !.pc = "flush", !.then = then, !.batches = batches, !.pending = <<>>]
  BY DEF Flush
<1>2. InLine(batches, j.i, art.catalog.assets, j.manifest)
  BY InLineNone
<1> HIDE DEF next, batches
<1>3. /\ next.pc = "flush" /\ next.then = then /\ next.i = j.i /\ next.storage = j.storage
      /\ next.state = j.state /\ next.manifest = j.manifest /\ next.batches = batches
      /\ next.pending = <<>>
  BY <1>1 DEF Uploads
<1>4. Queue(next) = batches
  BY <1>3 DEF Queue
<1>5. QueueOK(next, art)
  BY <1>2, <1>3, <1>4 DEF QueueOK
<1>6. JobNames(next, chain, art) /\ Predictions(next, chain, mempool, "none", art, Order(art))
  BY <1>3 DEF JobNames, Predictions
<1> QED
  BY <1>5, <1>6 DEF next

LEMMA ScanQueue ==
    ASSUME ReleaseInv, RightOrder, job.pc = "scan"
    PROVE  /\ Uploading /\ job.batches = <<>>
           /\ InLine(<<job.pending>>, job.i, art.catalog.assets, job.manifest)
<1>1. Uploading
  BY DEF Uploading
<1>2. InLine(Queue(job), job.i, art.catalog.assets, job.manifest)
  BY <1>1, WorkingFacts
<1> QED
  BY <1>1, <1>2 DEF RightOrder, QueueOK, Working, Queue

LEMMA CollectSmallRight == ASSUME ReleaseInv, RightOrder, CollectSmall PROVE RightOrder'
<1> DEFINE next == [job EXCEPT !.i = @ + 1, !.pending = Append(@, FileAt)]
<1>1. Scanning /\ (Goto(Flush(next, "scan")) \/ Goto(next))
  BY DEF CollectSmall
<1>2. /\ Uploading /\ job.pc = "scan" /\ FileAt \in Files /\ job.i \in DOMAIN disk.catalog.assets
  BY <1>1, ScanningFacts
<1>3. /\ job \in Uploads(job, chain) /\ disk.catalog.assets = art.catalog.assets
      /\ Len(art.catalog.assets) \in Nat
      /\ DOMAIN art.catalog.assets = 1 .. Len(art.catalog.assets) /\ job.i \in Nat \ {0}
      /\ AllName(chain, job.storage, job.state, art)
      /\ AllName(chain, job.storage, job.manifest, art)
  BY <1>2, WorkingFacts
<1>4. job.i + 1 \in Nat \ {0} /\ job.i + 1 <= Len(art.catalog.assets) + 1
  BY <1>2, <1>3
<1>5. job.pending \in Seq(Files) /\ Append(job.pending, FileAt) \in Seq(Files)
  BY <1>2, <1>3 DEF Uploads
<1>6. FileAt = art.catalog.assets[job.i]
  BY <1>3 DEF FileAt
<1>7. InLine(<<Append(job.pending, FileAt)>>, job.i + 1, art.catalog.assets, job.manifest)
  BY <1>2, <1>3, <1>5, <1>6, ScanQueue, InLineCollects
<1>8. /\ next \in Uploads(next, chain) /\ next.pc = "scan" /\ next.storage = job.storage
      /\ next.i = job.i + 1 /\ next.pending = Append(job.pending, FileAt)
      /\ next.batches = job.batches /\ next.manifest = job.manifest /\ next.state = job.state
  BY <1>2, <1>3, <1>4, <1>5 DEF Uploads
<1> HIDE DEF next
<1>9. CASE Goto(Flush(next, "scan"))
  <2>1. /\ JobNames(Flush(next, "scan"), chain, art) /\ QueueOK(Flush(next, "scan"), art)
        /\ Predictions(Flush(next, "scan"), chain, mempool, "none", art, Order(art))
    BY <1>3, <1>4, <1>7, <1>8, FlushRight
  <2> QED
    BY <1>9, <2>1, DiskStays, GotoRight DEF Goto
<1>10. CASE Goto(next)
  <2>1. next.batches = <<>>
    BY <1>2, <1>8, ScanQueue
  <2>2. Queue(next) = <<next.pending>>
    BY <1>8 DEF Queue
  <2>3. JobNames(next, chain, art) /\ QueueOK(next, art)
        /\ Predictions(next, chain, mempool, "none", art, Order(art))
    BY <1>3, <1>4, <1>7, <1>8, <2>1, <2>2 DEF JobNames, QueueOK, Predictions
  <2> QED
    BY <1>10, <2>3, DiskStays, GotoRight DEF Goto
<1> QED
  BY <1>1, <1>9, <1>10

LEMMA FlushesRight ==
    ASSUME ReleaseInv, RightOrder, job.pc = "scan", NEW then, Goto(Flush(job, then)),
           then = "finish" => job.i > Len(art.catalog.assets)
    PROVE  RightOrder'
<1>1. /\ job \in Uploads(job, chain) /\ job.i <= Len(art.catalog.assets) + 1
      /\ AllName(chain, job.storage, job.state, art)
      /\ AllName(chain, job.storage, job.manifest, art)
      /\ InLine(<<job.pending>>, job.i, art.catalog.assets, job.manifest)
  BY ScanQueue, WorkingFacts
<1>2. /\ JobNames(Flush(job, then), chain, art) /\ QueueOK(Flush(job, then), art)
      /\ Predictions(Flush(job, then), chain, mempool, "none", art, Order(art))
  BY <1>1, FlushRight
<1> QED
  BY <1>2, DiskStays, GotoRight DEF Goto

LEMMA MeetChunkedRight == ASSUME ReleaseInv, RightOrder, MeetChunked PROVE RightOrder'
  BY FlushesRight DEF MeetChunked, Scanning

LEMMA EndScanRight == ASSUME ReleaseInv, RightOrder, EndScan PROVE RightOrder'
<1>1. job.pc = "scan" /\ job.i > Len(disk.catalog.assets) /\ Goto(Flush(job, "finish"))
  BY DEF EndScan
<1>2. disk.catalog.assets = art.catalog.assets
  BY <1>1, ScanQueue, WorkingFacts
<1> QED
  BY <1>1, <1>2, FlushesRight

(* Batches.                                                                *)
LEMMA BatchFailedRight ==
    ASSUME ReleaseInv, RightOrder, job.pc \in {"flush", "batch"}, job.batches # <<>>, NEW pool
    PROVE  /\ JobNames(BatchFailed, chain, art) /\ QueueOK(BatchFailed, art)
           /\ Predictions(BatchFailed, chain, pool, "none", art, Order(art))
<1>1. CASE Len(Head(job.batches)) = 1
  BY <1>1, IdleRight DEF BatchFailed, Idle
<1>2. CASE Len(Head(job.batches)) # 1
  <2> DEFINE next == [job EXCEPT !.pc = "flush", !.batches = Halved(@)]
  <2>1. BatchFailed = next
    BY <1>2 DEF BatchFailed
  <2>2. Uploading
    BY DEF Uploading
  <2>3. /\ job \in Uploads(job, chain) /\ job.i <= Len(art.catalog.assets) + 1
        /\ AllName(chain, job.storage, job.state, art)
        /\ AllName(chain, job.storage, job.manifest, art)
        /\ InLine(Queue(job), job.i, art.catalog.assets, job.manifest)
    BY <2>2, WorkingFacts
  <2>4. /\ Queue(job) = job.batches /\ job.pending = <<>>
        /\ job.then = "finish" => job.i > Len(art.catalog.assets)
    BY DEF Queue, RightOrder, QueueOK, Working
  <2>5. job.batches \in Seq(Seq(Files))
    BY <2>3 DEF Uploads
  <2>6. InLine(Halved(job.batches), job.i, art.catalog.assets, job.manifest)
    BY <2>3, <2>4, <2>5, InLineHalved
  <2>7. /\ next.pc = "flush" /\ next.storage = job.storage /\ next.i = job.i
        /\ next.then = job.then /\ next.batches = Halved(job.batches)
        /\ next.pending = job.pending /\ next.state = job.state /\ next.manifest = job.manifest
    BY <2>3 DEF Uploads
  <2> HIDE DEF next
  <2>8. Queue(next) = Halved(job.batches)
    BY <2>7 DEF Queue
  <2>9. QueueOK(next, art)
    BY <2>3, <2>4, <2>6, <2>7, <2>8 DEF QueueOK
  <2>10. JobNames(next, chain, art) /\ Predictions(next, chain, pool, "none", art, Order(art))
    BY <2>3, <2>7 DEF JobNames, Predictions
  <2> QED
    BY <2>1, <2>9, <2>10
<1> QED
  BY <1>1, <1>2

(* What is stored for a file stands for its bytes.                         *)
LEMMA NamedIsStored ==
    ASSUME NEW c, NEW s, NEW id \in Nat \ {0}, NEW content \in Contents,
           Names(c, s, id, content), StoreOK(c.storages[s])
    PROVE  ExistingId(c.storages[s], content) = id
<1> DEFINE store == c.storages[s]
<1>1. /\ id \in DOMAIN store.records /\ store.records[id].contentHash = content
  BY DEF Names, Readable, Known
<1> QED
  BY <1>1 DEF StoreOK, Indexed, ExistingId

(* The first batch of the queue comes next.                                *)
LEMMA BatchFollows ==
    ASSUME ReleaseInv, RightOrder, Uploading, job.pc # "scan", job.batches # <<>>
    PROVE  \A k \in DOMAIN Head(job.batches) :
              Follows(Store, BytesIn(Head(job.batches), art), k, Order(art))
<1> DEFINE batch == Head(job.batches)
           svgs == BytesIn(batch, art)
           assets == art.catalog.assets
           o == Order(art)
<1>1. /\ job \in Uploads(job, chain) /\ job.i \in Nat \ {0} /\ job.i <= Len(assets) + 1
      /\ InLine(Queue(job), job.i, assets, job.manifest)
      /\ AllName(chain, job.storage, job.manifest, art)
      /\ assets \in Seq(Files) /\ Len(assets) \in Nat /\ DOMAIN assets = 1 .. Len(assets)
      /\ StoreOK(Store) /\ Store = chain.storages[job.storage]
      /\ art.bytes \in [Files -> Contents]
  BY WorkingFacts
<1>2. job.batches \in Seq(Seq(Files)) /\ Queue(job) = job.batches
  BY <1>1 DEF Uploads, Queue
<1>3. 1 \in DOMAIN job.batches /\ batch = job.batches[1] /\ batch \in Seq(Files)
  BY <1>2
<1> HIDE DEF batch, o
<1>4. ASSUME NEW k \in DOMAIN batch PROVE Follows(Store, svgs, k, o)
  <2>1. PICK m \in 1 .. job.i - 1 :
            /\ assets[m] = batch[k]
            /\ \A n \in 1 .. m - 1 : \/ job.manifest[assets[n]] # 0
                                     \/ Earlier(job.batches, 1, k, assets[n])
    BY <1>1, <1>2, <1>3 DEF InLine
  <2>2. m \in DOMAIN assets
    BY <1>1
  <2>3. PICK d \in DOMAIN o :
            /\ o[d] = art.bytes[assets[m]]
            /\ \A e \in 1 .. d - 1 : \E n \in 1 .. m - 1 : art.bytes[assets[n]] = o[e]
    BY <2>2, OrderFacts DEF ReleaseInv, o
  <2>4. svgs[k] = o[d]
    BY <2>1, <2>3 DEF BytesIn
  <2>5. ASSUME NEW e \in 1 .. d - 1
        PROVE  ExistingId(Store, o[e]) # 0 \/ \E j \in 1 .. k - 1 : svgs[j] = o[e]
    <3>1. PICK n \in 1 .. m - 1 : art.bytes[assets[n]] = o[e]
      BY <2>3
    <3>2. n \in DOMAIN assets /\ assets[n] \in Files /\ art.bytes[assets[n]] \in Contents
      BY <1>1
    <3>3. CASE job.manifest[assets[n]] # 0
      <4>1. Names(chain, job.storage, job.manifest[assets[n]], o[e])
        BY <1>1, <3>1, <3>2 DEF AllName
      <4>2. o[e] \in Contents /\ StoreOK(chain.storages[job.storage])
        BY <1>1, <3>1, <3>2
      <4>3. ExistingId(chain.storages[job.storage], o[e]) = job.manifest[assets[n]]
        <5> DEFINE id == job.manifest[assets[n]]
                   content == o[e]
        <5>1. /\ id \in Nat \ {0} /\ content \in Contents
              /\ Names(chain, job.storage, id, content)
          BY <1>1, <3>2, <3>3, <4>1, <4>2 DEF Uploads
        <5> HIDE DEF id, content
        <5>2. ExistingId(chain.storages[job.storage], content) = id
          BY <4>2, <5>1, NamedIsStored
        <5> QED
          BY <5>2 DEF id, content
      <4> QED
        BY <1>1, <3>3, <4>3
    <3>4. CASE Earlier(job.batches, 1, k, assets[n])
      <4>1. PICK j \in 1 .. k - 1 : batch[j] = assets[n]
        BY <1>3, <3>4 DEF Earlier
      <4>2. j \in DOMAIN batch
        BY <1>3
      <4> QED
        BY <3>1, <4>1, <4>2 DEF BytesIn
    <3> QED
      BY <2>1, <3>3, <3>4
  <2> QED
    BY <2>4, <2>5 DEF Follows
<1> QED
  BY <1>4 DEF batch, o
LEMMA SendBatchRight == ASSUME ReleaseInv, RightOrder, SendBatch PROVE RightOrder'
<1> DEFINE batch == Head(job.batches)
           svgs == BytesIn(batch, art)
           predicted == StoreSvgBatch(Store, svgs)
           tx == [to |-> "storage", op |-> "storeSvgBatch", at |-> job.storage, svgs |-> svgs]
           next == [job EXCEPT !.pc = "batch", !.ids = predicted.id]
<1>1. /\ job.pc = "flush" /\ job.batches # <<>> /\ Uploading
      /\ IF predicted.ok THEN Send(tx, next) ELSE Goto(BatchFailed)
  BY DEF SendBatch, BytesIn, Bytes, Uploading
<1>2. /\ job \in Uploads(job, chain) /\ job.i <= Len(art.catalog.assets) + 1
      /\ AllName(chain, job.storage, job.state, art)
      /\ AllName(chain, job.storage, job.manifest, art)
      /\ InLine(Queue(job), job.i, art.catalog.assets, job.manifest)
      /\ StoreOK(Store) /\ Store = chain.storages[job.storage]
      /\ Ordered(Order(art)) /\ InOrder(Store, Order(art))
  BY <1>1, WorkingFacts
<1>3. /\ svgs \in Seq(Contents) /\ DOMAIN svgs = 1 .. Len(svgs)
      /\ DOMAIN batch = 1 .. Len(svgs)
      /\ \A k \in DOMAIN batch : svgs[k] = art.bytes[batch[k]]
  BY <1>1, BatchBytes DEF Bytes
<1>4. \A k \in 1 .. Len(svgs) : Follows(Store, svgs, k, Order(art))
  BY <1>1, <1>3, BatchFollows
<1>5. CASE predicted.ok
  <2> DEFINE ids == predicted.id
  <2>1. \A k \in 1 .. Len(svgs) : ids[k] \in DOMAIN Order(art) /\ Order(art)[ids[k]] = svgs[k]
    <3> HIDE DEF svgs
    <3> QED
      BY <1>2, <1>3, <1>4, <1>5, BatchNamesPlaces
  <2>2. DOMAIN ids = 1 .. Len(svgs)
    <3> HIDE DEF svgs
    <3> QED
      BY <1>2, <1>3, <1>5, BatchPredicts
  <2>3. Send(tx, next) /\ next = [job EXCEPT !.pc = "batch", !.ids = ids]
    BY <1>1, <1>5
  <2>4. TxInOrder(tx, chain, Order(art))
    BY <1>2, <1>4 DEF TxInOrder
  <2> HIDE DEF ids, predicted, svgs, tx, next, batch
  <2>5. /\ next.pc = "batch" /\ next.then = job.then /\ next.i = job.i /\ next.ids = ids
        /\ next.state = job.state /\ next.manifest = job.manifest /\ next.storage = job.storage
        /\ next.batches = job.batches /\ next.pending = job.pending
    BY <1>2, <2>3 DEF Uploads
  <2>6. /\ Queue(next) = Queue(job) /\ job.pending = <<>>
        /\ job.then = "finish" => job.i > Len(art.catalog.assets)
    BY <1>1, <2>5 DEF Queue, RightOrder, QueueOK, Working
  <2>7. QueueOK(next, art)
    BY <1>2, <2>5, <2>6 DEF QueueOK
  <2>8. JobNames(next, chain, art)
    BY <1>2, <2>5 DEF JobNames
  <2>9. Predictions(next, chain, <<tx>>, "none", art, Order(art))
    BY <1>3, <2>1, <2>2, <2>5 DEF Predictions, batch
  <2> QED
    BY <2>3, <2>4, <2>7, <2>8, <2>9, DiskStays, SendRight DEF Send
<1>6. CASE ~predicted.ok
  <2>1. Goto(BatchFailed)
    BY <1>1, <1>6
  <2> QED
    BY <1>1, <2>1, BatchFailedRight, DiskStays, GotoRight DEF Goto
<1> QED
  BY <1>5, <1>6

(* The ids of the call before the transaction are those it has given.      *)
LEMMA BatchIdsRight ==
    ASSUME ReleaseInv, RightOrder, Succeeded("batch"), NEW k \in DOMAIN Head(job.batches)
    PROVE  /\ job.ids[k] # 0
           /\ Names(chain, job.storage, job.ids[k], art.bytes[Head(job.batches)[k]])
<1> DEFINE svgs == BytesIn(Head(job.batches), art)
           o == Order(art)
<1>1. job.pc = "batch" /\ receipt = "success" /\ Uploading
  BY DEF Succeeded, Uploading
<1>2. /\ UploadOK(job, chain, disk.catalog) /\ StoreOK(Store)
      /\ Store = chain.storages[job.storage] /\ job.storage \in DOMAIN chain.storages
      /\ Ordered(o) /\ InOrder(Store, o)
  BY <1>1, WorkingFacts
<1>3. job.batches # <<>> /\ job.ids \in [DOMAIN Head(job.batches) -> Nat]
  BY <1>1, <1>2 DEF UploadOK
<1>4. /\ svgs \in Seq(Contents) /\ DOMAIN svgs = DOMAIN Head(job.batches)
      /\ DOMAIN svgs = 1 .. Len(svgs) /\ svgs[k] = art.bytes[Head(job.batches)[k]]
  BY <1>1, <1>3, BatchBytes DEF Bytes
<1>5. Readable(Store, ExistingId(Store, svgs[k]))
  BY <1>1, <1>3, <1>4 DEF ReleaseInv, BatchAwaited, Store
<1>6. job.ids[k] \in DOMAIN o /\ o[job.ids[k]] = svgs[k]
  BY <1>1, <1>3, <1>4 DEF RightOrder, Predictions
<1> HIDE DEF svgs, o
<1>7. svgs[k] \in Contents
  BY <1>4
<1>8. ExistingId(Store, svgs[k]) # 0 /\ ExistingId(Store, svgs[k]) \in DOMAIN Store.records
  BY <1>2, <1>5, StoreFacts DEF Readable, Known, StoreOK
<1>9. ExistingId(Store, svgs[k]) \in DOMAIN o /\ o[ExistingId(Store, svgs[k])] = svgs[k]
  BY <1>2, <1>7, <1>8, InOrderFacts
<1>10. job.ids[k] = ExistingId(Store, svgs[k])
  BY <1>2, <1>6, <1>9 DEF Ordered
<1>11. Store.records[ExistingId(Store, svgs[k])].contentHash = svgs[k]
  BY <1>2, <1>7, <1>8 DEF StoreOK, Indexed
<1> QED
  BY <1>2, <1>4, <1>5, <1>8, <1>10, <1>11 DEF Names

LEMMA BatchStoredRight == ASSUME ReleaseInv, RightOrder, BatchStored PROVE RightOrder'
<1> DEFINE batch == Head(job.batches)
           At(f) == CHOOSE k \in DOMAIN batch : batch[k] = f
           entries == [f \in ToSet(batch) |-> job.ids[At(f)]]
           next == [job EXCEPT !.pc = "flush", !.batches = Tail(@), !.ids = <<>>]
           assets == art.catalog.assets
           manifest == Merged(entries, job.manifest)
<1>1. Succeeded("batch") /\ Enter(entries, next) /\ job.pc = "batch" /\ Uploading
  BY DEF BatchStored, Succeeded, Uploading
<1>2. /\ job \in Uploads(job, chain) /\ UploadOK(job, chain, disk.catalog)
      /\ job.i \in Nat \ {0} /\ job.i <= Len(assets) + 1
      /\ InLine(Queue(job), job.i, assets, job.manifest)
      /\ assets \in Seq(Files) /\ DOMAIN assets = 1 .. Len(assets) /\ Len(assets) \in Nat
  BY <1>1, WorkingFacts
<1>3. job.batches \in Seq(Seq(Files)) /\ Tail(job.batches) \in Seq(Seq(Files))
      /\ job.batches # <<>> /\ batch \in Seq(Files)
  BY <1>1, <1>2 DEF UploadOK, Uploads
<1>4. /\ next \in Uploads(next, chain) /\ next.pc = "flush" /\ next.then = job.then
      /\ next.i = job.i /\ next.storage = job.storage /\ next.batches = Tail(job.batches)
      /\ next.pending = job.pending
  BY <1>2, <1>3 DEF Uploads, UploadPcs
<1>5. ASSUME NEW f \in ToSet(batch)
      PROVE  entries[f] # 0 /\ Names(chain, job.storage, entries[f], art.bytes[f])
  <2>1. \E k \in DOMAIN batch : batch[k] = f
    BY DEF ToSet
  <2>2. At(f) \in DOMAIN batch /\ batch[At(f)] = f
    BY <2>1
  <2>3. entries[f] = job.ids[At(f)]
    OBVIOUS
  <2> HIDE DEF At, entries, batch
  <2> QED
    BY <1>1, <2>2, <2>3, BatchIdsRight DEF batch
<1>6. DOMAIN entries = ToSet(batch) /\ ToSet(batch) \subseteq Files
  BY <1>3, SeqRange
<1> HIDE DEF entries, next, assets
<1>7. \A f \in ToSet(batch) : manifest[f] # 0
  BY <1>5, <1>6 DEF Merged
<1>8. \A m \in 1 .. job.i - 1 : job.manifest[assets[m]] # 0 => manifest[assets[m]] # 0
  <2>1. \A m \in 1 .. job.i - 1 : assets[m] \in Files
    BY <1>2
  <2> QED
    BY <1>5, <1>6, <2>1 DEF Merged
<1> HIDE DEF manifest
<1>9. /\ Queue(job) = job.batches /\ Queue(next) = Tail(job.batches) /\ job.pending = <<>>
      /\ job.then = "finish" => job.i > Len(assets)
  BY <1>1, <1>4 DEF Queue, RightOrder, QueueOK, Working, assets
<1>10. InLine(Tail(job.batches), job.i, assets, manifest)
  BY <1>2, <1>3, <1>7, <1>8, <1>9, InLineLeaves
<1> QED
  BY <1>1, <1>2, <1>4, <1>5, <1>6, <1>9, <1>10, EnterRight DEF assets, manifest

LEMMA FlushedRight == ASSUME ReleaseInv, RightOrder, Flushed PROVE RightOrder'
<1> DEFINE next == [job EXCEPT !.pc = job.then]
<1>1. job.pc = "flush" /\ job.batches = <<>> /\ Goto(next) /\ Uploading
  BY DEF Flushed, Uploading
<1>2. /\ job \in Uploads(job, chain) /\ job.i <= Len(art.catalog.assets) + 1
      /\ AllName(chain, job.storage, job.state, art)
      /\ AllName(chain, job.storage, job.manifest, art)
      /\ InLine(Queue(job), job.i, art.catalog.assets, job.manifest)
  BY <1>1, WorkingFacts
<1>3. /\ next.pc = job.then /\ next.pc \in {"scan", "chunked", "finish"}
      /\ next.i = job.i /\ next.state = job.state /\ next.manifest = job.manifest
      /\ next.storage = job.storage /\ next.batches = <<>> /\ next.pending = job.pending
  BY <1>1, <1>2 DEF Uploads
<1> HIDE DEF next
<1>4. /\ Queue(job) = <<>> /\ job.pending = <<>>
      /\ job.then = "finish" => job.i > Len(art.catalog.assets)
  BY <1>1 DEF Queue, RightOrder, QueueOK, Working
<1>5. Queue(next) \in {<<>>, << <<>> >>}
  BY <1>3, <1>4 DEF Queue
<1>6. InLine(Queue(next), job.i, art.catalog.assets, job.manifest)
  BY <1>2, <1>4, <1>5, InLineNone
<1>7. QueueOK(next, art)
  BY <1>2, <1>3, <1>4, <1>6 DEF QueueOK
<1>8. JobNames(next, chain, art) /\ Predictions(next, chain, mempool, "none", art, Order(art))
  BY <1>2, <1>3 DEF JobNames, Predictions
<1> QED
  BY <1>1, <1>7, <1>8, DiskStays, GotoRight DEF Goto

(* Uploads in chunks.                                                      *)
LEMMA ChunkedQueue ==
    ASSUME ReleaseInv, RightOrder, job.pc \in OnChunked \cup Late
    PROVE  /\ Uploading /\ job.batches = <<>> /\ job.pending = <<>>
           /\ \A m \in 1 .. job.i - 1 : job.manifest[art.catalog.assets[m]] # 0
<1>1. Uploading /\ Working(job) /\ job.pc \notin {"scan", "flush", "batch"}
  BY DEF Uploading, Working, OnChunked, Late
<1>2. job.batches = <<>> /\ job.pending = <<>> /\ Queue(job) = <<>>
  BY <1>1 DEF RightOrder, QueueOK, Queue
<1>3. InLine(<<>>, job.i, art.catalog.assets, job.manifest)
  BY <1>1, <1>2, WorkingFacts
<1> QED
  BY <1>1, <1>2, <1>3, InLineNone

LEMMA ChunkedFile ==
    ASSUME ReleaseInv, RightOrder, job.pc \in OnChunked
    PROVE  /\ job.i \in 1 .. Len(art.catalog.assets)
           /\ FileAt = art.catalog.assets[job.i] /\ FileAt \in Files
           /\ Bytes(FileAt) = art.bytes[art.catalog.assets[job.i]] /\ Bytes(FileAt) \in Contents
<1>1. Uploading /\ job.i \in DOMAIN disk.catalog.assets /\ FileAt \in Files
      /\ Bytes(FileAt) \in Contents
  BY ChunkedFacts
<1>2. disk.catalog.assets = art.catalog.assets
      /\ DOMAIN art.catalog.assets = 1 .. Len(art.catalog.assets)
  BY <1>1, WorkingFacts
<1> QED
  BY <1>1, <1>2 DEF FileAt, Bytes

LEMMA FileFollows ==
    ASSUME ReleaseInv, RightOrder, job.pc \in OnChunked
    PROVE  Follows(Store, <<Bytes(FileAt)>>, 1, Order(art))
<1> DEFINE assets == art.catalog.assets
           o == Order(art)
<1>1. /\ job \in Uploads(job, chain) /\ AllName(chain, job.storage, job.manifest, art)
      /\ assets \in Seq(Files) /\ Len(assets) \in Nat /\ DOMAIN assets = 1 .. Len(assets)
      /\ StoreOK(Store) /\ Store = chain.storages[job.storage]
      /\ art.bytes \in [Files -> Contents]
  BY ChunkedQueue, WorkingFacts
<1>2. /\ job.i \in 1 .. Len(assets) /\ Bytes(FileAt) = art.bytes[assets[job.i]]
      /\ \A m \in 1 .. job.i - 1 : job.manifest[assets[m]] # 0
  BY ChunkedFile, ChunkedQueue
<1>3. PICK d \in DOMAIN o :
          /\ o[d] = art.bytes[assets[job.i]]
          /\ \A e \in 1 .. d - 1 : \E n \in 1 .. job.i - 1 : art.bytes[assets[n]] = o[e]
  BY <1>1, <1>2, OrderFacts DEF ReleaseInv
<1> HIDE DEF o
<1>4. ASSUME NEW e \in 1 .. d - 1 PROVE ExistingId(Store, o[e]) # 0
  <2>1. PICK n \in 1 .. job.i - 1 : art.bytes[assets[n]] = o[e]
    BY <1>3
  <2>2. /\ assets[n] \in Files /\ o[e] \in Contents /\ job.manifest[assets[n]] # 0
    BY <1>1, <1>2, <2>1
  <2> DEFINE id == job.manifest[assets[n]]
             content == o[e]
  <2>3. /\ id \in Nat \ {0} /\ content \in Contents
        /\ Names(chain, job.storage, id, content) /\ StoreOK(chain.storages[job.storage])
    BY <1>1, <2>1, <2>2 DEF AllName, Uploads
  <2> HIDE DEF id, content
  <2>4. ExistingId(chain.storages[job.storage], content) = id
    BY <2>3, NamedIsStored
  <2> QED
    BY <1>1, <2>3, <2>4 DEF content
<1>5. <<Bytes(FileAt)>>[1] = o[d]
  BY <1>2, <1>3
<1> QED
  BY <1>4, <1>5 DEF Follows, o

LEMMA ChunkedMoves ==
    ASSUME ReleaseInv, job.pc \in OnChunked \cup Late, NEW pc, NEW ids
    PROVE  LET next == [job EXCEPT !.pc = pc, !.ids = ids]
           IN SamePlace(job, next) /\ next.pc = pc /\ next.ids = ids
<1>1. job \in Uploads(job, chain)
  BY UploadFacts DEF Uploading, OnChunked, Late
<1> QED
  BY <1>1 DEF Uploads, SamePlace

LEMMA SendChunkedRight ==
    ASSUME ReleaseInv, RightOrder, NEW tx, NEW next, SendIfAccepted(tx, next),
           SamePlace(job, next), job.pc \in OnChunked, next.pc \in OnChunked,
           TxInOrder(tx, chain, Order(art)),
           Execute(tx).ok => Predictions(next, chain, <<tx>>, "none", art, Order(art))
    PROVE  RightOrder'
<1>1. next.pc \notin Late
  BY DEF OnChunked, Late
<1>2. JobNames(next, chain, art) /\ QueueOK(next, art)
  BY <1>1, MovesOn
<1>3. CASE Execute(tx).ok
  BY <1>2, <1>3, DiskStays, SendRight DEF SendIfAccepted, Send
<1>4. CASE ~Execute(tx).ok
  <2>1. Goto(Idle) /\ Idle.pc = "idle"
    BY <1>4 DEF SendIfAccepted, Idle
  <2>2. JobNames(Idle, chain, art) /\ QueueOK(Idle, art)
        /\ Predictions(Idle, chain, mempool, "none", art, Order(art))
    BY <2>1, IdleRight
  <2> QED
    BY <2>1, <2>2, DiskStays, GotoRight DEF Goto
<1> QED
  BY <1>3, <1>4

LEMMA GotoChunkedRight ==
    ASSUME ReleaseInv, RightOrder, NEW next, Goto(next), SamePlace(job, next),
           job.pc \in OnChunked, next.pc \in {"chunks", "complete"},
           chain.storages[next.storage].records[next.ids].contentHash
               = art.bytes[art.catalog.assets[next.i]]
    PROVE  RightOrder'
<1>1. next.pc \in OnChunked /\ next.pc \notin Late
  BY DEF OnChunked, Late
<1>2. JobNames(next, chain, art) /\ QueueOK(next, art)
  BY <1>1, MovesOn
<1>3. Predictions(next, chain, mempool, "none", art, Order(art))
  BY DEF Predictions
<1> QED
  BY <1>2, <1>3, DiskStays, GotoRight DEF Goto

LEMMA StartChunkedRight == ASSUME ReleaseInv, RightOrder, StartChunked PROVE RightOrder'
<1> DEFINE chunks == ChunksOf(Bytes(FileAt))
           tx == [to |-> "storage", op |-> "initializeChunkedSvg", at |-> job.storage,
                  size |-> Len(disk.catalog.bytes[FileAt]), hash |-> Bytes(FileAt),
                  expected |-> Len(chunks)]
           next == [job EXCEPT !.pc = "init", !.ids = AtStorage(tx).id]
           resumed == [job EXCEPT !.pc = "chunks", !.ids = Resumed(FileAt)]
<1>1. /\ job.pc = "chunked" /\ job.pc \in OnChunked
      /\ IF Resumed(FileAt) # 0 THEN Goto(resumed) ELSE SendIfAccepted(tx, next)
  BY DEF StartChunked, OnChunked
<1>2. /\ AllName(chain, job.storage, job.state, art) /\ StoreOK(Store)
      /\ Store = chain.storages[job.storage]
      /\ Ordered(Order(art)) /\ InOrder(Store, Order(art))
      /\ FileAt \in Files /\ FileAt = art.catalog.assets[job.i]
      /\ Bytes(FileAt) = art.bytes[art.catalog.assets[job.i]] /\ Bytes(FileAt) \in Contents
  BY <1>1, ChunkedQueue, ChunkedFile, WorkingFacts
<1>3. CASE Resumed(FileAt) # 0
  <2>1. /\ SamePlace(job, resumed) /\ resumed.pc = "chunks" /\ resumed.ids = Resumed(FileAt)
        /\ Goto(resumed)
    BY <1>1, <1>3, ChunkedMoves
  <2>2. chain.storages[job.storage].records[Resumed(FileAt)].contentHash
            = art.bytes[art.catalog.assets[job.i]]
    BY <1>2, <1>3 DEF AllName, Names, Resumed
  <2> HIDE DEF resumed
  <2> QED
    BY <1>1, <2>1, <2>2, GotoChunkedRight DEF SamePlace
<1>4. CASE Resumed(FileAt) = 0
  <2>1. SendIfAccepted(tx, next)
    BY <1>1, <1>4
  <2>2. /\ SamePlace(job, next) /\ next.pc = "init" /\ next.ids = AtStorage(tx).id
    <3> DEFINE id == AtStorage(tx).id
    <3>1. next = [job EXCEPT !.pc = "init", !.ids = id]
      OBVIOUS
    <3> HIDE DEF id, next, tx
    <3>2. SamePlace(job, next) /\ next.pc = "init" /\ next.ids = id
      BY <1>1, <3>1, ChunkedMoves
    <3> QED
      BY <3>2 DEF id
  <2>3. /\ tx.to = "storage" /\ tx.op = "initializeChunkedSvg" /\ tx.at = job.storage
        /\ tx.hash = Bytes(FileAt)
    OBVIOUS
  <2>4. TxOK(tx, chain)
    <3>1. Len(chunks) \in Nat /\ Len(disk.catalog.bytes[FileAt]) \in Nat
          /\ job.storage \in DOMAIN chain.storages
      BY <1>1, <1>2, ChunkedFacts, ChunkCountNat
    <3> QED
      BY <1>2, <3>1 DEF TxOK, StorageTxOK
  <2>5. Follows(Store, <<Bytes(FileAt)>>, 1, Order(art))
    BY <1>1, FileFollows
  <2> HIDE DEF tx, next
  <2>6. TxInOrder(tx, chain, Order(art))
    BY <1>2, <2>3, <2>5 DEF TxInOrder
  <2>7. ASSUME Execute(tx).ok
        PROVE  Predictions(next, chain, <<tx>>, "none", art, Order(art))
    <3>1. AtStorage(tx) = InitializeChunkedSvg(Store, tx.size, tx.hash, tx.expected)
      BY <2>3 DEF AtStorage, Store
    <3>2. AtStorage(tx).ok
      BY <2>3, <2>4, <2>7, TxKeeps DEF ReleaseInv
    <3>3. AtStorage(tx).id = IF ExistingId(Store, tx.hash) = 0 THEN Len(Store.records) + 1
                             ELSE ExistingId(Store, tx.hash)
      BY <3>1, <3>2 DEF InitializeChunkedSvg, Done, Reverted
    <3>4. AtStorage(tx).id \in DOMAIN Order(art) /\ Order(art)[AtStorage(tx).id] = tx.hash
      <4>1. CASE ExistingId(Store, tx.hash) = 0
        BY <1>2, <2>3, <2>5, <3>3, <4>1, NextInOrder
      <4>2. CASE ExistingId(Store, tx.hash) # 0
        BY <1>2, <2>3, <3>3, <4>2, InOrderFacts
      <4> QED
        BY <4>1, <4>2
    <3> QED
      BY <1>2, <2>2, <2>3, <3>4 DEF Predictions, SamePlace
  <2> QED
    BY <1>1, <2>1, <2>2, <2>6, <2>7, SendChunkedRight DEF OnChunked
<1> QED
  BY <1>3, <1>4

LEMMA InitializedRight == ASSUME ReleaseInv, RightOrder, Initialized PROVE RightOrder'
<1>1. /\ job.pc = "init" /\ job.pc \in OnChunked /\ receipt = "success"
      /\ Goto([job EXCEPT !.pc = "chunks"])
  BY DEF Initialized, Succeeded, OnChunked
<1> DEFINE next == [job EXCEPT !.pc = "chunks", !.ids = job.ids]
<1>2. Goto(next)
  BY <1>1, SamePc
<1>3. SamePlace(job, next) /\ next.pc = "chunks" /\ next.ids = job.ids
  BY <1>1, ChunkedMoves
<1>4. Known(Store, job.ids) /\ Store = chain.storages[job.storage]
  BY <1>1 DEF ReleaseInv, InitAwaited, Store
<1>5. InOrder(Store, Order(art))
  BY <1>1, ChunkedQueue, WorkingFacts
<1>6. Order(art)[job.ids] = art.bytes[art.catalog.assets[job.i]]
  BY <1>1 DEF RightOrder, Predictions
<1>7. Store.records[job.ids].contentHash = art.bytes[art.catalog.assets[job.i]]
  BY <1>4, <1>5, <1>6 DEF InOrder, Known
<1> HIDE DEF next
<1> QED
  BY <1>1, <1>2, <1>3, <1>4, <1>7, GotoChunkedRight DEF SamePlace

LEMMA OnContent ==
    ASSUME RightOrder, job.pc \in {"chunks", "append", "complete", "finalize"}
    PROVE  chain.storages[job.storage].records[job.ids].contentHash
               = art.bytes[art.catalog.assets[job.i]]
  BY DEF RightOrder, Predictions

LEMMA UploadChunksRight == ASSUME ReleaseInv, RightOrder, UploadChunks PROVE RightOrder'
<1> DEFINE tx == [to |-> "storage", op |-> "appendChunks", at |-> job.storage,
                  id |-> job.ids, chunks |-> MissingChunks]
           sent == [job EXCEPT !.pc = "append", !.ids = job.ids]
           next == [job EXCEPT !.pc = "complete", !.ids = job.ids]
<1>1. job.pc = "chunks" /\ job.pc \in OnChunked
  BY DEF UploadChunks, OnChunked
<1>2. SendIfAccepted(tx, sent) \/ Goto(next)
  BY <1>1, SamePc DEF UploadChunks
<1>3. /\ SamePlace(job, sent) /\ sent.pc = "append" /\ sent.ids = job.ids
      /\ SamePlace(job, next) /\ next.pc = "complete" /\ next.ids = job.ids
  BY <1>1, ChunkedMoves
<1>4. TxInOrder(tx, chain, Order(art))
  BY DEF TxInOrder
<1> HIDE DEF tx, sent, next
<1>5. Predictions(sent, chain, <<tx>>, "none", art, Order(art))
  BY <1>1, <1>3, OnContent DEF Predictions, SamePlace
<1>6. CASE SendIfAccepted(tx, sent)
  BY <1>1, <1>3, <1>4, <1>5, <1>6, SendChunkedRight DEF OnChunked
<1>7. CASE Goto(next)
  BY <1>1, <1>3, <1>7, OnContent, GotoChunkedRight DEF SamePlace
<1> QED
  BY <1>2, <1>6, <1>7

LEMMA AppendedRight == ASSUME ReleaseInv, RightOrder, Appended PROVE RightOrder'
<1> DEFINE next == [job EXCEPT !.pc = "complete", !.ids = job.ids]
<1>1. job.pc = "append" /\ job.pc \in OnChunked
  BY DEF Appended, Succeeded, OnChunked
<1>2. Goto(next)
  BY <1>1, SamePc DEF Appended
<1>3. SamePlace(job, next) /\ next.pc = "complete" /\ next.ids = job.ids
  BY <1>1, ChunkedMoves
<1> HIDE DEF next
<1> QED
  BY <1>1, <1>2, <1>3, OnContent, GotoChunkedRight DEF SamePlace

LEMMA ChunkedEntryRight ==
    ASSUME ReleaseInv, RightOrder, job.pc \in {"complete", "finalize"}, ChunkedEntry,
           Store.records[job.ids].finalized
    PROVE  RightOrder'
<1> DEFINE next == [job EXCEPT !.pc = "scan", !.i = @ + 1, !.ids = <<>>]
           entries == [f \in {FileAt} |-> job.ids]
           assets == art.catalog.assets
           manifest == Merged(entries, job.manifest)
<1>1. Enter(entries, next)
  BY DEF ChunkedEntry
<1>2. job.pc \in OnChunked /\ job.ids \in Nat \ {0} /\ Known(Store, job.ids)
  BY OnRecord
<1>3. /\ Uploading /\ job.batches = <<>> /\ job.pending = <<>>
      /\ \A m \in 1 .. job.i - 1 : job.manifest[assets[m]] # 0
      /\ job.i \in 1 .. Len(assets) /\ FileAt = assets[job.i] /\ FileAt \in Files
      /\ Bytes(FileAt) = art.bytes[assets[job.i]]
  BY <1>2, ChunkedQueue, ChunkedFile
<1>4. /\ job \in Uploads(job, chain) /\ assets \in Seq(Files) /\ Len(assets) \in Nat
      /\ DOMAIN assets = 1 .. Len(assets) /\ job.i \in Nat \ {0}
      /\ Store = chain.storages[job.storage] /\ job.storage \in DOMAIN chain.storages
  BY <1>3, WorkingFacts
<1>5. job.i + 1 \in Nat \ {0} /\ "scan" \in UploadPcs /\ job.i + 1 <= Len(assets) + 1
  BY <1>3, <1>4 DEF UploadPcs
<1>6. /\ next \in Uploads(next, chain) /\ next.pc = "scan" /\ next.storage = job.storage
      /\ next.i = job.i + 1 /\ next.pending = <<>> /\ next.batches = <<>>
  BY <1>3, <1>4, <1>5 DEF Uploads
<1>7. DOMAIN entries = {FileAt} /\ entries[FileAt] = job.ids
  OBVIOUS
<1> HIDE DEF next, entries, assets
<1>8. Names(chain, job.storage, job.ids, art.bytes[FileAt])
  BY <1>2, <1>3, <1>4, OnContent DEF Names, Readable, assets
<1>9. \A m \in 1 .. (job.i + 1) - 1 : manifest[assets[m]] # 0
  <2> SUFFICES ASSUME NEW m \in 1 .. (job.i + 1) - 1 PROVE manifest[assets[m]] # 0
    OBVIOUS
  <2>1. m \in DOMAIN assets /\ (m = job.i \/ m \in 1 .. job.i - 1)
    BY <1>3, <1>4
  <2>2. assets[m] \in Files
    BY <1>4, <2>1
  <2> QED
    BY <1>2, <1>3, <1>7, <2>1, <2>2 DEF Merged
<1>10. Queue(next) = << <<>> >>
  BY <1>6 DEF Queue
<1> HIDE DEF manifest
<1>11. InLine(Queue(next), next.i, assets, manifest)
  BY <1>6, <1>9, <1>10, InLineNone
<1>12. \A f \in Files \cap DOMAIN entries : Names(chain, job.storage, entries[f], art.bytes[f])
  BY <1>7, <1>8
<1> QED
  BY <1>1, <1>3, <1>5, <1>6, <1>11, <1>12, EnterRight DEF assets, manifest

LEMMA CompleteRight == ASSUME ReleaseInv, RightOrder, Complete PROVE RightOrder'
<1> DEFINE tx == [to |-> "storage", op |-> "finalizeChunkedSvg", at |-> job.storage,
                  id |-> job.ids]
           next == [job EXCEPT !.pc = "finalize", !.ids = job.ids]
<1>1. job.pc = "complete" /\ job.pc \in OnChunked
  BY DEF Complete, OnChunked
<1>2. CASE Store.records[job.ids].finalized
  BY <1>1, <1>2, ChunkedEntryRight DEF Complete
<1>3. CASE ~Store.records[job.ids].finalized
  <2>1. SendIfAccepted(tx, next)
    BY <1>1, <1>3, SamePc DEF Complete
  <2>2. SamePlace(job, next) /\ next.pc = "finalize" /\ next.ids = job.ids
    BY <1>1, ChunkedMoves
  <2>3. TxInOrder(tx, chain, Order(art))
    BY DEF TxInOrder
  <2>4. Last(<<tx>>) = tx
    BY DEF Last
  <2>5. tx = [to |-> "storage", op |-> "finalizeChunkedSvg", at |-> next.storage,
              id |-> next.ids]
    BY <2>2 DEF SamePlace
  <2> HIDE DEF tx, next
  <2>6. Predictions(next, chain, <<tx>>, "none", art, Order(art))
    BY <1>1, <2>2, <2>4, <2>5, OnContent DEF Predictions, SamePlace
  <2> QED
    BY <1>1, <2>1, <2>2, <2>3, <2>6, SendChunkedRight DEF OnChunked
<1> QED
  BY <1>2, <1>3

LEMMA FinalizedRight == ASSUME ReleaseInv, RightOrder, Finalized PROVE RightOrder'
<1>1. job.pc = "finalize" /\ receipt = "success" /\ ChunkedEntry
  BY DEF Finalized, Succeeded
<1>2. Store.records[job.ids].finalized
  BY <1>1 DEF RightOrder, Predictions, Store
<1> QED
  BY <1>1, <1>2, ChunkedEntryRight

(* The manifest, the registry and the collection.                          *)
LEMMA LatePredictions ==
    ASSUME NEW j, j.pc \in Late, NEW c, NEW pool, NEW a, NEW o
    PROVE  Predictions(j, c, pool, "none", a, o)
  BY DEF Predictions, Late

LEMMA FinishUploadRight == ASSUME ReleaseInv, RightOrder, FinishUpload PROVE RightOrder'
<1>1. /\ job.pc = "finish" /\ receipt' = "none" /\ art' = art /\ chain' = chain
      /\ disk' = [disk EXCEPT !.manifest = [storage |-> job.storage, files |-> job.manifest]]
      /\ job.pc \in Late
  BY DEF FinishUpload, Late
<1>2. /\ Uploading /\ \A m \in 1 .. job.i - 1 : job.manifest[art.catalog.assets[m]] # 0
  BY <1>1, ChunkedQueue
<1>3. /\ job \in Uploads(job, chain) /\ AllName(chain, job.storage, job.manifest, art)
      /\ Len(art.catalog.assets) \in Nat /\ job.i \in Nat \ {0}
      /\ DOMAIN art.catalog.assets = 1 .. Len(art.catalog.assets)
  BY <1>2, WorkingFacts
<1>4. job.i > Len(art.catalog.assets)
  BY <1>1 DEF RightOrder, QueueOK, Working
<1>5. \A f \in ToSet(art.catalog.assets) : job.manifest[f] # 0
  <2>1. \A m \in DOMAIN art.catalog.assets : m \in 1 .. job.i - 1
    BY <1>3, <1>4
  <2> QED
    BY <1>2, <2>1 DEF ToSet
<1>6. DiskNames(disk', chain, art)
  <2>1. /\ disk'.manifest = [storage |-> job.storage, files |-> job.manifest]
        /\ disk'.state = disk.state
    BY <1>1 DEF ReleaseInv, DiskOK
  <2> QED
    BY <1>3, <1>5, <2>1 DEF RightOrder, DiskNames
<1>7. CASE job.kind = "upload"
  <2>1. job' = Idle /\ mempool' = mempool /\ Idle.pc = "idle"
    BY <1>7 DEF FinishUpload, Idle
  <2>2. JobNames(Idle, chain, art) /\ QueueOK(Idle, art)
        /\ Predictions(Idle, chain, mempool, "none", art, Order(art))
    BY <2>1, IdleRight
  <2> QED
    BY <1>1, <1>6, <2>1, <2>2, GotoRight
<1>8. CASE job.kind # "upload"
  <2> DEFINE tx == [to |-> "create", op |-> "PhilLayerRegistry", storage |-> job.storage]
             next == [job EXCEPT !.pc = "registry"]
  <2>1. job' = next /\ mempool' = Append(mempool, tx)
    BY <1>8 DEF FinishUpload
  <2>2. SamePlace(job, next) /\ next.pc = "registry"
    BY <1>3 DEF Uploads, SamePlace
  <2>3. TxInOrder(tx, chain, Order(art)) /\ next.pc \in Late
    BY <2>2 DEF TxInOrder, Late
  <2> HIDE DEF tx, next
  <2>4. JobNames(next, chain, art) /\ QueueOK(next, art)
        /\ Predictions(next, chain, <<tx>>, "none", art, Order(art))
    BY <1>1, <2>2, <2>3, MovesOn, LatePredictions
  <2> QED
    BY <1>1, <1>6, <2>1, <2>3, <2>4, SendRight
<1> QED
  BY <1>7, <1>8

LEMMA RegisterNextRight ==
    ASSUME ReleaseInv, RightOrder, job.pc \in Late, NEW next, next \in Uploads(next, chain),
           Calls(next.plan), SamePlace(job, next), RegisterNext(next)
    PROVE  RightOrder'
<1>1. CASE next.plan # <<>>
  <2> DEFINE then == [next EXCEPT !.pc = "register", !.plan = Tail(@)]
             tx == Head(next.plan)
  <2>1. Send(tx, then)
    BY <1>1 DEF RegisterNext
  <2>2. tx.to = "registry"
    <3>1. 1 \in DOMAIN next.plan /\ tx = next.plan[1]
      BY <1>1, IsSeqProperties DEF Calls, IsSeq
    <3> QED
      BY <3>1 DEF Calls
  <2>3. SamePlace(job, then) /\ then.pc = "register" /\ then.pc \in Late
    BY DEF Uploads, SamePlace, Late
  <2> HIDE DEF then, tx
  <2>4. JobNames(then, chain, art) /\ QueueOK(then, art)
        /\ Predictions(then, chain, <<tx>>, "none", art, Order(art))
    BY <2>3, MovesOn, LatePredictions
  <2>5. TxInOrder(tx, chain, Order(art))
    BY <2>2 DEF TxInOrder
  <2> QED
    BY <2>1, <2>4, <2>5, DiskStays, SendRight DEF Send
<1>2. CASE next.plan = <<>>
  <2> DEFINE then == [next EXCEPT !.pc = "nft"]
             tx == [to |-> "create", op |-> "PhilNFT", registry |-> next.registry,
                    storage |-> next.storage]
  <2>1. Send(tx, then)
    BY <1>2 DEF RegisterNext
  <2>3. SamePlace(job, then) /\ then.pc = "nft" /\ then.pc \in Late
    BY DEF Uploads, SamePlace, Late
  <2>5. TxInOrder(tx, chain, Order(art))
    BY DEF TxInOrder
  <2> HIDE DEF then, tx
  <2>4. JobNames(then, chain, art) /\ QueueOK(then, art)
        /\ Predictions(then, chain, <<tx>>, "none", art, Order(art))
    BY <2>3, MovesOn, LatePredictions
  <2> QED
    BY <2>1, <2>4, <2>5, DiskStays, SendRight DEF Send
<1> QED
  BY <1>1, <1>2

LEMMA RegistryDeployedRight == ASSUME ReleaseInv, RightOrder, RegistryDeployed PROVE RightOrder'
<1> DEFINE registry == Len(chain.registries)
           plan == Registrations(registry)
           next == [job EXCEPT !.registry = registry, !.plan = plan]
<1>1. job.pc = "registry" /\ RegisterNext(next) /\ Uploading /\ job.pc \in Late
  BY DEF RegistryDeployed, Succeeded, Uploading, Late
<1>2. job \in Uploads(job, chain) /\ registry \in Nat
  BY <1>1, UploadFacts, ChainFacts DEF ReleaseInv
<1>3. Calls(plan)
  BY <1>1, RegistrationsAreCalls
<1> HIDE DEF registry, plan
<1>4. next \in Uploads(next, chain) /\ next.plan = plan /\ SamePlace(job, next)
  BY <1>2 DEF Uploads, SamePlace
<1> HIDE DEF next
<1> QED
  BY <1>1, <1>3, <1>4, RegisterNextRight

LEMMA RegisteredRight == ASSUME ReleaseInv, RightOrder, Registered PROVE RightOrder'
<1>1. RegisterNext(job) /\ job.pc = "register" /\ job.pc \in Late
  BY DEF Registered, Succeeded, Late
<1>2. UploadOK(job, chain, disk.catalog) /\ SamePlace(job, job)
  BY <1>1, UploadFacts DEF Uploading, SamePlace
<1>3. job \in Uploads(job, chain) /\ Calls(job.plan)
  BY <1>2 DEF UploadOK, Calls
<1> QED
  BY <1>1, <1>2, <1>3, RegisterNextRight

LEMMA PublishRight == ASSUME ReleaseInv, RightOrder, Publish PROVE RightOrder'
<1>1. /\ job' = Idle /\ receipt' = "none" /\ art' = art /\ chain' = chain
      /\ mempool' = mempool /\ disk'.state = disk.state /\ disk'.manifest = disk.manifest
  BY DEF Publish, ReleaseInv, DiskOK
<1>2. DiskNames(disk', chain, art)
  BY <1>1 DEF RightOrder, DiskNames
<1>3. JobNames(Idle, chain, art) /\ QueueOK(Idle, art)
      /\ Predictions(Idle, chain, mempool, "none", art, Order(art))
  BY IdleRight DEF Idle
<1> QED
  BY <1>1, <1>2, <1>3, GotoRight

LEMMA FailedRight ==
    ASSUME ReleaseInv, RightOrder
    PROVE  /\ JobNames(Failed, chain, art) /\ QueueOK(Failed, art)
           /\ Predictions(Failed, chain, mempool, "none", art, Order(art))
<1>1. CASE job.pc = "batch"
  <2>1. UploadOK(job, chain, disk.catalog)
    BY <1>1, UploadFacts DEF Uploading
  <2>2. job.batches # <<>>
    BY <1>1, <2>1 DEF UploadOK
  <2> QED
    BY <1>1, <2>2, BatchFailedRight DEF Failed
<1>2. CASE job.pc # "batch"
  BY <1>2, IdleRight DEF Failed, Idle
<1> QED
  BY <1>1, <1>2

LEMMA SeeRevertRight == ASSUME ReleaseInv, RightOrder, SeeRevert PROVE RightOrder'
  BY FailedRight, DiskStays, GotoRight DEF SeeRevert, Goto

LEMMA TimeOutRight == ASSUME ReleaseInv, RightOrder, TimeOut PROVE RightOrder'
  BY FailedRight, DiskStays, GotoRight DEF TimeOut

-----------------------------------------------------------------------------
(* Every step keeps the order.                                             *)
LEMMA RightInit == ASSUME Init PROVE RightOrder
<1>1. /\ chain = [storages |-> <<>>, registries |-> <<>>, nfts |-> <<>>] /\ mempool = <<>>
      /\ job = Idle
      /\ disk.state = [storage |-> 0, files |-> NoIds]
      /\ disk.manifest = [storage |-> 0, files |-> NoIds]
  BY DEF Init
<1>2. ChainInOrder(chain, Order(art)) /\ PoolInOrder(mempool, chain, Order(art))
  BY <1>1 DEF ChainInOrder, PoolInOrder
<1>3. DiskNames(disk, chain, art)
  BY <1>1 DEF DiskNames, AllName, Names, NoIds
<1>4. Idle.pc = "idle" /\ job.pc \notin {"finalize"}
  BY <1>1 DEF Idle
<1>5. JobNames(job, chain, art) /\ QueueOK(job, art)
      /\ Predictions(job, chain, mempool, receipt, art, Order(art))
  BY <1>1, <1>4 DEF JobNames, QueueOK, Predictions, Working
<1> QED
  BY <1>2, <1>3, <1>5 DEF RightOrder

LEMMA UploadRight == ASSUME ReleaseInv, RightOrder, Upload PROVE RightOrder'
  BY AlreadyStoredRight, CollectSmallRight, MeetChunkedRight, EndScanRight, SendBatchRight,
     BatchStoredRight, FlushedRight, StartChunkedRight, InitializedRight, UploadChunksRight,
     AppendedRight, CompleteRight, FinalizedRight, FinishUploadRight DEF Upload

LEMMA ArtStays == ASSUME [Next]_vars, ~Edit PROVE art' = art
<1>1. CASE Upload
  BY <1>1 DEF Upload, AlreadyStored, CollectSmall, MeetChunked, EndScan, SendBatch,
     BatchStored, Flushed, StartChunked, Initialized, UploadChunks, Appended, Complete,
     Finalized, FinishUpload, ChunkedEntry, Enter, Goto, Send, SendIfAccepted
<1>2. CASE Script /\ ~Upload
  BY <1>2 DEF Script, StorageDeployed, RegistryDeployed, Registered, RegisterNext, Publish,
     SeeRevert, Goto, Send
<1>3. CASE ~Script
  BY <1>3 DEF Next, StartDeploy, StartUpload, TimeOut, Mine, MineOutOfGas, MineWith,
     Drop, Mint, vars
<1> QED
  BY <1>1, <1>2, <1>3

LEMMA NextRight == ASSUME ReleaseInv, OrderInv, [Next]_vars PROVE OrderInv'
<1>1. CASE Edit
  <2>1. art'.edited
    BY <1>1 DEF Edit, ReleaseInv, ArtOK
  <2> QED
    BY <2>1 DEF OrderInv
<1>2. CASE ~Edit
  <2>1. art' = art
    BY <1>2, ArtStays
  <2>2. ASSUME RightOrder PROVE RightOrder'
    <3>1. CASE Script
      BY <2>2, <3>1, UploadRight, StorageDeployedRight, RegistryDeployedRight,
         RegisteredRight, PublishRight, SeeRevertRight DEF Script
    <3>2. CASE StartDeploy \/ StartUpload \/ TimeOut \/ Mine \/ MineOutOfGas \/ Drop
      BY <2>2, <3>2, StartDeployRight, StartUploadRight, TimeOutRight, MineRight,
         MineOutOfGasRight, DropRight
    <3>3. CASE Mint \/ UNCHANGED vars
      BY <2>2, <3>3 DEF Mint, vars, RightOrder
    <3> QED
      BY <1>2, <3>1, <3>2, <3>3 DEF Next
  <2> QED
    BY <2>1, <2>2 DEF OrderInv
<1> QED
  BY <1>1, <1>2

(* While no file is edited, every storage holds a prefix of the contents   *)
(* in the order of the catalog, each pending upload adds to it in that     *)
(* order, and the ids that the script has predicted, saved or entered in   *)
(* the manifest are those that its contents have or will get.              *)
THEOREM StorageOrder == Spec => []OrderInv
<1>1. Init => OrderInv
  BY RightInit DEF OrderInv
<1>2. ReleaseInv /\ OrderInv /\ [Next]_vars => OrderInv'
  BY NextRight
<1> QED
  BY <1>1, <1>2, ReleaseInvariant, PTL DEF Spec

(* The manifest a script leaves names, for each file of the catalog, a     *)
(* readable record with the bytes of that file, as long as no file was     *)
(* edited.                                                                 *)
THEOREM ManifestsAreTrue == Spec => []ManifestNamesContent
<1>1. ASSUME ReleaseInv, OrderInv PROVE ManifestNamesContent
  <2> SUFFICES ASSUME ~art.edited, disk.manifest.storage # 0,
                      NEW f \in ToSet(art.catalog.assets)
               PROVE  LET store == chain.storages[disk.manifest.storage]
                          id == disk.manifest.files[f]
                      IN Readable(store, id) /\ store.records[id].contentHash = art.bytes[f]
    BY DEF ManifestNamesContent
  <2>1. DiskNames(disk, chain, art)
    BY <1>1 DEF OrderInv, RightOrder
  <2>2. f \in Files
    BY <1>1, ArtFacts, SeqRange DEF ReleaseInv, Catalog
  <2> QED
    BY <2>1, <2>2 DEF DiskNames, AllName, Names
<1> QED
  BY <1>1, ReleaseInvariant, StorageOrder, PTL
=============================================================================
