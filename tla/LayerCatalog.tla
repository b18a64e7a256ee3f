---------------------------- MODULE LayerCatalog ----------------------------
(***************************************************************************)
(* src/layer-catalog.mjs: the catalog of layers, assets and variants that  *)
(* is built from the art directory, or the error that stops the build.     *)
(* A file is a directory, a colour and, in Spikes3, the alternate flag.    *)
(***************************************************************************)
EXTENDS Naturals, Sequences, SequencesExt, FiniteSets

CONSTANTS
    Colors,         \* PHIL_COLORS, in order
    LayerOrder,     \* the layers with their selection ranges, top first
    Groups,         \* layer name -> its directories of one asset per variant
    EyePairs,       \* pairs of a frame and a lens directory
    Alternates      \* layer name -> its directories with an alternate asset per colour

ASSUME CatalogAssumption ==
    /\ Colors \in Seq(ToSet(Colors)) /\ EyePairs \in Seq(ToSet(EyePairs))
    /\ LayerOrder \in Seq(ToSet(LayerOrder))
    /\ \A i \in DOMAIN LayerOrder : LayerOrder[i].name \in DOMAIN Groups
    /\ \A name \in DOMAIN Groups : Groups[name] \in Seq(ToSet(Groups[name]))
    /\ Alternates["Spikes"] \in Seq(ToSet(Alternates["Spikes"]))

ColorSet == ToSet(Colors)
FilesIn(tree, dir) == {f \in tree : f.dir = dir}
ListSvgFiles(tree, dir) ==
    FlattenSeq([k \in 1 .. 2 * Len(Colors) |->
        LET f == [dir |-> dir, color |-> Colors[(k + 1) \div 2], alt |-> k % 2 = 0]
        IN IF f \in tree THEN <<f>> ELSE <<>>])

NamesColors(files) == \A f \in files : f.color \in ColorSet
CoversColors(files) == \A c \in ColorSet : \E f \in files : f.color = c

FileOf(tree, dir, color) == CHOOSE f \in FilesIn(tree, dir) : f.color = color
VariantOf(files) == [color |-> files[1].color, assets |-> files]
OnePerFile(files) == [i \in DOMAIN files |-> VariantOf(<<files[i]>>)]

SingleAssetGroups(tree, dirs) ==
    LET files == FlattenSeq([i \in DOMAIN dirs |-> ListSvgFiles(tree, dirs[i])])
    IN [ok |-> \A d \in ToSet(dirs) :
                  NamesColors(FilesIn(tree, d)) /\ CoversColors(FilesIn(tree, d)),
        assets |-> files, variants |-> OnePerFile(files)]

Both(a, b) ==
    [ok |-> a.ok /\ b.ok, assets |-> a.assets \o b.assets, variants |-> a.variants \o b.variants]

(* A variant shows the frame and the lens of one colour.                   *)
EyePair(tree, pair) ==
    LET dirs == <<pair.frames, pair.lenses>>
        pieces == SingleAssetGroups(tree, dirs)
    IN IF ~pieces.ok THEN [ok |-> FALSE, assets |-> <<>>, variants |-> <<>>]
       ELSE [pieces EXCEPT !.variants =
               [i \in DOMAIN Colors |->
                   VariantOf([k \in 1 .. 2 |-> FileOf(tree, dirs[k], Colors[i])])]]

BuildEyesLayer(tree) ==
    LET pairs == [i \in DOMAIN EyePairs |-> EyePair(tree, EyePairs[i])]
    IN Both(SingleAssetGroups(tree, Groups["Eyes"]),
            [ok |-> \A i \in DOMAIN pairs : pairs[i].ok,
             assets |-> FlattenSeq([i \in DOMAIN pairs |-> pairs[i].assets]),
             variants |-> FlattenSeq([i \in DOMAIN pairs |-> pairs[i].variants])])

HasAlternates(files) ==
    \A c \in ColorSet : {f.alt : f \in {g \in files : g.color = c}} = BOOLEAN

BuildSpikesLayer(tree) ==
    LET dirs == Alternates["Spikes"]
        pairs == SingleAssetGroups(tree, dirs)
    IN Both(SingleAssetGroups(tree, Groups["Spikes"]),
            [pairs EXCEPT !.ok = @ /\ \A d \in ToSet(dirs) : HasAlternates(FilesIn(tree, d))])

(* One directory per body style, or the older flat directory, whose colours *)
(* need not be complete.                                                    *)
BuildBodyBaseLayer(tree) ==
    IF FilesIn(tree, Head(Groups["BodyBase"])) # {} THEN SingleAssetGroups(tree, Groups["BodyBase"])
    ELSE LET files == ListSvgFiles(tree, "BodyBase")
         IN [ok |-> NamesColors(ToSet(files)), assets |-> files, variants |-> OnePerFile(files)]

HasBodyBaseAssets(tree) ==
    \E f \in tree : f.dir = "BodyBase" \/ f.dir \in ToSet(Groups["BodyBase"])

PhilLayerOrder(tree) ==
    [i \in DOMAIN LayerOrder |->
        IF LayerOrder[i].name = "BodyBase" /\ ~HasBodyBaseAssets(tree)
        THEN [name |-> "Special", min |-> 0, max |-> 0]
        ELSE LayerOrder[i]]

BuildLayer(tree, name) ==
    CASE name = "Eyes" -> BuildEyesLayer(tree)
      [] name = "Spikes" -> BuildSpikesLayer(tree)
      [] name = "BodyBase" -> BuildBodyBaseLayer(tree)
      [] name = "Special" -> [ok |-> TRUE, assets |-> <<>>, variants |-> <<>>]
      [] OTHER -> SingleAssetGroups(tree, Groups[name])

(* EXPECTED_COUNTS, as multiples of the number of colours.                 *)
ExpectedAssets(name) ==
    Len(Colors) * CASE name = "Eyes" -> Len(Groups[name]) + 2 * Len(EyePairs)
                    [] name = "Spikes" -> Len(Groups[name]) + 2 * Len(Alternates[name])
                    [] name = "Special" -> 0
                    [] OTHER -> Len(Groups[name])
ExpectedVariants(name) ==
    ExpectedAssets(name) - (IF name = "Eyes" THEN Len(Colors) * Len(EyePairs) ELSE 0)

CountsExpected(layer) ==
    IF layer.name = "BodyBase" THEN layer.assets # <<>>
    ELSE /\ Len(layer.assets) = ExpectedAssets(layer.name)
         /\ Len(layer.variants) = ExpectedVariants(layer.name)

BuildLayerCatalog(tree) ==
    LET order == PhilLayerOrder(tree)
        built == [i \in DOMAIN order |-> BuildLayer(tree, order[i].name)]
        layers == [i \in DOMAIN order |->
                      [name |-> order[i].name, min |-> order[i].min, max |-> order[i].max,
                       assets |-> built[i].assets, variants |-> built[i].variants]]
    IN [ok |-> \A i \in DOMAIN order : built[i].ok /\ CountsExpected(layers[i]),
        layers |-> layers,
        assets |-> FlattenSeq([i \in DOMAIN order |-> layers[i].assets])]
=============================================================================
