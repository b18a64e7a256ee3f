------------------------------ MODULE PhilNFT ------------------------------
(***************************************************************************)
(* contracts/PhilNFT.sol: the selections a mint may draw from a registry.  *)
(* The seed is a hash of the block, so every cursor it may give is tried.  *)
(* A token keeps MaxSelectionsPerLayer slots for each layer in one array.  *)
(***************************************************************************)
EXTENDS LayerRegistry, FiniteSetsExt

CONSTANTS
    MaxLayerCount,          \* MAX_LAYER_COUNT
    MaxSelectionsPerLayer,  \* MAX_SELECTIONS_PER_LAYER
    BodyLayer,              \* BODY_LAYER_ID
    BodyBaseLayer           \* BODY_BASE_LAYER_ID

LayerIds == 0 .. MaxLayerCount - 1
ZeroIndexedLayers == [i \in 1 .. MaxLayerCount |-> i - 1]

TightSlot(l, i) == 2 * l + i
SlotOf(l, i) == l * MaxSelectionsPerLayer + i

Blank == [slots |-> [s \in 0 .. MaxLayerCount * MaxSelectionsPerLayer - 1 |-> 0],
          counts |-> [l \in LayerIds |-> 0]]

LayerSelections(token, l) ==
    [i \in 1 .. token.counts[l] |-> token.slots[SlotOf(l, i - 1)]]

WithSelections(token, l, count, picks) ==
    [slots |-> [s \in DOMAIN token.slots |->
                   IF \E i \in DOMAIN picks : s = SlotOf(l, i - 1)
                   THEN picks[CHOOSE i \in DOMAIN picks : s = SlotOf(l, i - 1)]
                   ELSE token.slots[s]],
     counts |-> [token.counts EXCEPT ![l] = count]]

(* The first of the wanted variants at or after the cursor, going round.   *)
FirstFrom(variants, cursor, wanted) ==
    LET At(k) == variants[((cursor + k) % Len(variants)) + 1]
    IN At(Min({k \in 0 .. Len(variants) - 1 : At(k) \in wanted}))

PickAny(variants, chosen, cursor) == variants[cursor + 1]
PickOne(variants, chosen, cursor) == FirstFrom(variants, cursor, ToSet(variants) \ ToSet(chosen))

PickDistinct(variants, cursors) ==
    FoldLeft(LAMBDA chosen, cursor : Append(chosen, PickOne(variants, chosen, cursor)),
             <<>>, cursors)

Counts(layer) == layer.min .. layer.max
Cursors(variants) == 0 .. Len(variants) - 1

OrdinarySelections(registry, token, l) ==
    LET layer == registry.layers[l + 1]
        variants == LayerVariantIds(registry, l)
    IN IF variants = <<>> \/ layer.max = 0 THEN {token}
       ELSE UNION {LET n == Min({count, Len(variants)})
                   IN {WithSelections(token, l, n, PickDistinct(variants, cursors)) :
                          cursors \in [1 .. n -> Cursors(variants)]} : count \in Counts(layer)}

Color(registry, v) == registry.variants[v].color

(* The base under the body may repeat its colour once in sixteen times, or *)
(* when there is no other colour.                                          *)
BodyBaseVariants(registry, body, v) ==
    LET variants == LayerVariantIds(registry, BodyBaseLayer)
        others == {w \in ToSet(variants) : Color(registry, w) # Color(registry, body)}
    IN IF v \in others \/ others = {} THEN {v}
       ELSE {v} \cup {FirstFrom(variants, c, others) : c \in Cursors(variants)}

BodyBaseSelections(registry, token) ==
    LET layer == registry.layers[BodyBaseLayer + 1]
        variants == LayerVariantIds(registry, BodyBaseLayer)
        body == token.slots[SlotOf(BodyLayer, 0)]
    IN IF variants = <<>> \/ layer.max = 0 \/ token.counts[BodyLayer] = 0 \/ body = 0 THEN {token}
       ELSE UNION {IF count = 0 THEN {token}
                   ELSE {WithSelections(token, BodyBaseLayer, count, <<w>>) :
                            w \in UNION {BodyBaseVariants(registry, body, v) : v \in ToSet(variants)}}
                   : count \in Counts(layer)}

IsBodyBaseLayer(registry, l) == l = BodyBaseLayer /\ registry.layers[l + 1].name = "BodyBase"

AssignSelections(registry) ==
    FoldLeft(LAMBDA tokens, l :
                UNION {IF IsBodyBaseLayer(registry, l) THEN BodyBaseSelections(registry, t)
                       ELSE OrdinarySelections(registry, t, l) : t \in tokens},
             {Blank}, ZeroIndexedLayers)

(* The tokens a mint may make; none when the registry has not all layers.  *)
Mintable(registry) ==
    IF Len(registry.layers) = MaxLayerCount THEN AssignSelections(registry) ELSE {}

ShownVariants(token) == UNION {ToSet(LayerSelections(token, l)) : l \in LayerIds}
ShownAssets(registry, token) ==
    UNION {ToSet(registry.variants[v].assetIds) : v \in ShownVariants(token)}
=============================================================================
