---------------------------- MODULE LayerRegistry ----------------------------
(***************************************************************************)
(* contracts/PhilLayerRegistry.sol: layers, assets and variants, numbered  *)
(* in the order in which they are registered.  Ids of assets and variants  *)
(* start at 1 and those of layers at 0, as in the contract.                *)
(***************************************************************************)
EXTENDS Naturals, Sequences, SequencesExt

EmptyRegistry(storage) ==
    [svgStorage |-> storage, layers |-> <<>>, assets |-> <<>>, variants |-> <<>>]

Accepted(registry) == [ok |-> TRUE, registry |-> registry]
Refused(registry) == [ok |-> FALSE, registry |-> registry]

NextAssetId(registry) == Len(registry.assets) + 1
NextVariantId(registry) == Len(registry.variants) + 1
KnownLayer(registry, l) == l < Len(registry.layers)
KnownAsset(registry, a) == a \in DOMAIN registry.assets

LayerVariantIds(registry, l) ==
    SelectSeq([i \in DOMAIN registry.variants |-> i], LAMBDA i : registry.variants[i].layerId = l)

(* A batch is registered as a whole or not at all.                         *)
RegisterLayers(registry, inputs) ==
    IF \A i \in DOMAIN inputs : inputs[i].min <= inputs[i].max
    THEN Accepted([registry EXCEPT !.layers = @ \o inputs])
    ELSE Refused(registry)

RegisterAssets(registry, inputs) ==
    IF \A i \in DOMAIN inputs : KnownLayer(registry, inputs[i].layerId) /\ inputs[i].storageId # 0
    THEN Accepted([registry EXCEPT !.assets = @ \o inputs])
    ELSE Refused(registry)

RegisterVariants(registry, inputs) ==
    IF \A i \in DOMAIN inputs :
          /\ KnownLayer(registry, inputs[i].layerId)
          /\ inputs[i].assetIds # <<>>
          /\ \A a \in ToSet(inputs[i].assetIds) :
                KnownAsset(registry, a) /\ registry.assets[a].layerId = inputs[i].layerId
    THEN Accepted([registry EXCEPT !.variants = @ \o inputs])
    ELSE Refused(registry)
=============================================================================
