----------------------------- MODULE MCRelease -----------------------------
(* A small instance of Release: two colours and five layers; a byte string *)
(* of one chunk, one of two chunks that fits a single upload, and two that *)
(* must be uploaded in parts, which two files share.                       *)
EXTENDS Release

MCColors == <<"Brown", "Coral">>
MCLayerOrder ==
    <<[name |-> "Spikes", min |-> 0, max |-> 0], [name |-> "Eyes", min |-> 1, max |-> 1],
      [name |-> "Body", min |-> 1, max |-> 1], [name |-> "BodyBase", min |-> 1, max |-> 1],
      [name |-> "BgOverlay", min |-> 1, max |-> 3]>>
MCGroups ==
    [l \in {"Spikes", "Eyes", "Body", "BodyBase", "BgOverlay"} |->
        CASE l \in {"Spikes", "Eyes"} -> <<>>
          [] l = "Body" -> <<"Body1">>
          [] l = "BodyBase" -> <<"BodyBase1">>
          [] OTHER -> <<"Overlay33">>]
MCEyePairs == <<[frames |-> "Eyes2Frame", lenses |-> "Eyes2Lens"]>>
MCAlternates == [l \in {"Spikes"} |-> <<"Spikes3">>]

File(d, c) == [dir |-> d, color |-> c, alt |-> FALSE]
Alternate(d, c) == [dir |-> d, color |-> c, alt |-> TRUE]
EachColor(d) == {File(d, c) : c \in ToSet(MCColors)}
MCFiles ==
    UNION {EachColor(d) : d \in {"Spikes3", "Eyes2Frame", "Eyes2Lens", "Body1", "BodyBase1",
                                 "BodyBase", "Overlay33"}}
    \cup {Alternate("Spikes3", c) : c \in ToSet(MCColors)}
Whole == MCFiles \ EachColor("BodyBase")
MCTrees ==
    {Whole,
     MCFiles \ (EachColor("BodyBase1") \cup EachColor("BodyBase")),
     Whole \ {File("Eyes2Lens", "Coral")},
     Whole \ {Alternate("Spikes3", "Brown")},
     Whole \ {File("Body1", "Brown")},
     (MCFiles \ EachColor("BodyBase1")) \ {File("BodyBase", "Coral")}}

Tiny == <<"a">>
Edge == <<"a", "b", "c">>
Long == <<"a", "b", "c", "d">>
Longer == <<"a", "b", "c", "d", "e">>
Other == <<"b">>
MCContents == {Tiny, Edge, Long, Longer, Other}
MCBytesOf ==
    [f \in MCFiles |->
        CASE f.dir = "Eyes2Frame" -> Edge
          [] f.dir = "Body1" -> Long
          [] f = File("Overlay33", "Coral") -> Longer
          [] f.dir = "BodyBase1" -> Other
          [] OTHER -> Tiny]
MCEdits == {[file |-> File("Body1", "Brown"), bytes |-> Tiny]}
=============================================================================
