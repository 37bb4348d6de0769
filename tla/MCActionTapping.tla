--------------------------- MODULE MCActionTapping --------------------------
\* A keymap of four keys on two layers for TLC.
EXTENDS ActionTapping

CONSTANTS kA, kB, kC, kD

Code        == [kind |-> "code", arg |-> 0]
Trans       == [kind |-> "transparent", arg |-> 0]
Shift       == [kind |-> "mod", arg |-> "shift"]
ShiftTap    == [kind |-> "mod_tap", arg |-> "shift"]
LayerTap    == [kind |-> "layer_tap", arg |-> 1]
Momentary   == [kind |-> "momentary", arg |-> 1]

TwoLayers(base, upper) == [l \in {0, 1} |-> IF l = 0 THEN base ELSE upper]

MixedKeymap ==
    (kA :> TwoLayers(ShiftTap, Trans)) @@ (kB :> TwoLayers(LayerTap, Trans)) @@
    (kC :> TwoLayers(Code, ShiftTap))
=============================================================================
