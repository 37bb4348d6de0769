----------------------------- MODULE KeyActions -----------------------------
(***************************************************************************)
(* quantum/action.c and quantum/action_layer.c: what a key event that has  *)
(* been passed on does to the keyboard.  A key means, on each layer, a     *)
(* key code, a modifier, a tap/hold of a code and a modifier or a layer, a *)
(* momentary layer, or nothing of its own (transparent).                   *)
(*                                                                         *)
(* The press looks the action up on the layers that are on and remembers   *)
(* the layer it was found on; the release acts on that layer.              *)
(***************************************************************************)
EXTENDS Integers

CONSTANTS
    Keys,      \* positions in the matrix
    Layers,    \* layer numbers; 0 is the default layer, always on
    Keymap,    \* Keymap[k][l]: the action of key k on layer l
    NoKey      \* the position of a record that is no key event

Kinds == {"code", "mod", "mod_tap", "layer_tap", "momentary", "transparent"}

ASSUME KeymapAssumption ==
    /\ Layers \subseteq 0..31 /\ 0 \in Layers       \* layer_state_t has up to 32 bits
    /\ NoKey \notin Keys
    /\ \A k \in Keys, l \in Layers :
          /\ Keymap[k][l].kind \in Kinds
          /\ Keymap[k][l].kind \in {"layer_tap", "momentary"} => Keymap[k][l].arg \in Layers

\* layer_switch_get_layer: the highest layer that is on and not transparent here.
LayerFor(k, on) ==
    LET solid == {l \in on \cup {0} : Keymap[k][l].kind # "transparent"}
    IN  IF solid = {} THEN 0 ELSE CHOOSE l \in solid : \A m \in solid : m <= l

\* layer_switch_get_action
CurrentAction(k, on) == Keymap[k][LayerFor(k, on)]

\* is_tap_record, for a key event
IsTapKey(k, on) == CurrentAction(k, on).kind \in {"mod_tap", "layer_tap"}

\* store_or_get_action: the layer of a press is looked up, that of a release is
\* read from source_layers_cache.
SourceLayer(h, r) == IF r.pressed THEN LayerFor(r.key, h.layers) ELSE h.cache[r.key]

\* Adding on the press, removing on the release: register_code, register_mods,
\* layer_on and their counterparts.
Toggled(S, x, pressed) == IF pressed THEN S \cup {x} ELSE S \ {x}

\* The state that actions work on: key codes and modifiers in the report,
\* layers that are on, and source_layers_cache.
InitKeyboard == [codes |-> {}, mods |-> {}, layers |-> {}, cache |-> [k \in Keys |-> 0]]

\* update_source_layers_cache, on a press
Remember(h, r, l) == IF r.pressed THEN [h EXCEPT !.cache[r.key] = l] ELSE h

\* process_action, ACT_LMODS: a key code or a modifier
KeyAction(h, r, l) ==
    LET act == Keymap[r.key][l]
    IN  IF act.kind = "mod" THEN [h EXCEPT !.mods  = Toggled(@, act.arg, r.pressed)]
        ELSE                     [h EXCEPT !.codes = Toggled(@, <<r.key, l>>, r.pressed)]

\* process_action, ACT_LMODS_TAP: the code when the tap count is positive
ModsTapAction(h, r, l) ==
    IF r.count > 0 THEN [h EXCEPT !.codes = Toggled(@, <<r.key, l>>, r.pressed)]
    ELSE [h EXCEPT !.mods = Toggled(@, Keymap[r.key][l].arg, r.pressed)]

\* process_action, ACT_LAYER_TAP, of a tap/hold key and with OP_ON_OFF
LayerTapAction(h, r, l) ==
    LET act == Keymap[r.key][l]
    IN  IF act.kind = "layer_tap" /\ r.count > 0
        THEN [h EXCEPT !.codes  = Toggled(@, <<r.key, l>>, r.pressed)]
        ELSE [h EXCEPT !.layers = Toggled(@, act.arg, r.pressed)]

\* process_record: the action of the record, on the layer that is remembered
ProcessRecord(h, r) ==
    LET l    == SourceLayer(h, r)
        kind == Keymap[r.key][l].kind
        h1   == Remember(h, r, l)
    IN  CASE kind = "transparent"                 -> h1
          [] kind \in {"code", "mod"}             -> KeyAction(h1, r, l)
          [] kind = "mod_tap"                     -> ModsTapAction(h1, r, l)
          [] kind \in {"layer_tap", "momentary"}  -> LayerTapAction(h1, r, l)

\* clear_keyboard: codes and modifiers; layers are left alone.
ClearKeyboard(h) == [h EXCEPT !.codes = {}, !.mods = {}]
=============================================================================
