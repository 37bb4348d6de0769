----------------------------- MODULE SnapClick ------------------------------
(***************************************************************************)
(* keyboards/keychron/common/snap_click: of a pair of keys that are held   *)
(* together only one is reported, or none.  Every key event passes all     *)
(* pairs in turn (process_record_snap_click); a pair that has both keys    *)
(* down takes the event and edits the report itself, and the remaining     *)
(* pairs and the rest of the firmware do not see it.                       *)
(*                                                                         *)
(* The host can change the pairs at any time.                              *)
(***************************************************************************)
EXTENDS Integers, FiniteSets

CONSTANTS
    NPairs,        \* SNAP_CLICK_COUNT
    Codes,         \* key codes; each is on one key
    Modifiers,     \* the codes that are modifiers
    Configs,       \* the configurations the host sends
    SetWhileHeld   \* whether it may send one while keys of a pair are held

Pairs == 1..NPairs
Types == {"none", "regular", "last_input", "first_key", "second_key", "neutral"}

\* snap_click_config_t, as far as snap_click_set accepts it: a key code of zero
\* is refused in a pair that has a type.
PairConfig == [type : Types, key0 : Codes, key1 : Codes]
NoPairs    == [i \in Pairs |-> [type |-> "none", key0 |-> CHOOSE k \in Codes : TRUE,
                                key1 |-> CHOOSE k \in Codes : TRUE]]

ASSUME SnapAssumption ==
    /\ NPairs \in Nat
    /\ Codes # {} /\ Modifiers \subseteq Codes
    /\ Configs \subseteq [Pairs -> PairConfig]
    /\ SetWhileHeld \in BOOLEAN

VARIABLES
    pair,      \* snap_click_pair
    state,     \* state_keys of snap_click_state: the indices, 0 and 1, of a pair
    stored,    \* snap_click_pair in the EEPROM
    report,    \* codes in the keyboard report
    held,      \* environment: codes of the keys that are down
    latest     \* history: for each pair, the index of the key pressed last

vars == <<pair, state, stored, report, held, latest>>

TypeOK ==
    /\ pair \in [Pairs -> PairConfig] /\ stored \in [Pairs -> PairConfig]
    /\ state \in [Pairs -> SUBSET {0, 1}]
    /\ report \subseteq Codes /\ held \subseteq Codes
    /\ latest \in [Pairs -> {0, 1}]

\* The state after snap_click_init.  last_single_key is left out: it is only read
\* as a part of the whole byte, and it is zero exactly when state_keys is.
Init ==
    /\ stored \in Configs \cup {NoPairs}
    /\ pair = stored
    /\ state = [i \in Pairs |-> {}]
    /\ report = {} /\ held = {}
    /\ latest = [i \in Pairs |-> 0]

-----------------------------------------------------------------------------
PairKeys(p) == IF p.type = "none" THEN {} ELSE {p.key0, p.key1}

\* index, the other way round and SC_MASK_BOTH_KEYS_PRESSED
Index(p, k) == IF k = p.key1 THEN 1 ELSE 0
Key(p, n)   == IF n = 1 THEN p.key1 ELSE p.key0
BothKeys    == {0, 1}

\* is_key_pressed looks at the key codes of the report, not at the modifiers.
IsKeyPressed(k) == k \in report \ Modifiers

\* The pairs the key belongs to, and those that take its event: the press of the
\* second key, the release of one of two.
Hit(k) == {i \in Pairs : k \in PairKeys(pair[i])}
TakesPress(k)   == {i \in Hit(k) : state[i] # {} /\ Index(pair[i], k) \notin state[i]}
TakesRelease(k) == {i \in Hit(k) : state[i] = BothKeys}
First(i, S) == i \in S /\ \A j \in S : i <= j
Before(i, S) == \A j \in S : i < j

\* The report when both keys of the pair are down and k was the second.
BothPressed(p, k) ==
    LET other == Key(p, 1 - Index(p, k))
    IN  CASE p.type \in {"regular", "last_input"} -> (report \ {other}) \cup {k}
          [] p.type = "first_key"  -> (report \ {p.key1}) \cup {p.key0}
          [] p.type = "second_key" -> (report \ {p.key0}) \cup {p.key1}
          [] p.type = "neutral"    -> report \ {other}
          [] OTHER                 -> report

\* Mutation: the key that is still down is not registered again.
MutOneReleased(p, k) == report \ {k}

\* The report when k, one of two keys that were down, is released.
OneReleased(p, k) ==
    LET other == Key(p, 1 - Index(p, k))
    IN  CASE p.type = "regular" -> report \ {k}
          [] p.type \in {"last_input", "first_key", "second_key"} ->
                (IF IsKeyPressed(k) THEN report \ {k} ELSE report) \cup {other}
          [] p.type = "neutral" -> report \cup {other}
          [] OTHER              -> report

\* process_record_snap_click for a press, and register_code when no pair takes it
Press(k) ==
    LET takers == TakesPress(k)
    IN  /\ k \notin held
        /\ state' = [i \in Pairs |->
                        IF First(i, takers) THEN BothKeys
                        ELSE IF i \in Hit(k) /\ Before(i, takers) /\ state[i] = {}
                        THEN {Index(pair[i], k)} ELSE state[i]]
        /\ \/ takers = {} /\ report' = report \cup {k}
           \/ \E i \in takers : First(i, takers) /\ report' = BothPressed(pair[i], k)
        /\ held' = held \cup {k}
        /\ latest' = [i \in Pairs |-> IF i \in Hit(k) THEN Index(pair[i], k) ELSE latest[i]]
        /\ UNCHANGED <<pair, stored>>

\* Mutation: the other index is computed wrongly.
MutReleasedState(i, k) == IF state[i] = BothKeys THEN {2 - Index(pair[i], k)} ELSE {}

\* The state of a pair that sees the release of one of its keys
ReleasedState(i, k) == IF state[i] = BothKeys THEN {1 - Index(pair[i], k)} ELSE {}

\* process_record_snap_click for a release, and unregister_code when no pair takes it
Release(k) ==
    LET takers == TakesRelease(k)
    IN  /\ k \in held
        /\ state' = [i \in Pairs |->
                        IF i \in Hit(k) /\ (First(i, takers) \/ Before(i, takers))
                        THEN ReleasedState(i, k) ELSE state[i]]
        /\ \/ takers = {} /\ report' = report \ {k}
           \/ \E i \in takers : First(i, takers) /\ report' = OneReleased(pair[i], k)
        /\ held' = held \ {k}
        /\ UNCHANGED <<pair, stored, latest>>

\* No key of a pair of configuration c is down.
Idle(c) == \A i \in Pairs : PairKeys(c[i]) \cap held = {}

\* The code always accepts a new configuration; see SetWhileHeld.
MaySet(c) == SetWhileHeld \/ (Idle(pair) /\ Idle(c))

\* snap_click_set, of all pairs: the state of the pairs is left as it is.
Set(c) ==
    /\ MaySet(c)
    /\ pair' = c
    /\ UNCHANGED <<state, stored, report, held, latest>>

\* snap_click_save
Save == stored' = pair /\ UNCHANGED <<pair, state, report, held, latest>>

\* snap_click_config_reset
ConfigReset ==
    /\ MaySet(NoPairs)
    /\ pair' = NoPairs /\ stored' = NoPairs
    /\ UNCHANGED <<state, report, held, latest>>

\* The keyboard is switched off and on: snap_click_init.  A key that is down then
\* is a new press.
Restart ==
    /\ pair' = stored
    /\ state' = [i \in Pairs |-> {}]
    /\ report' = {} /\ held' = {}
    /\ UNCHANGED <<stored, latest>>

Next ==
    \/ \E k \in Codes : Press(k) \/ Release(k)
    \/ \E c \in Configs : Set(c)
    \/ Save \/ ConfigReset \/ Restart

Spec == Init /\ [][Next]_vars
-----------------------------------------------------------------------------
\* The keys of the pair that are down, as indices.
HeldOf(i) == {Index(pair[i], k) : k \in PairKeys(pair[i]) \cap held}

\* What the type of a pair promises: the keys of the pair in the report.
Wanted(i) ==
    LET p    == pair[i]
        down == PairKeys(p) \cap held
        last == Key(p, latest[i])
    IN  IF down = {p.key0, p.key1} /\ p.key0 # p.key1
        THEN CASE p.type \in {"regular", "last_input"} -> {last}
               [] p.type = "first_key"  -> {p.key0}
               [] p.type = "second_key" -> {p.key1}
               [] OTHER                 -> {}
        ELSE IF p.type = "regular" THEN down \cap {last} ELSE down

\* The report is what the types promise, whatever the order of presses and
\* releases: of a pair that is down the key its type selects, of a single key
\* that key (with "regular" only if it was pressed last), and every other key
\* that is down.  In particular no key is reported that is not down.
ReportAsConfigured ==
    /\ \A i \in Pairs : report \cap PairKeys(pair[i]) = Wanted(i)
    /\ \A k \in Codes : Hit(k) = {} => (k \in report <=> k \in held)

\* "Both keys are pressed" (process_record_snap_click): a pair that counts as
\* active has both keys down.
ActivePairIsDown ==
    \A i \in Pairs : state[i] = BothKeys => PairKeys(pair[i]) \subseteq held
=============================================================================
