---------------------------- MODULE ActionTapping ---------------------------
(***************************************************************************)
(* quantum/action_tapping.c: whether a tap/hold key is tapped or held.     *)
(* The first such key that goes down becomes the tapping key; until it is  *)
(* settled (released, held for the tapping term, or decided by another     *)
(* key) most other events wait in a ring, and are replayed afterwards, one *)
(* of them possibly becoming the next tapping key.                         *)
(*                                                                         *)
(* action_tapping_process handles one event (Event, TickEvent) and then    *)
(* replays what waits, one record per step (Replay), until a record has to *)
(* keep waiting.  Ages replace timestamps: the age of a record is the time *)
(* since its event.  The main loop may be MaxLate late.                    *)
(*                                                                         *)
(* This is the build with per-key permissive hold and hold on other key    *)
(* press, without chordal hold, flow tap, retro shift and combos.          *)
(***************************************************************************)
EXTENDS KeyActions, Sequences, SequencesExt

CONSTANTS
    TappingTerm,    \* TAPPING_TERM
    QuickTapTerm,   \* QUICK_TAP_TERM
    BufferSize,     \* WAITING_BUFFER_SIZE
    MaxCount,       \* the limit of tap.count, 15 in the code
    MaxLate,        \* bound: time the main loop may let pass unnoticed
    Permissive,     \* keys for which get_permissive_hold() is true
    HoldOnOther     \* keys for which get_hold_on_other_key_press() is true

ASSUME TappingAssumption ==
    /\ TappingTerm \in Nat \ {0}
    /\ QuickTapTerm \in 0..TappingTerm
    /\ BufferSize \in Nat /\ BufferSize >= 2
    /\ MaxCount \in Nat \ {0, 1} /\ MaxLate \in Nat
    /\ Permissive \subseteq Keys /\ HoldOnOther \subseteq Keys

VARIABLES
    kbd,           \* what actions have done so far (KeyActions)
    tapping_key,   \* the record of the tapping key, or NoRecord
    waiting,       \* waiting_buffer from tail to head
    pc,            \* "ready" for an event, or "replay" of the waiting buffer
    held,          \* environment: keys that are down
    moved,         \* environment: keys that have changed since the last tick
    overflowed,    \* history: the waiting buffer has overflowed since Clean
    overtaken      \* history: since Clean, an event was handled or marked as a
                   \*   tap ahead of a waiting event of its key

vars == <<kbd, tapping_key, waiting, pc, held, moved, overflowed, overtaken>>

MaxAge == TappingTerm + MaxLate

\* keyrecord_t.  The zero record is no event; a tick is one too.
Record   == [key : Keys \cup {NoKey}, pressed : BOOLEAN, age : 0..MaxAge,
             count : 0..MaxCount, interrupted : BOOLEAN]
NoRecord == [key |-> NoKey, pressed |-> FALSE, age |-> 0, count |-> 0, interrupted |-> FALSE]
Tick     == NoRecord
NewEvent(k, down) ==
    [key |-> k, pressed |-> down, age |-> 0, count |-> 0, interrupted |-> FALSE]

TypeOK ==
    /\ kbd.codes \subseteq (Keys \X Layers)
    /\ kbd.layers \subseteq Layers
    /\ kbd.cache \in [Keys -> Layers]
    /\ tapping_key \in Record
    /\ waiting \in Seq(Record) /\ Len(waiting) < BufferSize
    /\ pc \in {"ready", "replay"}
    /\ held \subseteq Keys /\ moved \subseteq Keys
    /\ overflowed \in BOOLEAN /\ overtaken \in BOOLEAN

Init ==
    /\ kbd = InitKeyboard
    /\ tapping_key = NoRecord /\ waiting = <<>> /\ pc = "ready"
    /\ held = {} /\ moved = {} /\ overflowed = FALSE /\ overtaken = FALSE

-----------------------------------------------------------------------------
\* WITHIN_TAPPING_TERM and WITHIN_QUICK_TAP_TERM, of a record against the
\* tapping key.  The difference is unsigned: a record older than the tapping key
\* is within no term.
WithinTerm(t, r)  == t.age - r.age \in 0..(TappingTerm - 1)
WithinQuick(t, r) == t.age - r.age \in 0..(QuickTapTerm - 1)

\* waiting_buffer_typed: the opposite event of the same key is waiting.
Typed(r) == \E i \in DOMAIN waiting : waiting[i].key = r.key /\ waiting[i].pressed # r.pressed

\* The outcome of process_tapping: new tapping key, keyboard and waiting
\* records, the record itself (its tap state may be set) and the result.
Outcome(t, h, w, r, done) == [tap |-> t, kbd |-> h, waiting |-> w, rec |-> r, done |-> done]
Passed(r)     == Outcome(tapping_key, ProcessRecord(kbd, r), waiting, r, TRUE)
Ignored(r)    == Outcome(tapping_key, kbd, waiting, r, TRUE)
KeptBack(r)   == Outcome(tapping_key, kbd, waiting, r, FALSE)

\* The tapping key is settled as held.
Held(r)       == Outcome(NoRecord, ProcessRecord(kbd, tapping_key), waiting, r, FALSE)

\* Mutation: the release found while scanning keeps its tap count.
MutBeginTap(h, r) ==
    LET releases == {i \in DOMAIN waiting : /\ waiting[i].key = r.key /\ ~waiting[i].pressed
                                            /\ WithinTerm(r, waiting[i])}
    IN  IF releases = {} THEN Outcome(r, h, waiting, r, TRUE)
        ELSE LET t == [r EXCEPT !.count = 1]
             IN  Outcome(t, ProcessRecord(h, t), waiting, r, TRUE)

\* A press becomes the tapping key; waiting_buffer_scan_tap: if its release is
\* already waiting, it is a tap, and both are marked as one.
BeginTap(h, r) ==
    LET releases == {i \in DOMAIN waiting : /\ waiting[i].key = r.key /\ ~waiting[i].pressed
                                            /\ WithinTerm(r, waiting[i])}
    IN  IF releases = {} THEN Outcome(r, h, waiting, r, TRUE)
        ELSE LET i == CHOOSE j \in releases : \A m \in releases : j <= m
                 t == [r EXCEPT !.count = 1]
             IN  Outcome(t, ProcessRecord(h, t), [waiting EXCEPT ![i].count = 1], r, TRUE)

\* A record with the tap state of the tapping key.
WithTap(r, t) == [r EXCEPT !.count = t.count, !.interrupted = t.interrupted]

IsPress(r)   == r.key # NoKey /\ r.pressed
IsRelease(r) == r.key # NoKey /\ ~r.pressed
TapPress(r)  == IsPress(r) /\ IsTapKey(r.key, kbd.layers)
OwnRelease(r) == r.key = tapping_key.key /\ ~r.pressed

\* No tapping key.
Idle(r) ==
    IF r.key = NoKey THEN Ignored(r)
    ELSE IF TapPress(r) THEN BeginTap(kbd, r) ELSE Passed(r)

\* Releases of modifiers and layers of keys pressed before the tapping key have
\* to wait for it.
Retained(r) ==
    LET act == CurrentAction(r.key, kbd.layers)
    IN  \/ act.kind \in {"mod", "layer_tap", "momentary"}
        \/ act.kind = "mod_tap" /\ r.count = 0

\* The tapping key is down and not settled.
Unsettled(r) ==
    LET t == tapping_key
        tapped      == [t EXCEPT !.count = 1]
        interrupted == [t EXCEPT !.interrupted = TRUE]
    IN  CASE r.key = NoKey -> Ignored(r)
          [] OwnRelease(r) ->
                Outcome(tapped, ProcessRecord(kbd, tapped), waiting, WithTap(r, tapped), FALSE)
          [] IsRelease(r) /\ ~OwnRelease(r) /\ Typed(r) ->
                IF t.key \in Permissive THEN Held(r) ELSE KeptBack(r)
          [] IsRelease(r) /\ ~OwnRelease(r) /\ ~Typed(r) ->
                IF Retained(r) THEN KeptBack(r) ELSE Passed(r)
          [] IsPress(r) ->
                IF t.key \in HoldOnOther
                THEN Outcome(NoRecord, ProcessRecord(kbd, interrupted), waiting, r, FALSE)
                ELSE Outcome(interrupted, kbd, waiting, r, FALSE)

\* Another tap/hold key goes down while the tapping key is settled as tapped.
\* After several taps, the tapping key is still down and is released first.
NewTap(r) ==
    IF tapping_key.count > 1
    THEN BeginTap(ProcessRecord(kbd, [tapping_key EXCEPT !.pressed = FALSE]), r)
    ELSE BeginTap(kbd, r)

\* The tapping key is down and settled as tapped; after the tapping term its
\* release ends the sequence of taps.
Settled(r) ==
    LET own == WithTap(r, tapping_key)
    IN  CASE r.key = NoKey -> Ignored(r)
          [] OwnRelease(r) -> Outcome(IF WithinTerm(tapping_key, r) THEN own ELSE NoRecord,
                                      ProcessRecord(kbd, own), waiting, own, TRUE)
          [] TapPress(r) -> NewTap(r)
          [] OTHER -> Passed(r)

\* Mutation: the tap count has no limit.
MutNextCount(n) == n + 1

\* The count of a further tap
NextCount(n) == IF n < MaxCount THEN n + 1 ELSE n

\* The tapping key has been released, and a further tap may follow.
Released(r) ==
    LET t    == tapping_key
        more == [WithTap(r, t) EXCEPT !.count = NextCount(@)]
    IN  CASE r.key = NoKey -> Ignored(r)
          [] IsPress(r) /\ r.key = t.key ->
                IF WithinQuick(t, r) /\ ~t.interrupted /\ t.count > 0
                THEN Outcome(more, ProcessRecord(kbd, more), waiting, more, TRUE)
                ELSE Outcome(r, kbd, waiting, r, TRUE)
          [] IsPress(r) /\ r.key # t.key ->
                IF TapPress(r) THEN BeginTap(kbd, r)
                ELSE [Passed(r) EXCEPT !.tap = [t EXCEPT !.interrupted = TRUE]]
          [] IsRelease(r) -> Passed(r)

\* Mutation: a tick does not notice the end of the tapping term.
MutUndecided(r) ==
    IF r.key = NoKey \/ WithinTerm(tapping_key, r) THEN Unsettled(r) ELSE Held(r)

\* The tapping key is down with no tap: after the tapping term it is held.
Undecided(r) == IF WithinTerm(tapping_key, r) THEN Unsettled(r) ELSE Held(r)

\* process_tapping
ProcessTapping(r) ==
    LET t == tapping_key
    IN  CASE t.key = NoKey -> Idle(r)
          [] t.key # NoKey /\ t.pressed /\ t.count > 0 -> Settled(r)
          [] t.key # NoKey /\ t.pressed /\ t.count = 0 -> Undecided(r)
          [] t.key # NoKey /\ ~t.pressed ->
                IF WithinTerm(t, r) THEN Released(r)
                ELSE Outcome(NoRecord, kbd, waiting, r, FALSE)

\* waiting_buffer_enq refuses the record: everything is cleared.
Overflow(o) ==
    /\ kbd' = ClearKeyboard(o.kbd)
    /\ waiting' = <<>> /\ tapping_key' = NoRecord /\ overflowed' = TRUE

\* Every key is up, and nothing is pressed, on or waiting.
Clean ==
    /\ held = {} /\ waiting = <<>> /\ tapping_key.key = NoKey
    /\ kbd.codes = {} /\ kbd.mods = {} /\ kbd.layers = {}

\* action_tapping_process up to its loop: a record that was not consumed is
\* appended to the waiting buffer; ticks are not.
Process(r) ==
    \E o \in {ProcessTapping(r)} :
        /\ pc = "ready" /\ pc' = "replay"
        /\ overtaken' = ((overtaken /\ ~Clean) \/ ((o.done \/ o.rec # r) /\ Typed(r)))
        /\ \/ /\ o.done \/ r.key = NoKey
              /\ kbd' = o.kbd /\ tapping_key' = o.tap /\ waiting' = o.waiting
              /\ overflowed' = (overflowed /\ ~Clean)
           \/ /\ ~o.done /\ r.key # NoKey /\ Len(o.waiting) < BufferSize - 1
              /\ kbd' = o.kbd /\ tapping_key' = o.tap /\ waiting' = Append(o.waiting, o.rec)
              /\ overflowed' = (overflowed /\ ~Clean)
           \/ /\ ~o.done /\ r.key # NoKey /\ Len(o.waiting) = BufferSize - 1
              /\ Overflow(o)

\* The loop of action_tapping_process: the oldest waiting record, which leaves
\* the buffer when it is consumed.
Replay ==
    /\ pc = "replay"
    /\ \/ /\ waiting = <<>> /\ pc' = "ready"
          /\ UNCHANGED <<kbd, tapping_key, waiting>>
       \/ /\ waiting # <<>>
          /\ \E o \in {ProcessTapping(Head(waiting))} :
                /\ kbd' = o.kbd /\ tapping_key' = o.tap
                /\ \/ o.done  /\ waiting' = Tail(o.waiting) /\ UNCHANGED pc
                   \/ ~o.done /\ waiting' = [o.waiting EXCEPT ![1] = o.rec] /\ pc' = "ready"
    /\ UNCHANGED <<held, moved, overflowed, overtaken>>

\* matrix_task: a key has changed.  Debouncing leaves at least a tick between
\* two changes of one key.
KeyEvent(k) ==
    /\ k \notin moved
    /\ Process(NewEvent(k, k \notin held))
    /\ held' = Toggled(held, k, k \notin held)
    /\ moved' = moved \cup {k}

\* generate_tick_event, in a turn of the main loop in which no key changed.
TickEvent ==
    /\ Process(Tick)
    /\ moved' = {} /\ UNCHANGED held

\* A millisecond passes.  A tick comes before a record that waits for it gets
\* older than MaxAge; beyond that the age of a settled tapping key makes no
\* difference.
Older(r) == IF r.key = NoKey THEN r ELSE [r EXCEPT !.age = @ + 1]

Elapse ==
    /\ pc = "ready"
    /\ tapping_key.key # NoKey \/ waiting # <<>>
    /\ \A r \in {tapping_key} \cup Range(waiting) : r.age < MaxAge
    /\ tapping_key' = Older(tapping_key)
    /\ waiting' = [i \in DOMAIN waiting |-> Older(waiting[i])]
    /\ UNCHANGED <<kbd, pc, held, moved, overflowed, overtaken>>

Next == (\E k \in Keys : KeyEvent(k)) \/ TickEvent \/ Replay \/ Elapse

\* The main loop runs, and time passes whatever it does.
Fairness == WF_vars(Replay) /\ WF_vars(TickEvent) /\ SF_vars(Elapse)

Spec == Init /\ [][Next]_vars /\ Fairness
-----------------------------------------------------------------------------
\* Every key is up and no event waits.
AtRest == pc = "ready" /\ waiting = <<>> /\ held = {}

\* Nothing stays pressed: once every key is up and no event waits, no key code
\* and no modifier is registered, even after an overflow, and no layer is on
\* unless the waiting buffer has overflowed.  An event handled, or settled as the
\* tap of its key, before a waiting event of that key is the exception (NoKeyLeft).
NothingStuck ==
    AtRest /\ ~overtaken => /\ kbd.codes = {} /\ kbd.mods = {}
                            /\ kbd.layers = {} \/ overflowed

\* The same with no exception: what is pressed is released ("they may get stuck
\* otherwise", store_or_get_action).
NoKeyLeft == AtRest => kbd.codes = {} /\ kbd.mods = {} /\ kbd.layers = {}

\* Whatever keys are down, when no key changes any more every waiting event is
\* handled and no tap/hold key stays undecided.
Resolves ==
    <>[][FALSE]_held => <>[](waiting = <<>> /\ ~(tapping_key.pressed /\ tapping_key.count = 0))
=============================================================================
