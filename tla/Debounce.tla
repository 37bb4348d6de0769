------------------------------ MODULE Debounce ------------------------------
(***************************************************************************)
(* keyboards/keychron/common/debounce: seven debounce algorithms between   *)
(* the matrix that the scan reads (raw) and the matrix that the firmware   *)
(* acts on (cooked), one of which is selected at run time by the host      *)
(* (debounce_rx), by a factory reset and by the stored configuration.      *)
(*                                                                         *)
(* Time is discrete: Tick lets a millisecond pass, and a scan is           *)
(* instantaneous, so any number of scans may fall into one millisecond and *)
(* any number of milliseconds between two scans.  A timestamp is kept as   *)
(* the time that has passed since it was taken, which the code limits to   *)
(* UINT8_MAX before it uses it; it is kept only while it may still be used *)
(* before it is taken again.                                               *)
(*                                                                         *)
(* Counters are allocated when an algorithm is selected and freed when it  *)
(* is left.  The flags and timestamps of each algorithm are static: they   *)
(* keep their values while another algorithm is in use.                    *)
(***************************************************************************)
EXTENDS Integers

CONSTANTS
    Keys,           \* the keys of the matrix
    Row,            \* the row of each key
    TimeMax,        \* UINT8_MAX
    AsymTimeMax,    \* the largest time a seven-bit counter holds
    Times,          \* the debounce times that are requested
    DefaultType,    \* DEFAULT_DEBOUNCE_TYPE
    DefaultTime,    \* DEBOUNCE
    SwitchAnytime   \* whether the algorithm may be changed while keys are in use

Rows == {Row[k] : k \in Keys}

Defer == {"sym_defer_g", "sym_defer_pr", "sym_defer_pk"}
Eager == {"sym_eager_pr", "sym_eager_pk"}
Types == Defer \cup Eager \cup {"asym_eager_defer_pk", "none"}

ASSUME DebounceAssumption ==
    /\ Row \in [Keys -> Rows]
    /\ TimeMax \in Nat \ {0} /\ AsymTimeMax \in 1..TimeMax
    /\ Times \subseteq 0..TimeMax
    /\ DefaultType \in Types /\ DefaultTime \in 0..TimeMax
    /\ SwitchAnytime \in BOOLEAN

VARIABLES
    type,         \* debounce_type
    time,         \* debounce_time
    raw,          \* raw_matrix
    cooked,       \* matrix
    counters,     \* debounce_counters or countdowns, per key or per row
    pressed,      \* the pressed bit of the asymmetric algorithm's counters
    last_raw,     \* last_raw of the per-row deferring algorithm
    running,      \* per algorithm: counters_need_update, or debouncing
    stamp,        \* per algorithm: time passed since last_time or debouncing_time
    age,          \* history: time since the raw state of a key last changed
    since,        \* history: time since the cooked state of a key last changed
    scans,        \* history: milliseconds with a scan since the last raw change
                  \* or selection of an algorithm
    fresh         \* history: no scan in this millisecond yet

config  == <<type, time>>
heap    == <<counters, pressed, last_raw>>
statics == <<running, stamp>>
history == <<age, since, scans, fresh>>
vars    == <<config, raw, cooked, heap, statics, history>>

\* What a counter belongs to: a key or, in the per-row algorithms, its row.
Units == Keys \cup Rows

TypeOK ==
    /\ type \in Types /\ time \in 0..TimeMax
    /\ raw \in [Keys -> BOOLEAN] /\ cooked \in [Keys -> BOOLEAN]
    /\ counters \in [Units -> 0..TimeMax]
    /\ type = "asym_eager_defer_pk" =>
          time <= AsymTimeMax /\ \A u \in Units : counters[u] <= AsymTimeMax
    /\ pressed \in [Keys -> BOOLEAN] /\ last_raw \in [Keys -> BOOLEAN]
    /\ running \in [Types -> BOOLEAN]
    /\ stamp \in [Types -> 0..TimeMax]
    /\ age \in [Keys -> 0..TimeMax] /\ since \in [Keys -> 0..TimeMax]
    /\ scans \in 0..(2 * TimeMax) /\ fresh \in BOOLEAN

\* debounce_func, as debounce_set selects it.
Func == IF time = 0 THEN "none" ELSE type

AllOff == [k \in Keys |-> FALSE]

\* Mutation: the limit of the seven-bit counters is forgotten.
MutTimeUnlimited(t, d) == d

\* debounce_set limits the time of the asymmetric algorithm to its counters.
Limited(t, d) ==
    IF t = "asym_eager_defer_pk" /\ d > AsymTimeMax THEN AsymTimeMax ELSE d

\* matrix_init and debounce_init at start-up, with any stored configuration.
Init ==
    /\ \E t \in Types, d \in Times : type = t /\ time = Limited(t, d)
    /\ raw = AllOff /\ cooked = AllOff
    /\ counters = [u \in Units |-> 0]
    /\ pressed = AllOff /\ last_raw = AllOff
    /\ running = [t \in Types |-> FALSE]
    /\ stamp = [t \in Types |-> 0]
    /\ age = [k \in Keys |-> TimeMax] /\ since = [k \in Keys |-> TimeMax]
    /\ scans = 2 * TimeMax /\ fresh = TRUE

-----------------------------------------------------------------------------
\* One run of the selected algorithm on the matrix r, which the scan has just
\* read.  Now is the timestamp taken in it.
Now == [stamp EXCEPT ![Func] = 0]

\* Counters are brought up to date when some are running and time has passed.
Updating == running[Func] /\ stamp[Func] > 0
Expired  == {u \in Units : Updating /\ counters[u] \in 1..stamp[Func]}

\* Mutation: the last millisecond of a counter is skipped.
MutCounted ==
    [u \in Units |->
        IF ~Updating THEN counters[u]
        ELSE IF counters[u] > stamp[Func] + 1 THEN counters[u] - stamp[Func]
        ELSE 0]

Counted ==
    [u \in Units |->
        IF ~Updating THEN counters[u]
        ELSE IF counters[u] > stamp[Func] THEN counters[u] - stamp[Func]
        ELSE 0]
StillRunning == IF Updating THEN \E u \in Units : Counted[u] # 0
                ELSE running[Func]

\* The keys in S take their state from r.
Take(S, r) == [k \in Keys |-> IF k \in S THEN r[k] ELSE cooked[k]]

\* Mutation: a change restarts the timer only if none is running.
MutSymDeferG(r) ==
    /\ Func = "sym_defer_g"
    /\ \/ /\ r # raw
          /\ running' = [running EXCEPT ![Func] = TRUE]
          /\ stamp' = IF running[Func] THEN stamp ELSE Now
          /\ UNCHANGED cooked
       \/ /\ r = raw /\ running[Func] /\ stamp[Func] >= time
          /\ cooked' = r
          /\ running' = [running EXCEPT ![Func] = FALSE]
          /\ stamp' = Now
       \/ /\ r = raw /\ ~(running[Func] /\ stamp[Func] >= time)
          /\ UNCHANGED <<cooked, running, stamp>>
    /\ UNCHANGED heap

SymDeferG(r) ==
    /\ Func = "sym_defer_g"
    /\ \/ /\ r # raw
          /\ running' = [running EXCEPT ![Func] = TRUE]
          /\ stamp' = Now
          /\ UNCHANGED cooked
       \/ /\ r = raw /\ running[Func] /\ stamp[Func] >= time
          /\ cooked' = r
          /\ running' = [running EXCEPT ![Func] = FALSE]
          /\ stamp' = Now
       \/ /\ r = raw /\ ~(running[Func] /\ stamp[Func] >= time)
          /\ UNCHANGED <<cooked, running, stamp>>
    /\ UNCHANGED heap

\* A row that changed restarts its countdown; a row whose countdown ends is
\* taken over.
SymDeferPr(r) ==
    /\ Func = "sym_defer_pr"
    /\ stamp' = Now
    /\ LET Changed(w) == \E k \in Keys : Row[k] = w /\ r[k] # last_raw[k]
           Ends(w)    == ~Changed(w) /\ counters[w] \in 1..stamp[Func]
       IN  /\ counters' = [u \in Units |->
                  IF u \notin Rows \/ Ends(u) THEN 0
                  ELSE IF Changed(u) THEN time
                  ELSE IF counters[u] = 0 THEN 0
                  ELSE counters[u] - stamp[Func]]
           /\ cooked' = Take({k \in Keys : Ends(Row[k])}, r)
    /\ last_raw' = r
    /\ UNCHANGED <<pressed, running>>

\* Keys whose counter ends are taken over; then, if the matrix has changed, a
\* key that differs starts its counter and one that does not stops it.
SymDeferPk(r) ==
    /\ Func = "sym_defer_pk"
    /\ cooked' = Take(Expired, r)
    /\ LET Unequal(k) == r[k] # cooked'[k]
           Starts     == {k \in Keys : r # raw /\ Unequal(k) /\ Counted[k] = 0}
       IN  /\ counters' = [u \in Units |->
                  IF u \in Starts THEN time
                  ELSE IF u \in Keys /\ r # raw /\ ~Unequal(u) THEN 0
                  ELSE Counted[u]]
           /\ running' = [running EXCEPT ![Func] = StillRunning \/ Starts # {}]
    /\ stamp' = Now
    /\ UNCHANGED <<pressed, last_raw>>

-----------------------------------------------------------------------------
\* sym_eager_pk and sym_eager_pr: a key or row that differs changes at once
\* unless its counter is running; when a counter ends, the matrix is compared
\* again even if it has not changed.  (matrix_need_update, which says so, is
\* cleared in the call that sets it.)
UnitOf(k) == IF Func = "sym_eager_pr" THEN Row[k] ELSE k

\* Mutation: the end of a counter does not cause another comparison.
MutSymEager(r) ==
    /\ Func \in Eager
    /\ LET Transfers == r # raw
           Taken     == {k \in Keys : /\ Transfers /\ Counted[UnitOf(k)] = 0
                                      /\ r[k] # cooked[k]}
       IN  /\ cooked' = Take(Taken, r)
           /\ counters' = [u \in Units |->
                  IF \E k \in Taken : UnitOf(k) = u THEN time ELSE Counted[u]]
           /\ running' = [running EXCEPT ![Func] = StillRunning \/ Taken # {}]
           /\ stamp' = Now
    /\ UNCHANGED <<pressed, last_raw>>

SymEager(r) ==
    /\ Func \in Eager
    /\ LET Transfers == r # raw \/ Expired # {}
           Taken     == {k \in Keys : /\ Transfers /\ Counted[UnitOf(k)] = 0
                                      /\ r[k] # cooked[k]}
       IN  /\ cooked' = Take(Taken, r)
           /\ counters' = [u \in Units |->
                  IF \E k \in Taken : UnitOf(k) = u THEN time ELSE Counted[u]]
           /\ running' = [running EXCEPT ![Func] = StillRunning \/ Taken # {}]
           /\ stamp' = Now
    /\ UNCHANGED <<pressed, last_raw>>

\* asym_eager_defer_pk: a press is taken over at once and locks the key; a
\* release is taken over when its counter ends.
AsymEagerDeferPk(r) ==
    /\ Func = "asym_eager_defer_pk"
    /\ LET Released  == {k \in Keys \cap Expired : ~pressed[k]}
           Transfers == r # raw \/ \E k \in Keys \cap Expired : pressed[k]
           Unequal(k) == r[k] # Take(Released, r)[k]
           Starts    == {k \in Keys : Transfers /\ Unequal(k) /\ Counted[k] = 0}
           Presses   == {k \in Starts : r[k]}
       IN  /\ cooked' = Take(Released \cup Presses, r)
           /\ pressed' = [k \in Keys |-> IF k \in Starts THEN r[k] ELSE pressed[k]]
           /\ counters' = [u \in Units |->
                  IF u \in Starts THEN time
                  ELSE IF u \in Keys /\ Transfers /\ ~Unequal(u) /\ ~pressed[u]
                  THEN 0 ELSE Counted[u]]
           /\ running' = [running EXCEPT ![Func] = StillRunning \/ Starts # {}]
           /\ stamp' = Now
    /\ UNCHANGED last_raw

None(r) ==
    /\ Func = "none"
    /\ cooked' = IF r # raw THEN r ELSE cooked
    /\ UNCHANGED <<heap, statics>>

\* One millisecond later, as far as the properties tell.
Later(d, max) == IF d < max THEN d + 1 ELSE d

\* matrix_scan: the matrix is read, and the selected algorithm runs on it.
Scan(r) ==
    /\ raw' = r
    /\ \/ SymDeferG(r) \/ SymDeferPr(r) \/ SymDeferPk(r)
       \/ SymEager(r) \/ AsymEagerDeferPk(r) \/ None(r)
    /\ age' = [k \in Keys |-> IF r[k] # raw[k] THEN 0 ELSE age[k]]
    /\ since' = [k \in Keys |-> IF cooked'[k] # cooked[k] THEN 0 ELSE since[k]]
    /\ scans' = IF r # raw THEN 0 ELSE IF fresh THEN Later(scans, 2 * TimeMax) ELSE scans
    /\ fresh' = FALSE
    /\ UNCHANGED config

-----------------------------------------------------------------------------
\* The debounce_free function of the old algorithm and the debounce_init
\* function of the new one: the counters are allocated anew, and sym_defer_pr
\* takes a timestamp.  (A pressed bit is not read before it is written.)
Allocate ==
    /\ counters' = [u \in Units |-> 0]
    /\ pressed' = AllOff /\ last_raw' = AllOff
    /\ stamp' = [stamp EXCEPT !["sym_defer_pr"] = 0]
    /\ UNCHANGED running

\* No key is in use.
Idle == \A k \in Keys : ~raw[k] /\ ~cooked[k] /\ since[k] = TimeMax

\* debounce_set: nothing happens when the request changes nothing, unless it is
\* forced.
Set(t, d, force) ==
    /\ SwitchAnytime \/ Idle
    /\ <<t, d>> # config \/ force
    /\ type' = t /\ time' = Limited(t, d)
    /\ Allocate
    /\ scans' = 0
    /\ UNCHANGED <<raw, cooked, age, since, fresh>>

\* A DEBOUNCE_SET command of the host, and debounce_config_reset.
Select == \E t \in Types, d \in Times : Set(t, d, FALSE)
Reset  == Set(DefaultType, DefaultTime, TRUE)

\* Waking up from low-power mode: debounce_free, then matrix_init clears both
\* matrices and calls debounce_init, which selects the stored configuration.
\* The lock of an eager key does not outlast it.
Wakeup ==
    /\ raw' = AllOff /\ cooked' = AllOff
    /\ UNCHANGED config
    /\ Allocate
    /\ age' = [k \in Keys |-> IF raw[k] THEN 0 ELSE age[k]]
    /\ since' = [k \in Keys |-> TimeMax]
    /\ scans' = 0 /\ UNCHANGED fresh

\* A millisecond passes.
Tick ==
    /\ stamp' = [t \in Types |-> IF running[t] \/ t = Func
                                 THEN Later(stamp[t], TimeMax) ELSE 0]
    /\ age' = [k \in Keys |-> Later(age[k], TimeMax)]
    /\ since' = [k \in Keys |-> Later(since[k], TimeMax)]
    /\ fresh' = TRUE
    /\ UNCHANGED <<config, raw, cooked, heap, running, scans>>

Next ==
    \/ \E r \in [Keys -> BOOLEAN] : Scan(r)
    \/ Select \/ Reset \/ Wakeup \/ Tick

Spec == Init /\ [][Next]_vars

-----------------------------------------------------------------------------
\* A scan changes what the firmware sees of the key k; a scan leaves a
\* difference between the matrix and what the firmware sees of it.
Changes(k) == cooked'[k] # cooked[k] /\ Scan(raw')
Differs(k) == cooked'[k] # raw'[k] /\ Scan(raw')

\* The keys whose changes delay the key k in a deferring algorithm, and those
\* whose changes lock it in an eager one.
Peers(k) == CASE Func = "sym_defer_g" -> Keys
              [] Func \in {"sym_defer_pr", "sym_eager_pr"}
                    -> {j \in Keys : Row[j] = Row[k]}
              [] OTHER -> {k}

Steady(k)   == \A j \in Peers(k) : raw'[j] = raw[j] /\ age[j] >= time
Unlocked(k) == \A j \in Peers(k) : since[j] >= time

\* Noise is filtered: a deferred change (in the asymmetric algorithm, a release)
\* reaches the firmware only if the key and its peers have been steady for the
\* debounce time.
NoiseFiltered ==
    [][\A k \in Keys :
          /\ Func \in Defer \/ (Func = "asym_eager_defer_pk" /\ cooked[k])
          /\ Changes(k)
          => Steady(k)]_vars

\* In the eager algorithms no key changes again within the debounce time of a
\* change of its own or, per row, of its row.
LockedOut == [][\A k \in Keys : Func \in Eager /\ Changes(k) => Unlocked(k)]_vars

\* A scan leaves no key behind, whatever happened before: a key that has been
\* steady for the debounce time is in the state the firmware sees, a release in
\* the asymmetric algorithm after twice that time of scans; an eager key that is
\* not locked, and an asymmetric press, are seen at once.
Due(k) ==
    CASE Func \in Defer -> Steady(k)
      [] Func \in Eager -> age'[k] >= time \/ Unlocked(k)
      [] Func = "asym_eager_defer_pk" -> raw'[k] \/ scans' >= 2 * time
      [] OTHER -> TRUE

Settles == [][\A k \in Keys : Differs(k) => ~Due(k)]_vars

\* No key is forgotten: when no key has changed, and no algorithm was selected,
\* for twice the longest debounce time of scans, the firmware sees the matrix as
\* it is.
NoKeyForgotten == scans = 2 * TimeMax => cooked = raw
=============================================================================
