---------------------------- MODULE DeferredExec ----------------------------
(***************************************************************************)
(* quantum/deferred_exec.c: callbacks that run after a delay.  A table has *)
(* a slot per pending callback, with a token by which its owner extends or *)
(* cancels it and the time at which it is due.  The main loop walks over   *)
(* the table, at most once per millisecond, and runs what is due.  The     *)
(* callbacks may themselves use the interface, on any entry including      *)
(* their own, while the walk is under way and time passes.                 *)
(*                                                                         *)
(* A job is the owner of one entry: it keeps the token it was given.       *)
(***************************************************************************)
EXTENDS Integers

CONSTANTS
    Slots,     \* MAX_DEFERRED_EXECUTORS, or the size of a table of its own
    TokenMod,  \* 2^8, the values of deferred_token
    TimeMod,   \* 2^32, the values of timer_read32
    Job, None, \* those who register callbacks, and nobody
    Delays,    \* the delays in use
    MaxDelay,  \* bound on delays, also on those that add up
    MaxGap,    \* bound on the time from one walk to the next, a walk included
    MaxLate    \* bound on the time a callback that is due waits

\* Times that can meet are less than half of the timer's range apart.
ASSUME DeferredAssumption ==
    /\ Slots \in Nat \ {0} /\ TokenMod \in Nat \ {0}
    /\ MaxDelay \in Nat \ {0} /\ MaxGap \in Nat \ {0} /\ MaxLate \in Nat \ {0}
    /\ Delays \subseteq 1..MaxDelay /\ None \notin Job
    /\ TimeMod \in Nat /\ 2 * (MaxDelay + MaxGap + MaxLate) < TimeMod

INVALID == 0
Slot    == 1..Slots
Token   == 0..(TokenMod - 1)
Time    == 0..(TimeMod - 1)

VARIABLES
    now,           \* timer_read32()
    last,          \* last_execution_time, and the "now" of the walk under way
    current_token, \* the token given last
    table,         \* the executors
    pc,            \* "main", "walk" between two slots, or "callback" in one
    slot,          \* the slot the walk has come to
    curr_token,    \* the token of the callback that runs
    tok,           \* the token each job was given, INVALID when it is done
    rem,           \* history: time until each job is due, negative when late
    live,          \* history: jobs that are registered
    running,       \* history: the job whose callback runs
    gone           \* history: the callback that runs has cancelled its own entry

promise == <<tok, rem, live>>
walk    == <<pc, slot, curr_token, running, gone>>
vars    == <<now, last, current_token, table, walk, promise>>

Entry == [token : Token, trigger : Time, job : Job \cup {None}]

TypeOK ==
    /\ now \in Time /\ last \in Time /\ current_token \in Token
    /\ table \in [Slot -> Entry]
    /\ pc \in {"main", "walk", "callback"}
    /\ slot \in Slot /\ curr_token \in Token
    /\ tok \in [Job -> Token] /\ rem \in [Job -> -MaxLate..MaxDelay]
    /\ live \subseteq Job
    /\ running \in Job \cup {None}
    /\ gone \in BOOLEAN

Free == [token |-> INVALID, trigger |-> 0, job |-> None]

Init ==
    /\ now = 0 /\ last = 0 /\ current_token = 0
    /\ table = [s \in Slot |-> Free]
    /\ pc = "main" /\ slot = 1 /\ curr_token = INVALID
    /\ tok = [j \in Job |-> INVALID] /\ rem = [j \in Job |-> 0] /\ live = {}
    /\ running = None /\ gone = FALSE

-----------------------------------------------------------------------------
\* Mutation: a sum is not reduced to the width of the timer.
MutWrap(x) == x

\* A sum or difference of two times, or of a time and a delay, as an unsigned
\* number of the timer's width.
Wrap(x) == IF x >= TimeMod THEN x - TimeMod ELSE IF x < 0 THEN x + TimeMod ELSE x

\* Mutation: times are compared as unsigned numbers.
MutUnsigned(a, b) == a - b

\* TIMER_DIFF_32 as a signed number.
Signed(a, b) ==
    LET d == Wrap(a - b) IN IF 2 * d < TimeMod THEN d ELSE d - TimeMod

\* token_can_be_used
Usable == {t \in Token \ {INVALID} : \A s \in Slot : table[s].token # t}

\* allocate_token: the first usable token from current_token + 1 on, around.
Steps(t)     == IF t > current_token THEN t - current_token ELSE t - current_token + TokenMod
Allocated(t) == t \in Usable /\ \A u \in Usable : Steps(t) <= Steps(u)

\* The interface is used by the main loop's other tasks and by callbacks.
Client == pc # "walk"

\* The first slot with the given token.
First(s, t) == table[s].token = t /\ \A r \in Slot : r < s => table[r].token # t

\* defer_exec_advanced, with a slot and a token to be had; otherwise it fails.
Defer(j, d) ==
    /\ Client /\ j \notin live
    /\ \E s \in Slot, t \in Token :
         /\ First(s, INVALID) /\ Allocated(t)
         /\ table' = [table EXCEPT ![s] =
                        [token |-> t, trigger |-> Wrap(now + d), job |-> j]]
         /\ current_token' = t /\ tok' = [tok EXCEPT ![j] = t]
    /\ rem' = [rem EXCEPT ![j] = d] /\ live' = live \cup {j}
    /\ UNCHANGED <<now, last, walk>>

\* The counter is shared with the tables of other modules.
OtherTable ==
    /\ Client /\ current_token' \in Token \ {INVALID}
    /\ UNCHANGED <<now, last, table, walk, promise>>

\* extend_deferred_exec_advanced
Extend(j, d) ==
    /\ Client /\ j \in live
    /\ \E s \in Slot :
         First(s, tok[j]) /\ table' = [table EXCEPT ![s].trigger = Wrap(now + d)]
    /\ rem' = [rem EXCEPT ![j] = d]
    /\ UNCHANGED <<now, last, current_token, walk, tok, live>>

\* A job that is done does not use its token again.
Forget(j) ==
    /\ live' = live \ {j}
    /\ tok' = [tok EXCEPT ![j] = INVALID] /\ rem' = [rem EXCEPT ![j] = 0]

\* cancel_deferred_exec_advanced
Cancel(j) ==
    /\ Client /\ j \in live
    /\ \E s \in Slot : First(s, tok[j]) /\ table' = [table EXCEPT ![s] = Free]
    /\ Forget(j)
    /\ gone' = (gone \/ j = running)
    /\ UNCHANGED <<now, last, current_token, pc, slot, curr_token, running>>

-----------------------------------------------------------------------------
\* deferred_exec_advanced_task, once per millisecond.
Task ==
    /\ pc = "main" /\ Signed(now, last) > 0
    /\ last' = now /\ pc' = "walk" /\ slot' = 1
    /\ UNCHANGED <<now, current_token, table, curr_token, running, gone, promise>>

\* Mutation: a callback is due only in its own millisecond.
MutDueExactly(s) == table[s].token # INVALID /\ Signed(table[s].trigger, last) = 0

Due(s) == table[s].token # INVALID /\ Signed(table[s].trigger, last) <= 0

\* On to the next slot, or back to the main loop after the last.
Advance ==
    /\ slot' = IF slot = Slots THEN 1 ELSE slot + 1
    /\ pc' = IF slot = Slots THEN "main" ELSE "walk"

Skip ==
    /\ pc = "walk" /\ ~Due(slot) /\ Advance
    /\ UNCHANGED <<now, last, current_token, table, curr_token, running, gone, promise>>

Invoke ==
    /\ pc = "walk" /\ Due(slot) /\ pc' = "callback"
    /\ curr_token' = table[slot].token /\ running' = table[slot].job /\ gone' = FALSE
    /\ UNCHANGED <<now, last, current_token, table, slot, promise>>

\* Mutation: what the callback did to its entry is not considered.
MutRequeue(d) ==
    table' = [table EXCEPT ![slot] =
                IF d = 0 THEN Free
                ELSE [table[slot] EXCEPT !.trigger = Wrap(table[slot].trigger + d)]]

\* The callback has returned d: its entry is due d later than it was, or done
\* when d is zero.  An entry with another token is not its own any more.
Requeue(d) ==
    IF table[slot].token # curr_token THEN UNCHANGED table
    ELSE table' = [table EXCEPT ![slot] =
                     IF d = 0 THEN Free
                     ELSE [table[slot] EXCEPT !.trigger = Wrap(table[slot].trigger + d)]]

\* History: the job the result applies to, and whether there is none.  A job
\* that the callback has registered in place of its own entry is meant only if
\* the counter of the tokens has just come around to the old one.
Returns  == IF gone THEN table[slot].job ELSE running
Replaced == gone /\ table[slot].token # curr_token

Return(d) ==
    /\ pc = "callback" /\ Requeue(d) /\ Advance
    /\ \/ Replaced /\ UNCHANGED promise
       \/ ~Replaced /\ d = 0 /\ Forget(Returns)
       \/ /\ ~Replaced /\ d # 0 /\ rem[Returns] + d <= MaxDelay
          /\ rem' = [rem EXCEPT ![Returns] = @ + d] /\ UNCHANGED <<tok, live>>
    /\ curr_token' = INVALID /\ running' = None /\ gone' = FALSE
    /\ UNCHANGED <<now, last, current_token>>

\* A millisecond.  The main loop comes around at least every MaxGap, and no
\* callback falls behind by more than MaxLate.
Tick ==
    /\ Signed(now, last) < MaxGap
    /\ \A j \in live : rem[j] > -MaxLate
    /\ now' = Wrap(now + 1)
    /\ rem' = [j \in Job |-> IF j \in live THEN rem[j] - 1 ELSE rem[j]]
    /\ UNCHANGED <<last, current_token, table, walk, tok, live>>

-----------------------------------------------------------------------------
Walk == Skip \/ Invoke

Next ==
    \/ \E j \in Job : Cancel(j) \/ (\E d \in Delays : Defer(j, d) \/ Extend(j, d))
    \/ OtherTable
    \/ Task \/ Walk \/ (\E d \in Delays \cup {0} : Return(d))
    \/ Tick

\* The main loop runs, callbacks return, time passes.
Fairness ==
    /\ WF_vars(Task) /\ WF_vars(Walk) /\ WF_vars(Tick)
    /\ WF_vars(\E d \in Delays \cup {0} : Return(d))

Spec == Init /\ [][Next]_vars /\ Fairness

-----------------------------------------------------------------------------
\* The table holds what the jobs were promised: every registered job has one
\* entry, which its token finds and no other's does, and which is due when the
\* job expects it, however callbacks cancel, extend and register entries in the
\* middle of a walk.
TableMatches ==
    /\ \A s \in Slot : table[s].token # INVALID =>
         /\ table[s].job \in live /\ tok[table[s].job] = table[s].token
         /\ table[s].trigger = Wrap(now + rem[table[s].job])
    /\ \A j \in live : \E s \in Slot : table[s].token = tok[j] /\ table[s].job = j
    /\ \A r, s \in Slot : r # s => table[r].token = INVALID \/ table[r].token # table[s].token

\* No callback runs before its time or after it was cancelled, although the
\* walk compares with the time at which it began and the timer wraps around.
NotEarly == [][Invoke => running' \in live /\ rem[running'] <= 0]_vars

\* A job that is due runs, unless it is cancelled or put off.
EveryJobRuns ==
    \A j \in Job : (j \in live /\ rem[j] <= 0) ~>
                     (running = j \/ j \notin live \/ rem[j] > 0)
=============================================================================
