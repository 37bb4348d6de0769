------------------------- MODULE DeferredExecProofs -------------------------
(***************************************************************************)
(* Proofs about DeferredExec, for tables, tokens and timers of every size  *)
(* and any number of jobs.                                                 *)
(***************************************************************************)
EXTENDS DeferredExec, TLAPS

\* The parts of TableMatches, and that a registered job has a token.
EntryInv(s) ==
    table[s].token # INVALID =>
      /\ table[s].job \in live /\ tok[table[s].job] = table[s].token
      /\ table[s].trigger = Wrap(now + rem[table[s].job])
JobInv(j) ==
    j \in live => tok[j] # INVALID
                  /\ \E s \in Slot : table[s].token = tok[j] /\ table[s].job = j
Unique(r, s) == r # s => table[r].token = INVALID \/ table[r].token # table[s].token

TableInv ==
    /\ \A s \in Slot : EntryInv(s)
    /\ \A j \in Job : JobInv(j)
    /\ \A r, s \in Slot : Unique(r, s)

\* The walk began at most MaxGap ago.
GapInv == \E g \in 0..MaxGap : now = Wrap(last + g)

\* The entry of the callback that runs is in its slot until it is cancelled.
WalkInv ==
    pc = "callback" =>
      /\ curr_token # INVALID
      /\ ~gone => /\ table[slot].token = curr_token /\ table[slot].job = running

IInv == TypeOK /\ TableInv /\ GapInv /\ WalkInv

-----------------------------------------------------------------------------
\* Times stay within the width of the timer.
LEMMA WrapTime ==
    ASSUME NEW x \in Int, -TimeMod <= x, x < 2 * TimeMod
    PROVE  Wrap(x) \in Time
BY DeferredAssumption DEF Wrap, Time

\* The signed difference of two times that are less than half of the timer's
\* range apart is the time between them, also across the wrap-around.
LEMMA SignedWrap ==
    ASSUME NEW b \in Time, NEW x \in Int, -TimeMod < 2 * x, 2 * x < TimeMod
    PROVE  Signed(Wrap(b + x), b) = x
BY DeferredAssumption DEF Signed, Wrap, Time

\* Small steps in time add up.
LEMMA WrapSum ==
    ASSUME NEW b \in Time, NEW x \in Int, NEW y \in Int,
           -TimeMod < 2 * x, 2 * x < TimeMod, -TimeMod < 2 * y, 2 * y < TimeMod
    PROVE  Wrap(Wrap(b + x) + y) = Wrap(b + (x + y))
BY DeferredAssumption DEF Wrap, Time

\* The bounds on delays, gaps and lateness as facts about numbers.
LEMMA Bounds ==
    /\ MaxDelay \in Nat /\ MaxGap \in Nat /\ MaxLate \in Nat /\ TimeMod \in Nat
    /\ MaxDelay >= 1 /\ MaxGap >= 1 /\ MaxLate >= 1
    /\ 2 * (MaxDelay + MaxGap + MaxLate) < TimeMod
    /\ \A d \in Delays : d \in Int /\ 1 <= d /\ d <= MaxDelay
    /\ INVALID \in Token /\ 0 \in Time /\ 1 \in Slot
BY DeferredAssumption DEF INVALID, Token, Time, Slot

\* The time now plus the time until a job is due is a time.
LEMMA DueTime ==
    ASSUME TypeOK, NEW x \in -MaxLate..MaxDelay
    PROVE  Wrap(now + x) \in Time /\ x \in Int /\ -TimeMod < 2 * x /\ 2 * x < TimeMod
<1>1. now \in Time /\ now \in Int /\ 0 <= now /\ now < TimeMod
  BY Bounds DEF TypeOK, Time
<1>2. x \in Int /\ -MaxLate <= x /\ x <= MaxDelay
  BY Bounds
<1>3. -TimeMod < 2 * x /\ 2 * x < TimeMod
  BY <1>2, Bounds
<1>4. now + x \in Int /\ -TimeMod <= now + x /\ now + x < 2 * TimeMod
  BY <1>1, <1>2, Bounds
<1> QED
  BY <1>2, <1>3, <1>4, WrapTime

-----------------------------------------------------------------------------
\* The slot that a registered job's token finds is the job's own.
LEMMA TokenFinds ==
    ASSUME TableInv, NEW j \in Job, j \in live, NEW s \in Slot, table[s].token = tok[j]
    PROVE  table[s].job = j /\ table[s].token # INVALID
<1>1. PICK r \in Slot : table[r].token = tok[j] /\ table[r].job = j
  BY DEF TableInv, JobInv
<1>2. tok[j] # INVALID
  BY DEF TableInv, JobInv
<1>3. r = s
  BY <1>1, <1>2 DEF TableInv, Unique
<1> QED
  BY <1>1, <1>2, <1>3

\* A job has no second entry.
LEMMA OneEntry ==
    ASSUME TableInv, NEW r \in Slot, NEW s \in Slot, r # s,
           table[r].token # INVALID, table[s].token # INVALID
    PROVE  table[r].job # table[s].job
BY DEF TableInv, EntryInv, Unique

\* Clearing an entry when its job is done.
LEMMA FreeEntry ==
    ASSUME TypeOK, TableInv, NEW s \in Slot, NEW j \in Job,
           table[s].token # INVALID, table[s].job = j,
           table' = [table EXCEPT ![s] = Free], Forget(j), now' = now
    PROVE  /\ TableInv' /\ table' \in [Slot -> Entry]
           /\ tok' \in [Job -> Token] /\ rem' \in [Job -> -MaxLate..MaxDelay]
           /\ live' \subseteq Job
<1>1. /\ table'[s] = Free /\ \A r \in Slot : r # s => table'[r] = table[r]
      /\ table' \in [Slot -> Entry]
  <2>1. Free \in Entry
    BY Bounds DEF Free, Entry
  <2> QED
    BY <2>1 DEF TypeOK
<1>2. /\ live' = live \ {j}
      /\ \A k \in Job : k # j => tok'[k] = tok[k] /\ rem'[k] = rem[k]
      /\ tok' \in [Job -> Token] /\ rem' \in [Job -> -MaxLate..MaxDelay]
  <2>1. 0 \in -MaxLate..MaxDelay
    BY Bounds
  <2> QED
    BY <2>1, Bounds DEF TypeOK, Forget
<1>3. Free.token = INVALID
  BY DEF Free
<1>4. ASSUME NEW r \in Slot PROVE EntryInv(r)'
  <2>1. CASE r = s
    BY <1>1, <1>3, <2>1 DEF EntryInv
  <2>2. CASE r # s /\ table[r].token # INVALID
    <3>1. table[r].job \in live /\ table[r].job # j /\ table[r].job \in Job
      BY <2>2, OneEntry DEF TableInv, EntryInv, TypeOK
    <3> QED
      BY <1>1, <1>2, <2>2, <3>1 DEF TableInv, EntryInv
  <2>3. CASE r # s /\ table[r].token = INVALID
    BY <1>1, <2>3 DEF EntryInv
  <2> QED
    BY <2>1, <2>2, <2>3
<1>5. ASSUME NEW k \in Job PROVE JobInv(k)'
  <2>1. CASE k \in live /\ k # j
    <3>1. PICK r \in Slot : table[r].token = tok[k] /\ table[r].job = k
      BY <2>1 DEF TableInv, JobInv
    <3>2. r # s /\ tok[k] # INVALID
      BY <2>1, <3>1 DEF TableInv, JobInv
    <3> QED
      BY <1>1, <1>2, <2>1, <3>1, <3>2 DEF JobInv
  <2>2. CASE k \notin live \/ k = j
    BY <1>2, <2>2 DEF JobInv
  <2> QED
    BY <2>1, <2>2
<1>6. ASSUME NEW r \in Slot, NEW u \in Slot PROVE Unique(r, u)'
  BY <1>1, <1>3 DEF TableInv, Unique
<1> QED
  BY <1>1, <1>2, <1>4, <1>5, <1>6 DEF TableInv, TypeOK

\* Changing the time at which a job is due, for the job and in its entry.
LEMMA MoveEntry ==
    ASSUME TypeOK, TableInv, NEW s \in Slot, NEW j \in Job, NEW x \in -MaxLate..MaxDelay,
           table[s].token # INVALID, table[s].job = j,
           table' = [table EXCEPT ![s] = [table[s] EXCEPT !.trigger = Wrap(now + x)]],
           rem' = [rem EXCEPT ![j] = x], tok' = tok, live' = live, now' = now
    PROVE  /\ TableInv' /\ table' \in [Slot -> Entry]
           /\ rem' \in [Job -> -MaxLate..MaxDelay]
<1>1. table[s] \in Entry /\ Wrap(now + x) \in Time
  BY DueTime DEF TypeOK
<1>2. /\ table'[s].token = table[s].token /\ table'[s].job = table[s].job
      /\ table'[s].trigger = Wrap(now + x)
      /\ \A r \in Slot : r # s => table'[r] = table[r]
      /\ table' \in [Slot -> Entry]
  <2>1. [table[s] EXCEPT !.trigger = Wrap(now + x)] \in Entry
    BY <1>1 DEF Entry
  <2>2. LET e == [table[s] EXCEPT !.trigger = Wrap(now + x)]
        IN  e.token = table[s].token /\ e.job = table[s].job /\ e.trigger = Wrap(now + x)
    BY <1>1 DEF Entry
  <2> QED
    BY <2>1, <2>2 DEF TypeOK
<1>3. /\ rem'[j] = x /\ \A k \in Job : k # j => rem'[k] = rem[k]
      /\ rem' \in [Job -> -MaxLate..MaxDelay]
  BY DEF TypeOK
<1>4. ASSUME NEW r \in Slot PROVE EntryInv(r)'
  <2>1. CASE r = s
    BY <1>2, <1>3, <2>1 DEF TableInv, EntryInv
  <2>2. CASE r # s /\ table[r].token # INVALID
    <3>1. table[r].job \in live /\ table[r].job # j /\ table[r].job \in Job
      BY <2>2, OneEntry DEF TableInv, EntryInv, TypeOK
    <3> QED
      BY <1>2, <1>3, <2>2, <3>1 DEF TableInv, EntryInv
  <2>3. CASE r # s /\ table[r].token = INVALID
    BY <1>2, <2>3 DEF EntryInv
  <2> QED
    BY <2>1, <2>2, <2>3
<1>5. \A r \in Slot : table'[r].token = table[r].token /\ table'[r].job = table[r].job
  BY <1>2
<1>6. ASSUME NEW k \in Job PROVE JobInv(k)'
  BY <1>5 DEF TableInv, JobInv
<1>7. ASSUME NEW r \in Slot, NEW u \in Slot PROVE Unique(r, u)'
  BY <1>5 DEF TableInv, Unique
<1> QED
  BY <1>2, <1>3, <1>4, <1>6, <1>7 DEF TableInv
-----------------------------------------------------------------------------
\* Initially the table is empty.
LEMMA InitIInv == Init => IInv
<1> SUFFICES ASSUME Init PROVE IInv
  OBVIOUS
<1>1. Free \in Entry /\ Free.token = INVALID
  BY Bounds DEF Free, Entry
<1>2. TypeOK
  <2>1. 0 \in -MaxLate..MaxDelay
    BY Bounds
  <2>2. table \in [Slot -> Entry]
    BY <1>1 DEF Init
  <2>3. tok \in [Job -> Token] /\ rem \in [Job -> -MaxLate..MaxDelay] /\ live \subseteq Job
    BY <2>1, Bounds DEF Init
  <2>4. now \in Time /\ last \in Time /\ slot \in Slot /\ curr_token \in Token
        /\ current_token \in Token
    BY Bounds DEF Init, INVALID
  <2>5. pc \in {"main", "walk", "callback"} /\ running \in Job \cup {None} /\ gone \in BOOLEAN
    BY DEF Init
  <2> QED
    BY <2>2, <2>3, <2>4, <2>5 DEF TypeOK
<1>3. TableInv
  <2>1. \A s \in Slot : table[s].token = INVALID
    BY <1>1 DEF Init
  <2>2. live = {}
    BY DEF Init
  <2> QED
    BY <2>1, <2>2 DEF TableInv, EntryInv, JobInv, Unique
<1>4. GapInv
  <2>1. 0 \in 0..MaxGap /\ Wrap(0 + 0) = 0
    BY Bounds DEF Wrap
  <2> QED
    BY <2>1 DEF GapInv, Init
<1>5. WalkInv
  BY DEF WalkInv, Init
<1> QED
  BY <1>2, <1>3, <1>4, <1>5 DEF IInv

\* Registering a callback.
LEMMA DeferStep ==
    ASSUME IInv, NEW j \in Job, NEW d \in Delays, Defer(j, d)
    PROVE  IInv'
<1>1. PICK s \in Slot, t \in Token :
        /\ First(s, INVALID) /\ Allocated(t)
        /\ table' = [table EXCEPT ![s] =
                       [token |-> t, trigger |-> Wrap(now + d), job |-> j]]
        /\ current_token' = t /\ tok' = [tok EXCEPT ![j] = t]
  BY DEF Defer
<1>2. /\ j \notin live /\ rem' = [rem EXCEPT ![j] = d] /\ live' = live \cup {j}
      /\ now' = now /\ last' = last
      /\ pc' = pc /\ slot' = slot /\ curr_token' = curr_token
      /\ running' = running /\ gone' = gone
  BY DEF Defer, walk
<1>3. d \in -MaxLate..MaxDelay
  BY Bounds
<1>4. Wrap(now + d) \in Time
  BY <1>3, DueTime DEF IInv
<1>5. table[s].token = INVALID /\ t # INVALID /\ \A r \in Slot : table[r].token # t
  BY <1>1 DEF First, Allocated, Usable
<1>6. TypeOK /\ TableInv
  BY DEF IInv
<1>7. /\ table'[s].token = t /\ table'[s].trigger = Wrap(now + d) /\ table'[s].job = j
      /\ \A r \in Slot : r # s => table'[r] = table[r]
      /\ table' \in [Slot -> Entry]
  <2>1. [token |-> t, trigger |-> Wrap(now + d), job |-> j] \in Entry
    BY <1>4 DEF Entry
  <2> QED
    BY <1>1, <1>6, <2>1 DEF TypeOK
<1>8. /\ tok'[j] = t /\ rem'[j] = d
      /\ \A k \in Job : k # j => tok'[k] = tok[k] /\ rem'[k] = rem[k]
      /\ tok' \in [Job -> Token] /\ rem' \in [Job -> -MaxLate..MaxDelay]
  BY <1>1, <1>2, <1>3, <1>6 DEF TypeOK
<1>9. TypeOK'
  BY <1>1, <1>2, <1>6, <1>7, <1>8 DEF TypeOK
<1>10. ASSUME NEW r \in Slot PROVE EntryInv(r)'
  <2>1. CASE r = s
    BY <1>2, <1>7, <1>8, <2>1 DEF EntryInv
  <2>2. CASE r # s /\ table[r].token # INVALID
    <3>1. table[r].job \in live /\ table[r].job # j /\ table[r].job \in Job
      BY <1>2, <1>6, <2>2 DEF TableInv, EntryInv, TypeOK
    <3> QED
      BY <1>2, <1>6, <1>7, <1>8, <2>2, <3>1 DEF TableInv, EntryInv
  <2>3. CASE r # s /\ table[r].token = INVALID
    BY <1>7, <2>3 DEF EntryInv
  <2> QED
    BY <2>1, <2>2, <2>3
<1>11. ASSUME NEW k \in Job PROVE JobInv(k)'
  <2>1. CASE k = j
    BY <1>5, <1>7, <1>8, <2>1 DEF JobInv
  <2>2. CASE k # j /\ k \in live
    <3>1. PICK r \in Slot : table[r].token = tok[k] /\ table[r].job = k
      BY <1>6, <2>2 DEF TableInv, JobInv
    <3>2. tok[k] # INVALID
      BY <1>6, <2>2 DEF TableInv, JobInv
    <3>3. r # s
      BY <1>5, <3>1, <3>2
    <3> QED
      BY <1>7, <1>8, <2>2, <3>1, <3>2, <3>3 DEF JobInv
  <2>3. CASE k # j /\ k \notin live
    BY <1>2, <2>3 DEF JobInv
  <2> QED
    BY <2>1, <2>2, <2>3
<1>12. ASSUME NEW r \in Slot, NEW u \in Slot PROVE Unique(r, u)'
  BY <1>5, <1>6, <1>7 DEF TableInv, Unique
<1>13. TableInv'
  BY <1>10, <1>11, <1>12 DEF TableInv
<1>14. WalkInv'
  BY <1>2, <1>5, <1>6, <1>7 DEF IInv, WalkInv, TypeOK
<1>15. GapInv'
  BY <1>2 DEF IInv, GapInv
<1> QED
  BY <1>9, <1>13, <1>14, <1>15 DEF IInv

\* Putting a callback off.
LEMMA ExtendStep ==
    ASSUME IInv, NEW j \in Job, NEW d \in Delays, Extend(j, d)
    PROVE  IInv'
<1>1. PICK s \in Slot :
        First(s, tok[j]) /\ table' = [table EXCEPT ![s].trigger = Wrap(now + d)]
  BY DEF Extend
<1>2. /\ j \in live /\ rem' = [rem EXCEPT ![j] = d] /\ live' = live /\ tok' = tok
      /\ now' = now /\ last' = last /\ current_token' = current_token
      /\ pc' = pc /\ slot' = slot /\ curr_token' = curr_token
      /\ running' = running /\ gone' = gone
  BY DEF Extend, walk
<1>3. d \in -MaxLate..MaxDelay /\ TypeOK /\ TableInv
  BY Bounds DEF IInv
<1>4. table[s].job = j /\ table[s].token # INVALID
  BY <1>1, <1>2, <1>3, TokenFinds DEF First
<1>5. table' = [table EXCEPT ![s] = [table[s] EXCEPT !.trigger = Wrap(now + d)]]
  BY <1>1
<1>6. TableInv' /\ table' \in [Slot -> Entry] /\ rem' \in [Job -> -MaxLate..MaxDelay]
  BY <1>2, <1>3, <1>4, <1>5, MoveEntry
<1>7. TypeOK'
  BY <1>2, <1>3, <1>6 DEF TypeOK
<1>8. \A r \in Slot : table'[r].token = table[r].token /\ table'[r].job = table[r].job
  BY <1>3, <1>5 DEF TypeOK, Entry
<1>9. WalkInv' /\ GapInv'
  BY <1>2, <1>3, <1>8 DEF IInv, WalkInv, GapInv, TypeOK
<1> QED
  BY <1>6, <1>7, <1>9 DEF IInv

\* Cancelling a callback.
LEMMA CancelStep ==
    ASSUME IInv, NEW j \in Job, Cancel(j)
    PROVE  IInv'
<1>1. PICK s \in Slot : First(s, tok[j]) /\ table' = [table EXCEPT ![s] = Free]
  BY DEF Cancel
<1>2. /\ j \in live /\ Forget(j) /\ gone' = (gone \/ j = running)
      /\ now' = now /\ last' = last /\ current_token' = current_token
      /\ pc' = pc /\ slot' = slot /\ curr_token' = curr_token /\ running' = running
  BY DEF Cancel
<1>3. TypeOK /\ TableInv
  BY DEF IInv
<1>4. table[s].job = j /\ table[s].token # INVALID
  BY <1>1, <1>2, <1>3, TokenFinds DEF First
<1>5. /\ TableInv' /\ table' \in [Slot -> Entry]
      /\ tok' \in [Job -> Token] /\ rem' \in [Job -> -MaxLate..MaxDelay]
      /\ live' \subseteq Job
  BY <1>1, <1>2, <1>3, <1>4, FreeEntry
<1>6. gone' \in BOOLEAN
  BY <1>2
<1>7. TypeOK'
  BY <1>2, <1>3, <1>5, <1>6 DEF TypeOK
<1>8. WalkInv'
  <2>1. CASE pc = "callback" /\ ~gone /\ j # running
    <3>1. slot \in Slot /\ slot # s
      BY <1>3, <1>4, <2>1 DEF IInv, WalkInv, TypeOK
    <3>2. table'[slot] = table[slot]
      BY <1>1, <1>3, <3>1 DEF TypeOK
    <3> QED
      BY <1>2, <2>1, <3>2 DEF IInv, WalkInv
  <2>2. CASE pc # "callback" \/ gone \/ j = running
    BY <1>2, <2>2 DEF IInv, WalkInv
  <2> QED
    BY <2>1, <2>2
<1>9. GapInv'
  BY <1>2 DEF IInv, GapInv
<1> QED
  BY <1>5, <1>7, <1>8, <1>9 DEF IInv

\* The walk goes on within the table.
LEMMA AdvanceType ==
    ASSUME TypeOK, Advance
    PROVE  slot' \in Slot /\ pc' \in {"main", "walk"}
<1>1. slot \in Slot /\ Slots \in Nat
  BY DeferredAssumption DEF TypeOK
<1>2. slot # Slots => slot + 1 \in Slot
  BY <1>1 DEF Slot
<1> QED
  BY <1>1, <1>2, Bounds DEF Advance

\* A callback returns.
LEMMA ReturnStep ==
    ASSUME IInv, NEW d \in Delays \cup {0}, Return(d)
    PROVE  IInv'
<1>1. /\ pc = "callback" /\ Requeue(d) /\ Advance
      /\ curr_token' = INVALID /\ running' = None /\ gone' = FALSE
      /\ now' = now /\ last' = last /\ current_token' = current_token
  BY DEF Return
<1>2. TypeOK /\ TableInv /\ slot \in Slot
  BY DEF IInv, TypeOK
<1>3. slot' \in Slot /\ pc' \in {"main", "walk"}
  BY <1>1, <1>2, AdvanceType
<1>4. WalkInv' /\ GapInv'
  BY <1>1, <1>3 DEF IInv, WalkInv, GapInv
<1>5. running' \in Job \cup {None} /\ gone' \in BOOLEAN /\ curr_token' \in Token
  BY <1>1, Bounds
<1>6. CASE Replaced
  <2>1. table' = table /\ UNCHANGED promise
    <3>1. table[slot].token # curr_token
      BY <1>6 DEF Replaced
    <3> QED
      BY <1>1, <1>6, <3>1 DEF Return, Requeue
  <2>2. TableInv'
    BY <1>1, <1>2, <2>1 DEF TableInv, EntryInv, JobInv, Unique, promise
  <2>3. TypeOK'
    BY <1>1, <1>2, <1>3, <1>5, <2>1 DEF TypeOK, promise
  <2> QED
    BY <1>4, <2>2, <2>3 DEF IInv
<1>7. CASE ~Replaced
  <2>1. table[slot].token = curr_token /\ curr_token # INVALID
    BY <1>1, <1>7 DEF IInv, WalkInv, Replaced
  <2>2. table[slot].job = Returns
    BY <1>1 DEF IInv, WalkInv, Returns
  <2>3. PICK j \in Job : j = Returns
    <3>1. table[slot].job \in live
      BY <1>2, <2>1 DEF TableInv, EntryInv
    <3> QED
      BY <1>2, <2>2, <3>1 DEF TypeOK
  <2>4. CASE d = 0
    <3>1. table' = [table EXCEPT ![slot] = Free] /\ Forget(j)
      <4>1. Forget(Returns)
        BY <1>7, <2>4 DEF Return
      <4> QED
        BY <1>1, <2>1, <2>3, <2>4, <4>1 DEF Requeue, Forget
    <3>2. /\ TableInv' /\ table' \in [Slot -> Entry]
          /\ tok' \in [Job -> Token] /\ rem' \in [Job -> -MaxLate..MaxDelay]
          /\ live' \subseteq Job
      BY <1>1, <1>2, <2>1, <2>2, <2>3, <3>1, FreeEntry
    <3>3. TypeOK'
      BY <1>1, <1>2, <1>3, <1>5, <3>2 DEF TypeOK
    <3> QED
      BY <1>4, <3>2, <3>3 DEF IInv
  <2>5. CASE d # 0
    <3>1. /\ table' = [table EXCEPT ![slot] =
                         [table[slot] EXCEPT !.trigger = Wrap(table[slot].trigger + d)]]
          /\ rem[j] + d <= MaxDelay
          /\ rem' = [rem EXCEPT ![j] = rem[j] + d] /\ tok' = tok /\ live' = live
      BY <1>1, <1>7, <2>1, <2>3, <2>5 DEF Return, Requeue
    <3>2. PICK x \in -MaxLate..MaxDelay : x = rem[j] + d
      <4>1. rem[j] \in -MaxLate..MaxDelay /\ d \in Int /\ d >= 1
        BY <1>2, <2>5, Bounds DEF TypeOK
      <4> QED
        BY <3>1, <4>1, Bounds
    <3>3. Wrap(table[slot].trigger + d) = Wrap(now + x)
      <4>1. table[slot].trigger = Wrap(now + rem[j])
        BY <1>2, <2>1, <2>2, <2>3 DEF TableInv, EntryInv
      <4>2. rem[j] \in -MaxLate..MaxDelay
        BY <1>2 DEF TypeOK
      <4>3. rem[j] \in Int /\ -TimeMod < 2 * rem[j] /\ 2 * rem[j] < TimeMod
        BY <1>2, <4>2, DueTime
      <4>4. d \in Int /\ -TimeMod < 2 * d /\ 2 * d < TimeMod
        BY <2>5, Bounds
      <4>5. now \in Time
        BY <1>2 DEF TypeOK
      <4> QED
        BY <3>2, <4>1, <4>3, <4>4, <4>5, WrapSum
    <3>4. TableInv' /\ table' \in [Slot -> Entry] /\ rem' \in [Job -> -MaxLate..MaxDelay]
      BY <1>1, <1>2, <2>1, <2>2, <2>3, <3>1, <3>2, <3>3, MoveEntry
    <3>5. TypeOK'
      BY <1>1, <1>2, <1>3, <1>5, <3>1, <3>4 DEF TypeOK
    <3> QED
      BY <1>4, <3>4, <3>5 DEF IInv
  <2> QED
    BY <2>4, <2>5
<1> QED
  BY <1>6, <1>7

\* A millisecond passes.
LEMMA TickStep ==
    ASSUME IInv, Tick
    PROVE  IInv'
<1>1. /\ Signed(now, last) < MaxGap /\ \A j \in live : rem[j] > -MaxLate
      /\ now' = Wrap(now + 1)
      /\ rem' = [j \in Job |-> IF j \in live THEN rem[j] - 1 ELSE rem[j]]
      /\ UNCHANGED <<last, current_token, table, tok, live>>
      /\ UNCHANGED <<pc, slot, curr_token, running, gone>>
  BY DEF Tick, walk
<1>2. TypeOK /\ TableInv
  BY DEF IInv
<1>3. now' \in Time /\ now \in Time /\ last \in Time /\ 1 \in -MaxLate..MaxDelay
  BY <1>1, <1>2, Bounds, DueTime DEF TypeOK
<1>4. rem' \in [Job -> -MaxLate..MaxDelay]
  <2>1. \A j \in Job : rem[j] \in -MaxLate..MaxDelay
    BY <1>2 DEF TypeOK
  <2>2. \A j \in live : rem[j] - 1 \in -MaxLate..MaxDelay
    BY <1>1, <1>2, <2>1, Bounds DEF TypeOK
  <2> QED
    BY <1>1, <2>1, <2>2
<1>5. TypeOK'
  BY <1>1, <1>2, <1>3, <1>4 DEF TypeOK
<1>6. ASSUME NEW s \in Slot PROVE EntryInv(s)'
  <2>1. CASE table[s].token = INVALID
    BY <1>1, <2>1 DEF EntryInv
  <2>2. CASE table[s].token # INVALID
    <3>1. PICK j \in live : j = table[s].job
      BY <1>2, <2>2 DEF TableInv, EntryInv
    <3>2. j \in Job /\ rem[j] \in -MaxLate..MaxDelay /\ rem'[j] = rem[j] - 1
      BY <1>1, <1>2, <3>1 DEF TypeOK
    <3>3. rem[j] \in Int /\ rem[j] - 1 \in -MaxLate..MaxDelay
      BY <1>1, <3>1, <3>2, Bounds
    <3>4. /\ rem[j] - 1 \in Int /\ -TimeMod < 2 * (rem[j] - 1) /\ 2 * (rem[j] - 1) < TimeMod
          /\ 1 \in Int /\ -TimeMod < 2 * 1 /\ 2 * 1 < TimeMod
      BY <1>2, <1>3, <3>3, DueTime
    <3>5. Wrap(Wrap(now + 1) + (rem[j] - 1)) = Wrap(now + (1 + (rem[j] - 1)))
      BY <1>3, <3>4, WrapSum
    <3>6. 1 + (rem[j] - 1) = rem[j]
      BY <3>3
    <3>7. table[s].trigger = Wrap(now' + rem'[j])
      BY <1>1, <1>2, <2>2, <3>1, <3>2, <3>5, <3>6 DEF TableInv, EntryInv
    <3> QED
      BY <1>1, <1>2, <2>2, <3>1, <3>7 DEF TableInv, EntryInv
  <2> QED
    BY <2>1, <2>2
<1>7. TableInv'
  <2>1. (\A j \in Job : JobInv(j)') /\ (\A r, s \in Slot : Unique(r, s)')
    BY <1>1, <1>2 DEF TableInv, JobInv, Unique
  <2> QED
    BY <1>6, <2>1 DEF TableInv
<1>8. WalkInv'
  BY <1>1 DEF IInv, WalkInv
<1>9. GapInv'
  <2>1. PICK g \in 0..MaxGap : now = Wrap(last + g)
    BY DEF IInv, GapInv
  <2>2. g \in Int /\ -TimeMod < 2 * g /\ 2 * g < TimeMod /\ g >= 0
    BY Bounds
  <2>3. g < MaxGap
    BY <1>1, <1>3, <2>1, <2>2, SignedWrap
  <2>4. g + 1 \in 0..MaxGap
    BY <2>2, <2>3, Bounds
  <2>5. now' = Wrap(last + (g + 1))
    <3>1. -TimeMod < 2 * 1 /\ 2 * 1 < TimeMod
      BY Bounds
    <3> QED
      BY <1>1, <1>3, <2>1, <2>2, <3>1, WrapSum
  <2> QED
    BY <1>1, <2>4, <2>5 DEF GapInv
<1> QED
  BY <1>5, <1>7, <1>8, <1>9 DEF IInv

\* Every step preserves the invariant.
LEMMA StepIInv == IInv /\ [Next]_vars => IInv'
<1> SUFFICES ASSUME IInv, [Next]_vars PROVE IInv'
  OBVIOUS
<1>1. TypeOK /\ TableInv /\ slot \in Slot
  BY DEF IInv, TypeOK
<1>2. ASSUME UNCHANGED <<now, table, tok, rem, live>> PROVE TableInv'
  BY <1>1, <1>2 DEF TableInv, EntryInv, JobInv, Unique
<1>3. ASSUME NEW j \in Job, Cancel(j) PROVE IInv'
  BY <1>3, CancelStep
<1>4. ASSUME NEW j \in Job, NEW d \in Delays, Defer(j, d) \/ Extend(j, d) PROVE IInv'
  BY <1>4, DeferStep, ExtendStep
<1>5. CASE OtherTable
  <2>1. UNCHANGED <<now, last, table, tok, rem, live, pc, slot, curr_token, running, gone>>
        /\ current_token' \in Token
    BY <1>5 DEF OtherTable, walk, promise
  <2>2. TypeOK'
    BY <1>1, <2>1 DEF TypeOK
  <2>3. WalkInv' /\ GapInv'
    BY <2>1 DEF IInv, WalkInv, GapInv
  <2> QED
    BY <1>2, <2>1, <2>2, <2>3 DEF IInv
<1>6. CASE Task
  <2>1. /\ UNCHANGED <<now, current_token, table, tok, rem, live, curr_token, running, gone>>
        /\ last' = now /\ pc' = "walk" /\ slot' = 1
    BY <1>6 DEF Task, promise
  <2>2. TypeOK'
    BY <1>1, <2>1, Bounds DEF TypeOK
  <2>3. GapInv'
    <3>1. 0 \in 0..MaxGap /\ now + 0 = now /\ now \in Time
      BY <1>1, Bounds DEF TypeOK, Time
    <3>2. Wrap(now) = now
      BY <3>1, Bounds DEF Wrap, Time
    <3> QED
      BY <2>1, <3>1, <3>2 DEF GapInv
  <2>4. WalkInv'
    BY <2>1 DEF WalkInv
  <2> QED
    BY <1>2, <2>1, <2>2, <2>3, <2>4 DEF IInv
<1>7. CASE Skip
  <2>1. UNCHANGED <<now, last, current_token, table, tok, rem, live, curr_token, running, gone>>
        /\ Advance
    BY <1>7 DEF Skip, promise
  <2>2. slot' \in Slot /\ pc' \in {"main", "walk"}
    BY <1>1, <2>1, AdvanceType
  <2>3. TypeOK'
    BY <1>1, <2>1, <2>2 DEF TypeOK
  <2>4. GapInv' /\ WalkInv'
    BY <2>1, <2>2 DEF IInv, GapInv, WalkInv
  <2> QED
    BY <1>2, <2>1, <2>3, <2>4 DEF IInv
<1>8. CASE Invoke
  <2>1. /\ UNCHANGED <<now, last, current_token, table, slot, tok, rem, live>>
        /\ pc' = "callback" /\ table[slot].token # INVALID
        /\ curr_token' = table[slot].token /\ running' = table[slot].job /\ gone' = FALSE
    BY <1>8 DEF Invoke, Due, promise
  <2>2. table[slot].token \in Token /\ table[slot].job \in Job \cup {None}
    BY <1>1 DEF TypeOK, Entry
  <2>3. TypeOK'
    BY <1>1, <2>1, <2>2 DEF TypeOK
  <2>4. GapInv' /\ WalkInv'
    BY <2>1 DEF IInv, GapInv, WalkInv
  <2> QED
    BY <1>2, <2>1, <2>3, <2>4 DEF IInv
<1>9. ASSUME NEW d \in Delays \cup {0}, Return(d) PROVE IInv'
  BY <1>9, ReturnStep
<1>10. CASE Tick
  BY <1>10, TickStep
<1>11. CASE UNCHANGED vars
  <2>1. UNCHANGED <<now, last, current_token, table, tok, rem, live, pc, slot, curr_token,
                    running, gone>>
    BY <1>11 DEF vars, walk, promise
  <2>2. TypeOK'
    BY <1>1, <2>1 DEF TypeOK
  <2>3. WalkInv' /\ GapInv'
    BY <2>1 DEF IInv, WalkInv, GapInv
  <2> QED
    BY <1>2, <2>1, <2>2, <2>3 DEF IInv
<1> QED
  BY <1>3, <1>4, <1>5, <1>6, <1>7, <1>8, <1>9, <1>10, <1>11 DEF Next, Walk

-----------------------------------------------------------------------------
\* The invariant: the table matches what the jobs know, the walk is recent, and
\* the entry of a running callback stays in its slot until it is cancelled.
THEOREM Invariance == Spec => []IInv
<1>1. Init => IInv
  BY InitIInv
<1>2. IInv /\ [Next]_vars => IInv'
  BY StepIInv
<1> QED
  BY <1>1, <1>2, PTL DEF Spec

\* Tokens, times and entries keep their widths; no callback is later than
\* MaxLate.
THEOREM TypeCorrect == Spec => []TypeOK
<1>1. IInv => TypeOK
  BY DEF IInv
<1> QED
  BY <1>1, Invariance, PTL

\* For every table, the token of a registered job finds its entry and no other,
\* and the entry is due when the job expects it, whatever callbacks do to the
\* table while it is walked.
THEOREM TableCorrect == Spec => []TableMatches
<1>1. IInv => TableMatches
  <2> SUFFICES ASSUME IInv PROVE TableMatches
    OBVIOUS
  <2>1. live \subseteq Job
    BY DEF IInv, TypeOK
  <2> QED
    BY <2>1 DEF IInv, TableInv, EntryInv, JobInv, Unique, TableMatches
<1> QED
  BY <1>1, Invariance, PTL

\* No callback runs before its time or after its cancellation, for every width
\* of the timer.
THEOREM NeverEarly == Spec => NotEarly
<1>1. IInv => [Invoke => running' \in live /\ rem[running'] <= 0]_vars
  <2> SUFFICES ASSUME IInv, Invoke PROVE running' \in live /\ rem[running'] <= 0
    OBVIOUS
  <2>1. /\ running' = table[slot].job /\ table[slot].token # INVALID
        /\ Signed(table[slot].trigger, last) <= 0
    BY DEF Invoke, Due
  <2>2. PICK j \in live : j = table[slot].job
    BY <2>1 DEF IInv, TableInv, EntryInv, TypeOK
  <2>3. table[slot].trigger = Wrap(now + rem[j])
    BY <2>1, <2>2 DEF IInv, TableInv, EntryInv, TypeOK
  <2>4. PICK g \in 0..MaxGap : now = Wrap(last + g)
    BY DEF IInv, GapInv
  <2>5. rem[j] \in -MaxLate..MaxDelay /\ last \in Time
    BY <2>2 DEF IInv, TypeOK
  <2>6. /\ rem[j] \in Int /\ -TimeMod < 2 * rem[j] /\ 2 * rem[j] < TimeMod
        /\ g \in Int /\ -TimeMod < 2 * g /\ 2 * g < TimeMod /\ g >= 0
        /\ g + rem[j] \in Int
        /\ -TimeMod < 2 * (g + rem[j]) /\ 2 * (g + rem[j]) < TimeMod
    BY <2>5, Bounds
  <2>7. table[slot].trigger = Wrap(last + (g + rem[j]))
    BY <2>3, <2>4, <2>5, <2>6, WrapSum
  <2>8. g + rem[j] <= 0
    BY <2>1, <2>5, <2>6, <2>7, SignedWrap
  <2>9. rem[j] <= 0
    BY <2>6, <2>8
  <2> QED
    BY <2>1, <2>2, <2>9
<1> QED
  BY <1>1, Invariance, PTL DEF Spec, NotEarly
=============================================================================
