--------------------------- MODULE DebounceProofs ---------------------------
(***************************************************************************)
(* Proofs about Debounce for any matrix and any debounce times: the state  *)
(* stays well-typed whichever algorithm is selected, the eager algorithms  *)
(* never let a key change again within the debounce time, the deferring    *)
(* ones change only keys that have been steady, and none leaves a key      *)
(* behind whose change is due.                                             *)
(***************************************************************************)
EXTENDS Debounce, TLAPS

\* The selected function is one of the algorithms.
LEMMA FuncType ==
    ASSUME TypeOK
    PROVE  /\ Func \in Types
           /\ Func # "none" => Func = type
           /\ stamp[Func] \in 0..TimeMax /\ running[Func] \in BOOLEAN
BY DEF TypeOK, Func, Types

\* Counting down makes no counter larger.
LEMMA CountedType ==
    ASSUME TypeOK
    PROVE  /\ Counted \in [Units -> 0..TimeMax]
           /\ \A u \in Units : Counted[u] <= counters[u]
<1>1. TimeMax \in Nat
  BY DebounceAssumption
<1>2. counters \in [Units -> 0..TimeMax] /\ stamp[Func] \in 0..TimeMax
  BY FuncType DEF TypeOK
<1>. QED
  BY <1>1, <1>2 DEF Counted

\* What a run of an algorithm assigns has its type: the part of TypeOK that the
\* algorithms can disturb.
CoreOK(t, d, ck, cs, p, l, rn, st) ==
    /\ ck \in [Keys -> BOOLEAN]
    /\ cs \in [Units -> 0..TimeMax]
    /\ t = "asym_eager_defer_pk" => \A u \in Units : cs[u] <= AsymTimeMax
    /\ p \in [Keys -> BOOLEAN] /\ l \in [Keys -> BOOLEAN]
    /\ rn \in [Types -> BOOLEAN] /\ st \in [Types -> 0..TimeMax]

\* Every algorithm preserves the types of what it assigns.
LEMMA AlgorithmType ==
    ASSUME TypeOK, NEW r \in [Keys -> BOOLEAN],
           SymDeferG(r) \/ SymDeferPr(r) \/ SymDeferPk(r)
             \/ SymEager(r) \/ AsymEagerDeferPk(r) \/ None(r)
    PROVE  CoreOK(type, time, cooked', counters', pressed', last_raw', running', stamp')
<1>0. TimeMax \in Nat /\ time \in 0..TimeMax /\ stamp[Func] \in 0..TimeMax
      /\ Func \in Types /\ (Func # "none" => Func = type)
  BY DebounceAssumption, FuncType DEF TypeOK
<1>1. Now \in [Types -> 0..TimeMax]
  BY <1>0 DEF Now, TypeOK
<1>2. \A S : Take(S, r) \in [Keys -> BOOLEAN]
  BY DEF Take, TypeOK
<1>3. Counted \in [Units -> 0..TimeMax] /\ \A u \in Units : Counted[u] <= counters[u]
  BY CountedType
<1>4. \A b \in BOOLEAN : [running EXCEPT ![Func] = b] \in [Types -> BOOLEAN]
  BY <1>0 DEF TypeOK
<1>5. StillRunning \in BOOLEAN
  BY FuncType DEF StillRunning
<1>6. Keys \subseteq Units /\ Rows \subseteq Units
  BY DEF Units
<1>7. type = "asym_eager_defer_pk" =>
         time <= AsymTimeMax /\ \A u \in Units : counters[u] <= AsymTimeMax
  BY DEF TypeOK
<1>8. /\ cooked \in [Keys -> BOOLEAN] /\ counters \in [Units -> 0..TimeMax]
      /\ pressed \in [Keys -> BOOLEAN] /\ last_raw \in [Keys -> BOOLEAN]
      /\ running \in [Types -> BOOLEAN] /\ stamp \in [Types -> 0..TimeMax]
      /\ AsymTimeMax \in 1..TimeMax
  BY DebounceAssumption DEF TypeOK
<1>a. CASE SymDeferG(r)
  BY <1>a, <1>1, <1>4, <1>7, <1>8 DEF SymDeferG, CoreOK, heap
<1>b. CASE SymDeferPr(r)
  <2>1. counters' \in [Units -> 0..TimeMax]
    BY <1>b, <1>0, <1>6, <1>8 DEF SymDeferPr
  <2>2. type # "asym_eager_defer_pk"
    BY <1>b, <1>0 DEF SymDeferPr
  <2>. QED
    BY <1>b, <2>1, <2>2, <1>1, <1>2, <1>8 DEF SymDeferPr, CoreOK
<1>c. CASE SymDeferPk(r)
  <2>1. counters' \in [Units -> 0..TimeMax]
    BY <1>c, <1>0, <1>3 DEF SymDeferPk
  <2>2. type # "asym_eager_defer_pk"
    BY <1>c, <1>0 DEF SymDeferPk
  <2>3. running' \in [Types -> BOOLEAN]
    BY <1>c, <1>4, <1>5 DEF SymDeferPk
  <2>. QED
    BY <1>c, <2>1, <2>2, <2>3, <1>1, <1>2, <1>8 DEF SymDeferPk, CoreOK
<1>d. CASE SymEager(r)
  <2>1. counters' \in [Units -> 0..TimeMax]
    BY <1>d, <1>0, <1>3 DEF SymEager
  <2>2. type # "asym_eager_defer_pk"
    BY <1>d, <1>0 DEF SymEager, Eager
  <2>3. running' \in [Types -> BOOLEAN]
    BY <1>d, <1>4, <1>5 DEF SymEager
  <2>. QED
    BY <1>d, <2>1, <2>2, <2>3, <1>1, <1>2, <1>8 DEF SymEager, CoreOK
<1>e. CASE AsymEagerDeferPk(r)
  <2>0. type = "asym_eager_defer_pk"
    BY <1>e, <1>0 DEF AsymEagerDeferPk
  <2>1. counters' \in [Units -> 0..TimeMax] /\ \A u \in Units : counters'[u] <= AsymTimeMax
    BY <1>e, <2>0, <1>0, <1>3, <1>7, <1>8 DEF AsymEagerDeferPk
  <2>2. pressed' \in [Keys -> BOOLEAN]
    BY <1>e, <1>8 DEF AsymEagerDeferPk
  <2>3. running' \in [Types -> BOOLEAN]
    BY <1>e, <1>4, <1>5 DEF AsymEagerDeferPk
  <2>. QED
    BY <1>e, <2>1, <2>2, <2>3, <1>1, <1>2, <1>8 DEF AsymEagerDeferPk, CoreOK
<1>f. CASE None(r)
  BY <1>f, <1>7, <1>8 DEF None, CoreOK, heap, statics
<1>. QED
  BY <1>a, <1>b, <1>c, <1>d, <1>e, <1>f

-----------------------------------------------------------------------------
\* The types of the history variables.
HistoryOK ==
    /\ age \in [Keys -> 0..TimeMax] /\ since \in [Keys -> 0..TimeMax]
    /\ scans \in 0..(2 * TimeMax) /\ fresh \in BOOLEAN

\* TypeOK is inductive.
LEMMA TypeInit ==
    Init => TypeOK
<1>. SUFFICES ASSUME Init PROVE TypeOK
  OBVIOUS
<1>0. TimeMax \in Nat \ {0} /\ AsymTimeMax \in 1..TimeMax /\ Times \subseteq 0..TimeMax
  BY DebounceAssumption
<1>1. /\ type \in Types /\ time \in 0..TimeMax
      /\ type = "asym_eager_defer_pk" => time <= AsymTimeMax
  BY <1>0 DEF Init, Limited
<1>2. /\ raw \in [Keys -> BOOLEAN] /\ cooked \in [Keys -> BOOLEAN]
      /\ pressed \in [Keys -> BOOLEAN] /\ last_raw \in [Keys -> BOOLEAN]
  BY DEF Init, AllOff
<1>3. counters \in [Units -> 0..TimeMax] /\ \A u \in Units : counters[u] <= AsymTimeMax
  BY <1>0 DEF Init
<1>4. running \in [Types -> BOOLEAN] /\ stamp \in [Types -> 0..TimeMax]
  BY <1>0 DEF Init
<1>5. HistoryOK
  BY <1>0 DEF Init, HistoryOK
<1>. QED
  BY <1>1, <1>2, <1>3, <1>4, <1>5 DEF TypeOK, HistoryOK

\* Allocating counters keeps the types.
LEMMA AllocateType ==
    ASSUME TypeOK, Allocate
    PROVE  /\ counters' \in [Units -> 0..TimeMax]
           /\ \A u \in Units : counters'[u] <= AsymTimeMax
           /\ pressed' \in [Keys -> BOOLEAN] /\ last_raw' \in [Keys -> BOOLEAN]
           /\ running' \in [Types -> BOOLEAN] /\ stamp' \in [Types -> 0..TimeMax]
BY DebounceAssumption DEF Allocate, TypeOK, AllOff, Types, Defer

\* One millisecond later is still within the bound.
LEMMA LaterType ==
    ASSUME NEW m \in Nat, NEW d \in 0..m
    PROVE  Later(d, m) \in 0..m /\ Later(d, m) >= d /\ Later(d, m) <= d + 1
BY DEF Later

LEMMA ScanType ==
    ASSUME TypeOK, NEW r \in [Keys -> BOOLEAN], Scan(r)
    PROVE  TypeOK'
<1>0. TimeMax \in Nat /\ 2 * TimeMax \in Nat
  BY DebounceAssumption
<1>1. CoreOK(type, time, cooked', counters', pressed', last_raw', running', stamp')
  BY AlgorithmType DEF Scan
<1>2. age' \in [Keys -> 0..TimeMax] /\ since' \in [Keys -> 0..TimeMax]
  BY <1>0 DEF Scan, TypeOK
<1>3. scans' \in 0..(2 * TimeMax)
  <2>1. scans \in 0..(2 * TimeMax)
    BY DEF TypeOK
  <2>2. Later(scans, 2 * TimeMax) \in 0..(2 * TimeMax)
    BY <1>0, <2>1, LaterType
  <2>3. scans' \in {0, scans, Later(scans, 2 * TimeMax)}
    BY DEF Scan
  <2>. QED
    BY <1>0, <2>1, <2>2, <2>3
<1>4. fresh' \in BOOLEAN /\ raw' \in [Keys -> BOOLEAN] /\ type' = type /\ time' = time
  BY DEF Scan, config
<1>. QED
  BY <1>1, <1>2, <1>3, <1>4 DEF TypeOK, CoreOK

LEMMA SetType ==
    ASSUME TypeOK, NEW t \in Types, NEW d \in 0..TimeMax, NEW f, Set(t, d, f)
    PROVE  TypeOK'
<1>0. TimeMax \in Nat \ {0} /\ AsymTimeMax \in 1..TimeMax
  BY DebounceAssumption
<1>1. type' \in Types /\ time' \in 0..TimeMax
      /\ (type' = "asym_eager_defer_pk" => time' <= AsymTimeMax)
  BY <1>0 DEF Set, Limited
<1>2. Allocate
  BY DEF Set
<1>3. /\ counters' \in [Units -> 0..TimeMax]
      /\ \A u \in Units : counters'[u] <= AsymTimeMax
      /\ pressed' \in [Keys -> BOOLEAN] /\ last_raw' \in [Keys -> BOOLEAN]
      /\ running' \in [Types -> BOOLEAN] /\ stamp' \in [Types -> 0..TimeMax]
  BY <1>2, AllocateType
<1>4. scans' \in 0..(2 * TimeMax)
  BY <1>0 DEF Set
<1>. QED
  BY <1>1, <1>3, <1>4 DEF TypeOK, Set

LEMMA WakeupType ==
    ASSUME TypeOK, Wakeup
    PROVE  TypeOK'
<1>0. TimeMax \in Nat \ {0}
  BY DebounceAssumption
<1>1. Allocate /\ type' = type /\ time' = time
  BY DEF Wakeup, config
<1>2. /\ counters' \in [Units -> 0..TimeMax]
      /\ \A u \in Units : counters'[u] <= AsymTimeMax
      /\ pressed' \in [Keys -> BOOLEAN] /\ last_raw' \in [Keys -> BOOLEAN]
      /\ running' \in [Types -> BOOLEAN] /\ stamp' \in [Types -> 0..TimeMax]
  BY <1>1, AllocateType
<1>3. raw' \in [Keys -> BOOLEAN] /\ cooked' \in [Keys -> BOOLEAN]
  BY DEF Wakeup, AllOff
<1>4. age' \in [Keys -> 0..TimeMax] /\ since' \in [Keys -> 0..TimeMax]
      /\ scans' \in 0..(2 * TimeMax) /\ fresh' \in BOOLEAN
  BY <1>0 DEF Wakeup, TypeOK
<1>. QED
  BY <1>1, <1>2, <1>3, <1>4 DEF TypeOK

LEMMA TickType ==
    ASSUME TypeOK, Tick
    PROVE  TypeOK'
<1>0. TimeMax \in Nat
  BY DebounceAssumption
<1>1. stamp' \in [Types -> 0..TimeMax]
  BY <1>0, LaterType DEF Tick, TypeOK
<1>2. age' \in [Keys -> 0..TimeMax] /\ since' \in [Keys -> 0..TimeMax]
  BY <1>0, LaterType DEF Tick, TypeOK
<1>. QED
  BY <1>1, <1>2 DEF TypeOK, Tick, config, heap

LEMMA TypeNext ==
    TypeOK /\ [Next]_vars => TypeOK'
<1>. SUFFICES ASSUME TypeOK, [Next]_vars PROVE TypeOK'
  OBVIOUS
<1>1. CASE \E r \in [Keys -> BOOLEAN] : Scan(r)
  BY <1>1, ScanType
<1>2. CASE Select
  BY <1>2, SetType, DebounceAssumption DEF Select
<1>3. CASE Reset
  BY <1>3, SetType, DebounceAssumption DEF Reset
<1>4. CASE Wakeup
  BY <1>4, WakeupType
<1>5. CASE Tick
  BY <1>5, TickType
<1>6. CASE UNCHANGED vars
  BY <1>6 DEF TypeOK, vars, config, heap, statics, history
<1>. QED
  BY <1>1, <1>2, <1>3, <1>4, <1>5, <1>6 DEF Next

\* For every matrix, every algorithm and every sequence of selections, scans,
\* wake-ups and ticks, the state of the debouncing code stays well-typed; in
\* particular no counter of the asymmetric algorithm exceeds its seven bits.
THEOREM TypeCorrect == Spec => []TypeOK
BY TypeInit, TypeNext, PTL DEF Spec

-----------------------------------------------------------------------------
\* As long as a key has changed less than the debounce time ago, its counter is
\* running and has at least the rest of that time to go, not counting the time
\* that has passed since the counters were last brought up to date.
LockInv ==
    \A k \in Keys :
        Func \in Eager /\ since[k] < time
        => running[Func] /\ counters[UnitOf(k)] >= (time - since[k]) + stamp[Func]

LEMMA UnitType ==
    ASSUME NEW k \in Keys PROVE UnitOf(k) \in Units
BY DEF UnitOf, Units, Rows

\* The counter of a key that changed less than the debounce time ago does not
\* end in this scan, and keeps the rest of that time.
LEMMA LockHolds ==
    ASSUME TypeOK, LockInv, Func \in Eager, NEW j \in Keys, since[j] < time
    PROVE  Counted[UnitOf(j)] >= time - since[j] /\ StillRunning
<1>. DEFINE u == UnitOf(j)
            st == stamp[Func]
            c == counters[u]
            n == since[j]
<1>1. u \in Units
  BY UnitType
<1>2. TimeMax \in Nat /\ st \in 0..TimeMax /\ c \in 0..TimeMax
      /\ n \in 0..TimeMax /\ time \in 0..TimeMax
  BY <1>1, DebounceAssumption, FuncType DEF TypeOK
<1>3. running[Func] /\ c >= (time - n) + st /\ n < time
  BY DEF LockInv
<1>4. Counted[u] = IF ~Updating THEN c ELSE IF c > st THEN c - st ELSE 0
  BY <1>1 DEF Counted
<1>5. Updating <=> st > 0
  BY <1>3 DEF Updating
<1>6. Counted[u] >= time - n
  <2>. HIDE DEF u, st, c, n
  <2>. QED BY <1>2, <1>3, <1>4, <1>5
<1>7. Counted[u] # 0
  <2>. HIDE DEF u, n
  <2>. QED BY <1>2, <1>3, <1>6
<1>. QED
  BY <1>1, <1>3, <1>6, <1>7 DEF StillRunning

\* A key that an eager algorithm changes was not locked, and the keys of its
\* unit were not.
LEMMA EagerUnlocked ==
    ASSUME TypeOK, LockInv, NEW r \in [Keys -> BOOLEAN], SymEager(r),
           NEW k \in Keys, cooked'[k] # cooked[k]
    PROVE  /\ Counted[UnitOf(k)] = 0 /\ counters'[UnitOf(k)] = time
           /\ running'[Func] /\ stamp'[Func] = 0
           /\ \A j \in Keys : UnitOf(j) = UnitOf(k) => since[j] >= time
<1>1. Counted[UnitOf(k)] = 0
  BY DEF SymEager, Take
<1>2. counters'[UnitOf(k)] = time
  BY UnitType DEF SymEager, Take
<1>3. Func \in Types /\ Func \in Eager /\ running \in [Types -> BOOLEAN]
      /\ stamp \in [Types -> 0..TimeMax]
  BY FuncType DEF SymEager, TypeOK
<1>4. running'[Func] /\ stamp'[Func] = 0
  BY <1>3 DEF SymEager, Take, Now
<1>5. ASSUME NEW j \in Keys, UnitOf(j) = UnitOf(k), since[j] < time
      PROVE  FALSE
  <2>1. Counted[UnitOf(j)] >= time - since[j]
    BY <1>3, <1>5, LockHolds
  <2>2. since[j] \in Nat /\ time \in Nat
    BY DebounceAssumption DEF TypeOK
  <2>. QED BY <1>1, <1>5, <2>1, <2>2
<1>6. \A j \in Keys : since[j] \in Nat /\ time \in Nat
  BY DebounceAssumption DEF TypeOK
<1>. QED
  BY <1>1, <1>2, <1>4, <1>5, <1>6

LEMMA LockScan ==
    ASSUME TypeOK, LockInv, NEW r \in [Keys -> BOOLEAN], Scan(r)
    PROVE  LockInv'
<1>0. Func' = Func /\ time' = time /\ \A k : UnitOf(k)' = UnitOf(k)
  BY DEF Scan, config, Func, UnitOf
<1>. SUFFICES ASSUME NEW k \in Keys, Func \in Eager, since'[k] < time
              PROVE  running'[Func] /\ counters'[UnitOf(k)] >= (time - since'[k]) + stamp'[Func]
  BY <1>0 DEF LockInv
<1>1. SymEager(r)
  BY DEF Scan, Eager, SymDeferG, SymDeferPr, SymDeferPk, AsymEagerDeferPk, None
<1>2. since[k] \in Nat /\ time \in Nat /\ Func \in Types
  BY DebounceAssumption, FuncType DEF TypeOK
<1>3. stamp'[Func] = 0
  BY <1>1, <1>2 DEF SymEager, Now, TypeOK
<1>4. CASE cooked'[k] # cooked[k]
  <2>1. counters'[UnitOf(k)] = time /\ running'[Func]
    BY <1>1, <1>4, EagerUnlocked
  <2>2. since'[k] = 0
    BY <1>4 DEF Scan
  <2>. QED BY <1>2, <1>3, <2>1, <2>2
<1>5. CASE cooked'[k] = cooked[k]
  <2>1. since'[k] = since[k]
    BY <1>5 DEF Scan
  <2>2. Counted[UnitOf(k)] >= time - since[k] /\ StillRunning
    BY <2>1, LockHolds
  <2>3. running'[Func]
    BY <1>1, <1>2, <2>2 DEF SymEager, TypeOK
  <2>4. Counted[UnitOf(k)] \in Nat
    BY UnitType, CountedType, DebounceAssumption
  <2>5. counters'[UnitOf(k)] \in {time, Counted[UnitOf(k)]}
    BY <1>1, UnitType DEF SymEager
  <2>. QED BY <1>2, <1>3, <2>1, <2>2, <2>3, <2>4, <2>5
<1>. QED BY <1>4, <1>5

LEMMA LockTick ==
    ASSUME TypeOK, LockInv, Tick
    PROVE  LockInv'
<1>0. Func' = Func /\ time' = time /\ running' = running /\ counters' = counters
      /\ \A k : UnitOf(k)' = UnitOf(k)
  BY DEF Tick, config, heap, Func, UnitOf
<1>. SUFFICES ASSUME NEW k \in Keys, Func \in Eager, since'[k] < time
              PROVE  running[Func] /\ counters[UnitOf(k)] >= (time - since'[k]) + stamp'[Func]
  BY <1>0 DEF LockInv
<1>1. TimeMax \in Nat /\ since[k] \in 0..TimeMax /\ time \in 0..TimeMax
      /\ stamp[Func] \in 0..TimeMax /\ Func \in Types
      /\ counters[UnitOf(k)] \in 0..TimeMax
  BY UnitType, DebounceAssumption, FuncType DEF TypeOK
<1>2. since'[k] = since[k] + 1
  BY <1>1 DEF Tick, Later
<1>3. stamp'[Func] <= stamp[Func] + 1 /\ stamp'[Func] \in 0..TimeMax
  BY <1>1, LaterType DEF Tick
<1>4. since[k] < time
  BY <1>1, <1>2
<1>5. running[Func] /\ counters[UnitOf(k)] >= (time - since[k]) + stamp[Func]
  BY <1>4 DEF LockInv
<1>. DEFINE c == counters[UnitOf(k)]
            a == stamp[Func]
            b == stamp'[Func]
            n == since[k]
            m == since'[k]
<1>6. c >= (time - m) + b
  <2>1. /\ c \in Int /\ time \in Int /\ n \in Int /\ a \in Int /\ b \in Int
        /\ m = n + 1 /\ b <= a + 1 /\ c >= (time - n) + a
    BY <1>1, <1>2, <1>3, <1>5
  <2>. HIDE DEF c, a, b, n, m
  <2>. QED BY <2>1
<1>. QED BY <1>5, <1>6

\* Keys are locked for the debounce time at every step, provided the algorithm
\* is only changed while no key is in use.
LEMMA LockNext ==
    ASSUME SwitchAnytime = FALSE
    PROVE  TypeOK /\ LockInv /\ [Next]_vars => LockInv'
<1>. SUFFICES ASSUME TypeOK, LockInv, [Next]_vars PROVE LockInv'
  OBVIOUS
<1>0. TypeOK'
  BY TypeNext
<1>a. ASSUME \A k \in Keys : since'[k] = TimeMax PROVE LockInv'
  <2>1. TimeMax \in Nat /\ time' \in 0..TimeMax
    BY <1>0, DebounceAssumption DEF TypeOK
  <2>. QED BY <2>1, <1>a DEF LockInv
<1>1. CASE \E r \in [Keys -> BOOLEAN] : Scan(r)
  BY <1>1, LockScan
<1>2. CASE Select \/ Reset
  BY <1>2, <1>a DEF Select, Reset, Set, Idle
<1>3. CASE Wakeup
  BY <1>3, <1>a DEF Wakeup
<1>4. CASE Tick
  BY <1>4, LockTick
<1>5. CASE UNCHANGED vars
  BY <1>5 DEF LockInv, Func, UnitOf, vars, config, heap, statics, history
<1>. QED
  BY <1>1, <1>2, <1>3, <1>4, <1>5 DEF Next

\* Whatever the matrix and the debounce time, and however scans and time
\* interleave, an eager algorithm never changes a key (or, per row, a row)
\* twice within the debounce time, provided the algorithm is only changed while
\* no key is in use.
THEOREM EagerLocksOut ==
    ASSUME SwitchAnytime = FALSE
    PROVE  Spec => LockedOut
<1>1. Init => LockInv
  BY TypeInit, DebounceAssumption DEF Init, LockInv, TypeOK
<1>2. TypeOK /\ LockInv /\ [Next]_vars =>
        [\A k \in Keys : Func \in Eager /\ Changes(k) => Unlocked(k)]_vars
  <2>. SUFFICES ASSUME TypeOK, LockInv, Next, NEW k \in Keys, Func \in Eager, Changes(k)
                PROVE  Unlocked(k)
    OBVIOUS
  <2>1. TypeOK'
    BY TypeNext
  <2>2. raw' \in [Keys -> BOOLEAN] /\ Scan(raw') /\ cooked'[k] # cooked[k]
    BY <2>1 DEF TypeOK, Changes
  <2>3. SymEager(raw')
    BY <2>2 DEF Scan, Eager, SymDeferG, SymDeferPr, SymDeferPk, AsymEagerDeferPk, None
  <2>4. \A j \in Keys : UnitOf(j) = UnitOf(k) => since[j] >= time
    BY <2>2, <2>3, EagerUnlocked
  <2>. QED BY <2>4 DEF Unlocked, Peers, UnitOf, Eager
<1>. QED
  BY <1>1, <1>2, TypeInit, TypeNext, LockNext, PTL DEF Spec, LockedOut

-----------------------------------------------------------------------------
\* The time a counter has run, together with the time that has passed since the
\* counters were brought up to date, is no longer than the key has been steady.
Covered(k, u) == age[k] = TimeMax \/ age[k] + counters[u] >= time + stamp[Func]

\* What the deferring algorithms rely on, one conjunct per algorithm.
GlobalInv ==
    Func = "sym_defer_g" /\ running[Func]
    => raw = cooked \/ \A k \in Keys : age[k] >= stamp[Func]
RowInv ==
    Func = "sym_defer_pr" =>
        /\ last_raw = raw
        /\ \A k \in Keys : counters[Row[k]] # 0 => Covered(k, Row[k])
KeyInv ==
    Func = "sym_defer_pk" =>
        \A k \in Keys : counters[k] # 0 =>
            running[Func] /\ raw[k] # cooked[k] /\ Covered(k, k)
AsymInv ==
    Func = "asym_eager_defer_pk" =>
        \A k \in Keys : counters[k] # 0 /\ ~pressed[k] =>
            running[Func] /\ raw[k] # cooked[k] /\ Covered(k, k)
FilterInv == GlobalInv /\ RowInv /\ KeyInv /\ AsymInv

\* The arithmetic of Covered.
LEMMA CoveredEnds ==
    ASSUME TypeOK, NEW k \in Keys, NEW u \in Units, Covered(k, u), counters[u] <= stamp[Func]
    PROVE  age[k] >= time
<1>. DEFINE a == age[k]  c == counters[u]  st == stamp[Func]
<1>1. /\ a \in Int /\ c \in Int /\ st \in Int /\ time \in Int /\ TimeMax \in Int
      /\ time <= TimeMax /\ c <= st /\ (a = TimeMax \/ a + c >= time + st)
  BY FuncType, DebounceAssumption DEF TypeOK, Covered
<1>2. a >= time
  <2>. HIDE DEF a, c, st
  <2>. QED BY <1>1
<1>. QED BY <1>2

\* A counter that goes on running is covered after the scan, if its key has not
\* changed; a counter that has just started always is.
LEMMA CoveredCounts ==
    ASSUME TypeOK, TypeOK', NEW k \in Keys, NEW u \in Units, time' = time, Func' = Func,
           stamp'[Func] = 0,
           \/ counters'[u] = time
           \/ /\ Covered(k, u) /\ age'[k] = age[k]
              /\ counters'[u] = counters[u] - stamp[Func]
    PROVE  Covered(k, u)'
<1>. DEFINE a == age[k]  a1 == age'[k]  c == counters[u]  c1 == counters'[u]  st == stamp[Func]
<1>1. /\ a \in Int /\ c \in Int /\ st \in Int /\ time \in Int /\ TimeMax \in Int
      /\ a1 \in Int /\ c1 \in Int /\ a1 >= 0
      /\ c1 = time \/ ((a = TimeMax \/ a + c >= time + st) /\ a1 = a /\ c1 = c - st)
  BY FuncType, DebounceAssumption DEF TypeOK, Covered
<1>2. a1 = TimeMax \/ a1 + c1 >= time + 0
  <2>. HIDE DEF a, a1, c, c1, st
  <2>. QED BY <1>1
<1>. QED BY <1>2 DEF Covered

LEMMA CoveredTick ==
    ASSUME TypeOK, Tick, NEW k \in Keys, NEW u \in Units, Covered(k, u)
    PROVE  Covered(k, u)'
<1>. DEFINE a == age[k]  a1 == age'[k]  c == counters[u]  st == stamp[Func]  st1 == stamp'[Func]
<1>0. Func' = Func /\ time' = time /\ counters' = counters
  BY DEF Tick, config, heap, Func
<1>1. TimeMax \in Nat /\ a \in 0..TimeMax /\ st \in 0..TimeMax /\ c \in 0..TimeMax
      /\ time \in 0..TimeMax /\ Func \in Types
  BY FuncType, DebounceAssumption DEF TypeOK
<1>2. st1 <= st + 1 /\ st1 \in 0..TimeMax
  BY <1>1, LaterType DEF Tick
<1>3. a1 = IF a < TimeMax THEN a + 1 ELSE a
  BY DEF Tick, Later
<1>4. a = TimeMax \/ a + c >= time + st
  BY DEF Covered
<1>5. a1 = TimeMax \/ a1 + c >= time + st1
  <2>. HIDE DEF a, a1, c, st, st1
  <2>. QED BY <1>1, <1>2, <1>3, <1>4
<1>. QED BY <1>0, <1>5 DEF Covered

\* What counting down does to a counter that does not end.
LEMMA CountedRest ==
    ASSUME TypeOK, running[Func], NEW u \in Units, Counted[u] # 0
    PROVE  /\ Counted[u] = counters[u] - stamp[Func]
           /\ u \notin Expired /\ counters[u] # 0 /\ StillRunning
<1>1. stamp[Func] \in Nat /\ counters[u] \in Nat
  BY FuncType, DebounceAssumption DEF TypeOK
<1>2. Counted[u] = IF ~Updating THEN counters[u]
                   ELSE IF counters[u] > stamp[Func] THEN counters[u] - stamp[Func] ELSE 0
  BY DEF Counted
<1>3. Updating <=> stamp[Func] > 0
  BY DEF Updating
<1>. QED BY <1>1, <1>2, <1>3 DEF Expired, StillRunning

\* The scan of each deferring algorithm keeps its conjunct of the invariant, and
\* the keys it changes are steady.
LEMMA GlobalScan ==
    ASSUME TypeOK, TypeOK', FilterInv, Scan(raw'), Func = "sym_defer_g"
    PROVE  GlobalInv' /\ \A k \in Keys : cooked'[k] # cooked[k] => Steady(k)
<1>0. Func' = Func /\ time' = time
  BY DEF Scan, config, Func
<1>1. SymDeferG(raw')
  BY DEF Scan, Eager, SymEager, SymDeferPr, SymDeferPk, AsymEagerDeferPk, None
<1>2. Func \in Types /\ TimeMax \in Nat /\ stamp[Func] \in 0..TimeMax /\ time \in 0..TimeMax
  BY FuncType, DebounceAssumption DEF TypeOK
<1>3. \A k \in Keys : age[k] \in 0..TimeMax /\ age'[k] \in 0..TimeMax
  BY DEF TypeOK
<1>4. CASE raw' # raw
  <2>1. cooked' = cooked /\ stamp'[Func] = 0
    BY <1>1, <1>2, <1>4 DEF SymDeferG, Now, TypeOK
  <2>. QED BY <1>0, <1>2, <1>3, <2>1 DEF GlobalInv
<1>5. CASE raw' = raw /\ running[Func] /\ stamp[Func] >= time
  <2>1. cooked' = raw /\ ~running'[Func]
    BY <1>1, <1>2, <1>5 DEF SymDeferG, TypeOK
  <2>2. raw = cooked \/ \A k \in Keys : age[k] >= stamp[Func]
    BY <1>5 DEF FilterInv, GlobalInv
  <2>3. ASSUME NEW k \in Keys, cooked'[k] # cooked[k] PROVE Steady(k)
    <3>1. \A j \in Keys : age[j] >= time
      BY <2>1, <2>2, <2>3, <1>2, <1>3, <1>5
    <3>. QED BY <3>1, <1>5 DEF Steady, Peers
  <2>. QED BY <1>0, <2>1, <2>3 DEF GlobalInv
<1>6. CASE raw' = raw /\ ~(running[Func] /\ stamp[Func] >= time)
  <2>1. cooked' = cooked /\ running' = running /\ stamp' = stamp
    BY <1>1, <1>6 DEF SymDeferG
  <2>2. \A k \in Keys : age'[k] = age[k]
    BY <1>6 DEF Scan
  <2>. QED BY <1>0, <1>6, <2>1, <2>2 DEF FilterInv, GlobalInv
<1>. QED BY <1>4, <1>5, <1>6

LEMMA RowScan ==
    ASSUME TypeOK, TypeOK', FilterInv, Scan(raw'), Func = "sym_defer_pr"
    PROVE  RowInv' /\ \A k \in Keys : cooked'[k] # cooked[k] => Steady(k)
<1>0. Func' = Func /\ time' = time
  BY DEF Scan, config, Func
<1>1. SymDeferPr(raw')
  BY DEF Scan, Eager, SymEager, SymDeferG, SymDeferPk, AsymEagerDeferPk, None
<1>2. Func \in Types /\ TimeMax \in Nat /\ stamp[Func] \in 0..TimeMax /\ time \in 0..TimeMax
  BY FuncType, DebounceAssumption DEF TypeOK
<1>3. stamp'[Func] = 0 /\ last_raw' = raw' /\ last_raw = raw
  BY <1>1, <1>2 DEF SymDeferPr, Now, TypeOK, FilterInv, RowInv
<1>4. \A k \in Keys : Row[k] \in Rows /\ Row[k] \in Units
  BY DEF Rows, Units
<1>5. ASSUME NEW k \in Keys, counters'[Row[k]] # 0 PROVE Covered(k, Row[k])'
  <2>1. CASE counters'[Row[k]] = time
    BY <1>0, <1>3, <1>4, <2>1, CoveredCounts
  <2>2. CASE counters'[Row[k]] # time
    <3>1. /\ counters'[Row[k]] = counters[Row[k]] - stamp[Func] /\ counters[Row[k]] # 0
          /\ raw'[k] = last_raw[k]
      BY <1>1, <1>4, <1>5, <2>2 DEF SymDeferPr
    <3>2. Covered(k, Row[k])
      BY <3>1 DEF FilterInv, RowInv
    <3>3. age'[k] = age[k]
      BY <3>1, <1>3 DEF Scan
    <3>. QED BY <1>0, <1>3, <1>4, <3>1, <3>2, <3>3, CoveredCounts
  <2>. QED BY <2>1, <2>2
<1>6. ASSUME NEW k \in Keys, cooked'[k] # cooked[k] PROVE Steady(k)
  <2>1. /\ counters[Row[k]] \in 1..stamp[Func]
        /\ \A j \in Keys : Row[j] = Row[k] => raw'[j] = last_raw[j]
    BY <1>1, <1>6 DEF SymDeferPr, Take
  <2>2. ASSUME NEW j \in Keys, Row[j] = Row[k] PROVE age[j] >= time
    <3>1. Covered(j, Row[j])
      BY <2>1, <2>2, <1>2 DEF FilterInv, RowInv
    <3>. QED BY <1>2, <1>4, <2>1, <2>2, <3>1, CoveredEnds
  <2>. QED BY <1>3, <2>1, <2>2 DEF Steady, Peers
<1>. QED BY <1>0, <1>3, <1>5, <1>6 DEF RowInv

LEMMA KeyScan ==
    ASSUME TypeOK, TypeOK', FilterInv, Scan(raw'), Func = "sym_defer_pk"
    PROVE  KeyInv' /\ \A k \in Keys : cooked'[k] # cooked[k] => Steady(k)
<1>0. Func' = Func /\ time' = time
  BY DEF Scan, config, Func
<1>1. SymDeferPk(raw')
  BY DEF Scan, Eager, SymEager, SymDeferG, SymDeferPr, AsymEagerDeferPk, None
<1>2. Func \in Types /\ TimeMax \in Nat /\ stamp[Func] \in 0..TimeMax /\ time \in 0..TimeMax
  BY FuncType, DebounceAssumption DEF TypeOK
<1>3. stamp'[Func] = 0
  BY <1>1, <1>2 DEF SymDeferPk, Now, TypeOK
<1>4. \A k \in Keys : k \in Units
  BY DEF Units
<1>5. \A k \in Keys : raw[k] \in BOOLEAN /\ raw'[k] \in BOOLEAN /\ cooked[k] \in BOOLEAN
  BY DEF TypeOK
<1>6. ASSUME NEW k \in Keys, counters'[k] # 0
      PROVE  running'[Func] /\ raw'[k] # cooked'[k] /\ Covered(k, k)'
  <2>1. CASE raw' # raw /\ raw'[k] # cooked'[k] /\ Counted[k] = 0
    <3>1. counters'[k] = time /\ running'[Func]
      BY <1>1, <1>2, <1>4, <2>1 DEF SymDeferPk, TypeOK
    <3>. QED BY <1>0, <1>3, <1>4, <2>1, <3>1, CoveredCounts
  <2>2. CASE ~(raw' # raw /\ raw'[k] # cooked'[k] /\ Counted[k] = 0)
    <3>1. counters'[k] = Counted[k] /\ Counted[k] # 0 /\ (raw' = raw \/ raw'[k] # cooked'[k])
      BY <1>1, <1>4, <1>6, <2>2 DEF SymDeferPk
    <3>2. counters[k] # 0
      BY <1>4, <3>1, CountedType DEF TypeOK
    <3>3. running[Func] /\ raw[k] # cooked[k] /\ Covered(k, k)
      BY <3>2 DEF FilterInv, KeyInv
    <3>4. Counted[k] = counters[k] - stamp[Func] /\ k \notin Expired /\ StillRunning
      BY <1>4, <3>1, <3>3, CountedRest
    <3>5. cooked'[k] = cooked[k] /\ running'[Func]
      BY <1>1, <1>2, <3>4 DEF SymDeferPk, Take, TypeOK
    <3>6. raw'[k] = raw[k]
      BY <1>5, <3>1, <3>3, <3>5
    <3>7. age'[k] = age[k]
      BY <3>6 DEF Scan
    <3>8. Covered(k, k)'
      BY <1>0, <1>3, <1>4, <3>1, <3>3, <3>4, <3>7, CoveredCounts
    <3>. QED BY <3>3, <3>5, <3>6, <3>8
  <2>. QED BY <2>1, <2>2
<1>7. ASSUME NEW k \in Keys, cooked'[k] # cooked[k] PROVE Steady(k)
  <2>1. k \in Expired /\ raw'[k] # cooked[k]
    BY <1>1, <1>7 DEF SymDeferPk, Take
  <2>2. counters[k] \in 1..stamp[Func]
    BY <2>1 DEF Expired
  <2>3. raw[k] # cooked[k] /\ Covered(k, k)
    BY <1>2, <2>2 DEF FilterInv, KeyInv
  <2>4. age[k] >= time
    BY <1>2, <1>4, <2>2, <2>3, CoveredEnds
  <2>. QED BY <1>5, <2>1, <2>3, <2>4 DEF Steady, Peers
<1>. QED BY <1>0, <1>6, <1>7 DEF KeyInv

LEMMA AsymScan ==
    ASSUME TypeOK, TypeOK', FilterInv, Scan(raw'), Func = "asym_eager_defer_pk"
    PROVE  /\ AsymInv'
           /\ \A k \in Keys : cooked[k] /\ cooked'[k] # cooked[k] => Steady(k)
<1>0. Func' = Func /\ time' = time
  BY DEF Scan, config, Func
<1>1. AsymEagerDeferPk(raw')
  BY DEF Scan, Eager, SymEager, SymDeferG, SymDeferPr, SymDeferPk, None
<1>2. Func \in Types /\ TimeMax \in Nat /\ stamp[Func] \in 0..TimeMax /\ time \in 0..TimeMax
  BY FuncType, DebounceAssumption DEF TypeOK
<1>3. stamp'[Func] = 0
  BY <1>1, <1>2 DEF AsymEagerDeferPk, Now, TypeOK
<1>4. \A k \in Keys : k \in Units
  BY DEF Units
<1>5. \A k \in Keys : /\ raw[k] \in BOOLEAN /\ raw'[k] \in BOOLEAN
                      /\ cooked[k] \in BOOLEAN /\ cooked'[k] \in BOOLEAN
  BY DEF TypeOK
<1>. DEFINE Released  == {k \in Keys \cap Expired : ~pressed[k]}
            Transfers == raw' # raw \/ \E k \in Keys \cap Expired : pressed[k]
            Starts    == {k \in Keys : /\ Transfers /\ raw'[k] # Take(Released, raw')[k]
                                       /\ Counted[k] = 0}
            Presses   == {k \in Starts : raw'[k]}
<1>6. /\ cooked' = Take(Released \cup Presses, raw')
      /\ pressed' = [k \in Keys |-> IF k \in Starts THEN raw'[k] ELSE pressed[k]]
      /\ counters' = [u \in Units |->
             IF u \in Starts THEN time
             ELSE IF u \in Keys /\ Transfers /\ ~(raw'[u] # Take(Released, raw')[u]) /\ ~pressed[u]
             THEN 0 ELSE Counted[u]]
      /\ running' = [running EXCEPT ![Func] = StillRunning \/ Starts # {}]
  BY <1>1 DEF AsymEagerDeferPk
<1>7. ASSUME NEW k \in Keys, counters'[k] # 0, ~pressed'[k]
      PROVE  running'[Func] /\ raw'[k] # cooked'[k] /\ Covered(k, k)'
  <2>1. CASE k \in Starts
    <3>1. counters'[k] = time /\ running'[Func]
      BY <1>2, <1>4, <1>6, <2>1 DEF TypeOK
    <3>2. ~raw'[k] /\ k \notin Released /\ k \notin Presses /\ cooked'[k] = cooked[k]
      BY <1>6, <1>7, <2>1 DEF Take
    <3>3. raw'[k] # cooked[k]
      BY <2>1, <3>2 DEF Take
    <3>. QED BY <1>0, <1>3, <1>4, <3>1, <3>2, <3>3, CoveredCounts
  <2>2. CASE k \notin Starts
    <3>1. ~pressed[k]
      BY <1>6, <1>7, <2>2
    <3>2. /\ counters'[k] = Counted[k] /\ Counted[k] # 0
          /\ ~Transfers \/ raw'[k] # Take(Released, raw')[k]
      BY <1>4, <1>6, <1>7, <2>2, <3>1
    <3>3. counters[k] # 0
      BY <1>4, <3>2, CountedType DEF TypeOK
    <3>4. running[Func] /\ raw[k] # cooked[k] /\ Covered(k, k)
      BY <3>1, <3>3 DEF FilterInv, AsymInv
    <3>5. Counted[k] = counters[k] - stamp[Func] /\ k \notin Expired /\ StillRunning
      BY <1>4, <3>2, <3>4, CountedRest
    <3>6. cooked'[k] = cooked[k] /\ Take(Released, raw')[k] = cooked[k] /\ running'[Func]
      BY <1>2, <1>6, <2>2, <3>5 DEF Take, TypeOK
    <3>7. raw'[k] = raw[k]
      BY <1>5, <3>2, <3>4, <3>6
    <3>8. age'[k] = age[k]
      BY <3>7 DEF Scan
    <3>9. Covered(k, k)'
      BY <1>0, <1>3, <1>4, <3>2, <3>4, <3>5, <3>8, CoveredCounts
    <3>. QED BY <3>4, <3>6, <3>7, <3>9
  <2>. QED BY <2>1, <2>2
<1>8. ASSUME NEW k \in Keys, cooked[k], cooked'[k] # cooked[k] PROVE Steady(k)
  <2>1. ~cooked'[k] /\ cooked'[k] = raw'[k] /\ k \in Released
    BY <1>5, <1>6, <1>8 DEF Take
  <2>2. counters[k] \in 1..stamp[Func] /\ ~pressed[k]
    BY <2>1 DEF Expired
  <2>3. raw[k] # cooked[k] /\ Covered(k, k)
    BY <1>2, <2>2 DEF FilterInv, AsymInv
  <2>4. age[k] >= time
    BY <1>2, <1>4, <2>2, <2>3, CoveredEnds
  <2>. QED BY <1>5, <1>8, <2>1, <2>3, <2>4 DEF Steady, Peers
<1>. QED BY <1>0, <1>7, <1>8 DEF AsymInv

\* Freshly allocated counters on a matrix without pressed keys satisfy the
\* invariant whichever algorithm is selected.
LEMMA FilterFresh ==
    ASSUME TypeOK, \A k \in Keys : ~raw[k] /\ ~cooked[k] /\ ~last_raw[k],
           \A u \in Units : counters[u] = 0
    PROVE  FilterInv
<1>1. raw = cooked /\ last_raw = raw
  BY DEF TypeOK
<1>2. \A k \in Keys : k \in Units /\ Row[k] \in Units
  BY DEF Units, Rows
<1>. QED BY <1>1, <1>2 DEF FilterInv, GlobalInv, RowInv, KeyInv, AsymInv

LEMMA FilterTick ==
    ASSUME TypeOK, FilterInv, Tick
    PROVE  FilterInv'
<1>0. /\ Func' = Func /\ time' = time /\ counters' = counters /\ running' = running
      /\ raw' = raw /\ cooked' = cooked /\ pressed' = pressed /\ last_raw' = last_raw
  BY DEF Tick, config, heap, Func
<1>1. \A k \in Keys : k \in Units /\ Row[k] \in Units
  BY DEF Units, Rows
<1>2. \A k \in Keys, u \in Units : Covered(k, u) => Covered(k, u)'
  BY CoveredTick
<1>3. ASSUME NEW k \in Keys, age[k] >= stamp[Func] PROVE age'[k] >= stamp'[Func]
  <2>1. TimeMax \in Nat /\ age[k] \in 0..TimeMax /\ stamp[Func] \in 0..TimeMax /\ Func \in Types
    BY FuncType, DebounceAssumption DEF TypeOK
  <2>. QED BY <1>3, <2>1 DEF Tick, Later
<1>4. GlobalInv'
  BY <1>0, <1>3 DEF FilterInv, GlobalInv
<1>5. RowInv'
  BY <1>0, <1>1, <1>2 DEF FilterInv, RowInv
<1>6. KeyInv' /\ AsymInv'
  BY <1>0, <1>1, <1>2 DEF FilterInv, KeyInv, AsymInv
<1>. QED BY <1>4, <1>5, <1>6 DEF FilterInv

LEMMA FilterNext ==
    ASSUME SwitchAnytime = FALSE
    PROVE  TypeOK /\ FilterInv /\ [Next]_vars => FilterInv'
<1>. SUFFICES ASSUME TypeOK, FilterInv, [Next]_vars PROVE FilterInv'
  OBVIOUS
<1>0. TypeOK'
  BY TypeNext
<1>1. CASE \E r \in [Keys -> BOOLEAN] : Scan(r)
  <2>1. Scan(raw') /\ Func' = Func
    BY <1>1 DEF Scan, config, Func
  <2>2. GlobalInv'
    BY <1>0, <2>1, GlobalScan DEF GlobalInv
  <2>3. RowInv'
    BY <1>0, <2>1, RowScan DEF RowInv
  <2>4. KeyInv'
    BY <1>0, <2>1, KeyScan DEF KeyInv
  <2>5. AsymInv'
    BY <1>0, <2>1, AsymScan DEF AsymInv
  <2>. QED BY <2>2, <2>3, <2>4, <2>5 DEF FilterInv
<1>2. CASE Select \/ Reset \/ Wakeup
  <2>1. Allocate /\ \A k \in Keys : ~raw'[k] /\ ~cooked'[k]
    BY <1>2 DEF Select, Reset, Set, Idle, Wakeup, AllOff
  <2>2. (\A k \in Keys : ~last_raw'[k]) /\ \A u \in Units : counters'[u] = 0
    BY <2>1 DEF Allocate, AllOff
  <2>3. raw' = cooked' /\ last_raw' = raw'
    BY <1>0, <2>1, <2>2 DEF TypeOK
  <2>4. \A k \in Keys : k \in Units /\ Row[k] \in Units
    BY DEF Units, Rows
  <2>. QED BY <2>1, <2>2, <2>3, <2>4 DEF FilterInv, GlobalInv, RowInv, KeyInv, AsymInv
<1>3. CASE Tick
  BY <1>3, FilterTick
<1>4. CASE UNCHANGED vars
  BY <1>4 DEF FilterInv, GlobalInv, RowInv, KeyInv, AsymInv, Covered, Func,
              vars, config, heap, statics, history
<1>. QED
  BY <1>1, <1>2, <1>3, <1>4 DEF Next

\* Whatever the matrix and the debounce time, and however scans and time
\* interleave, a deferring algorithm changes a key only after it and its peers
\* have been steady for the debounce time, provided the algorithm is only
\* changed while no key is in use.
THEOREM DeferFiltersNoise ==
    ASSUME SwitchAnytime = FALSE
    PROVE  Spec => NoiseFiltered
<1>1. Init => FilterInv
  <2>. SUFFICES ASSUME Init PROVE FilterInv
    OBVIOUS
  <2>1. TypeOK
    BY TypeInit
  <2>2. (\A k \in Keys : ~raw[k] /\ ~cooked[k] /\ ~last_raw[k])
        /\ \A u \in Units : counters[u] = 0
    BY DEF Init, AllOff
  <2>. QED BY <2>1, <2>2, FilterFresh
<1>2. TypeOK /\ FilterInv /\ [Next]_vars =>
        [\A k \in Keys :
            /\ Func \in Defer \/ (Func = "asym_eager_defer_pk" /\ cooked[k])
            /\ Changes(k)
            => Steady(k)]_vars
  <2>. SUFFICES ASSUME TypeOK, FilterInv, Next, NEW k \in Keys, Changes(k),
                       Func \in Defer \/ (Func = "asym_eager_defer_pk" /\ cooked[k])
                PROVE  Steady(k)
    OBVIOUS
  <2>1. TypeOK'
    BY TypeNext
  <2>2. Scan(raw') /\ cooked'[k] # cooked[k]
    BY DEF Changes
  <2>. QED BY <2>1, <2>2, GlobalScan, RowScan, KeyScan, AsymScan DEF Defer
<1>. QED
  BY <1>1, <1>2, TypeInit, TypeNext, FilterNext, PTL DEF Spec, NoiseFiltered

-----------------------------------------------------------------------------
\* The counter of u is running, and ends before n, which grows as time passes,
\* exceeds the debounce time.
Within(u, n) == counters[u] > 0 /\ counters[u] + n <= time + stamp[Func]

\* What the algorithm still has to do about a key that the firmware sees in
\* another state than the matrix.
GlobalPending ==
    cooked # raw => running[Func] /\ \E j \in Keys : age[j] <= stamp[Func]

RowPending ==
    \A k \in Keys : cooked[k] # raw[k] =>
        \E j \in Keys : Row[j] = Row[k] /\ Within(Row[k], age[j])

KeyPending ==
    \A k \in Keys : cooked[k] # raw[k] => running[Func] /\ Within(k, age[k])

\* A lock ends in time too.
EagerPending ==
    \A k \in Keys :
        /\ counters[UnitOf(k)] > 0 =>
              /\ running[Func]
              /\ \E j \in Keys : UnitOf(j) = UnitOf(k) /\ Within(UnitOf(k), since[j])
        /\ cooked[k] # raw[k] => Within(UnitOf(k), age[k])

\* A press is never pending.  A release waits for the lock of the press, then
\* for its own counter, and each millisecond with a scan brings both nearer.
AsymPending ==
    \A k \in Keys :
        /\ counters[k] > 0 => running[Func]
        /\ ~cooked[k] => ~raw[k] /\ counters[k] = 0
        /\ cooked[k] /\ ~raw[k] =>
              /\ counters[k] > 0 /\ (fresh => stamp[Func] > 0)
              /\ scans + counters[k] <= IF pressed[k] THEN time ELSE 2 * time

SettleInv ==
    /\ \A u \in Units : counters[u] <= time
    /\ Func = "none" => cooked = raw
    /\ Func = "sym_defer_g" => GlobalPending
    /\ Func = "sym_defer_pr" => RowPending
    /\ Func = "sym_defer_pk" => KeyPending
    /\ Func \in Eager => EagerPending
    /\ Func = "asym_eager_defer_pk" => AsymPending

\* A counter that does not end in this scan goes on running and still ends in
\* time.
LEMMA WithinRest ==
    ASSUME TypeOK, running[Func], NEW u \in Units, u \notin Expired, counters[u] > 0
    PROVE  /\ Counted[u] = counters[u] - stamp[Func] /\ Counted[u] > 0 /\ StillRunning
           /\ \A n \in Int : Within(u, n) => Counted[u] + n <= time
<1>1. stamp[Func] \in Nat /\ counters[u] \in Nat /\ time \in Nat
  BY FuncType, DebounceAssumption DEF TypeOK
<1>2. Counted[u] = IF ~Updating THEN counters[u]
                   ELSE IF counters[u] > stamp[Func] THEN counters[u] - stamp[Func] ELSE 0
  BY DEF Counted
<1>3. Updating <=> stamp[Func] > 0
  BY DEF Updating
<1>4. counters[u] > stamp[Func]
  BY <1>1, <1>3 DEF Expired
<1>5. Counted[u] = counters[u] - stamp[Func] /\ Counted[u] > 0
  BY <1>1, <1>2, <1>3, <1>4
<1>6. StillRunning
  BY <1>5, <1>1 DEF StillRunning
<1>7. ASSUME NEW n \in Int, Within(u, n) PROVE Counted[u] + n <= time
  <2>. DEFINE c == counters[u]  d == Counted[u]  st == stamp[Func]
  <2>1. c \in Int /\ st \in Int /\ time \in Int /\ d = c - st /\ c + n <= time + st
    BY <1>1, <1>5, <1>7 DEF Within
  <2>2. d + n <= time
    <3>. HIDE DEF c, d, st
    <3>. QED BY <2>1
  <2>. QED BY <2>2
<1>. QED BY <1>5, <1>6, <1>7

\* A counter that ends before n exceeds the debounce time has ended when n is
\* the debounce time.
LEMMA WithinEnds ==
    ASSUME TypeOK, NEW u \in Units, NEW n \in Int, Within(u, n), n >= time
    PROVE  counters[u] \in 1..stamp[Func] /\ (running[Func] => u \in Expired)
<1>. DEFINE c == counters[u]  st == stamp[Func]
<1>1. c \in Int /\ st \in Int /\ time \in Int /\ c > 0 /\ c + n <= time + st /\ n >= time
  BY FuncType, DebounceAssumption DEF TypeOK, Within
<1>2. c > 0 /\ c <= st /\ st > 0
  <2>. HIDE DEF c, st
  <2>. QED BY <1>1
<1>. QED BY <1>1, <1>2 DEF Expired, Updating

\* Time brings a counter no further from its end.
LEMMA WithinTick ==
    ASSUME TypeOK, Tick, NEW u \in Units, counters[u] <= time,
           NEW n \in 0..TimeMax, Within(u, n)
    PROVE  counters[u] + Later(n, TimeMax) <= time + stamp'[Func]
<1>. DEFINE c == counters[u]  st == stamp[Func]  st1 == stamp'[Func]  m == Later(n, TimeMax)
<1>1. TimeMax \in Nat /\ c \in 0..TimeMax /\ st \in 0..TimeMax /\ time \in 0..TimeMax
      /\ Func \in Types /\ n \in 0..TimeMax
  BY FuncType, DebounceAssumption DEF TypeOK
<1>2. st1 = IF st < TimeMax THEN st + 1 ELSE st
  BY <1>1 DEF Tick, Later
<1>3. m \in 0..TimeMax /\ m <= n + 1
  BY <1>1, LaterType
<1>4. c <= time /\ c + n <= time + st
  BY DEF Within
<1>5. c + m <= time + st1
  <2>. HIDE DEF c, st, st1, m
  <2>. QED BY <1>1, <1>2, <1>3, <1>4
<1>. QED BY <1>5

\* No counter ever has longer to go than the debounce time.
LEMMA BoundedScan ==
    ASSUME TypeOK, TypeOK', \A u \in Units : counters[u] <= time, Scan(raw')
    PROVE  \A u \in Units : counters'[u] <= time
<1>1. TimeMax \in Nat /\ time \in Nat /\ stamp[Func] \in Nat
  BY FuncType, DebounceAssumption DEF TypeOK
<1>2. \A u \in Units : counters[u] \in Nat /\ Counted[u] \in Nat /\ Counted[u] <= counters[u]
  BY CountedType, DebounceAssumption DEF TypeOK
<1>3. \A u \in Units : Counted[u] <= time
  BY <1>1, <1>2
<1>a. CASE SymDeferG(raw') \/ None(raw')
  BY <1>a DEF SymDeferG, None, heap
<1>b. CASE SymDeferPr(raw')
  BY <1>b, <1>1, <1>2 DEF SymDeferPr
<1>c. CASE SymDeferPk(raw')
  BY <1>c, <1>1, <1>3 DEF SymDeferPk
<1>d. CASE SymEager(raw')
  BY <1>d, <1>1, <1>3 DEF SymEager
<1>e. CASE AsymEagerDeferPk(raw')
  BY <1>e, <1>1, <1>3 DEF AsymEagerDeferPk
<1>. QED BY <1>a, <1>b, <1>c, <1>d, <1>e DEF Scan

\* After the scan of each deferring algorithm its conjunct of the invariant
\* holds, and a key that the firmware sees in another state than the matrix has
\* not been steady for the debounce time.
LEMMA GlobalSettles ==
    ASSUME TypeOK, TypeOK', SettleInv, Scan(raw'), Func = "sym_defer_g"
    PROVE  /\ GlobalPending'
           /\ \A k \in Keys : cooked'[k] # raw'[k] => ~Steady(k)
<1>0. Func' = Func /\ time' = time
  BY DEF Scan, config, Func
<1>1. SymDeferG(raw')
  BY DEF Scan, Eager, SymEager, SymDeferPr, SymDeferPk, AsymEagerDeferPk, None
<1>2. Func \in Types /\ TimeMax \in Nat /\ stamp[Func] \in 0..TimeMax /\ time \in 0..TimeMax
  BY FuncType, DebounceAssumption DEF TypeOK
<1>3. cooked # raw => running[Func] /\ \E j \in Keys : age[j] <= stamp[Func]
  BY DEF SettleInv, GlobalPending
<1>4. CASE raw' # raw
  <2>1. running'[Func] /\ stamp'[Func] = 0
    BY <1>1, <1>2, <1>4 DEF SymDeferG, Now, TypeOK
  <2>2. PICK j \in Keys : raw'[j] # raw[j]
    BY <1>4 DEF TypeOK
  <2>3. age'[j] = 0
    BY <2>2 DEF Scan
  <2>4. \A k \in Keys : ~Steady(k)
    BY <2>2 DEF Steady, Peers
  <2>. QED BY <1>0, <2>1, <2>3, <2>4 DEF GlobalPending
<1>5. CASE raw' = raw /\ running[Func] /\ stamp[Func] >= time
  <2>1. cooked' = raw'
    BY <1>1, <1>5 DEF SymDeferG
  <2>. QED BY <2>1 DEF GlobalPending
<1>6. CASE raw' = raw /\ ~(running[Func] /\ stamp[Func] >= time)
  <2>1. cooked' = cooked /\ running' = running /\ stamp' = stamp
    BY <1>1, <1>6 DEF SymDeferG
  <2>2. \A j \in Keys : age'[j] = age[j] /\ age[j] \in Nat
    BY <1>2, <1>6 DEF Scan, TypeOK
  <2>3. ASSUME NEW k \in Keys, cooked'[k] # raw'[k], Steady(k) PROVE FALSE
    <3>1. running[Func] /\ \E j \in Keys : age[j] <= stamp[Func]
      BY <1>3, <1>6, <2>1, <2>3
    <3>2. \A j \in Keys : age[j] >= time
      BY <2>3 DEF Steady, Peers
    <3>. QED BY <1>2, <1>6, <2>2, <3>1, <3>2
  <2>. QED BY <1>0, <1>3, <1>6, <2>1, <2>2, <2>3 DEF GlobalPending
<1>. QED BY <1>4, <1>5, <1>6

LEMMA RowSettles ==
    ASSUME TypeOK, TypeOK', FilterInv, SettleInv, Scan(raw'), Func = "sym_defer_pr"
    PROVE  /\ RowPending'
           /\ \A k \in Keys : cooked'[k] # raw'[k] => ~Steady(k)
<1>0. Func' = Func /\ time' = time
  BY DEF Scan, config, Func
<1>1. SymDeferPr(raw')
  BY DEF Scan, Eager, SymEager, SymDeferG, SymDeferPk, AsymEagerDeferPk, None
<1>2. /\ Func \in Types /\ TimeMax \in Nat /\ stamp[Func] \in 0..TimeMax
      /\ time \in 0..TimeMax /\ time # 0
  BY FuncType, DebounceAssumption DEF TypeOK, Func
<1>3. stamp'[Func] = 0 /\ last_raw = raw
  BY <1>1, <1>2 DEF SymDeferPr, Now, TypeOK, FilterInv, RowInv
<1>4. \A k \in Keys : Row[k] \in Rows /\ Row[k] \in Units
  BY DEF Rows, Units
<1>5. \A k \in Keys : /\ age[k] \in 0..TimeMax /\ age'[k] \in 0..TimeMax
                      /\ counters[Row[k]] \in 0..TimeMax
  BY <1>4 DEF TypeOK
<1>6. SUFFICES ASSUME NEW k \in Keys, cooked'[k] # raw'[k]
               PROVE  /\ ~Steady(k)
                      /\ \E j \in Keys : Row[j] = Row[k] /\ counters'[Row[k]] > 0
                                         /\ counters'[Row[k]] + age'[j] <= time
  <2>1. \A u, j : Within(u, age[j])'
                  <=> counters'[u] > 0 /\ counters'[u] + age'[j] <= time + stamp'[Func]
    BY <1>0 DEF Within
  <2>2. time + stamp'[Func] = time
    BY <1>2, <1>3
  <2>. QED BY <1>6, <2>1, <2>2 DEF RowPending
<1>7. CASE \E i \in Keys : Row[i] = Row[k] /\ raw'[i] # last_raw[i]
  <2>1. PICK i \in Keys : Row[i] = Row[k] /\ raw'[i] # last_raw[i]
    BY <1>7
  <2>2. counters'[Row[k]] = time
    BY <1>1, <1>4, <1>7 DEF SymDeferPr
  <2>3. age'[i] = 0
    BY <1>3, <2>1 DEF Scan
  <2>4. ~Steady(k)
    BY <1>1, <1>3, <2>1 DEF Steady, Peers, SymDeferPr
  <2>. QED BY <1>2, <2>1, <2>2, <2>3, <2>4
<1>8. CASE \A i \in Keys : Row[i] = Row[k] => raw'[i] = last_raw[i]
  <2>1. counters[Row[k]] \notin 1..stamp[Func] /\ cooked'[k] = cooked[k]
    BY <1>1, <1>6, <1>8 DEF SymDeferPr, Take
  <2>2. PICK j \in Keys : Row[j] = Row[k] /\ Within(Row[k], age[j])
    BY <1>3, <1>6, <1>8, <2>1 DEF SettleInv, RowPending
  <2>. DEFINE c == counters[Row[k]]  c1 == counters'[Row[k]]  st == stamp[Func]
              a == age[j]  a1 == age'[j]
  <2>3. c1 = c - st
    BY <1>1, <1>4, <1>8, <2>1, <2>2 DEF SymDeferPr, Within
  <2>4. a1 = a
    BY <1>3, <1>8, <2>2 DEF Scan
  <2>5. c \in Int /\ st \in Int /\ a \in Int /\ time \in Int /\ c > 0 /\ c + a <= time + st
        /\ c > st
    BY <1>2, <1>5, <2>1, <2>2 DEF Within
  <2>6. c1 > 0 /\ c1 + a1 <= time /\ a < time
    <3>. HIDE DEF c, c1, st, a, a1
    <3>. QED BY <2>3, <2>4, <2>5
  <2>7. ~Steady(k)
    BY <1>1, <1>2, <1>5, <2>2, <2>6 DEF Steady, Peers, SymDeferPr
  <2>. QED BY <2>2, <2>6, <2>7
<1>. QED BY <1>7, <1>8

LEMMA KeySettles ==
    ASSUME TypeOK, TypeOK', FilterInv, SettleInv, Scan(raw'), Func = "sym_defer_pk"
    PROVE  /\ KeyPending'
           /\ \A k \in Keys : cooked'[k] # raw'[k] => ~Steady(k)
<1>0. Func' = Func /\ time' = time
  BY DEF Scan, config, Func
<1>1. SymDeferPk(raw')
  BY DEF Scan, Eager, SymEager, SymDeferG, SymDeferPr, AsymEagerDeferPk, None
<1>2. /\ Func \in Types /\ TimeMax \in Nat /\ stamp[Func] \in 0..TimeMax
      /\ time \in 0..TimeMax /\ time # 0
  BY FuncType, DebounceAssumption DEF TypeOK, Func
<1>3. stamp'[Func] = 0
  BY <1>1, <1>2 DEF SymDeferPk, Now, TypeOK
<1>4. \A k \in Keys : k \in Units
  BY DEF Units
<1>5. \A k \in Keys : age[k] \in 0..TimeMax /\ counters[k] \in 0..TimeMax
  BY <1>4 DEF TypeOK
<1>6. SUFFICES ASSUME NEW k \in Keys, cooked'[k] # raw'[k]
               PROVE  /\ ~Steady(k) /\ running'[Func]
                      /\ counters'[k] > 0 /\ counters'[k] + age'[k] <= time
  <2>1. \A j \in Keys : Within(j, age[j])'
                  <=> counters'[j] > 0 /\ counters'[j] + age'[j] <= time + stamp'[Func]
    BY <1>0 DEF Within
  <2>2. time + stamp'[Func] = time
    BY <1>2, <1>3
  <2>. QED BY <1>0, <1>6, <2>1, <2>2 DEF KeyPending
<1>7. k \notin Expired /\ cooked'[k] = cooked[k]
  BY <1>1, <1>6 DEF SymDeferPk, Take
<1>8. Counted[k] \in Nat /\ Counted[k] <= counters[k]
  BY <1>4, CountedType, <1>2
<1>9. CASE raw'[k] # raw[k]
  <2>1. age'[k] = 0 /\ ~Steady(k) /\ raw' # raw
    BY <1>9, <1>1 DEF Scan, Steady, Peers, SymDeferPk
  <2>2. counters[k] = 0
    BY <1>6, <1>7, <1>9 DEF FilterInv, KeyInv, TypeOK
  <2>3. Counted[k] = 0
    BY <1>8, <2>2
  <2>4. counters'[k] = time /\ running'[Func]
    BY <1>1, <1>2, <1>4, <1>6, <2>1, <2>3 DEF SymDeferPk, TypeOK
  <2>. QED BY <1>2, <2>1, <2>4
<1>a. CASE raw'[k] = raw[k]
  <2>1. running[Func] /\ Within(k, age[k])
    BY <1>6, <1>7, <1>a DEF SettleInv, KeyPending
  <2>2. counters[k] > 0
    BY <2>1 DEF Within
  <2>3. Counted[k] > 0 /\ StillRunning /\ Counted[k] + age[k] <= time
    BY <1>2, <1>4, <1>5, <1>7, <2>1, <2>2, WithinRest
  <2>4. counters'[k] = Counted[k] /\ running'[Func]
    BY <1>1, <1>2, <1>4, <1>6, <1>8, <2>3 DEF SymDeferPk, TypeOK
  <2>5. age'[k] = age[k]
    BY <1>a DEF Scan
  <2>6. ~Steady(k)
    BY <1>1, <1>2, <1>4, <1>5, <1>7, <2>1, WithinEnds DEF Steady, Peers, SymDeferPk
  <2>. QED BY <2>3, <2>4, <2>5, <2>6
<1>. QED BY <1>9, <1>a

\* The scan of an eager algorithm leaves a key in another state than the matrix
\* only while its unit is locked.
LEMMA EagerSettles ==
    ASSUME TypeOK, TypeOK', SettleInv, Scan(raw'), Func \in Eager
    PROVE  /\ EagerPending'
           /\ \A k \in Keys : cooked'[k] # raw'[k] => ~(age'[k] >= time \/ Unlocked(k))
<1>0. Func' = Func /\ time' = time /\ \A k : UnitOf(k)' = UnitOf(k)
  BY DEF Scan, config, Func, UnitOf
<1>1. SymEager(raw')
  BY DEF Scan, Eager, SymDeferG, SymDeferPr, SymDeferPk, AsymEagerDeferPk, None
<1>2. /\ Func \in Types /\ TimeMax \in Nat /\ stamp[Func] \in 0..TimeMax
      /\ time \in 0..TimeMax /\ time # 0
  BY FuncType, DebounceAssumption DEF TypeOK, Func, Eager
<1>3. stamp'[Func] = 0
  BY <1>1, <1>2 DEF SymEager, Now, TypeOK
<1>4. \A k \in Keys : UnitOf(k) \in Units
  BY UnitType
<1>5. /\ \A k \in Keys : /\ age[k] \in 0..TimeMax /\ since[k] \in 0..TimeMax
                         /\ age'[k] \in 0..TimeMax
      /\ \A u \in Units : /\ counters[u] \in 0..TimeMax /\ counters[u] <= time
                          /\ Counted[u] \in 0..TimeMax /\ Counted[u] <= counters[u]
  BY CountedType DEF TypeOK, SettleInv
<1>6. \A k \in Keys :
        /\ counters[UnitOf(k)] > 0 =>
              /\ running[Func]
              /\ \E j \in Keys : UnitOf(j) = UnitOf(k) /\ Within(UnitOf(k), since[j])
        /\ cooked[k] # raw[k] => Within(UnitOf(k), age[k])
  BY DEF SettleInv, EagerPending
<1>. DEFINE Transfers == raw' # raw \/ Expired # {}
            Taken     == {k \in Keys : /\ Transfers /\ Counted[UnitOf(k)] = 0
                                       /\ raw'[k] # cooked[k]}
<1>7. /\ cooked' = Take(Taken, raw')
      /\ counters' = [u \in Units |->
             IF \E k \in Taken : UnitOf(k) = u THEN time ELSE Counted[u]]
      /\ running' = [running EXCEPT ![Func] = StillRunning \/ Taken # {}]
  BY <1>1 DEF SymEager
\* A unit whose counter goes on running changes nothing, and ends in time.
<1>8. ASSUME NEW k \in Keys, Counted[UnitOf(k)] # 0
      PROVE  /\ counters'[UnitOf(k)] = Counted[UnitOf(k)] /\ Counted[UnitOf(k)] > 0
             /\ running'[Func]
             /\ \E j \in Keys : /\ UnitOf(j) = UnitOf(k) /\ since'[j] = since[j]
                                /\ Counted[UnitOf(k)] + since[j] <= time
             /\ \A n \in Int : Within(UnitOf(k), n) => Counted[UnitOf(k)] + n <= time
  <2>1. counters[UnitOf(k)] > 0 /\ Counted[UnitOf(k)] > 0
    BY <1>4, <1>5, <1>8
  <2>2. running[Func]
    BY <1>6, <2>1
  <2>3. PICK j \in Keys : UnitOf(j) = UnitOf(k) /\ Within(UnitOf(k), since[j])
    BY <1>6, <2>1
  <2>4. UnitOf(k) \notin Expired /\ StillRunning
    BY <1>4, <1>8, <2>2, CountedRest
  <2>5. \A n \in Int : Within(UnitOf(k), n) => Counted[UnitOf(k)] + n <= time
    BY <1>4, <2>1, <2>2, <2>4, WithinRest
  <2>6. counters'[UnitOf(k)] = Counted[UnitOf(k)]
    BY <1>4, <1>7, <1>8
  <2>7. running'[Func]
    BY <1>2, <1>7, <2>4 DEF TypeOK
  <2>8. since'[j] = since[j]
    <3>1. j \notin Taken
      BY <1>8, <2>3
    <3>2. cooked'[j] = cooked[j]
      BY <1>7, <3>1 DEF Take
    <3>. QED BY <3>2 DEF Scan
  <2>9. Counted[UnitOf(k)] + since[j] <= time
    BY <1>5, <2>3, <2>5
  <2>. QED BY <2>1, <2>3, <2>5, <2>6, <2>7, <2>8, <2>9
\* A key that is left behind belongs to such a unit.
<1>9. ASSUME NEW k \in Keys, cooked'[k] # raw'[k]
      PROVE  /\ Counted[UnitOf(k)] # 0
             /\ Counted[UnitOf(k)] + age'[k] <= time
  <2>1. k \notin Taken /\ cooked'[k] = cooked[k]
    BY <1>7, <1>9 DEF Take
  <2>2. ~Transfers \/ Counted[UnitOf(k)] # 0
    BY <1>9, <2>1
  <2>3. raw'[k] = raw[k] => Within(UnitOf(k), age[k])
    BY <1>6, <1>9, <2>1
  <2>4. Counted[UnitOf(k)] # 0
    <3>1. CASE ~Transfers
      <4>1. Within(UnitOf(k), age[k]) /\ UnitOf(k) \notin Expired
        BY <2>3, <3>1
      <4>2. counters[UnitOf(k)] > 0 /\ running[Func]
        BY <1>6, <4>1 DEF Within
      <4>. QED BY <1>2, <1>4, <1>5, <4>1, <4>2, WithinRest
    <3>. QED BY <2>2, <3>1
  <2>5. CASE raw'[k] = raw[k]
    <3>1. age'[k] = age[k]
      BY <2>5 DEF Scan
    <3>. QED BY <1>5, <1>8, <2>3, <2>4, <2>5, <3>1
  <2>6. CASE raw'[k] # raw[k]
    <3>1. age'[k] = 0
      BY <2>6 DEF Scan
    <3>. QED BY <1>2, <1>4, <1>5, <2>4, <3>1
  <2>. QED BY <2>5, <2>6
<1>a. time + stamp'[Func] = time
  BY <1>2, <1>3
<1>b. ASSUME NEW k \in Keys, counters'[UnitOf(k)] > 0
      PROVE  /\ running'[Func]
             /\ \E j \in Keys : /\ UnitOf(j) = UnitOf(k)
                                /\ counters'[UnitOf(k)] + since'[j] <= time
  <2>1. CASE \E i \in Taken : UnitOf(i) = UnitOf(k)
    <3>1. PICK i \in Taken : UnitOf(i) = UnitOf(k)
      BY <2>1
    <3>2. counters'[UnitOf(k)] = time
      BY <1>4, <1>7, <2>1
    <3>3. cooked'[i] # cooked[i] /\ i \in Keys
      BY <1>7, <3>1 DEF Take
    <3>4. since'[i] = 0
      BY <3>3 DEF Scan
    <3>5. running'[Func]
      BY <1>2, <1>7, <3>1 DEF TypeOK
    <3>. QED BY <1>2, <3>1, <3>2, <3>3, <3>4, <3>5
  <2>2. CASE ~\E i \in Taken : UnitOf(i) = UnitOf(k)
    <3>1. counters'[UnitOf(k)] = Counted[UnitOf(k)]
      BY <1>4, <1>7, <2>2
    <3>2. Counted[UnitOf(k)] # 0
      BY <1>b, <3>1
    <3>. QED BY <1>8, <3>1, <3>2
  <2>. QED BY <2>1, <2>2
<1>c. EagerPending'
  BY <1>0, <1>8, <1>9, <1>a, <1>b DEF EagerPending, Within
<1>d. ASSUME NEW k \in Keys, cooked'[k] # raw'[k], age'[k] >= time \/ Unlocked(k)
      PROVE  FALSE
  <2>1. Counted[UnitOf(k)] > 0 /\ Counted[UnitOf(k)] + age'[k] <= time
    BY <1>8, <1>9, <1>d
  <2>2. PICK j \in Keys : UnitOf(j) = UnitOf(k) /\ Counted[UnitOf(k)] + since[j] <= time
    BY <1>8, <1>9, <1>d
  <2>3. Unlocked(k) => since[j] >= time
    BY <2>2 DEF Unlocked, Peers, UnitOf, Eager
  <2>. DEFINE c == Counted[UnitOf(k)]
              a == age'[k]
              n == since[j]
  <2>4. c \in Int /\ a \in Int /\ n \in Int /\ time \in Int
        /\ c > 0 /\ c + a <= time /\ c + n <= time /\ (a >= time \/ n >= time)
    BY <1>2, <1>4, <1>5, <1>d, <2>1, <2>2, <2>3
  <2>. HIDE DEF c, a, n
  <2>. QED BY <2>4
<1>. QED BY <1>c, <1>d

\* The scan of the asymmetric algorithm leaves no press behind, and a release
\* only for twice the debounce time of scans.
LEMMA AsymSettles ==
    ASSUME TypeOK, TypeOK', SettleInv, Scan(raw'), Func = "asym_eager_defer_pk"
    PROVE  /\ AsymPending'
           /\ \A k \in Keys : cooked'[k] # raw'[k] => ~(raw'[k] \/ scans' >= 2 * time)
<1>0. Func' = Func /\ time' = time
  BY DEF Scan, config, Func
<1>1. AsymEagerDeferPk(raw')
  BY DEF Scan, Eager, SymEager, SymDeferG, SymDeferPr, SymDeferPk, None
<1>2. /\ Func \in Types /\ TimeMax \in Nat /\ stamp[Func] \in 0..TimeMax
      /\ time \in 0..TimeMax /\ time # 0
  BY FuncType, DebounceAssumption DEF TypeOK, Func
<1>3. stamp'[Func] = 0 /\ fresh' = FALSE
  BY <1>1, <1>2 DEF AsymEagerDeferPk, Now, TypeOK, Scan
<1>4. \A k \in Keys : k \in Units
  BY DEF Units
<1>5. \A k \in Keys : /\ raw[k] \in BOOLEAN /\ raw'[k] \in BOOLEAN
                      /\ cooked[k] \in BOOLEAN /\ cooked'[k] \in BOOLEAN
                      /\ counters[k] \in 0..TimeMax /\ counters[k] <= time
                      /\ Counted[k] \in 0..TimeMax /\ Counted[k] <= counters[k]
  BY <1>4, CountedType DEF TypeOK, SettleInv
<1>. DEFINE Released  == {k \in Keys \cap Expired : ~pressed[k]}
            Transfers == raw' # raw \/ \E k \in Keys \cap Expired : pressed[k]
            Starts    == {k \in Keys : /\ Transfers /\ raw'[k] # Take(Released, raw')[k]
                                       /\ Counted[k] = 0}
            Presses   == {k \in Starts : raw'[k]}
<1>6. /\ cooked' = Take(Released \cup Presses, raw')
      /\ pressed' = [k \in Keys |-> IF k \in Starts THEN raw'[k] ELSE pressed[k]]
      /\ counters' = [u \in Units |->
             IF u \in Starts THEN time
             ELSE IF u \in Keys /\ Transfers /\ ~(raw'[u] # Take(Released, raw')[u]) /\ ~pressed[u]
             THEN 0 ELSE Counted[u]]
      /\ running' = [running EXCEPT ![Func] = StillRunning \/ Starts # {}]
  BY <1>1 DEF AsymEagerDeferPk
<1>7. /\ \A k \in Keys : counters[k] > 0 => running[Func]
      /\ \A k \in Keys : ~cooked[k] => ~raw[k] /\ counters[k] = 0
      /\ \A k \in Keys : cooked[k] /\ ~raw[k] =>
              /\ counters[k] > 0 /\ (fresh => stamp[Func] > 0)
              /\ scans + counters[k] <= IF pressed[k] THEN time ELSE 2 * time
  BY DEF SettleInv, AsymPending
<1>8. ASSUME NEW k \in Keys, counters'[k] > 0 PROVE running'[Func]
  <2>1. CASE k \in Starts
    BY <1>2, <1>6, <2>1 DEF TypeOK
  <2>2. CASE k \notin Starts
    <3>1. counters'[k] \in {0, Counted[k]}
      BY <1>4, <1>6, <2>2
    <3>2. Counted[k] # 0 /\ counters[k] > 0
      BY <1>5, <1>8, <3>1
    <3>3. StillRunning
      BY <1>4, <1>7, <3>2, CountedRest
    <3>. QED BY <1>2, <1>6, <3>3 DEF TypeOK
  <2>. QED BY <2>1, <2>2
\* A press is never left behind.
<1>9. ASSUME NEW k \in Keys, ~cooked'[k] PROVE ~raw'[k] /\ counters'[k] = 0
  <2>1. CASE k \in Released
    <3>1. cooked'[k] = raw'[k] /\ Take(Released, raw')[k] = raw'[k]
      BY <1>6, <2>1 DEF Take
    <3>2. Counted[k] = 0
      BY <1>2, <1>4, <1>5, <2>1 DEF Expired, Counted
    <3>. QED BY <1>4, <1>5, <1>6, <1>9, <3>1, <3>2
  <2>2. CASE k \notin Released
    <3>1. Take(Released, raw')[k] = cooked[k]
      BY <2>2 DEF Take
    <3>2. ~cooked[k]
      BY <1>5, <1>6, <1>9, <2>2 DEF Take
    <3>3. ~raw[k] /\ counters[k] = 0 /\ Counted[k] = 0
      BY <1>5, <1>7, <3>2
    <3>4. ~raw'[k]
      <4>1. SUFFICES ASSUME raw'[k] PROVE FALSE
        OBVIOUS
      <4>2. k \in Presses
        BY <1>5, <3>1, <3>2, <3>3, <4>1
      <4>. QED BY <1>6, <1>9, <4>1, <4>2 DEF Take
    <3>5. k \notin Starts
      BY <1>5, <3>1, <3>2, <3>4
    <3>. QED BY <1>4, <1>6, <3>3, <3>4, <3>5
  <2>. QED BY <2>1, <2>2
\* A release that is left behind comes nearer.
<1>a. ASSUME NEW k \in Keys, cooked'[k], ~raw'[k]
      PROVE  /\ counters'[k] > 0
             /\ scans' + counters'[k] <= IF pressed'[k] THEN time ELSE 2 * time
  <2>1. k \notin Released /\ k \notin Presses /\ cooked[k]
    BY <1>5, <1>6, <1>a DEF Take
  <2>2. raw'[k] # Take(Released, raw')[k]
    BY <1>5, <1>a, <2>1 DEF Take
  <2>3. CASE k \in Starts
    <3>1. counters'[k] = time /\ ~pressed'[k]
      BY <1>4, <1>6, <1>a, <2>3
    <3>2. scans' <= time
      <4>1. CASE raw' # raw
        BY <1>2, <4>1 DEF Scan
      <4>2. CASE raw' = raw
        <5>1. counters[k] > 0 /\ running[Func]
              /\ scans + counters[k] <= IF pressed[k] THEN time ELSE 2 * time
          BY <1>7, <1>a, <2>1, <4>2
        <5>2. k \in Expired
          BY <1>4, <1>2, <2>3, <5>1, WithinRest
        <5>3. pressed[k] /\ counters[k] >= 1 /\ scans + counters[k] <= time
          BY <1>5, <2>1, <5>1, <5>2
        <5>4. scans \in Nat /\ scans' <= scans + 1
          BY <1>2, <4>2 DEF Scan, Later, TypeOK
        <5>5. scans' \in Nat
          BY <1>2 DEF TypeOK
        <5>. QED BY <1>2, <1>5, <5>3, <5>4, <5>5
      <4>. QED BY <4>1, <4>2
    <3>3. scans' \in Nat
      BY <1>2 DEF TypeOK
    <3>4. scans' + time <= 2 * time /\ time > 0
      <4>. DEFINE n == scans'
      <4>1. n \in Int /\ time \in Int /\ n <= time /\ time > 0
        BY <1>2, <3>2, <3>3
      <4>2. n + time <= 2 * time
        <5>. HIDE DEF n
        <5>. QED BY <4>1
      <4>. QED BY <4>1, <4>2
    <3>. QED BY <3>1, <3>4
  <2>4. CASE k \notin Starts
    <3>1. counters'[k] = Counted[k] /\ pressed'[k] = pressed[k]
      BY <1>4, <1>6, <2>2, <2>4
    <3>2. CASE raw' # raw
      <4>1. Counted[k] # 0 /\ scans' = 0
        BY <2>2, <2>4, <3>2 DEF Scan
      <4>. QED BY <1>2, <1>5, <3>1, <4>1
    <3>3. CASE raw' = raw
      <4>1. /\ counters[k] > 0 /\ running[Func] /\ (fresh => stamp[Func] > 0)
            /\ scans + counters[k] <= IF pressed[k] THEN time ELSE 2 * time
        BY <1>7, <1>a, <2>1, <3>3
      <4>2. k \notin Expired
        <5>1. SUFFICES ASSUME k \in Expired PROVE FALSE
          OBVIOUS
        <5>2. pressed[k]
          BY <2>1, <5>1
        <5>3. Counted[k] # 0
          BY <2>2, <2>4, <5>1, <5>2
        <5>. QED BY <1>4, <4>1, <5>1, <5>3, CountedRest
      <4>3. Counted[k] = counters[k] - stamp[Func] /\ Counted[k] > 0
        BY <1>4, <4>1, <4>2, WithinRest
      <4>4. scans \in Nat /\ scans' \in Nat /\ scans' <= IF fresh THEN scans + 1 ELSE scans
        BY <1>2, <3>3 DEF Scan, Later, TypeOK
      <4>5. scans' + Counted[k] <= scans + counters[k]
        <5>. DEFINE c == counters[k]  d == Counted[k]  st == stamp[Func]
                    n == scans  m == scans'
        <5>1. /\ c \in Int /\ d \in Int /\ st \in Int /\ d = c - st
              /\ n \in Int /\ m \in Int
          BY <1>2, <1>5, <4>3, <4>4
        <5>2. m <= n + st
          BY <1>2, <4>1, <4>4
        <5>3. m + d <= n + c
          <6>. HIDE DEF c, d, st, n, m
          <6>. QED BY <5>1, <5>2
        <5>. QED BY <5>3
      <4>. QED BY <1>2, <1>5, <3>1, <4>1, <4>3, <4>4, <4>5
    <3>. QED BY <3>2, <3>3
  <2>. QED BY <2>3, <2>4
<1>b. AsymPending'
  BY <1>0, <1>3, <1>8, <1>9, <1>a DEF AsymPending
<1>c. ASSUME NEW k \in Keys, cooked'[k] # raw'[k], raw'[k] \/ scans' >= 2 * time
      PROVE  FALSE
  <2>1. cooked'[k] /\ ~raw'[k]
    BY <1>5, <1>9, <1>c
  <2>2. counters'[k] > 0 /\ scans' + counters'[k] <= IF pressed'[k] THEN time ELSE 2 * time
    BY <1>a, <2>1
  <2>3. counters'[k] \in Nat /\ scans' \in Nat
    BY <1>2, <1>4 DEF TypeOK
  <2>. QED BY <1>2, <1>c, <2>1, <2>2, <2>3
<1>. QED BY <1>b, <1>c

LEMMA SettleScan ==
    ASSUME TypeOK, FilterInv, SettleInv, NEW r \in [Keys -> BOOLEAN], Scan(r)
    PROVE  SettleInv' /\ \A k \in Keys : Differs(k) => ~Due(k)
<1>0. /\ Scan(raw') /\ TypeOK' /\ Func' = Func /\ time' = time
      /\ \A k : UnitOf(k)' = UnitOf(k)
  BY ScanType DEF Scan, config, Func, UnitOf
<1>1. \A u \in Units : counters'[u] <= time
  BY <1>0, BoundedScan DEF SettleInv
<1>2. Func = "none" => cooked' = raw'
  <2>1. Func = "none" => None(raw')
    BY <1>0 DEF Scan, Eager, SymEager, SymDeferG, SymDeferPr, SymDeferPk, AsymEagerDeferPk
  <2>. QED BY <2>1 DEF None, SettleInv
<1>3. SettleInv'
  BY <1>0, <1>1, <1>2, GlobalSettles, RowSettles, KeySettles, EagerSettles, AsymSettles
     DEF SettleInv
<1>4. ASSUME NEW k \in Keys, cooked'[k] # raw'[k] PROVE ~Due(k)
  <2>1. CASE Func \in Defer
    <3>1. ~Steady(k)
      <4>1. CASE Func = "sym_defer_g"
        BY <1>0, <1>4, <4>1, GlobalSettles
      <4>2. CASE Func = "sym_defer_pr"
        BY <1>0, <1>4, <4>2, RowSettles
      <4>3. CASE Func = "sym_defer_pk"
        BY <1>0, <1>4, <4>3, KeySettles
      <4>. QED BY <2>1, <4>1, <4>2, <4>3 DEF Defer
    <3>. QED BY <2>1, <3>1 DEF Due, Defer, Eager
  <2>2. CASE Func \in Eager
    BY <1>0, <1>4, <2>2, EagerSettles DEF Due, Defer, Eager
  <2>3. CASE Func = "asym_eager_defer_pk"
    BY <1>0, <1>4, <2>3, AsymSettles DEF Due, Defer, Eager
  <2>. QED BY <1>2, <1>4, <2>1, <2>2, <2>3, FuncType DEF Types
<1>. QED BY <1>3, <1>4 DEF Differs

LEMMA SettleTick ==
    ASSUME TypeOK, SettleInv, Tick
    PROVE  SettleInv'
<1>0. /\ Func' = Func /\ time' = time /\ counters' = counters /\ running' = running
      /\ raw' = raw /\ cooked' = cooked /\ pressed' = pressed /\ scans' = scans
      /\ \A k : UnitOf(k)' = UnitOf(k)
  BY DEF Tick, config, heap, Func, UnitOf
<1>1. TimeMax \in Nat \ {0} /\ stamp[Func] \in 0..TimeMax /\ Func \in Types
  BY FuncType, DebounceAssumption
<1>2. stamp'[Func] = Later(stamp[Func], TimeMax) /\ stamp'[Func] > 0
  BY <1>1 DEF Tick, Later
<1>3. \A k \in Keys : /\ age[k] \in 0..TimeMax /\ age'[k] = Later(age[k], TimeMax)
                      /\ since[k] \in 0..TimeMax /\ since'[k] = Later(since[k], TimeMax)
                      /\ k \in Units /\ Row[k] \in Units /\ UnitOf(k) \in Units
  BY UnitType DEF Tick, TypeOK, Units, Rows
<1>4. \A u \in Units, n \in 0..TimeMax :
          Within(u, n) => /\ counters[u] > 0
                          /\ counters[u] + Later(n, TimeMax) <= time + stamp'[Func]
  BY WithinTick DEF SettleInv, Within
<1>5. \A u, j : /\ Within(u, age[j])' <=> counters[u] > 0 /\ counters[u] + age'[j] <= time + stamp'[Func]
                /\ Within(u, since[j])' <=> counters[u] > 0 /\ counters[u] + since'[j] <= time + stamp'[Func]
  BY <1>0 DEF Within
<1>6. \A u \in Units, j \in Keys : /\ Within(u, age[j]) => Within(u, age[j])'
                                   /\ Within(u, since[j]) => Within(u, since[j])'
  BY <1>3, <1>4, <1>5
<1>7. Func = "sym_defer_g" => GlobalPending'
  <2>1. \A j \in Keys : age[j] <= stamp[Func] => age'[j] <= stamp'[Func]
    BY <1>1, <1>2, <1>3 DEF Later
  <2>. QED BY <1>0, <2>1 DEF SettleInv, GlobalPending
<1>8. Func = "sym_defer_pr" => RowPending'
  BY <1>0, <1>3, <1>6 DEF SettleInv, RowPending
<1>9. Func = "sym_defer_pk" => KeyPending'
  BY <1>0, <1>3, <1>6 DEF SettleInv, KeyPending
<1>a. Func \in Eager => EagerPending'
  BY <1>0, <1>3, <1>6 DEF SettleInv, EagerPending
<1>b. Func = "asym_eager_defer_pk" => AsymPending'
  BY <1>0, <1>2 DEF SettleInv, AsymPending
<1>. QED BY <1>0, <1>7, <1>8, <1>9, <1>a, <1>b DEF SettleInv

\* Freshly allocated counters on a matrix without pressed keys leave nothing
\* pending, whichever algorithm is selected.
AllocatedIdle ==
    /\ \A k \in Keys : ~raw[k] /\ ~cooked[k]
    /\ \A u \in Units : counters[u] = 0

LEMMA SettleFresh ==
    TypeOK /\ AllocatedIdle => SettleInv
<1>. SUFFICES ASSUME TypeOK, AllocatedIdle PROVE SettleInv
  OBVIOUS
<1>0. \A u \in Units : counters[u] = 0
  BY DEF AllocatedIdle
<1>1. raw = cooked /\ time \in Nat /\ \A k \in Keys : ~raw[k] /\ ~cooked[k]
  BY DebounceAssumption DEF TypeOK, AllocatedIdle
<1>2. \A k \in Keys : k \in Units /\ UnitOf(k) \in Units
  BY UnitType DEF Units
<1>3. GlobalPending /\ RowPending /\ KeyPending
  BY <1>1 DEF GlobalPending, RowPending, KeyPending
<1>4. EagerPending /\ AsymPending
  BY <1>0, <1>1, <1>2 DEF EagerPending, AsymPending
<1>. QED BY <1>0, <1>1, <1>3, <1>4 DEF SettleInv

LEMMA SettleFreshNext ==
    TypeOK' /\ AllocatedIdle' => SettleInv'
BY SettleFresh, PTL

LEMMA SettleNext ==
    ASSUME SwitchAnytime = FALSE
    PROVE  TypeOK /\ FilterInv /\ SettleInv /\ [Next]_vars => SettleInv'
<1>. SUFFICES ASSUME TypeOK, FilterInv, SettleInv, [Next]_vars PROVE SettleInv'
  OBVIOUS
<1>0. TypeOK'
  BY TypeNext
<1>1. CASE \E r \in [Keys -> BOOLEAN] : Scan(r)
  BY <1>1, SettleScan
<1>2. CASE Select \/ Reset \/ Wakeup
  <2>1. AllocatedIdle'
    BY <1>2 DEF AllocatedIdle, Units, Select, Reset, Set, Idle, Wakeup, Allocate, AllOff
  <2>. QED BY <1>0, <2>1, SettleFreshNext
<1>3. CASE Tick
  BY <1>3, SettleTick
<1>4. CASE UNCHANGED vars
  BY <1>4 DEF SettleInv, GlobalPending, RowPending, KeyPending, EagerPending, AsymPending,
              Within, UnitOf, Func, vars, config, heap, statics, history
<1>. QED
  BY <1>1, <1>2, <1>3, <1>4 DEF Next

\* Whatever the matrix, the algorithm and the debounce time, and however scans
\* and time interleave, no scan leaves behind a key whose change is due, provided
\* the algorithm is only changed while no key is in use.
THEOREM NoKeyLeftBehind ==
    ASSUME SwitchAnytime = FALSE
    PROVE  Spec => Settles
<1>1. Init => FilterInv /\ SettleInv
  <2>. SUFFICES ASSUME Init PROVE FilterInv /\ SettleInv
    OBVIOUS
  <2>1. TypeOK
    BY TypeInit
  <2>2. AllocatedIdle /\ \A k \in Keys : ~last_raw[k]
    BY DEF AllocatedIdle, Init, AllOff
  <2>3. FilterInv
    BY <2>1, <2>2, FilterFresh DEF AllocatedIdle
  <2>. QED BY <2>1, <2>2, <2>3, SettleFresh
<1>2. TypeOK /\ FilterInv /\ SettleInv /\ [Next]_vars =>
        [\A k \in Keys : Differs(k) => ~Due(k)]_vars
  <2>. SUFFICES ASSUME TypeOK, FilterInv, SettleInv, Next, NEW k \in Keys, Differs(k)
                PROVE  ~Due(k)
    OBVIOUS
  <2>1. raw' \in [Keys -> BOOLEAN] /\ Scan(raw')
    BY TypeNext DEF TypeOK, Differs
  <2>. QED BY <2>1, SettleScan
<1>. QED
  BY <1>1, <1>2, TypeInit, TypeNext, FilterNext, SettleNext, PTL DEF Spec, Settles
=============================================================================
