-------------------------- MODULE SnapClickProofs ---------------------------
(***************************************************************************)
(* Proofs about SnapClick for any number of pairs, any key codes and any   *)
(* configurations.                                                         *)
(***************************************************************************)
EXTENDS SnapClick, TLAPS

\* What the configurations must be like: a key is in one pair at most, and keys of
\* pairs are not modifiers.
Separate ==
    \A c \in Configs : \A i \in Pairs, j \in Pairs :
        i # j => PairKeys(c[i]) \cap PairKeys(c[j]) = {}
PlainKeys == \A c \in Configs : \A i \in Pairs : PairKeys(c[i]) \cap Modifiers = {}

\* The state and the report are right for pair i.
PairOK(i) == state[i] = HeldOf(i) /\ report \cap PairKeys(pair[i]) = Wanted(i)

\* The report is right for the keys in no pair.
FreeOK == \A k \in Codes : Hit(k) = {} => (k \in report <=> k \in held)

IInv ==
    /\ TypeOK
    /\ pair \in Configs \cup {NoPairs} /\ stored \in Configs \cup {NoPairs}
    /\ \A i \in Pairs : PairOK(i)
    /\ FreeOK

-----------------------------------------------------------------------------
(* Pairs of keys *)

\* The configuration without pairs is one.
LEMMA NoPairsFacts ==
    /\ NoPairs \in [Pairs -> PairConfig]
    /\ \A i \in Pairs : PairKeys(NoPairs[i]) = {}
<1>1. (CHOOSE k \in Codes : TRUE) \in Codes
  BY SnapAssumption
<1>2. "none" \in Types
  BY DEF Types
<1> QED BY <1>1, <1>2 DEF NoPairs, PairConfig, PairKeys

\* The keys of a pair are key codes.
LEMMA PairKeysType == \A p \in PairConfig : PairKeys(p) \subseteq Codes
  BY DEF PairConfig, PairKeys

\* A key of a pair, its index and the other key.
LEMMA PairFacts ==
    ASSUME NEW p \in PairConfig, NEW k \in PairKeys(p)
    PROVE  LET o == Key(p, 1 - Index(p, k))
           IN  /\ p.type \in Types \ {"none"} /\ PairKeys(p) = {p.key0, p.key1}
               /\ PairKeys(p) = {k, o} /\ o \in Codes
               /\ Index(p, k) \in {0, 1} /\ 1 - Index(p, k) \in {0, 1}
               /\ Key(p, Index(p, k)) = k
               /\ p.key0 = p.key1 => o = k
               /\ p.key0 # p.key1 => /\ o # k /\ Index(p, o) = 1 - Index(p, k)
                                     /\ Index(p, o) # Index(p, k)
                                     /\ {Index(p, k), Index(p, o)} = {0, 1}
  BY DEF PairConfig, PairKeys, Key, Index

\* In a configuration, a key is in one pair at most, and it is not a modifier.
LEMMA HitFacts ==
    ASSUME Separate, PlainKeys, IInv, NEW k \in Codes, NEW i \in Hit(k)
    PROVE  i \in Pairs /\ Hit(k) = {i} /\ k \in PairKeys(pair[i]) /\ k \notin Modifiers
<1>1. pair \in Configs \cup {NoPairs} /\ i \in Pairs /\ k \in PairKeys(pair[i])
  BY DEF IInv, Hit
<1>2. pair \in Configs
  BY <1>1, NoPairsFacts
<1> QED BY <1>1, <1>2 DEF Separate, PlainKeys, Hit

-----------------------------------------------------------------------------
(* Types *)

\* What is done to the report leaves it a set of key codes.
LEMMA ReportType ==
    ASSUME TypeOK, NEW p \in PairConfig, NEW k \in Codes
    PROVE  BothPressed(p, k) \subseteq Codes /\ OneReleased(p, k) \subseteq Codes
<1>1. p.key0 \in Codes /\ p.key1 \in Codes /\ report \subseteq Codes
  BY DEF TypeOK, PairConfig
<1>2. \A n \in {0, 1} : Key(p, n) \in Codes
  BY <1>1 DEF Key
<1>3. 1 - Index(p, k) \in {0, 1}
  BY DEF Index
<1>4. Key(p, 1 - Index(p, k)) \in Codes
  BY <1>2, <1>3
<1>5. BothPressed(p, k) \subseteq Codes
  BY <1>1, <1>4 DEF BothPressed
<1>6. OneReleased(p, k) \subseteq Codes
  BY <1>1, <1>4 DEF OneReleased
<1> QED BY <1>5, <1>6

\* Every step keeps the types: one step per action.
LEMMA TypeStep == TypeOK /\ [Next]_vars => TypeOK'
<1> SUFFICES ASSUME TypeOK, [Next]_vars PROVE TypeOK'
  OBVIOUS
<1>1. \A i \in Pairs : pair[i] \in PairConfig
  BY DEF TypeOK
<1>2. \A i \in Pairs, k \in Codes : Index(pair[i], k) \in {0, 1}
  BY DEF Index
<1>3. ASSUME NEW k \in Codes, Press(k) PROVE TypeOK'
  <2>1. state' \in [Pairs -> SUBSET {0, 1}]
    BY <1>2, <1>3 DEF Press, BothKeys, TypeOK
  <2>2. report' \subseteq Codes
    <3>1. TakesPress(k) \subseteq Pairs
      BY DEF TakesPress, Hit
    <3>2. CASE report' = report \cup {k}
      BY <3>2 DEF TypeOK
    <3>3. ASSUME NEW i \in TakesPress(k), report' = BothPressed(pair[i], k)
          PROVE  report' \subseteq Codes
      BY <1>1, <3>1, <3>3, ReportType
    <3> QED BY <1>3, <3>2, <3>3 DEF Press
  <2>3. latest' \in [Pairs -> {0, 1}]
    BY <1>2, <1>3 DEF Press, TypeOK
  <2> QED BY <1>3, <2>1, <2>2, <2>3 DEF Press, TypeOK
<1>4. ASSUME NEW k \in Codes, Release(k) PROVE TypeOK'
  <2>1. \A i \in Pairs : ReleasedState(i, k) \in SUBSET {0, 1}
    <3>1. \A i \in Pairs : 1 - Index(pair[i], k) \in {0, 1}
      BY <1>2
    <3> QED BY <3>1 DEF ReleasedState
  <2>2. state' \in [Pairs -> SUBSET {0, 1}]
    BY <1>4, <2>1 DEF Release, TypeOK
  <2>3. report' \subseteq Codes
    <3>1. TakesRelease(k) \subseteq Pairs
      BY DEF TakesRelease, Hit
    <3>2. CASE report' = report \ {k}
      BY <3>2 DEF TypeOK
    <3>3. ASSUME NEW i \in TakesRelease(k), report' = OneReleased(pair[i], k)
          PROVE  report' \subseteq Codes
      BY <1>1, <3>1, <3>3, ReportType
    <3> QED BY <1>4, <3>2, <3>3 DEF Release
  <2> QED BY <1>4, <2>2, <2>3 DEF Release, TypeOK
<1>5. ASSUME NEW c \in Configs, Set(c) PROVE TypeOK'
  BY <1>5, SnapAssumption DEF Set, TypeOK
<1>6. ASSUME Save PROVE TypeOK'
  BY <1>6 DEF Save, TypeOK
<1>7. ASSUME ConfigReset PROVE TypeOK'
  BY <1>7, NoPairsFacts DEF ConfigReset, TypeOK
<1>8. ASSUME Restart PROVE TypeOK'
  BY <1>8 DEF Restart, TypeOK
<1>9. ASSUME UNCHANGED vars PROVE TypeOK'
  BY <1>9 DEF vars, TypeOK
<1> QED BY <1>3, <1>4, <1>5, <1>6, <1>7, <1>8, <1>9 DEF Next

\* Every variable has its type in every reachable state.
THEOREM TypeCorrect == Spec => []TypeOK
<1>1. Init => TypeOK
  BY SnapAssumption, NoPairsFacts DEF Init, TypeOK
<1> QED BY <1>1, TypeStep, PTL DEF Spec

-----------------------------------------------------------------------------
(* One pair, as a function of its configuration p, of the keys h that are down *)
(* and of the index l of the key pressed last.                                 *)

Down(p, h) == {Index(p, k) : k \in PairKeys(p) \cap h}

Selected(p, h, l) ==
    IF PairKeys(p) \cap h = {p.key0, p.key1} /\ p.key0 # p.key1
    THEN CASE p.type \in {"regular", "last_input"} -> {Key(p, l)}
           [] p.type = "first_key"  -> {p.key0}
           [] p.type = "second_key" -> {p.key1}
           [] OTHER                 -> {}
    ELSE IF p.type = "regular" THEN (PairKeys(p) \cap h) \cap {Key(p, l)}
         ELSE PairKeys(p) \cap h

\* HeldOf and Wanted in these terms, in this state and in the next.
LEMMA InTheseTerms ==
    ASSUME NEW i \in Pairs
    PROVE  /\ HeldOf(i) = Down(pair[i], held) /\ Wanted(i) = Selected(pair[i], held, latest[i])
           /\ HeldOf(i)' = Down(pair'[i], held') /\ Wanted(i)' = Selected(pair'[i], held', latest'[i])
  BY DEF HeldOf, Down, Wanted, Selected

\* A pair none of whose keys is down.
LEMMA NoneDown ==
    ASSUME NEW p \in PairConfig, NEW h, NEW l, PairKeys(p) \cap h = {}
    PROVE  Down(p, h) = {} /\ Selected(p, h, l) = {}
  BY DEF Down, Selected

\* A pair of which only k is down.
LEMMA OneDown ==
    ASSUME NEW p \in PairConfig, NEW k \in PairKeys(p), NEW h, NEW l, PairKeys(p) \cap h = {k}
    PROVE  /\ Down(p, h) = {Index(p, k)}
           /\ Selected(p, h, l) = IF p.type = "regular" THEN {k} \cap {Key(p, l)} ELSE {k}
<1>1. Down(p, h) = {Index(p, k)}
  BY DEF Down
<1>2. ~ (PairKeys(p) \cap h = {p.key0, p.key1} /\ p.key0 # p.key1)
  OBVIOUS
<1>3. Selected(p, h, l) = IF p.type = "regular" THEN {k} \cap {Key(p, l)} ELSE {k}
  BY <1>2 DEF Selected
<1> QED BY <1>1, <1>3

\* A pair of two keys that are both down.
LEMMA TwoDown ==
    ASSUME NEW p \in PairConfig, NEW k \in PairKeys(p), NEW h, NEW l,
           p.key0 # p.key1, PairKeys(p) \subseteq h
    PROVE  /\ Down(p, h) = {0, 1}
           /\ Selected(p, h, l) =
                CASE p.type \in {"regular", "last_input"} -> {Key(p, l)}
                  [] p.type = "first_key"  -> {p.key0}
                  [] p.type = "second_key" -> {p.key1}
                  [] OTHER                 -> {}
<1>1. PairKeys(p) \cap h = {p.key0, p.key1}
  BY PairFacts
<1>2. Index(p, p.key0) = 0 /\ Index(p, p.key1) = 1
  BY DEF Index
<1>3. Down(p, h) = {0, 1}
  BY <1>1, <1>2 DEF Down
<1> QED BY <1>1, <1>3 DEF Selected

\* A pair is not disturbed by a step that concerns none of its keys.
LEMMA OtherPair ==
    ASSUME NEW i \in Pairs, PairOK(i), pair'[i] = pair[i], state'[i] = state[i], latest'[i] = latest[i],
           PairKeys(pair[i]) \cap held' = PairKeys(pair[i]) \cap held,
           report' \cap PairKeys(pair[i]) = report \cap PairKeys(pair[i])
    PROVE  PairOK(i)'
<1>1. Down(pair[i], held') = Down(pair[i], held)
  BY DEF Down
<1>2. Selected(pair[i], held', latest[i]) = Selected(pair[i], held, latest[i])
  BY DEF Selected
<1> QED BY <1>1, <1>2, InTheseTerms DEF PairOK

-----------------------------------------------------------------------------
(* Presses and releases *)

\* What is done to the report concerns the keys of the pair only.
LEMMA ReportOutside ==
    ASSUME NEW p \in PairConfig, NEW k \in PairKeys(p), NEW x, x \notin PairKeys(p)
    PROVE  /\ x \in BothPressed(p, k) <=> x \in report
           /\ x \in OneReleased(p, k) <=> x \in report
<1>1. p.type \in Types /\ x # k /\ x # p.key0 /\ x # p.key1
      /\ x # Key(p, 1 - Index(p, k))
  BY PairFacts
<1>2. x \in BothPressed(p, k) <=> x \in report
  BY <1>1 DEF BothPressed
<1>3. x \in OneReleased(p, k) <=> x \in report
  BY <1>1 DEF OneReleased
<1> QED BY <1>2, <1>3

\* The press of the second key leaves the key the type selects.
LEMMA BothPressedRight ==
    ASSUME NEW p \in PairConfig, NEW k \in PairKeys(p), NEW h, NEW l, p.key0 # p.key1,
           PairKeys(p) \cap h = PairKeys(p) \ {k},
           report \cap PairKeys(p) = Selected(p, h, l)
    PROVE  BothPressed(p, k) \cap PairKeys(p) = Selected(p, h \cup {k}, Index(p, k))
<1> DEFINE o == Key(p, 1 - Index(p, k))
<1>1. /\ p.type \in Types \ {"none"} /\ PairKeys(p) = {p.key0, p.key1}
      /\ PairKeys(p) = {k, o} /\ o # k /\ Key(p, Index(p, k)) = k
  BY PairFacts
<1>2. PairKeys(p) \cap h = {o} /\ o \in PairKeys(p)
  BY <1>1
<1>3. k \notin report
  BY <1>1, <1>2, OneDown
<1>4. Selected(p, h \cup {k}, Index(p, k)) =
                CASE p.type \in {"regular", "last_input"} -> {k}
                  [] p.type = "first_key"  -> {p.key0}
                  [] p.type = "second_key" -> {p.key1}
                  [] OTHER                 -> {}
  <2>1. PICK g : g = h \cup {k}
    OBVIOUS
  <2>2. PairKeys(p) \subseteq g
    BY <1>1, <1>2, <2>1
  <2>3. Selected(p, g, Index(p, k)) =
                CASE p.type \in {"regular", "last_input"} -> {k}
                  [] p.type = "first_key"  -> {p.key0}
                  [] p.type = "second_key" -> {p.key1}
                  [] OTHER                 -> {}
    BY <1>1, <2>2, TwoDown
  <2> QED BY <2>1, <2>3
<1>5. CASE p.type \in {"regular", "last_input"}
  <2>1. BothPressed(p, k) = (report \ {o}) \cup {k}
    BY <1>5 DEF BothPressed
  <2> QED BY <1>1, <1>4, <1>5, <2>1
<1>6. CASE p.type = "first_key"
  <2>1. BothPressed(p, k) = (report \ {p.key1}) \cup {p.key0}
    BY <1>6 DEF BothPressed
  <2> QED BY <1>1, <1>4, <1>6, <2>1
<1>7. CASE p.type = "second_key"
  <2>1. BothPressed(p, k) = (report \ {p.key0}) \cup {p.key1}
    BY <1>7 DEF BothPressed
  <2> QED BY <1>1, <1>4, <1>7, <2>1
<1>8. CASE p.type = "neutral"
  <2>1. BothPressed(p, k) = report \ {o}
    BY <1>8 DEF BothPressed
  <2> QED BY <1>1, <1>3, <1>4, <1>8, <2>1
<1> QED BY <1>1, <1>5, <1>6, <1>7, <1>8 DEF Types

\* The release of one of two keys leaves what the type promises of the other.
LEMMA OneReleasedRight ==
    ASSUME NEW p \in PairConfig, NEW k \in PairKeys(p), NEW h, NEW l \in {0, 1}, p.key0 # p.key1,
           PairKeys(p) \subseteq h, k \notin Modifiers,
           report \cap PairKeys(p) = Selected(p, h, l)
    PROVE  OneReleased(p, k) \cap PairKeys(p) = Selected(p, h \ {k}, l)
<1> DEFINE o == Key(p, 1 - Index(p, k))
<1>1. /\ p.type \in Types \ {"none"} /\ PairKeys(p) = {p.key0, p.key1}
      /\ PairKeys(p) = {k, o} /\ o # k
  BY PairFacts
<1>2. PairKeys(p) \cap (h \ {k}) = {o} /\ o \in PairKeys(p)
  BY <1>1
<1>3. Selected(p, h \ {k}, l) = IF p.type = "regular" THEN {o} \cap {Key(p, l)} ELSE {o}
  <2>1. PICK g : g = h \ {k}
    OBVIOUS
  <2>2. PairKeys(p) \cap g = {o}
    BY <1>2, <2>1
  <2>3. Selected(p, g, l) = IF p.type = "regular" THEN {o} \cap {Key(p, l)} ELSE {o}
    BY <1>2, <2>2, OneDown
  <2> QED BY <2>1, <2>3
<1>4. Selected(p, h, l) =
                CASE p.type \in {"regular", "last_input"} -> {Key(p, l)}
                  [] p.type = "first_key"  -> {p.key0}
                  [] p.type = "second_key" -> {p.key1}
                  [] OTHER                 -> {}
  BY TwoDown
<1>5. CASE p.type = "regular"
  <2>1. OneReleased(p, k) = report \ {k}
    BY <1>5 DEF OneReleased
  <2>2. report \cap PairKeys(p) = {Key(p, l)}
    BY <1>4, <1>5
  <2> QED BY <1>1, <1>3, <1>5, <2>1, <2>2
<1>6. CASE p.type \in {"last_input", "first_key", "second_key"}
  <2>1. OneReleased(p, k) = (report \ {k}) \cup {o}
    BY <1>6 DEF OneReleased, IsKeyPressed
  <2> QED BY <1>1, <1>3, <1>6, <2>1
<1>7. CASE p.type = "neutral"
  <2>1. OneReleased(p, k) = report \cup {o}
    BY <1>7 DEF OneReleased
  <2>2. report \cap PairKeys(p) = {}
    BY <1>4, <1>7
  <2> QED BY <1>1, <1>3, <1>7, <2>1, <2>2
<1> QED BY <1>1, <1>5, <1>6, <1>7 DEF Types

\* The pair a key belongs to is right after the press of the key.
LEMMA PressPair ==
    ASSUME Separate, PlainKeys, IInv, NEW k \in Codes, Press(k), NEW i \in Hit(k)
    PROVE  PairOK(i)' /\ \A x : x \notin PairKeys(pair[i]) => (x \in report' <=> x \in report)
<1>a. i \in Pairs /\ pair[i] \in PairConfig
  BY HitFacts DEF IInv, TypeOK
<1>b. PICK p \in PairConfig : p = pair[i]
  BY <1>a
<1> DEFINE o == Key(p, 1 - Index(p, k))
<1>1. p = pair[i] /\ i \in Pairs /\ Hit(k) = {i} /\ k \in PairKeys(p)
  BY <1>b, HitFacts
<1>2. p \in PairConfig /\ k \notin held /\ held' = held \cup {k} /\ pair' = pair
  BY <1>1 DEF IInv, TypeOK, Press
<1>3. latest'[i] = Index(p, k)
  BY <1>1 DEF Press
<1>4. state[i] = Down(p, held) /\ report \cap PairKeys(p) = Selected(p, held, latest[i])
  BY <1>1, InTheseTerms DEF IInv, PairOK
<1>5. SUFFICES /\ state'[i] = Down(p, held')
               /\ report' \cap PairKeys(p) = Selected(p, held', Index(p, k))
               /\ \A x : x \notin PairKeys(p) => (x \in report' <=> x \in report)
  BY <1>1, <1>2, <1>3, InTheseTerms DEF PairOK
<1>6. PairKeys(p) = {k, o} /\ Key(p, Index(p, k)) = k /\ (p.key0 = p.key1 => o = k)
      /\ (p.key0 # p.key1 => o # k /\ Index(p, o) # Index(p, k))
  BY <1>1, <1>2, PairFacts
<1>7. CASE o = k \/ o \notin held
  <2>1. PairKeys(p) \cap held = {} /\ PairKeys(p) \cap held' = {k}
    BY <1>2, <1>6, <1>7
  <2>2. state[i] = {} /\ report \cap PairKeys(p) = {}
    BY <1>2, <1>4, <2>1, NoneDown
  <2>3. TakesPress(k) = {}
    BY <1>1, <2>2 DEF TakesPress
  <2>4. state'[i] = {Index(p, k)} /\ report' = report \cup {k}
    BY <1>1, <2>2, <2>3 DEF Press, First, Before
  <2>5. Down(p, held') = {Index(p, k)} /\ Selected(p, held', Index(p, k)) = {k}
    <3>1. PICK h : h = held'
      OBVIOUS
    <3>2. PICK l : l = Index(p, k)
      OBVIOUS
    <3>3. /\ Down(p, h) = {Index(p, k)}
          /\ Selected(p, h, l) = IF p.type = "regular" THEN {k} \cap {Key(p, l)} ELSE {k}
      <4>1. k \in PairKeys(p)
        BY <1>1
      <4>2. PairKeys(p) \cap h = {k}
        BY <2>1, <3>1
      <4> QED BY <4>1, <4>2, OneDown
    <3> QED BY <1>6, <3>1, <3>2, <3>3
  <2> QED BY <1>1, <2>2, <2>4, <2>5
<1>8. CASE o # k /\ o \in held
  <2>1. /\ PairKeys(p) \cap held = {o} /\ o \in PairKeys(p)
        /\ PairKeys(p) \cap held = PairKeys(p) \ {k} /\ PairKeys(p) \subseteq held'
    BY <1>2, <1>6, <1>8
  <2>a. PICK q : q = o
    OBVIOUS
  <2>b. q \in PairKeys(p) /\ PairKeys(p) \cap held = {q}
    BY <2>1, <2>a
  <2>2. p.key0 # p.key1 /\ state[i] = {Index(p, o)}
    BY <1>2, <1>4, <1>6, <1>8, <2>a, <2>b, OneDown
  <2>3. TakesPress(k) = {i}
    BY <1>1, <1>6, <2>2 DEF TakesPress
  <2>4. state'[i] = {0, 1} /\ report' = BothPressed(p, k)
    BY <1>1, <2>3, SnapAssumption DEF Press, First, BothKeys, Pairs
  <2>5. Down(p, held') = {0, 1}
    BY <1>1, <1>2, <2>1, <2>2, TwoDown
  <2>6. report' \cap PairKeys(p) = Selected(p, held', Index(p, k))
    BY <1>1, <1>2, <1>4, <2>1, <2>2, <2>4, BothPressedRight
  <2>7. \A x : x \notin PairKeys(p) => (x \in report' <=> x \in report)
    BY <1>1, <1>2, <2>4, ReportOutside
  <2> QED BY <2>4, <2>5, <2>6, <2>7
<1> QED BY <1>7, <1>8

\* The pair a key belongs to is right after the release of the key.
LEMMA ReleasePair ==
    ASSUME Separate, PlainKeys, IInv, NEW k \in Codes, Release(k), NEW i \in Hit(k)
    PROVE  PairOK(i)' /\ \A x : x \notin PairKeys(pair[i]) => (x \in report' <=> x \in report)
<1>a. i \in Pairs /\ pair[i] \in PairConfig
  BY HitFacts DEF IInv, TypeOK
<1>b. PICK p \in PairConfig : p = pair[i]
  BY <1>a
<1> DEFINE o == Key(p, 1 - Index(p, k))
<1>1. p = pair[i] /\ i \in Pairs /\ Hit(k) = {i} /\ k \in PairKeys(p) /\ k \notin Modifiers
  BY <1>b, HitFacts
<1>2. p \in PairConfig /\ k \in held /\ held' = held \ {k} /\ pair' = pair
  BY <1>1 DEF IInv, TypeOK, Release
<1>3. latest'[i] = latest[i] /\ latest[i] \in {0, 1}
  BY <1>1 DEF Release, IInv, TypeOK
<1>4. state[i] = Down(p, held) /\ report \cap PairKeys(p) = Selected(p, held, latest[i])
  BY <1>1, InTheseTerms DEF IInv, PairOK
<1>5. SUFFICES /\ state'[i] = Down(p, held')
               /\ report' \cap PairKeys(p) = Selected(p, held', latest[i])
               /\ \A x : x \notin PairKeys(p) => (x \in report' <=> x \in report)
  BY <1>1, <1>2, <1>3, InTheseTerms DEF PairOK
<1>6. PairKeys(p) = {k, o} /\ (p.key0 = p.key1 => o = k)
      /\ (p.key0 # p.key1 => o # k /\ Index(p, o) = 1 - Index(p, k))
  BY <1>1, <1>2, PairFacts
<1>7. CASE o = k \/ o \notin held
  <2>1. PairKeys(p) \cap held = {k} /\ PairKeys(p) \cap held' = {}
    BY <1>2, <1>6, <1>7
  <2>2. state[i] = {Index(p, k)} /\ report \cap PairKeys(p) \subseteq {k}
    BY <1>1, <1>2, <1>4, <2>1, OneDown
  <2>3. state[i] # BothKeys
    BY <2>2 DEF BothKeys
  <2>4. TakesRelease(k) = {}
    BY <1>1, <2>3 DEF TakesRelease
  <2>5. state'[i] = {} /\ report' = report \ {k}
    BY <1>1, <2>3, <2>4 DEF Release, First, Before, ReleasedState
  <2>6. Down(p, held') = {} /\ Selected(p, held', latest[i]) = {}
    BY <1>2, <2>1, NoneDown
  <2> QED BY <1>1, <2>2, <2>5, <2>6
<1>8. CASE o # k /\ o \in held
  <2>1. /\ PairKeys(p) \subseteq held /\ p.key0 # p.key1 /\ o \in PairKeys(p)
        /\ PairKeys(p) \cap held' = {o}
    BY <1>2, <1>6, <1>8
  <2>2. state[i] = BothKeys
    BY <1>1, <1>2, <1>4, <2>1, TwoDown DEF BothKeys
  <2>3. TakesRelease(k) = {i}
    BY <1>1, <2>2 DEF TakesRelease
  <2>4. state'[i] = {Index(p, o)} /\ report' = OneReleased(p, k)
    BY <1>1, <1>6, <2>1, <2>2, <2>3, SnapAssumption DEF Release, First, ReleasedState, Pairs
  <2>5. Down(p, held') = {Index(p, o)}
    BY <1>2, <2>1, OneDown
  <2>6. report' \cap PairKeys(p) = Selected(p, held', latest[i])
    <3>1. PICK l \in {0, 1} : l = latest[i]
      BY <1>3
    <3>2. report \cap PairKeys(p) = Selected(p, held, l)
      BY <1>4, <3>1
    <3>3. OneReleased(p, k) \cap PairKeys(p) = Selected(p, held \ {k}, l)
      <4>1. k \in PairKeys(p) /\ k \notin Modifiers
        BY <1>1
      <4>2. p.key0 # p.key1 /\ PairKeys(p) \subseteq held
        BY <2>1
      <4> QED BY <3>2, <4>1, <4>2, OneReleasedRight
    <3> QED BY <1>2, <2>4, <3>1, <3>3
  <2>7. \A x : x \notin PairKeys(p) => (x \in report' <=> x \in report)
    BY <1>1, <1>2, <2>4, ReportOutside
  <2> QED BY <2>4, <2>5, <2>6, <2>7
<1> QED BY <1>7, <1>8

\* A press or a release of k keeps all pairs and the keys in no pair right: the
\* pair of k by the lemmas above, the others because they have no key in common.
LEMMA KeyStep ==
    ASSUME Separate, PlainKeys, IInv, NEW k \in Codes, Press(k) \/ Release(k)
    PROVE  (\A i \in Pairs : PairOK(i))' /\ FreeOK'
<1>1. pair' = pair /\ (\A x : x # k => (x \in held' <=> x \in held))
  BY DEF Press, Release
<1>2. ASSUME NEW j \in Pairs, j \notin Hit(k)
      PROVE  state'[j] = state[j] /\ latest'[j] = latest[j] /\ k \notin PairKeys(pair[j])
  BY <1>2 DEF Press, Release, Hit, TakesPress, TakesRelease, First, IInv, TypeOK
<1>3. CASE Hit(k) = {}
  <2>1. TakesPress(k) = {} /\ TakesRelease(k) = {}
    BY <1>3 DEF TakesPress, TakesRelease
  <2>2. /\ \A x : x # k => (x \in report' <=> x \in report)
        /\ k \in report' <=> k \in held'
    BY <2>1 DEF Press, Release
  <2>3. ASSUME NEW j \in Pairs PROVE PairOK(j)'
    BY <1>1, <1>2, <1>3, <2>2, OtherPair DEF IInv
  <2>4. FreeOK'
    BY <1>1, <2>2 DEF IInv, FreeOK, Hit
  <2> QED BY <2>3, <2>4
<1>4. ASSUME NEW i \in Hit(k) PROVE (\A j \in Pairs : PairOK(j))' /\ FreeOK'
  <2>1. i \in Pairs /\ Hit(k) = {i} /\ k \in PairKeys(pair[i]) /\ pair \in Configs \cup {NoPairs}
    BY HitFacts DEF IInv
  <2>2. PairOK(i)' /\ \A x : x \notin PairKeys(pair[i]) => (x \in report' <=> x \in report)
    BY PressPair, ReleasePair
  <2>3. ASSUME NEW j \in Pairs, j # i PROVE PairOK(j)'
    <3>1. pair \in Configs
      BY <2>1, NoPairsFacts
    <3>2. PairKeys(pair[i]) \cap PairKeys(pair[j]) = {}
      BY <2>1, <2>3, <3>1 DEF Separate
    <3>3. report' \cap PairKeys(pair[j]) = report \cap PairKeys(pair[j])
      BY <2>2, <3>2
    <3>4. PairKeys(pair[j]) \cap held' = PairKeys(pair[j]) \cap held
      BY <1>1, <2>1, <3>2
    <3> QED BY <1>1, <1>2, <2>1, <2>3, <3>3, <3>4, OtherPair DEF IInv
  <2>4. FreeOK'
    BY <1>1, <2>1, <2>2 DEF IInv, FreeOK, Hit
  <2> QED BY <2>2, <2>3, <2>4
<1> QED BY <1>3, <1>4

\* A new configuration keeps the invariant while no key of the old or the new
\* pairs is down: then none of these keys is in the report either.
LEMMA SetStep ==
    ASSUME IInv, NEW c \in [Pairs -> PairConfig], Idle(pair), Idle(c), pair' = c,
           UNCHANGED <<state, report, held, latest>>
    PROVE  (\A i \in Pairs : PairOK(i))' /\ FreeOK'
<1>1. pair \in [Pairs -> PairConfig] /\ \A i \in Pairs : pair[i] \in PairConfig /\ c[i] \in PairConfig
  BY DEF IInv, TypeOK
<1>2. ASSUME NEW i \in Pairs
      PROVE  state[i] = {} /\ report \cap PairKeys(pair[i]) = {}
  <2>1. Down(pair[i], held) = {} /\ Selected(pair[i], held, latest[i]) = {}
    BY <1>1, NoneDown DEF Idle
  <2> QED BY <2>1, InTheseTerms DEF IInv, PairOK
<1>3. ASSUME NEW i \in Pairs, NEW k \in PairKeys(c[i]) PROVE k \notin report
  <2>1. k \in Codes /\ k \notin held
    BY <1>1, <1>3, PairKeysType DEF Idle
  <2> QED BY <1>2, <2>1 DEF IInv, FreeOK, Hit
<1>4. ASSUME NEW i \in Pairs PROVE PairOK(i)'
  <2>1. Down(c[i], held) = {} /\ Selected(c[i], held, latest[i]) = {}
    BY <1>1, NoneDown DEF Idle
  <2>2. report \cap PairKeys(c[i]) = {}
    BY <1>3
  <2> QED BY <1>2, <2>1, <2>2, InTheseTerms DEF PairOK
<1>5. FreeOK'
  <2> SUFFICES ASSUME NEW k \in Codes PROVE k \in report <=> k \in held
    BY DEF FreeOK
  <2>1. CASE Hit(k) = {}
    BY <2>1 DEF IInv, FreeOK
  <2>2. ASSUME NEW i \in Hit(k) PROVE k \notin report /\ k \notin held
    BY <1>2 DEF Hit, Idle
  <2> QED BY <2>1, <2>2
<1> QED BY <1>4, <1>5

\* With all keys up and an empty report the invariant holds of the pairs.
LEMMA AllUp ==
    ASSUME pair \in [Pairs -> PairConfig], state = [i \in Pairs |-> {}], report = {}, held = {}
    PROVE  (\A i \in Pairs : PairOK(i)) /\ FreeOK
<1>1. ASSUME NEW i \in Pairs PROVE PairOK(i)
  <2>1. Down(pair[i], held) = {} /\ Selected(pair[i], held, latest[i]) = {}
    BY NoneDown
  <2> QED BY <2>1, InTheseTerms DEF PairOK
<1> QED BY <1>1 DEF FreeOK

\* Every step keeps the invariant: one step per action.
LEMMA Preserved ==
    ASSUME Separate, PlainKeys, SetWhileHeld = FALSE
    PROVE  IInv /\ [Next]_vars => IInv'
<1> SUFFICES ASSUME IInv, [Next]_vars PROVE IInv'
  OBVIOUS
<1>1. TypeOK'
  BY TypeStep DEF IInv
<1>2. ASSUME NEW k \in Codes, Press(k) \/ Release(k) PROVE IInv'
  <2>1. pair' = pair /\ stored' = stored
    BY <1>2 DEF Press, Release
  <2> QED BY <1>1, <1>2, <2>1, KeyStep DEF IInv
<1>3. ASSUME NEW c \in Configs, Set(c) PROVE IInv'
  <2>1. c \in [Pairs -> PairConfig] /\ Idle(pair) /\ Idle(c)
    BY <1>3, SnapAssumption DEF Set, MaySet
  <2>2. (\A i \in Pairs : PairOK(i))' /\ FreeOK'
    BY <1>3, <2>1, SetStep DEF Set
  <2> QED BY <1>1, <1>3, <2>2 DEF Set, IInv
<1>4. ASSUME Save PROVE IInv'
  <2>1. ASSUME NEW i \in Pairs PROVE PairOK(i)'
    BY <1>4, <2>1, OtherPair DEF Save, IInv
  <2> QED BY <1>1, <1>4, <2>1 DEF Save, IInv, FreeOK, Hit
<1>5. ASSUME ConfigReset PROVE IInv'
  <2>1. NoPairs \in [Pairs -> PairConfig] /\ Idle(pair) /\ Idle(NoPairs)
    BY <1>5, NoPairsFacts DEF ConfigReset, MaySet
  <2>2. (\A i \in Pairs : PairOK(i))' /\ FreeOK'
    BY <1>5, <2>1, SetStep DEF ConfigReset
  <2> QED BY <1>1, <1>5, <2>2 DEF ConfigReset, IInv
<1>6. ASSUME Restart PROVE IInv'
  <2>1. ASSUME NEW i \in Pairs PROVE PairOK(i)'
    <3>1. pair'[i] \in PairConfig /\ held' = {}
      BY <1>6 DEF Restart, IInv, TypeOK
    <3>2. Down(pair'[i], held') = {} /\ Selected(pair'[i], held', latest'[i]) = {}
      BY <3>1, NoneDown
    <3> QED BY <1>6, <3>2, InTheseTerms DEF Restart, PairOK
  <2> QED BY <1>1, <1>6, <2>1 DEF Restart, IInv, FreeOK
<1>7. ASSUME UNCHANGED vars PROVE IInv'
  <2>1. ASSUME NEW i \in Pairs PROVE PairOK(i)'
    BY <1>7, <2>1, OtherPair DEF vars, IInv
  <2> QED BY <1>1, <1>7, <2>1 DEF vars, IInv, FreeOK, Hit
<1> QED BY <1>2, <1>3, <1>4, <1>5, <1>6, <1>7 DEF Next

\* Whatever the number of pairs, their types and keys and the order of presses,
\* releases, restarts and configurations, the report is the one the types promise,
\* provided no two pairs share a key, no pair has a modifier (is_key_pressed does
\* not see modifiers) and the pairs are not changed while one of their keys is
\* down.  Without each of these hypotheses TLC finds a counterexample.
THEOREM ReportCorrect ==
    ASSUME Separate, PlainKeys, SetWhileHeld = FALSE
    PROVE  Spec => []ReportAsConfigured
<1>1. Init => IInv
  <2> SUFFICES ASSUME Init PROVE IInv
    OBVIOUS
  <2>1. TypeOK
    BY SnapAssumption, NoPairsFacts DEF Init, TypeOK
  <2>2. (\A i \in Pairs : PairOK(i)) /\ FreeOK
    BY <2>1, AllUp DEF Init, TypeOK
  <2> QED BY <2>1, <2>2 DEF Init, IInv
<1>2. IInv /\ [Next]_vars => IInv'
  BY Preserved
<1>3. IInv => ReportAsConfigured
  BY DEF IInv, PairOK, FreeOK, ReportAsConfigured
<1> QED BY <1>1, <1>2, <1>3, PTL DEF Spec
=============================================================================
