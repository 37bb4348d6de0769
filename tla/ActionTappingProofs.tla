------------------------- MODULE ActionTappingProofs ------------------------
(***************************************************************************)
(* The tap/hold theorems for every keymap, every buffer size and every     *)
(* term: the types, and that no key event, in any order and at any time,   *)
(* leaves a code, a modifier or a layer on.                                *)
(*                                                                         *)
(* The proof describes the waiting buffer by two sets of keys: those that  *)
(* the actions have seen go down (Down), because the oldest waiting event  *)
(* of the key is its release or because none waits and the key is held,    *)
(* and those whose oldest waiting event is marked as a tap (Marked).       *)
(* Everything that is on in the keyboard is then owned by a key in Down    *)
(* that is settled, and was put there by the same kind of action, tap or   *)
(* hold, that its release will undo.  The first part of the module is      *)
(* about the buffer, the second about the keyboard, the third about the    *)
(* branches of process_tapping.                                            *)
(***************************************************************************)
EXTENDS ActionTapping, SequenceTheorems, WellFoundedInduction, TLAPS

\* No record of key k waits in w; the oldest of its records is at i.
Absent(w, k)     == \A i \in DOMAIN w : w[i].key # k
FirstOf(w, k, i) == i \in DOMAIN w /\ w[i].key = k /\ \A j \in DOMAIN w : j < i => w[j].key # k
LastOf(w, k, i)  == i \in DOMAIN w /\ w[i].key = k /\ \A j \in DOMAIN w : i < j => w[j].key # k

\* Keys that are down as far as the actions have seen, and keys whose next
\* event is the release of a tap.
Down(w, h) == {k \in Keys : \/ \E i \in DOMAIN w : FirstOf(w, k, i) /\ ~w[i].pressed
                            \/ Absent(w, k) /\ k \in h}
Marked(w)  == {k \in Keys : \E i \in DOMAIN w : FirstOf(w, k, i) /\ w[i].count > 0}

\* Keys that are down, after an event.
After(D, r) == IF r.pressed THEN D \cup {r.key} ELSE D \ {r.key}

\* The order of the waiting buffer: the events of a key alternate, the youngest
\* is the state the key is in, only the oldest can be marked and only when it is
\* a release.
Alternating(w) == \A i, j \in DOMAIN w :
    i < j /\ w[i].key = w[j].key /\ (\A n \in DOMAIN w : i < n /\ n < j => w[n].key # w[i].key)
        => w[i].pressed # w[j].pressed
LastIsHeld(w, h) == \A k \in Keys, i \in DOMAIN w : LastOf(w, k, i) => (w[i].pressed <=> k \in h)
MarkedIsFirst(w) == \A i \in DOMAIN w : w[i].count > 0 => FirstOf(w, w[i].key, i) /\ ~w[i].pressed
Queued(w, h) == Alternating(w) /\ LastIsHeld(w, h) /\ MarkedIsFirst(w)
Sorted(w)    == \A i, j \in DOMAIN w : i < j => w[j].age <= w[i].age

\* The keys in Down that have acted, and those among them that are tapped.
Active(t, D) == {k \in D : ~(k = t.key /\ t.pressed /\ t.count = 0)}
Tapped(t, M) == {k \in Keys : k \in M \/ (k = t.key /\ t.pressed /\ t.count > 0)}

\* Everything that is on belongs to an active key, A, and is what the key does
\* when it is tapped, P, or held.
Owned(h, A, P, lost) ==
    /\ \A k \in Keys, l \in Layers : <<k, l>> \in h.codes =>
          /\ k \in A /\ l = h.cache[k]
          /\ \/ Keymap[k][l].kind = "code"
             \/ Keymap[k][l].kind \in {"mod_tap", "layer_tap"} /\ k \in P
    /\ \A m \in h.mods : \E k \in A :
          LET act == Keymap[k][h.cache[k]]
          IN  (act.kind = "mod" \/ (act.kind = "mod_tap" /\ k \notin P)) /\ act.arg = m
    /\ lost \/ \A m \in h.layers : \E k \in A :
          LET act == Keymap[k][h.cache[k]]
          IN  (act.kind = "momentary" \/ (act.kind = "layer_tap" /\ k \notin P)) /\ act.arg = m

\* The tapping key: down; its first tap has its release waiting; undecided it is
\* not marked.
KeyOK(t, D, M) ==
    t.key \in Keys /\ t.pressed => /\ t.key \in D
                                   /\ t.count = 1 => t.key \in M
                                   /\ t.count = 0 => t.key \notin M

TapInv(h, t, D, M, lost) ==
    /\ D \subseteq Keys /\ M \subseteq D
    /\ KeyOK(t, D, M)
    /\ Owned(h, Active(t, D), Tapped(t, M), lost)

IsMod(act) == act.kind \in {"mod", "mod_tap"}
Mods == {Keymap[p[1]][p[2]].arg : p \in {q \in Keys \X Layers : IsMod(Keymap[q[1]][q[2]])}}
Keyboard == [codes : SUBSET (Keys \X Layers), mods : SUBSET Mods, layers : SUBSET Layers,
             cache : [Keys -> Layers]]

TypeInv ==
    /\ TypeOK /\ kbd \in Keyboard
    /\ \A i \in DOMAIN waiting : waiting[i].key \in Keys
    /\ Sorted(waiting)

KeyInv ==
    /\ Queued(waiting, held)
    /\ TapInv(kbd, tapping_key, Down(waiting, held), Marked(waiting), overflowed)

Inv == TypeInv /\ (~overtaken => KeyInv)
-----------------------------------------------------------------------------
\* The waiting buffer.

\* A set of numbers that is not empty has a least one.
LEMMA LeastNumber ==
    ASSUME NEW T, T \subseteq Nat, T # {}
    PROVE  \E m \in T : \A k \in T : m <= k
<1> DEFINE R == {ss \in Nat \X Nat : ss[1] < ss[2]}
<1>1. IsWellFoundedOn(R, Nat)
  BY NatLessThanWellFounded, Zenon DEF OpToRel
<1>2. \A x, y \in Nat : x < y => <<x, y>> \in R
  OBVIOUS
<1> HIDE DEF R
<1>3. PICK x \in T : \A y \in T : ~ (<<y, x>> \in R)
  BY <1>1, WFMin
<1>4. \A y \in T : ~(y < x) /\ x \in Nat /\ y \in Nat
  BY <1>2, <1>3
<1> QED
  BY <1>4

\* A key that waits has an oldest record.
LEMMA FirstExists ==
    ASSUME NEW R, NEW w \in Seq(R), NEW k, ~Absent(w, k)
    PROVE  \E i \in DOMAIN w : FirstOf(w, k, i)
<1> DEFINE T == {i \in DOMAIN w : w[i].key = k}
<1>1. T # {} /\ T \subseteq Nat /\ DOMAIN w \subseteq Nat
  BY DEF Absent
<1>2. PICK m \in T : \A i \in T : m <= i
  BY <1>1, LeastNumber
<1>3. \A j \in DOMAIN w : j < m => j \notin T
  BY <1>1, <1>2
<1> QED
  BY <1>2, <1>3 DEF FirstOf

\* A key that waits has a youngest record.
LEMMA LastExists ==
    ASSUME NEW R, NEW w \in Seq(R), NEW k, ~Absent(w, k)
    PROVE  \E i \in DOMAIN w : LastOf(w, k, i)
<1> DEFINE T == {n \in 0..Len(w) : Len(w) - n \in DOMAIN w /\ w[Len(w) - n].key = k}
<1>0. DOMAIN w = 1..Len(w) /\ Len(w) \in Nat
  OBVIOUS
<1>1. T # {} /\ T \subseteq Nat
  <2>1. PICK i \in DOMAIN w : w[i].key = k
    BY DEF Absent
  <2>2. Len(w) - i \in 0..Len(w) /\ Len(w) - (Len(w) - i) = i
    BY <1>0, <2>1
  <2>3. Len(w) - i \in T
    BY <2>1, <2>2
  <2> QED
    BY <2>3
<1>2. PICK m \in T : \A i \in T : m <= i
  BY <1>1, LeastNumber
<1>3. ASSUME NEW j \in DOMAIN w, Len(w) - m < j PROVE w[j].key # k
  <2>1. Len(w) - j \in 0..Len(w) /\ Len(w) - (Len(w) - j) = j /\ Len(w) - j < m /\ m \in Nat
    BY <1>0, <1>1, <1>2, <1>3
  <2>2. Len(w) - j \notin T
    BY <1>2, <2>1
  <2> QED
    BY <2>1, <2>2
<1>4. Len(w) - m \in DOMAIN w /\ w[Len(w) - m].key = k
  BY <1>2
<1> QED
  BY <1>3, <1>4 DEF LastOf

\* There is one oldest record of a key.
LEMMA FirstUnique ==
    ASSUME NEW R, NEW w \in Seq(R), NEW k, NEW i, NEW j, FirstOf(w, k, i), FirstOf(w, k, j)
    PROVE  i = j
BY DEF FirstOf

\* Not waiting, a key is down when it is held and is not marked; waiting, its
\* oldest record decides.
LEMMA DownOf ==
    ASSUME NEW R, NEW w \in Seq(R), NEW h, NEW k \in Keys
    PROVE  /\ Absent(w, k) => (k \in Down(w, h) <=> k \in h) /\ k \notin Marked(w)
           /\ \A i \in DOMAIN w : FirstOf(w, k, i) => /\ k \in Down(w, h) <=> ~w[i].pressed
                                                      /\ k \in Marked(w) <=> w[i].count > 0
                                                      /\ ~Absent(w, k)
<1>1. ASSUME Absent(w, k) PROVE (k \in Down(w, h) <=> k \in h) /\ k \notin Marked(w)
  BY <1>1 DEF Absent, Down, Marked, FirstOf
<1>2. ASSUME NEW i \in DOMAIN w, FirstOf(w, k, i)
      PROVE  (k \in Down(w, h) <=> ~w[i].pressed) /\ (k \in Marked(w) <=> w[i].count > 0)
             /\ ~Absent(w, k)
  <2>1. \A j : FirstOf(w, k, j) => j = i
    BY <1>2, FirstUnique
  <2>2. ~Absent(w, k)
    BY <1>2 DEF Absent, FirstOf
  <2> QED
    BY <1>2, <2>1, <2>2 DEF Down, Marked
<1> QED
  BY <1>1, <1>2

\* Marked keys are down; both are keys.
LEMMA MarkedDown ==
    ASSUME NEW R, NEW w \in Seq(R), NEW h, MarkedIsFirst(w)
    PROVE  Down(w, h) \subseteq Keys /\ Marked(w) \subseteq Down(w, h)
BY DEF Down, Marked, MarkedIsFirst, FirstOf

\* A buffer whose records have the same keys, directions and marks (their ages
\* may differ) says the same of every key.
LEMMA SameQueue ==
    ASSUME NEW R, NEW w \in Seq(R), NEW v \in Seq(R), NEW h, DOMAIN v = DOMAIN w,
           \A i \in DOMAIN w : /\ v[i].key = w[i].key /\ v[i].pressed = w[i].pressed
                               /\ v[i].count = w[i].count
    PROVE  /\ Queued(w, h) => Queued(v, h)
           /\ Down(v, h) = Down(w, h) /\ Marked(v) = Marked(w)
<1>1. \A k, i : FirstOf(v, k, i) <=> FirstOf(w, k, i)
  BY DEF FirstOf
<1>2. \A k, i : LastOf(v, k, i) <=> LastOf(w, k, i)
  BY DEF LastOf
<1>3. \A k : Absent(v, k) <=> Absent(w, k)
  BY DEF Absent
<1>4. \A k, i : FirstOf(v, k, i) => i \in DOMAIN w
  BY DEF FirstOf
<1>5. Down(v, h) = Down(w, h) /\ Marked(v) = Marked(w)
  BY <1>1, <1>3, <1>4 DEF Down, Marked
<1>6. Alternating(w) => Alternating(v)
  BY DEF Alternating
<1>7. LastIsHeld(w, h) => LastIsHeld(v, h)
  BY <1>2 DEF LastIsHeld
<1>8. MarkedIsFirst(w) => MarkedIsFirst(v)
  BY <1>1 DEF MarkedIsFirst
<1> QED
  BY <1>5, <1>6, <1>7, <1>8 DEF Queued

\* Marking the oldest record of a key, a release, as a tap.
LEMMA MarkQueue ==
    ASSUME NEW R, NEW w \in Seq(R), NEW v \in Seq(R), NEW h, DOMAIN v = DOMAIN w, Queued(w, h),
           NEW i \in DOMAIN w, w[i].key \in Keys, FirstOf(w, w[i].key, i), ~w[i].pressed,
           \A j \in DOMAIN w : /\ v[j].key = w[j].key /\ v[j].pressed = w[j].pressed
                               /\ j # i => v[j].count = w[j].count,
           v[i].count > 0
    PROVE  /\ Queued(v, h)
           /\ Down(v, h) = Down(w, h) /\ Marked(v) = Marked(w) \cup {w[i].key}
<1>1. \A k, j : FirstOf(v, k, j) <=> FirstOf(w, k, j)
  BY DEF FirstOf
<1>2. \A k, j : LastOf(v, k, j) <=> LastOf(w, k, j)
  BY DEF LastOf
<1>3. \A k : Absent(v, k) <=> Absent(w, k)
  BY DEF Absent
<1>4. \A k, j : FirstOf(w, k, j) => j \in DOMAIN w
  BY DEF FirstOf
<1>5. Down(v, h) = Down(w, h)
  BY <1>1, <1>3, <1>4 DEF Down
<1>6. Marked(v) = Marked(w) \cup {w[i].key}
  <2>1. ASSUME NEW k \in Keys, k # w[i].key PROVE k \in Marked(v) <=> k \in Marked(w)
    <3>1. \A j : FirstOf(w, k, j) => j # i
      BY <2>1 DEF FirstOf
    <3> QED
      BY <1>1, <1>4, <3>1 DEF Marked
  <2>2. w[i].key \in Marked(v)
    BY <1>1 DEF Marked
  <2>3. Marked(v) \subseteq Keys /\ Marked(w) \subseteq Keys
    BY DEF Marked
  <2> QED
    BY <2>1, <2>2, <2>3
<1>7. Alternating(v)
  BY DEF Alternating, Queued
<1>8. LastIsHeld(v, h)
  BY <1>2 DEF LastIsHeld, Queued, LastOf
<1>9. MarkedIsFirst(v)
  BY <1>1 DEF MarkedIsFirst, Queued
<1> QED
  BY <1>5, <1>6, <1>7, <1>8, <1>9 DEF Queued

\* Two sets of keys that agree on one key and on the others are the same.
LEMMA SameMembers ==
    ASSUME NEW A, NEW B, NEW k, A \subseteq Keys, B \subseteq Keys,
           \A m \in Keys : m # k => (m \in A <=> m \in B), k \in A <=> k \in B
    PROVE  A = B
OBVIOUS

\* An event of a key that does not wait is handled: the key changes.
LEMMA DirectQueue ==
    ASSUME NEW R, NEW w \in Seq(R), NEW h, h \subseteq Keys, NEW r, r.key \in Keys,
           Queued(w, h), Absent(w, r.key), r.pressed <=> r.key \notin h
    PROVE  /\ Queued(w, After(h, r)) /\ Down(w, After(h, r)) = After(Down(w, h), r)
           /\ r.key \notin Marked(w) /\ (r.key \in Down(w, h) <=> ~r.pressed)
<1> DEFINE k == r.key
           g == After(h, r)
<1>1. \A m \in Keys : m # k => (m \in g <=> m \in h)
  BY DEF After
<1>2. k \in g <=> r.pressed
  BY DEF After
<1> HIDE DEF g
<1>3. Down(w, g) \subseteq Keys /\ Down(w, h) \subseteq Keys
  BY DEF Down
<1>4. \A m \in Keys : m # k => (m \in Down(w, g) <=> m \in Down(w, h))
  BY <1>1 DEF Down
<1>5. (k \in Down(w, g) <=> r.pressed) /\ (k \in Down(w, h) <=> ~r.pressed) /\ k \notin Marked(w)
  BY <1>2, DownOf
<1>6. Down(w, g) = After(Down(w, h), r)
  <2> DEFINE E == After(Down(w, h), r)
  <2>1. /\ E \subseteq Keys /\ (k \in E <=> r.pressed)
        /\ \A m \in Keys : m # k => (m \in E <=> m \in Down(w, h))
    BY <1>3 DEF After
  <2> HIDE DEF E
  <2>2. /\ k \in Down(w, g) <=> k \in E
        /\ \A m \in Keys : m # k => (m \in Down(w, g) <=> m \in E)
    BY <1>4, <1>5, <2>1
  <2>3. Down(w, g) = E
    BY <1>3, <2>1, <2>2, SameMembers
  <2> QED
    BY <2>3 DEF E
<1>7. \A i : ~LastOf(w, k, i)
  BY DEF LastOf, Absent
<1>8. LastIsHeld(w, g)
  BY <1>1, <1>7 DEF LastIsHeld, Queued
<1> QED
  BY <1>5, <1>6, <1>8 DEF Queued, g

\* An event that is handled when no opposite event of its key waits: no event of
\* its key waits at all.
LEMMA NotTypedAbsent ==
    ASSUME NEW R, NEW w \in Seq(R), NEW h, NEW r, r.key \in Keys, LastIsHeld(w, h),
           r.pressed <=> r.key \notin h,
           \A i \in DOMAIN w : w[i].key = r.key => w[i].pressed = r.pressed
    PROVE  Absent(w, r.key)
<1> SUFFICES ASSUME ~Absent(w, r.key) PROVE FALSE
  OBVIOUS
<1>1. PICK i \in DOMAIN w : LastOf(w, r.key, i)
  BY LastExists
<1>2. w[i].pressed <=> r.key \in h
  BY <1>1 DEF LastIsHeld
<1>3. w[i].pressed = r.pressed
  BY <1>1 DEF LastOf
<1> QED
  BY <1>2, <1>3

\* A new event is kept back behind those that wait; it is marked as a tap only
\* when no other event of its key waits.
LEMMA KeepQueue ==
    ASSUME NEW R, NEW w \in Seq(R), NEW h, h \subseteq Keys, NEW r \in R, r.key \in Keys,
           r.pressed \in BOOLEAN, r.count \in Nat, r.pressed <=> r.key \notin h,
           Queued(w, h), r.count > 0 => Absent(w, r.key) /\ ~r.pressed
    PROVE  LET v == Append(w, r)
               g == After(h, r)
           IN  /\ Queued(v, g) /\ Down(v, g) = Down(w, h)
               /\ Marked(v) = IF r.count > 0 THEN Marked(w) \cup {r.key} ELSE Marked(w)
<1> DEFINE v == Append(w, r)
           g == After(h, r)
           n == Len(w)
<1>1. /\ n \in Nat /\ DOMAIN w = 1..n /\ DOMAIN v = 1..(n + 1) /\ v \in Seq(R)
      /\ v[n + 1] = r /\ \A i \in 1..n : v[i] = w[i]
  OBVIOUS
<1>2. \A k \in Keys : k # r.key => (k \in g <=> k \in h)
  BY DEF After
<1>3. r.key \in g <=> r.pressed
  BY DEF After
<1> HIDE DEF v, g, n
<1>4. \A i \in DOMAIN v : i \in DOMAIN w \/ i = n + 1
  BY <1>1
<1>5. \A i \in DOMAIN w : i \in DOMAIN v /\ v[i] = w[i] /\ i < n + 1 /\ ~(n + 1 < i)
  BY <1>1
<1>6. n + 1 \in DOMAIN v
  BY <1>1
<1>7. ASSUME NEW k, k # r.key
      PROVE  /\ \A i : FirstOf(v, k, i) <=> FirstOf(w, k, i)
             /\ \A i : LastOf(v, k, i) <=> LastOf(w, k, i)
             /\ Absent(v, k) <=> Absent(w, k)
  <2>1. \A i : FirstOf(v, k, i) => FirstOf(w, k, i)
    BY <1>1, <1>4, <1>5, <1>7 DEF FirstOf
  <2>2. \A i : FirstOf(w, k, i) => FirstOf(v, k, i)
    BY <1>1, <1>4, <1>5, <1>7 DEF FirstOf
  <2>3. \A i : LastOf(v, k, i) => LastOf(w, k, i)
    BY <1>1, <1>4, <1>5, <1>7 DEF LastOf
  <2>4. \A i : LastOf(w, k, i) => LastOf(v, k, i)
    BY <1>1, <1>4, <1>5, <1>7 DEF LastOf
  <2>5. Absent(v, k) <=> Absent(w, k)
    BY <1>1, <1>4, <1>5, <1>7 DEF Absent
  <2> QED
    BY <2>1, <2>2, <2>3, <2>4, <2>5
<1>8. \A i \in DOMAIN w : \A k : FirstOf(w, k, i) => FirstOf(v, k, i)
  BY <1>1, <1>4, <1>5 DEF FirstOf
<1>9. Absent(w, r.key) => FirstOf(v, r.key, n + 1)
  BY <1>1, <1>4, <1>5 DEF FirstOf, Absent
<1>10. \A i : LastOf(v, r.key, i) => i = n + 1
  BY <1>1, <1>4, <1>5 DEF LastOf
<1>11. Down(v, g) = Down(w, h)
  <2>1. Down(v, g) \subseteq Keys /\ Down(w, h) \subseteq Keys
    BY DEF Down
  <2>2. \A k \in Keys : k # r.key => (k \in Down(v, g) <=> k \in Down(w, h))
    <3> SUFFICES ASSUME NEW k \in Keys, k # r.key PROVE k \in Down(v, g) <=> k \in Down(w, h)
      OBVIOUS
    <3>1. \A i : FirstOf(w, k, i) => i \in DOMAIN w
      BY DEF FirstOf
    <3> QED
      BY <1>2, <1>5, <1>7, <3>1 DEF Down
  <2>3. CASE Absent(w, r.key)
    <3>1. r.key \in Down(v, g) <=> ~r.pressed
      BY <1>1, <1>6, <1>9, <2>3, DownOf
    <3>2. r.key \in Down(w, h) <=> r.key \in h
      BY <2>3, DownOf
    <3>3. r.key \in Down(v, g) <=> r.key \in Down(w, h)
      BY <3>1, <3>2
    <3> QED
      BY <2>1, <2>2, <3>3, SameMembers
  <2>4. CASE ~Absent(w, r.key)
    <3>1. PICK i \in DOMAIN w : FirstOf(w, r.key, i)
      BY <2>4, FirstExists
    <3>2. r.key \in Down(w, h) <=> ~w[i].pressed
      BY <3>1, DownOf
    <3>3. r.key \in Down(v, g) <=> ~v[i].pressed
      BY <1>1, <1>5, <1>8, <3>1, DownOf
    <3>4. r.key \in Down(v, g) <=> r.key \in Down(w, h)
      BY <1>5, <3>2, <3>3
    <3> QED
      BY <2>1, <2>2, <3>4, SameMembers
  <2> QED
    BY <2>3, <2>4
<1>12. Marked(v) = IF r.count > 0 THEN Marked(w) \cup {r.key} ELSE Marked(w)
  <2> DEFINE T == IF r.count > 0 THEN Marked(w) \cup {r.key} ELSE Marked(w)
  <2>0. /\ \A k \in Keys : k # r.key => (k \in T <=> k \in Marked(w))
        /\ r.key \in T <=> (r.count > 0 \/ r.key \in Marked(w))
    OBVIOUS
  <2>1. Marked(v) \subseteq Keys /\ Marked(w) \subseteq Keys /\ T \subseteq Keys
    BY DEF Marked
  <2> HIDE DEF T
  <2>2. \A k \in Keys : k # r.key => (k \in Marked(v) <=> k \in Marked(w))
    <3> SUFFICES ASSUME NEW k \in Keys, k # r.key PROVE k \in Marked(v) <=> k \in Marked(w)
      OBVIOUS
    <3>1. \A i : FirstOf(w, k, i) => i \in DOMAIN w
      BY DEF FirstOf
    <3> QED
      BY <1>5, <1>7, <3>1 DEF Marked
  <2>3. CASE Absent(w, r.key)
    <3>1. r.key \in Marked(v) <=> r.count > 0
      BY <1>1, <1>6, <1>9, <2>3, DownOf
    <3>2. r.key \notin Marked(w)
      BY <2>3, DownOf
    <3>3. r.key \in Marked(v) <=> r.key \in T
      BY <2>0, <3>1, <3>2
    <3>4. Marked(v) = T
      BY <2>0, <2>1, <2>2, <3>3, SameMembers
    <3> QED
      BY <3>4 DEF T
  <2>4. CASE ~Absent(w, r.key)
    <3>1. PICK i \in DOMAIN w : FirstOf(w, r.key, i)
      BY <2>4, FirstExists
    <3>2. r.key \in Marked(w) <=> w[i].count > 0
      BY <3>1, DownOf
    <3>3. r.key \in Marked(v) <=> v[i].count > 0
      BY <1>1, <1>5, <1>8, <3>1, DownOf
    <3>4. ~(r.count > 0)
      BY <2>4
    <3>5. r.key \in Marked(v) <=> r.key \in T
      BY <1>5, <2>0, <3>2, <3>3, <3>4
    <3>6. Marked(v) = T
      BY <2>0, <2>1, <2>2, <3>5, SameMembers
    <3> QED
      BY <3>6 DEF T
  <2> QED
    BY <2>3, <2>4
<1>13. Alternating(v)
  <2> SUFFICES ASSUME NEW i \in DOMAIN v, NEW j \in DOMAIN v, i < j, v[i].key = v[j].key,
                      \A m \in DOMAIN v : i < m /\ m < j => v[m].key # v[i].key
               PROVE  v[i].pressed # v[j].pressed
    BY DEF Alternating
  <2>1. CASE j \in DOMAIN w
    <3>1. i \in DOMAIN w
      BY <1>1, <2>1
    <3> QED
      BY <1>5, <2>1, <3>1 DEF Alternating, Queued
  <2>2. CASE j = n + 1
    <3>1. i \in DOMAIN w /\ w[i].key = r.key /\ v[i] = w[i] /\ v[j] = r
      BY <1>1, <2>2
    <3>2. LastOf(w, r.key, i)
      BY <1>5, <2>2, <3>1 DEF LastOf
    <3>3. w[i].pressed <=> r.key \in h
      BY <3>1, <3>2 DEF Queued, LastIsHeld
    <3> QED
      BY <3>1, <3>3
  <2> QED
    BY <1>4, <2>1, <2>2
<1>14. LastIsHeld(v, g)
  <2> SUFFICES ASSUME NEW k \in Keys, NEW i \in DOMAIN v, LastOf(v, k, i)
               PROVE  v[i].pressed <=> k \in g
    BY DEF LastIsHeld
  <2>1. CASE k = r.key
    BY <1>1, <1>3, <1>10, <2>1
  <2>2. CASE k # r.key
    <3>1. LastOf(w, k, i) /\ i \in DOMAIN w
      BY <1>7, <2>2 DEF LastOf
    <3> QED
      BY <1>2, <1>5, <2>2, <3>1 DEF Queued, LastIsHeld
  <2> QED
    BY <2>1, <2>2
<1>15. MarkedIsFirst(v)
  <2> SUFFICES ASSUME NEW i \in DOMAIN v, v[i].count > 0
               PROVE  FirstOf(v, v[i].key, i) /\ ~v[i].pressed
    BY DEF MarkedIsFirst
  <2>1. CASE i \in DOMAIN w
    BY <1>5, <1>8, <2>1 DEF MarkedIsFirst, Queued
  <2>2. CASE i = n + 1
    BY <1>1, <1>9, <2>2
  <2> QED
    BY <1>4, <2>1, <2>2
<1> QED
  BY <1>11, <1>12, <1>13, <1>14, <1>15 DEF Queued, v, g

\* The oldest record is handled and leaves the buffer: its key changes, and is
\* not marked any more.
LEMMA TakeQueue ==
    ASSUME NEW R, NEW w \in Seq(R), NEW h, w # <<>>, Queued(w, h), w[1].key \in Keys,
           w[1].count \in Nat, \A i \in DOMAIN w : w[i].pressed \in BOOLEAN
    PROVE  LET r == w[1]
           IN  /\ Queued(Tail(w), h)
               /\ Down(Tail(w), h) = After(Down(w, h), r)
               /\ Marked(Tail(w)) = Marked(w) \ {r.key}
               /\ r.key \in Down(w, h) <=> ~r.pressed
               /\ r.key \in Marked(w) <=> r.count > 0
               /\ FirstOf(w, r.key, 1)
<1> DEFINE v == Tail(w)
           r == w[1]
           n == Len(w)
<1>1. /\ n \in Nat \ {0} /\ DOMAIN w = 1..n /\ DOMAIN v = 1..(n - 1) /\ v \in Seq(R)
      /\ \A i \in 1..(n - 1) : v[i] = w[i + 1]
  OBVIOUS
<1> HIDE DEF v, n
<1>2. \A i \in DOMAIN v : i + 1 \in DOMAIN w /\ v[i] = w[i + 1] /\ 1 < i + 1
  BY <1>1
<1>3. \A i \in DOMAIN w : i = 1 \/ (i - 1 \in DOMAIN v /\ w[i] = v[i - 1] /\ (i - 1) + 1 = i)
  BY <1>1
<1>4. 1 \in DOMAIN w /\ \A i \in DOMAIN w : ~(i < 1)
  BY <1>1
<1>5. \A i \in DOMAIN v, j \in DOMAIN v : (i < j <=> i + 1 < j + 1)
  BY <1>1
<1>6. DOMAIN w \subseteq Nat /\ DOMAIN v \subseteq Nat
  BY <1>1
<1>7. FirstOf(w, r.key, 1)
  BY <1>4 DEF FirstOf
<1>8. (r.key \in Down(w, h) <=> ~r.pressed) /\ (r.key \in Marked(w) <=> r.count > 0)
  BY <1>4, <1>7, DownOf
<1>9. ASSUME NEW k, k # r.key
      PROVE  /\ \A i \in DOMAIN v : FirstOf(v, k, i) <=> FirstOf(w, k, i + 1)
             /\ Absent(v, k) <=> Absent(w, k)
  <2>1. ASSUME NEW i \in DOMAIN v, FirstOf(v, k, i) PROVE FirstOf(w, k, i + 1)
    <3> SUFFICES ASSUME NEW j \in DOMAIN w, j < i + 1 PROVE w[j].key # k
      BY <1>2, <2>1 DEF FirstOf
    <3>1. CASE j = 1
      BY <1>9, <3>1
    <3>2. CASE j # 1
      <4>1. j - 1 \in DOMAIN v /\ w[j] = v[j - 1] /\ j - 1 < i
        BY <1>3, <1>6, <3>2
      <4> QED
        BY <2>1, <4>1 DEF FirstOf
    <3> QED
      BY <3>1, <3>2
  <2>2. ASSUME NEW i \in DOMAIN v, FirstOf(w, k, i + 1) PROVE FirstOf(v, k, i)
    <3>1. ASSUME NEW j \in DOMAIN v, j < i PROVE v[j].key # k
      <4>1. j + 1 \in DOMAIN w /\ v[j] = w[j + 1] /\ j + 1 < i + 1
        BY <1>2, <1>6, <3>1
      <4> QED
        BY <2>2, <4>1 DEF FirstOf
    <3> QED
      BY <1>2, <2>2, <3>1 DEF FirstOf
  <2>3. Absent(v, k) <=> Absent(w, k)
    BY <1>2, <1>3, <1>9 DEF Absent
  <2> QED
    BY <2>1, <2>2, <2>3
<1>10. \A i \in DOMAIN v : \A k : LastOf(v, k, i) => LastOf(w, k, i + 1)
  <2> SUFFICES ASSUME NEW i \in DOMAIN v, NEW k, LastOf(v, k, i),
                      NEW j \in DOMAIN w, i + 1 < j
               PROVE  w[j].key # k
    BY <1>2 DEF LastOf
  <2>1. j - 1 \in DOMAIN v /\ w[j] = v[j - 1] /\ i < j - 1
    BY <1>3, <1>6
  <2> QED
    BY <2>1 DEF LastOf
\* What follows the oldest record of its key is the opposite event.
<1>11. ASSUME NEW i \in DOMAIN v, FirstOf(v, r.key, i) PROVE v[i].pressed # r.pressed
  <2>1. /\ i + 1 \in DOMAIN w /\ 1 < i + 1 /\ w[1].key = w[i + 1].key /\ v[i] = w[i + 1]
    BY <1>2, <1>11 DEF FirstOf
  <2>2. ASSUME NEW j \in DOMAIN w, 1 < j, j < i + 1 PROVE w[j].key # r.key
    <3>1. j - 1 \in DOMAIN v /\ w[j] = v[j - 1] /\ j - 1 < i
      BY <1>3, <1>6, <2>2
    <3> QED
      BY <1>11, <3>1 DEF FirstOf
  <2> QED
    BY <1>4, <2>1, <2>2 DEF Queued, Alternating
<1>12. Absent(v, r.key) => (r.pressed <=> r.key \in h)
  <2> SUFFICES ASSUME Absent(v, r.key) PROVE r.pressed <=> r.key \in h
    OBVIOUS
  <2>1. ASSUME NEW j \in DOMAIN w, 1 < j PROVE w[j].key # r.key
    BY <1>3, <1>6, <2>1 DEF Absent
  <2>2. LastOf(w, r.key, 1)
    BY <1>4, <2>1 DEF LastOf
  <2> QED
    BY <1>4, <2>2 DEF Queued, LastIsHeld
<1>13. r.key \in Down(v, h) <=> r.pressed
  <2>1. CASE Absent(v, r.key)
    BY <1>1, <1>12, <2>1, DownOf
  <2>2. CASE ~Absent(v, r.key)
    <3>1. PICK i \in DOMAIN v : FirstOf(v, r.key, i)
      BY <1>1, <2>2, FirstExists
    <3>2. r.key \in Down(v, h) <=> ~v[i].pressed
      BY <1>1, <3>1, DownOf
    <3>3. v[i].pressed \in BOOLEAN /\ r.pressed \in BOOLEAN
      BY <1>2, <1>4
    <3> QED
      BY <1>11, <3>1, <3>2, <3>3
  <2> QED
    BY <2>1, <2>2
<1>14. Down(v, h) = After(Down(w, h), r)
  <2>1. Down(v, h) \subseteq Keys /\ Down(w, h) \subseteq Keys
    BY DEF Down
  <2>2. \A k \in Keys : k # r.key => (k \in Down(v, h) <=> k \in Down(w, h))
    <3> SUFFICES ASSUME NEW k \in Keys, k # r.key PROVE k \in Down(v, h) <=> k \in Down(w, h)
      OBVIOUS
    <3>1. CASE Absent(w, k)
      BY <1>1, <1>9, <3>1, DownOf
    <3>2. CASE ~Absent(w, k)
      <4>1. PICK i \in DOMAIN v : FirstOf(v, k, i)
        BY <1>1, <1>9, <3>2, FirstExists
      <4>2. k \in Down(v, h) <=> ~v[i].pressed
        BY <1>1, <4>1, DownOf
      <4>3. k \in Down(w, h) <=> ~w[i + 1].pressed
        BY <1>2, <1>9, <4>1, DownOf
      <4> QED
        BY <1>2, <4>2, <4>3
    <3> QED
      BY <3>1, <3>2
  <2> DEFINE E == After(Down(w, h), r)
  <2>3. /\ E \subseteq Keys /\ (r.key \in E <=> r.pressed)
        /\ \A k \in Keys : k # r.key => (k \in E <=> k \in Down(w, h))
    BY <1>4, <2>1 DEF After
  <2> HIDE DEF E
  <2>4. /\ r.key \in Down(v, h) <=> r.key \in E
        /\ \A k \in Keys : k # r.key => (k \in Down(v, h) <=> k \in E)
    BY <1>13, <2>2, <2>3
  <2>5. Down(v, h) = E
    BY <2>1, <2>3, <2>4, SameMembers
  <2> QED
    BY <2>5 DEF E
<1>15. Marked(v) = Marked(w) \ {r.key}
  <2>1. Marked(v) \subseteq Keys /\ Marked(w) \subseteq Keys
    BY DEF Marked
  <2>2. \A k \in Keys : k # r.key => (k \in Marked(v) <=> k \in Marked(w))
    <3> SUFFICES ASSUME NEW k \in Keys, k # r.key PROVE k \in Marked(v) <=> k \in Marked(w)
      OBVIOUS
    <3>1. CASE Absent(w, k)
      BY <1>1, <1>9, <3>1, DownOf
    <3>2. CASE ~Absent(w, k)
      <4>1. PICK i \in DOMAIN v : FirstOf(v, k, i)
        BY <1>1, <1>9, <3>2, FirstExists
      <4>2. k \in Marked(v) <=> v[i].count > 0
        BY <1>1, <4>1, DownOf
      <4>3. k \in Marked(w) <=> w[i + 1].count > 0
        BY <1>2, <1>9, <4>1, DownOf
      <4> QED
        BY <1>2, <4>2, <4>3
    <3> QED
      BY <3>1, <3>2
  <2>3. r.key \notin Marked(v)
    <3> SUFFICES ASSUME NEW i \in DOMAIN v, FirstOf(v, r.key, i), v[i].count > 0 PROVE FALSE
      BY DEF Marked
    <3>1. FirstOf(w, w[i + 1].key, i + 1) /\ w[i + 1].key = r.key /\ 1 < i + 1
      BY <1>2 DEF Queued, MarkedIsFirst, FirstOf
    <3> QED
      BY <1>4, <3>1 DEF FirstOf
  <2> QED
    BY <2>1, <2>2, <2>3
<1>16. Alternating(v)
  <2> SUFFICES ASSUME NEW i \in DOMAIN v, NEW j \in DOMAIN v, i < j, v[i].key = v[j].key,
                      \A m \in DOMAIN v : i < m /\ m < j => v[m].key # v[i].key
               PROVE  v[i].pressed # v[j].pressed
    BY DEF Alternating
  <2>1. i + 1 \in DOMAIN w /\ j + 1 \in DOMAIN w /\ i + 1 < j + 1 /\ v[i] = w[i + 1]
        /\ v[j] = w[j + 1]
    BY <1>2, <1>5
  <2>2. ASSUME NEW m \in DOMAIN w, i + 1 < m, m < j + 1 PROVE w[m].key # w[i + 1].key
    <3>1. m - 1 \in DOMAIN v /\ w[m] = v[m - 1] /\ i < m - 1 /\ m - 1 < j
      BY <1>3, <1>6, <2>2
    <3> QED
      BY <2>1, <3>1
  <2> QED
    BY <2>1, <2>2 DEF Queued, Alternating
<1>17. LastIsHeld(v, h)
  BY <1>2, <1>10 DEF LastIsHeld, Queued
<1>18. MarkedIsFirst(v)
  <2> SUFFICES ASSUME NEW i \in DOMAIN v, v[i].count > 0
               PROVE  FirstOf(v, v[i].key, i) /\ ~v[i].pressed
    BY DEF MarkedIsFirst
  <2>1. FirstOf(w, w[i + 1].key, i + 1) /\ ~w[i + 1].pressed /\ v[i] = w[i + 1] /\ 1 < i + 1
    BY <1>2 DEF Queued, MarkedIsFirst
  <2>2. w[i + 1].key # r.key
    BY <1>4, <2>1 DEF FirstOf
  <2> QED
    BY <1>9, <2>1, <2>2
<1> QED
  BY <1>7, <1>8, <1>14, <1>15, <1>16, <1>17, <1>18 DEF Queued, v
-----------------------------------------------------------------------------
\* The keyboard.

\* layer_switch_get_layer finds a layer.
LEMMA LayerForType ==
    ASSUME NEW on, on \subseteq Layers, NEW k
    PROVE  LayerFor(k, on) \in Layers
<1> DEFINE solid == {l \in on \cup {0} : Keymap[k][l].kind # "transparent"}
           T == {n \in 0..31 : 31 - n \in solid}
<1>1. solid \subseteq 0..31 /\ solid \subseteq Layers /\ 0 \in Layers
  BY KeymapAssumption
<1>2. CASE solid = {}
  BY <1>1, <1>2 DEF LayerFor
<1>3. CASE solid # {}
  <2>1. \A l \in solid : 31 - l \in T /\ 31 - (31 - l) = l
    BY <1>1
  <2>2. T # {} /\ T \subseteq Nat
    BY <1>3, <2>1
  <2>3. PICK m \in T : \A n \in T : m <= n
    BY <2>2, LeastNumber
  <2>4. 31 - m \in solid
    BY <2>3
  <2> HIDE DEF T
  <2>5. \A l \in solid : l <= 31 - m
    <3> SUFFICES ASSUME NEW l \in solid PROVE l <= 31 - m
      OBVIOUS
    <3> HIDE DEF solid
    <3>1. m <= 31 - l /\ l \in 0..31 /\ m \in Nat
      BY <1>1, <2>1, <2>2, <2>3
    <3> QED
      BY <3>1
  <2>6. \E l \in solid : \A n \in solid : n <= l
    BY <2>4, <2>5
  <2>7. LayerFor(k, on) = CHOOSE l \in solid : \A n \in solid : n <= l
    BY <1>3 DEF LayerFor
  <2> HIDE DEF solid
  <2> QED
    BY <1>1, <2>6, <2>7
<1> QED
  BY <1>2, <1>3

\* What an action adds on a press and removes on a release, of the key codes, of
\* the modifiers and of the layers.
TypesCode(act, n)  == act.kind = "code" \/ (act.kind \in {"mod_tap", "layer_tap"} /\ n > 0)
HoldsMod(act, n)   == act.kind = "mod" \/ (act.kind = "mod_tap" /\ ~(n > 0))
HoldsLayer(act, n) == act.kind = "momentary" \/ (act.kind = "layer_tap" /\ ~(n > 0))

\* process_record, field by field.
LEMMA Effect ==
    ASSUME NEW h \in Keyboard, NEW r, r.key \in Keys, r.pressed \in BOOLEAN
    PROVE  LET k   == r.key
               l   == SourceLayer(h, r)
               act == Keymap[k][l]
               o   == ProcessRecord(h, r)
           IN  /\ l \in Layers /\ (~r.pressed => l = h.cache[k])
               /\ o.cache = IF r.pressed THEN [h.cache EXCEPT ![k] = l] ELSE h.cache
               /\ o.codes = IF TypesCode(act, r.count) THEN Toggled(h.codes, <<k, l>>, r.pressed)
                            ELSE h.codes
               /\ o.mods = IF HoldsMod(act, r.count) THEN Toggled(h.mods, act.arg, r.pressed)
                           ELSE h.mods
               /\ o.layers = IF HoldsLayer(act, r.count) THEN Toggled(h.layers, act.arg, r.pressed)
                             ELSE h.layers
               /\ o \in Keyboard
<1> DEFINE k    == r.key
           l    == SourceLayer(h, r)
           act  == Keymap[k][l]
           kind == act.kind
           h1   == Remember(h, r, l)
           c1   == IF r.pressed THEN [h.cache EXCEPT ![k] = l] ELSE h.cache
           o    == ProcessRecord(h, r)
<1>1. /\ h = [codes |-> h.codes, mods |-> h.mods, layers |-> h.layers, cache |-> h.cache]
      /\ h.codes \subseteq Keys \X Layers /\ h.mods \subseteq Mods /\ h.layers \subseteq Layers
      /\ h.cache \in [Keys -> Layers]
  BY DEF Keyboard
<1>2. l \in Layers /\ (~r.pressed => l = h.cache[k])
  <2>1. LayerFor(r.key, h.layers) \in Layers
    BY <1>1, LayerForType
  <2> QED
    BY <1>1, <2>1 DEF SourceLayer
<1>3. act.kind \in Kinds /\ (act.kind \in {"layer_tap", "momentary"} => act.arg \in Layers)
      /\ (IsMod(act) => act.arg \in Mods)
  <2>1. <<k, l>> \in Keys \X Layers /\ <<k, l>>[1] = k /\ <<k, l>>[2] = l
    BY <1>2
  <2>2. IsMod(act) => act.arg \in Mods
    BY <2>1, Zenon DEF Mods
  <2>3. act.kind \in Kinds /\ (act.kind \in {"layer_tap", "momentary"} => act.arg \in Layers)
    BY <1>2, KeymapAssumption
  <2> QED
    BY <2>2, <2>3
<1>4. h1 = [codes |-> h.codes, mods |-> h.mods, layers |-> h.layers, cache |-> c1]
      /\ c1 \in [Keys -> Layers]
  <2>1. c1 \in [Keys -> Layers]
    BY <1>1, <1>2
  <2>2. CASE r.pressed
    <3> HIDE DEF l
    <3>1. h1 = [h EXCEPT !.cache[k] = l]
      BY <2>2 DEF Remember
    <3>2. [h EXCEPT !.cache[k] = l] = [codes |-> h.codes, mods |-> h.mods, layers |-> h.layers,
                                       cache |-> [h.cache EXCEPT ![k] = l]]
      BY <1>1
    <3> QED
      BY <2>1, <2>2, <3>1, <3>2
  <2>3. CASE ~r.pressed
    BY <1>1, <2>1, <2>3 DEF Remember
  <2> QED
    BY <2>2, <2>3
<1>5. o = CASE kind = "transparent"                -> h1
            [] kind \in {"code", "mod"}            -> KeyAction(h1, r, l)
            [] kind = "mod_tap"                    -> ModsTapAction(h1, r, l)
            [] kind \in {"layer_tap", "momentary"} -> LayerTapAction(h1, r, l)
  BY DEF ProcessRecord
<1> DEFINE Codes  == Toggled(h.codes, <<k, l>>, r.pressed)
           ModSet == Toggled(h.mods, act.arg, r.pressed)
           On     == Toggled(h.layers, act.arg, r.pressed)
           p      == r.pressed
           n      == r.count
<1>6. /\ Codes \subseteq Keys \X Layers
      /\ IsMod(act) => ModSet \subseteq Mods
      /\ act.kind \in {"layer_tap", "momentary"} => On \subseteq Layers
  BY <1>1, <1>2, <1>3 DEF Toggled
<1>7. h1.codes = h.codes /\ h1.mods = h.mods /\ h1.layers = h.layers
  BY <1>4
<1> DEFINE WithCodes  == [codes |-> Codes, mods |-> h.mods, layers |-> h.layers, cache |-> c1]
           WithMods   == [codes |-> h.codes, mods |-> ModSet, layers |-> h.layers, cache |-> c1]
           WithLayers == [codes |-> h.codes, mods |-> h.mods, layers |-> On, cache |-> c1]
<1>8. /\ [h1 EXCEPT !.codes = Toggled(@, <<k, l>>, p)] = WithCodes
      /\ [h1 EXCEPT !.mods = Toggled(@, act.arg, p)] = WithMods
      /\ [h1 EXCEPT !.layers = Toggled(@, act.arg, p)] = WithLayers
  <2>1. /\ [h1 EXCEPT !.codes = Toggled(@, <<k, l>>, p)] = [h1 EXCEPT !.codes = Codes]
        /\ [h1 EXCEPT !.mods = Toggled(@, act.arg, p)] = [h1 EXCEPT !.mods = ModSet]
        /\ [h1 EXCEPT !.layers = Toggled(@, act.arg, p)] = [h1 EXCEPT !.layers = On]
    BY <1>7
  <2> HIDE DEF h1, Codes, ModSet, On, c1
  <2> QED
    BY <1>4, <2>1
<1> HIDE DEF Codes, ModSet, On, c1, h1, l, act
<1>9. CASE kind = "transparent"
  <2>1. o = h1
    BY <1>5, <1>9
  <2>2. ~TypesCode(act, n) /\ ~HoldsMod(act, n) /\ ~HoldsLayer(act, n)
    BY <1>9 DEF TypesCode, HoldsMod, HoldsLayer
  <2> QED
    BY <1>1, <1>2, <1>4, <2>1, <2>2 DEF Keyboard, c1, l, act
<1>10. CASE kind = "code"
  <2>1. o = WithCodes
    BY <1>5, <1>8, <1>10 DEF KeyAction, act
  <2>2. TypesCode(act, n) /\ ~HoldsMod(act, n) /\ ~HoldsLayer(act, n)
    BY <1>10 DEF TypesCode, HoldsMod, HoldsLayer
  <2> QED
    BY <1>1, <1>2, <1>4, <1>6, <2>1, <2>2 DEF Keyboard, c1, l, act, Codes
<1>11. CASE kind = "mod"
  <2>1. o = WithMods
    BY <1>5, <1>8, <1>11 DEF KeyAction, act
  <2>2. ~TypesCode(act, n) /\ HoldsMod(act, n) /\ ~HoldsLayer(act, n) /\ IsMod(act)
    BY <1>11 DEF TypesCode, HoldsMod, HoldsLayer, IsMod
  <2> QED
    BY <1>1, <1>2, <1>4, <1>6, <2>1, <2>2 DEF Keyboard, c1, l, act, ModSet
<1>12. CASE kind = "mod_tap" /\ r.count > 0
  <2>1. o = WithCodes
    BY <1>5, <1>8, <1>12 DEF ModsTapAction, act
  <2>2. TypesCode(act, n) /\ ~HoldsMod(act, n) /\ ~HoldsLayer(act, n)
    BY <1>12 DEF TypesCode, HoldsMod, HoldsLayer
  <2> QED
    BY <1>1, <1>2, <1>4, <1>6, <2>1, <2>2 DEF Keyboard, c1, l, act, Codes
<1>13. CASE kind = "mod_tap" /\ ~(r.count > 0)
  <2>1. o = WithMods
    BY <1>5, <1>8, <1>13 DEF ModsTapAction, act
  <2>2. ~TypesCode(act, n) /\ HoldsMod(act, n) /\ ~HoldsLayer(act, n) /\ IsMod(act)
    BY <1>13 DEF TypesCode, HoldsMod, HoldsLayer, IsMod
  <2> QED
    BY <1>1, <1>2, <1>4, <1>6, <2>1, <2>2 DEF Keyboard, c1, l, act, ModSet
<1>14. CASE kind = "layer_tap" /\ r.count > 0
  <2>1. o = WithCodes
    BY <1>5, <1>8, <1>14 DEF LayerTapAction, act
  <2>2. TypesCode(act, n) /\ ~HoldsMod(act, n) /\ ~HoldsLayer(act, n)
    BY <1>14 DEF TypesCode, HoldsMod, HoldsLayer
  <2> QED
    BY <1>1, <1>2, <1>4, <1>6, <2>1, <2>2 DEF Keyboard, c1, l, act, Codes
<1>15. CASE kind = "momentary" \/ (kind = "layer_tap" /\ ~(r.count > 0))
  <2>1. o = WithLayers
    BY <1>5, <1>8, <1>15 DEF LayerTapAction, act
  <2>2. ~TypesCode(act, n) /\ ~HoldsMod(act, n) /\ HoldsLayer(act, n)
        /\ act.kind \in {"layer_tap", "momentary"}
    BY <1>15 DEF TypesCode, HoldsMod, HoldsLayer
  <2> QED
    BY <1>1, <1>2, <1>4, <1>6, <2>1, <2>2 DEF Keyboard, c1, l, act, On
<1>16. kind \in Kinds
  BY <1>3
<1> QED
  BY <1>9, <1>10, <1>11, <1>12, <1>13, <1>14, <1>15, <1>16 DEF Kinds, l, act

\* process_record keeps the keyboard's type.
LEMMA ProcessRecordType ==
    ASSUME NEW h \in Keyboard, NEW r, r.key \in Keys, r.pressed \in BOOLEAN
    PROVE  ProcessRecord(h, r) \in Keyboard
BY Effect

\* P and Q are the same for the keys in A.
Agree(A, P, Q) == \A k \in A : k \in P <=> k \in Q

\* A key that owns nothing is pressed, as a tap or as a hold.
LEMMA PressOwned ==
    ASSUME NEW h \in Keyboard, NEW r, r.key \in Keys, r.pressed = TRUE, NEW A, NEW P, NEW Q,
           NEW lost \in BOOLEAN, Owned(h, A, P, lost), r.key \notin A, Agree(A, P, Q),
           r.key \in Q <=> r.count > 0
    PROVE  Owned(ProcessRecord(h, r), A \cup {r.key}, Q, lost)
<1> DEFINE k   == r.key
           l   == SourceLayer(h, r)
           act == Keymap[k][l]
           o   == ProcessRecord(h, r)
           B   == A \cup {k}
<1>1. /\ l \in Layers
      /\ o.cache = [h.cache EXCEPT ![k] = l]
      /\ o.codes = IF TypesCode(act, r.count) THEN h.codes \cup {<<k, l>>} ELSE h.codes
      /\ o.mods = IF HoldsMod(act, r.count) THEN h.mods \cup {act.arg} ELSE h.mods
      /\ o.layers = IF HoldsLayer(act, r.count) THEN h.layers \cup {act.arg} ELSE h.layers
  BY Effect DEF Toggled
<1>2. h.cache \in [Keys -> Layers]
  BY DEF Keyboard
<1>3. o.cache[k] = l /\ \A m \in Keys : m # k => o.cache[m] = h.cache[m]
  BY <1>1, <1>2
<1>4. A \subseteq A \cup {k}
  OBVIOUS
<1> HIDE DEF l, o
<1>5. ASSUME NEW m \in Keys, NEW n \in Layers, <<m, n>> \in o.codes
      PROVE  /\ m \in B /\ n = o.cache[m]
             /\ \/ Keymap[m][n].kind = "code"
                \/ Keymap[m][n].kind \in {"mod_tap", "layer_tap"} /\ m \in Q
  <2>1. CASE <<m, n>> \in h.codes
    <3>1. m \in A /\ n = h.cache[m] /\ m # k
      BY <2>1 DEF Owned
    <3> QED
      BY <1>3, <2>1, <3>1 DEF Owned, Agree
  <2>2. CASE TypesCode(act, r.count) /\ m = k /\ n = l
    BY <1>3, <2>2 DEF TypesCode
  <2> QED
    BY <1>1, <1>5, <2>1, <2>2
<1>6. ASSUME NEW m \in o.mods
      PROVE  \E j \in B : LET a == Keymap[j][o.cache[j]]
                          IN  (a.kind = "mod" \/ (a.kind = "mod_tap" /\ j \notin Q)) /\ a.arg = m
  <2>1. CASE m \in h.mods
    <3>1. PICK j \in A : LET a == Keymap[j][h.cache[j]]
                         IN  (a.kind = "mod" \/ (a.kind = "mod_tap" /\ j \notin P)) /\ a.arg = m
      BY <2>1, SMTT(60) DEF Owned
    <3>2. o.cache[j] = h.cache[j]
      BY <1>1, <1>2, <3>1
    <3> QED
      BY <3>1, <3>2 DEF Agree
  <2>2. CASE HoldsMod(act, r.count) /\ m = act.arg
    BY <1>3, <2>2 DEF HoldsMod
  <2> QED
    BY <1>1, <1>6, <2>1, <2>2, SMTT(60)
<1>7. ASSUME ~lost, NEW m \in o.layers
      PROVE  \E j \in B : LET a == Keymap[j][o.cache[j]]
                          IN  (a.kind = "momentary" \/ (a.kind = "layer_tap" /\ j \notin Q)) /\ a.arg = m
  <2>1. CASE m \in h.layers
    <3>1. PICK j \in A : LET a == Keymap[j][h.cache[j]]
                         IN  (a.kind = "momentary" \/ (a.kind = "layer_tap" /\ j \notin P)) /\ a.arg = m
      BY <1>7, <2>1, SMTT(60) DEF Owned
    <3>2. o.cache[j] = h.cache[j]
      BY <1>1, <1>2, <3>1
    <3> QED
      BY <3>1, <3>2 DEF Agree
  <2>2. CASE HoldsLayer(act, r.count) /\ m = act.arg
    BY <1>3, <2>2 DEF HoldsLayer
  <2> QED
    BY <1>1, <1>7, <2>1, <2>2, SMTT(60)
<1> QED
  BY <1>5, <1>6, <1>7, SMTT(60) DEF Owned, o

\* A key is released the way it was pressed: it owns nothing afterwards.
LEMMA ReleaseOwned ==
    ASSUME NEW h \in Keyboard, NEW r, r.key \in Keys, r.pressed = FALSE, NEW A, NEW P, NEW Q,
           NEW lost \in BOOLEAN, Owned(h, A, P, lost),
           \A k \in A : k # r.key => (k \in P <=> k \in Q), r.key \in P <=> r.count > 0
    PROVE  Owned(ProcessRecord(h, r), A \ {r.key}, Q, lost)
<1> DEFINE k   == r.key
           l   == SourceLayer(h, r)
           act == Keymap[k][l]
           o   == ProcessRecord(h, r)
           B   == A \ {k}
<1>1. /\ l = h.cache[k] /\ o.cache = h.cache
      /\ o.codes = IF TypesCode(act, r.count) THEN h.codes \ {<<k, l>>} ELSE h.codes
      /\ o.mods = IF HoldsMod(act, r.count) THEN h.mods \ {act.arg} ELSE h.mods
      /\ o.layers = IF HoldsLayer(act, r.count) THEN h.layers \ {act.arg} ELSE h.layers
  BY Effect DEF Toggled
<1> HIDE DEF l, o
<1>2. ASSUME NEW m \in Keys, NEW n \in Layers, <<m, n>> \in o.codes
      PROVE  /\ m \in B /\ n = o.cache[m]
             /\ \/ Keymap[m][n].kind = "code"
                \/ Keymap[m][n].kind \in {"mod_tap", "layer_tap"} /\ m \in Q
  <2>1. <<m, n>> \in h.codes
    BY <1>1, <1>2, SMTT(60)
  <2>2. /\ m \in A /\ n = h.cache[m]
        /\ \/ Keymap[m][n].kind = "code"
           \/ Keymap[m][n].kind \in {"mod_tap", "layer_tap"} /\ m \in P
    BY <2>1 DEF Owned
  <2>3. m # k
    <3> SUFFICES ASSUME m = k PROVE FALSE
      OBVIOUS
    <3>0. n = l /\ Keymap[m][n] = act /\ (m \in P <=> r.count > 0)
      BY <1>1, <2>2, SMTT(60)
    <3>1. n = l /\ TypesCode(act, r.count)
      BY <2>2, <3>0 DEF TypesCode
    <3>2. o.codes = h.codes \ {<<k, l>>}
      BY <1>1, <3>1
    <3> QED
      BY <1>2, <3>1, <3>2
  <2> QED
    BY <1>1, <2>2, <2>3, SMTT(60)
<1>3. ASSUME NEW m \in o.mods
      PROVE  \E j \in B : LET a == Keymap[j][o.cache[j]]
                          IN  (a.kind = "mod" \/ (a.kind = "mod_tap" /\ j \notin Q)) /\ a.arg = m
  <2>1. m \in h.mods /\ (HoldsMod(act, r.count) => m # act.arg)
    BY <1>1, <1>3
  <2>2. PICK j \in A : LET a == Keymap[j][h.cache[j]]
                       IN  (a.kind = "mod" \/ (a.kind = "mod_tap" /\ j \notin P)) /\ a.arg = m
    BY <2>1 DEF Owned
  <2>3. j # k
    <3> SUFFICES ASSUME j = k PROVE FALSE
      OBVIOUS
    <3>1. HoldsMod(act, r.count) /\ act.arg = m
      BY <1>1, <2>2 DEF HoldsMod
    <3> QED
      BY <2>1, <3>1
  <2> QED
    BY <1>1, <2>2, <2>3, SMTT(60)
<1>4. ASSUME ~lost, NEW m \in o.layers
      PROVE  \E j \in B : LET a == Keymap[j][o.cache[j]]
                          IN  (a.kind = "momentary" \/ (a.kind = "layer_tap" /\ j \notin Q)) /\ a.arg = m
  <2>1. m \in h.layers /\ (HoldsLayer(act, r.count) => m # act.arg)
    BY <1>1, <1>4, SMTT(60)
  <2>2. PICK j \in A : LET a == Keymap[j][h.cache[j]]
                       IN  (a.kind = "momentary" \/ (a.kind = "layer_tap" /\ j \notin P)) /\ a.arg = m
    BY <1>4, <2>1 DEF Owned
  <2>3. j # k
    <3> SUFFICES ASSUME j = k PROVE FALSE
      OBVIOUS
    <3>1. HoldsLayer(act, r.count) /\ act.arg = m
      BY <1>1, <2>2 DEF HoldsLayer
    <3> QED
      BY <2>1, <3>1
  <2> QED
    BY <1>1, <2>2, <2>3, SMTT(60)
<1> QED
  BY <1>2, <1>3, <1>4, SMTT(60) DEF Owned, o

\* More keys may be active, and what does not concern an active key is free.
LEMMA OwnedMore ==
    ASSUME NEW h, NEW A, NEW B, NEW P, NEW Q, NEW lost \in BOOLEAN, Owned(h, A, P, lost),
           A \subseteq B, \A k \in A : k \in P <=> k \in Q
    PROVE  Owned(h, B, Q, lost)
BY DEF Owned
-----------------------------------------------------------------------------
\* Records.

LEMMA ConstantTypes == MaxCount \in Nat \ {0} /\ MaxCount > 1 /\ MaxAge \in Nat /\ NoKey \notin Keys
BY TappingAssumption, KeymapAssumption DEF MaxAge

LEMMA RecordFields ==
    ASSUME NEW r \in Record
    PROVE  /\ r.key \in Keys \cup {NoKey} /\ r.pressed \in BOOLEAN /\ r.age \in 0..MaxAge
           /\ r.count \in 0..MaxCount /\ r.interrupted \in BOOLEAN /\ r.count \in Nat /\ r.age \in Nat
BY ConstantTypes DEF Record

LEMMA WithCount ==
    ASSUME NEW r \in Record, NEW c \in 0..MaxCount
    PROVE  LET x == [r EXCEPT !.count = c]
           IN  /\ x \in Record /\ x.key = r.key /\ x.pressed = r.pressed /\ x.age = r.age
               /\ x.count = c /\ x.interrupted = r.interrupted
BY DEF Record

LEMMA WithInterrupted ==
    ASSUME NEW r \in Record
    PROVE  LET x == [r EXCEPT !.interrupted = TRUE]
           IN  /\ x \in Record /\ x.key = r.key /\ x.pressed = r.pressed /\ x.age = r.age
               /\ x.count = r.count
BY DEF Record

LEMMA WithRelease ==
    ASSUME NEW r \in Record
    PROVE  LET x == [r EXCEPT !.pressed = FALSE]
           IN  x \in Record /\ x.key = r.key /\ x.pressed = FALSE /\ x.age = r.age /\ x.count = r.count
BY DEF Record

LEMMA WithTapFields ==
    ASSUME NEW r \in Record, NEW t \in Record
    PROVE  LET x == WithTap(r, t)
           IN  /\ x \in Record /\ x.key = r.key /\ x.pressed = r.pressed /\ x.age = r.age
               /\ x.count = t.count
BY DEF Record, WithTap

LEMMA NoRecordType == NoRecord \in Record /\ NoRecord.key = NoKey /\ NoRecord.pressed = FALSE
BY ConstantTypes DEF Record, NoRecord

-----------------------------------------------------------------------------
\* What a settled event does to the keyboard, the tapping key and the two sets.

\* The record of a key as its own sets describe it: its event is the next one.
Fits(r, D, M) == (r.key \in D <=> ~r.pressed) /\ (r.key \in M <=> r.count > 0)

\* Only the key, the direction and the count of the tapping key matter.
LEMMA SameTap ==
    ASSUME NEW h, NEW t, NEW u, NEW D, NEW M, NEW lost \in BOOLEAN, TapInv(h, t, D, M, lost),
           u.key = t.key, u.pressed <=> t.pressed, u.count = t.count
    PROVE  TapInv(h, u, D, M, lost)
<1>1. Active(u, D) = Active(t, D)
  BY DEF Active
<1>2. Tapped(u, M) = Tapped(t, M)
  BY DEF Tapped
<1> QED
  BY <1>1, <1>2 DEF TapInv, KeyOK

\* Without a tapping key that is down, every key that is down is active and the
\* marked keys are the tapped ones.
LEMMA NoTap ==
    ASSUME NEW t, NEW D, NEW M, D \subseteq Keys, M \subseteq D, t.key \notin Keys \/ ~t.pressed
    PROVE  Active(t, D) = D /\ Tapped(t, M) = M /\ KeyOK(t, D, M)
BY DEF Active, Tapped, KeyOK

\* A tapping key that is up can be forgotten.
LEMMA ForgetTap ==
    ASSUME NEW h, NEW t, NEW u, NEW D, NEW M, NEW lost \in BOOLEAN, TapInv(h, t, D, M, lost),
           t.key \notin Keys \/ ~t.pressed, u.key \notin Keys \/ ~u.pressed
    PROVE  TapInv(h, u, D, M, lost)
BY NoTap DEF TapInv

\* The tapping key is settled as held.
LEMMA HeldKeys ==
    ASSUME NEW h \in Keyboard, NEW t \in Record, NEW u \in Record, NEW D, NEW M, NEW lost \in BOOLEAN,
           TapInv(h, t, D, M, lost), t.key \in Keys, t.pressed, t.count = 0,
           u.key = t.key, u.pressed = t.pressed, u.count = t.count
    PROVE  TapInv(ProcessRecord(h, u), NoRecord, D, M, lost)
<1> DEFINE k == t.key
<1>1. k \in D /\ k \notin M /\ D \subseteq Keys /\ M \subseteq D
      /\ Owned(h, Active(t, D), Tapped(t, M), lost)
  BY DEF TapInv, KeyOK
<1>2. k \notin Active(t, D) /\ Active(t, D) \cup {k} = D
  BY <1>1 DEF Active
<1>3. Tapped(t, M) = M
  BY <1>1 DEF Tapped
<1>4. u.pressed = TRUE
  BY RecordFields
<1>5. /\ u.key \in Keys /\ u.key \notin Active(t, D) /\ (u.key \in M <=> u.count > 0)
      /\ Agree(Active(t, D), Tapped(t, M), M)
  BY <1>1, <1>2, <1>3 DEF Agree
<1>6. Owned(ProcessRecord(h, u), Active(t, D) \cup {u.key}, M, lost)
  BY <1>1, <1>4, <1>5, PressOwned
<1>7. Active(NoRecord, D) = D /\ Tapped(NoRecord, M) = M /\ KeyOK(NoRecord, D, M)
  BY <1>1, NoTap, NoRecordType, ConstantTypes
<1> QED
  BY <1>1, <1>2, <1>6, <1>7 DEF TapInv

\* The tapping key is settled as tapped by its own release, which is marked.
LEMMA TapKeys ==
    ASSUME NEW h \in Keyboard, NEW t \in Record, NEW u \in Record, NEW D, NEW M, NEW lost \in BOOLEAN,
           TapInv(h, t, D, M, lost), t.key \in Keys, t.pressed, t.count = 0,
           u.key = t.key, u.pressed = t.pressed, u.count = 1
    PROVE  TapInv(ProcessRecord(h, u), u, D, M \cup {t.key}, lost)
<1> DEFINE k == t.key
           N == M \cup {k}
<1>1. k \in D /\ k \notin M /\ D \subseteq Keys /\ M \subseteq D
      /\ Owned(h, Active(t, D), Tapped(t, M), lost)
  BY DEF TapInv, KeyOK
<1>2. k \notin Active(t, D) /\ Active(t, D) \cup {k} = D /\ Active(u, D) = D
  BY <1>1 DEF Active
<1>3. Tapped(t, M) = M /\ Tapped(u, N) = N
  BY <1>1 DEF Tapped
<1>4. u.pressed = TRUE /\ u.key \in Keys
  BY RecordFields
<1>5. /\ u.key \notin Active(t, D) /\ (u.key \in N <=> u.count > 0)
      /\ Agree(Active(t, D), Tapped(t, M), N)
  BY <1>1, <1>2, <1>3 DEF Agree
<1> HIDE DEF N
<1>6. Owned(ProcessRecord(h, u), Active(t, D) \cup {u.key}, N, lost)
  BY <1>1, <1>4, <1>5, PressOwned
<1>7. KeyOK(u, D, N) /\ N \subseteq D
  BY <1>1 DEF KeyOK, N
<1> QED
  BY <1>1, <1>2, <1>3, <1>6, <1>7 DEF TapInv, N

\* An event other than the release of the tapping key is passed on.
LEMMA PassedKeys ==
    ASSUME NEW h \in Keyboard, NEW t \in Record, NEW r \in Record, NEW D, NEW M, NEW lost \in BOOLEAN,
           TapInv(h, t, D, M, lost), r.key \in Keys, Fits(r, D, M),
           r.pressed \/ r.key # t.key \/ ~t.pressed
    PROVE  TapInv(ProcessRecord(h, r), t, After(D, r), M \ {r.key}, lost)
<1> DEFINE k == r.key
           E == After(D, r)
           N == M \ {k}
<1>1. /\ D \subseteq Keys /\ M \subseteq D /\ KeyOK(t, D, M)
      /\ Owned(h, Active(t, D), Tapped(t, M), lost)
  BY DEF TapInv
<1>2. r.pressed \in BOOLEAN /\ t.pressed \in BOOLEAN /\ t.count \in Nat /\ r.count \in Nat
  BY RecordFields
<1>3. (k \in D <=> ~r.pressed) /\ (k \in M <=> r.count > 0)
  BY DEF Fits
<1>4. k # t.key \/ ~t.pressed
  BY <1>1, <1>3 DEF KeyOK
<1>5. E \subseteq Keys /\ N \subseteq E
  BY <1>1 DEF After
<1>6. KeyOK(t, E, N)
  BY <1>1, <1>4 DEF KeyOK, After
<1>7. \A j \in Keys : j # k => (j \in Tapped(t, M) <=> j \in Tapped(t, N))
  BY DEF Tapped
<1>8. k \in Tapped(t, M) <=> r.count > 0
  BY <1>3, <1>4 DEF Tapped
<1>9. Active(t, D) \subseteq Keys
  BY <1>1 DEF Active
<1>10. CASE r.pressed
  <2>0. r.pressed = TRUE
    BY <1>2, <1>10
  <2>1. k \notin Active(t, D) /\ Active(t, D) \cup {k} = Active(t, E)
    BY <1>3, <1>4, <1>10 DEF Active, After
  <2>2. ~(r.count > 0) /\ k \notin Tapped(t, N)
    BY <1>1, <1>3, <1>4, <1>10 DEF Tapped
  <2>3. Agree(Active(t, D), Tapped(t, M), Tapped(t, N))
    BY <1>7, <1>9, <2>1 DEF Agree
  <2>4. k \in Tapped(t, N) <=> r.count > 0
    BY <2>2
  <2> HIDE DEF N, E
  <2>5. Owned(ProcessRecord(h, r), Active(t, D) \cup {r.key}, Tapped(t, N), lost)
    BY <1>1, <2>0, <2>1, <2>3, <2>4, PressOwned, ZenonT(60)
  <2> QED
    BY <1>5, <1>6, <2>1, <2>5 DEF TapInv, E, N
<1>11. CASE ~r.pressed
  <2>0. r.pressed = FALSE
    BY <1>2, <1>11
  <2>1. Active(t, D) \ {k} = Active(t, E)
    BY <1>11 DEF Active, After
  <2>2. \A j \in Active(t, D) : j # k => (j \in Tapped(t, M) <=> j \in Tapped(t, N))
    BY <1>7, <1>9
  <2> HIDE DEF N, E
  <2>3. Owned(ProcessRecord(h, r), Active(t, D) \ {r.key}, Tapped(t, N), lost)
    BY <1>1, <1>8, <2>0, <2>2, ReleaseOwned
  <2> QED
    BY <1>5, <1>6, <2>1, <2>3 DEF TapInv, E, N
<1> QED
  BY <1>2, <1>10, <1>11

\* The tapping key, settled as tapped, is released with the tap count it has.
LEMMA OwnReleaseKeys ==
    ASSUME NEW h \in Keyboard, NEW t \in Record, NEW r \in Record, NEW u, NEW D, NEW M, NEW lost \in BOOLEAN,
           TapInv(h, t, D, M, lost), r.key \in Keys, r.key = t.key, t.pressed, ~r.pressed, t.count > 0,
           r.count = t.count, u.key \notin Keys \/ ~u.pressed
    PROVE  TapInv(ProcessRecord(h, r), u, D \ {r.key}, M \ {r.key}, lost)
<1> DEFINE k == r.key
           E == D \ {k}
           N == M \ {k}
<1>1. D \subseteq Keys /\ M \subseteq D /\ Owned(h, Active(t, D), Tapped(t, M), lost)
  BY DEF TapInv
<1>2. r.pressed = FALSE /\ t.count \in Nat
  BY RecordFields
<1>3. Active(t, D) = D /\ k \in Tapped(t, M) /\ \A j \in Keys : j # k => (j \in Tapped(t, M) <=> j \in N)
  BY <1>1, <1>2 DEF Active, Tapped
<1>4. (k \in Tapped(t, M) <=> r.count > 0)
      /\ \A j \in Active(t, D) : j # k => (j \in Tapped(t, M) <=> j \in N)
  BY <1>1, <1>3
<1>5. E \subseteq Keys /\ N \subseteq E
  BY <1>1
<1> HIDE DEF N
<1>6. Owned(ProcessRecord(h, r), Active(t, D) \ {r.key}, N, lost)
  BY <1>1, <1>2, <1>4, ReleaseOwned
<1>7. Active(u, E) = E /\ Tapped(u, N) = N /\ KeyOK(u, E, N)
  BY <1>5, NoTap
<1> QED
  BY <1>3, <1>5, <1>6, <1>7 DEF TapInv, N

\* A press becomes the tapping key, undecided.
LEMMA StartKeys ==
    ASSUME NEW h, NEW r \in Record, NEW D, NEW M, NEW lost \in BOOLEAN, D \subseteq Keys,
           M \subseteq D, Owned(h, D, M, lost), r.key \in Keys, r.pressed, Fits(r, D, M)
    PROVE  TapInv(h, r, After(D, r), M \ {r.key}, lost)
<1> DEFINE k == r.key
           E == After(D, r)
<1>1. r.count \in Nat /\ r.pressed \in BOOLEAN
  BY RecordFields
<1>2. k \notin D /\ k \notin M /\ r.count = 0
  BY <1>1 DEF Fits
<1>3. M \ {k} = M /\ E = D \cup {k} /\ E \subseteq Keys /\ M \subseteq E
  BY <1>2 DEF After
<1> HIDE DEF E
<1>4. Active(r, E) = D
  BY <1>2, <1>3 DEF Active
<1>5. Tapped(r, M) = M
  BY <1>2 DEF Tapped
<1>6. KeyOK(r, E, M)
  <2>1. k \in E /\ (r.count = 0 => k \notin M) /\ r.count # 1
    BY <1>2, <1>3
  <2> QED
    BY <2>1 DEF KeyOK
<1> QED
  BY <1>3, <1>4, <1>5, <1>6 DEF TapInv, E

\* A press is a tap, N being the keys that are marked afterwards: the tapping key
\* with a count.
LEMMA StartTapKeys ==
    ASSUME NEW h \in Keyboard, NEW r \in Record, NEW D, NEW M, NEW N, NEW A, NEW P, NEW lost \in BOOLEAN,
           D \subseteq Keys, M \subseteq D, Owned(h, A, P, lost), A \subseteq D,
           Agree(A, P, M), r.key \in Keys, r.pressed, r.key \notin D,
           r.count > 0, N = M \cup {r.key} \/ (N = M \ {r.key} /\ r.count > 1)
    PROVE  TapInv(ProcessRecord(h, r), r, After(D, r), N, lost)
<1> DEFINE k == r.key
           E == After(D, r)
<1>1. r.count \in Nat /\ r.pressed \in BOOLEAN
  BY RecordFields
<1>2. E = D \cup {k} /\ E \subseteq Keys /\ N \subseteq E
  BY DEF After
<1> HIDE DEF E
<1>3. \A j \in A : j # k /\ j \in Keys
  OBVIOUS
<1>4. k \in Tapped(r, N)
  BY DEF Tapped
<1>5. \A j \in A : j \in P <=> j \in Tapped(r, N)
  BY <1>3 DEF Tapped, Agree
<1>6. (r.key \in Tapped(r, N) <=> r.count > 0) /\ r.key \notin A
  BY <1>3, <1>4
<1> DEFINE T == Tapped(r, N)
<1>7. Owned(ProcessRecord(h, r), A \cup {r.key}, T, lost)
  <2>1. /\ Agree(A, P, T) /\ (r.key \in T <=> r.count > 0)
        /\ r.key \notin A /\ r.pressed = TRUE
    BY <1>1, <1>5, <1>6 DEF Agree
  <2> HIDE DEF T
  <2> QED
    BY <2>1, PressOwned, ZenonT(60)
<1>8. Active(r, E) = E
  <2>1. r.count # 0
    BY <1>1
  <2> QED
    BY <2>1, Zenon DEF Active
<1>9. A \cup {r.key} \subseteq E
  BY <1>2
<1>10. Owned(ProcessRecord(h, r), E, T, lost)
  <2> DEFINE B == A \cup {r.key}
             g == ProcessRecord(h, r)
  <2>1. Owned(g, B, T, lost) /\ B \subseteq E
    BY <1>7, <1>9
  <2> HIDE DEF B, g, T
  <2>2. Owned(g, E, T, lost)
    BY <2>1, OwnedMore
  <2> QED
    BY <2>2 DEF g
<1>11. KeyOK(r, E, N)
  <2>1. k \in E /\ (r.count = 1 => k \in N) /\ r.count # 0
    BY <1>1, <1>2
  <2> QED
    BY <2>1 DEF KeyOK
<1> QED
  BY <1>2, <1>8, <1>10, <1>11 DEF TapInv, E
-----------------------------------------------------------------------------
\* process_tapping, branch by branch: its types, and what it does to the keyboard
\* and to the two sets of keys.

TypePre == kbd \in Keyboard /\ tapping_key \in Record /\ waiting \in Seq(Record)

\* The waiting records keep their keys, directions and ages.
SameShape(v) ==
    /\ v \in Seq(Record) /\ DOMAIN v = DOMAIN waiting
    /\ \A i \in DOMAIN waiting : /\ v[i].key = waiting[i].key /\ v[i].pressed = waiting[i].pressed
                                 /\ v[i].age = waiting[i].age

TypeStep(r, o) ==
    /\ o.kbd \in Keyboard /\ o.tap \in Record /\ o.done \in BOOLEAN
    /\ o.rec \in Record /\ o.rec.key = r.key /\ o.rec.pressed = r.pressed /\ o.rec.age = r.age
    /\ SameShape(o.waiting)

\* waiting_buffer_scan_tap has marked the oldest release within the term.
ScannedAt(v, r, i) ==
    /\ i \in DOMAIN waiting /\ waiting[i].key = r.key /\ ~waiting[i].pressed
    /\ WithinTerm(r, waiting[i]) /\ v = [waiting EXCEPT ![i].count = 1]
    /\ \A j \in DOMAIN waiting : waiting[j].key = r.key /\ ~waiting[j].pressed
                                   /\ WithinTerm(r, waiting[j]) => i <= j
Scanned(v, r) == \E i \in DOMAIN waiting : ScannedAt(v, r, i)

\* The event is handled: its key changes, and is marked if it becomes a tap whose
\* release waits.
DoneKeys(r, o, D, M, lost) ==
    \/ /\ o.waiting = waiting
       /\ TapInv(o.kbd, o.tap, After(D, r), M \ {r.key}, lost)
    \/ /\ Scanned(o.waiting, r) /\ r.pressed
       /\ TapInv(o.kbd, o.tap, After(D, r), M \cup {r.key}, lost)

\* The event has to wait: it is left as it is, or marked as a tap.
KeptKeys(r, o, D, M, lost) ==
    /\ o.waiting = waiting
    /\ \/ o.rec = r /\ TapInv(o.kbd, o.tap, D, M, lost)
       \/ /\ ~o.done /\ r.key \in Keys /\ ~r.pressed /\ o.rec.count > 0
          /\ TapInv(o.kbd, o.tap, D, M \cup {r.key}, lost)

KeyStep(r, o, D, M, lost) ==
    IF o.done /\ r.key # NoKey THEN Fits(r, D, M) => DoneKeys(r, o, D, M, lost)
    ELSE KeptKeys(r, o, D, M, lost)

LEMMA OutcomeFields ==
    ASSUME NEW t, NEW h, NEW w, NEW r, NEW d
    PROVE  LET o == Outcome(t, h, w, r, d)
           IN  o.tap = t /\ o.kbd = h /\ o.waiting = w /\ o.rec = r /\ o.done = d
BY DEF Outcome

\* An outcome that leaves the waiting buffer alone.
LEMMA PlainType ==
    ASSUME TypePre, NEW r \in Record, NEW t \in Record, NEW h \in Keyboard, NEW d \in BOOLEAN,
           NEW q \in Record, q.key = r.key, q.pressed = r.pressed, q.age = r.age
    PROVE  TypeStep(r, Outcome(t, h, waiting, q, d))
BY OutcomeFields DEF TypeStep, SameShape, TypePre

LEMMA BeginTapType ==
    ASSUME TypePre, NEW r \in Record, NEW h \in Keyboard, r.key \in Keys
    PROVE  LET o == BeginTap(h, r)
           IN  /\ TypeStep(r, o) /\ o.done /\ o.rec = r
               /\ \/ o.waiting = waiting /\ o.tap = r /\ o.kbd = h
                  \/ \E t \in Record : /\ t.key = r.key /\ t.pressed = r.pressed /\ t.count = 1
                                       /\ o.tap = t /\ o.kbd = ProcessRecord(h, t)
                                       /\ Scanned(o.waiting, r)
<1> DEFINE releases == {i \in DOMAIN waiting : /\ waiting[i].key = r.key /\ ~waiting[i].pressed
                                               /\ WithinTerm(r, waiting[i])}
           o == BeginTap(h, r)
<1>1. waiting \in Seq(Record) /\ DOMAIN waiting \subseteq Nat
  BY DEF TypePre
<1>2. CASE releases = {}
  <2>1. o = Outcome(r, h, waiting, r, TRUE)
    BY <1>2 DEF BeginTap
  <2>2. TypeStep(r, Outcome(r, h, waiting, r, TRUE))
    BY PlainType
  <2>3. o.tap = r /\ o.kbd = h /\ o.waiting = waiting /\ o.rec = r /\ o.done = TRUE
    BY <2>1 DEF Outcome
  <2>4. TypeStep(r, o)
    BY <2>1, <2>2
  <2> HIDE DEF o
  <2> QED
    BY <2>3, <2>4 DEF o
<1>3. CASE releases # {}
  <2> DEFINE i == CHOOSE j \in releases : \A m \in releases : j <= m
             t == [r EXCEPT !.count = 1]
             v == [waiting EXCEPT ![i].count = 1]
  <2>1. \E j \in releases : \A m \in releases : j <= m
    BY <1>1, <1>3, LeastNumber
  <2>2. i \in releases /\ \A m \in releases : i <= m
    BY <2>1
  <2>3. o = Outcome(t, ProcessRecord(h, t), v, r, TRUE)
    BY <1>3 DEF BeginTap
  <2> HIDE DEF i, t, v
  <2>4. 1 \in 0..MaxCount
    BY ConstantTypes
  <2>5. t \in Record /\ t.key = r.key /\ t.pressed = r.pressed /\ t.count = 1
    BY <2>4, WithCount DEF t
  <2>6. ProcessRecord(h, t) \in Keyboard
    BY <2>5, RecordFields, ProcessRecordType
  <2>7. v = [waiting EXCEPT ![i] = [waiting[i] EXCEPT !.count = 1]] /\ i \in DOMAIN waiting
        /\ waiting[i] \in Record
    BY <1>1, <2>2 DEF v
  <2>8. LET x == [waiting[i] EXCEPT !.count = 1]
        IN  /\ x \in Record /\ x.key = waiting[i].key /\ x.pressed = waiting[i].pressed
            /\ x.age = waiting[i].age
    BY <2>4, <2>7, WithCount
  <2>9. SameShape(v)
    <3> DEFINE x == [waiting[i] EXCEPT !.count = 1]
    <3>1. v = [waiting EXCEPT ![i] = x] /\ x \in Record /\ x.key = waiting[i].key
          /\ x.pressed = waiting[i].pressed /\ x.age = waiting[i].age
      BY <2>7, <2>8
    <3> HIDE DEF x
    <3>2. v \in Seq(Record) /\ DOMAIN v = DOMAIN waiting /\ v[i] = x
          /\ \A j \in DOMAIN waiting : j # i => v[j] = waiting[j]
      BY <1>1, <2>7, <3>1
    <3>3. ASSUME NEW j \in DOMAIN waiting
          PROVE  v[j].key = waiting[j].key /\ v[j].pressed = waiting[j].pressed
                 /\ v[j].age = waiting[j].age
      BY <3>1, <3>2
    <3> QED
      BY <3>2, <3>3 DEF SameShape
  <2>10. ScannedAt(v, r, i)
    BY <2>2 DEF ScannedAt, v
  <2>11. Scanned(v, r)
    BY <2>7, <2>10 DEF Scanned
  <2>12. o.tap = t /\ o.kbd = ProcessRecord(h, t) /\ o.waiting = v /\ o.rec = r /\ o.done = TRUE
    BY <2>3 DEF Outcome
  <2> HIDE DEF o
  <2>13. TypeStep(r, o)
    BY <2>5, <2>6, <2>9, <2>12 DEF TypeStep
  <2> QED
    BY <2>5, <2>11, <2>12, <2>13 DEF o
<1> QED
  BY <1>2, <1>3

LEMMA BeginTapKeys ==
    ASSUME TypePre, NEW r \in Record, NEW h \in Keyboard, r.key \in Keys, r.pressed, NEW D, NEW M,
           NEW A, NEW P, NEW lost \in BOOLEAN,
           D \subseteq Keys, M \subseteq D, Owned(h, A, P, lost), A \subseteq D,
           \A k \in A : k \in P <=> k \in M, Fits(r, D, M)
    PROVE  DoneKeys(r, BeginTap(h, r), D, M, lost)
<1> DEFINE o == BeginTap(h, r)
<1>1. CASE o.waiting = waiting /\ o.tap = r /\ o.kbd = h
  <2>1. TapInv(h, r, After(D, r), M \ {r.key}, lost)
    <3>1. Owned(h, D, M, lost)
      BY OwnedMore
    <3> QED
      BY <3>1, StartKeys
  <2> QED
    BY <1>1, <2>1 DEF DoneKeys
<1>2. ASSUME NEW t \in Record, t.key = r.key, t.pressed = r.pressed, t.count = 1,
             o.tap = t, o.kbd = ProcessRecord(h, t), Scanned(o.waiting, r)
      PROVE  DoneKeys(r, o, D, M, lost)
  <2> DEFINE N == M \cup {r.key}
  <2>1. /\ t.key \in Keys /\ t.pressed /\ t.key \notin D /\ t.count > 0
        /\ N = M \cup {t.key} /\ Agree(A, P, M)
    BY <1>2 DEF Fits, Agree
  <2> HIDE DEF N
  <2>2. TapInv(ProcessRecord(h, t), t, After(D, t), N, lost)
    BY <2>1, StartTapKeys
  <2> QED
    BY <1>2, <2>2 DEF DoneKeys, N, After
<1> QED
  BY <1>1, <1>2, BeginTapType

\* The parts of the keyboard's invariant.
LEMMA TapInvParts ==
    ASSUME NEW h, NEW t, NEW D, NEW M, NEW lost \in BOOLEAN, TapInv(h, t, D, M, lost)
    PROVE  /\ D \subseteq Keys /\ M \subseteq D /\ KeyOK(t, D, M)
           /\ Owned(h, Active(t, D), Tapped(t, M), lost) /\ Active(t, D) \subseteq D
BY DEF TapInv, Active

\* The outcome of an event that is kept back as it is, or of a tick.
LEMMA KeptStep ==
    ASSUME TypePre, NEW r \in Record, NEW t \in Record, NEW h \in Keyboard, NEW d \in BOOLEAN,
           d => r.key = NoKey
    PROVE  LET o == Outcome(t, h, waiting, r, d)
           IN  /\ TypeStep(r, o)
               /\ \A D, M : \A lost \in BOOLEAN :
                     TapInv(h, t, D, M, lost) => KeyStep(r, o, D, M, lost)
<1> DEFINE o == Outcome(t, h, waiting, r, d)
<1>1. TypeStep(r, o)
  BY PlainType
<1>2. o.tap = t /\ o.kbd = h /\ o.waiting = waiting /\ o.rec = r /\ o.done = d
  BY DEF Outcome
<1> HIDE DEF o
<1>3. ~(o.done /\ r.key # NoKey)
  BY <1>2
<1>4. ASSUME NEW D, NEW M, NEW lost \in BOOLEAN, TapInv(h, t, D, M, lost)
      PROVE  KeyStep(r, o, D, M, lost)
  BY <1>2, <1>3, <1>4 DEF KeyStep, KeptKeys
<1> QED
  BY <1>1, <1>4 DEF o

\* An event that is handled and leaves the waiting buffer alone.
LEMMA DoneStep ==
    ASSUME TypePre, NEW r \in Record, r.key \in Keys, NEW t \in Record, NEW h \in Keyboard, NEW q \in Record,
           q.key = r.key, q.pressed = r.pressed, q.age = r.age
    PROVE  LET o == Outcome(t, h, waiting, q, TRUE)
           IN  /\ TypeStep(r, o)
               /\ \A D, M : \A lost \in BOOLEAN :
                     (Fits(r, D, M) => TapInv(h, t, After(D, r), M \ {r.key}, lost))
                        => KeyStep(r, o, D, M, lost)
<1> DEFINE o == Outcome(t, h, waiting, q, TRUE)
<1>1. TypeStep(r, o)
  BY PlainType
<1>2. o.tap = t /\ o.kbd = h /\ o.waiting = waiting /\ o.done = TRUE
  BY DEF Outcome
<1> HIDE DEF o
<1>3. r.key # NoKey
  BY ConstantTypes
<1>4. ASSUME NEW D, NEW M, NEW lost \in BOOLEAN,
             Fits(r, D, M) => TapInv(h, t, After(D, r), M \ {r.key}, lost)
      PROVE  KeyStep(r, o, D, M, lost)
  BY <1>2, <1>3, <1>4 DEF KeyStep, DoneKeys
<1> QED
  BY <1>1, <1>4 DEF o

\* An event that is passed on.
LEMMA PassedStep ==
    ASSUME TypePre, NEW r \in Record, r.key \in Keys,
           r.pressed \/ r.key # tapping_key.key \/ ~tapping_key.pressed
    PROVE  /\ TypeStep(r, Passed(r))
           /\ \A D, M : \A lost \in BOOLEAN :
                 TapInv(kbd, tapping_key, D, M, lost) => KeyStep(r, Passed(r), D, M, lost)
<1> DEFINE h == ProcessRecord(kbd, r)
<1>1. kbd \in Keyboard /\ tapping_key \in Record /\ h \in Keyboard
  BY RecordFields, ProcessRecordType DEF TypePre
<1>2. ASSUME NEW D, NEW M, NEW lost \in BOOLEAN, TapInv(kbd, tapping_key, D, M, lost)
      PROVE  Fits(r, D, M) => TapInv(h, tapping_key, After(D, r), M \ {r.key}, lost)
  BY <1>1, <1>2, PassedKeys
<1> HIDE DEF h
<1>3. Passed(r) = Outcome(tapping_key, h, waiting, r, TRUE)
  BY DEF Passed, h
<1>4. /\ TypeStep(r, Passed(r))
      /\ \A D, M : \A lost \in BOOLEAN :
            (Fits(r, D, M) => TapInv(h, tapping_key, After(D, r), M \ {r.key}, lost))
               => KeyStep(r, Passed(r), D, M, lost)
  BY <1>1, <1>3, DoneStep
<1> QED
  BY <1>2, <1>4

\* The tapping key is settled as held while the event waits.
LEMMA HeldStep ==
    ASSUME TypePre, NEW r \in Record, NEW u \in Record, tapping_key.key \in Keys, tapping_key.pressed,
           tapping_key.count = 0, u.key = tapping_key.key, u.pressed = tapping_key.pressed,
           u.count = tapping_key.count
    PROVE  LET o == Outcome(NoRecord, ProcessRecord(kbd, u), waiting, r, FALSE)
           IN  /\ TypeStep(r, o)
               /\ \A D, M : \A lost \in BOOLEAN :
                     TapInv(kbd, tapping_key, D, M, lost) => KeyStep(r, o, D, M, lost)
<1> DEFINE h == ProcessRecord(kbd, u)
<1>1. kbd \in Keyboard /\ tapping_key \in Record /\ h \in Keyboard
  BY RecordFields, ProcessRecordType DEF TypePre
<1>2. ASSUME NEW D, NEW M, NEW lost \in BOOLEAN, TapInv(kbd, tapping_key, D, M, lost)
      PROVE  TapInv(h, NoRecord, D, M, lost)
  BY <1>1, <1>2, HeldKeys
<1> HIDE DEF h
<1>3. LET o == Outcome(NoRecord, h, waiting, r, FALSE)
      IN  /\ TypeStep(r, o)
          /\ \A D, M : \A lost \in BOOLEAN :
                TapInv(h, NoRecord, D, M, lost) => KeyStep(r, o, D, M, lost)
  BY <1>1, NoRecordType, KeptStep
<1> QED
  BY <1>2, <1>3 DEF h

\* A press that becomes the tapping key, after an action that left an invariant
\* keyboard.
LEMMA BeginStep ==
    ASSUME TypePre, NEW r \in Record, r.key \in Keys, r.pressed, NEW h \in Keyboard
    PROVE  /\ TypeStep(r, BeginTap(h, r))
           /\ \A D, M, A, P : \A lost \in BOOLEAN :
                 (/\ D \subseteq Keys /\ M \subseteq D /\ A \subseteq D
                  /\ \A k \in A : k \in P <=> k \in M
                  /\ Fits(r, D, M) => Owned(h, A, P, lost))
                    => KeyStep(r, BeginTap(h, r), D, M, lost)
<1>1. TypeStep(r, BeginTap(h, r)) /\ BeginTap(h, r).done
  BY BeginTapType
<1>2. r.key # NoKey
  BY ConstantTypes
<1>3. ASSUME NEW D, NEW M, NEW A, NEW P, NEW lost \in BOOLEAN,
             D \subseteq Keys, M \subseteq D, A \subseteq D, \A k \in A : k \in P <=> k \in M,
             Fits(r, D, M) => Owned(h, A, P, lost)
      PROVE  KeyStep(r, BeginTap(h, r), D, M, lost)
  <2>1. Fits(r, D, M) => DoneKeys(r, BeginTap(h, r), D, M, lost)
    BY <1>3, BeginTapKeys
  <2> QED
    BY <1>1, <1>2, <2>1 DEF KeyStep
<1> QED
  BY <1>1, <1>3

\* With no tapping key down, a press becomes the tapping key.
LEMMA BeginFreeStep ==
    ASSUME TypePre, NEW r \in Record, r.key \in Keys, r.pressed,
           tapping_key.key \notin Keys \/ ~tapping_key.pressed
    PROVE  /\ TypeStep(r, BeginTap(kbd, r))
           /\ \A D, M : \A lost \in BOOLEAN :
                 TapInv(kbd, tapping_key, D, M, lost) => KeyStep(r, BeginTap(kbd, r), D, M, lost)
<1>1. kbd \in Keyboard
  BY DEF TypePre
<1>2. ASSUME NEW D, NEW M, NEW lost \in BOOLEAN, TapInv(kbd, tapping_key, D, M, lost)
      PROVE  KeyStep(r, BeginTap(kbd, r), D, M, lost)
  <2>1. D \subseteq Keys /\ M \subseteq D /\ Owned(kbd, D, M, lost)
    BY <1>2, NoTap, TapInvParts
  <2> QED
    BY <1>1, <2>1, BeginStep
<1>3. TypeStep(r, BeginTap(kbd, r))
  BY <1>1, BeginStep
<1> QED
  BY <1>2, <1>3

LEMMA IdleStep ==
    ASSUME TypePre, NEW r \in Record, tapping_key.key = NoKey
    PROVE  /\ TypeStep(r, Idle(r))
           /\ \A D, M : \A lost \in BOOLEAN :
                 TapInv(kbd, tapping_key, D, M, lost) => KeyStep(r, Idle(r), D, M, lost)
<1>1. kbd \in Keyboard /\ tapping_key \in Record /\ tapping_key.key \notin Keys
  BY ConstantTypes DEF TypePre
<1>2. r.key = NoKey \/ r.key \in Keys
  BY RecordFields
<1>3. CASE r.key = NoKey
  <2>1. Idle(r) = Outcome(tapping_key, kbd, waiting, r, TRUE)
    BY <1>3 DEF Idle, Ignored
  <2> QED
    BY <1>1, <1>3, <2>1, KeptStep
<1>4. CASE r.key \in Keys /\ TapPress(r)
  <2>1. Idle(r) = BeginTap(kbd, r) /\ r.pressed
    BY <1>4, ConstantTypes DEF Idle, TapPress, IsPress
  <2> QED
    BY <1>1, <1>4, <2>1, BeginFreeStep
<1>5. CASE r.key \in Keys /\ ~TapPress(r)
  <2>1. Idle(r) = Passed(r) /\ r.key # tapping_key.key
    BY <1>5, ConstantTypes DEF Idle
  <2> QED
    BY <1>5, <2>1, PassedStep
<1> QED
  BY <1>2, <1>3, <1>4, <1>5

LEMMA UnsettledStep ==
    ASSUME TypePre, NEW r \in Record, tapping_key.key \in Keys, tapping_key.pressed,
           tapping_key.count = 0
    PROVE  /\ TypeStep(r, Unsettled(r))
           /\ \A D, M : \A lost \in BOOLEAN :
                 TapInv(kbd, tapping_key, D, M, lost) => KeyStep(r, Unsettled(r), D, M, lost)
<1> DEFINE t           == tapping_key
           tapped      == [t EXCEPT !.count = 1]
           interrupted == [t EXCEPT !.interrupted = TRUE]
<1>1. kbd \in Keyboard /\ t \in Record /\ tapping_key \in Record
  BY DEF TypePre
<1>2. (r.key = NoKey \/ r.key \in Keys) /\ r.pressed \in BOOLEAN
  BY RecordFields
<1>3. /\ tapped \in Record /\ tapped.key = t.key /\ tapped.pressed = t.pressed /\ tapped.count = 1
      /\ interrupted \in Record /\ interrupted.key = t.key /\ interrupted.pressed = t.pressed
      /\ interrupted.count = t.count
  <2>1. 1 \in 0..MaxCount
    BY ConstantTypes
  <2>2. /\ tapped \in Record /\ tapped.key = t.key /\ tapped.pressed = t.pressed
        /\ tapped.count = 1
    BY <1>1, <2>1, WithCount
  <2>3. /\ interrupted \in Record /\ interrupted.key = t.key
        /\ interrupted.pressed = t.pressed /\ interrupted.count = t.count
    BY <1>1, WithInterrupted
  <2> QED
    BY <2>2, <2>3
<1>4. CASE r.key = NoKey
  <2>1. ~OwnRelease(r) /\ ~IsRelease(r) /\ ~IsPress(r)
    BY <1>4, ConstantTypes DEF OwnRelease, IsRelease, IsPress
  <2>2. Unsettled(r) = Outcome(tapping_key, kbd, waiting, r, TRUE)
    BY <1>4, <2>1 DEF Unsettled, Ignored
  <2> QED
    BY <1>1, <1>4, <2>2, KeptStep
<1>5. CASE r.key \in Keys /\ OwnRelease(r)
  <2> DEFINE h == ProcessRecord(kbd, tapped)
             q == WithTap(r, tapped)
             o == Unsettled(r)
  <2>1. r.key # NoKey /\ ~IsPress(r) /\ IsRelease(r) /\ r.key = t.key /\ ~r.pressed
    BY <1>5, ConstantTypes DEF OwnRelease, IsRelease, IsPress
  <2>2. o = Outcome(tapped, h, waiting, q, FALSE)
    BY <1>5, <2>1 DEF Unsettled
  <2> HIDE DEF tapped, interrupted
  <2>3. h \in Keyboard
    BY <1>1, <1>3, RecordFields, ProcessRecordType
  <2>4. q \in Record /\ q.key = r.key /\ q.pressed = r.pressed /\ q.age = r.age /\ q.count = 1
    BY <1>3, WithTapFields
  <2>5. ASSUME NEW D, NEW M, NEW lost \in BOOLEAN, TapInv(kbd, tapping_key, D, M, lost)
        PROVE  TapInv(h, tapped, D, M \cup {r.key}, lost)
    BY <1>1, <1>3, <2>1, <2>5, TapKeys, ZenonT(60)
  <2> HIDE DEF h, q, o
  <2>6. TypeStep(r, o)
    BY <1>3, <2>2, <2>3, <2>4, PlainType
  <2>7. o.tap = tapped /\ o.kbd = h /\ o.waiting = waiting /\ o.rec = q /\ o.done = FALSE
    BY <2>2 DEF Outcome
  <2>8. ~o.done /\ o.rec.count > 0
    BY <2>4, <2>7
  <2>9. ASSUME NEW D, NEW M, NEW lost \in BOOLEAN, TapInv(kbd, tapping_key, D, M, lost)
        PROVE  KeyStep(r, o, D, M, lost)
    <3>1. TapInv(o.kbd, o.tap, D, M \cup {r.key}, lost)
      BY <2>5, <2>7, <2>9
    <3>2. o.waiting = waiting
      BY <2>7
    <3> QED
      BY <1>5, <2>1, <2>8, <3>1, <3>2 DEF KeyStep, KeptKeys
  <2> QED
    BY <2>6, <2>9 DEF o
<1>6. CASE r.key \in Keys /\ IsRelease(r) /\ ~OwnRelease(r)
  <2>1. r.key # NoKey /\ ~IsPress(r) /\ r.key # tapping_key.key
    BY <1>6, ConstantTypes DEF OwnRelease, IsRelease, IsPress
  <2>2. CASE Typed(r) /\ t.key \in Permissive
    <3>1. Unsettled(r) = Outcome(NoRecord, ProcessRecord(kbd, tapping_key), waiting, r, FALSE)
      BY <1>6, <2>1, <2>2 DEF Unsettled, Held
    <3> QED
      BY <1>1, <3>1, HeldStep
  <2>3. CASE \/ Typed(r) /\ t.key \notin Permissive
             \/ ~Typed(r) /\ Retained(r)
    <3>1. Unsettled(r) = Outcome(tapping_key, kbd, waiting, r, FALSE)
      BY <1>6, <2>1, <2>3 DEF Unsettled, KeptBack
    <3> QED
      BY <1>1, <3>1, KeptStep
  <2>4. CASE ~Typed(r) /\ ~Retained(r)
    <3>1. Unsettled(r) = Passed(r)
      BY <1>6, <2>1, <2>4 DEF Unsettled
    <3> QED
      BY <1>6, <2>1, <3>1, PassedStep
  <2> QED
    BY <2>2, <2>3, <2>4
<1>7. CASE r.key \in Keys /\ IsPress(r)
  <2>1. r.key # NoKey /\ ~IsRelease(r) /\ ~OwnRelease(r)
    BY <1>7, ConstantTypes DEF OwnRelease, IsRelease, IsPress
  <2>2. CASE t.key \in HoldOnOther
    <3>1. Unsettled(r) = Outcome(NoRecord, ProcessRecord(kbd, interrupted), waiting, r, FALSE)
      BY <1>7, <2>1, <2>2 DEF Unsettled
    <3> HIDE DEF interrupted
    <3> QED
      BY <1>1, <1>3, <3>1, HeldStep
  <2>3. CASE t.key \notin HoldOnOther
    <3>1. Unsettled(r) = Outcome(interrupted, kbd, waiting, r, FALSE)
      BY <1>7, <2>1, <2>3 DEF Unsettled
    <3> HIDE DEF interrupted
    <3> HIDE DEF tapped
    <3>2. ASSUME NEW D, NEW M, NEW lost \in BOOLEAN, TapInv(kbd, tapping_key, D, M, lost)
          PROVE  TapInv(kbd, interrupted, D, M, lost)
      <4>1. interrupted.key = tapping_key.key /\ (interrupted.pressed <=> tapping_key.pressed)
            /\ interrupted.count = tapping_key.count
        BY <1>3
      <4> QED
        BY <3>2, <4>1, SameTap
    <3> QED
      BY <1>1, <1>3, <3>1, <3>2, KeptStep
  <2> QED
    BY <2>2, <2>3
<1>8. r.key \in Keys => IsPress(r) \/ IsRelease(r)
  BY ConstantTypes DEF IsPress, IsRelease
<1> QED
  BY <1>2, <1>4, <1>5, <1>6, <1>7, <1>8

\* The tapping key, settled as tapped, is released by its own event.
LEMMA OwnReleaseStep ==
    ASSUME TypePre, NEW r \in Record, r.key \in Keys, tapping_key.key \in Keys, tapping_key.pressed,
           tapping_key.count > 0, OwnRelease(r), NEW u \in Record, NEW q \in Record,
           q = WithTap(r, tapping_key), u = q \/ u = NoRecord
    PROVE  LET o == Outcome(u, ProcessRecord(kbd, q), waiting, q, TRUE)
           IN  /\ TypeStep(r, o)
               /\ \A D, M : \A lost \in BOOLEAN :
                     TapInv(kbd, tapping_key, D, M, lost) => KeyStep(r, o, D, M, lost)
<1> DEFINE h == ProcessRecord(kbd, q)
<1>1. kbd \in Keyboard /\ tapping_key \in Record
  BY DEF TypePre
<1>2. r.key = tapping_key.key /\ ~r.pressed /\ r.pressed \in BOOLEAN
  BY RecordFields DEF OwnRelease
<1>3. q.key = r.key /\ q.pressed = r.pressed /\ q.age = r.age /\ q.count = tapping_key.count
  BY <1>1, WithTapFields
<1>4. h \in Keyboard
  BY <1>1, <1>2, <1>3, RecordFields, ProcessRecordType
<1>5. u.key \notin Keys \/ ~u.pressed
  BY <1>2, <1>3, NoRecordType
<1>6. ASSUME NEW D, NEW M, NEW lost \in BOOLEAN, TapInv(kbd, tapping_key, D, M, lost)
      PROVE  TapInv(h, u, After(D, r), M \ {r.key}, lost)
  <2>1. q.key \in Keys /\ q.key = tapping_key.key /\ ~q.pressed
    BY <1>2, <1>3
  <2>2. TapInv(h, u, D \ {q.key}, M \ {q.key}, lost)
    BY <1>1, <1>3, <1>5, <1>6, <2>1, OwnReleaseKeys
  <2> QED
    BY <1>2, <1>3, <2>2 DEF After
<1> HIDE DEF h
<1>7. LET o == Outcome(u, h, waiting, q, TRUE)
      IN  /\ TypeStep(r, o)
          /\ \A D, M : \A lost \in BOOLEAN :
                (Fits(r, D, M) => TapInv(h, u, After(D, r), M \ {r.key}, lost))
                   => KeyStep(r, o, D, M, lost)
  BY <1>3, <1>4, DoneStep
<1> QED
  BY <1>6, <1>7 DEF h

\* Another tap/hold key goes down while the tapping key is settled as tapped.
LEMMA NewTapStep ==
    ASSUME TypePre, NEW r \in Record, r.key \in Keys, r.pressed, tapping_key.key \in Keys,
           tapping_key.pressed, tapping_key.count > 0
    PROVE  /\ TypeStep(r, NewTap(r))
           /\ \A D, M : \A lost \in BOOLEAN :
                 TapInv(kbd, tapping_key, D, M, lost) => KeyStep(r, NewTap(r), D, M, lost)
<1> DEFINE t == tapping_key
           x == [t EXCEPT !.pressed = FALSE]
           h == ProcessRecord(kbd, x)
<1>1. kbd \in Keyboard /\ t \in Record /\ tapping_key \in Record /\ t.count \in Nat
  BY RecordFields DEF TypePre
<1>2. x \in Record /\ x.key = t.key /\ x.pressed = FALSE /\ x.count = t.count
  BY <1>1, WithRelease
<1>3. CASE t.count > 1
  <2>1. NewTap(r) = BeginTap(h, r)
    BY <1>3 DEF NewTap
  <2> HIDE DEF x
  <2>2. h \in Keyboard
    BY <1>1, <1>2, ProcessRecordType
  <2>3. ASSUME NEW D, NEW M, NEW lost \in BOOLEAN, TapInv(kbd, tapping_key, D, M, lost)
        PROVE  KeyStep(r, NewTap(r), D, M, lost)
    <3> DEFINE A == D \ {t.key}
    <3>1. D \subseteq Keys /\ M \subseteq D /\ Owned(kbd, Active(t, D), Tapped(t, M), lost)
      BY <2>3, TapInvParts
    <3>2. Active(t, D) = D
      BY <1>3, <3>1 DEF Active
    <3>3. \A k \in D : k # t.key => (k \in Tapped(t, M) <=> k \in M)
      BY <3>1 DEF Tapped
    <3>4. t.key \in Tapped(t, M)
      BY <1>1, <1>3 DEF Tapped
    <3>5. /\ x.key \in Keys /\ x.pressed = FALSE
          /\ x.key \in Tapped(t, M) <=> x.count > 0
          /\ \A k \in D : k # x.key => (k \in Tapped(t, M) <=> k \in M)
      BY <1>2, <3>3, <3>4
    <3>6. Owned(kbd, D, Tapped(t, M), lost)
      BY <3>1, <3>2
    <3>7. Owned(h, D \ {x.key}, M, lost)
      BY <1>1, <1>2, <3>5, <3>6, ReleaseOwned
    <3>8. Owned(h, A, M, lost) /\ A \subseteq D
      BY <1>2, <3>7
    <3> HIDE DEF A, h
    <3>9. KeyStep(r, BeginTap(h, r), D, M, lost)
      BY <2>2, <3>1, <3>8, BeginStep
    <3> QED
      BY <2>1, <3>9
  <2>4. TypeStep(r, BeginTap(h, r))
    BY <2>2, BeginStep
  <2> QED
    BY <2>1, <2>3, <2>4
<1>4. CASE ~(t.count > 1)
  <2>1. NewTap(r) = BeginTap(kbd, r) /\ t.count = 1
    BY <1>1, <1>4 DEF NewTap
  <2>2. ASSUME NEW D, NEW M, NEW lost \in BOOLEAN, TapInv(kbd, tapping_key, D, M, lost)
        PROVE  KeyStep(r, NewTap(r), D, M, lost)
    <3>1. /\ D \subseteq Keys /\ M \subseteq D /\ Owned(kbd, Active(t, D), Tapped(t, M), lost)
          /\ KeyOK(t, D, M)
      BY <2>2, TapInvParts
    <3>2. t.key \in M
      BY <2>1, <3>1 DEF KeyOK
    <3>3. Active(t, D) = D /\ Tapped(t, M) = M
      BY <2>1, <3>1, <3>2 DEF Active, Tapped
    <3>4. Owned(kbd, D, M, lost)
      BY <3>1, <3>3
    <3>5. KeyStep(r, BeginTap(kbd, r), D, M, lost)
      BY <1>1, <3>1, <3>4, BeginStep
    <3> QED
      BY <2>1, <3>5
  <2>3. TypeStep(r, BeginTap(kbd, r))
    BY <1>1, BeginStep
  <2> QED
    BY <2>1, <2>2, <2>3
<1> QED
  BY <1>3, <1>4

LEMMA SettledStep ==
    ASSUME TypePre, NEW r \in Record, tapping_key.key \in Keys, tapping_key.pressed,
           tapping_key.count > 0
    PROVE  /\ TypeStep(r, Settled(r))
           /\ \A D, M : \A lost \in BOOLEAN :
                 TapInv(kbd, tapping_key, D, M, lost) => KeyStep(r, Settled(r), D, M, lost)
<1>1. kbd \in Keyboard /\ tapping_key \in Record
  BY DEF TypePre
<1>2. (r.key = NoKey \/ r.key \in Keys) /\ r.pressed \in BOOLEAN
  BY RecordFields
<1>3. CASE r.key = NoKey
  <2>1. ~OwnRelease(r) /\ ~TapPress(r)
    BY <1>3, ConstantTypes DEF OwnRelease, TapPress, IsPress
  <2>2. Settled(r) = Outcome(tapping_key, kbd, waiting, r, TRUE)
    BY <1>3, <2>1 DEF Settled, Ignored
  <2> QED
    BY <1>1, <1>3, <2>2, KeptStep
<1>4. CASE r.key \in Keys /\ OwnRelease(r)
  <2> DEFINE q == WithTap(r, tapping_key)
             u == IF WithinTerm(tapping_key, r) THEN q ELSE NoRecord
  <2>1. r.key # NoKey /\ ~TapPress(r)
    BY <1>4, ConstantTypes DEF OwnRelease, TapPress, IsPress
  <2>2. Settled(r) = Outcome(u, ProcessRecord(kbd, q), waiting, q, TRUE)
    BY <1>4, <2>1 DEF Settled
  <2>3. q \in Record
    BY <1>1, WithTapFields
  <2>4. u \in Record /\ (u = q \/ u = NoRecord)
    BY <2>3, NoRecordType
  <2>5. q = WithTap(r, tapping_key)
    OBVIOUS
  <2> HIDE DEF q, u
  <2> QED
    BY <1>4, <2>2, <2>3, <2>4, <2>5, OwnReleaseStep
<1>5. CASE r.key \in Keys /\ TapPress(r)
  <2>1. r.key # NoKey /\ ~OwnRelease(r) /\ r.pressed
    BY <1>5, ConstantTypes DEF OwnRelease, TapPress, IsPress
  <2>2. Settled(r) = NewTap(r)
    BY <1>5, <2>1 DEF Settled
  <2> QED
    BY <1>5, <2>1, <2>2, NewTapStep
<1>6. CASE r.key \in Keys /\ ~OwnRelease(r) /\ ~TapPress(r)
  <2>1. r.key # NoKey /\ (r.pressed \/ r.key # tapping_key.key)
    BY <1>6, ConstantTypes DEF OwnRelease
  <2>2. Settled(r) = Passed(r)
    BY <1>6, <2>1 DEF Settled
  <2> QED
    BY <1>6, <2>1, <2>2, PassedStep
<1> QED
  BY <1>2, <1>3, <1>4, <1>5, <1>6

\* A further tap: the press is processed with a higher count.
LEMMA MoreStep ==
    ASSUME TypePre, NEW r \in Record, r.key \in Keys, r.pressed,
           tapping_key.key \in Keys, ~tapping_key.pressed, tapping_key.count > 0,
           NEW q \in Record, q.key = r.key, q.pressed = r.pressed, q.age = r.age,
           q.count = NextCount(tapping_key.count)
    PROVE  LET o == Outcome(q, ProcessRecord(kbd, q), waiting, q, TRUE)
           IN  /\ TypeStep(r, o)
               /\ \A D, M : \A lost \in BOOLEAN :
                     TapInv(kbd, tapping_key, D, M, lost) => KeyStep(r, o, D, M, lost)
<1> DEFINE h == ProcessRecord(kbd, q)
<1>1. kbd \in Keyboard /\ tapping_key \in Record /\ r.pressed \in BOOLEAN
  BY RecordFields DEF TypePre
<1>2. h \in Keyboard
  BY <1>1, RecordFields, ProcessRecordType
<1>3. q.count > 1 /\ q.count > 0
  <2>1. /\ tapping_key.count \in 0..MaxCount /\ tapping_key.count > 0
        /\ MaxCount \in Nat /\ MaxCount > 1
    BY <1>1, RecordFields, ConstantTypes
  <2> QED
    BY <2>1 DEF NextCount
<1>4. ASSUME NEW D, NEW M, NEW lost \in BOOLEAN, TapInv(kbd, tapping_key, D, M, lost), Fits(r, D, M)
      PROVE  TapInv(h, q, After(D, r), M \ {r.key}, lost)
  <2> DEFINE N == M \ {q.key}
  <2>1. D \subseteq Keys /\ M \subseteq D /\ Owned(kbd, D, M, lost)
    BY <1>4, NoTap, TapInvParts
  <2>2. q.key \in Keys /\ q.pressed /\ q.key \notin D
    BY <1>4 DEF Fits
  <2>3. N = M \ {q.key} /\ q.count > 1 /\ Agree(D, M, M)
    BY <1>3 DEF Agree
  <2> HIDE DEF N
  <2>4. TapInv(h, q, After(D, q), N, lost)
    BY <1>1, <1>3, <2>1, <2>2, <2>3, StartTapKeys
  <2> QED
    BY <2>4 DEF N, After
<1> HIDE DEF h
<1>5. LET o == Outcome(q, h, waiting, q, TRUE)
      IN  /\ TypeStep(r, o)
          /\ \A D, M : \A lost \in BOOLEAN :
                (Fits(r, D, M) => TapInv(h, q, After(D, r), M \ {r.key}, lost))
                   => KeyStep(r, o, D, M, lost)
  BY <1>2, DoneStep
<1> QED
  BY <1>4, <1>5 DEF h

LEMMA ReleasedStep ==
    ASSUME TypePre, NEW r \in Record, tapping_key.key \in Keys, ~tapping_key.pressed
    PROVE  /\ TypeStep(r, Released(r))
           /\ \A D, M : \A lost \in BOOLEAN :
                 TapInv(kbd, tapping_key, D, M, lost) => KeyStep(r, Released(r), D, M, lost)
<1> DEFINE t    == tapping_key
           more == [WithTap(r, t) EXCEPT !.count = NextCount(@)]
<1>1. kbd \in Keyboard /\ t \in Record /\ tapping_key \in Record
  BY DEF TypePre
<1>2. (r.key = NoKey \/ r.key \in Keys) /\ r.pressed \in BOOLEAN
  BY RecordFields
<1>3. CASE r.key = NoKey
  <2>1. ~IsPress(r) /\ ~IsRelease(r)
    BY <1>3 DEF IsPress, IsRelease
  <2>2. Released(r) = Outcome(tapping_key, kbd, waiting, r, TRUE)
    BY <1>3, <2>1 DEF Released, Ignored
  <2> QED
    BY <1>1, <1>3, <2>2, KeptStep
<1>4. CASE r.key \in Keys /\ IsPress(r) /\ r.key = t.key
  <2>1. r.key # NoKey /\ ~IsRelease(r) /\ r.pressed
    BY <1>4, ConstantTypes DEF IsPress, IsRelease
  <2>2. CASE WithinQuick(t, r) /\ ~t.interrupted /\ t.count > 0
    <3>1. Released(r) = Outcome(more, ProcessRecord(kbd, more), waiting, more, TRUE)
      BY <1>4, <2>1, <2>2 DEF Released
    <3>2. /\ more \in Record /\ more.key = r.key /\ more.pressed = r.pressed /\ more.age = r.age
          /\ more.count = NextCount(t.count)
      <4> DEFINE w == WithTap(r, t)
                 c == NextCount(t.count)
      <4>1. /\ w \in Record /\ w.key = r.key /\ w.pressed = r.pressed /\ w.age = r.age
            /\ w.count = t.count
        BY <1>1, WithTapFields
      <4>2. c \in 0..MaxCount
        BY <1>1, RecordFields, ConstantTypes DEF NextCount
      <4>3. more = [w EXCEPT !.count = c]
        BY <4>1
      <4> HIDE DEF w, c
      <4>4. LET x == [w EXCEPT !.count = c]
            IN  /\ x \in Record /\ x.key = w.key /\ x.pressed = w.pressed /\ x.age = w.age
                /\ x.count = c
        BY <4>1, <4>2, WithCount
      <4> HIDE DEF more
      <4> QED
        BY <4>1, <4>3, <4>4 DEF c
    <3> HIDE DEF more
    <3> QED
      BY <1>4, <2>1, <2>2, <3>1, <3>2, MoreStep
  <2>3. CASE ~(WithinQuick(t, r) /\ ~t.interrupted /\ t.count > 0)
    <3>1. Released(r) = Outcome(r, kbd, waiting, r, TRUE)
      BY <1>4, <2>1, <2>3 DEF Released
    <3>2. ASSUME NEW D, NEW M, NEW lost \in BOOLEAN, TapInv(kbd, tapping_key, D, M, lost), Fits(r, D, M)
          PROVE  TapInv(kbd, r, After(D, r), M \ {r.key}, lost)
      <4>1. D \subseteq Keys /\ M \subseteq D /\ Owned(kbd, D, M, lost)
        BY <3>2, NoTap, TapInvParts
      <4> QED
        BY <1>4, <2>1, <3>2, <4>1, StartKeys
    <3> QED
      BY <1>1, <1>4, <3>1, <3>2, DoneStep
  <2> QED
    BY <2>2, <2>3
<1>5. CASE r.key \in Keys /\ IsPress(r) /\ r.key # t.key
  <2>1. r.key # NoKey /\ ~IsRelease(r) /\ r.pressed
    BY <1>5, ConstantTypes DEF IsPress, IsRelease
  <2>2. CASE TapPress(r)
    <3>1. Released(r) = BeginTap(kbd, r)
      BY <1>5, <2>1, <2>2 DEF Released
    <3> QED
      BY <1>5, <2>1, <3>1, BeginFreeStep
  <2>3. CASE ~TapPress(r)
    <3> DEFINE u == [t EXCEPT !.interrupted = TRUE]
               h == ProcessRecord(kbd, r)
    <3>1. Released(r) = [Passed(r) EXCEPT !.tap = u]
      BY <1>5, <2>1, <2>3 DEF Released
    <3>2. Released(r) = Outcome(u, h, waiting, r, TRUE)
      BY <3>1 DEF Passed, Outcome
    <3>3. h \in Keyboard
      BY <1>1, <1>2, <1>5, ProcessRecordType
    <3>4. u \in Record /\ u.key = t.key /\ u.pressed = t.pressed /\ u.count = t.count
      BY <1>1, WithInterrupted
    <3> HIDE DEF u
    <3>5. ASSUME NEW D, NEW M, NEW lost \in BOOLEAN, TapInv(kbd, tapping_key, D, M, lost), Fits(r, D, M)
          PROVE  TapInv(h, u, After(D, r), M \ {r.key}, lost)
      <4>1. TapInv(h, tapping_key, After(D, r), M \ {r.key}, lost)
        BY <1>1, <1>5, <3>5, PassedKeys
      <4>2. u.key = tapping_key.key /\ (u.pressed <=> tapping_key.pressed) /\ u.count = tapping_key.count
        BY <3>4
      <4> DEFINE D1 == After(D, r)
                 M1 == M \ {r.key}
      <4> HIDE DEF D1, M1, h
      <4>3. TapInv(h, tapping_key, D1, M1, lost)
        BY <4>1 DEF D1, M1
      <4>4. TapInv(h, u, D1, M1, lost)
        BY <4>2, <4>3, SameTap
      <4> QED
        BY <4>4 DEF D1, M1
    <3> HIDE DEF h
    <3> QED
      BY <1>5, <3>2, <3>3, <3>4, <3>5, DoneStep
  <2> QED
    BY <2>2, <2>3
<1>6. CASE r.key \in Keys /\ IsRelease(r)
  <2>1. r.key # NoKey /\ ~IsPress(r)
    BY <1>6, ConstantTypes DEF IsPress, IsRelease
  <2>2. Released(r) = Passed(r)
    BY <1>6, <2>1 DEF Released
  <2> QED
    BY <1>6, <2>2, PassedStep
<1>7. r.key \in Keys => IsPress(r) \/ IsRelease(r)
  BY ConstantTypes DEF IsPress, IsRelease
<1> QED
  BY <1>2, <1>3, <1>4, <1>5, <1>6, <1>7

\* process_tapping
LEMMA ProcessTappingStep ==
    ASSUME TypePre, NEW r \in Record
    PROVE  /\ TypeStep(r, ProcessTapping(r))
           /\ \A D, M : \A lost \in BOOLEAN :
                 TapInv(kbd, tapping_key, D, M, lost) => KeyStep(r, ProcessTapping(r), D, M, lost)
<1>1. /\ kbd \in Keyboard /\ tapping_key \in Record /\ tapping_key.pressed \in BOOLEAN
      /\ tapping_key.count \in Nat /\ (tapping_key.key = NoKey \/ tapping_key.key \in Keys)
  BY RecordFields DEF TypePre
<1>2. CASE tapping_key.key = NoKey
  <2>1. ProcessTapping(r) = Idle(r)
    BY <1>2 DEF ProcessTapping
  <2> QED
    BY <1>2, <2>1, IdleStep
<1>3. CASE tapping_key.key \in Keys /\ tapping_key.pressed /\ tapping_key.count > 0
  <2>1. ProcessTapping(r) = Settled(r)
    BY <1>3, ConstantTypes DEF ProcessTapping
  <2> QED
    BY <1>3, <2>1, SettledStep
<1>4. CASE tapping_key.key \in Keys /\ tapping_key.pressed /\ tapping_key.count = 0
  <2>1. ProcessTapping(r) = IF WithinTerm(tapping_key, r) THEN Unsettled(r)
                            ELSE Outcome(NoRecord, ProcessRecord(kbd, tapping_key), waiting, r, FALSE)
    <3>1. tapping_key.key # NoKey /\ ~(tapping_key.count > 0)
      BY <1>4, ConstantTypes
    <3> QED
      BY <1>4, <3>1 DEF ProcessTapping, Undecided, Held
  <2>2. CASE WithinTerm(tapping_key, r)
    BY <1>4, <2>1, <2>2, UnsettledStep
  <2>3. CASE ~WithinTerm(tapping_key, r)
    BY <1>1, <1>4, <2>1, <2>3, HeldStep
  <2> QED
    BY <2>2, <2>3
<1>5. CASE tapping_key.key \in Keys /\ ~tapping_key.pressed
  <2>1. ProcessTapping(r) = IF WithinTerm(tapping_key, r) THEN Released(r)
                            ELSE Outcome(NoRecord, kbd, waiting, r, FALSE)
    BY <1>5, ConstantTypes DEF ProcessTapping
  <2>2. CASE WithinTerm(tapping_key, r)
    BY <1>5, <2>1, <2>2, ReleasedStep
  <2>3. CASE ~WithinTerm(tapping_key, r)
    <3>1. ASSUME NEW D, NEW M, NEW lost \in BOOLEAN, TapInv(kbd, tapping_key, D, M, lost)
          PROVE  TapInv(kbd, NoRecord, D, M, lost)
      BY <1>5, <3>1, NoRecordType, ConstantTypes, ForgetTap
    <3> QED
      BY <1>1, <2>1, <2>3, <3>1, NoRecordType, KeptStep
  <2> QED
    BY <2>2, <2>3
<1> QED
  BY <1>1, <1>2, <1>3, <1>4, <1>5

-----------------------------------------------------------------------------
\* The steps of the specification.

\* A waiting buffer: events, the oldest first.
Waits(w) == w \in Seq(Record) /\ Sorted(w) /\ \A i \in DOMAIN w : w[i].key \in Keys

LEMMA WaitsAppend ==
    ASSUME NEW w, Waits(w), NEW r \in Record, r.key \in Keys, r.age = 0
    PROVE  Waits(Append(w, r)) /\ Len(Append(w, r)) = Len(w) + 1
<1> DEFINE v == Append(w, r)
           n == Len(w)
<1>1. w \in Seq(Record) /\ \A i \in DOMAIN w : w[i].age \in Nat
  BY RecordFields DEF Waits
<1>2. /\ n \in Nat /\ DOMAIN w = 1..n /\ DOMAIN v = 1..(n + 1) /\ v \in Seq(Record)
      /\ v[n + 1] = r /\ (\A i \in 1..n : v[i] = w[i]) /\ Len(v) = n + 1
  BY <1>1
<1> HIDE DEF v, n
<1>3. \A i \in DOMAIN v : v[i].key \in Keys
  BY <1>2 DEF Waits
<1>4. Sorted(v)
  <2> SUFFICES ASSUME NEW i \in DOMAIN v, NEW j \in DOMAIN v, i < j PROVE v[j].age <= v[i].age
    BY DEF Sorted
  <2>1. i \in DOMAIN w /\ v[i] = w[i]
    BY <1>2
  <2>2. CASE j \in DOMAIN w
    BY <1>2, <2>1, <2>2 DEF Waits, Sorted
  <2>3. CASE j = n + 1
    BY <1>1, <1>2, <2>1, <2>3
  <2> QED
    BY <1>2, <2>2, <2>3
<1> QED
  BY <1>2, <1>3, <1>4 DEF Waits, v, n

LEMMA WaitsTail ==
    ASSUME NEW w, Waits(w), w # <<>>
    PROVE  Waits(Tail(w)) /\ Len(Tail(w)) = Len(w) - 1
<1> DEFINE v == Tail(w)
           n == Len(w)
<1>1. w \in Seq(Record)
  BY DEF Waits
<1>2. /\ n \in Nat \ {0} /\ DOMAIN w = 1..n /\ DOMAIN v = 1..(n - 1) /\ v \in Seq(Record)
      /\ (\A i \in 1..(n - 1) : v[i] = w[i + 1]) /\ Len(v) = n - 1
  BY <1>1
<1> HIDE DEF v, n
<1>3. \A i \in DOMAIN v : i + 1 \in DOMAIN w /\ v[i] = w[i + 1]
  BY <1>2
<1>4. \A i \in DOMAIN v, j \in DOMAIN v : i < j => i + 1 < j + 1
  BY <1>2
<1>5. Sorted(v)
  BY <1>3, <1>4 DEF Waits, Sorted
<1> QED
  BY <1>2, <1>3, <1>5 DEF Waits, v, n

LEMMA WaitsShape ==
    ASSUME Waits(waiting), NEW v, SameShape(v)
    PROVE  Waits(v) /\ Len(v) = Len(waiting)
<1>1. waiting \in Seq(Record) /\ v \in Seq(Record) /\ DOMAIN v = DOMAIN waiting
  BY DEF Waits, SameShape
<1>2. Len(v) = Len(waiting)
  BY <1>1
<1>3. Sorted(v)
  BY DEF Waits, SameShape, Sorted
<1>4. \A i \in DOMAIN v : v[i].key \in Keys
  BY DEF Waits, SameShape
<1> QED
  BY <1>1, <1>2, <1>3, <1>4 DEF Waits

\* The type invariant, part by part.
LEMMA TypeParts ==
    TypeInv <=> /\ kbd \in Keyboard /\ tapping_key \in Record
                /\ Waits(waiting) /\ Len(waiting) < BufferSize
                /\ pc \in {"ready", "replay"} /\ held \subseteq Keys /\ moved \subseteq Keys
                /\ overflowed \in BOOLEAN /\ overtaken \in BOOLEAN
BY DEF TypeInv, TypeOK, Waits, Keyboard

LEMMA TypePartsNext ==
    ASSUME /\ kbd' \in Keyboard /\ tapping_key' \in Record
           /\ Waits(waiting') /\ Len(waiting') < BufferSize
           /\ pc' \in {"ready", "replay"} /\ held' \subseteq Keys /\ moved' \subseteq Keys
           /\ overflowed' \in BOOLEAN /\ overtaken' \in BOOLEAN
    PROVE  TypeInv'
BY DEF TypeInv, TypeOK, Waits, Keyboard

LEMMA TypeIsPre ==
    ASSUME TypeInv
    PROVE  TypePre
BY TypeParts DEF TypePre, Waits

\* Nothing waits.
LEMMA EmptyQueue ==
    ASSUME NEW h, h \subseteq Keys
    PROVE  /\ Waits(<<>>) /\ Len(<<>>) = 0 /\ Queued(<<>>, h)
           /\ Down(<<>>, h) = h /\ Marked(<<>>) = {}
<1> DEFINE w == <<>>
<1>1. w \in Seq(Record) /\ DOMAIN w = {} /\ Len(w) = 0
  OBVIOUS
<1> HIDE DEF w
<1>2. Waits(w) /\ Queued(w, h)
  BY <1>1 DEF Waits, Sorted, Queued, Alternating, LastIsHeld, LastOf, MarkedIsFirst
<1>3. Down(w, h) = h /\ Marked(w) = {}
  BY <1>1 DEF Down, Marked, Absent
<1> QED
  BY <1>1, <1>2, <1>3 DEF w

\* A keyboard on which nothing is on needs no owner.
LEMMA NothingOwned ==
    ASSUME NEW h, NEW A, NEW P, NEW lost \in BOOLEAN, h.codes = {}, h.mods = {},
           lost \/ h.layers = {}
    PROVE  Owned(h, A, P, lost)
BY DEF Owned

\* Before an event, with a clean keyboard counting as a fresh start.
LEMMA FreshStart ==
    ASSUME TypeInv, ~overtaken => KeyInv, ~(overtaken /\ ~Clean)
    PROVE  /\ Queued(waiting, held)
           /\ TapInv(kbd, tapping_key, Down(waiting, held), Marked(waiting), overflowed /\ ~Clean)
<1>1. overtaken \in BOOLEAN /\ overflowed \in BOOLEAN
  BY TypeParts
<1>2. CASE Clean
  <2>1. /\ waiting = <<>> /\ held = {} /\ tapping_key.key = NoKey
        /\ kbd.codes = {} /\ kbd.mods = {} /\ kbd.layers = {}
    BY <1>2 DEF Clean
  <2>2. Queued(waiting, held) /\ Down(waiting, held) = {} /\ Marked(waiting) = {}
    BY <2>1, EmptyQueue
  <2>3. KeyOK(tapping_key, {}, {})
    BY <2>1, ConstantTypes DEF KeyOK
  <2>4. TapInv(kbd, tapping_key, {}, {}, FALSE)
    BY <2>1, <2>3, NothingOwned DEF TapInv
  <2>5. (overflowed /\ ~Clean) = FALSE
    BY <1>2
  <2> QED
    BY <2>2, <2>4, <2>5
<1>3. CASE ~Clean
  <2>1. KeyInv /\ (overflowed /\ ~Clean) = overflowed
    BY <1>1, <1>3
  <2> QED
    BY <2>1 DEF KeyInv
<1> QED
  BY <1>2, <1>3

\* action_tapping_process up to its loop: types.
LEMMA ProcessType ==
    ASSUME TypeInv, NEW r \in Record, r.age = 0, Process(r)
    PROVE  /\ kbd' \in Keyboard /\ tapping_key' \in Record
           /\ Waits(waiting') /\ Len(waiting') < BufferSize
           /\ pc' \in {"ready", "replay"} /\ overflowed' \in BOOLEAN /\ overtaken' \in BOOLEAN
<1> DEFINE o == ProcessTapping(r)
<1>1. TypePre /\ Waits(waiting) /\ Len(waiting) < BufferSize /\ overtaken \in BOOLEAN
      /\ overflowed \in BOOLEAN
  BY TypeIsPre, TypeParts
<1>2. TypeStep(r, o)
  BY <1>1, ProcessTappingStep
<1>3. r.key = NoKey \/ r.key \in Keys
  BY RecordFields
<1>4. /\ pc' = "replay"
      /\ overtaken' = ((overtaken /\ ~Clean) \/ ((o.done \/ o.rec # r) /\ Typed(r)))
      /\ \/ /\ o.done \/ r.key = NoKey
            /\ kbd' = o.kbd /\ tapping_key' = o.tap /\ waiting' = o.waiting
            /\ overflowed' = (overflowed /\ ~Clean)
         \/ /\ ~o.done /\ r.key # NoKey /\ Len(o.waiting) < BufferSize - 1
            /\ kbd' = o.kbd /\ tapping_key' = o.tap /\ waiting' = Append(o.waiting, o.rec)
            /\ overflowed' = (overflowed /\ ~Clean)
         \/ /\ ~o.done /\ r.key # NoKey /\ Len(o.waiting) = BufferSize - 1
            /\ Overflow(o)
  BY DEF Process
<1> HIDE DEF o
<1>5. pc' \in {"ready", "replay"} /\ overtaken' \in BOOLEAN
  BY <1>4
<1>6. SameShape(o.waiting) /\ Waits(o.waiting) /\ Len(o.waiting) = Len(waiting)
  BY <1>1, <1>2, WaitsShape DEF TypeStep
<1>7. o.kbd \in Keyboard /\ o.tap \in Record /\ o.rec \in Record /\ o.rec.key = r.key /\ o.rec.age = 0
  BY <1>2 DEF TypeStep
<1>8. BufferSize \in Nat /\ BufferSize >= 2 /\ Len(waiting) \in Nat
  BY <1>1, TappingAssumption DEF Waits
<1>9. CASE /\ kbd' = o.kbd /\ tapping_key' = o.tap /\ waiting' = o.waiting
           /\ overflowed' = (overflowed /\ ~Clean)
  BY <1>1, <1>5, <1>6, <1>7, <1>9
<1>10. CASE /\ r.key # NoKey /\ Len(o.waiting) < BufferSize - 1
            /\ kbd' = o.kbd /\ tapping_key' = o.tap /\ waiting' = Append(o.waiting, o.rec)
            /\ overflowed' = (overflowed /\ ~Clean)
  <2>1. Waits(waiting') /\ Len(waiting') = Len(o.waiting) + 1
    BY <1>3, <1>6, <1>7, <1>10, WaitsAppend
  <2>2. Len(waiting') < BufferSize
    BY <1>6, <1>8, <1>10, <2>1
  <2>3. overflowed' \in BOOLEAN
    BY <1>1, <1>10
  <2> QED
    BY <1>5, <1>7, <1>10, <2>1, <2>2, <2>3
<1>11. CASE Overflow(o)
  <2>1. /\ kbd' = [o.kbd EXCEPT !.codes = {}, !.mods = {}] /\ waiting' = <<>>
        /\ tapping_key' = NoRecord /\ overflowed' = TRUE
    BY <1>11 DEF Overflow, ClearKeyboard
  <2>2. kbd' \in Keyboard
    BY <1>7, <2>1 DEF Keyboard
  <2>3. Waits(waiting') /\ Len(waiting') = 0
    BY <2>1, EmptyQueue
  <2> QED
    BY <1>5, <1>8, <2>1, <2>2, <2>3, NoRecordType
<1> QED
  BY <1>4, <1>9, <1>10, <1>11

\* The keyboard after an overflow: no key is known to be down.
LEMMA OverflowKeys ==
    ASSUME NEW o, Overflow(o), o.kbd \in Keyboard, NEW g, g \subseteq Keys
    PROVE  /\ Queued(waiting', g)
           /\ TapInv(kbd', tapping_key', Down(waiting', g), Marked(waiting'), overflowed')
<1>1. /\ kbd' = [o.kbd EXCEPT !.codes = {}, !.mods = {}] /\ waiting' = <<>>
      /\ tapping_key' = NoRecord /\ overflowed' = TRUE
  BY DEF Overflow, ClearKeyboard
<1>2. kbd'.codes = {} /\ kbd'.mods = {}
  BY <1>1 DEF Keyboard
<1>3. Queued(waiting', g) /\ Down(waiting', g) = g /\ Marked(waiting') = {}
  BY <1>1, EmptyQueue
<1>4. KeyOK(tapping_key', g, {})
  BY <1>1, NoRecordType, ConstantTypes DEF KeyOK
<1>5. \A A, P : Owned(kbd', A, P, TRUE)
  BY <1>2, NothingOwned
<1> QED
  BY <1>1, <1>3, <1>4, <1>5 DEF TapInv

\* A key event keeps the buffer and the keyboard in order, unless it overtakes a
\* waiting event of its key.
LEMMA EventKeys ==
    ASSUME TypeInv, ~overtaken => KeyInv, NEW r \in Record, r.key \in Keys, r.age = 0, r.count = 0,
           r.pressed <=> r.key \notin held, Process(r), ~overtaken'
    PROVE  LET g == After(held, r)
           IN  /\ Queued(waiting', g)
               /\ TapInv(kbd', tapping_key', Down(waiting', g), Marked(waiting'), overflowed')
<1> DEFINE o    == ProcessTapping(r)
           g    == After(held, r)
           D    == Down(waiting, held)
           M    == Marked(waiting)
           lost == overflowed /\ ~Clean
<1>1. TypePre /\ Waits(waiting) /\ held \subseteq Keys /\ overflowed \in BOOLEAN
  BY TypeIsPre, TypeParts
<1>2. r.key # NoKey /\ r.pressed \in BOOLEAN /\ waiting \in Seq(Record) /\ g \subseteq Keys
      /\ lost \in BOOLEAN
  BY <1>1, RecordFields, ConstantTypes DEF Waits, After
<1>3. /\ overtaken' = ((overtaken /\ ~Clean) \/ ((o.done \/ o.rec # r) /\ Typed(r)))
      /\ \/ /\ o.done
            /\ kbd' = o.kbd /\ tapping_key' = o.tap /\ waiting' = o.waiting
            /\ overflowed' = (overflowed /\ ~Clean)
         \/ /\ ~o.done
            /\ kbd' = o.kbd /\ tapping_key' = o.tap /\ waiting' = Append(o.waiting, o.rec)
            /\ overflowed' = (overflowed /\ ~Clean)
         \/ Overflow(o)
  BY <1>2 DEF Process
<1>4. Queued(waiting, held) /\ TapInv(kbd, tapping_key, D, M, lost)
  BY <1>3, FreshStart
<1> HIDE DEF lost
<1>5. TypeStep(r, o) /\ KeyStep(r, o, D, M, lost)
  BY <1>1, <1>2, <1>4, ProcessTappingStep
<1> HIDE DEF o, g, D, M
<1>6. o.done \/ o.rec # r => Absent(waiting, r.key)
  <2> SUFFICES ASSUME o.done \/ o.rec # r PROVE Absent(waiting, r.key)
    OBVIOUS
  <2>1. ~Typed(r)
    BY <1>3
  <2>2. LastIsHeld(waiting, held)
    BY <1>4 DEF Queued
  <2>3. \A i \in DOMAIN waiting : waiting[i].key = r.key => waiting[i].pressed = r.pressed
    BY <2>1 DEF Typed
  <2> QED
    BY <1>2, <2>2, <2>3, NotTypedAbsent
<1>7. CASE /\ o.done
           /\ kbd' = o.kbd /\ tapping_key' = o.tap /\ waiting' = o.waiting
           /\ overflowed' = (overflowed /\ ~Clean)
  <2>1. Absent(waiting, r.key)
    BY <1>6, <1>7
  <2>2. /\ Queued(waiting, g) /\ Down(waiting, g) = After(D, r)
        /\ r.key \notin M /\ (r.key \in D <=> ~r.pressed)
    BY <1>1, <1>2, <1>4, <2>1, DirectQueue DEF g, D, M
  <2>3. Fits(r, D, M)
    BY <2>2 DEF Fits
  <2>4. DoneKeys(r, o, D, M, lost)
    BY <1>2, <1>5, <1>7, <2>3 DEF KeyStep
  <2>5. ~Scanned(o.waiting, r)
    BY <2>1 DEF Scanned, ScannedAt, Absent
  <2>6. o.waiting = waiting /\ TapInv(o.kbd, o.tap, After(D, r), M \ {r.key}, lost)
    BY <2>4, <2>5 DEF DoneKeys
  <2>7. M \ {r.key} = M
    BY <2>2
  <2>8. TapInv(o.kbd, o.tap, Down(waiting, g), M, lost)
    BY <2>2, <2>6, <2>7
  <2> QED
    BY <1>7, <2>2, <2>6, <2>8 DEF g, M, lost
<1>8. CASE /\ ~o.done
           /\ kbd' = o.kbd /\ tapping_key' = o.tap /\ waiting' = Append(o.waiting, o.rec)
           /\ overflowed' = (overflowed /\ ~Clean)
  <2>1. KeptKeys(r, o, D, M, lost)
    BY <1>5, <1>8 DEF KeyStep
  <2>2. o.waiting = waiting
    BY <2>1 DEF KeptKeys
  <2>3. CASE o.rec = r /\ TapInv(o.kbd, o.tap, D, M, lost)
    <3>1. waiting' = Append(waiting, r)
      BY <1>8, <2>2, <2>3
    <3>2. /\ Queued(Append(waiting, r), g) /\ Down(Append(waiting, r), g) = D
          /\ Marked(Append(waiting, r)) = M
      BY <1>1, <1>2, <1>4, KeepQueue DEF g, D, M
    <3> QED
      BY <1>8, <2>3, <3>1, <3>2 DEF g, lost
  <2>4. CASE /\ ~r.pressed /\ o.rec.count > 0
             /\ TapInv(o.kbd, o.tap, D, M \cup {r.key}, lost)
    <3> DEFINE q == o.rec
    <3>1. waiting' = Append(waiting, q)
      BY <1>8, <2>2
    <3>2. q \in Record /\ q.key = r.key /\ q.pressed = r.pressed
      BY <1>5 DEF TypeStep
    <3>3. Absent(waiting, q.key) /\ q.count > 0
      BY <1>6, <2>4, <3>2
    <3> HIDE DEF q
    <3>4. q.key \in Keys /\ q.pressed \in BOOLEAN /\ q.count \in Nat /\ ~q.pressed
          /\ (q.pressed <=> q.key \notin held)
      BY <1>2, <2>4, <3>2, RecordFields
    <3>5. After(held, q) = g
      BY <3>2 DEF After, g
    <3>6. /\ Queued(Append(waiting, q), After(held, q))
          /\ Down(Append(waiting, q), After(held, q)) = D
          /\ Marked(Append(waiting, q)) = M \cup {q.key}
      BY <1>1, <1>2, <1>4, <3>2, <3>3, <3>4, KeepQueue DEF D, M
    <3>7. TapInv(o.kbd, o.tap, D, M \cup {q.key}, lost)
      BY <2>4, <3>2
    <3> QED
      BY <1>8, <3>1, <3>5, <3>6, <3>7 DEF g, lost
  <2> QED
    BY <2>1, <2>3, <2>4 DEF KeptKeys
<1>9. CASE Overflow(o)
  <2>1. o.kbd \in Keyboard
    BY <1>5 DEF TypeStep
  <2> QED
    BY <1>2, <1>9, <2>1, OverflowKeys DEF g
<1> QED
  BY <1>3, <1>7, <1>8, <1>9 DEF g

\* A tick only settles the tapping key.
LEMMA TickKeys ==
    ASSUME TypeInv, ~overtaken => KeyInv, Process(Tick), ~overtaken'
    PROVE  /\ Queued(waiting', held)
           /\ TapInv(kbd', tapping_key', Down(waiting', held), Marked(waiting'), overflowed')
<1> DEFINE o    == ProcessTapping(Tick)
           D    == Down(waiting, held)
           M    == Marked(waiting)
           lost == overflowed /\ ~Clean
<1>1. TypePre /\ Tick \in Record /\ Tick.key = NoKey /\ overflowed \in BOOLEAN
  BY TypeIsPre, TypeParts, NoRecordType DEF Tick
<1>2. /\ overtaken' = ((overtaken /\ ~Clean) \/ ((o.done \/ o.rec # Tick) /\ Typed(Tick)))
      /\ kbd' = o.kbd /\ tapping_key' = o.tap /\ waiting' = o.waiting
      /\ overflowed' = (overflowed /\ ~Clean)
  BY <1>1 DEF Process
<1>3. Queued(waiting, held) /\ TapInv(kbd, tapping_key, D, M, lost)
  BY <1>2, FreshStart
<1>4. lost \in BOOLEAN
  BY <1>1
<1> HIDE DEF lost
<1>5. KeyStep(Tick, o, D, M, lost)
  BY <1>1, <1>3, <1>4, ProcessTappingStep
<1> HIDE DEF o, D, M
<1>6. KeptKeys(Tick, o, D, M, lost)
  BY <1>1, <1>5 DEF KeyStep
<1>7. o.waiting = waiting /\ TapInv(o.kbd, o.tap, D, M, lost)
  BY <1>1, <1>6, ConstantTypes DEF KeptKeys
<1> QED
  BY <1>2, <1>3, <1>7 DEF D, M, lost

\* The release that waiting_buffer_scan_tap marks is the next event of its key.
LEMMA ScanIsNext ==
    ASSUME Waits(waiting), waiting # <<>>, Queued(waiting, held), held \subseteq Keys,
           waiting[1].pressed, NEW i, NEW v, ScannedAt(v, waiting[1], i)
    PROVE  i - 1 \in DOMAIN Tail(waiting) /\ FirstOf(Tail(waiting), waiting[1].key, i - 1)
<1> DEFINE w == waiting
           u == Tail(waiting)
           r == waiting[1]
           n == Len(waiting)
<1>1. waiting \in Seq(Record) /\ (\A j \in DOMAIN waiting : waiting[j] \in Record)
  BY DEF Waits
<1>2. /\ n \in Nat \ {0} /\ DOMAIN w = 1..n /\ DOMAIN u = 1..(n - 1) /\ u \in Seq(Record)
      /\ (\A j \in 1..(n - 1) : u[j] = w[j + 1])
  BY <1>1
<1>3. 1 \in DOMAIN w /\ \A j \in DOMAIN w : w[j].pressed \in BOOLEAN /\ w[j].age \in Nat
                                            /\ w[j].key \in Keys /\ w[j].count \in Nat
  BY <1>1, <1>2, RecordFields DEF Waits
<1>4. r.key \in Down(u, held)
  <2>1. Down(u, held) = After(Down(w, held), r)
    BY <1>1, <1>3, TakeQueue
  <2> QED
    BY <2>1 DEF After
<1> HIDE DEF u, n
<1>5. /\ i \in DOMAIN w /\ w[i].key = r.key /\ ~w[i].pressed /\ WithinTerm(r, w[i])
      /\ \A j \in DOMAIN w : w[j].key = r.key /\ ~w[j].pressed /\ WithinTerm(r, w[j]) => i <= j
  BY DEF ScannedAt
<1>6. i - 1 \in DOMAIN u /\ (i - 1) + 1 = i /\ u[i - 1] = w[i] /\ i \in Nat
  BY <1>2, <1>5
<1>7. ~Absent(u, r.key)
  BY <1>5, <1>6 DEF Absent
<1>8. PICK m \in DOMAIN u : FirstOf(u, r.key, m)
  BY <1>2, <1>7, FirstExists
<1>9. ~u[m].pressed
  BY <1>2, <1>3, <1>4, <1>8, DownOf
<1>10. m \in Nat /\ m + 1 \in DOMAIN w /\ u[m] = w[m + 1] /\ m <= i - 1
  BY <1>2, <1>5, <1>6, <1>8, SMTT(60) DEF FirstOf
<1>11. w[m + 1].key = r.key /\ ~w[m + 1].pressed
  BY <1>8, <1>9, <1>10 DEF FirstOf
<1>12. WithinTerm(r, w[m + 1])
  <2>1. r.age - w[i].age \in 0..(TappingTerm - 1)
    BY <1>5 DEF WithinTerm
  <2>2. w[i].age <= w[m + 1].age
    BY <1>3, <1>5, <1>6, <1>10 DEF Waits, Sorted
  <2>3. w[m + 1].age <= r.age
    BY <1>3, <1>10 DEF Waits, Sorted
  <2>4. r.age \in Nat /\ w[i].age \in Nat /\ w[m + 1].age \in Nat /\ TappingTerm \in Nat
    BY <1>3, <1>5, <1>10, TappingAssumption
  <2>5. r.age - w[m + 1].age \in 0..(TappingTerm - 1)
    BY <2>1, <2>2, <2>3, <2>4
  <2> QED
    BY <2>5 DEF WithinTerm
<1>13. m = i - 1
  BY <1>5, <1>6, <1>10, <1>11, <1>12
<1> QED
  BY <1>6, <1>8, <1>13 DEF u

\* The oldest waiting event is handled or waits on.
LEMMA ReplayType ==
    ASSUME TypeInv, Replay
    PROVE  TypeInv'
<1>1. TypePre /\ Waits(waiting) /\ Len(waiting) < BufferSize /\ BufferSize \in Nat
  BY TypeIsPre, TypeParts, TappingAssumption
<1>2. UNCHANGED <<held, moved, overflowed, overtaken>>
  BY DEF Replay
<1>3. /\ held' \subseteq Keys /\ moved' \subseteq Keys
      /\ overflowed' \in BOOLEAN /\ overtaken' \in BOOLEAN
  BY <1>2, TypeParts
<1>4. CASE waiting = <<>> /\ pc' = "ready" /\ UNCHANGED <<kbd, tapping_key, waiting>>
  <2>1. /\ kbd' \in Keyboard /\ tapping_key' \in Record /\ Waits(waiting')
        /\ Len(waiting') < BufferSize /\ pc' \in {"ready", "replay"}
    BY <1>4, TypeParts
  <2> QED
    BY <1>3, <2>1, TypePartsNext
<1>5. CASE /\ waiting # <<>>
           /\ \E o \in {ProcessTapping(Head(waiting))} :
                 /\ kbd' = o.kbd /\ tapping_key' = o.tap
                 /\ \/ o.done  /\ waiting' = Tail(o.waiting) /\ UNCHANGED pc
                    \/ ~o.done /\ waiting' = [o.waiting EXCEPT ![1] = o.rec] /\ pc' = "ready"
  <2> DEFINE r == Head(waiting)
             o == ProcessTapping(r)
  <2>1. waiting \in Seq(Record) /\ r = waiting[1] /\ 1 \in DOMAIN waiting /\ r \in Record
    BY <1>1, <1>5 DEF Waits
  <2>2. TypeStep(r, o)
    BY <1>1, <2>1, ProcessTappingStep
  <2>3. /\ kbd' = o.kbd /\ tapping_key' = o.tap
        /\ \/ o.done  /\ waiting' = Tail(o.waiting) /\ UNCHANGED pc
           \/ ~o.done /\ waiting' = [o.waiting EXCEPT ![1] = o.rec] /\ pc' = "ready"
    BY <1>5
  <2> HIDE DEF o, r
  <2>4. /\ kbd' \in Keyboard /\ tapping_key' \in Record /\ o.rec \in Record
        /\ o.rec.key = r.key /\ o.rec.age = r.age /\ SameShape(o.waiting)
    BY <2>2, <2>3 DEF TypeStep
  <2>5. Waits(o.waiting) /\ Len(o.waiting) = Len(waiting) /\ Len(waiting) \in Nat
    BY <1>1, <2>1, <2>4, WaitsShape
  <2>6. pc' \in {"ready", "replay"}
    BY <2>3, TypeParts
  <2>7. CASE waiting' = Tail(o.waiting)
    <3>1. o.waiting # <<>>
      BY <2>1, <2>4 DEF SameShape
    <3>2. Waits(waiting') /\ Len(waiting') = Len(waiting) - 1
      BY <2>5, <2>7, <3>1, WaitsTail
    <3>3. Len(waiting') < BufferSize
      BY <1>1, <2>5, <3>2
    <3> QED
      BY <1>3, <2>4, <2>6, <3>2, <3>3, TypePartsNext
  <2>8. CASE waiting' = [o.waiting EXCEPT ![1] = o.rec]
    <3> DEFINE v == o.waiting
               q == o.rec
               u == [v EXCEPT ![1] = q]
    <3>1. v \in Seq(Record) /\ DOMAIN v = DOMAIN waiting /\ q \in Record
          /\ v[1].key = q.key /\ v[1].pressed = waiting[1].pressed /\ v[1].age = q.age
      BY <2>1, <2>4 DEF SameShape
    <3> HIDE DEF v, q
    <3>2. /\ u \in Seq(Record) /\ DOMAIN u = DOMAIN v /\ u[1] = q
          /\ \A i \in DOMAIN v : i # 1 => u[i] = v[i]
      BY <2>1, <3>1
    <3>3. Len(u) = Len(v)
      BY <3>1, <3>2
    <3> HIDE DEF u
    <3>4. \A i \in DOMAIN v : u[i].key = v[i].key /\ u[i].age = v[i].age
      BY <3>1, <3>2
    <3>5. Waits(v)
      BY <2>5 DEF v
    <3>6. Waits(u)
      BY <3>2, <3>4, <3>5 DEF Waits, Sorted
    <3>7. Waits(waiting') /\ Len(waiting') < BufferSize
      BY <1>1, <2>5, <2>8, <3>3, <3>6 DEF u, v, q
    <3> QED
      BY <1>3, <2>4, <2>6, <3>7, TypePartsNext
  <2> QED
    BY <2>3, <2>7, <2>8
<1> QED
  BY <1>4, <1>5 DEF Replay

LEMMA ReplayKeys ==
    ASSUME TypeInv, KeyInv, Replay
    PROVE  KeyInv'
<1>1. TypePre /\ Waits(waiting) /\ held \subseteq Keys /\ overflowed \in BOOLEAN
  BY TypeIsPre, TypeParts
<1>2. held' = held /\ overflowed' = overflowed
  BY DEF Replay
<1>3. CASE waiting = <<>> /\ UNCHANGED <<kbd, tapping_key, waiting>>
  BY <1>2, <1>3 DEF KeyInv
<1>4. CASE /\ waiting # <<>>
           /\ \E o \in {ProcessTapping(Head(waiting))} :
                 /\ kbd' = o.kbd /\ tapping_key' = o.tap
                 /\ \/ o.done  /\ waiting' = Tail(o.waiting) /\ UNCHANGED pc
                    \/ ~o.done /\ waiting' = [o.waiting EXCEPT ![1] = o.rec] /\ pc' = "ready"
  <2> DEFINE r == waiting[1]
             o == ProcessTapping(r)
             D == Down(waiting, held)
             M == Marked(waiting)
  <2>1. waiting \in Seq(Record) /\ Head(waiting) = r /\ 1 \in DOMAIN waiting /\ r \in Record
        /\ r.key \in Keys /\ r.count \in Nat /\ r.pressed \in BOOLEAN /\ r.key # NoKey
        /\ \A i \in DOMAIN waiting : waiting[i].pressed \in BOOLEAN
    BY <1>1, <1>4, RecordFields, ConstantTypes DEF Waits
  <2>2. /\ kbd' = o.kbd /\ tapping_key' = o.tap
        /\ \/ o.done  /\ waiting' = Tail(o.waiting)
           \/ ~o.done /\ waiting' = [o.waiting EXCEPT ![1] = o.rec]
    BY <1>4, <2>1
  <2>3. Queued(waiting, held) /\ TapInv(kbd, tapping_key, D, M, overflowed)
    BY DEF KeyInv
  <2>4. /\ Queued(Tail(waiting), held)
        /\ Down(Tail(waiting), held) = After(D, r)
        /\ Marked(Tail(waiting)) = M \ {r.key}
        /\ (r.key \in D <=> ~r.pressed) /\ (r.key \in M <=> r.count > 0)
        /\ FirstOf(waiting, r.key, 1)
    BY <1>4, <2>1, <2>3, TakeQueue
  <2>5. Fits(r, D, M)
    BY <2>4 DEF Fits
  <2>6. TypeStep(r, o) /\ KeyStep(r, o, D, M, overflowed)
    BY <1>1, <2>1, <2>3, ProcessTappingStep
  <2> HIDE DEF o, r, D, M
  <2>7. CASE o.done /\ waiting' = Tail(o.waiting)
    <3>1. DoneKeys(r, o, D, M, overflowed)
      BY <2>1, <2>5, <2>6, <2>7 DEF KeyStep
    <3>2. CASE o.waiting = waiting /\ TapInv(o.kbd, o.tap, After(D, r), M \ {r.key}, overflowed)
      BY <1>2, <2>2, <2>4, <2>7, <3>2 DEF KeyInv
    <3>3. CASE /\ Scanned(o.waiting, r) /\ r.pressed
               /\ TapInv(o.kbd, o.tap, After(D, r), M \cup {r.key}, overflowed)
      <4> DEFINE v == o.waiting
                 w == Tail(waiting)
                 x == Tail(o.waiting)
      <4>1. PICK i : ScannedAt(v, r, i)
        BY <3>3 DEF Scanned
      <4>2. i - 1 \in DOMAIN w /\ FirstOf(w, r.key, i - 1)
        BY <1>1, <1>4, <2>3, <3>3, <4>1, ScanIsNext DEF r
      <4>3. /\ i \in DOMAIN waiting /\ v = [waiting EXCEPT ![i].count = 1]
            /\ waiting[i].key = r.key /\ ~waiting[i].pressed
        BY <4>1 DEF ScannedAt
      <4>4. SameShape(v)
        BY <2>6 DEF TypeStep
      <4>5. v \in Seq(Record) /\ DOMAIN v = DOMAIN waiting
            /\ \A j \in DOMAIN waiting : /\ v[j].key = waiting[j].key
                                         /\ v[j].pressed = waiting[j].pressed
        BY <4>4 DEF SameShape
      <4>6. \A j \in DOMAIN waiting : j # i => v[j] = waiting[j]
        BY <4>3
      <4>7. v[i].count = 1
        <5>1. waiting[i] \in Record
          BY <2>1, <4>3
        <5> QED
          BY <4>3, <5>1 DEF Record
      <4> HIDE DEF v
      <4>8. /\ w \in Seq(Record) /\ x \in Seq(Record) /\ DOMAIN x = DOMAIN w /\ i \in Nat
            /\ \A j \in DOMAIN w : j + 1 \in DOMAIN waiting /\ w[j] = waiting[j + 1]
                                   /\ x[j] = v[j + 1] /\ j \in Nat
        <5>1. v # <<>> /\ Len(v) = Len(waiting) /\ Len(waiting) \in Nat
          BY <2>1, <4>5
        <5>2. x = Tail(v)
          BY DEF v
        <5> HIDE DEF x
        <5> QED
          BY <1>4, <2>1, <4>3, <4>5, <5>1, <5>2
      <4> HIDE DEF w, x
      <4>9. (i - 1) + 1 = i /\ \A j \in DOMAIN w : j # i - 1 => j + 1 # i
        BY <4>8
      <4>10. \A j \in DOMAIN w : /\ x[j].key = w[j].key /\ x[j].pressed = w[j].pressed
                                 /\ j # i - 1 => x[j].count = w[j].count
        BY <4>5, <4>6, <4>8, <4>9
      <4>11. w[i - 1].key = r.key /\ ~w[i - 1].pressed /\ x[i - 1].count > 0 /\ w[i - 1].key \in Keys
        <5>1. w[i - 1] = waiting[i] /\ x[i - 1] = v[i]
          BY <4>2, <4>8, <4>9
        <5> QED
          BY <2>1, <4>3, <4>7, <5>1
      <4>12. Queued(w, held) /\ FirstOf(w, w[i - 1].key, i - 1)
        BY <2>4, <4>2, <4>11 DEF w
      <4>13. /\ Queued(x, held)
             /\ Down(x, held) = Down(w, held) /\ Marked(x) = Marked(w) \cup {w[i - 1].key}
        BY <4>2, <4>8, <4>10, <4>11, <4>12, MarkQueue
      <4>14. Down(x, held) = After(D, r) /\ Marked(x) = M \cup {r.key}
        BY <2>4, <4>11, <4>13 DEF w
      <4>15. waiting' = x
        BY <2>7 DEF x
      <4> QED
        BY <1>2, <2>2, <3>3, <4>13, <4>14, <4>15 DEF KeyInv
    <3> QED
      BY <3>1, <3>2, <3>3 DEF DoneKeys
  <2>8. CASE ~o.done /\ waiting' = [o.waiting EXCEPT ![1] = o.rec]
    <3>1. KeptKeys(r, o, D, M, overflowed)
      BY <2>6, <2>8 DEF KeyStep
    <3>2. o.waiting = waiting
      BY <3>1 DEF KeptKeys
    <3>3. CASE o.rec = r /\ TapInv(o.kbd, o.tap, D, M, overflowed)
      <4>1. waiting' = waiting
        BY <2>1, <2>8, <3>2, <3>3 DEF r
      <4> QED
        BY <1>2, <2>2, <2>3, <3>3, <4>1 DEF KeyInv, D, M
    <3>4. CASE /\ ~r.pressed /\ o.rec.count > 0
               /\ TapInv(o.kbd, o.tap, D, M \cup {r.key}, overflowed)
      <4> DEFINE x == [waiting EXCEPT ![1] = o.rec]
      <4>1. o.rec \in Record /\ o.rec.key = r.key /\ o.rec.pressed = r.pressed
        BY <2>6 DEF TypeStep
      <4>2. /\ x \in Seq(Record) /\ DOMAIN x = DOMAIN waiting /\ x[1] = o.rec
            /\ \A j \in DOMAIN waiting : j # 1 => x[j] = waiting[j]
        BY <2>1, <4>1
      <4>3. waiting' = x
        BY <2>8, <3>2
      <4> HIDE DEF x
      <4>4. waiting[1].key \in Keys /\ FirstOf(waiting, waiting[1].key, 1) /\ ~waiting[1].pressed
            /\ x[1].count > 0 /\ waiting[1].key = r.key
        BY <2>1, <2>4, <3>4, <4>2 DEF r
      <4>5. \A j \in DOMAIN waiting : /\ x[j].key = waiting[j].key /\ x[j].pressed = waiting[j].pressed
                                      /\ j # 1 => x[j].count = waiting[j].count
        BY <4>1, <4>2 DEF r
      <4>6. /\ Queued(x, held) /\ Down(x, held) = Down(waiting, held)
            /\ Marked(x) = Marked(waiting) \cup {waiting[1].key}
        BY <2>1, <2>3, <4>2, <4>4, <4>5, MarkQueue
      <4> QED
        BY <1>2, <2>2, <3>4, <4>3, <4>4, <4>6 DEF KeyInv, D, M
    <3> QED
      BY <3>1, <3>3, <3>4 DEF KeptKeys
  <2> QED
    BY <2>2, <2>7, <2>8
<1> QED
  BY <1>3, <1>4 DEF Replay

\* A millisecond passes.
LEMMA ElapseKeeps ==
    ASSUME TypeInv, Elapse
    PROVE  TypeInv' /\ (KeyInv => KeyInv')
<1> DEFINE w == waiting
           v == waiting'
           t == tapping_key
           u == tapping_key'
<1>1. /\ kbd \in Keyboard /\ t \in Record /\ Waits(w) /\ Len(w) < BufferSize
      /\ overflowed \in BOOLEAN
  BY TypeParts
<1>2. w \in Seq(Record) /\ MaxAge \in Nat
  BY <1>1, ConstantTypes DEF Waits
<1>3. /\ u = Older(t) /\ v = [i \in DOMAIN w |-> Older(w[i])]
      /\ UNCHANGED <<kbd, pc, held, moved, overflowed, overtaken>>
      /\ \A r \in {t} \cup Range(w) : r.age < MaxAge
  BY DEF Elapse
<1>4. ASSUME NEW r \in Record, r.age < MaxAge
      PROVE  /\ Older(r) \in Record /\ Older(r).key = r.key /\ Older(r).pressed = r.pressed
             /\ Older(r).count = r.count
             /\ r.key \in Keys => Older(r).age = r.age + 1
  <2>1. CASE r.key = NoKey
    BY <2>1, ConstantTypes DEF Older
  <2>2. CASE r.key # NoKey
    <3>1. r.age + 1 \in 0..MaxAge
      BY <1>2, <1>4, RecordFields
    <3> QED
      BY <2>2, <3>1 DEF Older, Record
  <2> QED
    BY <2>1, <2>2
<1>5. u \in Record /\ u.key = t.key /\ u.pressed = t.pressed /\ u.count = t.count
  BY <1>1, <1>3, <1>4
<1>6. ASSUME NEW i \in DOMAIN w
      PROVE  /\ v[i] \in Record /\ v[i].key = w[i].key /\ v[i].pressed = w[i].pressed
             /\ v[i].count = w[i].count /\ v[i].age = w[i].age + 1
  <2>1. w[i] \in Range(w)
    BY DEF Range
  <2>2. w[i] \in Record /\ w[i].age < MaxAge /\ w[i].key \in Keys /\ v[i] = Older(w[i])
    BY <1>1, <1>2, <1>3, <2>1 DEF Waits
  <2> QED
    BY <1>4, <2>2
<1>7. v \in Seq(Record) /\ DOMAIN v = DOMAIN w /\ Len(v) = Len(w)
  <2>1. Len(w) \in Nat /\ DOMAIN w = 1..Len(w) /\ v = [i \in 1..Len(w) |-> v[i]]
    BY <1>2, <1>3
  <2>2. \A i \in 1..Len(w) : v[i] \in Record
    BY <1>6, <2>1
  <2> HIDE DEF v
  <2> QED
    BY <2>1, <2>2
<1>8. Waits(v)
  <2>1. \A i, j \in DOMAIN v : i < j => v[j].age <= v[i].age
    <3> SUFFICES ASSUME NEW i \in DOMAIN v, NEW j \in DOMAIN v, i < j PROVE v[j].age <= v[i].age
      OBVIOUS
    <3>1. w[j].age <= w[i].age
      BY <1>1, <1>7 DEF Waits, Sorted
    <3>2. w[i].age \in Nat /\ w[j].age \in Nat
      BY <1>2, <1>7, RecordFields
    <3>3. v[i].age = w[i].age + 1 /\ v[j].age = w[j].age + 1
      BY <1>6, <1>7
    <3> QED
      BY <3>1, <3>2, <3>3
  <2>2. \A i \in DOMAIN v : v[i].key \in Keys
    BY <1>1, <1>6, <1>7 DEF Waits
  <2> QED
    BY <1>7, <2>1, <2>2 DEF Waits, Sorted
<1>9. TypeInv'
  BY <1>1, <1>3, <1>5, <1>7, <1>8, TypeParts, TypePartsNext
<1>10. ASSUME KeyInv PROVE KeyInv'
  <2> DEFINE D == Down(w, held)
             M == Marked(w)
  <2>1. Queued(w, held) /\ TapInv(kbd, t, D, M, overflowed)
    BY <1>10 DEF KeyInv
  <2> HIDE DEF w, v, t, u
  <2>2. Queued(v, held) /\ Down(v, held) = Down(w, held) /\ Marked(v) = Marked(w)
    <3>1. v \in Seq(Record) /\ w \in Seq(Record) /\ DOMAIN v = DOMAIN w
          /\ \A i \in DOMAIN w : /\ v[i].key = w[i].key /\ v[i].pressed = w[i].pressed
                                 /\ v[i].count = w[i].count
      BY <1>2, <1>6, <1>7
    <3> QED
      BY <2>1, <3>1, SameQueue
  <2> HIDE DEF D, M
  <2>3. u.key = t.key /\ (u.pressed <=> t.pressed) /\ u.count = t.count
    BY <1>5
  <2>4. TapInv(kbd, u, D, M, overflowed)
    BY <1>1, <2>1, <2>3, SameTap
  <2>5. TapInv(kbd, u, Down(v, held), Marked(v), overflowed) /\ Queued(v, held)
    BY <2>2, <2>4 DEF D, M
  <2> QED
    BY <1>3, <2>5 DEF KeyInv, u, v
<1> QED
  BY <1>9, <1>10

LEMMA NewEventFields ==
    ASSUME NEW k \in Keys, NEW b \in BOOLEAN
    PROVE  LET r == NewEvent(k, b)
           IN  /\ r \in Record /\ r.key = k /\ r.pressed = b /\ r.age = 0 /\ r.count = 0
               /\ \A h : Toggled(h, k, b) = After(h, r)
BY ConstantTypes DEF NewEvent, Record, Toggled, After

LEMMA InvInit ==
    ASSUME Init
    PROVE  Inv
<1>1. /\ kbd = InitKeyboard /\ tapping_key = NoRecord /\ waiting = <<>> /\ pc = "ready"
      /\ held = {} /\ moved = {} /\ overflowed = FALSE /\ overtaken = FALSE
  BY DEF Init
<1>2. kbd \in Keyboard /\ kbd.codes = {} /\ kbd.mods = {} /\ kbd.layers = {}
  BY <1>1, KeymapAssumption DEF InitKeyboard, Keyboard
<1>3. /\ Waits(waiting) /\ Len(waiting) < BufferSize /\ Queued(waiting, held)
      /\ Down(waiting, held) = {} /\ Marked(waiting) = {}
  BY <1>1, EmptyQueue, TappingAssumption
<1>4. TypeInv
  BY <1>1, <1>2, <1>3, NoRecordType, TypeParts
<1>5. KeyOK(tapping_key, {}, {})
  BY <1>1, NoRecordType DEF KeyOK
<1>6. KeyInv
  BY <1>1, <1>2, <1>3, <1>5, NothingOwned DEF KeyInv, TapInv
<1> QED
  BY <1>4, <1>6 DEF Inv

LEMMA InvNext ==
    ASSUME Inv, [Next]_vars
    PROVE  Inv'
<1>1. TypeInv /\ (~overtaken => KeyInv)
  BY DEF Inv
<1>2. ASSUME NEW k \in Keys, KeyEvent(k) PROVE Inv'
  <2> DEFINE b == k \notin held
             r == NewEvent(k, b)
  <2>1. /\ Process(r) /\ held' = Toggled(held, k, b) /\ moved' = moved \cup {k}
    BY <1>2 DEF KeyEvent
  <2>2. b \in BOOLEAN /\ (b <=> k \notin held)
    OBVIOUS
  <2> HIDE DEF b
  <2>3. /\ r \in Record /\ r.key = k /\ r.pressed = b /\ r.age = 0 /\ r.count = 0
        /\ Toggled(held, k, b) = After(held, r)
    BY <2>2, NewEventFields
  <2> HIDE DEF r
  <2>4. /\ kbd' \in Keyboard /\ tapping_key' \in Record
        /\ Waits(waiting') /\ Len(waiting') < BufferSize
        /\ pc' \in {"ready", "replay"} /\ overflowed' \in BOOLEAN /\ overtaken' \in BOOLEAN
    BY <1>1, <2>1, <2>3, ProcessType
  <2>5. held' \subseteq Keys /\ moved' \subseteq Keys
    BY <1>1, <2>1, TypeParts DEF Toggled
  <2>6. TypeInv'
    BY <2>4, <2>5, TypePartsNext
  <2>7. ASSUME ~overtaken' PROVE KeyInv'
    <3>1. r.key \in Keys /\ (r.pressed <=> r.key \notin held) /\ held' = After(held, r)
      BY <2>1, <2>2, <2>3
    <3>2. /\ Queued(waiting', held')
          /\ TapInv(kbd', tapping_key', Down(waiting', held'), Marked(waiting'), overflowed')
      BY <1>1, <2>1, <2>3, <2>7, <3>1, EventKeys
    <3> QED
      BY <3>2 DEF KeyInv
  <2> QED
    BY <2>6, <2>7 DEF Inv
<1>3. CASE TickEvent
  <2>1. Process(Tick) /\ moved' = {} /\ held' = held
    BY <1>3 DEF TickEvent
  <2>2. Tick \in Record /\ Tick.age = 0
    BY NoRecordType DEF Tick, NoRecord
  <2>3. /\ kbd' \in Keyboard /\ tapping_key' \in Record
        /\ Waits(waiting') /\ Len(waiting') < BufferSize
        /\ pc' \in {"ready", "replay"} /\ overflowed' \in BOOLEAN /\ overtaken' \in BOOLEAN
    BY <1>1, <2>1, <2>2, ProcessType
  <2>4. TypeInv'
    BY <1>1, <2>1, <2>3, TypeParts, TypePartsNext
  <2>5. ~overtaken' => KeyInv'
    BY <1>1, <2>1, TickKeys DEF KeyInv
  <2> QED
    BY <2>4, <2>5 DEF Inv
<1>4. CASE Replay
  <2>1. overtaken' = overtaken
    BY <1>4 DEF Replay
  <2> QED
    BY <1>1, <1>4, <2>1, ReplayType, ReplayKeys DEF Inv
<1>5. CASE Elapse
  <2>1. overtaken' = overtaken
    BY <1>5 DEF Elapse
  <2> QED
    BY <1>1, <1>5, <2>1, ElapseKeeps DEF Inv
<1>6. CASE UNCHANGED vars
  <2>1. UNCHANGED <<kbd, tapping_key, waiting, pc, held, moved, overflowed, overtaken>>
    BY <1>6 DEF vars
  <2>2. TypeInv'
    BY <1>1, <2>1, TypeParts, TypePartsNext
  <2>3. KeyInv => KeyInv'
    BY <2>1 DEF KeyInv
  <2> QED
    BY <1>1, <2>1, <2>2, <2>3 DEF Inv
<1> QED
  BY <1>2, <1>3, <1>4, <1>5, <1>6 DEF Next

\* Whatever keys are pressed and released at whatever times, and however late the
\* main loop is, action_tapping.c keeps its types: the waiting ring always has a
\* free slot, a tap count never exceeds its limit, and the layers that
\* source_layers_cache remembers exist.
THEOREM TypeCorrect == Spec => []TypeOK
<1>1. Init => Inv
  BY InvInit
<1>2. Inv /\ [Next]_vars => Inv'
  BY InvNext
<1>3. Inv => TypeOK
  BY DEF Inv, TypeInv
<1> QED
  BY <1>1, <1>2, <1>3, PTL DEF Spec

\* Nothing stays pressed.  Everything that action.c has switched on for a key is
\* switched off again by the release that process_tapping passes on: when every
\* key is up and no event waits, no code and no modifier is in the report and no
\* layer is on, unless the buffer has overflowed (layers) or an event has been
\* handled or marked as a tap ahead of a waiting event of its key.
THEOREM NothingStaysPressed == Spec => []NothingStuck
<1>1. Init => Inv
  BY InvInit
<1>2. Inv /\ [Next]_vars => Inv'
  BY InvNext
<1>3. Inv => NothingStuck
  <2> SUFFICES ASSUME Inv, AtRest, ~overtaken
               PROVE  /\ kbd.codes = {} /\ kbd.mods = {}
                      /\ kbd.layers = {} \/ overflowed
    BY DEF NothingStuck
  <2>1. TypeInv /\ KeyInv /\ waiting = <<>> /\ held = {}
    BY DEF Inv, AtRest
  <2>2. kbd \in Keyboard /\ overflowed \in BOOLEAN
    BY <2>1, TypeParts
  <2>3. Down(waiting, held) = {}
    BY <2>1, EmptyQueue
  <2>4. Owned(kbd, {}, Tapped(tapping_key, Marked(waiting)), overflowed)
    BY <2>1, <2>3 DEF KeyInv, TapInv, Active
  <2>5. kbd.codes \subseteq (Keys \X Layers) /\ \A k \in Keys, l \in Layers : <<k, l>> \notin kbd.codes
    BY <2>2, <2>4 DEF Keyboard, Owned
  <2>6. kbd.codes = {}
    BY <2>5
  <2>7. kbd.mods = {} /\ (kbd.layers = {} \/ overflowed)
    BY <2>4 DEF Owned
  <2> QED
    BY <2>6, <2>7
<1> QED
  BY <1>1, <1>2, <1>3, PTL DEF Spec
=============================================================================
