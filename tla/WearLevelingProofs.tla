------------------------- MODULE WearLevelingProofs -------------------------
(***************************************************************************)
(* Proofs about WearLeveling and WearLevelingRecovery, for every store     *)
(* size, word size, sector size and set of requests, with any number of    *)
(* driver failures and power losses.                                       *)
(*                                                                         *)
(*   types, room, lock     TypeCorrect, AppendsInBounds, WritesUnlocked    *)
(*   restart               RestartReproduces                               *)
(*   durability            Durable, DurableInDoubleWords                   *)
(*   refinement            Refinement                                      *)
(***************************************************************************)
EXTENDS WearLevelingRecovery, SequenceTheorems, WellFoundedInduction, TLAPS

\* As long as no driver call failed, the log has room whenever a call has
\* returned, returns, or appends.  A full log is in the hands of a
\* consolidation, or of a start that has still to replay it.
RoomInv ==
    faults = 0 /\ pc \in {"idle", "append", "return"} => write_address < LogWords

\* An append follows a successful unlock whatever fails; an erase or a
\* consolidation does as long as nothing failed.
UnlockInv ==
    /\ pc = "append" => unlocked
    /\ faults = 0 /\ pc \in {"erase", "consolidate", "program"} => unlocked

IInv == TypeOK /\ RoomInv /\ UnlockInv

-----------------------------------------------------------------------------
(* The log entry format.                                                   *)

\* The words of an entry.
LEMMA WordsOfType ==
    ASSUME NEW r \in Raw, NEW n \in Nat, n * WriteSize <= 8
    PROVE  WordsOf(r, n) \in Seq(Word)
<1>1. \A k \in 1..n, i \in 0..(WriteSize - 1) : (k - 1) * WriteSize + i \in 0..7
  <2>1. CASE WriteSize = 2
    BY <2>1
  <2>2. CASE WriteSize = 4
    BY <2>2
  <2>3. CASE WriteSize = 8
    BY <2>3
  <2> QED
    BY <2>1, <2>2, <2>3, SizesAssumption
<1>2. \A k \in 1..n :
        [i \in 0..(WriteSize - 1) |-> r[(k - 1) * WriteSize + i]] \in Word
  BY <1>1 DEF Raw, Word
<1>3. WordsOf(r, n) \in [1..n -> Word]
  BY <1>2 DEF WordsOf
<1> QED
  BY <1>3

\* An entry never takes more than the eight bytes of a write_log_entry_t.
LEMMA EntryWordsType ==
    ASSUME NEW length \in Nat
    PROVE  EntryWords(length) \in Nat /\ EntryWords(length) * WriteSize <= 8
<1>1. CASE WriteSize = 2
  BY <1>1 DEF EntryWords
<1>2. CASE WriteSize = 4
  BY <1>2 DEF EntryWords
<1>3. CASE WriteSize = 8
  BY <1>3 DEF EntryWords
<1> QED
  BY <1>1, <1>2, <1>3, SizesAssumption

\* Every byte that is read back from the flash is a byte.
LEMMA EntryAtType ==
    ASSUME TypeOK, NEW c \in Nat, NEW n \in Nat
    PROVE  EntryAt(c, n) \in Raw
<1>1. \A i \in Nat : LogAt(i) \in Word
  BY EnvironmentAssumption DEF LogAt, TypeOK
<1>2. \A b \in 0..7 : b \div WriteSize \in Nat /\ b % WriteSize \in 0..(WriteSize - 1)
  <2>1. CASE WriteSize = 2
    BY <2>1
  <2>2. CASE WriteSize = 4
    BY <2>2
  <2>3. CASE WriteSize = 8
    BY <2>3
  <2> QED
    BY <2>1, <2>2, <2>3, SizesAssumption
<1>3. \A b \in 0..7 : LogAt(c + (b \div WriteSize))[b % WriteSize] \in Byte
  <2> SUFFICES ASSUME NEW b \in 0..7
               PROVE  LogAt(c + (b \div WriteSize))[b % WriteSize] \in Byte
    OBVIOUS
  <2>1. c + (b \div WriteSize) \in Nat /\ b % WriteSize \in 0..(WriteSize - 1)
    BY <1>2
  <2>2. LogAt(c + (b \div WriteSize)) \in Word
    BY <1>1, <2>1
  <2> QED
    BY <2>1, <2>2 DEF Word
<1>4. 0 \in Byte
  BY DEF Byte
<1> QED
  BY <1>3, <1>4 DEF EntryAt, Raw

\* The decoded length, and so the number of words that are read.
LEMMA EntrySizeType ==
    ASSUME TypeOK, NEW c \in Nat
    PROVE  EntrySize(c) \in Nat
<1>1. HeaderWords \in Nat
  BY DEF HeaderWords
<1>2. EntryAt(c, HeaderWords) \in Raw
  BY <1>1, EntryAtType
<1>3. MultibyteLength(EntryAt(c, HeaderWords)) \in Nat
  BY <1>2 DEF MultibyteLength, Raw, Byte
<1> QED
  BY <1>3, EntryWordsType DEF EntrySize

\* Playback copies bytes.
LEMMA AppliedType ==
    ASSUME NEW d \in [Addr -> Byte], NEW r \in Raw, NEW g \in Byte, EntryKnown(r)
    PROVE  Applied(d, r, g) \in [Addr -> Byte]
<1>1. \A a \in DOMAIN EntryBytes(r, g) : EntryBytes(r, g)[a] \in Byte
  <2>1. CASE EntryType(r) = 0
    <3> DEFINE m == MultibyteAddress(r)
               l == MultibyteLength(r)
    <3>1. m \in Nat /\ l \in Nat
      <4>1. r[0] \in 0..255 /\ r[1] \in 0..255 /\ r[2] \in 0..255
        BY DEF Raw, Byte
      <4> DEFINE b0 == r[0]
                 b1 == r[1]
                 b2 == r[2]
      <4>2. (b0 % 8) * 65536 + b1 * 256 + b2 \in Nat
        <5> HIDE DEF b0, b1, b2
        <5>1. b0 \in 0..255 /\ b1 \in 0..255 /\ b2 \in 0..255
          BY <4>1 DEF b0, b1, b2
        <5>2. b0 % 8 \in 0..7
          BY <5>1
        <5> QED
          BY <5>1, <5>2
      <4>3. (b0 \div 8) % 8 \in Nat
        BY <4>1
      <4> QED
        BY <4>2, <4>3 DEF MultibyteAddress, MultibyteLength
    <3> HIDE DEF m, l
    <3>2. EntryBytes(r, g) = [a \in m..(m + l - 1) |->
                                IF 3 + a - m <= 7 THEN r[3 + a - m] ELSE g]
      BY <2>1 DEF EntryBytes, m, l
    <3>3. \A a \in m..(m + l - 1) : 3 + a - m <= 7 => 3 + a - m \in 0..7
      BY <3>1
    <3> QED
      BY <3>2, <3>3 DEF Raw
  <2>2. CASE EntryType(r) = 1
    BY <2>2 DEF EntryBytes, Raw
  <2>3. CASE EntryType(r) = 2
    <3>1. Word01Value(r) \in Byte /\ 0 \in Byte
      BY DEF Word01Value, Raw, Byte
    <3> QED
      BY <2>3, <3>1 DEF EntryBytes
  <2> QED
    BY <2>1, <2>2, <2>3 DEF EntryKnown
<1> QED
  BY <1>1 DEF Applied
-----------------------------------------------------------------------------
(* What write_raw logs.                                                    *)

\* The encoders produce bytes.
LEMMA MakeMultibyteType ==
    ASSUME NEW a \in Nat, NEW bytes \in Seq(Byte), Len(bytes) \in 1..5
    PROVE  MakeMultibyte(a, bytes) \in Raw
<1> DEFINE head == Len(bytes) * 8 + ((a \div 65536) % 8)
           high == (a \div 256) % 256
           low  == a % 256
           item(i) == IF i - 2 <= Len(bytes) THEN bytes[i - 2] ELSE 0
<1>1. head \in Byte
  <2>1. (a \div 65536) % 8 \in 0..7
    OBVIOUS
  <2>2. \A l \in 1..5, x \in 0..7 : l * 8 + x \in Byte
    BY DEF Byte
  <2>3. \A x \in 0..7 : Len(bytes) * 8 + x \in Byte
    BY <2>2
  <2> QED
    BY <2>1, <2>3
<1>2. high \in Byte /\ low \in Byte
  BY DEF Byte
<1>3. \A i \in 3..7 : item(i) \in Byte
  <2>1. 0 \in Byte
    BY DEF Byte
  <2>2. \A j \in 1..Len(bytes) : bytes[j] \in Byte
    OBVIOUS
  <2>3. \A i \in 3..7 : i - 2 <= Len(bytes) => i - 2 \in 1..Len(bytes)
    OBVIOUS
  <2> QED
    BY <2>1, <2>2, <2>3
<1>4. MakeMultibyte(a, bytes) = [i \in 0..7 |-> CASE i = 0 -> head [] i = 1 -> high
                                                 [] i = 2 -> low [] OTHER -> item(i)]
  BY DEF MakeMultibyte
<1> HIDE DEF head, high, low, item
<1>5. \A i \in 0..7 : (CASE i = 0 -> head [] i = 1 -> high [] i = 2 -> low
                          [] OTHER -> item(i)) \in Byte
  BY <1>1, <1>2, <1>3
<1> QED
  BY <1>4, <1>5 DEF Raw

\* A one-word entry is made of bytes.
LEMMA MakeOptimized64Type ==
    ASSUME NEW a \in Nat, NEW b \in Byte
    PROVE  MakeOptimized64(a, b) \in Raw
<1>1. 64 + (a % 64) \in Byte /\ 0 \in Byte
  BY DEF Byte
<1> QED
  BY <1>1 DEF MakeOptimized64, Raw

\* An encoded 0/1 word is made of bytes.
LEMMA MakeWord01Type ==
    ASSUME NEW a \in Nat, NEW v \in {0, 1}
    PROVE  MakeWord01(a, v) \in Raw
<1>1. /\ 128 + v * 32 + ((a \div 512) % 32) \in Byte
      /\ (a \div 2) % 256 \in Byte /\ 0 \in Byte
  BY DEF Byte
<1> QED
  BY <1>1 DEF MakeWord01, Raw

\* One entry takes at least one byte of the request, and at most what is left.
LEMMA NextTakenType ==
    ASSUME NEW r \in Nat \X Seq(Byte), Length(r) > 0
    PROVE  NextTaken(r) \in 1..Length(r) /\ NextTaken(r) <= 5
<1>1. Length(r) \in Nat
  BY DEF Length
<1> QED
  BY <1>1 DEF NextTaken, IsWord01, MultibyteMax

\* The words that are appended for an entry.
LEMMA NextWordsType ==
    ASSUME NEW r \in Nat \X Seq(Byte), Length(r) > 0
    PROVE  NextWords(r) \in Seq(Word)
<1>1. /\ r[1] \in Nat /\ r[2] \in Seq(Byte) /\ r[2][1] \in Byte
      /\ Length(r) \in Nat
  BY DEF Length
<1>2. 1 * WriteSize <= 8
  BY SizesAssumption
<1>3. CASE IsWord01(r)
  <2>1. r[2][1] \in {0, 1}
    BY <1>3 DEF IsWord01
  <2>2. MakeWord01(r[1], r[2][1]) \in Raw
    BY <1>1, <2>1, MakeWord01Type
  <2> QED
    BY <1>2, <1>3, <2>2, WordsOfType DEF NextWords
<1>4. CASE ~IsWord01(r) /\ WriteSize = 2 /\ r[1] < OptLimit
  <2>1. MakeOptimized64(r[1], r[2][1]) \in Raw
    BY <1>1, MakeOptimized64Type
  <2> QED
    BY <1>2, <1>4, <2>1, WordsOfType DEF NextWords
<1>5. CASE ~IsWord01(r) /\ ~(WriteSize = 2 /\ r[1] < OptLimit)
  <2> DEFINE n == NextTaken(r)
             bytes == SubSeq(r[2], 1, n)
  <2>1. n \in 1..Length(r) /\ n <= 5
    BY NextTakenType
  <2>2. bytes \in Seq(Byte) /\ Len(bytes) = n
    <3>1. \A i \in 1..n : r[2][i] \in Byte
      BY <1>1, <2>1 DEF Length
    <3> HIDE DEF n
    <3>2. n \in Int /\ 1 <= n /\ n - 1 + 1 = n
      BY <2>1, <1>1
    <3> QED
      BY <3>1, <3>2, SubSeqProperties
  <2>3. MakeMultibyte(r[1], bytes) \in Raw
    <3>1. Len(bytes) \in 1..5
      BY <1>1, <2>1, <2>2
    <3> HIDE DEF bytes
    <3> QED
      BY <1>1, <2>2, <3>1, MakeMultibyteType
  <2>4. EntryWords(n) \in Nat /\ EntryWords(n) * WriteSize <= 8
    BY <1>1, <2>1, EntryWordsType
  <2>5. WordsOf(MakeMultibyte(r[1], bytes), EntryWords(n)) \in Seq(Word)
    BY <2>3, <2>4, WordsOfType
  <2> QED
    BY <1>5, <2>5 DEF NextWords
<1> QED
  BY <1>3, <1>4, <1>5

\* What remains of the request.
LEMMA RemainingType ==
    ASSUME NEW r \in Nat \X Seq(Byte), Length(r) > 0
    PROVE  <<r[1] + NextTaken(r), SubSeq(r[2], NextTaken(r) + 1, Length(r))>>
             \in Nat \X Seq(Byte)
<1>1. NextTaken(r) \in 1..Length(r) /\ Length(r) \in Nat
  BY NextTakenType DEF Length
<1>2. SubSeq(r[2], NextTaken(r) + 1, Length(r)) \in Seq(Byte)
  <2> DEFINE m == NextTaken(r) + 1
  <2>1. m \in Int /\ 1 <= m
    BY <1>1
  <2>2. \A i \in m..Length(r) : r[2][i] \in Byte
    BY <2>1 DEF Length
  <2> HIDE DEF m
  <2>3. SubSeq(r[2], m, Length(r)) \in Seq(Byte)
    BY <1>1, <2>1, <2>2, SubSeqProperties
  <2> QED
    BY <2>3 DEF m
<1>3. r[1] + NextTaken(r) \in Nat
  BY <1>1
<1> QED
  BY <1>2, <1>3
-----------------------------------------------------------------------------
(* The flash driver.                                                       *)

\* An unlock that reports no failure leaves the store unlocked, and a failure
\* is a fault.
LEMMA UnlockEffect ==
    ASSUME TypeOK, NEW ls \in LockStatus, Unlock(ls)
    PROVE  /\ unlocked' \in BOOLEAN /\ faults' \in Nat
           /\ ls # "FAILURE" => unlocked'
           /\ faults' = 0 => faults = 0 /\ ls # "FAILURE"
<1>1. CASE ls = "UNCHANGED" /\ unlocked /\ NoFault /\ UNCHANGED unlocked
  BY <1>1 DEF TypeOK, NoFault
<1>2. CASE ls = "SUCCESS" /\ ~unlocked /\ NoFault /\ unlocked' = TRUE
  BY <1>2 DEF TypeOK, NoFault
<1>3. CASE ls = "FAILURE" /\ ~unlocked /\ Fault /\ UNCHANGED unlocked
  BY <1>3 DEF TypeOK, Fault
<1> QED
  BY <1>1, <1>2, <1>3 DEF Unlock

\* A fault is counted.
LEMMA FaultEffect ==
    ASSUME TypeOK
    PROVE  /\ Fault => faults' \in Nat /\ faults' # 0
           /\ NoFault => faults' \in Nat /\ (faults' = 0 => faults = 0)
BY DEF TypeOK, Fault, NoFault

\* Erasing keeps the shape of the store.
LEMMA ErasedType ==
    ASSUME TypeOK, NEW S
    PROVE  ConsErased(S) \in Consolidated /\ LogErased(S) \in [LogSlot -> Word]
<1>1. Zeros \in [Addr -> Byte] /\ ZeroWord \in Word
  BY DEF Zeros, ZeroWord, Word, Byte
<1>2. NoData \in Consolidated
  BY <1>1 DEF NoData, Consolidated
<1> QED
  BY <1>1, <1>2 DEF ConsErased, LogErased, TypeOK

\* Constants of the right type.
LEMMA BlankType ==
    /\ Zeros \in [Addr -> Byte] /\ NoData \in Consolidated
    /\ [i \in LogSlot |-> ZeroWord] \in [LogSlot -> Word]
    /\ LogWords \in Nat /\ 0 < LogWords
<1>1. Zeros \in [Addr -> Byte] /\ ZeroWord \in Word
  BY DEF Zeros, ZeroWord, Word, Byte
<1>2. NoData \in Consolidated
  BY <1>1 DEF NoData, Consolidated
<1>3. LogWords \in Nat /\ 0 < LogWords
  <2> DEFINE room == BackingSize - LogicalSize - 8
  <2>1. room \in Nat /\ room >= WriteSize
    BY SizesAssumption
  <2> HIDE DEF room
  <2>2. CASE WriteSize = 2
    BY <2>1, <2>2 DEF LogWords, room
  <2>3. CASE WriteSize = 4
    BY <2>1, <2>3 DEF LogWords, room
  <2>4. CASE WriteSize = 8
    BY <2>1, <2>4 DEF LogWords, room
  <2> QED
    BY <2>2, <2>3, <2>4, SizesAssumption
<1> QED
  BY <1>1, <1>2, <1>3

\* The empty request, and no words to append.
LEMMA EmptyType == <<0, <<>>>> \in Nat \X Seq(Byte) /\ <<>> \in Seq(Word)
<1>1. <<>> \in Seq(Byte) /\ <<>> \in Seq(Word)
  OBVIOUS
<1>2. \A s \in Seq(Byte) : <<0, s>> \in Nat \X Seq(Byte)
  OBVIOUS
<1> QED
  BY <1>1, <1>2

-----------------------------------------------------------------------------
\* The initial state satisfies the invariant.
LEMMA InitIInv == Init => IInv
<1> SUFFICES ASSUME Init PROVE IInv
  OBVIOUS
<1>1. /\ cache \in [Addr -> Byte] /\ cons \in Consolidated
      /\ log \in [LogSlot -> Word]
  BY BlankType DEF Init
<1>2. req \in Nat \X Seq(Byte) /\ todo \in Seq(Word)
  BY EmptyType DEF Init
<1>3. unlocked \in BOOLEAN /\ relock \in BOOLEAN
  BY DEF Init
<1>4. write_address \in Nat /\ cursor \in Nat /\ faults \in Nat /\ crashes \in Nat
  BY DEF Init
<1>5. pc = "off" /\ op = "init" /\ lock_status \in LockStatus /\ status \in Status
  BY DEF Init, LockStatus, Status
<1>6. TypeOK
  BY <1>1, <1>2, <1>3, <1>4, <1>5 DEF TypeOK
<1> QED
  BY <1>5, <1>6 DEF IInv, RoomInv, UnlockInv

\* Starting up, and replaying the log.
LEMMA StartStep ==
    ASSUME IInv, PowerUp \/ PlaybackEntry \/ PlaybackCorrupt \/ PlaybackEnd
    PROVE  IInv'
<1> USE DEF IInv
<1>1. CASE PowerUp
  <2>1. cache' \in [Addr -> Byte]
    <3>1. cons.data \in [Addr -> Byte]
      BY DEF TypeOK, Consolidated
    <3> QED
      BY <1>1, <3>1, BlankType DEF PowerUp
  <2>2. /\ faults' \in Nat
        /\ faults' = 0 => pc' = "playback"
        /\ pc' \in {"playback", "return"} /\ status' \in Status
    BY <1>1, FaultEffect DEF PowerUp, TypeOK, Status
  <2>3. TypeOK'
    <3>1. op' \in {"init"} /\ write_address' \in Nat /\ cursor' \in Nat
      BY <1>1 DEF PowerUp
    <3>2. UNCHANGED <<unlocked, cons, log, req, todo, lock_status, relock, crashes>>
      BY <1>1 DEF PowerUp, flash
    <3> QED
      BY <2>1, <2>2, <3>1, <3>2 DEF TypeOK
  <2> QED
    BY <2>2, <2>3 DEF RoomInv, UnlockInv
<1>2. CASE PlaybackEntry
  <2>1. EntryKnown(Entry(cursor))
    BY <1>2 DEF PlaybackEntry, CorruptAt
  <2>2. Entry(cursor) \in Raw /\ EntrySize(cursor) \in Nat
    BY EntrySizeType, EntryAtType DEF Entry, TypeOK
  <2>3. cache' \in [Addr -> Byte]
    <3>1. PICK g \in {0, 255} : cache' = Applied(cache, Entry(cursor), g)
      BY <1>2 DEF PlaybackEntry
    <3>2. g \in Byte
      BY DEF Byte
    <3> QED
      BY <2>1, <2>2, <3>1, <3>2, AppliedType DEF TypeOK
  <2>4. cursor' \in Nat
    BY <1>2, <2>2 DEF PlaybackEntry, TypeOK
  <2>5. TypeOK'
    BY <1>2, <2>3, <2>4 DEF PlaybackEntry, TypeOK, NoFault, flash
  <2> QED
    BY <1>2, <2>5 DEF PlaybackEntry, RoomInv, UnlockInv
<1>3. CASE PlaybackCorrupt
  <2>1. faults' \in Nat
    BY <1>3, FaultEffect DEF PlaybackCorrupt
  <2>2. TypeOK'
    BY <1>3, <2>1 DEF PlaybackCorrupt, TypeOK, flash, local
  <2> QED
    BY <1>3, <2>2 DEF PlaybackCorrupt, RoomInv, UnlockInv
<1>4. CASE PlaybackEnd
  <2>1. TypeOK'
    BY <1>4 DEF PlaybackEnd, TypeOK, NoFault, flash, local, Status
  <2>2. RoomInv'
    BY <1>4, BlankType DEF PlaybackEnd, TypeOK, RoomInv
  <2> QED
    BY <1>4, <2>1, <2>2 DEF PlaybackEnd, UnlockInv
<1> QED
  BY <1>1, <1>2, <1>3, <1>4

\* Consolidation.
LEMMA ConsolidateStep ==
    ASSUME IInv, \/ ConsolidateForce \/ ConsolidateErase
                 \/ ConsolidateUnlock \/ WriteConsolidated
    PROVE  IInv'
<1> USE DEF IInv
<1>1. CASE ConsolidateForce
  <2>1. PICK ls \in LockStatus : Unlock(ls)
    BY <1>1 DEF ConsolidateForce
  <2>2. /\ unlocked' \in BOOLEAN /\ faults' \in Nat
        /\ faults' = 0 => unlocked'
    BY <2>1, UnlockEffect
  <2>3. TypeOK'
    BY <1>1, <2>2 DEF ConsolidateForce, TypeOK, flash, local
  <2> QED
    BY <1>1, <2>2, <2>3 DEF ConsolidateForce, RoomInv, UnlockInv
<1>2. CASE ConsolidateErase
  <2>1. /\ cons' \in Consolidated /\ log' \in [LogSlot -> Word]
    BY <1>2, BlankType, ErasedType DEF ConsolidateErase
  <2>2. /\ faults' \in Nat /\ pc' \in {"consolidate", "return"} /\ status' \in Status
        /\ faults' = 0 => faults = 0 /\ pc' = "consolidate"
    BY <1>2, FaultEffect DEF ConsolidateErase, TypeOK, Status
  <2>3. TypeOK'
    BY <1>2, <2>1, <2>2 DEF ConsolidateErase, TypeOK, local
  <2> QED
    BY <1>2, <2>2, <2>3 DEF ConsolidateErase, RoomInv, UnlockInv
<1>3. CASE ConsolidateUnlock
  <2>1. PICK ls \in LockStatus : Unlock(ls) /\ relock' = (ls = "SUCCESS")
    BY <1>3 DEF ConsolidateUnlock
  <2>2. /\ unlocked' \in BOOLEAN /\ faults' \in Nat
        /\ faults' = 0 => unlocked'
    BY <2>1, UnlockEffect
  <2>3. relock' \in BOOLEAN
    BY <2>1
  <2>4. TypeOK'
    BY <1>3, <2>2, <2>3 DEF ConsolidateUnlock, TypeOK, flash
  <2> QED
    BY <1>3, <2>2, <2>4 DEF ConsolidateUnlock, RoomInv, UnlockInv
<1>4. CASE WriteConsolidated
  <2>1. PICK writeFails, lockFails \in BOOLEAN :
          /\ faults' = faults + ((IF writeFails THEN 1 ELSE 0) + (IF lockFails THEN 1 ELSE 0))
          /\ unlocked' = IF relock THEN lockFails ELSE unlocked
          /\ cons' = IF writeFails THEN NoData ELSE Sealed(cache)
          /\ status' = IF writeFails THEN "FAILED" ELSE "CONSOLIDATED"
    BY <1>4 DEF WriteConsolidated
  <2>2. faults' \in Nat
    BY <2>1 DEF TypeOK
  <2>3. unlocked' \in BOOLEAN
    BY <2>1 DEF TypeOK
  <2>4. cons' \in Consolidated
    BY <2>1, BlankType DEF TypeOK, Sealed, Consolidated
  <2>5. status' \in Status
    BY <2>1 DEF Status
  <2>6. TypeOK'
    BY <1>4, <2>2, <2>3, <2>4, <2>5 DEF WriteConsolidated, TypeOK, local
  <2> QED
    BY <1>4, <2>6, BlankType DEF WriteConsolidated, RoomInv, UnlockInv
<1> QED
  BY <1>1, <1>2, <1>3, <1>4

\* wear_leveling_write.
LEMMA WriteStep ==
    ASSUME IInv,
           \/ \E r \in Requests : WriteSkipped(r) \/ WriteBegin(r)
           \/ EncodeEntry \/ AppendRaw \/ AppendFails \/ WriteLogged
    PROVE  IInv'
<1> USE DEF IInv
<1>1. ASSUME NEW r \in Requests, WriteSkipped(r) PROVE IInv'
  <2>1. TypeOK'
    BY <1>1 DEF WriteSkipped, TypeOK, NoFault, flash, Status, LockStatus
  <2> QED
    BY <1>1, <2>1 DEF WriteSkipped, RoomInv, UnlockInv, NoFault
<1>2. ASSUME NEW r \in Requests, WriteBegin(r) PROVE IInv'
  <2>1. r \in Nat \X Seq(Byte)
    BY EnvironmentAssumption
  <2>2. cache' \in [Addr -> Byte]
    <3>1. \A a \in Addr : a - r[1] \in 0..(Length(r) - 1)
                            => r[2][a - r[1] + 1] \in Byte
      BY <2>1 DEF Length
    <3>2. cache' = Stored(r)
      BY <1>2 DEF WriteBegin
    <3> QED
      BY <3>1, <3>2 DEF Stored, TypeOK
  <2>3. PICK ls \in LockStatus :
          /\ Unlock(ls) /\ lock_status' = ls
          /\ pc' = IF ls = "FAILURE" THEN "return" ELSE "append"
          /\ status' = IF ls = "FAILURE" THEN "FAILED" ELSE "SUCCESS"
    BY <1>2 DEF WriteBegin
  <2>4. /\ unlocked' \in BOOLEAN /\ faults' \in Nat
        /\ pc' \in {"append", "return"} /\ status' \in Status
        /\ pc' = "append" => unlocked'
        /\ faults' = 0 => faults = 0
    BY <2>3, UnlockEffect DEF Status
  <2>5. pc = "idle" /\ op' = "write" /\ req' = r /\ todo' = <<>>
    BY <1>2 DEF WriteBegin
  <2>6. UNCHANGED <<write_address, cons, log, cursor, relock, crashes>>
    BY <1>2 DEF WriteBegin, flash
  <2>7. todo' \in Seq(Word)
    BY <2>5
  <2>8. TypeOK'
    BY <2>1, <2>2, <2>3, <2>4, <2>5, <2>6, <2>7 DEF TypeOK
  <2> QED
    BY <2>4, <2>5, <2>6, <2>8 DEF RoomInv, UnlockInv
<1>3. CASE EncodeEntry
  <2>1. req \in Nat \X Seq(Byte) /\ Length(req) > 0
    BY <1>3 DEF EncodeEntry, TypeOK
  <2>2. todo' \in Seq(Word)
    BY <1>3, <2>1, NextWordsType DEF EncodeEntry
  <2>3. req' \in Nat \X Seq(Byte)
    BY <1>3, <2>1, RemainingType DEF EncodeEntry
  <2>4. UNCHANGED <<cache, write_address, unlocked, cons, log, pc, op, cursor,
                    lock_status, relock, status, crashes, faults>>
    BY <1>3 DEF EncodeEntry, flash, NoFault
  <2>5. TypeOK'
    BY <2>2, <2>3, <2>4 DEF TypeOK
  <2> QED
    BY <2>4, <2>5 DEF RoomInv, UnlockInv
<1>4. CASE AppendRaw
  <2>1. todo \in Seq(Word) /\ todo # <<>>
    BY <1>4 DEF AppendRaw, TypeOK
  <2>2. Head(todo) \in Word /\ Tail(todo) \in Seq(Word)
    BY <2>1
  <2>3. log' \in [LogSlot -> Word]
    BY <1>4, <2>2 DEF AppendRaw, TypeOK
  <2>4. /\ write_address' \in Nat /\ todo' \in Seq(Word)
        /\ pc' = IF write_address' >= LogWords THEN "force" ELSE "append"
    BY <1>4, <2>2 DEF AppendRaw, TypeOK
  <2>5. /\ UNCHANGED <<cache, unlocked, cons, op, cursor, req, lock_status,
                       relock, status, crashes, faults>>
        /\ pc = "append"
    BY <1>4 DEF AppendRaw, NoFault
  <2>6. TypeOK'
    BY <2>3, <2>4, <2>5 DEF TypeOK
  <2> QED
    BY <2>4, <2>5, <2>6, BlankType DEF RoomInv, UnlockInv
<1>5. CASE AppendFails
  <2>1. faults' \in Nat /\ faults' # 0
    BY <1>5, FaultEffect DEF AppendFails
  <2>2. TypeOK'
    BY <1>5, <2>1 DEF AppendFails, TypeOK, flash, local, Status
  <2> QED
    BY <1>5, <2>1, <2>2 DEF AppendFails, RoomInv, UnlockInv
<1>6. CASE WriteLogged
  <2>1. TypeOK'
    BY <1>6 DEF WriteLogged, TypeOK, NoFault, flash, local, Status
  <2> QED
    BY <1>6, <2>1, BlankType DEF WriteLogged, TypeOK, RoomInv, UnlockInv, NoFault
<1> QED
  BY <1>1, <1>2, <1>3, <1>4, <1>5, <1>6

\* wear_leveling_erase, the end of a call, and power losses.
LEMMA EraseReturnStep ==
    ASSUME IInv,
           EraseBegin \/ EraseStore \/ ReturnInit \/ Return \/ PowerLoss
    PROVE  IInv'
<1> USE DEF IInv
<1>1. CASE EraseBegin
  <2>1. PICK ls \in LockStatus :
          /\ Unlock(ls) /\ lock_status' = ls
          /\ pc' = IF ls = "FAILURE" THEN "return" ELSE "erase"
          /\ status' = IF ls = "FAILURE" THEN "FAILED" ELSE status
    BY <1>1 DEF EraseBegin
  <2>2. /\ unlocked' \in BOOLEAN /\ faults' \in Nat
        /\ pc' \in {"erase", "return"} /\ status' \in Status
        /\ pc' = "erase" => unlocked'
        /\ faults' = 0 => pc' = "erase"
    BY <2>1, UnlockEffect DEF Status, TypeOK
  <2>3. /\ op' = "erase"
        /\ UNCHANGED <<cache, write_address, cons, log, cursor, req, todo, relock, crashes>>
    BY <1>1 DEF EraseBegin, flash
  <2>4. TypeOK'
    BY <2>1, <2>2, <2>3 DEF TypeOK
  <2> QED
    BY <2>2, <2>4 DEF RoomInv, UnlockInv
<1>2. CASE EraseStore
  <2>1. cons' \in Consolidated /\ log' \in [LogSlot -> Word]
    BY <1>2, BlankType, ErasedType DEF EraseStore
  <2>2. faults' \in Nat /\ status' \in Status
    BY <1>2, FaultEffect DEF EraseStore, Status
  <2>3. cache' \in [Addr -> Byte] /\ write_address' = 0 /\ pc' = "return"
    BY <1>2, BlankType DEF EraseStore
  <2>4. UNCHANGED <<unlocked, op, cursor, req, todo, lock_status, relock, crashes>>
    BY <1>2 DEF EraseStore, local
  <2>5. TypeOK'
    BY <2>1, <2>2, <2>3, <2>4 DEF TypeOK
  <2> QED
    BY <2>3, <2>5, BlankType DEF RoomInv, UnlockInv
<1>3. CASE ReturnInit
  <2>1. cache' \in [Addr -> Byte] /\ write_address' \in {0, write_address}
    BY <1>3, BlankType DEF ReturnInit, TypeOK
  <2>2. /\ pc = "return" /\ pc' = "idle"
        /\ UNCHANGED <<unlocked, cons, log, op, cursor, req, todo, lock_status,
                       relock, status, crashes, faults>>
    BY <1>3 DEF ReturnInit, flash, local, NoFault
  <2>3. TypeOK'
    BY <2>1, <2>2 DEF TypeOK
  <2> QED
    BY <2>1, <2>2, <2>3, BlankType DEF RoomInv, UnlockInv
<1>4. CASE Return
  <2>1. /\ unlocked' \in BOOLEAN /\ faults' \in Nat /\ status' \in Status
        /\ faults' = 0 => faults = 0
    BY <1>4, FaultEffect DEF Return, TypeOK, Status
  <2>2. /\ pc = "return" /\ pc' = "idle"
        /\ UNCHANGED <<cache, write_address, cons, log, op, cursor, req, todo,
                       lock_status, relock, crashes>>
    BY <1>4 DEF Return, flash, local
  <2>3. TypeOK'
    BY <2>1, <2>2 DEF TypeOK
  <2> QED
    BY <2>1, <2>2, <2>3 DEF RoomInv, UnlockInv
<1>5. CASE PowerLoss
  <2>1. cons' \in Consolidated /\ log' \in [LogSlot -> Word]
    BY <1>5, ErasedType DEF PowerLoss, TypeOK, flash
  <2>2. cache' \in [Addr -> Byte] /\ pc' = "off"
    BY <1>5, BlankType DEF PowerLoss
  <2>3. req' \in Nat \X Seq(Byte) /\ todo' \in Seq(Word)
    BY <1>5, EmptyType DEF PowerLoss
  <2>4. /\ write_address' = 0 /\ cursor' = 0 /\ op' = "init"
        /\ lock_status' = "UNCHANGED" /\ status' = "SUCCESS"
        /\ UNCHANGED faults /\ crashes' = crashes + 1
    BY <1>5 DEF PowerLoss, NoFault
  <2>5. unlocked' \in BOOLEAN /\ relock' \in BOOLEAN
    BY <1>5 DEF PowerLoss
  <2>6. TypeOK'
    BY <2>1, <2>2, <2>3, <2>4, <2>5 DEF TypeOK, LockStatus, Status
  <2> QED
    BY <2>2, <2>6 DEF RoomInv, UnlockInv
<1> QED
  BY <1>1, <1>2, <1>3, <1>4, <1>5

\* Every step preserves the invariant.
LEMMA StepIInv == IInv /\ [Next]_vars => IInv'
<1> SUFFICES ASSUME IInv, [Next]_vars PROVE IInv'
  OBVIOUS
<1>1. CASE Running
  BY <1>1, StartStep, ConsolidateStep, WriteStep, EraseReturnStep DEF Running
<1>2. CASE Call
  BY <1>2, WriteStep, EraseReturnStep DEF Call
<1>3. CASE PowerLoss
  BY <1>3, EraseReturnStep
<1>4. CASE UNCHANGED vars
  <2>1. TypeOK'
    BY <1>4 DEF IInv, TypeOK, vars, flash, local
  <2> QED
    BY <1>4, <2>1 DEF IInv, vars, RoomInv, UnlockInv
<1> QED
  BY <1>1, <1>2, <1>3, <1>4 DEF Next

\* The invariant: room in the log and an unlocked store where the code relies
\* on them without a check.
THEOREM Invariance == Spec => []IInv
<1>1. Init => IInv
  BY InitIInv
<1>2. IInv /\ [Next]_vars => IInv'
  BY StepIInv
<1> QED
  BY <1>1, <1>2, PTL DEF Spec

\* Every entry that write_raw encodes and every byte that playback copies fits
\* its place: the state keeps its types.
THEOREM TypeCorrect == Spec => []TypeOK
<1>1. IInv => TypeOK
  BY DEF IInv
<1> QED
  BY <1>1, Invariance, PTL

\* As long as no driver call has failed, append_raw never writes past the end
\* of the backing store, across any power losses.
THEOREM AppendsInBounds == Spec => [](faults = 0 => AppendInBounds)
<1>1. IInv => (faults = 0 => AppendInBounds)
  BY DEF IInv, RoomInv, AppendInBounds
<1> QED
  BY <1>1, Invariance, PTL

\* As long as no driver call has failed, the store is unlocked whenever it is
\* erased or programmed.
THEOREM WritesUnlocked == Spec => [](faults = 0 => UnlockedWhenWriting)
<1>1. IInv => (faults = 0 => UnlockedWhenWriting)
  BY DEF IInv, UnlockInv, UnlockedWhenWriting
<1> QED
  BY <1>1, Invariance, PTL

\* Whatever driver calls fail, append_raw only runs while the store is unlocked:
\* a failed unlock ends the write.
THEOREM AppendsUnlocked == Spec => [](pc = "append" => unlocked)
<1>1. IInv => (pc = "append" => unlocked)
  BY DEF IInv, UnlockInv
<1> QED
  BY <1>1, Invariance, PTL

-----------------------------------------------------------------------------
(* Numbers.                                                                *)

\* Every non-empty set of natural numbers has a least element.
LEMMA LeastNumber ==
    ASSUME NEW T, T \subseteq Nat, T # {}
    PROVE  \E m \in T : \A k \in T : m <= k
<1> DEFINE R == {ss \in Nat \X Nat : ss[1] < ss[2]}
<1>1. IsWellFoundedOn(R, Nat)
  BY NatLessThanWellFounded, Zenon DEF OpToRel
<1>2. \A x, y \in Nat : x < y => <<x, y>> \in R
  OBVIOUS
<1> HIDE DEF R
<1>3. PICK x \in T : \A y \in T : ~ (<<y, x>> \in R)
  BY <1>1, WFMin
<1>4. \A y \in T : ~(y < x) /\ x \in Nat /\ y \in Nat
  BY <1>2, <1>3
<1> QED
  BY <1>4

\* Induction over the natural numbers, for a set.
LEMMA SetInduction ==
    ASSUME NEW S, 0 \in S, \A n \in Nat : n \in S => n + 1 \in S
    PROVE  \A n \in Nat : n \in S
<1> SUFFICES ASSUME Nat \ S # {} PROVE FALSE
  OBVIOUS
<1>1. PICK m \in Nat \ S : \A k \in Nat \ S : m <= k
  BY LeastNumber
<1>2. m # 0 /\ m - 1 \in Nat /\ m - 1 \in S
  BY <1>1
<1> QED
  BY <1>1, <1>2

\* Every non-empty bounded set of natural numbers has a greatest element, Max.
LEMMA MaxIsGreatest ==
    ASSUME NEW b \in Nat, NEW T, T \subseteq 0..b, T # {}
    PROVE  Max(T) \in T /\ \A k \in T : k <= Max(T)
<1> DEFINE D == {n \in 0..b : b - n \in T}
<1>1. D \subseteq Nat /\ D # {}
  <2>1. PICK t \in T : TRUE
    OBVIOUS
  <2>2. b - t \in 0..b /\ b - (b - t) = t
    BY <2>1
  <2> QED
    BY <2>1, <2>2
<1> HIDE DEF D
<1>2. PICK m \in D : \A k \in D : m <= k
  BY <1>1, LeastNumber
<1>3. b - m \in T
  BY <1>2 DEF D
<1>4. \A k \in T : b - m >= k
  <2> SUFFICES ASSUME NEW k \in T PROVE b - m >= k
    OBVIOUS
  <2>1. k \in 0..b /\ b - (b - k) = k
    OBVIOUS
  <2>2. b - k \in D
    BY <2>1 DEF D
  <2>3. m <= b - k /\ m \in 0..b
    BY <1>2, <2>2 DEF D
  <2> QED
    BY <2>1, <2>3
<1>5. Max(T) \in T /\ \A k \in T : Max(T) >= k
  BY <1>3, <1>4, Zenon DEF Max
<1>6. \A t, k \in T : t >= k => k <= t
  OBVIOUS
<1> QED
  BY <1>5, <1>6, Zenon

-----------------------------------------------------------------------------
(* Chains: where a reader that starts at 0 comes to when nx, a function of *)
(* some positions, gives the position behind the entry at each.            *)
Steps(nx) == /\ DOMAIN nx \subseteq Nat
             /\ \A k \in DOMAIN nx : nx[k] \in Nat /\ k < nx[k]

IsChain(P, nx) ==
    /\ P \subseteq Nat /\ 0 \in P
    /\ \A k \in P : k \in DOMAIN nx => nx[k] \in P
    /\ \A c \in P : c = 0 \/ \E k \in P : k \in DOMAIN nx /\ nx[k] = c

\* Chains of functions that agree below e agree up to e.
LEMMA ChainPrefix ==
    ASSUME NEW nx, NEW ny, Steps(nx), Steps(ny),
           NEW P, NEW Q, IsChain(P, nx), IsChain(Q, ny), NEW e \in Nat,
           \A k \in P : k < e => /\ k \in DOMAIN nx <=> k \in DOMAIN ny
                                 /\ k \in DOMAIN nx => nx[k] = ny[k]
    PROVE  \A c \in Nat : c <= e => (c \in P <=> c \in Q)
<1> DEFINE B == {c \in Nat : c <= e /\ ~(c \in P <=> c \in Q)}
<1> SUFFICES ASSUME B # {} PROVE FALSE
  OBVIOUS
<1> HIDE DEF B
<1>1. PICK c \in B : \A k \in B : c <= k
  <2>1. B \subseteq Nat
    BY DEF B
  <2> QED
    BY <2>1, LeastNumber
<1>2. c \in Nat /\ c <= e /\ ~(c \in P <=> c \in Q)
  BY <1>1 DEF B
<1>3. \A k \in Nat : k < c => (k \in P <=> k \in Q)
  BY <1>1, <1>2 DEF B
<1>4. c # 0
  BY <1>2 DEF IsChain
<1>5. CASE c \in P
  <2>1. PICK k \in P : k \in DOMAIN nx /\ nx[k] = c
    BY <1>4, <1>5 DEF IsChain
  <2>2. k \in Nat /\ k < c
    BY <2>1 DEF Steps
  <2>3. k \in Q /\ k \in DOMAIN ny /\ ny[k] = c
    BY <1>2, <1>3, <2>1, <2>2
  <2> QED
    BY <1>2, <1>5, <2>3 DEF IsChain
<1>6. CASE c \in Q
  <2>1. PICK k \in Q : k \in DOMAIN ny /\ ny[k] = c
    BY <1>4, <1>6 DEF IsChain
  <2>2. k \in Nat /\ k < c
    BY <2>1 DEF Steps
  <2>3. k \in P /\ k \in DOMAIN nx /\ nx[k] = c
    BY <1>2, <1>3, <2>1, <2>2
  <2> QED
    BY <1>2, <1>6, <2>3 DEF IsChain
<1> QED
  BY <1>2, <1>5, <1>6

\* Entries do not overlap: no position lies between one and the next.
LEMMA ChainOrder ==
    ASSUME NEW nx, Steps(nx), NEW P, IsChain(P, nx),
           NEW p \in P, NEW k \in P, p < k
    PROVE  p \in DOMAIN nx /\ nx[p] <= k
<1> DEFINE Bad(x) == \E y \in P : y < x /\ ~(y \in DOMAIN nx /\ nx[y] <= x)
           B == {x \in P : Bad(x)}
<1> SUFFICES ASSUME B # {} PROVE FALSE
  OBVIOUS
<1> P \subseteq Nat
  BY DEF IsChain
<1>1. PICK x \in B : \A z \in B : x <= z
  <2>1. B \subseteq Nat
    OBVIOUS
  <2> HIDE DEF B
  <2> QED
    BY <2>1, LeastNumber
<1>2. PICK y \in P : y < x /\ ~(y \in DOMAIN nx /\ nx[y] <= x)
  BY <1>1
<1>3. x \in P /\ x \in Nat /\ y \in Nat /\ x # 0
  BY <1>1, <1>2
<1>4. PICK q \in P : q \in DOMAIN nx /\ nx[q] = x
  BY <1>3 DEF IsChain
<1>5. q \in Nat /\ q < x
  BY <1>4 DEF Steps
<1>6. \A z \in P : z < x => ~Bad(z)
  BY <1>1, <1>3
<1> HIDE DEF B
<1>7. CASE y = q
  BY <1>2, <1>3, <1>4, <1>7
<1>8. CASE y < q
  <2>1. y \in DOMAIN nx /\ nx[y] <= q
    BY <1>4, <1>5, <1>6, <1>8
  <2>2. nx[y] \in Nat
    BY <2>1 DEF Steps
  <2> QED
    BY <1>2, <1>3, <1>5, <2>1, <2>2
<1>9. CASE q < y
  \* y lies between q and its successor x.
  <2>1. nx[q] <= y
    BY <1>2, <1>6, <1>9
  <2> QED
    BY <1>2, <1>3, <1>4, <2>1
<1> QED
  BY <1>3, <1>5, <1>7, <1>8, <1>9

\* A chain ends at the first position that has no next one.
LEMMA ChainEnd ==
    ASSUME NEW nx, Steps(nx), NEW P, IsChain(P, nx),
           NEW k \in P, k \notin DOMAIN nx
    PROVE  \A c \in P : c <= k
<1> SUFFICES ASSUME NEW c \in P, k < c PROVE FALSE
  BY DEF IsChain
<1> QED
  BY ChainOrder

-----------------------------------------------------------------------------
(* Where playback reads.                                                   *)

\* The next position as Starts computes it.
NextStarts(s, c) ==
    IF \E k \in s : k + 4 >= c /\ ~LogEndsAt(k) /\ k + EntrySize(k) = c /\ ~CorruptAt(k)
    THEN s \cup {c} ELSE s

\* A function defined as Starts is.
StartsOf(f, n) ==
    f = [c \in 0..n |-> IF c = 0 THEN {0} ELSE NextStarts(f[c - 1], c)]

\* A function that lists the slots playback reads exists up to any slot.
LEMMA StartsExists == \A n \in Nat : \E f : StartsOf(f, n)
<1> DEFINE T == {n \in Nat : \E f : StartsOf(f, n)}
<1>1. 0 \in T
  <2> DEFINE f == [c \in 0..0 |-> {0}]
  <2>1. StartsOf(f, 0)
    <3>1. \A c \in 0..0 : c = 0
      OBVIOUS
    <3> QED
      BY <3>1 DEF StartsOf
  <2> QED
    BY <2>1
<1>2. ASSUME NEW n \in Nat, n \in T PROVE n + 1 \in T
  <2>1. PICK f : StartsOf(f, n)
    BY <1>2
  <2> DEFINE g == [c \in 0..(n + 1) |-> IF c = n + 1 THEN NextStarts(f[n], c) ELSE f[c]]
  <2>2. \A c \in 0..n : f[c] = IF c = 0 THEN {0} ELSE NextStarts(f[c - 1], c)
    BY <2>1 DEF StartsOf
  <2>3. \A c \in 0..n : g[c] = f[c]
    OBVIOUS
  <2>4. g[n + 1] = NextStarts(f[n], n + 1)
    OBVIOUS
  <2> HIDE DEF g
  <2>5. \A c \in 0..(n + 1) : g[c] = IF c = 0 THEN {0} ELSE NextStarts(g[c - 1], c)
    <3> SUFFICES ASSUME NEW c \in 0..(n + 1)
                 PROVE  g[c] = IF c = 0 THEN {0} ELSE NextStarts(g[c - 1], c)
      OBVIOUS
    <3>1. CASE c = n + 1
      <4>1. c - 1 = n /\ c # 0 /\ g[n] = f[n]
        BY <2>3, <3>1
      <4> QED
        BY <2>4, <3>1, <4>1
    <3>2. CASE c = 0
      BY <2>2, <2>3, <3>2
    <3>3. CASE c # 0 /\ c # n + 1
      <4>1. c \in 0..n /\ c - 1 \in 0..n
        BY <3>3
      <4> QED
        BY <2>2, <2>3, <3>3, <4>1
    <3> QED
      BY <3>1, <3>2, <3>3
  <2>6. StartsOf(g, n + 1)
    BY <2>5 DEF StartsOf, g
  <2> QED
    BY <2>6
<1> HIDE DEF T
<1>3. \A n \in Nat : n \in T
  BY <1>1, <1>2, SetInduction
<1> QED
  BY <1>3 DEF T

\* It computes a chain.
LEMMA StartsIsChain ==
    ASSUME NEW nx, Steps(nx), NEW n \in Nat, NEW f, StartsOf(f, n),
           \A k \in DOMAIN nx : nx[k] <= k + 4 /\ nx[k] <= n,
           \A k \in Nat : \A c : (~LogEndsAt(k) /\ k + EntrySize(k) = c /\ ~CorruptAt(k))
                                    <=> (k \in DOMAIN nx /\ nx[k] = c)
    PROVE  IsChain(f[n], nx) /\ f[n] \subseteq 0..n
<1> DEFINE Partial(s, c) ==
             /\ s \subseteq 0..c /\ 0 \in s
             /\ \A k \in s : k \in DOMAIN nx /\ nx[k] <= c => nx[k] \in s
             /\ \A x \in s : x = 0 \/ \E k \in s : k \in DOMAIN nx /\ nx[k] = x
           T == {c \in Nat : c <= n => Partial(f[c], c)}
<1>1. 0 \in T
  <2>1. f[0] = {0}
    BY DEF StartsOf
  <2>2. Partial(f[0], 0)
    BY <2>1 DEF Steps
  <2> QED
    BY <2>2
<1>2. ASSUME NEW c \in Nat, c \in T PROVE c + 1 \in T
  <2> SUFFICES ASSUME c + 1 <= n PROVE Partial(f[c + 1], c + 1)
    OBVIOUS
  <2> DEFINE s == f[c]
  <2>1. Partial(s, c)
    BY <1>2
  <2>2. f[c + 1] = NextStarts(s, c + 1)
    <3>1. c + 1 \in 0..n /\ c + 1 # 0 /\ (c + 1) - 1 = c
      OBVIOUS
    <3> QED
      BY <3>1 DEF StartsOf
  <2> HIDE DEF s
  <2>5. \A k \in s : (~LogEndsAt(k) /\ k + EntrySize(k) = c + 1 /\ ~CorruptAt(k))
                        <=> (k \in DOMAIN nx /\ nx[k] = c + 1)
    BY <2>1
  <2>3. CASE \E k \in s : k + 4 >= c + 1 /\ k \in DOMAIN nx /\ nx[k] = c + 1
    <3>1. f[c + 1] = s \cup {c + 1}
      BY <2>2, <2>3, <2>5 DEF NextStarts
    <3>2. \A k \in s \cup {c + 1} : k \in DOMAIN nx /\ nx[k] <= c + 1 => nx[k] \in s \cup {c + 1}
      <4> SUFFICES ASSUME NEW k \in s \cup {c + 1}, k \in DOMAIN nx, nx[k] <= c + 1
                   PROVE  nx[k] \in s \cup {c + 1}
        OBVIOUS
      <4>1. nx[k] \in Nat /\ k < nx[k]
        BY DEF Steps
      <4>2. k \in s /\ (nx[k] <= c \/ nx[k] = c + 1)
        BY <4>1
      <4> QED
        BY <2>1, <4>2
    <3>3. s \cup {c + 1} \subseteq 0..(c + 1) /\ 0 \in s \cup {c + 1}
      BY <2>1
    <3>4. \A x \in s \cup {c + 1} : x = 0 \/ \E k \in s \cup {c + 1} : k \in DOMAIN nx /\ nx[k] = x
      BY <2>1, <2>3
    <3> QED
      BY <3>1, <3>2, <3>3, <3>4
  <2>4. CASE ~ \E k \in s : k + 4 >= c + 1 /\ k \in DOMAIN nx /\ nx[k] = c + 1
    <3>1. f[c + 1] = s
      BY <2>2, <2>4, <2>5 DEF NextStarts
    <3>2. \A k \in s : k \in DOMAIN nx /\ nx[k] <= c + 1 => nx[k] \in s
      <4> SUFFICES ASSUME NEW k \in s, k \in DOMAIN nx, nx[k] <= c + 1
                   PROVE  nx[k] \in s
        OBVIOUS
      <4>1. nx[k] \in Nat /\ k \in Nat /\ nx[k] <= k + 4
        BY DEF Steps
      <4>2. nx[k] # c + 1
        BY <2>4, <4>1
      <4> QED
        BY <2>1, <4>1, <4>2
    <3>3. s \subseteq 0..(c + 1)
      BY <2>1
    <3> QED
      BY <2>1, <3>1, <3>2, <3>3
  <2> QED
    BY <2>3, <2>4
<1> HIDE DEF T
<1>3. n \in T
  BY <1>1, <1>2, SetInduction
<1>4. Partial(f[n], n)
  BY <1>3 DEF T
<1> QED
  BY <1>4 DEF IsChain

-----------------------------------------------------------------------------
\* The words an entry takes, from its first byte.
SizeOf(b) == IF b \div 64 = 0 THEN EntryWords((b \div 8) % 8) ELSE 1

\* An entry takes one to four words and fits a write_log_entry_t.
LEMMA SizeOfType ==
    ASSUME NEW b \in Byte
    PROVE  SizeOf(b) \in 1..4 /\ SizeOf(b) * WriteSize <= 8
<1>1. (b \div 8) % 8 \in 0..7
  BY DEF Byte
<1>2. \A l \in 0..7 : EntryWords(l) \in 1..4 /\ EntryWords(l) * WriteSize <= 8
  <2> SUFFICES ASSUME NEW l \in 0..7
               PROVE  EntryWords(l) \in 1..4 /\ EntryWords(l) * WriteSize <= 8
    OBVIOUS
  <2>1. CASE WriteSize = 2
    BY <2>1 DEF EntryWords
  <2>2. CASE WriteSize = 4
    BY <2>2 DEF EntryWords
  <2>3. CASE WriteSize = 8
    BY <2>3 DEF EntryWords
  <2> QED
    BY <2>1, <2>2, <2>3, SizesAssumption
<1>3. 1 * WriteSize <= 8
  BY SizesAssumption
<1> QED
  BY <1>1, <1>2, <1>3 DEF SizeOf

\* What a read of the flash returns, inside the log or behind it, is a word.
LEMMA LogAtType == TypeOK => \A i \in Nat : LogAt(i) \in Word /\ LogAt(i)[0] \in Byte
<1> SUFFICES ASSUME TypeOK, NEW i \in Nat PROVE LogAt(i) \in Word /\ LogAt(i)[0] \in Byte
  OBVIOUS
<1>1. LogAt(i) \in Word
  BY EnvironmentAssumption DEF LogAt, TypeOK
<1>2. 0 \in 0..(WriteSize - 1)
  BY SizesAssumption
<1> QED
  BY <1>1, <1>2 DEF Word

\* The first byte alone decides how many words playback reads.
LEMMA EntrySizeHead == TypeOK => \A c \in Nat : EntrySize(c) = SizeOf(LogAt(c)[0])
<1> SUFFICES ASSUME TypeOK, NEW c \in Nat PROVE EntrySize(c) = SizeOf(LogAt(c)[0])
  OBVIOUS
<1>1. \A n \in {1, 2} : EntryAt(c, n)[0] = LogAt(c)[0]
  <2>1. \A n \in {1, 2} : 0 < n * WriteSize
    BY SizesAssumption
  <2>2. c + (0 \div WriteSize) = c /\ 0 % WriteSize = 0
    BY SizesAssumption
  <2> QED
    BY <2>1, <2>2 DEF EntryAt
<1>2. HeaderWords \in {1, 2}
  BY DEF HeaderWords
<1> QED
  BY <1>1, <1>2 DEF EntrySize, EntryType, MultibyteLength, SizeOf

\* The positions behind the entries of the log.
Nx == [k \in {i \in LogSlot : ~LogEndsAt(i) /\ ~CorruptAt(i)} |-> k + EntrySize(k)]

\* From an entry playback moves on, to the end of the log area at most.
LEMMA NxSteps ==
    TypeOK => /\ Steps(Nx)
              /\ \A k \in DOMAIN Nx : Nx[k] <= k + 4 /\ Nx[k] <= LogWords + 4
              /\ \A k \in Nat : k \in DOMAIN Nx <=> ~LogEndsAt(k) /\ ~CorruptAt(k)
<1> SUFFICES ASSUME TypeOK
             PROVE  /\ Steps(Nx)
                    /\ \A k \in DOMAIN Nx : Nx[k] <= k + 4 /\ Nx[k] <= LogWords + 4
                    /\ \A k \in Nat : k \in DOMAIN Nx <=> ~LogEndsAt(k) /\ ~CorruptAt(k)
  OBVIOUS
<1>1. LogWords \in Nat /\ LogSlot = 0..(LogWords - 1)
  BY BlankType DEF LogSlot
<1>2. \A k \in LogSlot : EntrySize(k) \in 1..4
  BY <1>1, EntrySizeHead, LogAtType, SizeOfType
<1>3. DOMAIN Nx = {i \in LogSlot : ~LogEndsAt(i) /\ ~CorruptAt(i)}
  BY DEF Nx
<1>4. \A k \in DOMAIN Nx : k \in LogSlot /\ Nx[k] = k + EntrySize(k)
  BY DEF Nx
<1>5. \A k \in DOMAIN Nx : k \in Nat /\ Nx[k] \in Nat /\ k < Nx[k] /\ Nx[k] <= k + 4 /\ Nx[k] <= LogWords + 4
  BY <1>1, <1>2, <1>4
<1>6. \A k \in Nat : ~LogEndsAt(k) => k \in LogSlot
  BY <1>1 DEF LogEndsAt
<1> QED
  BY <1>3, <1>5, <1>6 DEF Steps

\* What playback reads is a chain.
Read == Starts[LogWords + 4]

\* The slots that Starts collects are those that playback reads.
LEMMA ReadIsChain == TypeOK => IsChain(Read, Nx) /\ Read \subseteq 0..(LogWords + 4)
<1> SUFFICES ASSUME TypeOK PROVE IsChain(Read, Nx) /\ Read \subseteq 0..(LogWords + 4)
  OBVIOUS
<1> DEFINE n == LogWords + 4
<1>1. n \in Nat
  BY BlankType
<1>2. \A k \in Nat : \A c : (~LogEndsAt(k) /\ k + EntrySize(k) = c /\ ~CorruptAt(k))
                              <=> (k \in DOMAIN Nx /\ Nx[k] = c)
  BY NxSteps DEF Nx
<1> DEFINE Body(f) == [c \in 0..n |->
               IF c = 0 THEN {0}
               ELSE UNION {IF \E k \in s : /\ k + 4 >= c
                                          /\ ~LogEndsAt(k) /\ k + EntrySize(k) = c
                                          /\ ~CorruptAt(k)
                           THEN s \cup {c} ELSE s : s \in {f[c - 1]}}]
<1>3. \A f : StartsOf(f, n) <=> f = Body(f)
  <2>1. \A t, c : UNION {NextStarts(s, c) : s \in {t}} = NextStarts(t, c)
    OBVIOUS
  <2>2. \A f : Body(f) = [c \in 0..n |-> IF c = 0 THEN {0}
                                        ELSE UNION {NextStarts(s, c) : s \in {f[c - 1]}}]
    BY DEF NextStarts
  <2> HIDE DEF Body
  <2> QED
    BY <2>1, <2>2 DEF StartsOf
<1>4. PICK f : f = Body(f)
  BY <1>1, <1>3, StartsExists
<1>5. Starts = CHOOSE g : g = Body(g)
  BY DEF Starts
<1>6. Starts = Body(Starts)
  <2> HIDE DEF Body
  <2> QED
    BY <1>4, <1>5, Zenon
<1>7. StartsOf(Starts, n)
  BY <1>3, <1>6
<1> HIDE DEF n, Body
<1>8. IsChain(Starts[n], Nx) /\ Starts[n] \subseteq 0..n
  BY <1>1, <1>2, <1>7, NxSteps, StartsIsChain DEF n
<1> QED
  BY <1>8 DEF Read, n

\* The chain ends at PlaybackStop, the only position with no entry to read.
LEMMA StopFacts ==
    TypeOK => /\ PlaybackStop \in Read /\ PlaybackStop \in Nat
              /\ \A k \in Read : k \in Nat /\ k <= PlaybackStop
              /\ \A k \in Read : k \in DOMAIN Nx <=> k # PlaybackStop
              /\ \A k \in Read : k < PlaybackStop => Nx[k] <= PlaybackStop
<1> SUFFICES ASSUME TypeOK
             PROVE  /\ PlaybackStop \in Read /\ PlaybackStop \in Nat
                    /\ \A k \in Read : k \in Nat /\ k <= PlaybackStop
                    /\ \A k \in Read : k \in DOMAIN Nx <=> k # PlaybackStop
                    /\ \A k \in Read : k < PlaybackStop => Nx[k] <= PlaybackStop
  OBVIOUS
<1> DEFINE stop == PlaybackStop
<1>1. IsChain(Read, Nx) /\ Read \subseteq 0..(LogWords + 4) /\ LogWords + 4 \in Nat
  BY ReadIsChain, BlankType
<1>2. Steps(Nx)
  BY NxSteps
<1>3. stop = Max(Read)
  BY DEF PlaybackStop, Read
<1>4. Read # {}
  BY <1>1 DEF IsChain
<1>5. stop \in Read /\ \A k \in Read : k <= stop
  BY <1>1, <1>3, <1>4, MaxIsGreatest
<1> HIDE DEF stop
<1>6. \A k \in Read : k \in Nat
  BY <1>1
<1>7. stop \notin DOMAIN Nx
  <2> SUFFICES ASSUME stop \in DOMAIN Nx PROVE FALSE
    OBVIOUS
  <2>1. Nx[stop] \in Read /\ stop < Nx[stop] /\ Nx[stop] \in Nat /\ stop \in Nat
    BY <1>1, <1>2, <1>5, <1>6 DEF IsChain, Steps
  <2>2. Nx[stop] <= stop
    BY <1>5, <2>1
  <2> QED
    BY <2>1, <2>2
<1>8. \A k \in Read : k # stop => k < stop
  BY <1>5, <1>6
<1>9. \A k \in Read : k < stop => k \in DOMAIN Nx /\ Nx[k] <= stop
  BY <1>1, <1>2, <1>5, ChainOrder
<1> QED
  BY <1>5, <1>6, <1>7, <1>8, <1>9 DEF stop

\* A position of the chain with no entry to read is where playback stops.
LEMMA StopsHere ==
    TypeOK => \A e \in Read : LogEndsAt(e) \/ CorruptAt(e) => PlaybackStop = e
<1> SUFFICES ASSUME TypeOK, NEW e \in Read, LogEndsAt(e) \/ CorruptAt(e)
             PROVE  PlaybackStop = e
  OBVIOUS
<1>1. e \in Nat
  BY StopFacts
<1> QED
  BY <1>1, StopFacts, NxSteps

-----------------------------------------------------------------------------
(* What the entries assign.                                                *)

\* What the entry at slot c assigns.
Writes(c, f) == {<<c, a, f[a]>> : a \in DOMAIN f}
Bytes(c) == EntryBytes(Entry(c), 0)

\* The assignments of the entries before slot e.
Logged(e) == {t \in Assignments : t[1] < e}

\* The assignments are those of the entries that playback applies.
LEMMA AssignmentsAre ==
    \A t : t \in Assignments <=> \E c \in Read : c # PlaybackStop /\ t \in Writes(c, Bytes(c))
<1>1. PlaybackStop = Max(Read)
  BY DEF PlaybackStop, Read
<1>2. \A c : UNION {{<<c, a, EntryBytes(r, 0)[a]>> : a \in DOMAIN EntryBytes(r, 0)} : r \in {Entry(c)}}
               = Writes(c, Bytes(c))
  <2> TAKE c
  <2> DEFINE W(r) == {<<c, a, EntryBytes(r, 0)[a]>> : a \in DOMAIN EntryBytes(r, 0)}
  <2>1. W(Entry(c)) = Writes(c, Bytes(c))
    BY DEF Writes, Bytes
  <2> HIDE DEF W
  <2>2. UNION {W(r) : r \in {Entry(c)}} = W(Entry(c))
    OBVIOUS
  <2> QED
    BY <2>1, <2>2 DEF W
<1>3. UNION {s \ {Max(s)} : s \in {Read}} = Read \ {PlaybackStop}
  BY <1>1
<1> DEFINE V(c) == UNION {{<<c, a, EntryBytes(r, 0)[a]>> : a \in DOMAIN EntryBytes(r, 0)}
                          : r \in {Entry(c)}}
           C == UNION {s \ {Max(s)} : s \in {Read}}
<1>4. Assignments = UNION {V(c) : c \in C}
  BY DEF Assignments, Read
<1> HIDE DEF V, C
<1>5. \A t : t \in Assignments <=> \E c \in C : t \in V(c)
  BY <1>4
<1> QED
  BY <1>2, <1>3, <1>5 DEF V, C

\* The contents d are what the assignments in A make of the contents b: the
\* assignment of the latest slot counts.
IsLatest(d, A, b) ==
    /\ d = [a \in Addr |-> d[a]]
    /\ \A a \in Addr :
         /\ (\A t \in A : t[2] # a) => d[a] = b[a]
         /\ \A t \in A : t[2] = a /\ (\A u \in A : u[2] = a => u[1] <= t[1]) => d[a] = t[3]

\* One more entry, behind the others.
LEMMA LatestStep ==
    ASSUME NEW d, NEW A, NEW b, IsLatest(d, A, b), NEW c \in Nat, NEW f,
           \A t \in A : t[1] \in Nat /\ t[1] < c
    PROVE  IsLatest([a \in Addr |-> IF a \in DOMAIN f THEN f[a] ELSE d[a]],
                    A \cup Writes(c, f), b)
<1> DEFINE g == [a \in Addr |-> IF a \in DOMAIN f THEN f[a] ELSE d[a]]
           B == A \cup Writes(c, f)
<1>1. \A t \in Writes(c, f) : t[1] = c /\ t[2] \in DOMAIN f /\ t[3] = f[t[2]]
  BY DEF Writes
<1>2. \A a \in DOMAIN f : \E t \in Writes(c, f) : t[1] = c /\ t[2] = a /\ t[3] = f[a]
  <2> TAKE a \in DOMAIN f
  <2>1. <<c, a, f[a]>> \in Writes(c, f)
    BY DEF Writes
  <2> WITNESS <<c, a, f[a]>> \in Writes(c, f)
  <2> QED
    OBVIOUS
<1>3. ASSUME NEW a \in Addr, \A t \in B : t[2] # a PROVE g[a] = b[a]
  <2>1. a \notin DOMAIN f
    BY <1>2, <1>3
  <2>2. g[a] = d[a]
    BY <2>1
  <2> QED
    BY <1>3, <2>2 DEF IsLatest
<1>4. ASSUME NEW a \in Addr, NEW t \in B, t[2] = a, \A u \in B : u[2] = a => u[1] <= t[1]
      PROVE  g[a] = t[3]
  <2>1. CASE a \in DOMAIN f
    <3>1. PICK u \in Writes(c, f) : u[1] = c /\ u[2] = a /\ u[3] = f[a]
      BY <1>2, <2>1
    <3>2. c <= t[1]
      BY <1>4, <3>1
    <3>3. t \notin A
      BY <3>2
    <3>4. t \in Writes(c, f)
      BY <3>3
    <3>5. t[3] = f[a]
      BY <1>1, <1>4, <3>4
    <3> QED
      BY <2>1, <3>5
  <2>2. CASE a \notin DOMAIN f
    <3>1. t \notin Writes(c, f)
      BY <1>1, <1>4, <2>2
    <3>2. t \in A /\ \A u \in A : u[2] = a => u[1] <= t[1]
      BY <1>4, <3>1
    <3>3. d[a] = t[3]
      BY <1>4, <3>2 DEF IsLatest
    <3> QED
      BY <2>2, <3>3
  <2> QED
    BY <2>1, <2>2
<1>5. g = [a \in Addr |-> g[a]]
  OBVIOUS
<1> HIDE DEF g, B
<1>6. IsLatest(g, B, b)
  BY <1>3, <1>4, <1>5 DEF IsLatest
<1> QED
  BY <1>6 DEF g, B

\* The latest assignment to an address exists.
LEMMA LatestExists ==
    ASSUME NEW n \in Nat, NEW A, \A t \in A : t[1] \in 0..n,
           NEW a, \E t \in A : t[2] = a
    PROVE  \E t \in A : t[2] = a /\ \A u \in A : u[2] = a => u[1] <= t[1]
<1> DEFINE S == {t[1] : t \in {u \in A : u[2] = a}}
<1>1. S \subseteq 0..n /\ S # {}
  OBVIOUS
<1> HIDE DEF S
<1>2. Max(S) \in S /\ \A k \in S : k <= Max(S)
  BY <1>1, MaxIsGreatest
<1>3. PICK t \in A : t[2] = a /\ t[1] = Max(S)
  BY <1>2 DEF S
<1>4. \A u \in A : u[2] = a => u[1] \in S
  BY DEF S
<1> QED
  BY <1>2, <1>3, <1>4

\* The contents are determined.
LEMMA LatestUnique ==
    ASSUME NEW n \in Nat, NEW A, \A t \in A : t[1] \in 0..n,
           NEW b, NEW d, NEW e, IsLatest(d, A, b), IsLatest(e, A, b)
    PROVE  d = e
<1> SUFFICES ASSUME NEW a \in Addr PROVE d[a] = e[a]
  BY DEF IsLatest
<1>1. CASE \A t \in A : t[2] # a
  BY <1>1 DEF IsLatest
<1>2. CASE \E t \in A : t[2] = a
  <2>1. PICK t \in A : t[2] = a /\ \A u \in A : u[2] = a => u[1] <= t[1]
    BY <1>2, LatestExists
  <2> QED
    BY <2>1 DEF IsLatest
<1> QED
  BY <1>1, <1>2

\* The consolidated data, as playback starts with it.
Base == IF cons.valid THEN cons.data ELSE Zeros

\* The assignments before a slot grow by one entry at a time.
LEMMA LoggedFacts ==
    TypeOK => /\ \A t \in Assignments : t[1] \in 0..(LogWords + 4)
              /\ Logged(0) = {}
              /\ Logged(PlaybackStop) = Assignments
              /\ \A c \in Read : c # PlaybackStop
                    => Logged(c + EntrySize(c)) = Logged(c) \cup Writes(c, Bytes(c))
<1> SUFFICES ASSUME TypeOK
             PROVE  /\ \A t \in Assignments : t[1] \in 0..(LogWords + 4)
                    /\ Logged(0) = {}
                    /\ Logged(PlaybackStop) = Assignments
                    /\ \A c \in Read : c # PlaybackStop
                         => Logged(c + EntrySize(c)) = Logged(c) \cup Writes(c, Bytes(c))
  OBVIOUS
<1>1. \A c : \A t \in Writes(c, Bytes(c)) : t[1] = c
  BY DEF Writes
<1>2. Read \subseteq 0..(LogWords + 4) /\ LogWords \in Nat
  BY ReadIsChain, BlankType
<1>3. \A t \in Assignments : t[1] \in Read /\ t[1] # PlaybackStop /\ t \in Writes(t[1], Bytes(t[1]))
  BY <1>1, AssignmentsAre
<1>4. \A t \in Assignments : t[1] \in 0..(LogWords + 4)
  BY <1>2, <1>3
<1>5. Logged(0) = {}
  BY <1>2, <1>4 DEF Logged
<1>6. Logged(PlaybackStop) = Assignments
  <2>1. \A t \in Assignments : t[1] < PlaybackStop
    BY <1>3, StopFacts
  <2> QED
    BY <2>1 DEF Logged
<1>7. ASSUME NEW c \in Read, c # PlaybackStop
      PROVE  Logged(c + EntrySize(c)) = Logged(c) \cup Writes(c, Bytes(c))
  <2>1. c \in Nat /\ c \in DOMAIN Nx /\ Nx[c] = c + EntrySize(c) /\ c < Nx[c] /\ Nx[c] \in Nat
    BY <1>7, StopFacts, NxSteps DEF Nx, Steps
  <2>2. \A k \in Read : k \in Nat /\ (k < Nx[c] <=> k < c \/ k = c)
    <3> SUFFICES ASSUME NEW k \in Read PROVE k \in Nat /\ (k < Nx[c] <=> k < c \/ k = c)
      OBVIOUS
    <3>1. k \in Nat
      BY StopFacts
    <3>2. c < k => Nx[c] <= k
      BY <1>7, <2>1, ReadIsChain, NxSteps, ChainOrder
    <3> QED
      BY <2>1, <3>1, <3>2
  <2>3. \A t : t \in Logged(Nx[c]) <=> t \in Logged(c) \/ (t \in Assignments /\ t[1] = c)
    BY <1>3, <2>2 DEF Logged
  <2>4. \A t : (t \in Assignments /\ t[1] = c) <=> t \in Writes(c, Bytes(c))
    BY <1>1, <1>3, <1>7, AssignmentsAre
  <2> QED
    BY <2>1, <2>3, <2>4
<1> QED
  BY <1>4, <1>5, <1>6, <1>7

\* What a restart recovers.
LEMMA RecoveredIsLatest ==
    TypeOK => /\ IsLatest(Recovered, Assignments, Base)
              /\ \A d : IsLatest(d, Assignments, Base) => Recovered = d
<1> SUFFICES ASSUME TypeOK
             PROVE  /\ IsLatest(Recovered, Assignments, Base)
                    /\ \A d : IsLatest(d, Assignments, Base) => Recovered = d
  OBVIOUS
<1> DEFINE A == Assignments
           L == Latest(A)
<1>1. Recovered = L
  BY DEF Recovered
<1>2. \A t \in A : t[1] \in 0..(LogWords + 4)
  BY LoggedFacts
<1>3. \A t, u \in A : t[1] = u[1] /\ t[2] = u[2] => t[3] = u[3]
  <2>1. \A c : \A t \in Writes(c, Bytes(c)) : t[1] = c /\ t[3] = Bytes(c)[t[2]]
    BY DEF Writes
  <2>2. \A t \in A : t[3] = Bytes(t[1])[t[2]]
    BY <2>1, AssignmentsAre
  <2> QED
    BY <2>2
<1> DEFINE Pick(a) == CHOOSE t \in {v \in A : v[2] = a} : \A u \in {v \in A : v[2] = a} : u[1] <= t[1]
<1>4. L = [a \in Addr |-> IF {t \in A : t[2] = a} # {} THEN Pick(a)[3]
                          ELSE IF cons.valid THEN cons.data[a] ELSE 0]
  BY DEF Latest
<1>5. \A a \in Addr : Base[a] = IF cons.valid THEN cons.data[a] ELSE 0
  BY DEF Base, Zeros
<1>6. ASSUME NEW a \in Addr, \A t \in A : t[2] # a PROVE L[a] = Base[a]
  <2>1. {t \in A : t[2] = a} = {}
    BY <1>6
  <2> HIDE DEF A, Pick, L
  <2> QED
    BY <1>4, <1>5, <2>1
<1>7. ASSUME NEW a \in Addr, NEW t \in A, t[2] = a, \A u \in A : u[2] = a => u[1] <= t[1]
      PROVE  L[a] = t[3]
  <2>1. {u \in A : u[2] = a} # {}
    BY <1>7
  <2>2. Pick(a) \in {u \in A : u[2] = a} /\ \A u \in {u \in A : u[2] = a} : u[1] <= Pick(a)[1]
    <3> DEFINE H == {u \in A : u[2] = a}
    <3>1. t \in H /\ \A u \in H : u[1] <= t[1]
      BY <1>7
    <3> HIDE DEF H
    <3>2. (CHOOSE v \in H : \A u \in H : u[1] <= v[1]) \in H
          /\ \A u \in H : u[1] <= (CHOOSE v \in H : \A w \in H : w[1] <= v[1])[1]
      BY <3>1, Zenon
    <3> QED
      BY <3>2 DEF H
  <2> HIDE DEF Pick
  <2>3. Pick(a) \in A /\ Pick(a)[2] = a /\ t[1] <= Pick(a)[1] /\ Pick(a)[1] <= t[1]
    BY <1>7, <2>2
  <2>4. Pick(a)[1] = t[1]
    <3>1. Pick(a)[1] \in Nat /\ t[1] \in Nat
      BY <1>2, <2>3
    <3> QED
      BY <2>3, <3>1
  <2>5. Pick(a)[3] = t[3]
    BY <1>3, <1>7, <2>3, <2>4
  <2> QED
    BY <1>4, <2>1, <2>5
<1>8. L = [a \in Addr |-> L[a]]
  BY <1>4
<1> HIDE DEF A, L, Pick
<1>9. IsLatest(L, A, Base)
  BY <1>6, <1>7, <1>8 DEF IsLatest
<1>10. \A d : IsLatest(d, A, Base) => L = d
  <2>1. LogWords + 4 \in Nat
    BY BlankType
  <2> QED
    BY <1>2, <1>9, <2>1, LatestUnique
<1> QED
  BY <1>1, <1>9, <1>10 DEF A

-----------------------------------------------------------------------------
(* What write_raw encodes, playback_log decodes.                           *)

\* The length in the first byte of a multi-byte entry is one that write_raw uses.
Plain(b) == b \div 64 = 0 => (b \div 8) % 8 <= MultibyteMax

\* The entry x of n words is complete and valid.
IsEntry(x, n) ==
    /\ x \in Raw /\ n = SizeOf(x[0]) /\ Plain(x[0]) /\ x[0] # 0
    /\ EntryKnown(x) /\ EntryFits(x)
    /\ \A b \in 0..7 : b >= n * WriteSize => x[b] = 0

\* The word that holds a byte of an entry, and the byte of that word.
LEMMA WordOfByte ==
    ASSUME NEW b \in 0..7
    PROVE  b % WriteSize \in 0..(WriteSize - 1) /\ (b \div WriteSize) * WriteSize + (b % WriteSize) = b
<1>1. /\ b % 2 \in 0..1 /\ (b \div 2) * 2 + (b % 2) = b
      /\ b % 4 \in 0..3 /\ (b \div 4) * 4 + (b % 4) = b
      /\ b % 8 \in 0..7 /\ (b \div 8) * 8 + (b % 8) = b
  OBVIOUS
<1>2. CASE WriteSize = 2
  BY <1>1, <1>2
<1>3. CASE WriteSize = 4
  BY <1>1, <1>3
<1>4. CASE WriteSize = 8
  BY <1>1, <1>4
<1> QED
  BY <1>2, <1>3, <1>4, SizesAssumption

\* An entry whose words are in the log is read back.
LEMMA ReadBack ==
    TypeOK => \A c \in LogSlot : \A x, n :
                IsEntry(x, n) /\ (\A j \in 1..n : LogAt(c + j - 1) = WordsOf(x, n)[j])
                  => Entry(c) = x /\ EntrySize(c) = n /\ ~LogEndsAt(c) /\ ~CorruptAt(c)
<1> SUFFICES ASSUME TypeOK, NEW c \in LogSlot, NEW x, NEW n, IsEntry(x, n),
                    \A j \in 1..n : LogAt(c + j - 1) = WordsOf(x, n)[j]
             PROVE  Entry(c) = x /\ EntrySize(c) = n /\ ~LogEndsAt(c) /\ ~CorruptAt(c)
  OBVIOUS
<1>1. c \in Nat /\ c < LogWords /\ x \in Raw /\ x[0] \in Byte
  BY BlankType DEF LogSlot, IsEntry, Raw
<1>2. n \in 1..4 /\ n * WriteSize <= 8
  BY <1>1, SizeOfType DEF IsEntry
<1>3. \A j \in 1..n, i \in 0..(WriteSize - 1) : LogAt(c + j - 1)[i] = x[(j - 1) * WriteSize + i]
  BY ZenonT(60) DEF WordsOf
<1>4. LogAt(c)[0] = x[0]
  <2>1. 1 \in 1..n /\ 0 \in 0..(WriteSize - 1) /\ c + 1 - 1 = c /\ (1 - 1) * WriteSize + 0 = 0
    BY <1>1, <1>2, SizesAssumption
  <2> QED
    BY <1>3, <2>1
<1>5. EntrySize(c) = n
  BY <1>1, <1>4, EntrySizeHead DEF IsEntry
<1>6. \A b \in 0..7 : b < n * WriteSize => b \div WriteSize \in 0..(n - 1)
  <2> SUFFICES ASSUME NEW b \in 0..7, b < n * WriteSize
               PROVE  b \div WriteSize \in 0..(n - 1)
    OBVIOUS
  <2>1. CASE WriteSize = 2
    <3>1. b < n * 2 /\ n \in 1..4
      BY <1>2, <2>1
    <3> QED
      BY <2>1, <3>1
  <2>2. CASE WriteSize = 4
    <3>1. b < n * 4 /\ n \in 1..4
      BY <1>2, <2>2
    <3> QED
      BY <2>2, <3>1
  <2>3. CASE WriteSize = 8
    <3>1. b < n * 8 /\ n \in 1..4
      BY <1>2, <2>3
    <3> QED
      BY <2>3, <3>1
  <2> QED
    BY <2>1, <2>2, <2>3, SizesAssumption
<1>7. \A b \in 0..7 : b < n * WriteSize => LogAt(c + (b \div WriteSize))[b % WriteSize] = x[b]
  <2> SUFFICES ASSUME NEW b \in 0..7, b < n * WriteSize
               PROVE  LogAt(c + (b \div WriteSize))[b % WriteSize] = x[b]
    OBVIOUS
  <2> DEFINE q == b \div WriteSize
             i == b % WriteSize
  <2>1. q \in 0..(n - 1)
    BY <1>6
  <2>2. i \in 0..(WriteSize - 1) /\ q * WriteSize + i = b
    BY WordOfByte
  <2> HIDE DEF q, i
  <2>3. q + 1 \in 1..n /\ c + (q + 1) - 1 = c + q /\ (q + 1) - 1 = q
    BY <1>1, <1>2, <2>1
  <2>4. LogAt(c + q)[i] = x[q * WriteSize + i]
    BY <1>3, <2>2, <2>3
  <2> QED
    BY <2>2, <2>4 DEF q, i
<1>8. \A b \in 0..7 : ~(b < n * WriteSize) => x[b] = 0
  <2>1. n * WriteSize \in Nat
    BY <1>2, SizesAssumption
  <2> QED
    BY <2>1 DEF IsEntry
<1>9. Entry(c) = x
  <2>1. Entry(c) = [b \in 0..7 |-> IF b < n * WriteSize
                                   THEN LogAt(c + (b \div WriteSize))[b % WriteSize] ELSE 0]
    BY <1>5 DEF Entry, EntryAt
  <2>2. Entry(c) = [b \in 0..7 |-> x[b]]
    BY <1>7, <1>8, <2>1
  <2> QED
    BY <1>1, <2>2 DEF Raw
<1>10. ~LogEndsAt(c)
  <2>1. ZeroWord[0] = 0
    BY SizesAssumption DEF ZeroWord
  <2> QED
    BY <1>1, <1>4, <2>1, BlankType DEF LogEndsAt, IsEntry
<1> QED
  BY <1>5, <1>9, <1>10 DEF CorruptAt, IsEntry

\* The entry for the first t bytes of a request.
Chunk(r, t) == [y \in r[1]..(r[1] + t - 1) |-> r[2][y - r[1] + 1]]

\* write_raw_multibyte writes a valid entry that assigns its bytes.
LEMMA EncodesMultibyte ==
    ASSUME NEW a \in Nat, NEW bytes \in Seq(Byte), Len(bytes) \in 1..5,
           a + Len(bytes) <= LogicalSize
    PROVE  LET x == MakeMultibyte(a, bytes)
           IN  /\ IsEntry(x, EntryWords(Len(bytes)))
               /\ EntryBytes(x, 0) = [y \in a..(a + Len(bytes) - 1) |-> bytes[y - a + 1]]
<1> DEFINE x == MakeMultibyte(a, bytes)
           high == (a \div 65536) % 8
           l == Len(bytes)
<1>1. x \in Raw
  BY MakeMultibyteType
<1> HIDE DEF l
<1> l \in 1..5 /\ a + l <= LogicalSize
  BY DEF l
<1>0. a < 524288 /\ LogicalSize \in Nat
  BY SizesAssumption, SMTT(60)
<1>2. /\ x[0] = l * 8 + high /\ x[1] = (a \div 256) % 256 /\ x[2] = a % 256
      /\ \A i \in 3..7 : x[i] = IF i - 2 <= l THEN bytes[i - 2] ELSE 0
  <2> DEFINE p == (a \div 256) % 256
             q == a % 256
             y(i) == IF i - 2 <= l THEN bytes[i - 2] ELSE 0
             h == l * 8 + high
  <2>1. x = [i \in 0..7 |-> CASE i = 0 -> h [] i = 1 -> p [] i = 2 -> q [] OTHER -> y(i)]
    BY DEF MakeMultibyte, l
  <2> HIDE DEF x, p, q, y, h
  <2>2. x[0] = h /\ x[1] = p /\ x[2] = q
    BY <2>1
  <2>3. ASSUME NEW i \in 3..7 PROVE x[i] = y(i)
    <3>1. i # 0 /\ i # 1 /\ i # 2 /\ i \in 0..7
      OBVIOUS
    <3> QED
      BY <2>1, <3>1
  <2> QED
    BY <2>2, <2>3 DEF p, q, y, h
<1> HIDE DEF x
<1>3. high \in 0..7 /\ high * 65536 + ((a \div 256) % 256) * 256 + (a % 256) = a
  BY <1>0, SMTT(60)
<1> HIDE DEF high
<1>4. x[0] % 8 = high /\ x[0] \div 8 = l /\ x[0] \div 64 = 0 /\ x[0] # 0
  <2>1. \A h \in 0..7, m \in 1..5 : LET y == m * 8 + h
                                   IN  y % 8 = h /\ y \div 8 = m /\ y \div 64 = 0 /\ y # 0
    BY SMTT(60)
  <2>2. high \in 0..7 /\ x[0] = l * 8 + high
    BY <1>2, <1>3
  <2> QED
    BY <2>1, <2>2
<1>5. MultibyteAddress(x) = a /\ MultibyteLength(x) = l /\ EntryType(x) = 0
  <2> DEFINE p == (a \div 256) % 256
             q == a % 256
  <2>1. x[0] % 8 = high /\ x[1] = p /\ x[2] = q /\ high * 65536 + p * 256 + q = a
    BY <1>2, <1>3, <1>4, SMTT(60)
  <2> HIDE DEF p, q
  <2>2. MultibyteAddress(x) = a
    BY <2>1, SMTT(60) DEF MultibyteAddress
  <2>3. l % 8 = l
    OBVIOUS
  <2>4. MultibyteLength(x) = l /\ EntryType(x) = 0
    BY <1>4, <2>3, SMTT(60) DEF MultibyteLength, EntryType
  <2> QED
    BY <2>2, <2>4
<1>6. EntryWords(l) = SizeOf(x[0]) /\ Plain(x[0])
  BY <1>4 DEF SizeOf, Plain, MultibyteMax
<1>7. EntryKnown(x) /\ EntryFits(x)
  BY <1>5 DEF EntryKnown, EntryFits
<1>8. \A b \in 0..7 : b >= EntryWords(l) * WriteSize => x[b] = 0
  <2> SUFFICES ASSUME NEW b \in 0..7, b >= EntryWords(l) * WriteSize PROVE x[b] = 0
    OBVIOUS
  <2>1. b >= 3 + l
    <3>1. CASE WriteSize = 2
      BY <3>1 DEF EntryWords
    <3>2. CASE WriteSize = 4
      BY <3>2 DEF EntryWords
    <3>3. CASE WriteSize = 8
      BY <3>3 DEF EntryWords
    <3> QED
      BY <3>1, <3>2, <3>3, SizesAssumption
  <2>2. b \in 3..7 /\ ~(b - 2 <= l)
    BY <2>1
  <2> QED
    BY <1>2, <2>2
<1>9. EntryBytes(x, 0) = [y \in a..(a + l - 1) |-> bytes[y - a + 1]]
  <2> DEFINE D == a..(a + l - 1)
             f(y) == IF 3 + y - a <= 7 THEN x[3 + y - a] ELSE 0
             g(y) == bytes[y - a + 1]
  <2>1. EntryBytes(x, 0) = [y \in D |-> f(y)]
    BY <1>5 DEF EntryBytes
  <2>2. \A y \in D : /\ 3 + y - a <= 7 /\ 3 + y - a \in 3..7
                     /\ (3 + y - a) - 2 = y - a + 1 /\ y - a + 1 <= l
    BY SMTT(60)
  <2>3. ASSUME NEW y \in D PROVE f(y) = g(y)
    <3> DEFINE i == 3 + y - a
    <3>1. i \in 3..7 /\ i - 2 <= l /\ f(y) = x[i] /\ g(y) = bytes[i - 2]
      BY <2>2, SMTT(60)
    <3> HIDE DEF i, f, g
    <3>2. x[i] = IF i - 2 <= l THEN bytes[i - 2] ELSE 0
      BY <1>2, <3>1, ZenonT(60)
    <3> QED
      BY <3>1, <3>2, ZenonT(60)
  <2> HIDE DEF D, f, g
  <2>4. EntryBytes(x, 0) = [y \in D |-> g(y)]
    BY <2>1, <2>3
  <2> QED
    BY <2>4 DEF D, g
<1>10. IsEntry(x, EntryWords(l))
  BY <1>1, <1>4, <1>6, <1>7, <1>8 DEF IsEntry
<1> QED
  BY <1>9, <1>10 DEF x, l

\* write_raw_optimized_64 writes a valid entry that assigns its byte.
LEMMA EncodesOptimized64 ==
    ASSUME NEW a \in Nat, NEW b \in Byte, a < 64, a < LogicalSize, WriteSize = 2
    PROVE  LET x == MakeOptimized64(a, b)
           IN  IsEntry(x, 1) /\ EntryBytes(x, 0) = [y \in a..a |-> b]
<1> DEFINE x == MakeOptimized64(a, b)
<1>1. x \in Raw
  BY MakeOptimized64Type
<1>2. x[0] = 64 + a /\ x[1] = b /\ \A i \in 2..7 : x[i] = 0
  BY DEF MakeOptimized64
<1> HIDE DEF x
<1>3. x[0] \div 64 = 1 /\ x[0] % 64 = a /\ x[0] # 0
  BY <1>2
<1>4. EntryType(x) = 1 /\ Optimized64Address(x) = a
  BY <1>3 DEF EntryType, Optimized64Address
<1>5. SizeOf(x[0]) = 1 /\ Plain(x[0])
  BY <1>3 DEF SizeOf, Plain
<1>6. EntryKnown(x) /\ EntryFits(x)
  BY <1>4 DEF EntryKnown, EntryFits
<1>7. \A i \in 0..7 : i >= 1 * WriteSize => x[i] = 0
  BY <1>2
<1>8. EntryBytes(x, 0) = [y \in a..a |-> b]
  <2>1. {a} = a..a
    OBVIOUS
  <2> QED
    BY <1>2, <1>4, <2>1 DEF EntryBytes
<1>9. IsEntry(x, 1)
  BY <1>1, <1>3, <1>5, <1>6, <1>7 DEF IsEntry
<1> QED
  BY <1>8, <1>9 DEF x

\* write_raw_word_01 writes a valid entry that assigns its two bytes.
LEMMA EncodesWord01 ==
    ASSUME NEW a \in Nat, NEW v \in {0, 1}, a % 2 = 0, a < 16384, a + 2 <= LogicalSize,
           WriteSize = 2
    PROVE  LET x == MakeWord01(a, v)
           IN  /\ IsEntry(x, 1)
               /\ EntryBytes(x, 0) = [y \in a..(a + 1) |-> IF y = a THEN v ELSE 0]
<1> DEFINE x == MakeWord01(a, v)
           high == (a \div 512) % 32
<1> LogicalSize \in Nat
  BY SizesAssumption
<1>1. x \in Raw
  BY MakeWord01Type
<1>2. x[0] = 128 + v * 32 + high /\ x[1] = (a \div 2) % 256 /\ \A i \in 2..7 : x[i] = 0
  BY DEF MakeWord01
<1> HIDE DEF x
<1>3. high \in 0..31 /\ high * 512 + ((a \div 2) % 256) * 2 = a
  BY SMTT(60)
<1> HIDE DEF high
<1>4. /\ x[0] \div 64 = 2 /\ x[0] % 32 = high /\ (x[0] \div 32) % 2 = v /\ x[0] # 0
  BY <1>2, <1>3, SMTT(60)
<1>5. EntryType(x) = 2 /\ Word01Address(x) = a /\ Word01Value(x) = v
  BY <1>2, <1>3, <1>4 DEF EntryType, Word01Address, Word01Value
<1>6. SizeOf(x[0]) = 1 /\ Plain(x[0])
  BY <1>4 DEF SizeOf, Plain
<1>7. EntryKnown(x) /\ EntryFits(x)
  BY <1>5 DEF EntryKnown, EntryFits
<1>8. \A i \in 0..7 : i >= 1 * WriteSize => x[i] = 0
  BY <1>2
<1>9. EntryBytes(x, 0) = [y \in a..(a + 1) |-> IF y = a THEN v ELSE 0]
  <2>1. {a, a + 1} = a..(a + 1)
    OBVIOUS
  <2> QED
    BY <1>5, <2>1 DEF EntryBytes
<1>10. IsEntry(x, 1)
  BY <1>1, <1>4, <1>6, <1>7, <1>8 DEF IsEntry
<1> QED
  BY <1>9, <1>10 DEF x

\* One iteration of write_raw makes an entry that assigns what it takes from the
\* request.
LEMMA NextEntry ==
    ASSUME NEW r \in Nat \X Seq(Byte), Length(r) > 0, InRange(r)
    PROVE  \E x, n : /\ IsEntry(x, n) /\ NextWords(r) = WordsOf(x, n)
                     /\ EntryBytes(x, 0) = Chunk(r, NextTaken(r))
<1>1. /\ r[1] \in Nat /\ r[2] \in Seq(Byte) /\ r[2][1] \in Byte /\ Length(r) \in Nat
      /\ Length(r) = Len(r[2]) /\ r[1] + Length(r) <= LogicalSize /\ LogicalSize \in Nat
  BY SizesAssumption DEF Length, InRange
<1> DEFINE a == r[1]
           t == NextTaken(r)
<1>2. t \in 1..Length(r) /\ t <= 5
  BY NextTakenType
<1>3. CASE IsWord01(r)
  <2> DEFINE x == MakeWord01(a, r[2][1])
  <2>1. /\ r[2][1] \in {0, 1} /\ a % 2 = 0 /\ a < 16384 /\ WriteSize = 2 /\ r[2][2] = 0
        /\ t = 2 /\ a + 2 <= LogicalSize
    BY <1>1, <1>3 DEF IsWord01, NextTaken
  <2>2. /\ IsEntry(x, 1)
        /\ EntryBytes(x, 0) = [y \in a..(a + 1) |-> IF y = a THEN r[2][1] ELSE 0]
    <3> DEFINE v == r[2][1]
    <3>1. /\ v \in {0, 1} /\ a \in Nat /\ a % 2 = 0 /\ a < 16384 /\ a + 2 <= LogicalSize
          /\ WriteSize = 2
      BY <1>1, <2>1
    <3> HIDE DEF v, t, a
    <3>2. /\ IsEntry(MakeWord01(a, v), 1)
          /\ EntryBytes(MakeWord01(a, v), 0) = [y \in a..(a + 1) |-> IF y = a THEN v ELSE 0]
      BY <3>1, EncodesWord01
    <3> QED
      BY <3>2 DEF v
  <2>3. EntryBytes(x, 0) = Chunk(r, t)
    <3>1. \A y \in a..(a + 1) : (IF y = a THEN r[2][1] ELSE 0) = r[2][y - a + 1]
      <4> TAKE y \in a..(a + 1)
      <4>1. CASE y = a
        <5>1. y - a + 1 = 1
          BY <1>1, <4>1
        <5> QED
          BY <4>1, <5>1
      <4>2. CASE y = a + 1
        <5>1. y - a + 1 = 2 /\ y # a
          BY <1>1, <4>2
        <5> QED
          BY <2>1, <5>1
      <4> QED
        BY <1>1, <4>1, <4>2
    <3>2. a + t - 1 = a + 1
      BY <1>1, <2>1
    <3> HIDE DEF t, x
    <3> QED
      BY <2>2, <3>1, <3>2 DEF Chunk
  <2>4. NextWords(r) = WordsOf(x, 1)
    BY <1>3 DEF NextWords
  <2> QED
    BY <2>2, <2>3, <2>4
<1>4. CASE ~IsWord01(r) /\ WriteSize = 2 /\ a < OptLimit
  <2> DEFINE x == MakeOptimized64(a, r[2][1])
  <2>1. a < 64 /\ a < LogicalSize /\ t = 1
    BY <1>1, <1>4, SizesAssumption DEF NextTaken
  <2>2. IsEntry(x, 1) /\ EntryBytes(x, 0) = [y \in a..a |-> r[2][1]]
    BY <1>1, <1>4, <2>1, EncodesOptimized64
  <2>3. EntryBytes(x, 0) = Chunk(r, t)
    <3>1. \A y \in a..a : y - a + 1 = 1
      BY <1>1
    <3>2. a + t - 1 = a
      BY <1>1, <2>1
    <3> HIDE DEF t, x
    <3> QED
      BY <2>2, <3>1, <3>2 DEF Chunk
  <2>4. NextWords(r) = WordsOf(x, 1)
    BY <1>4 DEF NextWords
  <2> QED
    BY <2>2, <2>3, <2>4
<1>5. CASE ~IsWord01(r) /\ ~(WriteSize = 2 /\ a < OptLimit)
  <2> DEFINE bytes == SubSeq(r[2], 1, t)
             x == MakeMultibyte(a, bytes)
  <2>1. bytes \in Seq(Byte) /\ Len(bytes) = t /\ \A i \in 1..t : bytes[i] = r[2][i]
    <3>1. \A i \in 1..t : r[2][i] \in Byte
      BY <1>1, <1>2
    <3> HIDE DEF t
    <3>2. t \in Int /\ 1 <= t /\ t - 1 + 1 = t
      BY <1>1, <1>2
    <3>3. bytes \in Seq(Byte) /\ Len(bytes) = t
      BY <3>1, <3>2, SubSeqProperties
    <3>4. \A i \in 1..t : bytes[i] = r[2][i]
      <4>1. \A i \in 1..t : 1 + i - 1 = i
        OBVIOUS
      <4> QED
        BY <1>1, <1>2, <3>1, <3>2, <4>1, SubSeqProperties
    <3> QED
      BY <3>3, <3>4
  <2> HIDE DEF bytes
  <2>2. t \in 1..5 /\ a + t <= LogicalSize
    BY <1>1, <1>2
  <2>3. /\ IsEntry(x, EntryWords(t))
        /\ EntryBytes(x, 0) = [y \in a..(a + t - 1) |-> bytes[y - a + 1]]
    <3> HIDE DEF t
    <3> QED
      BY <1>1, <2>1, <2>2, EncodesMultibyte
  <2>4. EntryBytes(x, 0) = Chunk(r, t)
    <3> HIDE DEF t, x
    <3>1. \A y \in a..(a + t - 1) : y - a + 1 \in 1..t
      BY <1>1, <2>2
    <3> QED
      BY <2>1, <2>3, <3>1 DEF Chunk
  <2>5. NextWords(r) = WordsOf(x, EntryWords(t))
    BY <1>5 DEF NextWords, bytes
  <2> QED
    BY <2>3, <2>4, <2>5
<1> QED
  BY <1>3, <1>4, <1>5

\* The contents d with the request r stored over them.
Overlay(d, r) == [a \in Addr |-> IF a - r[1] \in 0..(Length(r) - 1)
                                 THEN r[2][a - r[1] + 1] ELSE d[a]]

\* The rest of a request, stored over its first entry, is the whole request.
Rest(r) == <<r[1] + NextTaken(r), SubSeq(r[2], NextTaken(r) + 1, Length(r))>>

\* What the next entry assigns and what remains of the request make up the request.
LEMMA OverlayRest ==
    ASSUME NEW r \in Nat \X Seq(Byte), Length(r) > 0, NEW d, NEW x,
           EntryBytes(x, 0) = Chunk(r, NextTaken(r))
    PROVE  /\ Overlay(Applied(d, x, 0), Rest(r)) = Overlay(d, r)
           /\ Rest(r) \in Nat \X Seq(Byte) /\ Length(Rest(r)) = Length(r) - NextTaken(r)
           /\ InRange(r) => InRange(Rest(r))
<1> DEFINE t == NextTaken(r)
           l == Length(r)
           a == r[1]
           q == r[2]
           s == Rest(r)
<1>1. t \in 1..l /\ l \in Nat /\ a \in Nat /\ q \in Seq(Byte) /\ l = Len(q)
  BY NextTakenType DEF Length
<1>2. s[1] = a + t /\ s[2] = SubSeq(q, t + 1, l)
  BY DEF Rest
<1> HIDE DEF t, s
<1>3. Len(s[2]) = l - t /\ \A i \in 1..(l - t) : s[2][i] = q[t + i]
  <2>1. t + 1 \in Int /\ l \in Int /\ \A i \in (t + 1)..l : q[i] \in Byte
    BY <1>1
  <2>2. Len(s[2]) = l - t
    <3>1. CASE t = l
      BY <1>1, <1>2, <3>1
    <3>2. CASE t < l
      BY <1>1, <1>2, <2>1, <3>2
    <3> QED
      BY <1>1, <3>1, <3>2
  <2>3. \A i \in 1..(l - t) : s[2][i] = q[t + i]
    BY <1>1, <1>2
  <2> QED
    BY <2>2, <2>3
<1>4. Length(s) = l - t
  BY <1>3 DEF Length
<1>5. EntryBytes(x, 0) = [y \in a..(a + t - 1) |-> q[y - a + 1]]
  BY DEF Chunk, t
<1>6. s \in Nat \X Seq(Byte)
  BY RemainingType DEF Rest, s
<1>7. InRange(r) => InRange(s)
  BY <1>1, <1>2, <1>4, SizesAssumption DEF InRange
<1>8. \A y \in Addr : Overlay(Applied(d, x, 0), s)[y] = Overlay(d, r)[y]
  <2> SUFFICES ASSUME NEW y \in Addr
               PROVE  Overlay(Applied(d, x, 0), s)[y] = Overlay(d, r)[y]
    OBVIOUS
  <2> y \in Int
    BY DEF Addr
  <2>1. Applied(d, x, 0)[y] = IF y \in a..(a + t - 1) THEN q[y - a + 1] ELSE d[y]
    BY <1>5 DEF Applied
  <2>2. Overlay(Applied(d, x, 0), s)[y] = IF y - (a + t) \in 0..(l - t - 1)
                                          THEN s[2][y - (a + t) + 1] ELSE Applied(d, x, 0)[y]
    BY <1>2, <1>4 DEF Overlay
  <2>3. Overlay(d, r)[y] = IF y - a \in 0..(l - 1) THEN q[y - a + 1] ELSE d[y]
    BY DEF Overlay
  <2>4. CASE y - (a + t) \in 0..(l - t - 1)
    <3>1. y - (a + t) + 1 \in 1..(l - t) /\ t + (y - (a + t) + 1) = y - a + 1 /\ y - a \in 0..(l - 1)
      BY <1>1, <2>4, SMTT(60)
    <3>2. s[2][y - (a + t) + 1] = q[y - a + 1]
      BY <1>3, <3>1
    <3> QED
      BY <2>2, <2>3, <2>4, <3>1, <3>2
  <2>5. CASE y - (a + t) \notin 0..(l - t - 1)
    <3>1. y \in a..(a + t - 1) <=> y - a \in 0..(l - 1)
      BY <1>1, <2>5, SMTT(60)
    <3> QED
      BY <2>1, <2>2, <2>3, <2>5, <3>1
  <2> QED
    BY <2>4, <2>5
<1>9. Overlay(Applied(d, x, 0), s) = Overlay(d, r)
  BY <1>8 DEF Overlay
<1> QED
  BY <1>4, <1>6, <1>7, <1>9 DEF s, t

-----------------------------------------------------------------------------
(* The facts above for a state, and for the next one.                      *)
Heads ==
    \A c \in Nat : /\ LogAt(c) \in Word /\ LogAt(c)[0] \in Byte
                   /\ EntrySize(c) = SizeOf(LogAt(c)[0])
Reads ==
    /\ Steps(Nx)
    /\ \A k \in Nat : k \in DOMAIN Nx <=> ~LogEndsAt(k) /\ ~CorruptAt(k)
    /\ \A k \in DOMAIN Nx : Nx[k] = k + EntrySize(k)
    /\ IsChain(Read, Nx)
    /\ PlaybackStop \in Read
    /\ \A k \in Read : k \in Nat /\ k <= PlaybackStop
    /\ \A k \in Read : k # PlaybackStop => k \in DOMAIN Nx
    /\ \A e \in Read : LogEndsAt(e) \/ CorruptAt(e) => PlaybackStop = e
Logs ==
    /\ \A t : t \in Assignments <=> \E c \in Read : c # PlaybackStop /\ t \in Writes(c, Bytes(c))
    /\ \A t \in Assignments : t[1] \in Nat
    /\ Logged(0) = {}
    /\ Logged(PlaybackStop) = Assignments
    /\ \A c \in Read : c # PlaybackStop
          => Logged(c + EntrySize(c)) = Logged(c) \cup Writes(c, Bytes(c))
    /\ IsLatest(Recovered, Assignments, Base)
    /\ \A d : IsLatest(d, Assignments, Base) => Recovered = d

\* These facts hold in every state of the right type,
LEMMA HeadsHold == TypeOK => Heads
BY LogAtType, EntrySizeHead DEF Heads

\* those about the slots that are read,
LEMMA ReadsHold == TypeOK => Reads
<1> SUFFICES ASSUME TypeOK PROVE Reads
  OBVIOUS
<1>1. \A k \in DOMAIN Nx : Nx[k] = k + EntrySize(k)
  BY DEF Nx
<1>2. \A k \in Nat : k \in DOMAIN Nx <=> ~LogEndsAt(k) /\ ~CorruptAt(k)
  BY NxSteps
<1> QED
  BY <1>1, <1>2, NxSteps, ReadIsChain, StopFacts, StopsHere DEF Reads

\* those about the assignments,
LEMMA LogsHold == TypeOK => Logs
<1> SUFFICES ASSUME TypeOK PROVE Logs
  OBVIOUS
<1>1. \A t \in Assignments : t[1] \in Nat
  BY LoggedFacts, BlankType
<1> QED
  BY <1>1, AssignmentsAre, LoggedFacts, RecoveredIsLatest DEF Logs

\* and in the state after a step.
LEMMA HeadsNext == (TypeOK => Heads)'
BY HeadsHold, PTL

\* The slots read in the next state.
LEMMA ReadsNext == (TypeOK => Reads)'
BY ReadsHold, PTL

\* The assignments in the next state.
LEMMA LogsNext == (TypeOK => Logs)'
BY LogsHold, PTL

-----------------------------------------------------------------------------
(* What an append leaves as it was.                                        *)

\* A byte of an entry lies in one of the entry's words.
LEMMA WordIndex ==
    ASSUME NEW n \in 1..4, n * WriteSize <= 8, NEW b \in 0..7, b < n * WriteSize
    PROVE  b \div WriteSize \in 0..(n - 1)
<1>1. CASE WriteSize = 2
  <2>1. b < n * 2 /\ n \in 1..4
    BY <1>1
  <2> QED
    BY <1>1, <2>1
<1>2. CASE WriteSize = 4
  <2>1. b < n * 4 /\ n \in 1..4
    BY <1>2
  <2> QED
    BY <1>2, <2>1
<1>3. CASE WriteSize = 8
  <2>1. b < n * 8 /\ n \in 1..4
    BY <1>3
  <2> QED
    BY <1>3, <2>1
<1> QED
  BY <1>1, <1>2, <1>3, SizesAssumption

\* An entry whose words stay the same reads the same.
LEMMA SameEntry ==
    ASSUME TypeOK, TypeOK', NEW c \in Nat,
           \A i \in c..(c + EntrySize(c) - 1) : LogAt(i)' = LogAt(i)
    PROVE  /\ EntrySize(c)' = EntrySize(c) /\ Entry(c)' = Entry(c) /\ Bytes(c)' = Bytes(c)
           /\ LogEndsAt(c)' <=> LogEndsAt(c)
           /\ CorruptAt(c)' <=> CorruptAt(c)
<1> DEFINE n == EntrySize(c)
<1>1. n = SizeOf(LogAt(c)[0]) /\ EntrySize(c)' = SizeOf(LogAt(c)[0])'
  BY HeadsHold, HeadsNext DEF Heads
<1>2. n \in 1..4 /\ n * WriteSize <= 8
  BY <1>1, HeadsHold, SizeOfType DEF Heads
<1> HIDE DEF n
<1>3. LogAt(c)' = LogAt(c)
  BY <1>2 DEF n
<1>4. EntrySize(c)' = n
  BY <1>1, <1>3 DEF SizeOf, EntryWords
<1>5. \A b \in 0..7 : b < n * WriteSize => LogAt(c + (b \div WriteSize))' = LogAt(c + (b \div WriteSize))
  <2> SUFFICES ASSUME NEW b \in 0..7, b < n * WriteSize
               PROVE  LogAt(c + (b \div WriteSize))' = LogAt(c + (b \div WriteSize))
    OBVIOUS
  <2> DEFINE q == b \div WriteSize
  <2>1. q \in 0..(n - 1)
    BY <1>2, WordIndex
  <2> HIDE DEF q
  <2>2. c + q \in c..(c + n - 1)
    BY <1>2, <2>1
  <2>3. LogAt(c + q)' = LogAt(c + q)
    BY <2>2 DEF n
  <2> QED
    BY <2>3 DEF q
<1>6. Entry(c)' = Entry(c)
  <2>1. Entry(c) = [b \in 0..7 |-> IF b < n * WriteSize
                                   THEN LogAt(c + (b \div WriteSize))[b % WriteSize] ELSE 0]
    BY DEF Entry, EntryAt, n
  <2>2. Entry(c)' = [b \in 0..7 |-> IF b < n * WriteSize
                                   THEN LogAt(c + (b \div WriteSize))'[b % WriteSize] ELSE 0]
    BY <1>4 DEF Entry, EntryAt
  <2> QED
    BY <1>5, <2>1, <2>2
<1>7. LogEndsAt(c)' <=> LogEndsAt(c)
  BY <1>3 DEF LogEndsAt, ZeroWord
<1>8. CorruptAt(c)' <=> CorruptAt(c)
  <2> DEFINE r == Entry(c)
             K(x) == EntryKnown(x) /\ EntryFits(x)
  <2>1. (K(r))' <=> K(r')
    <3>1. EntryKnown(r)' <=> EntryKnown(r')
      BY DEF EntryKnown, EntryType
    <3>2. EntryFits(r)' <=> EntryFits(r')
      BY DEF EntryFits, EntryType, MultibyteAddress, MultibyteLength, Optimized64Address, Word01Address
    <3> QED
      BY <3>1, <3>2
  <2>2. K(r') <=> K(r)
    BY <1>6
  <2>3. /\ CorruptAt(c) <=> ~LogEndsAt(c) /\ ~K(r)
        /\ CorruptAt(c)' <=> ~LogEndsAt(c)' /\ ~K(r)'
    BY DEF CorruptAt
  <2> QED
    BY <1>7, <2>1, <2>2, <2>3
<1>9. Bytes(c)' = Bytes(c)
  BY <1>6 DEF Bytes, EntryBytes, EntryType, MultibyteAddress,
                    MultibyteLength, Optimized64Address, Word01Address, Word01Value
<1> QED
  BY <1>4, <1>6, <1>7, <1>8, <1>9 DEF n

\* Below a position that playback reaches, a log that did not change there reads
\* the same.
LEMMA SamePrefix ==
    ASSUME TypeOK, TypeOK', NEW e \in Read, \A i \in Nat : i < e => LogAt(i)' = LogAt(i)
    PROVE  /\ \A c \in Nat : c <= e => (c \in Read <=> c \in Read')
           /\ e \in Read' /\ e \in Nat
           /\ \A c \in Read : c < e => LogAt(c)' = LogAt(c) /\ ~LogEndsAt(c) /\ ~LogEndsAt(c)'
           /\ Logged(e)' = Logged(e)
<1>1. Reads /\ Reads' /\ Logs /\ Logs' /\ Heads
  BY ReadsHold, ReadsNext, LogsHold, LogsNext, HeadsHold
<1>2. e \in Nat
  BY <1>1 DEF Reads
<1>3. \A k \in Read : k < e => k \in Nat /\ k \in DOMAIN Nx /\ Nx[k] <= e /\ Nx[k] = k + EntrySize(k)
  BY <1>1, <1>2, ChainOrder DEF Reads
<1>4. ASSUME NEW k \in Read, k < e
      PROVE  /\ EntrySize(k)' = EntrySize(k) /\ Bytes(k)' = Bytes(k) /\ LogAt(k)' = LogAt(k)
             /\ ~LogEndsAt(k) /\ ~LogEndsAt(k)' /\ ~CorruptAt(k)'
  <2>1. k \in Nat /\ k \in DOMAIN Nx /\ k + EntrySize(k) <= e
    BY <1>3, <1>4
  <2>2. EntrySize(k) \in Nat
    BY <2>1, EntrySizeType
  <2>3. \A i \in k..(k + EntrySize(k) - 1) : i \in Nat /\ i < e
    BY <1>2, <2>1, <2>2
  <2>4. \A i \in k..(k + EntrySize(k) - 1) : LogAt(i)' = LogAt(i)
    BY <2>3
  <2>5. ~LogEndsAt(k) /\ ~CorruptAt(k)
    BY <1>1, <2>1 DEF Reads
  <2>6. LogAt(k)' = LogAt(k)
    BY <1>4, <2>1
  <2> QED
    BY <2>1, <2>4, <2>5, <2>6, SameEntry
<1>5. \A k \in Read : k < e => k \in DOMAIN Nx' /\ Nx'[k] = Nx[k]
  <2> SUFFICES ASSUME NEW k \in Read, k < e PROVE k \in DOMAIN Nx' /\ Nx'[k] = Nx[k]
    OBVIOUS
  <2>1. k \in Nat /\ Nx[k] = k + EntrySize(k)
    BY <1>3
  <2>2. k \in DOMAIN Nx'
    BY <1>1, <1>4, <2>1 DEF Reads
  <2>3. Nx'[k] = k + EntrySize(k)'
    BY <1>1, <2>2 DEF Reads
  <2> QED
    BY <1>4, <2>1, <2>2, <2>3
<1>6. \A c \in Nat : c <= e => (c \in Read <=> c \in Read')
  <2> DEFINE ny == Nx'
             Q == Read'
  <2>1. Steps(Nx) /\ Steps(ny) /\ IsChain(Read, Nx) /\ IsChain(Q, ny)
    BY <1>1 DEF Reads, Steps, IsChain
  <2>2. \A k \in Read : k < e => /\ k \in DOMAIN Nx <=> k \in DOMAIN ny
                                 /\ k \in DOMAIN Nx => Nx[k] = ny[k]
    BY <1>3, <1>5
  <2> HIDE DEF ny, Q
  <2>3. \A c \in Nat : c <= e => (c \in Read <=> c \in Q)
    BY <1>2, <2>1, <2>2, ChainPrefix
  <2> QED
    BY <2>3 DEF Q
<1>7. e \in Read'
  BY <1>2, <1>6
<1>8. Logged(e)' = Logged(e)
  <2>1. \A t : t \in Logged(e) <=> \E c \in Read : c < e /\ t \in Writes(c, Bytes(c))
    <3>1. \A c : \A t \in Writes(c, Bytes(c)) : t[1] = c
      BY DEF Writes
    <3>2. \A c \in Read : c < e => c # PlaybackStop
      BY <1>1, <1>2 DEF Reads
    <3> QED
      BY <1>1, <3>1, <3>2 DEF Logs, Logged
  <2>2. \A t : t \in Logged(e)' <=> \E c \in Read' : c < e /\ t \in Writes(c, Bytes(c)')
    <3>1. \A c : \A t \in Writes(c, Bytes(c)') : t[1] = c
      BY DEF Writes
    <3>2. \A c \in Read' : c < e => c # PlaybackStop'
      BY <1>1, <1>2, <1>7 DEF Reads
    <3>3. \A t : t \in Assignments' <=> \E c \in Read' : c # PlaybackStop' /\ t \in Writes(c, Bytes(c)')
      BY <1>1 DEF Logs, Writes
    <3> QED
      BY <3>1, <3>2, <3>3 DEF Logged
  <2>3. \A c \in Nat : c < e => (c \in Read <=> c \in Read')
    BY <1>2, <1>6
  <2>4. \A c \in Read : c \in Nat
    BY <1>1 DEF Reads
  <2>5. \A c \in Read' : c \in Nat
    BY <1>1 DEF Reads
  <2>6. \A c \in Read : c < e => Bytes(c)' = Bytes(c)
    BY <1>4
  <2>7. \A t : t \in Logged(e)' <=> t \in Logged(e)
    BY <2>1, <2>2, <2>3, <2>4, <2>5, <2>6
  <2> QED
    BY <2>7 DEF Logged
<1> QED
  BY <1>2, <1>4, <1>6, <1>7, <1>8

\* From slot e on, the log is empty.
EmptyFrom(e) == \A i \in LogSlot : i >= e => log[i] = ZeroWord

\* The log as appends leave it: every length is one that write_raw uses, and
\* behind the last entry nothing was written.
LogGood ==
    /\ \A c \in Read : ~LogEndsAt(c) => Plain(LogAt(c)[0])
    /\ \A c \in Read : LogEndsAt(c) => EmptyFrom(c)

\* An erased log.
LEMMA EmptyLog ==
    TypeOK /\ EmptyFrom(0) => /\ LogGood /\ PlaybackStop = 0
                              /\ Assignments = {} /\ Recovered = Base
<1> SUFFICES ASSUME TypeOK, EmptyFrom(0)
             PROVE  LogGood /\ PlaybackStop = 0 /\ Assignments = {} /\ Recovered = Base
  OBVIOUS
<1>1. Reads /\ Logs
  BY ReadsHold, LogsHold
<1>2. 0 \in Read
  BY <1>1 DEF Reads, IsChain
<1>3. LogEndsAt(0)
  <2>1. LogWords \in Nat /\ 0 < LogWords
    BY BlankType
  <2>2. 0 \in LogSlot
    BY <2>1 DEF LogSlot
  <2> QED
    BY <2>2 DEF LogEndsAt, LogAt, EmptyFrom
<1>4. PlaybackStop = 0
  BY <1>1, <1>2, <1>3 DEF Reads
<1>5. \A c \in Read : c = 0
  BY <1>1, <1>4 DEF Reads
<1>6. Assignments = {}
  BY <1>1, <1>4 DEF Logs
<1>7. Recovered = Base
  <2>1. Base = [a \in Addr |-> Base[a]]
    BY DEF Base, Zeros, TypeOK, Consolidated
  <2>2. IsLatest(Base, Assignments, Base)
    BY <1>6, <2>1 DEF IsLatest
  <2> QED
    BY <1>1, <2>2 DEF Logs
<1>8. LogGood
  BY <1>3, <1>5 DEF LogGood
<1> QED
  BY <1>4, <1>6, <1>7, <1>8

\* The same in the state after a step.
LEMMA EmptyLogNext ==
    (TypeOK /\ EmptyFrom(0) => /\ LogGood /\ PlaybackStop = 0
                               /\ Assignments = {} /\ Recovered = Base)'
BY EmptyLog, PTL

\* A step that leaves the log alone.
LEMMA SameLog ==
    ASSUME TypeOK, TypeOK', UNCHANGED log
    PROVE  /\ Read' = Read /\ PlaybackStop' = PlaybackStop
           /\ Assignments' = Assignments /\ \A c : Logged(c)' = Logged(c)
           /\ LogGood => LogGood'
           /\ UNCHANGED cons => Base' = Base /\ Recovered' = Recovered
<1>1. Reads /\ Reads' /\ Logs /\ Logs'
  BY ReadsHold, ReadsNext, LogsHold, LogsNext
<1>2. \A i : LogAt(i)' = LogAt(i)
  BY DEF LogAt
<1>3. PICK e \in Read : e \in Nat /\ e = PlaybackStop
  BY <1>1 DEF Reads
<1>4. /\ \A c \in Nat : c <= e => (c \in Read <=> c \in Read')
      /\ e \in Read' /\ Logged(e)' = Logged(e)
  BY <1>2, <1>3, SamePrefix
<1>5. (LogEndsAt(e)' <=> LogEndsAt(e)) /\ (CorruptAt(e)' <=> CorruptAt(e))
  BY <1>2, <1>3, SameEntry
<1>6. LogEndsAt(e) \/ CorruptAt(e)
  <2>1. \A k \in Read : k <= e
    BY <1>1, <1>3 DEF Reads
  <2>2. e \notin DOMAIN Nx
    <3> SUFFICES ASSUME e \in DOMAIN Nx PROVE FALSE
      OBVIOUS
    <3>1. Nx[e] \in Read /\ e < Nx[e] /\ Nx[e] \in Nat
      BY <1>1, <1>3 DEF Reads, IsChain, Steps
    <3>2. Nx[e] <= e
      BY <2>1, <3>1
    <3> QED
      BY <1>3, <3>1, <3>2
  <2> QED
    BY <1>1, <1>3, <2>2 DEF Reads
<1>7. PlaybackStop' = e
  BY <1>1, <1>4, <1>5, <1>6 DEF Reads
<1>8. Read' = Read
  <2>1. \A c \in Read : c \in Nat /\ c <= e
    BY <1>1, <1>3 DEF Reads
  <2>2. \A c \in Read' : c \in Nat /\ c <= e
    BY <1>1, <1>7 DEF Reads
  <2> QED
    BY <1>4, <2>1, <2>2
<1>9. Assignments' = Assignments
  <2>1. Logged(e) = Assignments
    BY <1>1, <1>3 DEF Logs
  <2>2. Logged(PlaybackStop)' = Assignments'
    BY <1>1 DEF Logs
  <2>3. Logged(e)' = Assignments'
    BY <1>7, <2>2 DEF Logged
  <2> QED
    BY <1>4, <2>1, <2>3
<1>10. \A c : Logged(c)' = Logged(c)
  BY <1>9 DEF Logged
<1>11. LogGood => LogGood'
  <2>1. \A c \in Read : c \in Nat
    BY <1>1 DEF Reads
  <2>2. \A c \in Read : (LogEndsAt(c)' <=> LogEndsAt(c)) /\ LogAt(c)' = LogAt(c)
    BY <1>2, <2>1, SameEntry
  <2>3. \A c : EmptyFrom(c)' <=> EmptyFrom(c)
    BY DEF EmptyFrom, ZeroWord
  <2> QED
    BY <1>8, <2>2, <2>3 DEF LogGood, Plain
<1>12. UNCHANGED cons => Base' = Base /\ Recovered' = Recovered
  <2> SUFFICES ASSUME UNCHANGED cons PROVE Base' = Base /\ Recovered' = Recovered
    OBVIOUS
  <2>1. Base' = Base
    BY DEF Base, Zeros
  <2>2. IsLatest(Recovered', Assignments', Base')
    BY <1>1 DEF Logs, IsLatest
  <2>3. IsLatest(Recovered', Assignments, Base)
    BY <1>9, <2>1, <2>2
  <2> QED
    BY <1>1, <2>1, <2>3 DEF Logs
<1> QED
  BY <1>3, <1>7, <1>8, <1>9, <1>10, <1>11, <1>12

\* A log with the words of an entry at the position e, complete or not, and
\* nothing behind it.
LEMMA AppendParse ==
    ASSUME TypeOK, TypeOK', \A c \in Read : ~LogEndsAt(c) => Plain(LogAt(c)[0]),
           NEW e \in Read, \A i \in Nat : i < e => LogAt(i)' = LogAt(i),
           ~LogEndsAt(e)', Plain(LogAt(e)'[0]), NEW n, n = EntrySize(e)',
           \A i \in LogSlot : i >= e + n => log'[i] = ZeroWord
    PROVE  /\ LogGood' /\ e \in Read' /\ Logged(e)' = Logged(e)
           /\ ~CorruptAt(e)' => /\ PlaybackStop' = e + n
                                /\ Assignments' = Logged(e) \cup Writes(e, Bytes(e)')
<1>1. Reads /\ Reads' /\ Logs /\ Logs' /\ Heads'
  BY ReadsHold, ReadsNext, LogsHold, LogsNext, HeadsNext
<1>2. /\ \A c \in Nat : c <= e => (c \in Read <=> c \in Read')
      /\ e \in Read' /\ e \in Nat /\ Logged(e)' = Logged(e)
      /\ \A c \in Read : c < e => LogAt(c)' = LogAt(c) /\ ~LogEndsAt(c) /\ ~LogEndsAt(c)'
  BY SamePrefix
<1>3. n \in 1..4
  BY <1>1, <1>2, SizeOfType DEF Heads, SizeOf, EntryWords
<1>4. \A c \in Read' : c <= e => Plain(LogAt(c)'[0])
  <2> SUFFICES ASSUME NEW c \in Read', c <= e PROVE Plain(LogAt(c)'[0])
    OBVIOUS
  <2>1. c \in Nat
    BY <1>1 DEF Reads
  <2>2. CASE c < e
    <3>1. c \in Read /\ ~LogEndsAt(c) /\ LogAt(c)' = LogAt(c)
      BY <1>2, <2>1, <2>2
    <3> QED
      BY <3>1
  <2>3. CASE c = e
    BY <2>3
  <2> QED
    BY <1>2, <2>1, <2>2, <2>3
<1>5. CASE CorruptAt(e)'
  <2>1. PlaybackStop' = e
    BY <1>1, <1>2, <1>5 DEF Reads
  <2>2. \A c \in Read' : c <= e
    BY <1>1, <2>1 DEF Reads
  <2>3. \A c \in Read' : ~LogEndsAt(c)'
    <3> SUFFICES ASSUME NEW c \in Read' PROVE ~LogEndsAt(c)'
      OBVIOUS
    <3>1. c \in Nat /\ (c < e \/ c = e)
      BY <1>1, <1>2, <2>2 DEF Reads
    <3> QED
      BY <1>2, <3>1
  <2>4. LogGood'
    BY <1>4, <2>2, <2>3 DEF LogGood, Plain
  <2> QED
    BY <1>2, <1>5, <2>4
<1>6. CASE ~CorruptAt(e)'
  <2>1. e \in DOMAIN Nx' /\ Nx'[e] = e + n
    BY <1>1, <1>2, <1>6 DEF Reads
  <2>2. e + n \in Read' /\ e + n \in Nat
    BY <1>1, <1>2, <1>3, <2>1 DEF Reads, IsChain
  <2>3. LogEndsAt(e + n)'
    <3>1. LogWords \in Nat /\ LogSlot = 0..(LogWords - 1)
      BY BlankType DEF LogSlot
    <3>2. CASE e + n >= LogWords
      BY <3>2 DEF LogEndsAt
    <3>3. CASE ~(e + n >= LogWords)
      <4>1. e + n \in LogSlot /\ e + n >= e + n
        BY <2>2, <3>1, <3>3
      <4>2. log'[e + n] = ZeroWord
        BY <4>1
      <4> QED
        BY <4>1, <4>2 DEF LogEndsAt, LogAt, ZeroWord
    <3> QED
      BY <3>2, <3>3
  <2>4. PlaybackStop' = e + n
    BY <1>1, <2>2, <2>3 DEF Reads
  <2>5. \A c \in Read' : LogEndsAt(c)' => c = e + n
    BY <1>1, <2>4 DEF Reads
  <2>6. \A c \in Read' : e < c => c = e + n
    <3> SUFFICES ASSUME NEW c \in Read', e < c PROVE c = e + n
      OBVIOUS
    <3>1. c \in Nat /\ c <= e + n
      BY <1>1, <2>4 DEF Reads
    <3>2. e + n <= c
      <4> DEFINE ny == Nx'
                 Q == Read'
      <4>1. Steps(ny) /\ IsChain(Q, ny) /\ e \in Q /\ c \in Q
        BY <1>1, <1>2 DEF Reads, Steps, IsChain
      <4> HIDE DEF ny, Q
      <4>2. ny[e] <= c
        BY <4>1, ChainOrder
      <4> QED
        BY <2>1, <4>2 DEF ny
    <3> QED
      BY <2>2, <3>1, <3>2
  <2>7. ASSUME NEW c \in Read', ~LogEndsAt(c)' PROVE Plain(LogAt(c)'[0])
    <3>1. c # e + n
      BY <2>3, <2>7
    <3>2. c \in Nat
      BY <1>1 DEF Reads
    <3>3. c <= e
      BY <1>2, <2>6, <3>1, <3>2
    <3> QED
      BY <1>4, <3>3
  <2>8. LogGood'
    BY <2>5, <2>7 DEF LogGood, Plain, EmptyFrom, ZeroWord
  <2>9. Assignments' = Logged(e) \cup Writes(e, Bytes(e)')
    <3>1. e # PlaybackStop'
      BY <1>2, <1>3, <2>4
    <3>2. \A c \in Read' : c # PlaybackStop'
            => Logged(c + EntrySize(c))' = Logged(c)' \cup Writes(c, Bytes(c)')
      BY <1>1 DEF Logs, Writes
    <3>3. Logged(e + EntrySize(e))' = Logged(e)' \cup Writes(e, Bytes(e)')
      BY <1>2, <3>1, <3>2
    <3>4. Logged(PlaybackStop)' = Assignments'
      BY <1>1 DEF Logs
    <3>5. Logged(PlaybackStop)' = Logged(e + EntrySize(e))'
      BY <2>4 DEF Logged
    <3> QED
      BY <1>2, <3>3, <3>4, <3>5
  <2> QED
    BY <1>2, <2>4, <2>8, <2>9
<1> QED
  BY <1>5, <1>6

-----------------------------------------------------------------------------
(* The invariant of a restart.                                             *)

\* All slots of the log lie in one erase unit.
LogInOneSector ==
    \A i, j \in LogSlot : (LogicalSize + 8 + i * WriteSize) \div SectorSize
                            = (LogicalSize + 8 + j * WriteSize) \div SectorSize

\* The playback has applied the entries before the cursor.
Replayed == cursor \in Read /\ IsLatest(cache, Logged(cursor), Base)

\* The flash holds the cache, and the log goes on at the write position.
Synced == /\ Recovered = cache
          /\ PlaybackStop = write_address
          /\ EmptyFrom(write_address)

\* The words of the entry x at slot e are in the log up to the write position,
\* the others are still to be appended.
Logging(e, x, n) ==
    /\ e \in Read /\ IsEntry(x, n)
    /\ e <= write_address /\ Len(todo) = e + n - write_address
    /\ \A j \in 1..n : IF e + j - 1 < write_address
                       THEN log[e + j - 1] = WordsOf(x, n)[j]
                       ELSE todo[e + j - write_address] = WordsOf(x, n)[j]
    /\ EmptyFrom(write_address)
    /\ \E d : IsLatest(d, Logged(e), Base) /\ cache = Overlay(Applied(d, x, 0), req)

\* The cache is what the log holds, with the rest of the request over it.
Appending ==
    /\ InRange(req)
    /\ todo = <<>> => /\ PlaybackStop = write_address /\ EmptyFrom(write_address)
                      /\ cache = Overlay(Recovered, req)
    /\ todo # <<>> => \E e, x, n : Logging(e, x, n)

RecInv ==
    faults = 0 =>
      /\ LogGood
      /\ pc = "playback" => Replayed
      /\ pc \in {"idle", "return"} => Synced
      /\ pc = "return" /\ op = "init" => status # "FAILED"
      /\ pc = "append" => Appending
      /\ pc \in {"consolidate", "program"} => EmptyFrom(0)

-----------------------------------------------------------------------------
\* What playback copies of a length that write_raw uses lies inside the entry.
LEMMA NoOverrunBytes ==
    ASSUME NEW r \in Raw, Plain(r[0]), EntryKnown(r), NEW g
    PROVE  EntryBytes(r, g) = EntryBytes(r, 0)
<1>1. CASE EntryType(r) = 0
  <2> DEFINE m == MultibyteAddress(r)
             l == MultibyteLength(r)
  <2>1. l \in 0..5 /\ m \in Int
    <3>1. r[0] \in 0..255 /\ r[1] \in 0..255 /\ r[2] \in 0..255
      BY DEF Raw, Byte
    <3>2. (r[0] \div 8) % 8 \in 0..7 /\ (r[0] \div 8) % 8 <= 5
      BY <1>1, <3>1 DEF Plain, EntryType, MultibyteMax
    <3>3. l \in 0..5
      BY <3>2 DEF MultibyteLength
    <3>4. m \in Int
      <4> DEFINE p == r[0]
                 q == r[1]
                 s == r[2]
      <4>1. p \in Int /\ q \in Int /\ s \in Int
        BY <3>1
      <4> HIDE DEF p, q, s
      <4>2. (p % 8) * 65536 + q * 256 + s \in Int
        BY <4>1
      <4> QED
        BY <4>2 DEF MultibyteAddress, p, q, s
    <3> QED
      BY <3>3, <3>4
  <2> HIDE DEF m, l
  <2>2. \A a \in m..(m + l - 1) : 3 + a - m <= 7
    BY <2>1
  <2>3. EntryBytes(r, g) = [a \in m..(m + l - 1) |-> IF 3 + a - m <= 7 THEN r[3 + a - m] ELSE g]
    BY <1>1 DEF EntryBytes, m, l
  <2>4. EntryBytes(r, 0) = [a \in m..(m + l - 1) |-> IF 3 + a - m <= 7 THEN r[3 + a - m] ELSE 0]
    BY <1>1 DEF EntryBytes, m, l
  <2> QED
    BY <2>2, <2>3, <2>4
<1>2. CASE EntryType(r) = 1
  BY <1>2 DEF EntryBytes
<1>3. CASE EntryType(r) = 2
  BY <1>3 DEF EntryBytes
<1> QED
  BY <1>1, <1>2, <1>3 DEF EntryKnown

\* One iteration of the playback, over any contents b at its start.
LEMMA PlaybackOver ==
    ASSUME TypeOK, TypeOK', PlaybackEntry, NEW b,
           cursor \in Read, IsLatest(cache, Logged(cursor), b),
           \A c \in Read : ~LogEndsAt(c) /\ ~CorruptAt(c) => Plain(LogAt(c)[0])
    PROVE  cursor' \in Read' /\ IsLatest(cache', Logged(cursor)', b)
<1>1. Reads /\ Logs /\ Heads
  BY ReadsHold, LogsHold, HeadsHold
<1>2. /\ cursor \in Read /\ cursor \in Nat /\ ~LogEndsAt(cursor) /\ ~CorruptAt(cursor)
      /\ cursor # PlaybackStop /\ UNCHANGED log /\ UNCHANGED cons
  <2>1. cursor \in Read /\ cursor \in Nat /\ ~LogEndsAt(cursor) /\ ~CorruptAt(cursor)
    BY <1>1 DEF PlaybackEntry, Reads
  <2>2. cursor # PlaybackStop
    <3>1. cursor \in DOMAIN Nx
      BY <1>1, <2>1 DEF Reads
    <3>2. Nx[cursor] \in Read /\ cursor < Nx[cursor] /\ Nx[cursor] \in Nat
      BY <1>1, <2>1, <3>1 DEF Reads, IsChain, Steps
    <3>3. Nx[cursor] <= PlaybackStop /\ PlaybackStop \in Nat
      BY <1>1, <3>2 DEF Reads
    <3> QED
      BY <3>2, <3>3
  <2> QED
    BY <2>1, <2>2 DEF PlaybackEntry, flash
<1>3. PICK g : cache' = Applied(cache, Entry(cursor), g)
  BY DEF PlaybackEntry
<1>4. EntryBytes(Entry(cursor), g) = Bytes(cursor)
  <2>1. Entry(cursor) \in Raw
    BY <1>2, EntrySizeType, EntryAtType DEF Entry
  <2>2. Entry(cursor)[0] = LogAt(cursor)[0]
    <3>1. EntrySize(cursor) \in 1..4
      BY <1>1, <1>2, SizeOfType DEF Heads
    <3>2. 0 < EntrySize(cursor) * WriteSize
      BY <3>1, SizesAssumption
    <3>3. cursor + (0 \div WriteSize) = cursor /\ 0 % WriteSize = 0
      BY <1>2, SizesAssumption
    <3> QED
      BY <3>2, <3>3 DEF Entry, EntryAt
  <2>3. Plain(Entry(cursor)[0])
    BY <1>2, <2>2
  <2> QED
    BY <1>2, <2>1, <2>3, NoOverrunBytes DEF Bytes, CorruptAt
<1>5. cache' = [a \in Addr |-> IF a \in DOMAIN Bytes(cursor) THEN Bytes(cursor)[a] ELSE cache[a]]
  BY <1>3, <1>4 DEF Applied
<1>6. IsLatest(cache', Logged(cursor) \cup Writes(cursor, Bytes(cursor)), b)
  <2>1. \A t \in Logged(cursor) : t[1] \in Nat /\ t[1] < cursor
    BY <1>1 DEF Logs, Logged
  <2> QED
    BY <1>2, <1>5, <2>1, LatestStep
<1>7. cursor' = cursor + EntrySize(cursor)
  BY DEF PlaybackEntry
<1>8. cursor' \in Read /\ Logged(cursor + EntrySize(cursor)) = Logged(cursor) \cup Writes(cursor, Bytes(cursor))
  BY <1>1, <1>2, <1>7 DEF Reads, Logs, IsChain
<1>9. Read' = Read /\ Assignments' = Assignments
  BY <1>2, SameLog
<1>10. Logged(cursor)' = Logged(cursor + EntrySize(cursor))
  BY <1>7, <1>9 DEF Logged
<1>11. IsLatest(cache', Logged(cursor)', b)
  BY <1>6, <1>8, <1>10
<1> QED
  BY <1>8, <1>9, <1>11

LEMMA PlaybackReplays ==
    ASSUME TypeOK, TypeOK', PlaybackEntry, Replayed,
           \A c \in Read : ~LogEndsAt(c) /\ ~CorruptAt(c) => Plain(LogAt(c)[0])
    PROVE  Replayed'
<1>1. PICK b : b = Base
  OBVIOUS
<1>2. IsLatest(cache, Logged(cursor), b) /\ cursor \in Read
  BY <1>1 DEF Replayed
<1>3. cursor' \in Read' /\ IsLatest(cache', Logged(cursor)', b)
  BY <1>2, PlaybackOver
<1>4. Base' = Base
  BY SameLog DEF PlaybackEntry, flash
<1>5. IsLatest(cache', Logged(cursor)', Base')
  BY <1>1, <1>3, <1>4
<1> QED
  BY <1>3, <1>5 DEF Replayed, IsLatest, Addr

\* The cache, the log and the write position stay as they are.
LEMMA SyncedKept ==
    ASSUME TypeOK, TypeOK', Synced, UNCHANGED <<cache, write_address, log, cons>>
    PROVE  Synced'
BY SameLog DEF Synced, EmptyFrom, ZeroWord

\* The erased store satisfies the invariant.
LEMMA RecInit == Init => RecInv
<1> SUFFICES ASSUME Init PROVE RecInv
  OBVIOUS
<1>1. TypeOK
  BY InitIInv DEF IInv
<1>2. EmptyFrom(0)
  BY DEF Init, EmptyFrom
<1>3. LogGood
  BY <1>1, <1>2, EmptyLog
<1> QED
  BY <1>3 DEF RecInv, Init

\* wear_leveling_init up to the end of playback_log keeps it.
LEMMA RecStart ==
    ASSUME IInv, IInv', RecInv, PowerUp \/ PlaybackEntry \/ PlaybackCorrupt \/ PlaybackEnd
    PROVE  RecInv'
<1> SUFFICES ASSUME faults' = 0 PROVE RecInv'
  BY DEF RecInv
<1>1. TypeOK /\ TypeOK' /\ UNCHANGED log /\ UNCHANGED cons
  BY DEF IInv, PowerUp, PlaybackEntry, PlaybackCorrupt, PlaybackEnd, flash
<1>2. faults = 0
  BY <1>1, FaultEffect DEF PowerUp, PlaybackEntry, PlaybackCorrupt, PlaybackEnd, NoFault
<1>3. LogGood /\ LogGood'
  BY <1>1, <1>2, SameLog DEF RecInv
<1>4. Reads /\ Reads' /\ Logs /\ Logs'
  BY <1>1, ReadsHold, ReadsNext, LogsHold, LogsNext
<1>5. CASE PowerUp
  <2>1. pc' = "playback" /\ cursor' = 0 /\ cache' = Base
    BY <1>1, <1>2, <1>5, FaultEffect DEF PowerUp, Base
  <2>2. Base' = Base
    BY <1>1, SameLog
  <2>3. cursor' \in Read'
    BY <1>4, <2>1 DEF Reads, IsChain
  <2>4. Logged(0)' = {}
    BY <1>4 DEF Logs
  <2>5. Logged(cursor)' = {}
    BY <2>1, <2>4 DEF Logged
  <2>6. IsLatest(cache, Logged(cursor), Base)'
    <3>1. cache' = [a \in Addr |-> cache'[a]]
      BY <1>1 DEF TypeOK
    <3> QED
      BY <2>1, <2>2, <2>5, <3>1 DEF IsLatest, Addr
  <2> QED
    BY <1>3, <2>1, <2>3, <2>6 DEF RecInv, Replayed
<1>6. CASE PlaybackEntry
  <2>1. pc = "playback" /\ pc' = "playback" /\ Replayed
    BY <1>2, <1>6 DEF PlaybackEntry, RecInv
  <2>2. Replayed'
    BY <1>1, <1>3, <1>6, <2>1, PlaybackReplays DEF LogGood
  <2> QED
    BY <1>3, <2>1, <2>2 DEF RecInv
<1>7. CASE PlaybackCorrupt
  <2>1. pc' = "force"
    BY <1>7 DEF PlaybackCorrupt
  <2> QED
    BY <1>3, <2>1 DEF RecInv
<1>8. CASE PlaybackEnd
  <2>1. /\ pc = "playback" /\ Replayed /\ LogEndsAt(cursor) /\ write_address' = cursor
        /\ pc' \in {"force", "return"} /\ status' = "SUCCESS" /\ UNCHANGED cache
    BY <1>2, <1>8 DEF PlaybackEnd, RecInv
  <2>2. PlaybackStop = cursor
    BY <1>4, <2>1 DEF Reads, Replayed
  <2>3. Recovered = cache
    <3>1. Logged(cursor) = Assignments
      BY <1>4, <2>2 DEF Logs
    <3> QED
      BY <1>4, <2>1, <3>1 DEF Logs, Replayed
  <2>4. EmptyFrom(cursor)
    BY <1>3, <2>1 DEF LogGood, Replayed
  <2>5. Synced'
    <3>1. Recovered' = cache' /\ PlaybackStop' = write_address'
      BY <1>1, <2>1, <2>2, <2>3, SameLog
    <3>2. EmptyFrom(write_address)'
      BY <1>1, <2>1, <2>4 DEF EmptyFrom, ZeroWord
    <3> QED
      BY <3>1, <3>2 DEF Synced
  <2> QED
    BY <1>3, <2>1, <2>5 DEF RecInv
<1> QED
  BY <1>5, <1>6, <1>7, <1>8

\* wear_leveling_consolidate_force keeps it.
LEMMA RecConsolidate ==
    ASSUME IInv, IInv', RecInv, \/ ConsolidateForce \/ ConsolidateErase
                                \/ ConsolidateUnlock \/ WriteConsolidated
    PROVE  RecInv'
<1> SUFFICES ASSUME faults' = 0 PROVE RecInv'
  BY DEF RecInv
<1>1. TypeOK /\ TypeOK'
  BY DEF IInv
<1>2. CASE ConsolidateForce
  <2>1. faults = 0 /\ UNCHANGED log /\ pc' = "erase"
    BY <1>1, <1>2, UnlockEffect DEF ConsolidateForce, flash
  <2>2. LogGood'
    BY <1>1, <2>1, SameLog DEF RecInv
  <2> QED
    BY <2>1, <2>2 DEF RecInv
<1>3. CASE ConsolidateErase
  <2>1. log' = [i \in LogSlot |-> ZeroWord] /\ pc' = "consolidate"
    BY <1>1, <1>3, FaultEffect DEF ConsolidateErase
  <2>2. EmptyFrom(0)'
    BY <2>1 DEF EmptyFrom, ZeroWord
  <2>3. LogGood'
    BY <1>1, <2>2, EmptyLogNext
  <2> QED
    BY <2>1, <2>2, <2>3 DEF RecInv
<1>4. CASE ConsolidateUnlock
  <2>1. faults = 0 /\ UNCHANGED log /\ pc = "consolidate" /\ pc' = "program"
    BY <1>1, <1>4, UnlockEffect DEF ConsolidateUnlock, flash
  <2>2. LogGood' /\ EmptyFrom(0)'
    BY <1>1, <2>1, SameLog DEF RecInv, EmptyFrom, ZeroWord
  <2> QED
    BY <2>1, <2>2 DEF RecInv
<1>5. CASE WriteConsolidated
  <2>1. PICK writeFails, lockFails \in BOOLEAN :
          LET n == (IF writeFails THEN 1 ELSE 0) + (IF lockFails THEN 1 ELSE 0) IN
            /\ faults' = faults + n
            /\ cons' = IF writeFails THEN NoData ELSE Sealed(cache)
            /\ status' = IF writeFails THEN "FAILED" ELSE "CONSOLIDATED"
    BY <1>5 DEF WriteConsolidated
  <2>2. faults = 0 /\ ~writeFails
    BY <1>1, <2>1 DEF TypeOK
  <2>3. /\ pc = "program" /\ pc' = "return" /\ UNCHANGED <<log, cache>> /\ write_address' = 0
        /\ cons' = Sealed(cache) /\ status' = "CONSOLIDATED"
    BY <1>5, <2>1, <2>2 DEF WriteConsolidated
  <2>4. EmptyFrom(0)'
    BY <2>2, <2>3 DEF RecInv, EmptyFrom, ZeroWord
  <2>5. LogGood' /\ PlaybackStop' = 0 /\ Recovered' = Base'
    BY <1>1, <2>4, EmptyLogNext
  <2>6. Base' = cache'
    BY <2>3 DEF Base, Sealed
  <2>7. EmptyFrom(write_address)'
    BY <2>3, <2>4 DEF EmptyFrom, ZeroWord
  <2> QED
    BY <2>3, <2>5, <2>6, <2>7 DEF RecInv, Synced
<1> QED
  BY <1>2, <1>3, <1>4, <1>5

\* wear_leveling_erase, the end of a call and a power loss keep it.
LEMMA RecEraseReturn ==
    ASSUME LogInOneSector, IInv, IInv', RecInv,
           EraseBegin \/ EraseStore \/ ReturnInit \/ Return \/ PowerLoss
    PROVE  RecInv'
<1> SUFFICES ASSUME faults' = 0 PROVE RecInv'
  BY DEF RecInv
<1>1. TypeOK /\ TypeOK'
  BY DEF IInv
<1>2. CASE EraseBegin
  <2>1. PICK ls \in LockStatus : Unlock(ls) /\ pc' = IF ls = "FAILURE" THEN "return" ELSE "erase"
    BY <1>2 DEF EraseBegin
  <2>2. faults = 0 /\ UNCHANGED log /\ pc' = "erase"
    BY <1>1, <1>2, <2>1, UnlockEffect DEF EraseBegin, flash
  <2>3. LogGood'
    BY <1>1, <2>2, SameLog DEF RecInv
  <2> QED
    BY <2>2, <2>3 DEF RecInv
<1>3. CASE EraseStore
  <2>1. /\ log' = [i \in LogSlot |-> ZeroWord] /\ cons' = NoData /\ status' = "SUCCESS"
        /\ cache' = Zeros /\ write_address' = 0 /\ pc' = "return"
    BY <1>1, <1>3, FaultEffect DEF EraseStore
  <2>2. EmptyFrom(0)'
    BY <2>1 DEF EmptyFrom, ZeroWord
  <2>3. LogGood' /\ PlaybackStop' = 0 /\ Recovered' = Base'
    BY <1>1, <2>2, EmptyLogNext
  <2>4. Base' = cache'
    BY <2>1 DEF Base, NoData, Zeros, Addr
  <2>5. EmptyFrom(write_address)'
    BY <2>1, <2>2 DEF EmptyFrom, ZeroWord
  <2> QED
    BY <2>1, <2>3, <2>4, <2>5 DEF RecInv, Synced
<1>4. CASE ReturnInit
  <2>1. faults = 0 /\ pc = "return" /\ op = "init" /\ pc' = "idle" /\ UNCHANGED <<log, cons>>
    BY <1>4 DEF ReturnInit, NoFault, flash
  <2>2. Synced /\ status # "FAILED" /\ LogGood
    BY <2>1 DEF RecInv
  <2>3. UNCHANGED <<cache, write_address>>
    BY <1>4, <2>2 DEF ReturnInit
  <2>4. Synced' /\ LogGood'
    BY <1>1, <2>1, <2>2, <2>3, SyncedKept, SameLog
  <2> QED
    BY <2>1, <2>4 DEF RecInv
<1>5. CASE Return
  <2>1. faults = 0 /\ pc = "return" /\ pc' = "idle" /\ UNCHANGED <<log, cons, cache, write_address>>
    BY <1>1, <1>5, FaultEffect DEF Return, flash
  <2>2. Synced' /\ LogGood'
    BY <1>1, <2>1, SyncedKept, SameLog DEF RecInv
  <2> QED
    BY <2>1, <2>2 DEF RecInv
<1>6. CASE PowerLoss
  <2>1. faults = 0 /\ pc' = "off"
    BY <1>6 DEF PowerLoss, NoFault
  <2>2. LogGood
    BY <2>1 DEF RecInv
  <2>3. UNCHANGED log \/ \E S : log' = LogErased(S)
    BY <1>6 DEF PowerLoss, flash
  <2>4. CASE UNCHANGED log
    BY <1>1, <2>1, <2>2, <2>4, SameLog DEF RecInv
  <2>5. ASSUME NEW S, log' = LogErased(S) PROVE RecInv'
    <3>1. UNCHANGED log \/ EmptyFrom(0)'
      <4> DEFINE at(i) == (LogicalSize + 8 + i * WriteSize) \div SectorSize
      <4>1. \A i, j \in LogSlot : at(i) = at(j)
        BY DEF LogInOneSector
      <4>2. log' = [i \in LogSlot |-> IF at(i) \in S THEN ZeroWord ELSE log[i]]
        BY <2>5 DEF LogErased
      <4> HIDE DEF at
      <4>3. CASE \E j \in LogSlot : at(j) \in S
        <5>1. \A i \in LogSlot : at(i) \in S
          BY <4>1, <4>3
        <5>2. \A i \in LogSlot : log'[i] = ZeroWord
          BY <4>2, <5>1
        <5> QED
          BY <5>2 DEF EmptyFrom, ZeroWord
      <4>4. CASE \A j \in LogSlot : at(j) \notin S
        <5>1. \A i \in LogSlot : log'[i] = log[i]
          BY <4>2, <4>4
        <5>2. log \in [LogSlot -> Word] /\ log' \in [LogSlot -> Word]
          BY <1>1, BlankType DEF TypeOK, LogSlot, Word, Byte, LogWords
        <5> QED
          BY <5>1, <5>2
      <4> QED
        BY <4>3, <4>4
    <3>2. LogGood'
      BY <1>1, <2>2, <3>1, SameLog, EmptyLogNext
    <3> QED
      BY <2>1, <3>2 DEF RecInv
  <2> QED
    BY <2>3, <2>4, <2>5
<1> QED
  BY <1>2, <1>3, <1>4, <1>5, <1>6

\* The start and the end of wear_leveling_write keep it.
LEMMA RecWrite ==
    ASSUME IInv, IInv', RecInv,
           \/ \E r \in Requests : WriteSkipped(r) \/ WriteBegin(r)
           \/ AppendFails \/ WriteLogged
    PROVE  RecInv'
<1> SUFFICES ASSUME faults' = 0 PROVE RecInv'
  BY DEF RecInv
<1>1. TypeOK /\ TypeOK'
  BY DEF IInv
<1>2. ASSUME NEW r \in Requests, WriteSkipped(r) PROVE RecInv'
  <2>1. /\ faults = 0 /\ pc = "idle" /\ pc' = "return" /\ op' = "write"
        /\ UNCHANGED <<log, cons, cache, write_address>>
    BY <1>2 DEF WriteSkipped, NoFault, flash
  <2>2. Synced' /\ LogGood'
    BY <1>1, <2>1, SyncedKept, SameLog DEF RecInv
  <2> QED
    BY <2>1, <2>2 DEF RecInv
<1>3. ASSUME NEW r \in Requests, WriteBegin(r) PROVE RecInv'
  <2>1. PICK ls \in LockStatus : Unlock(ls) /\ pc' = IF ls = "FAILURE" THEN "return" ELSE "append"
    BY <1>3 DEF WriteBegin
  <2>2. /\ faults = 0 /\ pc = "idle" /\ pc' = "append" /\ InRange(r) /\ req' = r /\ todo' = <<>>
        /\ cache' = Stored(r) /\ UNCHANGED <<log, cons, write_address>>
    BY <1>1, <1>3, <2>1, UnlockEffect DEF WriteBegin, flash
  <2>3. Synced /\ LogGood
    BY <2>2 DEF RecInv
  <2>4. LogGood' /\ Recovered' = Recovered /\ PlaybackStop' = PlaybackStop
    BY <1>1, <2>2, <2>3, SameLog
  <2>5. EmptyFrom(write_address)'
    BY <2>2, <2>3 DEF Synced, EmptyFrom, ZeroWord
  <2>6. cache' = Overlay(Recovered', req')
    BY <2>2, <2>3, <2>4 DEF Synced, Stored, Overlay
  <2>7. InRange(req)'
    BY <2>2 DEF InRange, Length
  <2>8. Appending'
    BY <2>2, <2>3, <2>4, <2>5, <2>6, <2>7 DEF Appending, Synced, Overlay, Length, Addr
  <2> QED
    BY <2>2, <2>4, <2>8 DEF RecInv
<1>4. CASE AppendFails
  BY <1>1, <1>4, FaultEffect DEF AppendFails
<1>5. CASE WriteLogged
  <2>1. /\ faults = 0 /\ pc = "append" /\ pc' \in {"force", "return"} /\ status' = "SUCCESS"
        /\ todo = <<>> /\ Length(req) = 0 /\ UNCHANGED <<log, cons, cache, write_address>>
    BY <1>5 DEF WriteLogged, NoFault, flash
  <2>2. LogGood /\ Appending
    BY <2>1 DEF RecInv
  <2>3. cache = Recovered
    <3>1. Recovered = [a \in Addr |-> Recovered[a]]
      BY <1>1, LogsHold DEF Logs, IsLatest
    <3>2. cache = Overlay(Recovered, req)
      BY <2>1, <2>2 DEF Appending
    <3>3. \A a \in Addr : a - req[1] \notin 0..(Length(req) - 1)
      BY <1>1, <2>1 DEF TypeOK, Addr
    <3> QED
      BY <3>1, <3>2, <3>3 DEF Overlay
  <2>4. Synced
    BY <2>1, <2>2, <2>3 DEF Synced, Appending
  <2>5. Synced' /\ LogGood'
    BY <1>1, <2>1, <2>2, <2>4, SyncedKept, SameLog
  <2> QED
    BY <2>1, <2>5 DEF RecInv
<1> QED
  BY <1>2, <1>3, <1>4, <1>5

\* The next entry is taken from the request.
LEMMA RecEncode ==
    ASSUME IInv, IInv', RecInv, EncodeEntry
    PROVE  RecInv'
<1> SUFFICES ASSUME faults' = 0 PROVE RecInv'
  BY DEF RecInv
<1>1. TypeOK /\ TypeOK'
  BY DEF IInv
<1>2. /\ faults = 0 /\ pc = "append" /\ pc' = "append" /\ todo = <<>> /\ Length(req) > 0
      /\ todo' = NextWords(req) /\ req' = Rest(req)
      /\ UNCHANGED <<log, cons, cache, write_address>>
  BY DEF EncodeEntry, NoFault, flash, Rest
<1>3. /\ LogGood /\ InRange(req) /\ PlaybackStop = write_address /\ EmptyFrom(write_address)
      /\ cache = Overlay(Recovered, req) /\ req \in Nat \X Seq(Byte) /\ write_address \in Nat
  BY <1>1, <1>2 DEF RecInv, Appending, TypeOK
<1>4. LogGood' /\ Read' = Read /\ Base' = Base /\ \A c : Logged(c)' = Logged(c)
  BY <1>1, <1>2, <1>3, SameLog
<1>5. PICK x, n : /\ IsEntry(x, n) /\ NextWords(req) = WordsOf(x, n)
                  /\ EntryBytes(x, 0) = Chunk(req, NextTaken(req))
  BY <1>2, <1>3, NextEntry
<1>6. n \in 1..4
  BY <1>5, SizeOfType DEF IsEntry, Raw
<1>7. Len(WordsOf(x, n)) = n
  BY <1>1, <1>2, <1>5, <1>6 DEF TypeOK, WordsOf
<1> DEFINE e == write_address
           d == Recovered
<1>8. /\ Overlay(Applied(d, x, 0), Rest(req)) = Overlay(d, req)
      /\ InRange(Rest(req))
  BY <1>2, <1>3, <1>5, OverlayRest
<1>9. PICK k \in Nat : k = write_address /\ k \in Read
  BY <1>1, <1>3, ReadsHold DEF Reads
<1>10. Logging(k, x, n)'
  <2>1. k \in Read' /\ k <= write_address' /\ Len(todo') = k + n - write_address'
    BY <1>2, <1>4, <1>5, <1>6, <1>7, <1>9
  <2>2. \A j \in 1..n : /\ ~(k + j - 1 < write_address')
                        /\ todo'[k + j - write_address'] = WordsOf(x, n)[j]
    <3> SUFFICES ASSUME NEW j \in 1..n
                 PROVE  /\ ~(k + j - 1 < write_address')
                        /\ todo'[k + j - write_address'] = WordsOf(x, n)[j]
      OBVIOUS
    <3>1. k + j - write_address' = j /\ ~(k + j - 1 < write_address')
      BY <1>2, <1>6, <1>9
    <3> QED
      BY <1>2, <1>5, <3>1
  <2>3. EmptyFrom(write_address)'
    BY <1>2, <1>3 DEF EmptyFrom, ZeroWord
  <2>4. IsLatest(Recovered, Logged(k), Base)
    <3>1. Logged(PlaybackStop) = Assignments /\ IsLatest(Recovered, Assignments, Base)
      BY <1>1, LogsHold DEF Logs
    <3> QED
      BY <1>3, <1>9, <3>1
  <2>5. PICK f : f = Recovered
    OBVIOUS
  <2>6. IsLatest(f, Logged(k)', Base') /\ cache' = Overlay(Applied(f, x, 0), req')
    BY <1>2, <1>3, <1>4, <1>8, <2>4, <2>5
  <2> QED
    BY <1>5, <2>1, <2>2, <2>3, <2>6
       DEF Logging, IsEntry, Plain, EntryKnown, EntryFits, Raw, SizeOf, WordsOf, Overlay, Applied, IsLatest
<1>11. InRange(req)' /\ todo' # <<>>
  <2>1. InRange(req)'
    BY <1>2, <1>8 DEF InRange, Length
  <2>2. todo' # <<>>
    BY <1>2, <1>5, <1>6, <1>7
  <2> QED
    BY <2>1, <2>2
<1>12. Appending'
  BY <1>10, <1>11 DEF Appending
<1> QED
  BY <1>2, <1>4, <1>12 DEF RecInv

\* ReadBack in the state after a step.
LEMMA ReadBackNext ==
    (TypeOK => \A c \in LogSlot : \A x, n :
                 IsEntry(x, n) /\ (\A j \in 1..n : LogAt(c + j - 1) = WordsOf(x, n)[j])
                   => Entry(c) = x /\ EntrySize(c) = n /\ ~LogEndsAt(c) /\ ~CorruptAt(c))'
BY ReadBack, PTL

\* The next word of an entry goes into the log.
LEMMA AppendWord ==
    ASSUME TypeOK, TypeOK', LogGood, AppendRaw, write_address \in LogSlot,
           NEW e, NEW x, NEW n, Logging(e, x, n)
    PROVE  /\ LogGood'
           /\ todo' # <<>> => Logging(e, x, n)'
           /\ todo' = <<>> =>
                /\ PlaybackStop' = write_address' /\ EmptyFrom(write_address)'
                /\ cache' = Overlay(Recovered', req')
                /\ \E d : IsLatest(d, Logged(e), Base) /\ Recovered' = Applied(d, x, 0)
<1> DEFINE wa == write_address
<1>1. /\ todo # <<>> /\ write_address' = wa + 1 /\ todo' = Tail(todo)
      /\ UNCHANGED <<cache, cons, req>>
  BY DEF AppendRaw
<1>2. /\ e \in Read /\ IsEntry(x, n) /\ e <= wa /\ Len(todo) = e + n - wa
      /\ \A i \in LogSlot : i >= wa => log[i] = ZeroWord
  BY DEF Logging, EmptyFrom
<1>3. e \in Nat /\ wa \in Nat /\ todo \in Seq(Word) /\ log \in [LogSlot -> Word]
  BY <1>2, ReadsHold DEF Reads, TypeOK
<1>4. n \in 1..4 /\ x \in Raw
  BY <1>2, SizeOfType DEF IsEntry, Raw
<1>5. LogWords \in Nat /\ LogSlot = 0..(LogWords - 1)
  BY BlankType DEF LogSlot
<1>6. wa < e + n /\ Len(Tail(todo)) = e + n - (wa + 1)
      /\ \A i \in 1..Len(Tail(todo)) : Tail(todo)[i] = todo[i + 1]
  <2>1. Len(todo) > 0
    BY <1>1, <1>3
  <2> QED
    BY <1>1, <1>2, <1>3, <1>4, <2>1
<1>7. log' = [log EXCEPT ![wa] = Head(todo)]
  <2>1. wa \in LogSlot /\ log[wa] = ZeroWord
    BY <1>2, <1>3
  <2> QED
    BY <2>1 DEF AppendRaw
<1>8. Head(todo) = WordsOf(x, n)[wa - e + 1]
  <2> DEFINE j == wa - e + 1
  <2>1. j \in 1..n /\ ~(e + j - 1 < wa) /\ e + j - wa = 1
    <3>1. e <= wa /\ wa < e + n /\ e \in Nat /\ wa \in Nat /\ n \in 1..4
      BY <1>2, <1>3, <1>4, <1>6
    <3> HIDE DEF wa
    <3> QED
      BY <3>1
  <2> HIDE DEF j
  <2>2. todo[e + j - wa] = WordsOf(x, n)[j]
    BY <2>1 DEF Logging
  <2>3. Head(todo) = todo[1]
    BY <1>1, <1>3
  <2> QED
    BY <2>1, <2>2, <2>3 DEF j
<1>9. ASSUME NEW j \in 1..n
      PROVE  IF e + j - 1 < wa + 1 THEN log'[e + j - 1] = WordsOf(x, n)[j]
             ELSE todo'[e + j - (wa + 1)] = WordsOf(x, n)[j]
  <2>1. CASE e + j - 1 < wa
    <3>1. log[e + j - 1] = WordsOf(x, n)[j]
      BY <2>1 DEF Logging
    <3>2. e + j - 1 # wa /\ e + j - 1 < wa + 1
      BY <1>3, <1>4, <2>1
    <3>3. log'[e + j - 1] = log[e + j - 1]
      BY <1>3, <1>5, <1>7, <2>1, <3>2
    <3> QED
      BY <3>1, <3>2, <3>3
  <2>2. CASE e + j - 1 = wa
    <3>1. j = wa - e + 1 /\ e + j - 1 < wa + 1
      BY <1>3, <1>4, <2>2
    <3>2. log'[wa] = Head(todo)
      BY <1>3, <1>7
    <3> QED
      BY <1>8, <2>2, <3>1, <3>2
  <2>3. CASE e + j - 1 > wa
    <3>1. ~(e + j - 1 < wa) /\ ~(e + j - 1 < wa + 1)
      BY <1>3, <1>4, <2>3
    <3>2. todo[e + j - wa] = WordsOf(x, n)[j]
      BY <3>1 DEF Logging
    <3>3. e + j - (wa + 1) \in 1..Len(Tail(todo)) /\ e + j - (wa + 1) + 1 = e + j - wa
      BY <1>3, <1>4, <1>6, <2>3
    <3>4. todo'[e + j - (wa + 1)] = todo[e + j - wa]
      BY <1>1, <1>6, <3>3
    <3> QED
      BY <3>1, <3>2, <3>4
  <2> QED
    BY <1>3, <1>4, <2>1, <2>2, <2>3
<1>10. e \in LogSlot /\ LogAt(e)' = WordsOf(x, n)[1] /\ LogAt(e)'[0] = x[0]
  <2>1. 1 \in 1..n /\ e + 1 - 1 = e /\ e < wa + 1 /\ e \in LogSlot
    BY <1>2, <1>3, <1>4, <1>5
  <2>2. log'[e] = WordsOf(x, n)[1]
    BY <1>9, <2>1
  <2>3. 0 \in 0..(WriteSize - 1) /\ (1 - 1) * WriteSize + 0 = 0
    BY SizesAssumption
  <2>4. WordsOf(x, n)[1][0] = x[0]
    BY <2>1, <2>3 DEF WordsOf
  <2> QED
    BY <2>1, <2>2, <2>4 DEF LogAt
<1>11. ~LogEndsAt(e)' /\ Plain(LogAt(e)'[0])
  <2>1. ZeroWord[0] = 0 /\ x[0] # 0 /\ Plain(x[0])
    BY <1>2, SizesAssumption DEF ZeroWord, IsEntry
  <2>2. ~(e >= LogWords)
    BY <1>5, <1>10
  <2> QED
    BY <1>10, <2>1, <2>2 DEF LogEndsAt, ZeroWord
<1>12. EntrySize(e)' = n
  BY <1>2, <1>3, <1>10, HeadsNext DEF Heads, IsEntry, SizeOf, EntryWords
<1>13. \A i \in Nat : i < e => LogAt(i)' = LogAt(i)
  BY <1>2, <1>3, <1>7 DEF LogAt
<1>14. \A i \in LogSlot : i >= wa + 1 => log'[i] = ZeroWord
  <2> SUFFICES ASSUME NEW i \in LogSlot, i >= wa + 1 PROVE log'[i] = ZeroWord
    OBVIOUS
  <2>1. i # wa /\ i >= wa
    BY <1>3, <1>5
  <2> QED
    BY <1>2, <1>3, <1>7, <2>1
<1>15. \A i \in LogSlot : i >= e + n => log'[i] = ZeroWord
  BY <1>3, <1>4, <1>5, <1>6, <1>14
<1>16. /\ LogGood' /\ e \in Read' /\ Logged(e)' = Logged(e)
       /\ ~CorruptAt(e)' => /\ PlaybackStop' = e + n
                            /\ Assignments' = Logged(e) \cup Writes(e, Bytes(e)')
  <2>1. \A c \in Read : ~LogEndsAt(c) => Plain(LogAt(c)[0])
    BY DEF LogGood
  <2> QED
    BY <1>2, <1>11, <1>12, <1>13, <1>15, <2>1, AppendParse
<1>17. EmptyFrom(write_address)'
  BY <1>1, <1>14 DEF EmptyFrom, ZeroWord
<1>18. PICK d : IsLatest(d, Logged(e), Base) /\ cache = Overlay(Applied(d, x, 0), req)
  BY DEF Logging
<1>19. Base' = Base
  BY <1>1 DEF Base, Zeros
<1>20. ASSUME todo' # <<>> PROVE Logging(e, x, n)'
  <2>1. e <= wa + 1 /\ Len(todo') = e + n - (wa + 1)
    BY <1>1, <1>2, <1>3, <1>6
  <2>2. IsLatest(d, Logged(e)', Base') /\ cache' = Overlay(Applied(d, x, 0), req')
    BY <1>1, <1>16, <1>18, <1>19
  <2> QED
    BY <1>1, <1>2, <1>9, <1>16, <1>17, <2>1, <2>2
       DEF Logging, IsEntry, Plain, EntryKnown, EntryFits, Raw, SizeOf, WordsOf, Overlay, Applied, IsLatest
<1>21. ASSUME todo' = <<>>
       PROVE  /\ PlaybackStop' = write_address' /\ EmptyFrom(write_address)'
              /\ cache' = Overlay(Recovered', req')
              /\ \E f : IsLatest(f, Logged(e), Base) /\ Recovered' = Applied(f, x, 0)
  <2>1. wa + 1 = e + n
    <3>1. Tail(todo) = <<>> /\ Len(<<>>) = 0
      BY <1>1, <1>21
    <3>2. Len(Tail(todo)) = 0
      BY <3>1, Zenon
    <3>3. e + n - (wa + 1) = 0 /\ e \in Nat /\ wa \in Nat /\ n \in 1..4
      BY <1>3, <1>4, <1>6, <3>2
    <3> HIDE DEF wa
    <3> QED
      BY <3>3
  <2>2. \A j \in 1..n : LogAt(e + j - 1)' = WordsOf(x, n)[j]
    <3> SUFFICES ASSUME NEW j \in 1..n PROVE LogAt(e + j - 1)' = WordsOf(x, n)[j]
      OBVIOUS
    <3>1. e + j - 1 < wa + 1 /\ e + j - 1 \in LogSlot
      BY <1>3, <1>4, <1>5, <2>1
    <3>2. log'[e + j - 1] = WordsOf(x, n)[j]
      BY <1>9, <3>1
    <3> QED
      BY <3>1, <3>2 DEF LogAt
  <2>3. Entry(e)' = x /\ ~CorruptAt(e)'
    <3>1. IsEntry(x, n)'
      BY <1>2 DEF IsEntry, Plain, EntryKnown, EntryFits, Raw, SizeOf
    <3>2. \A j \in 1..n : LogAt(e + j - 1)' = WordsOf(x, n)'[j]
      BY <2>2 DEF WordsOf
    <3> QED
      BY <1>10, <3>1, <3>2, ReadBackNext DEF LogSlot, LogWords
  <2>4. Bytes(e)' = EntryBytes(x, 0)
    BY <2>3 DEF Bytes
  <2>5. PlaybackStop' = wa + 1 /\ Assignments' = Logged(e) \cup Writes(e, EntryBytes(x, 0))
    BY <1>16, <2>1, <2>3, <2>4
  <2>6. IsLatest(Applied(d, x, 0), Assignments', Base')
    <3>1. \A t \in Logged(e) : t[1] \in Nat /\ t[1] < e
      BY LogsHold DEF Logs, Logged
    <3> QED
      BY <1>3, <1>18, <1>19, <2>5, <3>1, LatestStep DEF Applied
  <2>7. Recovered' = Applied(d, x, 0)
    BY <2>6, LogsNext DEF Logs, IsLatest
  <2> QED
    BY <1>1, <1>17, <1>18, <2>5, <2>7
<1> QED
  BY <1>16, <1>20, <1>21

\* append_raw keeps the invariant.
LEMMA RecAppend ==
    ASSUME IInv, IInv', RecInv, AppendRaw
    PROVE  RecInv'
<1> SUFFICES ASSUME faults' = 0 PROVE RecInv'
  BY DEF RecInv
<1>1. TypeOK /\ TypeOK'
  BY DEF IInv
<1>2. /\ faults = 0 /\ pc = "append" /\ todo # <<>> /\ write_address' = write_address + 1
      /\ pc' = (IF write_address' >= LogWords THEN "force" ELSE "append") /\ req' = req
  BY DEF AppendRaw, NoFault
<1>3. LogGood /\ InRange(req) /\ \E e, x, n : Logging(e, x, n)
  BY <1>2 DEF RecInv, Appending
<1>4. PICK e, x, n : Logging(e, x, n)
  BY <1>3
<1>5. LogWords \in Nat /\ LogSlot = 0..(LogWords - 1) /\ write_address \in Nat
  BY <1>1, BlankType DEF LogSlot, TypeOK
<1>6. write_address \in LogSlot
  BY <1>2, <1>5 DEF IInv, RoomInv
<1>7. /\ LogGood'
      /\ todo' # <<>> => Logging(e, x, n)'
      /\ todo' = <<>> => /\ PlaybackStop' = write_address' /\ EmptyFrom(write_address)'
                         /\ cache' = Overlay(Recovered', req')
  BY <1>1, <1>3, <1>4, <1>6, AppendWord
<1>8. CASE write_address' >= LogWords
  BY <1>2, <1>7, <1>8 DEF RecInv
<1>9. CASE ~(write_address' >= LogWords)
  <2>1. write_address' \in LogSlot /\ pc' = "append"
    BY <1>2, <1>5, <1>9
  <2>2. InRange(req)'
    BY <1>2, <1>3 DEF InRange, Length
  <2>3. Appending'
    BY <1>7, <2>1, <2>2 DEF Appending, Overlay, Length, Addr
  <2> QED
    BY <1>7, <2>1, <2>3 DEF RecInv
<1> QED
  BY <1>8, <1>9

\* The steps with the history variable are steps of the store.
LEMMA HNextSteps == [HNext]_hvars => [Next]_vars
BY DEF HNext, hvars

\* Every step keeps the invariant.
LEMMA RecStep == LogInOneSector /\ IInv /\ IInv' /\ RecInv /\ [Next]_vars => RecInv'
<1> SUFFICES ASSUME LogInOneSector, IInv, IInv', RecInv, [Next]_vars PROVE RecInv'
  OBVIOUS
<1>1. CASE UNCHANGED vars
  <2> SUFFICES ASSUME faults' = 0 PROVE RecInv'
    BY DEF RecInv
  <2>1. /\ TypeOK /\ TypeOK' /\ faults = 0
        /\ UNCHANGED <<cache, write_address, log, cons, pc, op, cursor, req, todo, status>>
    BY <1>1 DEF vars, flash, local, IInv
  <2>2. /\ LogGood' /\ Read' = Read /\ Recovered' = Recovered /\ Base' = Base
        /\ PlaybackStop' = PlaybackStop /\ \A c : Logged(c)' = Logged(c)
    BY <2>1, SameLog DEF RecInv
  <2>3. pc = "playback" => Replayed'
    <3> SUFFICES ASSUME pc = "playback" PROVE Replayed'
      OBVIOUS
    <3>1. Replayed
      BY <2>1 DEF RecInv
    <3>2. Logged(cursor)' = Logged(cursor)
      BY <2>1, <2>2 DEF Logged
    <3> QED
      BY <2>1, <2>2, <3>1, <3>2 DEF Replayed, IsLatest, Addr
  <2>4. pc \in {"idle", "return"} => Synced'
    BY <2>1, SyncedKept DEF RecInv
  <2>5. pc \in {"consolidate", "program"} => EmptyFrom(0)'
    BY <2>1 DEF RecInv, EmptyFrom, ZeroWord
  <2>6. pc = "append" => Appending'
    <3> SUFFICES ASSUME pc = "append" PROVE Appending'
      OBVIOUS
    <3>1. Appending
      BY <2>1 DEF RecInv
    <3>2. InRange(req)'
      BY <2>1, <3>1 DEF Appending, InRange, Length
    <3>3. EmptyFrom(write_address) => EmptyFrom(write_address)'
      BY <2>1 DEF EmptyFrom, ZeroWord
    <3>4. todo = <<>> => /\ PlaybackStop' = write_address' /\ EmptyFrom(write_address)'
                         /\ cache' = Overlay(Recovered', req')
      BY <2>1, <2>2, <3>1, <3>3 DEF Appending
    <3>5. ASSUME NEW e, NEW x, NEW n, Logging(e, x, n) PROVE Logging(e, x, n)'
      <4>1. /\ Read' = Read /\ Logged(e)' = Logged(e) /\ Base' = Base
        BY <2>2
      <4>2. PICK d : IsLatest(d, Logged(e), Base) /\ cache = Overlay(Applied(d, x, 0), req)
        BY <3>5 DEF Logging
      <4>3. IsLatest(d, Logged(e)', Base') /\ cache' = Overlay(Applied(d, x, 0), req')
        BY <2>1, <4>1, <4>2
      <4>4. /\ e \in Read' /\ IsEntry(x, n)
            /\ e <= write_address' /\ Len(todo') = e + n - write_address'
            /\ \A j \in 1..n : IF e + j - 1 < write_address'
                               THEN log'[e + j - 1] = WordsOf(x, n)[j]
                               ELSE todo'[e + j - write_address'] = WordsOf(x, n)[j]
            /\ EmptyFrom(write_address)'
        BY <2>1, <3>3, <3>5, <4>1 DEF Logging
      <4> QED
        BY <4>3, <4>4 DEF Logging, IsEntry, Plain, EntryKnown, EntryFits, Raw,
               SizeOf, WordsOf, Overlay, Applied, IsLatest
    <3> QED
      BY <2>1, <3>1, <3>2, <3>4, <3>5 DEF Appending, Overlay, Addr, Length
  <2> QED
    BY <2>1, <2>2, <2>3, <2>4, <2>5, <2>6 DEF RecInv
<1>2. CASE Next
  <2>1. CASE Running
    <3>1. CASE PowerUp \/ PlaybackEntry \/ PlaybackCorrupt \/ PlaybackEnd
      BY <3>1, RecStart
    <3>2. CASE ConsolidateForce \/ ConsolidateErase \/ ConsolidateUnlock \/ WriteConsolidated
      BY <3>2, RecConsolidate
    <3>3. CASE EncodeEntry
      BY <3>3, RecEncode
    <3>4. CASE AppendRaw
      BY <3>4, RecAppend
    <3>5. CASE AppendFails \/ WriteLogged
      BY <3>5, RecWrite
    <3>6. CASE EraseStore \/ ReturnInit \/ Return
      BY <3>6, RecEraseReturn
    <3> QED
      BY <2>1, <3>1, <3>2, <3>3, <3>4, <3>5, <3>6 DEF Running
  <2>2. CASE Call
    <3>1. CASE \E r \in Requests : WriteSkipped(r) \/ WriteBegin(r)
      BY <3>1, RecWrite
    <3>2. CASE EraseBegin
      BY <3>2, RecEraseReturn
    <3> QED
      BY <2>2, <3>1, <3>2 DEF Call
  <2>3. CASE PowerLoss
    BY <2>3, RecEraseReturn
  <2> QED
    BY <1>2, <2>1, <2>2, <2>3 DEF Next
<1> QED
  BY <1>1, <1>2

\* The invariant contains the property.
LEMMA RecImplies == IInv /\ RecInv => (faults = 0 => RestartReproducesCache)
BY DEF RecInv, RestartReproducesCache, Synced, EmptyFrom

\* Between calls the flash holds the cache, in every store whose log lies in one
\* sector, across power losses at any moment, as long as no driver call failed: a
\* restart finds the same bytes and the same write position, with nothing behind it.
THEOREM RestartReproduces ==
    ASSUME LogInOneSector
    PROVE  HSpec => [](faults = 0 => RestartReproducesCache)
<1>1. HInit => IInv /\ RecInv
  BY InitIInv, RecInit DEF HInit
<1>2. IInv /\ RecInv /\ [HNext]_hvars => (IInv /\ RecInv)'
  BY StepIInv, RecStep, HNextSteps
<1> QED
  BY <1>1, <1>2, RecImplies, PTL DEF HSpec

-----------------------------------------------------------------------------
(* Durability whatever fails.                                              *)

\* The copy of a decoded entry does not run over the end of the union.
NoOverrun == \A c \in Read : ~LogEndsAt(c) /\ ~CorruptAt(c) => Plain(LogAt(c)[0])

\* The same after a start that could not read the checksum: the log is played back
\* over zeros.
ReplayedOnZeros == cursor \in Read /\ IsLatest(cache, Logged(cursor), Zeros)

\* At its end it leaves zeros in the bytes that no entry assigns.
LEMMA LatestOnZeros ==
    ASSUME TypeOK, NEW d, IsLatest(d, Assignments, Zeros)
    PROVE  \A a \in Addr : \/ d[a] = Recovered[a]
                           \/ d[a] = 0 /\ \A t \in Assignments : t[2] # a
<1> DEFINE A == Assignments
           e == [a \in Addr |-> IF \A t \in A : t[2] # a THEN Base[a] ELSE d[a]]
<1>1. \A a \in Addr : ~(\A t \in A : t[2] # a) => e[a] = d[a]
  OBVIOUS
<1>2. \A a \in Addr : (\A t \in A : t[2] # a) => e[a] = Base[a]
  OBVIOUS
<1>3. e = [a \in Addr |-> e[a]]
  OBVIOUS
<1> HIDE DEF A, e
<1>4. IsLatest(e, A, Base)
  BY <1>1, <1>2, <1>3 DEF IsLatest, A
<1>5. Recovered = e
  BY <1>4, RecoveredIsLatest DEF A
<1>6. \A a \in Addr : (\A t \in A : t[2] # a) => d[a] = 0
  BY DEF IsLatest, Zeros, A
<1> QED
  BY <1>1, <1>5, <1>6 DEF A

DurableInv ==
    /\ pc = "playback" => Replayed \/ (misread /\ ReplayedOnZeros)
    /\ pc \in {"consolidate", "program"} => EmptyFrom(0)
    /\ pc = "append" => op = "write"
    /\ RecoveredIsDurable

\* Every step keeps the invariant, whatever fails.
LEMMA DurableStep == IInv /\ IInv' /\ DurableInv /\ NoOverrun /\ [HNext]_hvars => DurableInv'
<1> SUFFICES ASSUME IInv, IInv', DurableInv, NoOverrun, [HNext]_hvars PROVE DurableInv'
  OBVIOUS
<1>1. TypeOK /\ TypeOK' /\ Reads /\ Reads' /\ Logs /\ Logs'
  BY ReadsHold, ReadsNext, LogsHold, LogsNext DEF IInv
<1>2. UNCHANGED log => (EmptyFrom(0) => EmptyFrom(0)')
  BY DEF EmptyFrom, ZeroWord
<1>20. /\ pc # "off" => misread' = misread
       /\ HNext /\ pc = "off" => misread' = Misreads
  BY DEF HNext, hvars
<1>3. CASE UNCHANGED hvars
  <2>1. UNCHANGED <<cache, log, cons, pc, op, cursor, status, misread>>
    BY <1>3 DEF hvars, vars, flash, local
  <2>2. /\ Read' = Read /\ Recovered' = Recovered /\ Base' = Base
        /\ Assignments' = Assignments
    BY <1>1, <2>1, SameLog
  <2>3. Logged(cursor)' = Logged(cursor)
    BY <2>1, <2>2 DEF Logged
  <2>4. Replayed => Replayed'
    BY <2>1, <2>2, <2>3 DEF Replayed, IsLatest, Addr
  <2>5. ReplayedOnZeros => ReplayedOnZeros'
    BY <2>1, <2>2, <2>3 DEF ReplayedOnZeros, IsLatest, Addr, Zeros
  <2>6. RecoveredIsDurable'
    BY <2>1, <2>2 DEF DurableInv, RecoveredIsDurable, Addr
  <2> QED
    BY <1>2, <2>1, <2>4, <2>5, <2>6 DEF DurableInv
<1>4. CASE HNext /\ PowerUp
  <2>1. CASE pc' = "playback"
    <3>1. cursor' = 0 /\ UNCHANGED <<log, cons>> /\ pc = "off"
      BY <1>4, <2>1 DEF PowerUp, flash
    <3>2. Base' = Base
      BY <1>1, <3>1, SameLog
    <3>3. cursor' \in Read' /\ Logged(0)' = {}
      BY <1>1, <3>1 DEF Reads, IsChain, Logs
    <3>4. Logged(cursor)' = {}
      BY <3>1, <3>3 DEF Logged
    <3>5. cache' = [a \in Addr |-> cache'[a]]
      BY <1>1 DEF TypeOK
    <3>6. cache' = Base \/ (cache' = Zeros /\ misread')
      <4>1. cache' = Base \/ (cache' = Zeros /\ cons.valid /\ cache' # cons.data)
        BY <1>4, <2>1 DEF PowerUp, Base
      <4> QED
        BY <1>4, <1>20, <2>1, <3>1, <4>1 DEF Misreads
    <3>7. CASE cache' = Base
      BY <2>1, <3>2, <3>3, <3>4, <3>5, <3>7
         DEF DurableInv, Replayed, RecoveredIsDurable, IsLatest, Addr
    <3>8. CASE cache' = Zeros /\ misread'
      BY <2>1, <3>3, <3>4, <3>5, <3>8
         DEF DurableInv, ReplayedOnZeros, RecoveredIsDurable, IsLatest, Addr, Zeros
    <3> QED
      BY <3>6, <3>7, <3>8
  <2>2. CASE pc' = "return"
    <3>1. status' = "FAILED"
      BY <1>4, <2>2 DEF PowerUp
    <3> QED
      BY <2>2, <3>1 DEF DurableInv, RecoveredIsDurable
  <2> QED
    BY <1>4, <2>1, <2>2 DEF PowerUp
<1>5. CASE PlaybackEntry
  <2>1. pc = "playback" /\ pc' = "playback" /\ misread' = misread
    BY <1>5, <1>20 DEF PlaybackEntry
  <2>2. Replayed => Replayed'
    BY <1>1, <1>5, PlaybackReplays DEF NoOverrun
  <2>3. ReplayedOnZeros => ReplayedOnZeros'
    <3> SUFFICES ASSUME ReplayedOnZeros PROVE ReplayedOnZeros'
      OBVIOUS
    <3>1. PICK b : b = Zeros
      OBVIOUS
    <3>2. cursor \in Read /\ IsLatest(cache, Logged(cursor), b)
      BY <3>1 DEF ReplayedOnZeros
    <3>3. cursor' \in Read' /\ IsLatest(cache', Logged(cursor)', b)
      BY <1>1, <1>5, <3>2, PlaybackOver DEF NoOverrun
    <3> QED
      BY <3>1, <3>3 DEF ReplayedOnZeros, IsLatest, Addr, Zeros
  <2> QED
    BY <2>1, <2>2, <2>3 DEF DurableInv, RecoveredIsDurable
<1>6. CASE PlaybackCorrupt
  BY <1>6 DEF PlaybackCorrupt, DurableInv, RecoveredIsDurable
<1>7. CASE PlaybackEnd
  <2>1. /\ pc = "playback" /\ LogEndsAt(cursor) /\ pc' \in {"force", "return"}
        /\ UNCHANGED <<cache, log, cons, misread>> /\ status' = "SUCCESS"
    BY <1>7, <1>20 DEF PlaybackEnd, flash
  <2>2. cursor \in Read
    BY <2>1 DEF DurableInv, Replayed, ReplayedOnZeros
  <2>3. Logged(cursor) = Assignments
    <3>1. PlaybackStop = cursor
      BY <1>1, <2>1, <2>2 DEF Reads
    <3> QED
      BY <1>1, <3>1 DEF Logs
  <2>4. \A a \in Addr : \/ cache[a] = Recovered[a]
                        \/ misread /\ cache[a] = 0 /\ \A t \in Assignments : t[2] # a
    <3>1. CASE Replayed
      <4>1. Recovered = cache
        BY <1>1, <2>3, <3>1, RecoveredIsLatest DEF Replayed
      <4> QED
        BY <4>1
    <3>2. CASE misread /\ ReplayedOnZeros
      <4>1. IsLatest(cache, Assignments, Zeros)
        BY <2>3, <3>2 DEF ReplayedOnZeros
      <4>2. \A a \in Addr : \/ cache[a] = Recovered[a]
                            \/ cache[a] = 0 /\ \A t \in Assignments : t[2] # a
        BY <1>1, <4>1, LatestOnZeros
      <4> QED
        BY <3>2, <4>2
    <3> QED
      BY <2>1, <3>1, <3>2 DEF DurableInv
  <2>5. Recovered' = Recovered /\ Assignments' = Assignments
    BY <1>1, <2>1, SameLog
  <2>6. RecoveredIsDurable'
    BY <2>1, <2>4, <2>5 DEF RecoveredIsDurable, Addr
  <2> QED
    BY <2>1, <2>6 DEF DurableInv
<1>8. CASE ConsolidateForce
  BY <1>8 DEF ConsolidateForce, DurableInv, RecoveredIsDurable
<1>9. CASE ConsolidateErase
  <2>1. CASE pc' = "consolidate"
    <3>1. log' = [i \in LogSlot |-> ZeroWord]
      BY <1>9, <2>1 DEF ConsolidateErase
    <3>2. EmptyFrom(0)'
      BY <3>1 DEF EmptyFrom, ZeroWord
    <3> QED
      BY <2>1, <3>2 DEF DurableInv, RecoveredIsDurable
  <2>2. CASE pc' = "return" /\ status' = "FAILED"
    BY <2>2 DEF DurableInv, RecoveredIsDurable
  <2> QED
    BY <1>9, <2>1, <2>2 DEF ConsolidateErase
<1>10. CASE ConsolidateUnlock
  BY <1>2, <1>10 DEF ConsolidateUnlock, DurableInv, RecoveredIsDurable, flash
<1>11. CASE WriteConsolidated
  <2>1. PICK writeFails \in BOOLEAN :
            /\ cons' = IF writeFails THEN NoData ELSE Sealed(cache)
            /\ status' = IF writeFails THEN "FAILED" ELSE "CONSOLIDATED"
    BY <1>11 DEF WriteConsolidated
  <2>2. pc = "program" /\ pc' = "return" /\ UNCHANGED <<log, cache>>
    BY <1>11 DEF WriteConsolidated
  <2>3. CASE writeFails
    BY <2>1, <2>2, <2>3 DEF DurableInv, RecoveredIsDurable
  <2>4. CASE ~writeFails
    <3>1. EmptyFrom(0)'
      BY <1>2, <2>2 DEF DurableInv
    <3>2. Recovered' = Base'
      BY <1>1, <3>1, EmptyLogNext
    <3>3. Base' = cache'
      BY <2>1, <2>2, <2>4 DEF Base, Sealed
    <3> QED
      BY <2>2, <3>2, <3>3 DEF DurableInv, RecoveredIsDurable
  <2> QED
    BY <2>3, <2>4
<1>12. ASSUME NEW r \in Requests, WriteSkipped(r) \/ WriteBegin(r) PROVE DurableInv'
  BY <1>12 DEF WriteSkipped, WriteBegin, DurableInv, RecoveredIsDurable
<1>13. CASE EncodeEntry
  BY <1>13 DEF EncodeEntry, DurableInv, RecoveredIsDurable
<1>14. CASE AppendRaw
  BY <1>14 DEF AppendRaw, DurableInv, RecoveredIsDurable
<1>15. CASE AppendFails
  BY <1>15 DEF AppendFails, DurableInv, RecoveredIsDurable
<1>16. CASE WriteLogged
  BY <1>16 DEF WriteLogged, DurableInv, RecoveredIsDurable
<1>17. CASE EraseBegin
  BY <1>17 DEF EraseBegin, DurableInv, RecoveredIsDurable
<1>18. CASE EraseStore
  BY <1>18 DEF EraseStore, DurableInv, RecoveredIsDurable
<1>19. CASE ReturnInit \/ Return \/ PowerLoss
  BY <1>19 DEF ReturnInit, Return, PowerLoss, DurableInv, RecoveredIsDurable
<1> QED
  BY <1>3, <1>4, <1>5, <1>6, <1>7, <1>8, <1>9, <1>10, <1>11, <1>12, <1>13, <1>14, <1>15,
     <1>16, <1>17, <1>18, <1>19 DEF HNext, Next, Running, Call

\* What a consolidation or a recovery reported as stored is what the next start
\* finds, whatever driver calls failed before, as long as playback meets no length
\* that runs over the end of write_log_entry_t.  The exception is a start that could
\* not read the checksum, and then only for bytes that are not in the log: it reports
\* success with zeros in their place.
THEOREM Durable == HSpec /\ []NoOverrun => []RecoveredIsDurable
<1>1. HInit => IInv /\ DurableInv
  BY InitIInv DEF HInit, Init, DurableInv, RecoveredIsDurable
<1>2. IInv /\ DurableInv /\ NoOverrun /\ [HNext]_hvars => (IInv /\ DurableInv)'
  BY StepIInv, DurableStep, HNextSteps
<1>3. DurableInv => RecoveredIsDurable
  BY DEF DurableInv
<1> QED
  BY <1>1, <1>2, <1>3, PTL DEF HSpec

-----------------------------------------------------------------------------
(* The store implements the emulated EEPROM.                               *)

\* Each byte that a restart finds is the one from before the running call or the
\* one in the cache.
OldOrNew == \A a \in Addr : Recovered[a] \in {before[a], cache[a]}

\* The running request goes on behind the bytes of the entry being appended.
RequestBehind == \A x : x = todo[1] => \A a \in DOMAIN EntryBytes(x, 0) : a < req[1]

\* Without a failure, and with words that hold a whole entry.
RefInv ==
    /\ faults = 0
    /\ pc \in {"append", "force", "erase"} => OldOrNew
    /\ pc = "append" /\ todo # <<>> => RequestBehind
    /\ pc \in {"consolidate", "program"} => ~cons.valid

\* With eight-byte words every entry is one word.
LEMMA WholeEntry ==
    ASSUME WriteSize = 8, NEW x, NEW n, IsEntry(x, n)
    PROVE  n = 1 /\ WordsOf(x, n)[1] = x
<1>1. n \in 1..4 /\ n * 8 <= 8 /\ x \in Raw
  BY SizeOfType DEF IsEntry, Raw
<1>2. n = 1
  BY <1>1
<1>3. WordsOf(x, n)[1] = [i \in 0..7 |-> x[(1 - 1) * 8 + i]]
  BY <1>2 DEF WordsOf
<1>4. \A i \in 0..7 : (1 - 1) * 8 + i = i
  OBVIOUS
<1> QED
  BY <1>1, <1>2, <1>3, <1>4 DEF Raw

\* The history variable changes only between calls.
LEMMA BeforeStep ==
    ASSUME HNext
    PROVE  /\ pc \in {"off", "playback"} => before' = Recovered
           /\ pc = "idle" => before' = cache
           /\ pc \notin {"off", "playback", "idle"} /\ TypeOK => before' = before
BY DEF HNext, Phase, Contents, TypeOK

\* write_raw leaves every byte old or new after each of its entries.
LEMMA RefAppend ==
    ASSUME WriteSize = 8, IInv, IInv', RecInv, RecInv', RefInv, HNext, EncodeEntry \/ AppendRaw
    PROVE  RefInv'
<1>1. TypeOK /\ TypeOK' /\ Reads /\ Logs
  BY ReadsHold, LogsHold DEF IInv
<1>2. faults = 0 /\ faults' = 0 /\ pc = "append" /\ before' = before /\ cache' = cache /\ OldOrNew
  BY <1>1, BeforeStep DEF RefInv, EncodeEntry, AppendRaw, NoFault
<1>3. LogGood /\ Appending
  BY <1>2 DEF RecInv
<1>4. CASE EncodeEntry
  <2>1. /\ todo' = NextWords(req) /\ req' = Rest(req) /\ pc' = "append" /\ Length(req) > 0
        /\ UNCHANGED <<log, cons>> /\ req \in Nat \X Seq(Byte) /\ InRange(req)
    BY <1>1, <1>3, <1>4 DEF EncodeEntry, Rest, flash, TypeOK, Appending
  <2>2. PICK x, n : /\ IsEntry(x, n) /\ NextWords(req) = WordsOf(x, n)
                    /\ EntryBytes(x, 0) = Chunk(req, NextTaken(req))
    BY <2>1, NextEntry
  <2>3. todo'[1] = x
    BY <2>1, <2>2, WholeEntry
  <2>4. \A a \in DOMAIN EntryBytes(x, 0) : a < req'[1]
    <3>1. NextTaken(req) \in Nat /\ req[1] \in Nat
      BY <2>1, NextTakenType DEF Length
    <3>2. DOMAIN EntryBytes(x, 0) = req[1]..(req[1] + NextTaken(req) - 1)
      BY <2>2 DEF Chunk
    <3>3. req'[1] = req[1] + NextTaken(req)
      BY <2>1 DEF Rest
    <3> QED
      BY <3>1, <3>2, <3>3
  <2>5. OldOrNew'
    BY <1>1, <1>2, <2>1, SameLog DEF OldOrNew, Addr
  <2>6. RequestBehind'
    BY <2>3, <2>4 DEF RequestBehind
  <2> QED
    BY <1>2, <2>1, <2>5, <2>6 DEF RefInv
<1>5. CASE AppendRaw
  <2>1. /\ todo # <<>> /\ write_address' = write_address + 1 /\ todo' = Tail(todo)
        /\ pc' \in {"force", "append"} /\ req' = req /\ req \in Nat \X Seq(Byte)
    BY <1>1, <1>5 DEF AppendRaw, TypeOK
  <2>2. PICK e, x, n : Logging(e, x, n)
    BY <1>3, <2>1 DEF Appending
  <2>3. n = 1 /\ WordsOf(x, n)[1] = x /\ e \in Nat /\ e \in Read
        /\ write_address \in Nat /\ todo \in Seq(Word)
    BY <1>1, <2>2, WholeEntry DEF Logging, TypeOK, Reads
  <2>4. e = write_address /\ todo[1] = x /\ todo' = <<>>
    <3>1. e <= write_address /\ Len(todo) = e + 1 - write_address
      BY <2>2, <2>3 DEF Logging
    <3>2. Len(todo) > 0
      BY <2>1, <2>3
    <3>3. e = write_address /\ Len(todo) = 1
      BY <2>3, <3>1, <3>2
    <3>4. ~(e + 1 - 1 < write_address) /\ e + 1 - write_address = 1 /\ 1 \in 1..n
      BY <2>3, <3>3
    <3>5. todo[e + 1 - write_address] = WordsOf(x, n)[1]
      BY <2>2, <3>4 DEF Logging
    <3>6. Tail(todo) = <<>>
      <4>1. Tail(todo) \in Seq(Word) /\ Len(Tail(todo)) = 0
        BY <2>3, <3>2, <3>3
      <4> QED
        BY <4>1, EmptySeq
    <3> QED
      BY <2>1, <2>3, <3>3, <3>4, <3>5, <3>6
  <2>5. write_address \in LogSlot
    BY <1>1, <1>2, <2>3, BlankType DEF IInv, RoomInv, LogSlot
  <2>6. /\ cache' = Overlay(Recovered', req')
        /\ \E d : IsLatest(d, Logged(e), Base) /\ Recovered' = Applied(d, x, 0)
    BY <1>1, <1>3, <1>5, <2>2, <2>4, <2>5, AppendWord
  <2>7. Recovered' = Applied(Recovered, x, 0)
    <3>1. LogEndsAt(e)
      BY <2>2, <2>3, <2>4, <2>5 DEF LogEndsAt, LogAt, Logging, EmptyFrom
    <3>2. PlaybackStop = e
      BY <1>1, <2>3, <3>1 DEF Reads
    <3>3. Logged(e) = Assignments
      BY <1>1, <3>2 DEF Logs
    <3> QED
      BY <1>1, <2>6, <3>3 DEF Logs
  <2>8. ASSUME NEW a \in Addr PROVE Recovered'[a] \in {before[a], cache[a]}
    <3>1. CASE a - req[1] \in 0..(Length(req) - 1)
      <4>1. ~(a < req[1])
        BY <2>1, <3>1 DEF Addr, Length
      <4>2. a \notin DOMAIN EntryBytes(x, 0)
        BY <1>2, <2>1, <2>4, <4>1 DEF RefInv, RequestBehind
      <4>3. Recovered'[a] = Recovered[a]
        BY <2>7, <4>2 DEF Applied
      <4> QED
        BY <1>2, <4>3 DEF OldOrNew
    <3>2. CASE a - req[1] \notin 0..(Length(req) - 1)
      <4>1. cache'[a] = Recovered'[a]
        BY <2>1, <2>6, <3>2 DEF Overlay
      <4> QED
        BY <1>2, <4>1
    <3> QED
      BY <3>1, <3>2
  <2>9. OldOrNew'
    BY <1>2, <2>8 DEF OldOrNew, Addr
  <2> QED
    BY <1>2, <2>1, <2>4, <2>9 DEF RefInv
<1> QED
  BY <1>4, <1>5

\* Every step keeps the invariant of the refinement.
LEMMA RefStep ==
    ASSUME WriteSize = 8, MaxFaults = 0, IInv, IInv', RecInv, RecInv', RefInv, HNext
    PROVE  RefInv'
<1>1. TypeOK /\ TypeOK' /\ faults = 0 /\ Logs
  BY LogsHold DEF IInv, RefInv
<1>2. ~Fault
  BY <1>1 DEF Fault
<1>3. \A ls \in LockStatus : Unlock(ls) => ls # "FAILURE" /\ faults' = 0
  BY <1>1, <1>2 DEF Unlock, NoFault
<1>4. UNCHANGED <<log, cons>> => Recovered' = Recovered
  BY <1>1, SameLog
<1>5. ASSUME UNCHANGED <<log, cons, before, cache>>, OldOrNew PROVE OldOrNew'
  BY <1>4, <1>5 DEF OldOrNew, Addr
<1>6. ASSUME UNCHANGED <<log, cons>>, before' = Recovered PROVE OldOrNew'
  BY <1>4, <1>6 DEF OldOrNew, Addr
<1>7. CASE PowerUp \/ PlaybackEntry
  BY <1>1, <1>2, <1>7 DEF PowerUp, PlaybackEntry, RefInv, NoFault
<1>8. CASE PlaybackCorrupt \/ PlaybackEnd
  <2>1. pc = "playback" /\ pc' \in {"force", "return"} /\ UNCHANGED <<log, cons>> /\ faults' = 0
    BY <1>1, <1>2, <1>8 DEF PlaybackCorrupt, PlaybackEnd, flash, NoFault
  <2>2. OldOrNew'
    BY <1>6, <2>1, BeforeStep
  <2> QED
    BY <2>1, <2>2 DEF RefInv
<1>9. CASE ConsolidateForce
  <2>1. pc = "force" /\ pc' = "erase" /\ UNCHANGED <<log, cons, cache>> /\ faults' = 0
    BY <1>3, <1>9 DEF ConsolidateForce, flash
  <2>2. OldOrNew'
    BY <1>1, <1>5, <2>1, BeforeStep DEF RefInv
  <2> QED
    BY <2>1, <2>2 DEF RefInv
<1>10. CASE ConsolidateErase
  <2>1. cons' = NoData /\ pc' = "consolidate" /\ faults' = 0
    BY <1>1, <1>2, <1>10 DEF ConsolidateErase, NoFault
  <2> QED
    BY <2>1 DEF RefInv, NoData
<1>11. CASE ConsolidateUnlock
  <2>1. pc = "consolidate" /\ pc' = "program" /\ UNCHANGED cons /\ faults' = 0
    BY <1>3, <1>11 DEF ConsolidateUnlock, flash
  <2> QED
    BY <2>1 DEF RefInv
<1>12. CASE WriteConsolidated
  <2>1. pc' = "return" /\ faults' <= MaxFaults
    BY <1>12 DEF WriteConsolidated
  <2>2. faults' = 0
    BY <1>1, <2>1 DEF TypeOK
  <2> QED
    BY <2>1, <2>2 DEF RefInv
<1>13. ASSUME NEW r \in Requests, WriteSkipped(r) PROVE RefInv'
  BY <1>1, <1>13 DEF WriteSkipped, RefInv, NoFault
<1>14. ASSUME NEW r \in Requests, WriteBegin(r) PROVE RefInv'
  <2>1. PICK ls \in LockStatus : Unlock(ls) /\ pc' = IF ls = "FAILURE" THEN "return" ELSE "append"
    BY <1>14 DEF WriteBegin
  <2>2. pc = "idle" /\ pc' = "append" /\ faults' = 0 /\ todo' = <<>> /\ UNCHANGED <<log, cons>>
    BY <1>3, <1>14, <2>1 DEF WriteBegin, flash
  <2>3. before' = Recovered
    BY <1>1, <2>2, BeforeStep DEF RecInv, Synced
  <2>4. OldOrNew'
    BY <1>6, <2>2, <2>3
  <2> QED
    BY <2>2, <2>4 DEF RefInv
<1>15. CASE EncodeEntry \/ AppendRaw
  BY <1>15, RefAppend
<1>16. CASE AppendFails
  BY <1>2, <1>16 DEF AppendFails
<1>17. CASE WriteLogged
  <2>1. pc = "append" /\ pc' \in {"force", "return"} /\ UNCHANGED <<log, cons, cache>> /\ faults' = 0
    BY <1>1, <1>17 DEF WriteLogged, flash, NoFault
  <2>2. OldOrNew'
    BY <1>1, <1>5, <2>1, BeforeStep DEF RefInv
  <2> QED
    BY <2>1, <2>2 DEF RefInv
<1>18. CASE EraseBegin
  <2>1. PICK ls \in LockStatus : Unlock(ls) /\ pc' = IF ls = "FAILURE" THEN "return" ELSE "erase"
    BY <1>18 DEF EraseBegin
  <2>2. pc = "idle" /\ pc' = "erase" /\ faults' = 0 /\ UNCHANGED <<log, cons>>
    BY <1>3, <1>18, <2>1 DEF EraseBegin, flash
  <2>3. before' = Recovered
    BY <1>1, <2>2, BeforeStep DEF RecInv, Synced
  <2>4. OldOrNew'
    BY <1>6, <2>2, <2>3
  <2> QED
    BY <2>2, <2>4 DEF RefInv
<1>19. CASE EraseStore \/ ReturnInit \/ Return \/ PowerLoss
  BY <1>1, <1>2, <1>19 DEF EraseStore, ReturnInit, Return, PowerLoss, RefInv, NoFault
<1> QED
  BY <1>7, <1>8, <1>9, <1>10, <1>11, <1>12, <1>13, <1>14, <1>15, <1>16, <1>17, <1>18, <1>19
     DEF HNext, Next, Running, Call

\* An erase that stopped early leaves each byte that a restart finds as it was,
\* or zero.
LEMMA ErasedPartly ==
    ASSUME LogInOneSector, TypeOK, TypeOK', NEW n \in Sectors,
           cons' = ConsErased(0..n), log' = LogErased(0..n), NEW a \in Addr
    PROVE  Recovered'[a] \in {Recovered[a], 0}
<1> DEFINE at(i) == (LogicalSize + 8 + i * WriteSize) \div SectorSize
<1>1. n \in Nat /\ LogicalSize \in Nat /\ SectorSize \in Nat \ {0} /\ WriteSize \in Nat
  BY SizesAssumption DEF Sectors
<1>2. Logs /\ Logs'
  BY LogsHold, LogsNext
<1>3. \A i, j \in LogSlot : at(i) = at(j)
  BY DEF LogInOneSector
<1>4. log' = [i \in LogSlot |-> IF at(i) \in 0..n THEN ZeroWord ELSE log[i]]
  BY DEF LogErased
<1>5. 0 \in LogSlot
  BY BlankType DEF LogSlot
<1>6. at(0) = (LogicalSize + 8) \div SectorSize
  BY <1>1
<1> HIDE DEF at
<1>7. CASE at(0) \in 0..n
  <2>1. \A i \in LogSlot : log'[i] = ZeroWord
    BY <1>3, <1>4, <1>5, <1>7
  <2>2. Recovered' = Base'
    <3>1. EmptyFrom(0)'
      BY <2>1 DEF EmptyFrom, ZeroWord
    <3> QED
      BY <3>1, EmptyLogNext
  <2>3. cons' = NoData
    <3>1. (LogicalSize + 7) \div SectorSize \in 0..n
      <4> DEFINE l == LogicalSize
                 s == SectorSize
      <4>1. l \in Nat /\ s \in Nat \ {0} /\ (l + 8) \div s <= n
        BY <1>1, <1>6, <1>7
      <4> HIDE DEF l, s
      <4>2. (l + 7) \div s <= (l + 8) \div s /\ (l + 7) \div s \in Nat
        BY <4>1
      <4> QED
        BY <1>1, <4>1, <4>2 DEF l, s
    <3>2. LogicalSize + 7 \in LogicalSize..(LogicalSize + 7)
      BY <1>1
    <3> QED
      BY <3>1, <3>2 DEF ConsErased
  <2>4. Base' = Zeros
    BY <2>3 DEF Base, NoData, Zeros, Addr
  <2> QED
    BY <2>2, <2>4 DEF Zeros
<1>8. CASE at(0) \notin 0..n
  <2>1. UNCHANGED log
    <3>1. \A i \in LogSlot : log'[i] = log[i]
      BY <1>3, <1>4, <1>5, <1>8
    <3>2. log \in [LogSlot -> Word] /\ log' \in [LogSlot -> Word]
      BY DEF TypeOK, LogSlot, Word, Byte, LogWords
    <3> QED
      BY <3>1, <3>2
  <2>2. Assignments' = Assignments
    BY <2>1, SameLog
  <2>3. IsLatest(Recovered, Assignments, Base) /\ IsLatest(Recovered', Assignments, Base')
    <3>1. IsLatest(Recovered', Assignments', Base')
      BY <1>2 DEF Logs, IsLatest
    <3> QED
      BY <1>2, <2>2, <3>1 DEF Logs
  <2>4. CASE \E t \in Assignments : t[2] = a
    <3>1. \E m \in Nat : \A t \in Assignments : t[1] \in 0..m
      <4>1. LogWords + 4 \in Nat
        BY BlankType
      <4> QED
        BY <4>1, LoggedFacts
    <3>2. PICK t \in Assignments : t[2] = a /\ \A u \in Assignments : u[2] = a => u[1] <= t[1]
      BY <2>4, <3>1, LatestExists
    <3> QED
      BY <2>3, <3>2 DEF IsLatest
  <2>5. CASE \A t \in Assignments : t[2] # a
    <3>1. Recovered[a] = Base[a] /\ Recovered'[a] = Base'[a]
      BY <2>3, <2>5 DEF IsLatest
    <3>2. Base' = Base \/ Base' = Zeros
      BY DEF ConsErased, Base, NoData, Zeros, Addr
    <3> QED
      BY <3>1, <3>2 DEF Zeros
  <2> QED
    BY <2>4, <2>5
<1> QED
  BY <1>7, <1>8

-----------------------------------------------------------------------------
\* Contents and phase of the emulated EEPROM after a step of the store.
LEMMA EepromInit == HInit => Eeprom!Init
<1> SUFFICES ASSUME HInit PROVE Eeprom!Init
  OBVIOUS
<1>1. TypeOK /\ EmptyFrom(0)
  BY InitIInv DEF HInit, Init, IInv, EmptyFrom
<1>2. Recovered = Base /\ Base = Zeros
  BY <1>1, EmptyLog DEF Base, HInit, Init, NoData
<1> QED
  BY <1>2 DEF Eeprom!Init, Eeprom!Zeros, Contents, Phase, HInit, Init, Zeros

\* A power loss loses what the emulated EEPROM may lose.
LEMMA EepromPowerLoss ==
    ASSUME LogInOneSector, IInv, IInv', RecInv, RefInv, HNext, PowerLoss
    PROVE  Eeprom!PowerLoss
<1>1. TypeOK /\ TypeOK' /\ faults = 0 /\ pc' = "off" /\ pc # "off" /\ Logs
  BY LogsHold DEF IInv, RefInv, PowerLoss
<1>2. Phase' = "rest" /\ Contents' = Recovered'
  BY <1>1 DEF Phase, Contents
<1> DEFINE lost == IF Phase = "reorganising" THEN {0} ELSE {}
           old == IF Phase = "rest" THEN Contents ELSE before
<1>3. ASSUME NEW a \in Addr PROVE Recovered'[a] \in {old[a], Contents[a]} \cup lost
  <2>1. CASE UNCHANGED flash
    <3>1. Recovered' = Recovered
      BY <1>1, <2>1, SameLog DEF flash
    <3>2. CASE pc = "playback"
      BY <3>1, <3>2 DEF Contents
    <3>3. CASE pc \in {"idle", "return"}
      <4>1. Recovered = cache
        BY <1>1, <3>3 DEF RecInv, Synced
      <4> QED
        BY <3>1, <3>3, <4>1 DEF Contents
    <3>4. CASE pc \in {"append", "force", "erase"}
      BY <3>1, <3>4 DEF Contents, Phase, RefInv, OldOrNew
    <3>5. CASE pc \in {"consolidate", "program"}
      <4>1. Recovered = Base
        BY <1>1, <3>5, EmptyLog DEF RecInv
      <4>2. Base = Zeros
        BY <3>5 DEF RefInv, Base
      <4> QED
        BY <3>1, <3>5, <4>1, <4>2 DEF Phase, Zeros
    <3> QED
      BY <1>1, <3>2, <3>3, <3>4, <3>5 DEF TypeOK
  <2>2. ASSUME pc = "erase", NEW n \in Sectors, cons' = ConsErased(0..n), log' = LogErased(0..n)
        PROVE  Recovered'[a] \in {old[a], Contents[a]} \cup lost
    <3>1. Recovered'[a] \in {Recovered[a], 0}
      BY <1>1, <2>2, ErasedPartly
    <3>2. Recovered[a] \in {before[a], cache[a]}
      BY <2>2 DEF RefInv, OldOrNew
    <3> QED
      BY <2>2, <3>1, <3>2 DEF Contents, Phase
  <2> QED
    BY <2>1, <2>2 DEF PowerLoss
<1> QED
  BY <1>2, <1>3 DEF Eeprom!PowerLoss

\* Every step of the store is a step of the emulated EEPROM, or none.
LEMMA EepromStep ==
    ASSUME MaxFaults = 0, LogInOneSector, IInv, IInv', RecInv, RecInv', RefInv, HNext
    PROVE  Eeprom!Next \/ UNCHANGED Eeprom!vars
<1>1. TypeOK /\ TypeOK' /\ faults = 0 /\ ~Fault
  BY DEF IInv, RefInv, Fault
<1>2. UNCHANGED <<log, cons>> => Recovered' = Recovered
  BY <1>1, SameLog
<1>3. CASE PowerLoss
  BY <1>3, EepromPowerLoss DEF Eeprom!Next
<1>4. CASE PowerUp \/ PlaybackEntry
  <2>1. pc \in {"off", "playback"} /\ pc' = "playback" /\ UNCHANGED <<log, cons>>
    BY <1>1, <1>4 DEF PowerUp, PlaybackEntry, flash
  <2> QED
    BY <1>2, <2>1 DEF Eeprom!vars, Contents, Phase
<1>5. ASSUME pc \in {"playback", "idle"}, pc' \notin {"off", "playback", "idle"}
      PROVE  Eeprom!Next
  <2>1. Phase = "rest" /\ Phase' \in {"logging", "reorganising"}
    BY <1>1, <1>5 DEF Phase, TypeOK
  <2>2. Contents' \in [Addr -> Byte]
    BY <1>1, <1>5 DEF Contents, TypeOK, Addr, Byte
  <2>3. before' = Contents
    BY <2>1 DEF HNext
  <2> QED
    BY <2>1, <2>2, <2>3 DEF Eeprom!Next, Eeprom!Begin, Eeprom!Contents
<1>6. ASSUME pc \notin {"off", "playback", "idle"}, pc' \notin {"off", "playback", "idle"},
             UNCHANGED cache
      PROVE  Eeprom!Next
  <2>1. Phase \in {"logging", "reorganising"} /\ Phase' \in {"logging", "reorganising"}
    BY <1>1, <1>6 DEF Phase, TypeOK
  <2>2. before' = before /\ Contents' = Contents
    BY <1>6, <2>1 DEF HNext, Contents
  <2> QED
    BY <2>1, <2>2 DEF Eeprom!Next, Eeprom!Reorganise
<1>7. CASE PlaybackCorrupt \/ PlaybackEnd
  BY <1>5, <1>7 DEF PlaybackCorrupt, PlaybackEnd
<1>8. CASE ConsolidateForce \/ ConsolidateErase \/ ConsolidateUnlock \/ WriteConsolidated
  BY <1>1, <1>6, <1>8 DEF ConsolidateForce, ConsolidateErase, ConsolidateUnlock, WriteConsolidated
<1>9. CASE EncodeEntry \/ AppendRaw \/ WriteLogged
  BY <1>6, <1>9 DEF EncodeEntry, AppendRaw, WriteLogged
<1>10. CASE AppendFails
  BY <1>1, <1>10 DEF AppendFails
<1>11. ASSUME NEW r \in Requests, WriteSkipped(r) \/ WriteBegin(r) PROVE Eeprom!Next
  BY <1>5, <1>11 DEF WriteSkipped, WriteBegin
<1>12. CASE EraseBegin
  BY <1>5, <1>12 DEF EraseBegin
<1>13. CASE EraseStore
  <2>1. pc = "erase" /\ pc' = "return" /\ cache' = Zeros
    BY <1>13 DEF EraseStore
  <2>2. Phase = "reorganising" /\ Phase' = "logging" /\ Contents' = Zeros /\ before' = before
    BY <2>1 DEF Phase, Contents, HNext
  <2> QED
    BY <2>2 DEF Eeprom!Next, Eeprom!Clear, Eeprom!Zeros, Zeros
<1>14. CASE ReturnInit \/ Return
  <2>1. pc = "return" /\ pc' = "idle" /\ cache' = cache
    BY <1>1, <1>14 DEF ReturnInit, Return, RecInv
  <2>2. Phase = "logging" /\ Phase' = "rest" /\ Contents' = Contents
    BY <2>1 DEF Phase, Contents
  <2> QED
    BY <2>2 DEF Eeprom!Next, Eeprom!Commit
<1> QED
  BY <1>3, <1>4, <1>7, <1>8, <1>9, <1>10, <1>11, <1>12, <1>13, <1>14
     DEF HNext, Next, Running, Call

\* A step that changes nothing is none of the emulated EEPROM's either,
LEMMA EepromStutter ==
    ASSUME IInv, IInv', UNCHANGED hvars
    PROVE  UNCHANGED Eeprom!vars
<1>1. TypeOK /\ TypeOK' /\ UNCHANGED <<log, cons, pc, cache, before>>
  BY DEF IInv, hvars, vars, flash
<1>2. Recovered' = Recovered
  BY <1>1, SameLog
<1> QED
  BY <1>1, <1>2 DEF Eeprom!vars, Contents, Phase

\* and keeps the invariant.
LEMMA RefStutter ==
    ASSUME IInv, IInv', RefInv, UNCHANGED hvars
    PROVE  RefInv'
<1>1. TypeOK /\ TypeOK' /\ UNCHANGED <<log, cons, pc, cache, before, faults, todo, req>>
  BY DEF IInv, hvars, vars, flash, local
<1>2. Recovered' = Recovered
  BY <1>1, SameLog
<1>3. RequestBehind => RequestBehind'
  BY <1>1 DEF RequestBehind
<1>4. OldOrNew => OldOrNew'
  BY <1>1, <1>2 DEF OldOrNew, Addr
<1> QED
  BY <1>1, <1>3, <1>4 DEF RefInv

\* The store implements the emulated EEPROM across power losses at any moment, for
\* every size of the store and every request: with words that hold a whole entry,
\* the log in one sector, and a driver that does not fail.
THEOREM Refinement ==
    ASSUME WriteSize = 8, MaxFaults = 0, LogInOneSector
    PROVE  HSpec => ImplementsEeprom
<1>1. HInit => IInv /\ RecInv /\ RefInv /\ Eeprom!Init
  <2>1. HInit => RefInv
    BY DEF HInit, Init, RefInv
  <2> QED
    BY <2>1, InitIInv, RecInit, EepromInit DEF HInit
<1>2. IInv /\ RecInv /\ RefInv /\ [HNext]_hvars
        => (IInv /\ RecInv /\ RefInv)' /\ [Eeprom!Next]_(Eeprom!vars)
  <2> SUFFICES ASSUME IInv, RecInv, RefInv, [HNext]_hvars
               PROVE  (IInv /\ RecInv /\ RefInv)' /\ [Eeprom!Next]_(Eeprom!vars)
    OBVIOUS
  <2>1. IInv' /\ RecInv'
    BY StepIInv, RecStep, HNextSteps
  <2>2. CASE HNext
    BY <2>1, <2>2, RefStep, EepromStep
  <2>3. CASE UNCHANGED hvars
    BY <2>1, <2>3, EepromStutter, RefStutter
  <2> QED
    BY <2>1, <2>2, <2>3
<1> QED
  BY <1>1, <1>2, PTL DEF HSpec, ImplementsEeprom, Eeprom!Spec

\* Every word in the log, and every word about to be appended, starts with a
\* length that write_raw uses.
PlainLog ==
    /\ \A i \in LogSlot : Plain(log[i][0])
    /\ \A k \in 1..Len(todo) : Plain(todo[k][0])
    /\ pc = "append" => InRange(req)

\* An erased word is no entry with a long length.
LEMMA ZeroIsPlain == Plain(ZeroWord[0])
BY SizesAssumption DEF Plain, ZeroWord, MultibyteMax

\* With eight-byte words no failure leaves a part of an entry in the log.
LEMMA PlainStep ==
    ASSUME WriteSize = 8, IInv, IInv', PlainLog, [Next]_vars
    PROVE  PlainLog'
<1>1. TypeOK /\ TypeOK'
  BY DEF IInv
<1>2. ASSUME UNCHANGED <<log, todo, req>>, pc' = "append" => pc = "append" PROVE PlainLog'
  BY <1>2 DEF PlainLog, Plain, InRange, Length
<1>3. ASSUME UNCHANGED <<todo, req>>, pc' # "append",
             \/ log' = [i \in LogSlot |-> ZeroWord]
             \/ \E S : log' = LogErased(S)
      PROVE PlainLog'
  <2>1. \A i \in LogSlot : log'[i] \in {log[i], ZeroWord}
    BY <1>3 DEF LogErased
  <2> QED
    BY <1>3, <2>1, ZeroIsPlain DEF PlainLog, Plain
<1>4. CASE UNCHANGED vars
  BY <1>2, <1>4 DEF vars, flash, local
<1>5. CASE PowerUp \/ PlaybackEntry \/ PlaybackCorrupt \/ PlaybackEnd
  BY <1>2, <1>5 DEF PowerUp, PlaybackEntry, PlaybackCorrupt, PlaybackEnd, flash, local
<1>6. CASE ConsolidateForce \/ ConsolidateUnlock \/ WriteConsolidated
  BY <1>2, <1>6 DEF ConsolidateForce, ConsolidateUnlock, WriteConsolidated, flash, local
<1>7. CASE ConsolidateErase
  BY <1>3, <1>7 DEF ConsolidateErase, local
<1>8. ASSUME NEW r \in Requests, WriteSkipped(r) PROVE PlainLog'
  BY <1>2, <1>8 DEF WriteSkipped, flash
<1>9. ASSUME NEW r \in Requests, WriteBegin(r) PROVE PlainLog'
  <2>1. InRange(r) /\ req' = r /\ todo' = <<>> /\ UNCHANGED log
    BY <1>9 DEF WriteBegin, flash
  <2>2. Len(todo') = 0
    BY <2>1
  <2> QED
    BY <2>1, <2>2 DEF PlainLog, Plain, InRange, Length
<1>10. CASE EncodeEntry
  <2>1. /\ todo' = NextWords(req) /\ req' = Rest(req) /\ UNCHANGED log /\ pc = "append"
        /\ Length(req) > 0 /\ req \in Nat \X Seq(Byte) /\ InRange(req)
    BY <1>1, <1>10 DEF EncodeEntry, flash, Rest, TypeOK, PlainLog
  <2>2. PICK x, n : /\ IsEntry(x, n) /\ NextWords(req) = WordsOf(x, n)
                    /\ EntryBytes(x, 0) = Chunk(req, NextTaken(req))
    BY <2>1, NextEntry
  <2>3. n = 1 /\ WordsOf(x, n)[1] = x /\ Plain(x[0])
    BY <2>2, WholeEntry DEF IsEntry
  <2>4. \A k \in 1..Len(todo') : Plain(todo'[k][0])
    <3>1. Len(WordsOf(x, n)) = 1
      BY <1>1, <2>1, <2>2, <2>3 DEF WordsOf, TypeOK
    <3> QED
      BY <2>1, <2>2, <2>3, <3>1
  <2>5. InRange(Rest(req))
    BY <2>1, <2>2, OverlayRest
  <2>6. InRange(req)'
    BY <2>1, <2>5 DEF InRange, Length
  <2> QED
    BY <2>1, <2>4, <2>6 DEF PlainLog, Plain
<1>11. CASE AppendRaw
  <2>1. todo # <<>> /\ todo' = Tail(todo) /\ todo \in Seq(Word) /\ UNCHANGED req /\ pc = "append"
    BY <1>1, <1>11 DEF AppendRaw, TypeOK
  <2>2. Head(todo) = todo[1] /\ 1 \in 1..Len(todo) /\ Len(todo) \in Nat
        /\ Len(Tail(todo)) = Len(todo) - 1
        /\ \A k \in 1..Len(Tail(todo)) : Tail(todo)[k] = todo[k + 1]
    BY <2>1
  <2>3. \A k \in 1..Len(todo') : Plain(todo'[k][0])
    BY <2>1, <2>2 DEF PlainLog
  <2>4. \A i \in LogSlot : Plain(log'[i][0])
    <3>1. log \in [LogSlot -> Word]
      BY <1>1 DEF TypeOK
    <3>2. \A i \in LogSlot : log'[i] \in {log[i], Head(todo)}
      BY <1>11, <3>1 DEF AppendRaw
    <3> QED
      BY <2>2, <3>2 DEF PlainLog
  <2>5. InRange(req)'
    BY <2>1 DEF PlainLog, InRange, Length
  <2> QED
    BY <2>3, <2>4, <2>5 DEF PlainLog, Plain
<1>12. CASE AppendFails \/ WriteLogged \/ EraseBegin \/ ReturnInit \/ Return
  BY <1>2, <1>12 DEF AppendFails, WriteLogged, EraseBegin, ReturnInit, Return, flash, local
<1>13. CASE EraseStore
  BY <1>3, <1>13 DEF EraseStore, local
<1>14. CASE PowerLoss
  <2>1. todo' = <<>> /\ pc' = "off" /\ (UNCHANGED log \/ \E S : log' = LogErased(S))
    BY <1>14 DEF PowerLoss, flash
  <2>2. \A i \in LogSlot : log'[i] \in {log[i], ZeroWord}
    BY <2>1 DEF LogErased
  <2>3. Len(todo') = 0
    BY <2>1
  <2> QED
    BY <2>1, <2>2, <2>3, ZeroIsPlain DEF PlainLog, Plain
<1> QED
  BY <1>4, <1>5, <1>6, <1>7, <1>8, <1>9, <1>10, <1>11, <1>12, <1>13, <1>14
     DEF Next, Running, Call

\* So playback never copies beyond the end of an entry.
LEMMA PlainImplies == IInv /\ PlainLog => NoOverrun
<1> SUFFICES ASSUME IInv, PlainLog, NEW c \in Read, ~LogEndsAt(c) PROVE Plain(LogAt(c)[0])
  BY DEF NoOverrun
<1>1. c \in Nat /\ LogWords \in Nat
  BY ReadsHold, BlankType DEF IInv, Reads
<1>2. c \in LogSlot
  BY <1>1 DEF LogEndsAt, LogSlot
<1> QED
  BY <1>2 DEF PlainLog, LogAt

\* With words that hold a whole entry, what was reported as stored is what the next
\* start finds, whatever driver calls fail and whenever the power is lost, with the
\* same exception for a start that could not read the checksum.
THEOREM DurableInDoubleWords ==
    ASSUME WriteSize = 8
    PROVE  HSpec => []RecoveredIsDurable
<1>1. HInit => IInv /\ PlainLog
  <2> SUFFICES ASSUME HInit PROVE IInv /\ PlainLog
    OBVIOUS
  <2>1. log = [i \in LogSlot |-> ZeroWord] /\ todo = <<>> /\ pc = "off"
    BY DEF HInit, Init
  <2>2. Len(todo) = 0
    BY <2>1
  <2>3. PlainLog
    BY <2>1, <2>2, ZeroIsPlain DEF PlainLog
  <2> QED
    BY <2>3, InitIInv DEF HInit
<1>2. IInv /\ PlainLog /\ [HNext]_hvars => (IInv /\ PlainLog)'
  BY StepIInv, PlainStep, HNextSteps
<1>3. HSpec => []NoOverrun
  BY <1>1, <1>2, PlainImplies, PTL DEF HSpec
<1> QED
  BY <1>3, Durable, PTL
=============================================================================
