---------------------------- MODULE WearLeveling ----------------------------
(***************************************************************************)
(* quantum/wear_leveling/wear_leveling.c: an emulated EEPROM kept in a RAM *)
(* cache and made durable in a flash area that holds a consolidated copy,  *)
(* its FNV1a checksum, and an append-only log of the writes made since.    *)
(*                                                                         *)
(* The code is sequential, so the actors are the firmware, the flash       *)
(* driver (whose every call may fail) and the power supply (which may go   *)
(* away between any two flash operations).  One step is one call of the    *)
(* flash driver, together with the code up to the next call.               *)
(*                                                                         *)
(* Data.  Bytes, log entries and their encoding are those of the code.     *)
(* Addresses inside the log are counted in words of BACKING_STORE_WRITE_   *)
(* SIZE bytes from the first log slot.  The consolidated area is the data  *)
(* under a matching checksum, or NoData when the checksum does not match   *)
(* (FNV1a is taken to be collision free).                                  *)
(***************************************************************************)
EXTENDS Integers, Sequences, FiniteSets

CONSTANTS
    WriteSize,    \* BACKING_STORE_WRITE_SIZE: 2, 4 or 8
    LogicalSize,  \* WEAR_LEVELING_LOGICAL_SIZE
    BackingSize,  \* WEAR_LEVELING_BACKING_SIZE
    OptLimit,     \* 64 in the code: addresses below it get one-word entries
    SectorSize,   \* erase unit of the flash driver
    BeyondWord,   \* what a read just past the backing store returns
    Requests,     \* the <<address, bytes>> that callers write
    MaxFaults,    \* bound on driver failures
    MaxCrashes    \* bound on power losses

Byte == 0..255
Addr == 0..(LogicalSize - 1)
Raw  == [0..7 -> Byte]                   \* write_log_entry_t
Word == [0..(WriteSize - 1) -> Byte]     \* backing_store_int_t
ZeroWord == [i \in 0..(WriteSize - 1) |-> 0]
Zeros == [a \in Addr |-> 0]

\* Words of the write log: the backing store less the consolidated data and
\* the eight bytes of its checksum.
LogWords == (BackingSize - LogicalSize - 8) \div WriteSize
LogSlot  == 0..(LogWords - 1)
Sectors  == 0..((BackingSize - 1) \div SectorSize)

\* The consolidated area: its data, and whether the checksum matches it.
Consolidated == [valid : BOOLEAN, data : [Addr -> Byte]]
NoData  == [valid |-> FALSE, data |-> Zeros]
Sealed(data) == [valid |-> TRUE, data |-> data]

Status == {"FAILED", "SUCCESS", "CONSOLIDATED"}
LockStatus == {"FAILURE", "SUCCESS", "UNCHANGED"}

\* The compile-time assertions of wear_leveling_internal.h, and what the
\* encoding needs (19-bit addresses, 6-bit addresses in one-word entries).
ASSUME SizesAssumption ==
    /\ WriteSize \in {2, 4, 8}
    /\ LogicalSize \in Nat \ {0} /\ LogicalSize <= 524288
    /\ BackingSize \in Nat
    /\ BackingSize >= 2 * LogicalSize
    /\ BackingSize >= LogicalSize + 8 + WriteSize
    /\ LogicalSize % WriteSize = 0
    /\ BackingSize % LogicalSize = 0
    /\ OptLimit \in 0..64
    /\ SectorSize \in Nat \ {0}

ASSUME EnvironmentAssumption ==
    /\ BeyondWord \in Word
    /\ Requests \subseteq Nat \X Seq(Byte)
    /\ MaxFaults \in Nat
    /\ MaxCrashes \in Nat

VARIABLES
    cache,          \* wear_leveling.cache
    write_address,  \* wear_leveling.write_address, in log words
    unlocked,       \* wear_leveling.unlocked
    cons,           \* flash: consolidated data and checksum
    log,            \* flash: the write log
    pc,             \* where the running operation is
    op,             \* the API call running: "init", "write", "erase"
    cursor,         \* playback_log's address, in log words
    req,            \* what write_raw has still to log: <<address, bytes>>
    todo,           \* words of the current entry still to be appended
    lock_status,    \* the caller's backing_store_lock_status_t
    relock,         \* write_consolidated's lock_status is STATUS_SUCCESS
    status,         \* the status the API call returns
    faults,         \* driver failures so far
    crashes         \* power losses so far

flash == <<cons, log>>
local == <<cursor, req, todo, lock_status, relock>>
vars  == <<cache, write_address, unlocked, flash, pc, op, local, status,
           faults, crashes>>

TypeOK ==
    /\ cache \in [Addr -> Byte]
    /\ write_address \in Nat
    /\ unlocked \in BOOLEAN
    /\ cons \in Consolidated
    /\ log \in [LogSlot -> Word]
    /\ pc \in {"off", "idle", "playback", "append", "force", "erase",
               "consolidate", "program", "return"}
    /\ op \in {"init", "write", "erase"}
    /\ cursor \in Nat
    /\ req \in Nat \X Seq(Byte)
    /\ todo \in Seq(Word)
    /\ lock_status \in LockStatus
    /\ relock \in BOOLEAN
    /\ status \in Status
    /\ faults \in Nat
    /\ crashes \in Nat

-----------------------------------------------------------------------------
(* The log entry format of wear_leveling_internal.h.                       *)

EntryType(r) == r[0] \div 64                               \* GET_TYPE

MultibyteAddress(r) == (r[0] % 8) * 65536 + r[1] * 256 + r[2]
MultibyteLength(r)  == (r[0] \div 8) % 8

\* Mutation: one byte more than the entry has room for.
MutMultibyteMaxSix == 6
MultibyteMax == 5

\* Mutation: the length shifted into the type bits.
MutMultibyteShift(a, bytes) ==
    [i \in 0..7 |-> CASE i = 0 -> Len(bytes) * 128 + ((a \div 65536) % 8)
                      [] i = 1 -> (a \div 256) % 256
                      [] i = 2 -> a % 256
                      [] OTHER -> IF i - 2 <= Len(bytes) THEN bytes[i - 2] ELSE 0]
MakeMultibyte(a, bytes) ==
    [i \in 0..7 |-> CASE i = 0 -> Len(bytes) * 8 + ((a \div 65536) % 8)
                      [] i = 1 -> (a \div 256) % 256
                      [] i = 2 -> a % 256
                      [] OTHER -> IF i - 2 <= Len(bytes) THEN bytes[i - 2] ELSE 0]

Optimized64Address(r) == r[0] % 64
MakeOptimized64(a, b) ==
    [i \in 0..7 |-> CASE i = 0 -> 64 + (a % 64) [] i = 1 -> b [] OTHER -> 0]

Word01Address(r) == (r[0] % 32) * 512 + r[1] * 2
Word01Value(r)   == (r[0] \div 32) % 2
MakeWord01(a, v) ==
    [i \in 0..7 |-> CASE i = 0 -> 128 + v * 32 + ((a \div 512) % 32)
                      [] i = 1 -> (a \div 2) % 256
                      [] OTHER -> 0]

\* How many words write_raw_multibyte appends, and playback_log reads, for an
\* entry of the given length: 3 bytes of header and the data, rounded up, and
\* never more than the eight bytes of a write_log_entry_t.
EntryWords(length) ==
    LET n == (3 + length + WriteSize - 1) \div WriteSize
    IN  IF n * WriteSize > 8 THEN 8 \div WriteSize ELSE n

\* The first n words of an entry, in the order append_raw writes them.
WordsOf(r, n) ==
    [k \in 1..n |-> [i \in 0..(WriteSize - 1) |-> r[(k - 1) * WriteSize + i]]]

-----------------------------------------------------------------------------
(* Flash driver (external).                                                *)

LogAt(i) == IF i \in LogSlot THEN log[i] ELSE BeyondWord

\* The consolidated area after the sectors in S were erased: the checksum no
\* longer matches, unless only zero bytes were erased.
ConsErased(S) ==
    IF \/ ~cons.valid
       \/ \E b \in LogicalSize..(LogicalSize + 7) : b \div SectorSize \in S
       \/ \E a \in Addr : a \div SectorSize \in S /\ cons.data[a] # 0
    THEN NoData
    ELSE cons

LogErased(S) ==
    [i \in LogSlot |-> IF (LogicalSize + 8 + i * WriteSize) \div SectorSize \in S
                       THEN ZeroWord ELSE log[i]]

\* A driver call fails: one of the bounded number of faults.
Fault == faults < MaxFaults /\ faults' = faults + 1
NoFault == UNCHANGED faults

\* Mutation: the unlocked flag is not set.
MutUnlockForgotten(ls) ==
    \/ ls = "UNCHANGED" /\ unlocked /\ NoFault /\ UNCHANGED unlocked
    \/ ls = "SUCCESS"   /\ ~unlocked /\ NoFault /\ UNCHANGED unlocked
    \/ ls = "FAILURE"   /\ ~unlocked /\ Fault /\ UNCHANGED unlocked

\* wear_leveling_unlock, whose result decides lock_status.
Unlock(ls) ==
    \/ ls = "UNCHANGED" /\ unlocked /\ NoFault /\ UNCHANGED unlocked
    \/ ls = "SUCCESS"   /\ ~unlocked /\ NoFault /\ unlocked' = TRUE
    \/ ls = "FAILURE"   /\ ~unlocked /\ Fault /\ UNCHANGED unlocked

-----------------------------------------------------------------------------
(* Initialization: wear_leveling_init.                                     *)

Init ==
    /\ cache = Zeros /\ write_address = 0 /\ unlocked = FALSE
    /\ cons = NoData /\ log = [i \in LogSlot |-> ZeroWord]
    /\ pc = "off" /\ op = "init" /\ cursor = 0
    /\ req = <<0, <<>>>> /\ todo = <<>> /\ lock_status = "UNCHANGED"
    /\ relock = FALSE
    /\ status = "SUCCESS" /\ faults = 0 /\ crashes = 0

\* clear_cache, backing_store_init, read_consolidated: the cache takes the
\* consolidated data when the checksum matches and is cleared otherwise.  When
\* the driver can not be initialised or the data not be read, init returns a
\* failure.  The result of reading the checksum is ignored: after a failed read
\* indeterminate bytes are compared, and the start goes on, most likely with a
\* cleared cache.
PowerUp ==
    /\ pc = "off"
    /\ op' = "init" /\ write_address' = 0 /\ cursor' = 0
    /\ \/ /\ NoFault
          /\ cache' = IF cons.valid THEN cons.data ELSE Zeros
          /\ pc' = "playback"
          /\ UNCHANGED status
       \/ /\ Fault
          /\ cache' \in {Zeros} \cup (IF cons.valid THEN {cons.data} ELSE {})
          /\ pc' = "playback"
          /\ UNCHANGED status
       \/ /\ Fault
          /\ cache' = Zeros
          /\ pc' = "return" /\ status' = "FAILED"
    /\ UNCHANGED <<unlocked, flash, req, todo, lock_status, relock, crashes>>

\* The n words of an entry that starts at slot c.  The bytes of the union that
\* are not read back are indeterminate, and never copied.
EntryAt(c, n) == [b \in 0..7 |-> IF b < n * WriteSize
                                 THEN LogAt(c + (b \div WriteSize))[b % WriteSize]
                                 ELSE 0]

\* The header decides the length, and so how much is read.
HeaderWords == IF WriteSize = 2 THEN 2 ELSE 1
EntrySize(c) == IF EntryType(EntryAt(c, 1)) = 0
                THEN EntryWords(MultibyteLength(EntryAt(c, HeaderWords)))
                ELSE 1
Entry(c) == EntryAt(c, EntrySize(c))

\* Mutation: the high byte of an encoded word is not cleared.
MutWord01LowByte(r, g) ==
    CASE EntryType(r) = 0 ->
           [a \in MultibyteAddress(r)..(MultibyteAddress(r) + MultibyteLength(r) - 1)
              |-> IF 3 + a - MultibyteAddress(r) <= 7
                  THEN r[3 + a - MultibyteAddress(r)] ELSE g]
      [] EntryType(r) = 1 -> [a \in {Optimized64Address(r)} |-> r[1]]
      [] EntryType(r) = 2 -> [a \in {Word01Address(r)} |-> Word01Value(r)]

\* What an entry assigns: the addresses it covers and their bytes.  A decoded
\* length above five copies bytes beyond the union; g stands for those.
EntryBytes(r, g) ==
    CASE EntryType(r) = 0 ->
           [a \in MultibyteAddress(r)..(MultibyteAddress(r) + MultibyteLength(r) - 1)
              |-> IF 3 + a - MultibyteAddress(r) <= 7
                  THEN r[3 + a - MultibyteAddress(r)] ELSE g]
      [] EntryType(r) = 1 ->
           [a \in {Optimized64Address(r)} |-> r[1]]
      [] EntryType(r) = 2 ->
           [a \in {Word01Address(r), Word01Address(r) + 1} |->
              IF a = Word01Address(r) THEN Word01Value(r) ELSE 0]

\* The two-byte optimisations exist only for two-byte stores.
EntryKnown(r) == EntryType(r) = 0 \/ (WriteSize = 2 /\ EntryType(r) \in {1, 2})

\* Every address an entry assigns lies in the logical space.
EntryFits(r) ==
    CASE EntryType(r) = 0 -> MultibyteAddress(r) + MultibyteLength(r) <= LogicalSize
      [] EntryType(r) = 1 -> Optimized64Address(r) < LogicalSize
      [] EntryType(r) = 2 -> Word01Address(r) + 1 < LogicalSize

\* Playback stops at the end of the log area or at an empty slot.
LogEndsAt(c) == c >= LogWords \/ LogAt(c) = ZeroWord

\* An entry of an unknown type, or one that assigns outside the logical space.
CorruptAt(c) == ~LogEndsAt(c) /\ ~(EntryKnown(Entry(c)) /\ EntryFits(Entry(c)))

\* The contents d after an entry is copied over them.
Applied(d, r, g) == [a \in Addr |-> IF a \in DOMAIN EntryBytes(r, g)
                                    THEN EntryBytes(r, g)[a] ELSE d[a]]

\* Mutation: playback does not move past the entry.
MutPlaybackStuck ==
    /\ pc = "playback" /\ ~LogEndsAt(cursor) /\ ~CorruptAt(cursor)
    /\ cache' = Applied(cache, Entry(cursor), 0)
    /\ UNCHANGED <<write_address, unlocked, flash, pc, op, local, status,
                   faults, crashes>>

\* One iteration of playback_log: an entry is read back and applied.
PlaybackEntry ==
    /\ pc = "playback" /\ ~LogEndsAt(cursor) /\ ~CorruptAt(cursor)
    /\ \E g \in {0, 255} : cache' = Applied(cache, Entry(cursor), g)
    /\ cursor' = cursor + EntrySize(cursor)
    /\ NoFault
    /\ UNCHANGED <<write_address, unlocked, flash, pc, op, req, todo,
                   lock_status, relock, status, crashes>>

\* An entry that does not decode, or a read that fails, ends the playback with
\* a forced consolidation of the data recovered so far.
PlaybackCorrupt ==
    /\ pc = "playback" /\ cursor < LogWords
    /\ (CorruptAt(cursor) /\ NoFault) \/ Fault
    /\ write_address' = cursor
    /\ pc' = "force"
    /\ UNCHANGED <<cache, unlocked, flash, op, local, status, crashes>>

\* The end of the log becomes the write position; a full log is consolidated.
PlaybackEnd ==
    /\ pc = "playback" /\ LogEndsAt(cursor)
    /\ write_address' = cursor
    /\ pc' = IF cursor >= LogWords THEN "force" ELSE "return"
    /\ status' = "SUCCESS"
    /\ NoFault
    /\ UNCHANGED <<cache, unlocked, flash, op, local, crashes>>

-----------------------------------------------------------------------------
(* Consolidation: wear_leveling_consolidate_force.                         *)

\* The result of this unlock is ignored.
ConsolidateForce ==
    /\ pc = "force"
    /\ \E ls \in LockStatus : Unlock(ls)
    /\ pc' = "erase"
    /\ UNCHANGED <<cache, write_address, flash, op, local, status, crashes>>

\* Mutation: a failed erase does not end the consolidation.
MutEraseUnchecked ==
    /\ pc = "erase" /\ op # "erase"
    /\ \/ /\ NoFault
          /\ cons' = NoData /\ log' = [i \in LogSlot |-> ZeroWord]
       \/ /\ Fault
          /\ \E S \in SUBSET Sectors : cons' = ConsErased(S) /\ log' = LogErased(S)
    /\ pc' = "consolidate"
    /\ UNCHANGED <<cache, write_address, unlocked, op, local, status, crashes>>

\* A failing erase leaves any of the sectors erased, and leaves the write
\* position where it was.
ConsolidateErase ==
    /\ pc = "erase" /\ op # "erase"
    /\ \/ /\ NoFault
          /\ cons' = NoData /\ log' = [i \in LogSlot |-> ZeroWord]
          /\ pc' = "consolidate" /\ UNCHANGED status
       \/ /\ Fault
          /\ \E S \in SUBSET Sectors : cons' = ConsErased(S) /\ log' = LogErased(S)
          /\ pc' = "return" /\ status' = "FAILED"
    /\ UNCHANGED <<cache, write_address, unlocked, op, local, crashes>>

\* write_consolidated unlocks again, which matters only if the unlock above
\* failed; the result only decides whether it locks the store again.
ConsolidateUnlock ==
    /\ pc = "consolidate"
    /\ \E ls \in LockStatus : Unlock(ls) /\ relock' = (ls = "SUCCESS")
    /\ pc' = "program"
    /\ UNCHANGED <<cache, write_address, flash, op, cursor, req, todo,
                   lock_status, status, crashes>>

\* The cache and its checksum are written, then the store is locked if it was
\* unlocked here.  The write position returns to the start of the log whether
\* or not the write succeeded.
WriteConsolidated ==
    /\ pc = "program"
    /\ \E writeFails, lockFails \in BOOLEAN :
       LET n == (IF writeFails THEN 1 ELSE 0) + (IF lockFails THEN 1 ELSE 0) IN
       /\ faults + n <= MaxFaults /\ faults' = faults + n
       /\ lockFails => relock
       /\ unlocked' = IF relock THEN lockFails ELSE unlocked
       /\ cons' = IF writeFails THEN NoData ELSE Sealed(cache)
       /\ status' = IF writeFails THEN "FAILED" ELSE "CONSOLIDATED"
    /\ write_address' = 0
    /\ pc' = "return"
    /\ UNCHANGED <<cache, log, op, local, crashes>>

-----------------------------------------------------------------------------
(* wear_leveling_write.                                                    *)

Length(r) == Len(r[2])
InRange(r) == r[1] + Length(r) <= LogicalSize
Cached(r) == \A i \in 1..Length(r) : cache[r[1] + i - 1] = r[2][i]
Stored(r) == [a \in Addr |-> IF a - r[1] \in 0..(Length(r) - 1)
                             THEN r[2][a - r[1] + 1] ELSE cache[a]]

\* Requests that need no flash access: out of range, or equal to the cache.
WriteSkipped(r) ==
    /\ pc = "idle" /\ (~InRange(r) \/ Cached(r))
    /\ pc' = "return" /\ op' = "write" /\ lock_status' = "UNCHANGED"
    /\ status' = IF InRange(r) THEN "SUCCESS" ELSE "FAILED"
    /\ NoFault
    /\ UNCHANGED <<cache, write_address, unlocked, flash, cursor, req, todo, relock, crashes>>

\* The cache is updated first, then the store is unlocked.
WriteBegin(r) ==
    /\ pc = "idle" /\ InRange(r) /\ ~Cached(r)
    /\ cache' = Stored(r)
    /\ op' = "write" /\ req' = r /\ todo' = <<>>
    /\ \E ls \in LockStatus :
         /\ Unlock(ls)
         /\ lock_status' = ls
         /\ pc' = IF ls = "FAILURE" THEN "return" ELSE "append"
         /\ status' = IF ls = "FAILURE" THEN "FAILED" ELSE "SUCCESS"
    /\ UNCHANGED <<write_address, flash, cursor, relock, crashes>>

\* One iteration of write_raw: the shortest encoding for what remains.
IsWord01(r) ==
    /\ WriteSize = 2 /\ Length(r) >= 2 /\ r[1] % 2 = 0 /\ r[1] < 16384
    /\ r[2][2] = 0 /\ r[2][1] \in {0, 1}

\* Bytes the next entry takes from the request, and its words.
NextTaken(r) == IF IsWord01(r) THEN 2
                ELSE IF WriteSize = 2 /\ r[1] < OptLimit THEN 1
                ELSE IF Length(r) >= MultibyteMax THEN MultibyteMax ELSE Length(r)
NextWords(r) == IF IsWord01(r) THEN WordsOf(MakeWord01(r[1], r[2][1]), 1)
                ELSE IF WriteSize = 2 /\ r[1] < OptLimit
                THEN WordsOf(MakeOptimized64(r[1], r[2][1]), 1)
                ELSE WordsOf(MakeMultibyte(r[1], SubSeq(r[2], 1, NextTaken(r))),
                             EntryWords(NextTaken(r)))

EncodeEntry ==
    /\ pc = "append" /\ todo = <<>> /\ Length(req) > 0
    /\ todo' = NextWords(req)
    /\ req' = <<req[1] + NextTaken(req), SubSeq(req[2], NextTaken(req) + 1, Length(req))>>
    /\ NoFault
    /\ UNCHANGED <<cache, write_address, unlocked, flash, pc, op, cursor,
                   lock_status, relock, status, crashes>>

\* Mutation: the log is taken to be full one word late.
MutAppendOneLate ==
    /\ pc = "append" /\ todo # <<>>
    /\ log' = IF write_address \in LogSlot
              THEN [log EXCEPT ![write_address] = Head(todo)] ELSE log
    /\ write_address' = write_address + 1
    /\ todo' = Tail(todo)
    /\ pc' = IF write_address' > LogWords THEN "force" ELSE "append"
    /\ NoFault
    /\ UNCHANGED <<cache, unlocked, cons, op, cursor, req, lock_status, relock,
                   status, crashes>>

\* append_raw: program the next word.  A word that was not erased can not be
\* programmed: the driver reports that, or leaves the old contents.  When the
\* log is full the cache is consolidated and the rest of the request dropped.
AppendRaw ==
    /\ pc = "append" /\ todo # <<>>
    /\ \/ /\ write_address \in LogSlot
          /\ \E w \in {Head(todo)} \cup ({log[write_address]} \ {ZeroWord}) :
               log' = [log EXCEPT ![write_address] = w]
       \/ write_address \notin LogSlot /\ UNCHANGED log
    /\ write_address' = write_address + 1
    /\ todo' = Tail(todo)
    /\ pc' = IF write_address' >= LogWords THEN "force" ELSE "append"
    /\ NoFault
    /\ UNCHANGED <<cache, unlocked, cons, op, cursor, req, lock_status, relock,
                   status, crashes>>

AppendFails ==
    /\ pc = "append" /\ todo # <<>>
    /\ Fault
    /\ pc' = "return" /\ status' = "FAILED"
    /\ UNCHANGED <<cache, write_address, unlocked, flash, op, local, crashes>>

\* The whole request is logged.
WriteLogged ==
    /\ pc = "append" /\ todo = <<>> /\ Length(req) = 0
    /\ pc' = IF write_address >= LogWords THEN "force" ELSE "return"
    /\ status' = "SUCCESS"
    /\ NoFault
    /\ UNCHANGED <<cache, write_address, unlocked, flash, op, local, crashes>>

-----------------------------------------------------------------------------
(* wear_leveling_erase.                                                    *)

EraseBegin ==
    /\ pc = "idle"
    /\ op' = "erase"
    /\ \E ls \in LockStatus :
         /\ Unlock(ls)
         /\ lock_status' = ls
         /\ pc' = IF ls = "FAILURE" THEN "return" ELSE "erase"
         /\ status' = IF ls = "FAILURE" THEN "FAILED" ELSE status
    /\ UNCHANGED <<cache, write_address, flash, cursor, req, todo, relock, crashes>>

\* The cache is cleared even when the erase fails.
EraseStore ==
    /\ pc = "erase" /\ op = "erase"
    /\ \/ /\ NoFault
          /\ cons' = NoData /\ log' = [i \in LogSlot |-> ZeroWord]
          /\ status' = "SUCCESS"
       \/ /\ Fault
          /\ \E S \in SUBSET Sectors : cons' = ConsErased(S) /\ log' = LogErased(S)
          /\ status' = "FAILED"
    /\ cache' = Zeros /\ write_address' = 0
    /\ pc' = "return"
    /\ UNCHANGED <<unlocked, op, local, crashes>>

-----------------------------------------------------------------------------
(* The end of an API call.                                                 *)

\* init clears the cache after a failure; it never locks the store again.
ReturnInit ==
    /\ pc = "return" /\ op = "init"
    /\ cache' = IF status = "FAILED" THEN Zeros ELSE cache
    /\ write_address' = IF status = "FAILED" THEN 0 ELSE write_address
    /\ pc' = "idle"
    /\ NoFault
    /\ UNCHANGED <<unlocked, flash, op, local, status, crashes>>

\* write and erase lock the store if they unlocked it.
Return ==
    /\ pc = "return" /\ op # "init"
    /\ \/ /\ lock_status = "SUCCESS" /\ unlocked
          /\ \/ NoFault /\ unlocked' = FALSE /\ UNCHANGED status
             \/ Fault /\ UNCHANGED unlocked /\ status' = "FAILED"
       \/ /\ ~(lock_status = "SUCCESS" /\ unlocked)
          /\ NoFault /\ UNCHANGED <<unlocked, status>>
    /\ pc' = "idle"
    /\ UNCHANGED <<cache, write_address, flash, op, local, crashes>>

-----------------------------------------------------------------------------
(* Power supply.                                                           *)

\* Power is lost.  An erase that was running has erased some of the sectors, in
\* order; a consolidation that was running has no valid checksum yet.
PowerLoss ==
    /\ pc # "off" /\ crashes < MaxCrashes
    /\ crashes' = crashes + 1
    /\ \/ UNCHANGED flash
       \/ /\ pc = "erase"
          /\ \E n \in Sectors : /\ cons' = ConsErased(0..n)
                                /\ log' = LogErased(0..n)
    /\ pc' = "off" /\ cache' = Zeros /\ write_address' = 0 /\ unlocked' = FALSE
    /\ op' = "init" /\ cursor' = 0 /\ req' = <<0, <<>>>> /\ todo' = <<>>
    /\ lock_status' = "UNCHANGED" /\ relock' = FALSE /\ status' = "SUCCESS"
    /\ NoFault

-----------------------------------------------------------------------------
Running ==
    \/ PowerUp \/ PlaybackEntry \/ PlaybackCorrupt \/ PlaybackEnd
    \/ ConsolidateForce \/ ConsolidateErase \/ ConsolidateUnlock
    \/ WriteConsolidated
    \/ EncodeEntry \/ AppendRaw \/ AppendFails \/ WriteLogged
    \/ EraseStore \/ ReturnInit \/ Return

Call ==
    \/ \E r \in Requests : WriteSkipped(r) \/ WriteBegin(r)
    \/ EraseBegin

Next == Running \/ Call \/ PowerLoss

\* The firmware runs each API call to its end; callers may never call, and
\* power need not fail.
Spec == Init /\ [][Next]_vars /\ WF_vars(Running)

-----------------------------------------------------------------------------
(* Safety of the accesses to the flash driver.                             *)

\* backing_store_write is only called for a slot inside the backing store.
\* append_raw has no check of its own: it relies on every full log having been
\* consolidated, and on the write position having been reset by that.
AppendInBounds == pc = "append" => write_address < LogWords

\* The store is unlocked whenever it is erased or programmed.  append_raw and the
\* bulk writes of a consolidation rely on a caller several steps earlier for
\* this; on the init path both unlock results are ignored.
UnlockedWhenWriting == pc \in {"append", "erase", "program"} => unlocked

=============================================================================
