------------------------ MODULE WearLevelingRecovery ------------------------
(***************************************************************************)
(* What a restart recovers from the flash, at any moment, and how it       *)
(* relates to the cache: wear_leveling.c:40 promises that the log is       *)
(* "played back" on startup such that any subsequent reads are capable of  *)
(* returning the latest data.                                              *)
(***************************************************************************)
EXTENDS WearLeveling, FiniteSetsExt

VARIABLES
    before,   \* history: the contents before the running call
    misread   \* history: the last start dropped valid consolidated data

\* The slots up to c at which playback reads an entry, or stops: the first slot,
\* and every slot just behind a complete and valid entry.  (Here and below a
\* value is bound through a singleton set so that TLC evaluates it once.)
Starts[c \in 0..(LogWords + 4)] ==
    IF c = 0 THEN {0}
    ELSE UNION { IF \E k \in s : /\ k + 4 >= c
                                /\ ~LogEndsAt(k) /\ k + EntrySize(k) = c
                                /\ ~CorruptAt(k)
                 THEN s \cup {c} ELSE s : s \in {Starts[c - 1]} }

\* Where playback stops: the last of these slots.
PlaybackStop == Max(Starts[LogWords + 4])

\* What the entries in the log assign: <<slot, address, byte>>.
Assignments ==
    UNION { UNION { {<<c, a, EntryBytes(r, 0)[a]>> : a \in DOMAIN EntryBytes(r, 0)}
                    : r \in {Entry(c)} }
            : c \in UNION {s \ {Max(s)} : s \in {Starts[LogWords + 4]}} }

\* The contents a restart ends up with: for each byte the latest assignment in
\* the log, else the consolidated data if its checksum matches.
Latest(assigned) ==
    [a \in Addr |->
       LET here == {t \in assigned : t[2] = a}
       IN  IF here # {}
           THEN (CHOOSE t \in here : \A u \in here : u[1] <= t[1])[3]
           ELSE IF cons.valid THEN cons.data[a] ELSE 0]
Recovered == CHOOSE f \in {Latest(assigned) : assigned \in {Assignments}} : TRUE

\* The contents as a reader sees them, now or, without power, at the next start.
Contents == IF pc \in {"off", "playback"} THEN Recovered ELSE cache

Phase == CASE pc \in {"off", "playback", "idle"} -> "rest"
           [] pc \in {"append", "return"} -> "logging"
           [] pc \in {"force", "erase", "consolidate", "program"} -> "reorganising"

\* Only after a failed read of the checksum.
Misreads == pc' = "playback" /\ cons.valid /\ cache' # cons.data

HInit == Init /\ before = Zeros /\ misread = FALSE
HNext ==
    /\ Next
    /\ before' = IF Phase = "rest" THEN Contents ELSE before
    /\ misread' = IF pc = "off" THEN Misreads ELSE misread
hvars == <<vars, before, misread>>
HSpec == HInit /\ [][HNext]_hvars /\ WF_hvars(Running /\ HNext)

-----------------------------------------------------------------------------
\* Between calls the flash holds exactly the cache: a restart would rebuild the
\* same bytes, would resume at the same write position, and finds every slot
\* from there on empty.  This ties the encoder (write_raw), the decoder
\* (playback_log), the write position and consolidation together.
RestartReproducesCache ==
    pc = "idle" => /\ Recovered = cache
                   /\ PlaybackStop = write_address
                   /\ \A i \in LogSlot : i >= write_address => log[i] = ZeroWord

\* Whatever driver calls failed before: data that a consolidation or a recovery
\* reported as stored survives the next restart unchanged.  A start that could not
\* read the checksum is an exception: it succeeds with zeros in place of the
\* consolidated data, but for the bytes that are in the log.
RecoveredIsDurable ==
    pc = "return" =>
      /\ status = "CONSOLIDATED" => Recovered = cache
      /\ op = "init" /\ status = "SUCCESS" =>
           \A a \in Addr : \/ cache[a] = Recovered[a]
                           \/ /\ misread /\ cache[a] = 0
                              /\ \A t \in Assignments : t[2] # a

\* What wear_leveling.c:40 says: a start that succeeds gives readers the latest
\* data.
StartReturnsLatest ==
    pc = "return" /\ op = "init" /\ status = "SUCCESS" => cache = Recovered

\* Every call ends, every start ends: playback and consolidation do not loop.
CallsReturn == []<>(pc = "idle")

-----------------------------------------------------------------------------
\* The emulated EEPROM that the code implements.
Eeprom == INSTANCE EmulatedEEPROM WITH
    data   <- Contents,
    stable <- IF Phase = "rest" THEN Contents ELSE before,
    phase  <- Phase

\* The store implements the abstract EEPROM across power losses.
ImplementsEeprom == Eeprom!Spec
=============================================================================
