# TLA+ models of the Keychron QMK firmware

This directory holds formal models of the parts of the firmware in which a
fault would be hard to find by testing: the path of a key from the switch matrix
to the host (debouncing, the decision between tap and hold, pairs of keys that
exclude each other, the report buffer of the wireless boards), the wireless link
with the requests and events that change it, the callbacks that run after a
delay, and the flash store that keeps the settings. Each model is checked with TLC
on small instances, and its safety properties are proved with TLAPS for every
size.

1. [The system](#1-the-system)
2. [Modules](#2-modules)
3. [How the models correspond to the code](#3-how-the-models-correspond-to-the-code)
4. [Runs](#4-runs)
5. [Fairness](#5-fairness)
6. [Proofs](#6-proofs)
7. [Findings and known limits](#7-findings-and-known-limits)
8. [Not modelled](#8-not-modelled)
9. [Plan](#9-plan)

## 1. The system

The repository is QMK, a keyboard firmware in C, with Keychron's additions for
wireless and Hall-effect boards (`keyboards/keychron/common`). A single main
loop (`quantum/main.c`, `keyboard_task`) scans the matrix, debounces it, turns
changes into actions and reports, and runs the tasks of the other components.
There are no threads. What makes the code hard to test is time (intervals,
timeouts and debounce times that interleave with input), the other side of a
wire (the wireless module with its FIFO, its late or missing answers and its
events), flash that can fail or lose power between any two operations, and
state that outlives a change of configuration.

| Component | State | Operations | Interacts with | What is hard | Correct when |
|---|---|---|---|---|---|
| Wear leveling (`quantum/wear_leveling`) | RAM cache, write position, lock flag; flash: consolidated copy, checksum, log | init with playback, write, erase, consolidation, lock | flash drivers; EEPROM users (`eeconfig`, VIA, debounce, wireless settings) | power loss and driver failure between any two flash operations; three log encodings; a log that fills in the middle of a request | a restart rebuilds the last completed write; writes stay inside the log; flash is unlocked when written |
| Report buffer (`wireless/report_buffer.c`) | ring of reports, the report in transmission, retries left, two timers | enqueue, task (dequeue, retry), reset | senders in `wireless.c`; module driver `lkbt51.c`; low-power code | late, lost and foreign acknowledgements; module FIFO full; disconnection and sleep in the middle of a retry | reports arrive in order; nothing is retried for ever; the last report is not lost |
| Connection manager (`wireless.c`, `transport.c`, `keychron_wireless_common.c`) | link state, host index, pin code entry, event ring, timers | connection requests, events of the module, transport switch, pairing key | module driver, report buffer, battery, indicator, low power | events that were queued before a request and handled after it; changes that are never reported; event ring overflow; a switch that moves while it is debounced | link state follows the module; typing brings the link back; the transport follows the switch; pairing only where asked for |
| Module driver (`lkbt51.c`, `ckbt51.c`) | sequence number, receive buffer | commands, acknowledgements, events | SPI or UART, connection manager | acknowledgements are not matched with commands | |
| Debounce (`keychron/common/debounce`) | type and time; counters per key or row; static flags and timestamps per algorithm | scan, select, reset, re-initialise at wake-up | `matrix_scan`, host commands, stored settings, low power | scan rate against debounce time; one timestamp for many counters; changing the algorithm at run time | noise is filtered; eager keys are locked; no key is left behind |
| Low power (`lpm*.c`), battery, indicator | timers, power mode | sleep, wake up, measure, show | all of the above | conditions checked long before the sleep | no sleep with work pending |
| Tap/hold (`quantum/action_tapping.c`), actions, layers | tapping key, waiting ring, report, layer state, source-layer cache | events, ticks | matrix, keycode features, report senders | overflow of the ring; events replayed late and out of order, on layers that have changed meanwhile | nothing is left on when all keys are up; every decision is taken in the end |
| Snap Click (`keychron/common/snap_click`) | pairs, which of their keys are down, stored pairs | key events, host configuration | actions, report, stored settings | a report edited behind the normal path; reconfiguration while keys are held | the report is what the type of the pair promises |
| Keycode features (`process_keycode/*`), analog matrix | one small machine each | key events, host configuration | actions | reconfiguration while keys are held | no key stays pressed |
| Deferred execution (`quantum/deferred_exec.c`) | table of callbacks with token and due time, token counter | register, extend, cancel, walk over the table | main loop, any code that registers callbacks, the callbacks themselves | callbacks that change the table while it is walked; tokens and timer wrap around | a token means its entry; nothing early, nothing forgotten |
| Storage users (`eeconfig`, VIA, dynamic keymap) | offsets in the emulated EEPROM | read, update | wear leveling | | |
| Split transport, lighting, audio, painter, pointing devices, USB stacks, drivers, platforms, boards, tooling | | | | | |

`PROJECT.json` lists all of them with their status, and under `hazards` each
known hard spot with its line and the properties that would catch it.

## 2. Modules

| Module | Content |
|---|---|
| `WearLeveling` | The store: one action per flash driver call, with driver failures and power losses. |
| `WearLevelingRecovery` | What a restart would recover at any moment; the durability properties; the refinement to `EmulatedEEPROM`. |
| `EmulatedEEPROM` | What the users of the store rely on, as an abstract specification. |
| `WearLevelingProofs` | Bounds and locking, what a restart finds, durability and the refinement, proved. |
| `RingQueue` | The two ring buffers of the wireless code as operators. |
| `ReportBuffer` | Senders, queue, retries, acknowledgements, module FIFO, link, wake-up. |
| `ReportBufferProofs` | Bounded retries, order of reports and what may be lost, proved; both rings are queues. |
| `Debounce` | Seven debounce algorithms, matrix scans at any rate, selection at run time. |
| `DebounceProofs` | Counter widths, lock-out, noise filtering and that no key is left behind, proved. |
| `KeyActions` | What a key event does to key codes, modifiers, layers and the source-layer cache, as operators. |
| `ActionTapping` | Key events, ticks, the tapping key, the waiting ring and its replay. |
| `ActionTappingProofs` | Types, and that nothing stays pressed, proved. |
| `SnapClick` | Pairs of keys, their report, configuration and restart. |
| `SnapClickProofs` | The report of any number of pairs, proved. |
| `WirelessLink` | Link state, event ring, requests, the main loop and the module's own view of the link. |
| `WirelessLinkProofs` | The agreement of firmware and module, proved. |
| `TransportSwitch` | When requests are made: the transport switch and the host keys. |
| `TransportSwitchProofs` | When pairing is prepared, proved. |
| `DeferredExec` | The table of deferred callbacks, its interface, the walk and the callbacks. |
| `DeferredExecProofs` | The table and the due times, proved. |
| `MCWearLeveling`, `MCReportBuffer`, `MCDebounce`, `MCActionTapping`, `MCSnapClick` | Requests, keymaps, pairs, functions and symmetry for TLC. |

`ActionTapping` extends `KeyActions`. Otherwise the modules do not share
variables: the components meet only through calls whose effect each model has as
an input (the stored debounce configuration, the wake-up, the requests that
`TransportSwitch` makes and `WirelessLink` allows at any time, the changes of the
link that `ReportBuffer` allows at any time). Operators named `Mut...` are mutated forms
of the definition below them; nothing uses them. They document which mistake
each property is known to catch (`mutants` in `PROJECT.json`).

## 3. How the models correspond to the code

`PROJECT.json`, `map`, gives the lines for every definition. The main points:

**WearLeveling.** `pc` is the place in the running API call, named for what
comes next (`append` is `wear_leveling_append_raw`, `erase` the
`backing_store_erase` of a consolidation or of `wear_leveling_erase`, `program`
the bulk write of `wear_leveling_write_consolidated`). One step is one driver
call and the code up to the next; therefore a power loss can fall between any
two driver calls, and within an erase after any number of sectors. Every driver
call may fail as long as `faults < MaxFaults`. A start (`PowerUp`) has three
outcomes: the consolidated data is taken or not, by its checksum; the driver or the
data can not be read, and the start returns a failure; or only the read of the checksum
fails, which the code does not notice, so that indeterminate bytes decide. Entries are encoded and decoded
byte by byte as in `wear_leveling_internal.h`, since the agreement of encoder
and decoder is one of the questions. Abstractions: the checksum is perfect
(`cons.valid`); a consolidation that is interrupted has no valid checksum;
log addresses count words from the start of the log. `OptLimit` is 64 in the
code and small in the runs so that both sides of the limit occur. Words outside
the backing store read as `BeyondWord`. Locals that no later step reads keep
their old values.

**ReportBuffer.** A report is its type and a number in sending order; contents do
not matter to any property. Timers are nondeterministic: whenever the code
tests an interval, both answers are possible. `RunTask` is
`report_buffer_task` called from a sender (with the new report already in the
queue), `Task` the same from the main loop when it has something to do. `fifo`,
`acks` and `host` are external: the module accepts a transmission when it has
room, answers every one, and delivers in order. An answer that fails its checksum
disappears (`LoseAck`). `EarlyTimer` covers the discarded report when
`timer_read32()` is at most 2. `link` says as much of the wireless state as the
senders ask: connected, pin code entry while pairing (keyboard reports are taken, the
others are not), or anything else (`down`). A report is dropped by the early
returns of the senders (`DropKeyboard`, `DropExtra`, and the one of `Connect`);
the battery is not modelled, so it may be critically low at any call. `Pause` stands
for every way down that keeps the buffer, `Disconnect` for the one that clears it,
`Wakeup` for `report_buffer_init` at the end of `lpm_task`. NKRO reports behave like
keyboard reports. `base` is history: the newest keyboard report that is known to be
lost, and how it was. Mouse reports are sent directly and never buffered; like
system reports they only produce acknowledgements.

**Debounce.** `Scan(r)` is `matrix_scan` reading the matrix `r`, followed by the
algorithm that is selected; `Tick` is a millisecond. Any number of scans may fall
into a millisecond and any number of milliseconds between scans. Timestamps are
kept as time passed, limited to `TimeMax` (the code limits elapsed times to
`UINT8_MAX` before it uses them), and only while they can still matter. `counters`
is indexed by keys and rows: an algorithm uses one kind. The `running` flags and
`stamp` of an algorithm are static in the code and survive a change of the
algorithm; counters are freed and allocated. `SymEager` is both eager
algorithms, which differ in what a counter belongs to (`UnitOf`).
`SwitchAnytime = FALSE` restricts a change of the algorithm to moments when no
key is in use; the code has no such restriction (see the known limits). A wake-up
may happen at any moment. `age`, `since`, `scans` and `fresh` are history for
the properties.

**RingQueue.** `head`, `tail` and slots as in `report_buffer.c` (refuses when
full) and in the event queue of `wireless.c` (drops the oldest when full). The
size of the ring is a parameter.

**KeyActions.** The keyboard is a record: the key codes in the report (a code is
named by its key and layer), the modifiers, the layers that are on and
`source_layers_cache`. `ProcessRecord` is `process_record` down to
`register_code`, `register_mods` and `layer_on`. Key codes, modifiers,
mod-taps, layer-taps, momentary layers and transparent positions are covered. The
report has room for every key, as with NKRO; a report of six keys would leave the
seventh out.

**ActionTapping.** `ProcessTapping(r)` is `process_tapping`: it returns the new
tapping key, keyboard and waiting records and whether the record was consumed.
Its cases follow the code's: no tapping key (`Idle`), pressed and undecided
(`Unsettled` within the term, `Held` after it), pressed and tapped
(`Settled`), released (`Released`). `Process` is `action_tapping_process` up
to its loop, `Replay` one turn of that loop, so an interrupted loop is a state of
its own. Timestamps are kept as ages; `WithinTerm` is false for a record older
than the tapping key, as the unsigned difference is in the code. The build is the
one with `PERMISSIVE_HOLD_PER_KEY` and `HOLD_ON_OTHER_KEY_PRESS_PER_KEY`. A
tick comes at least once between two changes of one key (debouncing), and the
main loop is at most `MaxLate` late in noticing the end of the tapping term.
`overflowed` and `overtaken` are history: what has happened since the
keyboard was last at rest with nothing on. The limit of `tap.count` is 15 in the
code; any limit from 2 behaves alike, and a limit of 1 would confuse the first tap
with the further ones (`process_tapping` tells them apart by `tap.count > 1`).

**SnapClick.** `state[i]` is `state_keys` as a set of indices;
`last_single_key` is left out, since the code only reads it as a part of the
whole byte. The loop over the pairs is written as sets: `Hit`, the pairs the
key is in, and `TakesPress` and `TakesRelease`, the pairs that end the loop;
pairs before the first of these are updated, later ones are not. A code is on
one key, and the report has room for all keys. `SetWhileHeld = FALSE` restricts configuration to moments when no key
of the old and new pairs is down; the code has no such restriction (see known
limits).

**WirelessLink.** `mod` is the module's idea of the link, `pend` what its
next status packet will report; a packet holds the present state, so a change not
read in time is replaced by the next. `pc` separates the main loop from
`wireless_event_task` ("events"), which runs until the ring is empty, and from
the 100 ms of `set_transport` ("sync"), in which packets are read and no event
is handled. Everything else happens in any order. The requests (`Connect`,
`ConnectEx`, `PairingEx`, `Disconnect`) set the firmware's state at once, as the
code does. Sending is only its effect on the link (`ReportBuffer` has the
rest). `missed` is history: a link event was dropped by the full ring and none
has been handled since.

**TransportSwitch.** `wireless_pre_task` with the two readings of the pins and
the debounce time, and the host keys with the pairing timer. `time` and
`pairing_key_timer` are whether they run; that zero means "not running" and is a
possible time too is kept for `time` (`Note`). `asked` is the request that
`WirelessLink` models.

**DeferredExec.** `Task` begins a walk, `Skip`, `Invoke` and `Return` are its turns,
and `Defer`, `Extend` and `Cancel` are possible in the main loop and in a callback,
where also time passes (`Tick`). `last` is both `last_execution_time` and the `now`
of the walk, which have the same value. Times are numbers of the timer's width
(`Wrap`, `Signed`); `rem`, the time until a job is due as its owner counts it, is
history, as are `live`, `running` and `gone`. A job does not use its token after
it is done, as `custom_quantum_functions.md` asks for. `OtherTable` is a registration
in a table of another module, which moves the shared counter.

## 4. Runs

| Run | Instance | Properties | Shows |
|---|---|---|---|
| `WL_log` | two-byte words, 12 bytes in 8 log words, requests of every encoding, one power loss anywhere | `TypeOK`, `RestartReproducesCache`, `AppendInBounds`, `UnlockedWhenWriting`, `CallsReturn` | between calls the flash rebuilds exactly the cache and the write position; appends stay in the log; the store is unlocked when it is erased or programmed; every call and every start ends |
| `WL_refine` | eight-byte words, two power losses | `ImplementsEeprom` | the store implements the abstract EEPROM: completed writes are durable, an interrupted one leaves each byte old or new, only an interrupted reorganisation loses bytes, to zero |
| `WL_faults` | four-byte words, two driver failures and a power loss | `RecoveredIsDurable` | what a consolidation or a start reported as stored survives the next start, whatever failed before; only a start that could not read the checksum reports success with zeros, in bytes that are not in the log |
| `WL_eraseFails` | one driver failure | `AppendInBounds` violated | finding 1 |
| `RB_order` | queue of two, module FIFO of two, two retries, three reports, sent or dropped, acknowledgements lost, early timer, pin code entry | `TypeOK`, `BoundedRetries`, `NoReportLost`, `KeyboardInOrder`, `Drains` | keyboard reports never overtake each other, the host ends up with the last one unless it was lost in one of the ways that `NoReportLost` names, retries end, the buffer runs empty while the link is up |
| `DB_idle` | two keys of a row, all algorithms, time 2 (1 for the asymmetric one) and 0 | `TypeOK`, `NoiseFiltered`, `LockedOut`, `Settles` | a deferred change needs the debounce time without a change; an eager key is locked that long; a scan leaves no key behind that is due |
| `TAP` | a mod-tap, a layer-tap and a key that is a code on one layer and a mod-tap on the other; term 2, quick tap term 1, three waiting records, tap count up to 2 | `TypeOK`, `NothingStuck`, `Resolves` | no code or modifier is left on when all keys are up, not even after an overflow, and no layer without one; when the keys rest, every event is handled and every tap/hold key decided |
| `TAP_overtaken` | the same, seven waiting records | `NoKeyLeft` violated | finding 2 |
| `SNAP` | two pairs of four keys, 26 configurations with all types, one pair of the same key twice | `TypeOK`, `ReportAsConfigured` | after every press, release, configuration and restart the report is what the types promise |
| `LINK` | one Bluetooth host and the receiver, a ring of three events | `TypeOK`, `LinkAgrees`, `Recovers` | when nothing is under way the firmware's state and host are the module's; when nothing disturbs the link any more, typing brings it back |
| `SWITCH` | two Bluetooth hosts and the receiver, a switch of four positions | `TypeOK`, `PairingAsked`, `SwitchObeyed` | pairing is prepared only for a key that is held on its transport; when the switch rests, the transport follows |
| `DEFER` | two slots and two jobs, three tokens, delays 1 and 2, a timer of 12 values | `TypeOK`, `TableMatches`, `NotEarly`, `EveryJobRuns` | a job's token finds its entry and no other, due when the job expects it; no callback runs early or after its cancellation; what is due runs |

Bounds. In `WL_log` the log holds between two and eight entries, so it fills in
the middle of an entry, at the end of one and at the end of a request, is
consolidated, and fills again; `UsedBeyond` makes a read past the end visible.
Two and four-byte words have entries of several words, so a power loss falls
inside an entry. In `WL_refine` each request of seven bytes takes two entries.
Two power losses let the second fall into the recovery from the first. In `RB_order` three
reports are one more than the queue holds, two retries let a report be
retransmitted after its acknowledgement was lost and after a refusal; reports
are numbered, so three are enough for one to be overtaken. In `DB_idle`
two keys of one row are what the per-row algorithms distinguish from one, and a
time of 2 makes every phase of a counter occur: started, partly run, ended by a
scan in time and by one that is late. Symmetry of the keys is sound there
because they are in the same row and no key is named. In `TAP` three keys are
enough for a tapping key, a key that was down before it and one that is typed
within it, and a fourth event overflows the ring; with a term of 2 and
a quick tap term of 1 a record is in both terms, in one or in none. In `SNAP`
two pairs and four keys have a pair that takes an event and one that does not;
pairs do not affect each other further. In `LINK` a packet has up to three
events, so two packets overflow a ring of three; with two Bluetooth hosts the
same properties hold (644,651 states), which takes longer than the run should.
`SWITCH` is not bounded at all. In `DEFER` two slots are enough for an entry before
and one behind the callback that runs, three tokens for the counter to come around
while an entry is held, and 12 is just above twice the largest distance of two
times that are compared. The number of requests,
reports, faults and power losses is bounded by `Requests`, `MaxReports`,
`MaxFaults` and `MaxCrashes`, ages by `MaxLate`; in `DEFER`, `MaxGap` and `MaxLate`
bound how late the main loop and a callback may be.

## 5. Fairness

- `WearLeveling`: `WF(Running)`. The firmware runs an API call to its end; nothing
  in the code waits for anything but the driver. Calls and power losses are not
  fair.
- `ReportBuffer`: `WF(Task)`, `WF(HandleAck)`, `WF(Radio)`. `wireless_task` runs in
  every turn of the main loop and the intervals it compares with are constants, so
  a task with something to do gets to do it; the module's packets are read in the
  same loop; the module sends what it has accepted while the link is up. Lost
  acknowledgements, disconnections and new reports are not fair. `Drains` says
  `[]<>(~Up \/ empty)`, so it does not depend on the link staying up.
- `ActionTapping`: `WF(Replay)`, `WF(TickEvent)` and `SF(Elapse)`. The main loop
  runs, and time passes whatever it does: between two events handled at the same
  time the clock may stand still, but not for ever. Key events are not fair.
- `WirelessLink`: `WF(WirelessTask)`, `WF(EventTask)`, `WF(SyncEnd)`: the
  main loop runs. `SF(Send(TRUE))` and `SF(ModuleConnects)` are what `Recovers`
  supposes of user and host: keys are pressed again and again, and if attempts to
  connect go on, one succeeds. `SF(mod.link = "connected" /\ WirelessTask)`: a key
  does not always fall between a connection and the next turn of the main loop,
  which takes far less than a millisecond. Everything in `Disturbance` is not
  fair, and `Recovers` supposes that it ends.
- `TransportSwitch`: `WF` of each branch of `wireless_pre_task` and of
  `PairingTask`, which run in every turn of the main loop.
- `DeferredExec`: `WF` of `Task`, `Walk`, `Return` and `Tick`: the main loop runs,
  callbacks return, time passes. Requests are not fair.
- `SnapClick` has no liveness property: what is promised holds after every event.
- `Debounce` has no liveness property: `Settles` and `NoKeyForgotten` say by when
  something must have happened, as safety properties over the elapsed time.

## 6. Proofs

All theorems hold for every value of the constants that satisfies the named
assumptions in the modules: `SizesAssumption` (the static assertions of
`wear_leveling_internal.h`) and `EnvironmentAssumption`, `KeymapAssumption` (up to
32 layers, as many as `layer_state_t` has bits), `TappingAssumption`,
`ReportBufferAssumption` (a queue of at least two slots, at least one retry),
`DebounceAssumption` (times within the width of the counters), `SnapAssumption`
(types only), `LinkAssumption` (a ring of at least two slots),
`HostsAssumption` and `DeferredAssumption` (delays and lateness add up to less than
half of the timer's range, 24 days in the code).

**WearLevelingProofs.** `IInv == TypeOK /\ RoomInv /\ UnlockInv`.
`AppendInBounds` is not inductive: that the position is inside the log when a
write starts depends on every earlier call having left room. `RoomInv` therefore
says it of `idle` and `return` too. It needs `faults = 0`: with a
failed erase it is false (finding 1), and `AppendsInBounds` says so.
`UnlockInv` carries the result of the unlock through the steps that rely on it:
for appends whatever fails (`AppendsUnlocked`), for consolidations as long as no
call has failed (`WritesUnlocked`). Type correctness rests on lemmas about the
encoding: entries consist of bytes and never exceed the eight bytes of the union.

What a restart would find (`Recovered`, `PlaybackStop`) is defined by the whole log.
The proofs do not unfold the recursion. They characterise its result: an entry
starts at a slot or not (`Read` is the set of slots playback looks at), and the
value of a byte is that of the latest entry that covers it (`IsLatest`). Lemmas
say what appending a word behind the last entry, erasing the log and writing the
consolidated copy do to that.

- `RestartReproduces`: as long as no driver call failed, between calls the flash
  rebuilds the cache and the write position, across power losses anywhere.
  `RecInv` is its inductive form: while an entry is being appended word by word
  (`Logging`), the words so far decode to nothing but a prefix that playback skips
  or reads as the entry, and the bytes of the request that are in complete entries
  are the ones that are recovered. It assumes `LogInOneSector`: the log lies in
  one erase unit, as it does, for example, for the last 2 KB of a 4 KB
  store with 2 KB sectors. With more sectors the statement is false
  (`WL_sectors`, known limits).
- `Durable`: what a consolidation or a start reported as stored is what the next
  start finds, whatever driver calls failed before and with any number of sectors.
  `DurableInv` adds that the log is empty before the copy is written and that
  playback has applied what it has read. The exception is part of
  `RecoveredIsDurable`: after a start that could not read the checksum (`misread`,
  known limits) a byte may be zero if no entry in the log assigns it. `ReplayedOnZeros`
  carries it through the playback: the log is applied to zeros instead of the copy, so
  what it assigns is right and the rest is zero (`LatestOnZeros`). `NoOverrun` is a hypothesis on the
  behaviour: no decoded entry has a length of 6 or 7, for which
  `wear_leveling_playback_log` copies bytes beyond the union (known limits). No
  encoder writes such a length, but a failed append can leave a part of an entry,
  and what follows is then decoded at the wrong place.
- `DurableInDoubleWords` needs no such hypothesis: with words of eight bytes an entry
  is one word, so no part of one is ever in the log (`PlainLog`).
- `Refinement`: with eight-byte words, the log in one sector and no failing driver
  call, the store implements `EmulatedEEPROM`, across any number of power losses.
  `RefInv` says what the abstract specification allows in the middle of a call:
  each byte is old or new (`OldOrNew`), the request goes on behind the entry that
  is being appended, and during a reorganisation the old copy is not valid.
  For smaller words the refinement does not hold (known limits).

**Rings** (in `ReportBufferProofs`). For every size from 2, enqueue appends or refuses at `Size - 1`
elements, dequeue takes the oldest, and the event queue's enqueue keeps the
latest `Size - 1`. The argument is about the distance from tail to head around
the ring (`DistanceFacts`). `RingImplementsQueue` carries this over to the
sequence that `ReportBuffer` uses.

**ReportBufferProofs.** `IInv == TypeOK /\ RetryInv /\ OrderInv`. `RetryInv`
balances transmissions made and left. `OrderInv` orders the numbers of keyboard
reports along their way, host <= FIFO <= `kb_rpt` < queue <= last sent: a
retransmission repeats `kb_rpt`, which nothing in the FIFO exceeds, whatever
was lost, refused or acknowledged by mistake. `KeyboardOrder` follows.
Without the part about the queue the invariant would not survive a dequeue.
`NoneLost` needs `LostInv` besides: the last keyboard report is in the queue, in
`kb_rpt` with retries left, in the module or at the host, unless `base` says that
it was lost, or dropped when it was sent (`DroppedStep`); and nothing on its way is newer, so that no delivery replaces it.

**ActionTappingProofs.** `NothingStuck` speaks of moments at rest. `Inv` says what
holds at any other moment. `Down` are the keys that the actions have seen go down:
those whose oldest waiting event is a release, and those that are held and of which
nothing waits. `Marked` are those whose oldest waiting event is marked as the
release of a tap. The keys in `Down`, except for the undecided tapping key, own what is
on (`Owned`): every code, modifier and layer belongs to one of them, on the layer
that `source_layers_cache` remembers, and as a tap or a hold according to the tap
count that its release will have. `Queued` says that this can be kept up: the waiting
events of a key alternate, the last one is where the key is, and only the first one
is marked. `KeyOK` ties the tapping key to its release. One lemma per branch of
`process_tapping` shows `KeyStep`, what the branch does to these sets; a second
group of lemmas says what appending, taking and marking do to the buffer. The order of
the ages in the buffer (`Sorted`) is what makes the release that
`waiting_buffer_scan_tap` finds the next event of its key. `NothingStaysPressed`
follows, since at rest `Down` is empty. Its exceptions are in `NothingStuck`:
`overflowed` for layers, `overtaken` (finding 2).
The second half of finding 2 was met this way: without the marks in `overtaken`
the invariant is not inductive.
`TypeCorrect` includes that the ring keeps a free slot and the limit of `tap.count`.

**DebounceProofs.** `TypeCorrect` includes the seven-bit counters.
`EagerLocksOut` rests on `LockInv`: a key that changed less than the debounce time
ago has a running counter with at least the rest of that time plus the time since
the counters were last brought up to date. `DeferFiltersNoise` rests on
`FilterInv`, one conjunct per algorithm: a running counter (or timer) has run for
no longer than the key has been steady (`Covered`), and a per-key counter only
runs for a key that differs. The part about time not yet accounted for is what
scans at any rate require. `NoKeyLeftBehind` needs the opposite bound, for all
seven algorithms: `SettleInv` says that whatever the firmware has not seen yet is
pending, that is, a counter or timer runs and ends, again counting the time not
accounted for, before a key of the unit has been steady (or a unit locked) for longer
than the debounce time (`Within`). In the asymmetric algorithm, where the counter of
a release may start only when the lock of the press ends, it is the milliseconds with
a scan and the counter that add up to at most twice that time. Per key, a change
restarts a counter only if it was stopped, which is what `FilterInv` adds. The three
theorems assume `SwitchAnytime = FALSE`; changing the algorithm while keys are in
use drops their counters, and the statements fail.

**SnapClickProofs.** `ReportAsConfigured` is not inductive: what a press does
depends on which keys the pair thinks are down. `IInv` adds that this is the truth
(`state[i] = HeldOf(i)`) and that `pair` and `stored` are configurations of
the host or the empty one. `PressPair` and `ReleasePair` go through the types for
the pair of the key, `OtherPair` says that the others are not disturbed, `SetStep`
that an idle pair has no key in the report, before and after. `ReportCorrect`
assumes `Separate` (no key in two pairs), `PlainKeys` (no modifiers) and
`SetWhileHeld = FALSE`; each is needed (known limits). `TypeCorrect` assumes
nothing.

**WirelessLinkProofs.** `IInv == TypeOK /\ LinkInv`. `LinkAgrees` speaks only of
moments when nothing waits; `LinkInv` says what waits otherwise: if the
module has a change to report, nothing is known; else the last link event in the
ring is the module's state, or, if there is none, firmware and module agree
already or the event was dropped. Requests keep it because each one makes the
module report something. It needs `Resets`: behind a reset there is always a
link event. The lemmas about sequences say what appending a packet, dropping the
oldest events and handling one do to the last link event.

**TransportSwitchProofs.** `PairingAsked` with `TypeOK` is inductive; the history
variable `moved` is what it takes to say when it is not true.

**DeferredExecProofs.** `IInv` is `TableMatches` in parts (`TableInv`) with the type
invariant, `GapInv` (the walk began at most `MaxGap` ago) and `WalkInv` (the entry of
the callback that runs is in its slot until it is cancelled), without which the
return of a callback could clear another's entry. `FreeEntry` and `MoveEntry` are
what happens to an entry, by a request or by a return alike. The time is in three
lemmas on numbers with a wrap-around: small steps add up (`WrapSum`), and the signed
difference of times less than half of the range apart is the time between them
(`SignedWrap`). `NeverEarly` follows: what is due when the walk began is due.

Checked by TLC only: liveness (`CallsReturn`, `Drains`, `Resolves`, `Recovers`,
`SwitchObeyed`, `EveryJobRuns`), which needs fairness and `ENABLED`. Every invariant
and action property of a passing run is stated by a theorem.

## 7. Findings and known limits

1. `WL_eraseFails`: when the erase of a consolidation fails, the write position
   stays at the end of the backing store, and the next write goes past it
   (`wear_leveling.c:309`).
2. `TAP_overtaken`: a waiting record that settles the tapping key as held ends the
   replay, and the records behind it wait for the next event or tick with no
   tapping key. A key event that comes first is handled before them, also the
   release of a key whose press is waiting; the press is then handled later, and
   nothing releases it (`action_tapping.c:158`). The same happens when a press of
   the tapping key comes too late for a quick tap: it becomes the tapping key at
   once ("start new tap again", line 579), without a scan of the buffer and ahead of
   an older release and press of the same key that may wait there; its own release
   then settles it as a tap and is queued, marked as such, behind them.

Known limits. The first five can be seen with TLC and the configuration named,
which is expected to end with a violation; the others were met while modelling.

- `WL_sectors.cfg` (`MCWearLeveling`): power lost between two sector erases may
  leave the first log slot empty and old entries behind it. The next start takes
  the log for empty, and later appends meet the old entries
  (`wear_leveling.c:308`).
- `WL_misread.cfg` (`MCWearLeveling`): the result of reading the checksum at start is
  ignored. When that read fails, the cache is cleared over valid data, the log is
  played back and the start reports success, while `wear_leveling.c:40` promises the
  latest data to every reader (`StartReturnsLatest`). The next consolidation makes the
  loss permanent (`wear_leveling.c:227`). `RecoveredIsDurable` excepts this.
- `RB_consumer.cfg` (`MCReportBuffer`): a consumer report is sent directly when the
  queue is empty, although an earlier one is still being retried and is then
  repeated after it (`wireless.c:475`).
- `DB_switch.cfg` (`MCDebounce`): a change that is pending when the host selects
  another algorithm is never taken over, until some key changes again
  (`keychron_debounce.c:183`).
- `SNAP_shared.cfg` (`MCSnapClick`): of two pairs with a key in common the second
  does not see an event the first one takes, and then counts keys as down that are
  up (`snap_click.c:89`).
- Any successful acknowledgement ends the retries of the current report, also the
  late one of an earlier transmission, so a report the module has refused may be
  lost (`lkbt51.c:816`); `NoReportLost` excepts this.
- A report that is dequeued while the timer reads at most 2 is not transmitted
  (`report_buffer.c:122`); `NoReportLost` excepts this.
- A callback that cancels itself and registers anew, just when the token counter has
  come around, gets its old token; its new entry is then taken for the old one and
  cleared, or put off, when it returns (`deferred_exec.c:136`).
- A Snap Click pair that is changed while its keys are held keeps its old state
  and its keys in the report (`snap_click.c:158`); a modifier in a pair is not
  released, because `is_key_pressed` does not see it (`snap_click.c:104`). With
  `SetWhileHeld = TRUE` or a modifier in the pairs TLC finds `ReportAsConfigured`
  violated.
- An overflow of the waiting buffer releases codes and modifiers but leaves layers
  on whose release was dropped (`action_tapping.c:142`).
- A dropped last link event leaves the firmware with an old state of the link until
  the next one (`wireless.c:92`); `LinkAgrees` and `Recovers` except this.
- A transport switch position noted at a time of exactly zero is not acted on until
  the switch moves again (`keychron_wireless_common.c:279`); `SwitchObeyed` excepts
  this.
- Pairing starts although the transport has changed while the host key was held,
  since the release is then ignored; and the release of one host key ends the
  pairing of another (`keychron_wireless_common.c:89`).
- A keyboard report that is sent at a critical battery level, while pairing or
  without a connection is dropped (`wireless.c:407`); `NoReportLost` excepts such a
  report. Its sender takes it for sent (`action_util.c:300`), so when a key was released
  in the meantime, `clear_keyboard` finds nothing to send on connecting.
- Mouse and consumer reports end pairing by asking for a connection, keyboard
  reports do not (`wireless.c:459`).
- All queued raw HID events point to one buffer (`lkbt51.c:880`).
- Pin code entry is left only by an event of its own: a reset or disconnection
  during it leaves it on (`wireless.c:343`).
- `set_transport` changes the transport before `bt_transport_enable(false)` compares
  with it, so the empty report for the host that is left is never sent by it
  (`transport.c:147`).
- A length of 6 or 7 in a multibyte entry, which no encoder writes, makes playback
  copy past the end of the entry's union (`wear_leveling.c:566`). It can only be
  read after a failed append has left a part of an entry; `NoOverrun` excludes it
  from `Durable`.
- With two-byte words, an entry of which only the first words were written before
  a power loss is replayed with zeros in the missing places
  (`wear_leveling.c:544`). The refinement is therefore checked with eight-byte
  words, where an entry is one word.
- After a failed write the cache already has the new value, so repeating the
  request reports success without storing anything (`wear_leveling.c:689`).
- Consolidation ignores failed unlocks (`wear_leveling.c:260`, `305`), so a locked
  store may be erased or programmed, which `backing_mocks.cpp:84` of its tests would
  reject. `UnlockedWhenWriting` therefore needs `faults = 0`.
- A full report queue drops the report (`report_buffer.c:72`), and nobody looks at
  the result; `NoReportLost` excepts this.
- The per-row algorithm starts with all keys up: a key that is held while it is
  selected and released before its first scan stays down for the firmware
  (`sym_defer_pr.c:36`). It can only happen with `SwitchAnytime = TRUE`.
- `debounce()` of Keychron always returns `false`, although its comment says it
  tells whether there are changes; `matrix_task` does not use the result.
- In the asymmetric algorithm, when scans are as far apart as the debounce time, a
  release that follows its press closely takes up to two debounce times of scans.

## 8. Not modelled

Pin code entry, the build that selects the transport by key combinations, the
reset line of the module, raw HID data, mouse reports, the empty reports of
`wireless_low_battery_shutdown`, firmware update and factory commands of the
module, the SPI and UART framing, the CKBT51 driver; the tap/hold builds with
chordal hold, flow tap and retro shift; one-shot keys, swap hands, toggles and
the optional keycode features; key ghosting and the electrical side of the
matrix; the split transport (the Keychron debounce code refuses it); lighting,
audio, displays, pointing devices; USB stacks, drivers and platforms; board
definitions and tooling. The hardware-facing parts move bytes, render output or
touch registers, and have little control to check. Most of the repository by
lines is of this kind: vendored libraries, drivers, and the definitions of
several thousand boards and keymaps. Components with control that are not
modelled yet are in the plan.

## 9. Plan

In this order:

1. **Composition of `WirelessLink` and `ReportBuffer`**, in place of the
   nondeterministic `Connect`, `Disconnect` and `Pause`: which reports a change of
   the link may cost.
2. **Pin code entry** in `WirelessLink`: it ends with the connection.
3. **LowPower**: the conditions of `lpm_task` against pending reports and events.
4. **Keycode features**: combos and tap dance, with the buffers they keep; the SOCD
   code of the analog matrix, which does what Snap Click does on travel distances.
5. **Chordal hold** in `ActionTapping`.

Proofs worth adding besides: the correspondence of several models' inputs once they
are composed.
