---------------------------- MODULE WirelessLink ----------------------------
(***************************************************************************)
(* The state of the wireless link as the firmware sees it (wireless.c) and *)
(* the wireless module it is about (external; lkbt51.c talks to it).       *)
(*                                                                         *)
(* The firmware sends commands, and sets its own state at once to what it  *)
(* asked for.  The module reports every change of the link in a status     *)
(* packet; the driver turns a packet into events, which wait in a ring     *)
(* until the main loop handles them.  The packet holds the present state   *)
(* of the link: a change that is not read in time is replaced by the next. *)
(*                                                                         *)
(* The steps of a turn of the main loop may happen in any order, except    *)
(* that all queued events are handled before anything else goes on, and    *)
(* that set_transport reads packets for a while and handles none ("sync"). *)
(* When a host is selected, pairing is asked for or the transport changes  *)
(* is left open here; TransportSwitch says when.  Pin codes and the reset  *)
(* line of some boards are left out.                                       *)
(***************************************************************************)
EXTENDS Integers, Sequences

CONSTANTS
    BtHosts,     \* host indices of the Bluetooth hosts, 1 to 3 in the code
    QueueSize    \* WT_EVENT_QUEUE_SIZE

P24G     == 24   \* P24G_INDEX, the 2.4 GHz receiver
LastHost == 30   \* the index that stands for the Bluetooth host used last
Hosts    == BtHosts \cup {P24G}

ASSUME LinkAssumption ==
    /\ BtHosts # {} /\ BtHosts \subseteq 1..3
    /\ QueueSize \in Nat /\ QueueSize >= 2

VARIABLES
    wireless_state,   \* wt_state_t
    host_index,       \* the host the state is about
    queue,            \* wireless_event_queue, oldest first
    firstDisconnect,  \* no disconnection yet in the first second
    critical,         \* battery_is_critical_low()
    transport,        \* transport.c
    pc,               \* "loop", "events" in wireless_event_task, "sync" in set_transport
    mod,              \* external: the link and the host of the module
    pend,             \* external: what the next packet reports
    missed            \* history: a link event was dropped and none handled since

linkVars == <<wireless_state, host_index, mod, pend>>
fwVars   == <<queue, firstDisconnect, critical, transport, missed>>
vars     == <<linkVars, fwVars, pc>>

States == {"reset", "initialized", "disconnected", "connected", "pairing",
           "reconnecting", "suspend"}
Links  == {"disconnected", "reconnecting", "discoverable", "connected", "sleep"}
Event  == [type : {"reset", "led"} \cup Links, host : Hosts]

Wireless(t) == t \in {"bt", "p24g"}

TypeOK ==
    /\ wireless_state \in States
    /\ host_index \in Hosts \cup {0, LastHost}
    /\ queue \in Seq(Event) /\ Len(queue) < QueueSize
    /\ firstDisconnect \in BOOLEAN /\ critical \in BOOLEAN
    /\ transport \in {"none", "usb", "bt", "p24g"}
    /\ mod \in [link : Links, host : Hosts]
    /\ pend \subseteq {"reset", "link", "led"}
    /\ missed \in BOOLEAN /\ pc \in {"loop", "events", "sync"}

\* wireless_init; the module may have reported its start already
Init ==
    /\ wireless_state = "initialized" /\ host_index = 0 /\ queue = <<>>
    /\ firstDisconnect = TRUE /\ critical = FALSE /\ transport = "none"
    /\ mod \in [link : {"disconnected"}, host : BtHosts]
    /\ pend \in {{}, {"reset", "link"}}
    /\ missed = FALSE /\ pc = "loop"

-----------------------------------------------------------------------------
(* The module: commands *)

Reports(link, host) == mod' = [link |-> link, host |-> host] /\ pend' = pend \cup {"link"}

\* lkbt51_connect: 0 is the host used last on this transport
ModuleConnect(h) ==
    \E g \in Hosts :
        /\ g = CASE h = 0 -> mod.host [] h = LastHost -> g [] OTHER -> h
        /\ h = LastHost => g \in BtHosts
        /\ Reports("reconnecting", g)

\* lkbt51_become_discoverable
ModulePair(h) == Reports("discoverable", h)

\* lkbt51_disconnect
ModuleDisconnect ==
    IF mod.link = "disconnected" THEN UNCHANGED <<mod, pend>>
    ELSE Reports("disconnected", mod.host)

-----------------------------------------------------------------------------
(* Requests of the firmware *)

\* wireless_connect; at time zero it does nothing
Connect ==
    IF critical THEN UNCHANGED linkVars
    ELSE ModuleConnect(0) /\ wireless_state' = "reconnecting" /\ UNCHANGED host_index

\* wireless_connect_ex: nothing is done for the host that counts as connected.
ConnectEx(h) ==
    IF critical \/ (host_index = h /\ wireless_state = "connected")
    THEN UNCHANGED linkVars
    ELSE ModuleConnect(h) /\ wireless_state' = "reconnecting" /\ host_index' = h

\* wireless_pairing_ex
PairingEx(h) ==
    IF critical THEN UNCHANGED linkVars
    ELSE ModulePair(h) /\ wireless_state' = "pairing" /\ host_index' = h

\* wireless_disconnect: the state changes with the event.
Disconnect == ModuleDisconnect /\ UNCHANGED <<wireless_state, host_index>>

\* Mutation: a report does not wake a sleeping module.
MutNeedsConnection(keyboard) ==
    /\ wireless_state \notin {"connected", "reset", "suspend"}
    /\ keyboard => wireless_state # "pairing"

\* The states in which a report is dropped for a connection request: keyboard
\* reports do not end pairing, all others do.
NeedsConnection(keyboard) ==
    /\ wireless_state \notin {"connected", "reset"}
    /\ keyboard => wireless_state # "pairing"

\* wireless_send_keyboard and the other send functions, without a connection
Send(keyboard) ==
    /\ pc = "loop" /\ Wireless(transport) /\ NeedsConnection(keyboard)
    /\ Connect
    /\ UNCHANGED <<fwVars, pc>>

\* A host key: wireless_connect_ex on Bluetooth
SelectHost(h) ==
    /\ pc = "loop" /\ transport = "bt"
    /\ ConnectEx(h)
    /\ UNCHANGED <<fwVars, pc>>

\* keychron_wireless_common_task, when the pairing timer is over; it does not
\* look at the transport.
Pair(h) ==
    /\ pc = "loop" /\ PairingEx(h)
    /\ UNCHANGED <<fwVars, pc>>

\* set_transport: to USB the link is taken down; to a wireless transport it is
\* taken down and set up again, see SyncEnd.
SetTransport(t) ==
    /\ pc = "loop" /\ t # transport /\ transport' = t
    /\ Disconnect
    /\ pc' = IF t = "usb" THEN "loop" ELSE "sync"
    /\ UNCHANGED <<queue, firstDisconnect, critical, missed>>

\* battery_check_critical_low and wireless_low_battery_shutdown: the battery is
\* measured while connected, and a few times after the start in any state.
BatteryCritical ==
    /\ pc = "loop" /\ Wireless(transport) /\ ~critical /\ critical' = TRUE
    /\ Disconnect
    /\ UNCHANGED <<queue, firstDisconnect, transport, missed, pc>>

\* battery_task, with the cable connected
BatteryCharged ==
    /\ pc = "loop" /\ critical /\ critical' = FALSE
    /\ UNCHANGED <<linkVars, queue, firstDisconnect, transport, missed, pc>>

-----------------------------------------------------------------------------
(* Events *)

\* lkbt51_task: the events of a packet, in this order
Part(bit, type) ==
    IF bit \in pend THEN <<[type |-> type, host |-> mod.host]>> ELSE <<>>

Packet == (Part("reset", "reset") \o Part("link", mod.link)) \o Part("led", "led")

\* Mutation: the ring holds one event more.
MutEnqueued(all) == SubSeq(all, Len(all) - QueueSize + 1, Len(all))

\* wireless_event_enqueue of several events: a full ring drops the oldest.
Enqueued(all) == SubSeq(all, Len(all) - QueueSize + 2, Len(all))

\* lkbt51_task: a packet is read, its events are queued.
ReadPacket ==
    LET all     == queue \o Packet
        surplus == Len(all) - (QueueSize - 1)
    IN  /\ pend # {} /\ pend' = {}
        /\ queue' = IF surplus > 0 THEN Enqueued(all) ELSE all
        /\ missed' = (missed \/ \E i \in 1..surplus : all[i].type # "led")
        /\ UNCHANGED <<wireless_state, host_index, firstDisconnect, critical, transport, mod>>

\* Mutation: the host of the event is not taken over.
MutEnterState(s, h) ==
    wireless_state' = s /\ UNCHANGED <<host_index, mod, pend, firstDisconnect>>

\* wireless_enter_connected, wireless_enter_discoverable, wireless_enter_reconnecting
EnterState(s, h) ==
    /\ wireless_state' = s /\ host_index' = h
    /\ UNCHANGED <<mod, pend, firstDisconnect>>

\* wireless_enter_disconnected and wireless_enter_disconnected_kb: the first
\* disconnection after the start leads to a connection request.
EnterDisconnected ==
    \/ /\ firstDisconnect /\ firstDisconnect' = FALSE
       /\ IF transport = "bt" /\ ~critical
          THEN ModuleConnect(0) /\ wireless_state' = "reconnecting" /\ UNCHANGED host_index
          ELSE wireless_state' = "disconnected" /\ UNCHANGED <<host_index, mod, pend>>
    \/ /\ ~firstDisconnect
       /\ wireless_state' = "disconnected"
       /\ UNCHANGED <<host_index, mod, pend, firstDisconnect>>

\* wireless_enter_reset, wireless_enter_sleep, and events about other things
SetState(s) ==
    wireless_state' = s /\ UNCHANGED <<host_index, mod, pend, firstDisconnect>>

\* wireless_event_task, one event
HandleEvent ==
    LET e == Head(queue)
    IN  /\ queue # <<>> /\ queue' = Tail(queue)
        /\ \/ e.type = "reset"        /\ SetState("reset")
           \/ e.type = "connected"    /\ EnterState("connected", e.host)
           \/ e.type = "discoverable" /\ EnterState("pairing", e.host)
           \/ e.type = "reconnecting" /\ EnterState("reconnecting", e.host)
           \/ e.type = "disconnected" /\ EnterDisconnected
           \/ e.type = "sleep"        /\ SetState("suspend")
           \/ e.type = "led"          /\ SetState(wireless_state)
        /\ missed' = (missed /\ e.type \notin Links)
        /\ UNCHANGED <<critical, transport>>

\* wireless_task: a packet, if there is one, and then all events
WirelessTask ==
    /\ pc = "loop" /\ pc' = "events"
    /\ \/ ReadPacket
       \/ pend = {} /\ queue # <<>> /\ UNCHANGED <<linkVars, fwVars>>

EventTask ==
    /\ pc = "events"
    /\ \/ HandleEvent /\ UNCHANGED pc
       \/ queue = <<>> /\ pc' = "loop" /\ UNCHANGED <<linkVars, fwVars>>

\* send_string_task: packets are read, and their events wait.
SendStringTask ==
    /\ pc = "loop" /\ Wireless(transport) /\ wireless_state = "connected"
    /\ ReadPacket
    /\ UNCHANGED pc

\* bt_transport_enable and p24g_transport_enable: packets are read for 100 ms,
\* then the connection is asked for.
SyncRead == pc = "sync" /\ ReadPacket /\ UNCHANGED pc

SyncEnd ==
    /\ pc = "sync" /\ pc' = "loop"
    /\ ConnectEx(IF transport = "bt" THEN LastHost ELSE P24G)
    /\ UNCHANGED fwVars

\* The first second is over.
StartOver ==
    /\ firstDisconnect /\ firstDisconnect' = FALSE
    /\ UNCHANGED <<linkVars, queue, critical, transport, missed, pc>>

-----------------------------------------------------------------------------
(* The module by itself *)

OnlyModule == UNCHANGED <<wireless_state, host_index, fwVars, pc>>

ModuleConnects ==
    /\ mod.link \in {"reconnecting", "discoverable"}
    /\ Reports("connected", mod.host) /\ OnlyModule

ModuleGivesUp ==
    /\ mod.link \in {"reconnecting", "discoverable"}
    /\ Reports("disconnected", mod.host) /\ OnlyModule

ModuleLosesLink ==
    /\ mod.link = "connected"
    /\ Reports("disconnected", mod.host) /\ OnlyModule

ModuleSleeps == mod.link = "connected" /\ Reports("sleep", mod.host) /\ OnlyModule

ModuleResets ==
    /\ mod' = [mod EXCEPT !.link = "disconnected"] /\ pend' = pend \cup {"reset", "link"}
    /\ OnlyModule

\* LEDs or the connection interval
ModuleChatters ==
    mod.link = "connected" /\ pend' = pend \cup {"led"} /\ UNCHANGED mod /\ OnlyModule

-----------------------------------------------------------------------------
\* What the user and the surroundings do to the link
Disturbance ==
    \/ \E h \in BtHosts : SelectHost(h)
    \/ \E h \in Hosts : Pair(h)
    \/ \E t \in {"usb", "bt", "p24g"} : SetTransport(t)
    \/ BatteryCritical \/ BatteryCharged
    \/ ModuleLosesLink \/ ModuleSleeps \/ ModuleResets \/ ModuleChatters

Next ==
    \/ Disturbance
    \/ Send(TRUE) \/ Send(FALSE)
    \/ WirelessTask \/ EventTask \/ SendStringTask \/ SyncRead \/ SyncEnd \/ StartOver
    \/ ModuleConnects \/ ModuleGivesUp

\* The main loop runs; keys are pressed again and again, and the host is there: if
\* attempts to connect go on, one succeeds.  A key does not always fall between
\* the connection and the next turn of the loop, which reads of it.
Fairness ==
    /\ WF_vars(WirelessTask) /\ WF_vars(EventTask) /\ WF_vars(SyncEnd)
    /\ SF_vars(Send(TRUE)) /\ SF_vars(ModuleConnects)
    /\ SF_vars(mod.link = "connected" /\ WirelessTask)

Spec == Init /\ [][Next]_vars /\ Fairness
-----------------------------------------------------------------------------
\* The firmware's name for the state of the link
StateOf(link) ==
    CASE link = "connected"    -> {"connected"}
      [] link = "reconnecting" -> {"reconnecting"}
      [] link = "discoverable" -> {"pairing"}
      [] link = "sleep"        -> {"suspend"}
      [] link = "disconnected" -> {"disconnected", "initialized"}

\* The firmware has the module's idea of the link, and of the host if there is one.
Agrees ==
    /\ wireless_state \in StateOf(mod.link)
    /\ mod.link \in {"connected", "reconnecting", "discoverable"} => host_index = mod.host

\* When the module has nothing to report and no event waits, the firmware agrees
\* with the module about the link, whatever was asked for in between, unless the
\* last event about the link was dropped from a full ring.
LinkAgrees == queue = <<>> /\ pend = {} /\ ~missed => Agrees

\* Whatever has happened to the link before, typing brings it back: when nothing
\* disturbs it any more and keys are pressed, the keyboard is connected in the
\* end, on a wireless transport with enough battery.
Recovers ==
    <>[][~Disturbance]_vars =>
        <>[](Wireless(transport) /\ ~critical /\ ~missed => wireless_state = "connected")
=============================================================================
