-------------------------- MODULE TransportSwitch ---------------------------
(***************************************************************************)
(* Who asks for what on the wireless link: the switch that selects the     *)
(* transport (wireless_pre_task with its debounce) and the keys that       *)
(* select a host or start pairing (process_record_keychron_wireless and    *)
(* keychron_wireless_common_task).  This is the build with a switch for    *)
(* USB, Bluetooth and 2.4 GHz.                                             *)
(*                                                                         *)
(* What a request does to the link is in WirelessLink, which leaves open   *)
(* when it comes; `asked` is the last request made here.                   *)
(***************************************************************************)
EXTENDS Integers

CONSTANTS
    BtHosts,   \* the hosts with a key BT_HST1 to BT_HST3
    P24G       \* P24G_INDEX, the 2.4 GHz receiver

Hosts == BtHosts \cup {P24G}
Pins  == 0..3   \* two pins: Bluetooth, 2.4 GHz

ASSUME HostsAssumption == BtHosts \subseteq 1..3 /\ P24G = 24

VARIABLES
    transport,          \* transport.c
    pins,               \* environment: the position of the switch
    dip_switch_state,   \* the position seen last
    time,               \* whether the debounce time of the switch is running
    pairing_key_timer,  \* whether it is running
    host_idx,           \* the host of the pairing key
    keys,               \* environment: the host keys that are down
    asked,              \* the last request to wireless.c
    moved,              \* history: the transport has changed since pairing_key_timer started
    unstamped           \* history: the position was noted at time zero

switchVars == <<pins, dip_switch_state, time, unstamped>>
pairVars   == <<pairing_key_timer, host_idx, keys>>
vars       == <<transport, switchVars, pairVars, asked, moved>>

\* Mutation: no transport for the positions without one of their own.
MutTransportAt(p) == CASE p = 1 -> "bt" [] p = 2 -> "p24g" [] OTHER -> "none"

\* The transport of a position of the switch
TransportAt(p) == CASE p = 1 -> "bt" [] p = 2 -> "p24g" [] OTHER -> "usb"

\* The transport a host key works on
TransportOf(h) == IF h = P24G THEN "p24g" ELSE "bt"

Requests ==
    [type : {"none"}] \cup [type : {"connect", "pair"}, host : Hosts]
        \cup [type : {"transport"}, to : {"usb", "bt", "p24g"}]

TypeOK ==
    /\ transport \in {"none", "usb", "bt", "p24g"}
    /\ pins \in Pins /\ dip_switch_state \in Pins /\ time \in BOOLEAN
    /\ pairing_key_timer \in BOOLEAN /\ host_idx \in Hosts \cup {0}
    /\ keys \subseteq Hosts /\ asked \in Requests
    /\ moved \in BOOLEAN /\ unstamped \in BOOLEAN

Init ==
    /\ transport = "none" /\ pins \in Pins /\ dip_switch_state = 0 /\ time = FALSE
    /\ pairing_key_timer = FALSE /\ host_idx = 0 /\ keys = {}
    /\ asked = [type |-> "none"] /\ moved = FALSE /\ unstamped = FALSE

-----------------------------------------------------------------------------
\* process_record_keychron_wireless, BT_HST1 to BT_HST3 and P2P4G; a key of
\* another transport does nothing.  A Bluetooth host is connected to at once.
HostKeyPress(h) ==
    /\ h \notin keys /\ keys' = keys \cup {h}
    /\ \/ /\ transport = TransportOf(h)
          /\ host_idx' = h /\ pairing_key_timer' = TRUE /\ moved' = FALSE
          /\ asked' = IF h = P24G THEN asked ELSE [type |-> "connect", host |-> h]
       \/ /\ transport # TransportOf(h)
          /\ UNCHANGED <<host_idx, pairing_key_timer, moved, asked>>
    /\ UNCHANGED <<transport, switchVars>>

\* Mutation: the release only forgets the host.
MutCancelPairing == host_idx' = 0 /\ UNCHANGED pairing_key_timer

CancelPairing == host_idx' = 0 /\ pairing_key_timer' = FALSE

HostKeyRelease(h) ==
    /\ h \in keys /\ keys' = keys \ {h}
    /\ IF transport = TransportOf(h) THEN CancelPairing
       ELSE UNCHANGED <<host_idx, pairing_key_timer>>
    /\ UNCHANGED <<transport, switchVars, asked, moved>>

\* keychron_wireless_common_task, two seconds after the press: the transport is
\* not looked at again.
PairingTask ==
    /\ pairing_key_timer /\ pairing_key_timer' = FALSE
    /\ asked' = [type |-> "pair", host |-> host_idx]
    /\ UNCHANGED <<transport, switchVars, host_idx, keys, moved>>

-----------------------------------------------------------------------------
\* set_transport; nothing happens for the present transport.
SetTransport(t) ==
    /\ transport' = t
    /\ moved' = (moved \/ t # transport)
    /\ asked' = IF t = transport THEN asked ELSE [type |-> "transport", to |-> t]

\* The position p is noted, at a time that may be zero: the timer wraps.
Note(p) ==
    /\ dip_switch_state' = p
    /\ time' \in BOOLEAN /\ unstamped' = ~time'
    /\ UNCHANGED <<transport, moved, asked>>

\* Mutation: a switch that has moved again is noted without starting the time again.
MutSettle(seen, p) ==
    \/ /\ p = seen
       /\ dip_switch_state' = seen /\ time' = FALSE /\ unstamped' = FALSE
       /\ SetTransport(TransportAt(seen))
    \/ /\ p # seen
       /\ dip_switch_state' = p /\ time' = FALSE
       /\ UNCHANGED <<unstamped, transport, moved, asked>>

\* wireless_pre_task, second half: the switch must not have moved again.
Settle(seen, p) ==
    \/ /\ p = seen
       /\ dip_switch_state' = seen /\ time' = FALSE /\ unstamped' = FALSE
       /\ SetTransport(TransportAt(seen))
    \/ p # seen /\ Note(p)

\* wireless_pre_task: the switch has moved.
SwitchNoticed ==
    /\ transport # "none" /\ ~time /\ pins # dip_switch_state
    /\ Note(pins)
    /\ UNCHANGED <<pins, pairVars>>

\* wireless_pre_task, more than 100 ms later
SwitchDue ==
    /\ transport # "none" /\ time
    /\ Settle(dip_switch_state, pins)
    /\ UNCHANGED <<pins, pairVars>>

\* wireless_pre_task while there is no transport: the switch may be read twice, and
\* move in between.
SwitchFirst ==
    /\ transport = "none"
    /\ pins' \in Pins
    /\ Settle(IF time THEN dip_switch_state ELSE pins, pins')
    /\ UNCHANGED pairVars

MoveSwitch ==
    /\ pins' \in Pins \ {pins}
    /\ UNCHANGED <<transport, dip_switch_state, time, unstamped, pairVars, asked, moved>>

-----------------------------------------------------------------------------
Next ==
    \/ \E h \in Hosts : HostKeyPress(h) \/ HostKeyRelease(h)
    \/ PairingTask \/ SwitchNoticed \/ SwitchDue \/ SwitchFirst \/ MoveSwitch

\* The main loop runs, and time passes.
Fairness ==
    /\ WF_vars(SwitchNoticed) /\ WF_vars(SwitchDue) /\ WF_vars(SwitchFirst)
    /\ WF_vars(PairingTask)

Spec == Init /\ [][Next]_vars /\ Fairness
-----------------------------------------------------------------------------
\* Pairing is prepared for a real host always; for one whose key is down, on the
\* transport of that key, unless the transport has changed since the key went down.
PairingAsked ==
    pairing_key_timer =>
        /\ host_idx \in Hosts
        /\ ~moved => host_idx \in keys /\ transport = TransportOf(host_idx)

\* When the switch rests, the keyboard ends up on the transport of its position,
\* unless the position was noted at time zero, which means that no time runs.
SwitchObeyed ==
    <>[][FALSE]_pins => <>[](transport = TransportAt(pins) \/ unstamped)
=============================================================================
