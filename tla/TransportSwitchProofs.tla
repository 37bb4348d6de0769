----------------------- MODULE TransportSwitchProofs ------------------------
(***************************************************************************)
(* Proofs about TransportSwitch for every set of Bluetooth hosts.          *)
(***************************************************************************)
EXTENDS TransportSwitch, TLAPS

IInv == TypeOK /\ PairingAsked

\* The transport of a position is a transport to ask for.
LEMMA TransportAtType == \A p \in Pins : TransportAt(p) \in {"usb", "bt", "p24g"}
  BY DEF TransportAt

\* set_transport keeps the invariant: a pairing that was prepared is known to be
\* from before the change.
LEMMA SetTransportKeeps ==
    ASSUME IInv, NEW t \in {"usb", "bt", "p24g"}, SetTransport(t), UNCHANGED pairVars
    PROVE  /\ transport' \in {"none", "usb", "bt", "p24g"} /\ asked' \in Requests
           /\ moved' \in BOOLEAN /\ PairingAsked'
<1>1. transport' = t /\ moved' = (moved \/ t # transport) /\ moved \in BOOLEAN
  BY DEF SetTransport, IInv, TypeOK
<1>2. UNCHANGED <<pairing_key_timer, host_idx, keys>>
  BY DEF pairVars
<1>3. asked' \in Requests
  BY DEF SetTransport, IInv, TypeOK, Requests
<1>4. PairingAsked'
  <2>1. ~moved' => ~moved /\ transport' = transport
    BY <1>1
  <2> QED BY <2>1, <1>2 DEF IInv, PairingAsked
<1> QED BY <1>1, <1>3, <1>4

\* Noting a position leaves transport and pairing alone.
LEMMA SettleKeeps ==
    ASSUME IInv, NEW seen \in Pins, NEW p \in Pins, Settle(seen, p), UNCHANGED pairVars,
           pins' \in Pins
    PROVE  IInv'
<1>1. UNCHANGED <<pairing_key_timer, host_idx, keys>>
  BY DEF pairVars
<1>2. CASE p = seen
  <2>1. /\ dip_switch_state' = seen /\ time' = FALSE /\ unstamped' = FALSE
        /\ SetTransport(TransportAt(seen))
    BY <1>2 DEF Settle, Note
  <2>2. TransportAt(seen) \in {"usb", "bt", "p24g"}
    BY TransportAtType
  <2>3. /\ transport' \in {"none", "usb", "bt", "p24g"} /\ asked' \in Requests
        /\ moved' \in BOOLEAN /\ PairingAsked'
    BY <2>1, <2>2, SetTransportKeeps
  <2> QED BY <1>1, <2>1, <2>3 DEF IInv, TypeOK
<1>3. CASE p # seen
  <2>1. Note(p)
    BY <1>3 DEF Settle
  <2> QED BY <1>1, <2>1 DEF Note, IInv, TypeOK, PairingAsked
<1> QED BY <1>2, <1>3

\* Every step keeps the invariant: one step per action.
LEMMA NextInv == IInv /\ [Next]_vars => IInv'
<1> SUFFICES ASSUME IInv, [Next]_vars PROVE IInv'
  OBVIOUS
<1>0. 0 \notin Hosts
  BY HostsAssumption DEF Hosts
<1>1. ASSUME NEW h \in Hosts, HostKeyPress(h) PROVE IInv'
  <2>1. /\ keys' = keys \cup {h}
        /\ UNCHANGED <<transport, pins, dip_switch_state, time, unstamped>>
    BY <1>1 DEF HostKeyPress, switchVars
  <2>2. asked' \in Requests
    BY <1>1 DEF HostKeyPress, IInv, TypeOK, Requests
  <2>3. CASE transport = TransportOf(h)
    <3>1. host_idx' = h /\ pairing_key_timer' = TRUE /\ moved' = FALSE
      BY <1>1, <2>3 DEF HostKeyPress
    <3> QED BY <2>1, <2>2, <2>3, <3>1 DEF IInv, TypeOK, PairingAsked, TransportOf
  <2>4. CASE transport # TransportOf(h)
    <3>1. UNCHANGED <<host_idx, pairing_key_timer, moved>>
      BY <1>1, <2>4 DEF HostKeyPress
    <3> QED BY <2>1, <2>2, <3>1 DEF IInv, TypeOK, PairingAsked, TransportOf
  <2> QED BY <2>3, <2>4
<1>2. ASSUME NEW h \in Hosts, HostKeyRelease(h) PROVE IInv'
  <2>1. /\ keys' = keys \ {h}
        /\ UNCHANGED <<transport, pins, dip_switch_state, time, unstamped, asked, moved>>
    BY <1>2 DEF HostKeyRelease, switchVars
  <2>2. CASE transport = TransportOf(h)
    <3>1. host_idx' = 0 /\ pairing_key_timer' = FALSE
      BY <1>2, <2>2 DEF HostKeyRelease, CancelPairing
    <3> QED BY <2>1, <3>1 DEF IInv, TypeOK, PairingAsked
  <2>3. CASE transport # TransportOf(h)
    <3>1. UNCHANGED <<host_idx, pairing_key_timer>>
      BY <1>2, <2>3 DEF HostKeyRelease
    <3>2. pairing_key_timer /\ ~moved => host_idx # h
      BY <2>3 DEF IInv, PairingAsked
    <3> QED BY <2>1, <3>1, <3>2 DEF IInv, TypeOK, PairingAsked, TransportOf
  <2> QED BY <2>2, <2>3
<1>3. ASSUME PairingTask PROVE IInv'
  <2>1. host_idx \in Hosts
    BY <1>3 DEF PairingTask, IInv, PairingAsked
  <2>2. asked' \in Requests
    BY <1>3, <2>1 DEF PairingTask, Requests
  <2> QED BY <1>3, <2>2 DEF PairingTask, switchVars, IInv, TypeOK, PairingAsked
<1>4. ASSUME SwitchNoticed PROVE IInv'
  BY <1>4 DEF SwitchNoticed, Note, pairVars, IInv, TypeOK, PairingAsked
<1>5. ASSUME SwitchDue PROVE IInv'
  <2>1. dip_switch_state \in Pins /\ pins \in Pins
    BY DEF IInv, TypeOK
  <2> QED BY <1>5, <2>1, SettleKeeps DEF SwitchDue
<1>6. ASSUME SwitchFirst PROVE IInv'
  <2>1. (IF time THEN dip_switch_state ELSE pins) \in Pins
    BY DEF IInv, TypeOK
  <2>2. /\ pins' \in Pins /\ Settle(IF time THEN dip_switch_state ELSE pins, pins')
        /\ UNCHANGED pairVars
    BY <1>6 DEF SwitchFirst
  <2> QED BY <2>1, <2>2, SettleKeeps
<1>7. ASSUME MoveSwitch PROVE IInv'
  BY <1>7 DEF MoveSwitch, pairVars, IInv, TypeOK, PairingAsked
<1>8. ASSUME UNCHANGED vars PROVE IInv'
  BY <1>8 DEF vars, switchVars, pairVars, IInv, TypeOK, PairingAsked
<1> QED BY <1>1, <1>2, <1>3, <1>4, <1>5, <1>6, <1>7, <1>8 DEF Next

\* The initial states satisfy the invariant.
LEMMA InitInv == Init => IInv
<1> SUFFICES ASSUME Init PROVE IInv
  OBVIOUS
<1>1. asked \in Requests
  BY DEF Init, Requests
<1>2. 0 \in Pins
  BY DEF Pins
<1>3. TypeOK
  BY <1>1, <1>2 DEF Init, TypeOK
<1>4. PairingAsked
  BY DEF Init, PairingAsked
<1> QED BY <1>3, <1>4 DEF IInv

\* Every request names a real host or a real transport, for every set of hosts.
THEOREM TypeCorrect == Spec => []TypeOK
<1>1. IInv => TypeOK
  BY DEF IInv
<1> QED BY InitInv, NextInv, <1>1, PTL DEF Spec

\* A running pairing timer belongs to a host key that is down on the transport of
\* that key, unless the transport has changed since the key went down, for every
\* set of hosts and every order of keys, switch and time.
THEOREM PairingIsAsked == Spec => []PairingAsked
<1>1. IInv => PairingAsked
  BY DEF IInv
<1> QED BY InitInv, NextInv, <1>1, PTL DEF Spec
=============================================================================
