------------------------- MODULE WirelessLinkProofs -------------------------
(***************************************************************************)
(* Proofs about WirelessLink for every set of hosts and every size of the  *)
(* event ring.                                                             *)
(***************************************************************************)
EXTENDS WirelessLink, TLAPS

-----------------------------------------------------------------------------
(* Sequences of events *)

\* No event of q is about the link.
NoLink(q) == \A i \in 1..Len(q) : q[i].type \notin Links

\* The last event of q about the link is e.
Ends(q, e) ==
    \E i \in 1..Len(q) : q[i] = e /\ \A j \in 1..Len(q) : j > i => q[j].type \notin Links

\* After a reset there is an event about the link.
Resets(q) ==
    \A i \in 1..Len(q) : q[i].type = "reset" =>
        \E j \in 1..Len(q) : j > i /\ q[j].type \in Links

\* Elements of a concatenation.
LEMMA ConcatFacts ==
    ASSUME NEW q \in Seq(Event), NEW r \in Seq(Event)
    PROVE  /\ q \o r \in Seq(Event)
           /\ Len(q \o r) = Len(q) + Len(r)
           /\ \A i \in 1..Len(q) : (q \o r)[i] = q[i]
           /\ \A i \in 1..Len(r) : (q \o r)[Len(q) + i] = r[i]
           /\ \A i \in 1..Len(q \o r) : i <= Len(q) \/ i - Len(q) \in 1..Len(r)
           /\ \A i \in 1..Len(q \o r) : i > Len(q) => (q \o r)[i] = r[i - Len(q)]
  OBVIOUS

\* The last event about the link is that of the second sequence, or of the first
\* if the second has none.
LEMMA EndsConcat ==
    ASSUME NEW q \in Seq(Event), NEW r \in Seq(Event), NEW e \in Event
    PROVE  /\ Ends(r, e) => Ends(q \o r, e)
           /\ NoLink(r) /\ Ends(q, e) => Ends(q \o r, e)
           /\ NoLink(r) /\ NoLink(q) => NoLink(q \o r)
<1> DEFINE s == q \o r
<1>1. /\ s \in Seq(Event) /\ Len(s) = Len(q) + Len(r)
      /\ \A i \in 1..Len(q) : s[i] = q[i]
      /\ \A i \in 1..Len(r) : s[Len(q) + i] = r[i]
      /\ \A i \in 1..Len(s) : i <= Len(q) \/ i - Len(q) \in 1..Len(r)
      /\ \A i \in 1..Len(s) : i > Len(q) => s[i] = r[i - Len(q)]
  BY ConcatFacts
<1>2. Len(q) \in Nat /\ Len(r) \in Nat /\ Len(s) \in Nat
  BY <1>1
<1> HIDE DEF s
<1>3. ASSUME Ends(r, e) PROVE Ends(s, e)
  <2>1. PICK i \in 1..Len(r) : r[i] = e /\ \A j \in 1..Len(r) : j > i => r[j].type \notin Links
    BY <1>3 DEF Ends
  <2>2. Len(q) + i \in 1..Len(s) /\ s[Len(q) + i] = e
    BY <1>1, <1>2, <2>1
  <2>3. ASSUME NEW j \in 1..Len(s), j > Len(q) + i PROVE s[j].type \notin Links
    <3>1. j - Len(q) \in 1..Len(r) /\ j - Len(q) > i /\ s[j] = r[j - Len(q)]
      BY <1>1, <1>2, <2>3
    <3> QED BY <3>1, <2>1
  <2> QED BY <2>2, <2>3 DEF Ends
<1>4. ASSUME NoLink(r), Ends(q, e) PROVE Ends(s, e)
  <2>1. PICK i \in 1..Len(q) : q[i] = e /\ \A j \in 1..Len(q) : j > i => q[j].type \notin Links
    BY <1>4 DEF Ends
  <2>2. i \in 1..Len(s) /\ s[i] = e
    BY <1>1, <1>2, <2>1
  <2>3. ASSUME NEW j \in 1..Len(s), j > i PROVE s[j].type \notin Links
    <3>1. CASE j \in 1..Len(q)
      BY <3>1, <2>1, <2>3, <1>1
    <3>2. CASE j > Len(q)
      <4>1. j - Len(q) \in 1..Len(r) /\ s[j] = r[j - Len(q)]
        BY <3>2, <1>1, <1>2
      <4> QED BY <4>1, <1>4 DEF NoLink
    <3> QED BY <3>1, <3>2, <1>2
  <2> QED BY <2>2, <2>3 DEF Ends
<1>5. ASSUME NoLink(r), NoLink(q) PROVE NoLink(s)
  <2>1. ASSUME NEW j \in 1..Len(s) PROVE s[j].type \notin Links
    <3>1. CASE j \in 1..Len(q)
      BY <3>1, <1>1, <1>5 DEF NoLink
    <3>2. CASE j > Len(q)
      <4>1. j - Len(q) \in 1..Len(r) /\ s[j] = r[j - Len(q)]
        BY <3>2, <1>1, <1>2
      <4> QED BY <4>1, <1>5 DEF NoLink
    <3> QED BY <3>1, <3>2, <1>2
  <2> QED BY <2>1 DEF NoLink
<1> QED BY <1>3, <1>4, <1>5 DEF s

\* Resets are followed by an event about the link in a concatenation, too.
LEMMA ResetsConcat ==
    ASSUME NEW q \in Seq(Event), NEW r \in Seq(Event), NEW e \in Event, e.type \in Links,
           Resets(r), Resets(q) \/ Ends(r, e)
    PROVE  Resets(q \o r)
<1> DEFINE s == q \o r
<1>1. /\ s \in Seq(Event) /\ Len(s) = Len(q) + Len(r)
      /\ \A i \in 1..Len(q) : s[i] = q[i]
      /\ \A i \in 1..Len(r) : s[Len(q) + i] = r[i]
      /\ \A i \in 1..Len(s) : i <= Len(q) \/ i - Len(q) \in 1..Len(r)
      /\ \A i \in 1..Len(s) : i > Len(q) => s[i] = r[i - Len(q)]
  BY ConcatFacts
<1>2. Len(q) \in Nat /\ Len(r) \in Nat /\ Len(s) \in Nat
  BY <1>1
<1> HIDE DEF s
<1>3. ASSUME NEW i \in 1..Len(s), s[i].type = "reset"
      PROVE  \E j \in 1..Len(s) : j > i /\ s[j].type \in Links
  <2>1. CASE i > Len(q)
    <3>1. i - Len(q) \in 1..Len(r) /\ s[i] = r[i - Len(q)]
      BY <2>1, <1>1, <1>2
    <3>2. PICK j \in 1..Len(r) : j > i - Len(q) /\ r[j].type \in Links
      BY <3>1, <1>3 DEF Resets
    <3>3. Len(q) + j \in 1..Len(s) /\ Len(q) + j > i /\ s[Len(q) + j].type \in Links
      BY <3>2, <1>1, <1>2
    <3> QED BY <3>3
  <2>2. CASE i \in 1..Len(q) /\ Resets(q)
    <3>1. PICK j \in 1..Len(q) : j > i /\ q[j].type \in Links
      BY <2>2, <1>1, <1>3 DEF Resets
    <3>2. j \in 1..Len(s) /\ s[j].type \in Links
      BY <3>1, <1>1, <1>2
    <3> QED BY <3>1, <3>2
  <2>3. CASE i \in 1..Len(q) /\ Ends(r, e)
    <3>1. PICK j \in 1..Len(r) : r[j] = e
      BY <2>3 DEF Ends
    <3>2. Len(q) + j \in 1..Len(s) /\ Len(q) + j > i /\ s[Len(q) + j] = e
      BY <3>1, <2>3, <1>1, <1>2
    <3> QED BY <3>2
  <2> QED BY <2>1, <2>2, <2>3, <1>2
<1> QED BY <1>3 DEF Resets, s

\* What is left of a sequence when the first n events are dropped.
LEMMA DroppedFacts ==
    ASSUME NEW q \in Seq(Event), NEW n \in 0..Len(q)
    PROVE  LET t == SubSeq(q, n + 1, Len(q))
           IN  /\ t \in Seq(Event) /\ Len(t) = Len(q) - n
               /\ \A i \in 1..Len(t) : t[i] = q[n + i]
  OBVIOUS

\* The last event about the link stays, or is among the dropped ones.
LEMMA EndsDropped ==
    ASSUME NEW q \in Seq(Event), NEW n \in 0..Len(q), NEW e \in Event, e.type \in Links
    PROVE  LET t == SubSeq(q, n + 1, Len(q))
           IN  /\ Ends(q, e) => \/ Ends(t, e)
                                \/ NoLink(t) /\ \E i \in 1..n : q[i].type \in Links
               /\ NoLink(q) => NoLink(t)
               /\ Resets(q) => Resets(t)
<1> DEFINE t == SubSeq(q, n + 1, Len(q))
<1>1. t \in Seq(Event) /\ Len(t) = Len(q) - n /\ \A i \in 1..Len(t) : t[i] = q[n + i]
  BY DroppedFacts
<1>2. Len(q) \in Nat /\ n \in Nat /\ Len(t) \in Nat
  BY <1>1
<1> HIDE DEF t
<1>3. ASSUME Ends(q, e)
      PROVE  Ends(t, e) \/ (NoLink(t) /\ \E i \in 1..n : q[i].type \in Links)
  <2>1. PICK i \in 1..Len(q) : q[i] = e /\ \A j \in 1..Len(q) : j > i => q[j].type \notin Links
    BY <1>3 DEF Ends
  <2>2. CASE i > n
    <3>1. i - n \in 1..Len(t) /\ t[i - n] = e
      BY <2>1, <2>2, <1>1, <1>2
    <3>2. ASSUME NEW j \in 1..Len(t), j > i - n PROVE t[j].type \notin Links
      <4>1. n + j \in 1..Len(q) /\ n + j > i /\ t[j] = q[n + j]
        BY <3>2, <1>1, <1>2
      <4> QED BY <4>1, <2>1
    <3> QED BY <3>1, <3>2 DEF Ends
  <2>3. CASE i <= n
    <3>1. i \in 1..n /\ q[i].type \in Links
      BY <2>1, <2>3, <1>2
    <3>2. ASSUME NEW j \in 1..Len(t) PROVE t[j].type \notin Links
      <4>1. n + j \in 1..Len(q) /\ n + j > i /\ t[j] = q[n + j]
        BY <2>3, <1>1, <1>2
      <4> QED BY <4>1, <2>1
    <3> QED BY <3>1, <3>2 DEF NoLink
  <2> QED BY <2>2, <2>3, <1>2
<1>4. ASSUME NoLink(q) PROVE NoLink(t)
  <2>1. ASSUME NEW j \in 1..Len(t) PROVE t[j].type \notin Links
    <3>1. n + j \in 1..Len(q) /\ t[j] = q[n + j]
      BY <1>1, <1>2
    <3> QED BY <3>1, <1>4 DEF NoLink
  <2> QED BY <2>1 DEF NoLink
<1>5. ASSUME Resets(q) PROVE Resets(t)
  <2>1. ASSUME NEW i \in 1..Len(t), t[i].type = "reset"
        PROVE  \E j \in 1..Len(t) : j > i /\ t[j].type \in Links
    <3>1. n + i \in 1..Len(q) /\ q[n + i].type = "reset"
      BY <2>1, <1>1, <1>2
    <3>2. PICK k \in 1..Len(q) : k > n + i /\ q[k].type \in Links
      BY <3>1, <1>5 DEF Resets
    <3>3. k - n \in 1..Len(t) /\ k - n > i /\ t[k - n] = q[k]
      BY <3>2, <1>1, <1>2
    <3> QED BY <3>2, <3>3
  <2> QED BY <2>1 DEF Resets
<1> QED BY <1>3, <1>4, <1>5 DEF t

\* Taking the first event: it is the last one about the link, or that one stays.
LEMMA EndsTail ==
    ASSUME NEW q \in Seq(Event), q # <<>>, NEW e \in Event, e.type \in Links
    PROVE  /\ Tail(q) \in Seq(Event) /\ Len(Tail(q)) = Len(q) - 1 /\ Head(q) \in Event
           /\ Ends(q, e) => Ends(Tail(q), e) \/ (NoLink(Tail(q)) /\ Head(q) = e)
           /\ NoLink(q) => NoLink(Tail(q)) /\ Head(q).type \notin Links
           /\ Resets(q) => Resets(Tail(q))
           /\ Resets(q) /\ Head(q).type = "reset" => ~NoLink(q) /\ ~NoLink(Tail(q))
<1> DEFINE t == Tail(q)
<1>1. /\ t \in Seq(Event) /\ Len(t) = Len(q) - 1 /\ Head(q) = q[1] /\ q[1] \in Event
      /\ \A i \in 1..Len(t) : t[i] = q[i + 1]
  OBVIOUS
<1>2. Len(q) \in Nat /\ Len(t) \in Nat /\ 1 \in 1..Len(q)
  BY <1>1
<1> HIDE DEF t
<1>3. ASSUME Ends(q, e) PROVE Ends(t, e) \/ (NoLink(t) /\ q[1] = e)
  <2>1. PICK i \in 1..Len(q) : q[i] = e /\ \A j \in 1..Len(q) : j > i => q[j].type \notin Links
    BY <1>3 DEF Ends
  <2>2. CASE i > 1
    <3>1. i - 1 \in 1..Len(t) /\ t[i - 1] = e
      BY <2>1, <2>2, <1>1, <1>2
    <3>2. ASSUME NEW j \in 1..Len(t), j > i - 1 PROVE t[j].type \notin Links
      <4>1. j + 1 \in 1..Len(q) /\ j + 1 > i /\ t[j] = q[j + 1]
        BY <3>2, <1>1, <1>2
      <4> QED BY <4>1, <2>1
    <3> QED BY <3>1, <3>2 DEF Ends
  <2>3. CASE i = 1
    <3>1. ASSUME NEW j \in 1..Len(t) PROVE t[j].type \notin Links
      <4>1. j + 1 \in 1..Len(q) /\ j + 1 > i /\ t[j] = q[j + 1]
        BY <2>3, <1>1, <1>2
      <4> QED BY <4>1, <2>1
    <3> QED BY <3>1, <2>1, <2>3 DEF NoLink
  <2> QED BY <2>2, <2>3, <1>2
<1>4. ASSUME NoLink(q) PROVE NoLink(t) /\ q[1].type \notin Links
  <2>1. ASSUME NEW j \in 1..Len(t) PROVE t[j].type \notin Links
    <3>1. j + 1 \in 1..Len(q) /\ t[j] = q[j + 1]
      BY <1>1, <1>2
    <3> QED BY <3>1, <1>4 DEF NoLink
  <2> QED BY <2>1, <1>2, <1>4 DEF NoLink
<1>5. ASSUME Resets(q) PROVE Resets(t)
  <2>1. ASSUME NEW i \in 1..Len(t), t[i].type = "reset"
        PROVE  \E j \in 1..Len(t) : j > i /\ t[j].type \in Links
    <3>1. i + 1 \in 1..Len(q) /\ q[i + 1].type = "reset"
      BY <2>1, <1>1, <1>2
    <3>2. PICK k \in 1..Len(q) : k > i + 1 /\ q[k].type \in Links
      BY <3>1, <1>5 DEF Resets
    <3>3. k - 1 \in 1..Len(t) /\ k - 1 > i /\ t[k - 1] = q[k]
      BY <3>2, <1>1, <1>2
    <3> QED BY <3>2, <3>3
  <2> QED BY <2>1 DEF Resets
<1>6. ASSUME Resets(q), q[1].type = "reset" PROVE ~NoLink(q) /\ ~NoLink(t)
  <2>1. PICK k \in 1..Len(q) : k > 1 /\ q[k].type \in Links
    BY <1>6, <1>2 DEF Resets
  <2>2. k - 1 \in 1..Len(t) /\ t[k - 1] = q[k]
    BY <2>1, <1>1, <1>2
  <2> QED BY <2>1, <2>2 DEF NoLink
<1> QED BY <1>1, <1>3, <1>4, <1>5, <1>6 DEF t

-----------------------------------------------------------------------------
(* The invariant *)

\* The module's present state, as an event
LinkEvent == [type |-> mod.link, host |-> mod.host]

\* What is not reported yet, or waits in the ring, brings the firmware to the
\* module's state; when nothing does, they agree, or an event was dropped.
LinkInv ==
    /\ "reset" \in pend => "link" \in pend
    /\ Resets(queue)
    /\ "link" \notin pend =>
          \/ Ends(queue, LinkEvent)
          \/ NoLink(queue) /\ (missed \/ Agrees)

IInv == TypeOK /\ LinkInv

\* The event that a packet makes of the state is an event about the link.
LEMMA LinkEventType ==
    ASSUME TypeOK PROVE LinkEvent \in Event /\ LinkEvent.type \in Links
  BY DEF TypeOK, LinkEvent, Event

\* A packet has at most one event about the link, with only other events after it.
LEMMA PacketFacts ==
    ASSUME TypeOK, "reset" \in pend => "link" \in pend
    PROVE  /\ Packet \in Seq(Event) /\ Resets(Packet)
           /\ "link" \in pend => Ends(Packet, LinkEvent)
           /\ "link" \notin pend => NoLink(Packet)
<1> DEFINE A == Part("reset", "reset")
           B == Part("link", mod.link)
           C == Part("led", "led")
<1>1. LinkEvent \in Event /\ LinkEvent.type \in Links
  BY LinkEventType
<1>2. /\ [type |-> "reset", host |-> mod.host] \in Event
      /\ [type |-> "led", host |-> mod.host] \in Event
  BY DEF TypeOK, Event
<1>3. /\ A \in Seq(Event) /\ NoLink(A)
      /\ "reset" \notin pend => Resets(A)
  BY <1>2 DEF Part, NoLink, Resets, Links
<1>4. /\ B \in Seq(Event) /\ Resets(B)
      /\ "link" \in pend => Ends(B, LinkEvent)
      /\ "link" \notin pend => NoLink(B)
  <2>1. CASE "link" \in pend
    <3>1. B = <<LinkEvent>>
      BY <2>1 DEF Part, LinkEvent
    <3>2. LinkEvent.type # "reset"
      BY <1>1 DEF Links
    <3> HIDE DEF B
    <3>3. B \in Seq(Event) /\ Len(B) = 1 /\ B[1] = LinkEvent
      BY <3>1, <1>1
    <3>4. \A i \in 1..Len(B) : i = 1
      BY <3>3
    <3>5. Resets(B)
      BY <3>2, <3>3, <3>4 DEF Resets
    <3>6. Ends(B, LinkEvent)
      BY <3>3, <3>4 DEF Ends
    <3> QED BY <2>1, <3>3, <3>5, <3>6
  <2>2. CASE "link" \notin pend
    BY <2>2 DEF Part, NoLink, Resets
  <2> QED BY <2>1, <2>2
<1>5. C \in Seq(Event) /\ NoLink(C) /\ Resets(C)
  BY <1>2 DEF Part, NoLink, Resets, Links
<1> HIDE DEF A, B, C
<1>6. A \o B \in Seq(Event)
  BY <1>3, <1>4, ConcatFacts
<1>7. (A \o B) \o C \in Seq(Event)
  BY <1>6, <1>5, ConcatFacts
<1>8. Resets(A \o B)
  BY <1>1, <1>3, <1>4, ResetsConcat
<1>9. Resets((A \o B) \o C)
  BY <1>1, <1>5, <1>6, <1>8, ResetsConcat
<1>10. "link" \in pend => Ends((A \o B) \o C, LinkEvent)
  <2>1. "link" \in pend => Ends(A \o B, LinkEvent)
    BY <1>1, <1>3, <1>4, EndsConcat
  <2> QED BY <2>1, <1>1, <1>5, <1>6, EndsConcat
<1>11. "link" \notin pend => NoLink((A \o B) \o C)
  <2>1. "link" \notin pend => NoLink(A \o B)
    BY <1>1, <1>3, <1>4, EndsConcat
  <2> QED BY <2>1, <1>1, <1>5, <1>6, EndsConcat
<1>12. Packet = (A \o B) \o C
  BY DEF Packet, A, B, C
<1> QED BY <1>7, <1>9, <1>10, <1>11, <1>12

\* Commands to the module are always reported.
LEMMA CommandFacts ==
    ASSUME TypeOK
    PROVE  /\ \A h \in Hosts \cup {0, LastHost} : ModuleConnect(h) =>
                 mod' \in [link : Links, host : Hosts] /\ pend' = pend \cup {"link"}
           /\ \A h \in Hosts : ModulePair(h) =>
                 mod' \in [link : Links, host : Hosts] /\ pend' = pend \cup {"link"}
           /\ ModuleDisconnect =>
                 /\ mod' \in [link : Links, host : Hosts]
                 /\ \/ pend' = pend \cup {"link"}
                    \/ UNCHANGED <<mod, pend>>
<1>1. mod \in [link : Links, host : Hosts] /\ mod.host \in Hosts
  BY DEF TypeOK
<1>2. ASSUME NEW g \in Hosts, NEW k \in Links, Reports(k, g)
      PROVE  mod' \in [link : Links, host : Hosts] /\ pend' = pend \cup {"link"}
  BY <1>2 DEF Reports
<1>3. {"reconnecting", "discoverable", "disconnected"} \subseteq Links
  BY DEF Links
<1>4. ASSUME NEW h \in Hosts \cup {0, LastHost}, ModuleConnect(h)
      PROVE  mod' \in [link : Links, host : Hosts] /\ pend' = pend \cup {"link"}
  BY <1>2, <1>3, <1>4 DEF ModuleConnect
<1>5. ASSUME NEW h \in Hosts, ModulePair(h)
      PROVE  mod' \in [link : Links, host : Hosts] /\ pend' = pend \cup {"link"}
  BY <1>2, <1>3, <1>5 DEF ModulePair
<1>6. ASSUME ModuleDisconnect
      PROVE  /\ mod' \in [link : Links, host : Hosts]
             /\ pend' = pend \cup {"link"} \/ UNCHANGED <<mod, pend>>
  BY <1>1, <1>2, <1>3, <1>6 DEF ModuleDisconnect
<1> QED BY <1>4, <1>5, <1>6

\* A step that leaves the ring alone keeps the invariant when it is to be
\* reported, or when nothing about the link changes.
LEMMA ReportedKeeps ==
    ASSUME LinkInv, UNCHANGED <<queue, missed>>,
           \/ "link" \in pend'
           \/ UNCHANGED <<wireless_state, host_index, mod>> /\ pend' \ {"led"} = pend \ {"led"}
    PROVE  LinkInv'
<1>1. CASE "link" \in pend'
  BY <1>1 DEF LinkInv
<1>2. CASE UNCHANGED <<wireless_state, host_index, mod>> /\ pend' \ {"led"} = pend \ {"led"}
  <2>1. ("link" \in pend' <=> "link" \in pend) /\ ("reset" \in pend' <=> "reset" \in pend)
    BY <1>2
  <2>2. LinkEvent' = LinkEvent /\ Agrees' = Agrees
    BY <1>2 DEF LinkEvent, Agrees
  <2> QED BY <2>1, <2>2 DEF LinkInv
<1> QED BY <1>1, <1>2

\* Reading a packet: the ring keeps its size, and what is dropped is noticed.
LEMMA ReadKeeps ==
    ASSUME IInv, ReadPacket
    PROVE  /\ queue' \in Seq(Event) /\ Len(queue') < QueueSize
           /\ LinkInv'
<1> DEFINE all     == queue \o Packet
           surplus == Len(all) - (QueueSize - 1)
<1>1. LinkEvent \in Event /\ LinkEvent.type \in Links
  BY LinkEventType DEF IInv
<1>2. /\ Packet \in Seq(Event) /\ Resets(Packet)
      /\ "link" \in pend => Ends(Packet, LinkEvent)
      /\ "link" \notin pend => NoLink(Packet)
  BY PacketFacts DEF IInv, LinkInv
<1>3. queue \in Seq(Event) /\ missed \in BOOLEAN /\ QueueSize \in Nat /\ QueueSize >= 2
  BY LinkAssumption DEF IInv, TypeOK
<1>4. Resets(queue)
  BY DEF IInv, LinkInv
<1>5. all \in Seq(Event) /\ Len(all) \in Nat
  BY <1>2, <1>3, ConcatFacts
<1>6. Resets(all)
  BY <1>1, <1>2, <1>3, <1>4, ResetsConcat
<1>7. Ends(all, LinkEvent) \/ (NoLink(all) /\ (missed \/ Agrees))
  <2>1. CASE "link" \in pend
    BY <2>1, <1>1, <1>2, <1>3, EndsConcat
  <2>2. CASE "link" \notin pend
    <3>1. Ends(queue, LinkEvent) \/ (NoLink(queue) /\ (missed \/ Agrees))
      BY <2>2 DEF IInv, LinkInv
    <3>2. Ends(queue, LinkEvent) => Ends(all, LinkEvent)
      BY <2>2, <1>1, <1>2, <1>3, EndsConcat
    <3>3. NoLink(queue) => NoLink(all)
      BY <2>2, <1>1, <1>2, <1>3, EndsConcat
    <3> QED BY <3>1, <3>2, <3>3
  <2> QED BY <2>1, <2>2
<1>8. /\ pend' = {} /\ UNCHANGED <<wireless_state, host_index, mod>>
      /\ queue' = IF surplus > 0 THEN Enqueued(all) ELSE all
      /\ missed' = (missed \/ \E i \in 1..surplus : all[i].type # "led")
  BY DEF ReadPacket
<1>9. LinkEvent' = LinkEvent /\ Agrees' = Agrees
  BY <1>8 DEF LinkEvent, Agrees
<1> HIDE DEF all
<1>10. CASE surplus > 0
  <2>1. surplus \in 0..Len(all) /\ Len(all) - QueueSize + 2 = surplus + 1
    BY <1>10, <1>5, <1>3
  <2>2. queue' = SubSeq(all, surplus + 1, Len(all))
    BY <1>8, <1>10, <2>1 DEF Enqueued
  <2> DEFINE n == surplus
  <2>3. n \in 0..Len(all) /\ Len(all) - n < QueueSize
    BY <2>1, <1>5, <1>3
  <2>4. queue' = SubSeq(all, n + 1, Len(all))
    BY <2>2
  <2>5. missed' = (missed \/ \E i \in 1..n : all[i].type # "led")
    BY <1>8
  <2> HIDE DEF n
  <2>6. queue' \in Seq(Event) /\ Len(queue') = Len(all) - n
    BY <2>3, <2>4, <1>5, DroppedFacts
  <2>7. /\ Ends(all, LinkEvent) => \/ Ends(queue', LinkEvent)
                                   \/ NoLink(queue') /\ \E i \in 1..n : all[i].type \in Links
        /\ NoLink(all) => NoLink(queue')
        /\ Resets(queue')
    BY <2>3, <2>4, <1>1, <1>5, <1>6, EndsDropped
  <2>8. (\E i \in 1..n : all[i].type \in Links) => missed'
    <3>1. "led" \notin Links
      BY DEF Links
    <3> QED BY <3>1, <2>5, <1>3
  <2>9. missed => missed'
    BY <2>5
  <2>10. Ends(queue', LinkEvent) \/ (NoLink(queue') /\ (missed' \/ Agrees))
    BY <1>7, <2>7, <2>8, <2>9
  <2>11. LinkInv'
    <3>1. Resets(queue)' /\ "reset" \notin pend'
      BY <2>7, <1>8 DEF Resets
    <3>2. Ends(queue', LinkEvent') \/ (NoLink(queue') /\ (missed' \/ Agrees'))
      BY <2>10, <1>9
    <3> QED BY <3>1, <3>2 DEF LinkInv, Ends, NoLink
  <2> QED BY <2>3, <2>6, <2>11
<1>11. CASE ~(surplus > 0)
  <2>1. queue' = all /\ Len(all) < QueueSize
    BY <1>8, <1>11, <1>5, <1>3
  <2>2. missed => missed'
    BY <1>8
  <2>3. Ends(queue', LinkEvent') \/ (NoLink(queue') /\ (missed' \/ Agrees'))
    BY <1>7, <1>9, <2>1, <2>2
  <2>4. Resets(queue') /\ "reset" \notin pend'
    BY <1>6, <1>8, <2>1
  <2>5. LinkInv'
    BY <2>3, <2>4 DEF LinkInv, Ends, NoLink, Resets
  <2> QED BY <1>5, <2>1, <2>5
<1> QED BY <1>10, <1>11

\* Handling an event: the last one about the link makes the two agree.
LEMMA HandleKeeps ==
    ASSUME IInv, HandleEvent
    PROVE  /\ queue' \in Seq(Event) /\ Len(queue') < QueueSize
           /\ wireless_state' \in States /\ host_index' \in Hosts \cup {0, LastHost}
           /\ mod' \in [link : Links, host : Hosts] /\ pend' \subseteq {"reset", "link", "led"}
           /\ firstDisconnect' \in BOOLEAN /\ missed' \in BOOLEAN
           /\ UNCHANGED <<critical, transport>>
           /\ LinkInv'
<1> DEFINE e == Head(queue)
<1>1. LinkEvent \in Event /\ LinkEvent.type \in Links
  BY LinkEventType DEF IInv
<1>2. /\ queue \in Seq(Event) /\ Len(queue) < QueueSize /\ queue # <<>>
      /\ queue' = Tail(queue) /\ missed' = (missed /\ e.type \notin Links)
      /\ UNCHANGED <<critical, transport>>
  BY DEF IInv, TypeOK, HandleEvent
<1>3. /\ Tail(queue) \in Seq(Event) /\ Len(Tail(queue)) = Len(queue) - 1 /\ e \in Event
      /\ Ends(queue, LinkEvent) =>
            Ends(Tail(queue), LinkEvent) \/ (NoLink(Tail(queue)) /\ e = LinkEvent)
      /\ NoLink(queue) => NoLink(Tail(queue)) /\ e.type \notin Links
      /\ Resets(queue) => Resets(Tail(queue))
      /\ Resets(queue) /\ e.type = "reset" => ~NoLink(queue) /\ ~NoLink(Tail(queue))
  BY <1>1, <1>2, EndsTail
<1>4. queue' \in Seq(Event) /\ Len(queue') < QueueSize
  BY <1>2, <1>3, LinkAssumption
<1>5. /\ "reset" \in pend => "link" \in pend
      /\ Resets(queue)
      /\ "link" \notin pend => \/ Ends(queue, LinkEvent)
                               \/ NoLink(queue) /\ (missed \/ Agrees)
  BY DEF IInv, LinkInv
<1>6. Resets(queue')
  BY <1>2, <1>3, <1>5
<1>7. missed \in BOOLEAN /\ missed' \in BOOLEAN
  BY <1>2 DEF IInv, TypeOK
<1>8. /\ e.type \in {"reset", "led"} \cup Links /\ e.host \in Hosts
      /\ "reset" \notin Links /\ "led" \notin Links
  BY <1>3 DEF Event, Links
<1>9. /\ wireless_state \in States /\ host_index \in Hosts \cup {0, LastHost}
      /\ mod \in [link : Links, host : Hosts] /\ pend \subseteq {"reset", "link", "led"}
      /\ firstDisconnect \in BOOLEAN
  BY DEF IInv, TypeOK
<1> HIDE DEF e
<1>10. ASSUME UNCHANGED <<mod, pend>>, e.type \in Links, e = LinkEvent => Agrees'
       PROVE  LinkInv'
  <2>1. LinkEvent' = LinkEvent
    BY <1>10 DEF LinkEvent
  <2>2. "link" \notin pend => Ends(queue, LinkEvent)
    BY <1>3, <1>5, <1>10
  <2>3. "link" \notin pend => Ends(queue', LinkEvent) \/ (NoLink(queue') /\ Agrees')
    BY <1>2, <1>3, <1>10, <2>2
  <2>4. "link" \notin pend' => Ends(queue', LinkEvent') \/ (NoLink(queue') /\ Agrees')
    BY <1>10, <2>1, <2>3
  <2>5. "reset" \in pend' => "link" \in pend'
    BY <1>5, <1>10
  <2> QED BY <2>4, <2>5, <1>6 DEF LinkInv, Ends, NoLink, Resets
<1>11. CASE e.type = "reset" /\ SetState("reset")
  <2>1. wireless_state' = "reset" /\ UNCHANGED <<host_index, mod, pend, firstDisconnect>>
    BY <1>11 DEF SetState
  <2>2. "link" \notin pend => Ends(queue', LinkEvent)
    BY <1>2, <1>3, <1>5, <1>11
  <2>3. LinkEvent' = LinkEvent
    BY <2>1 DEF LinkEvent
  <2>4. "link" \notin pend' => Ends(queue', LinkEvent')
    BY <2>1, <2>2, <2>3
  <2>5. LinkInv'
    BY <2>1, <2>4, <1>5, <1>6 DEF LinkInv, Ends, NoLink, Resets
  <2> QED BY <2>1, <2>5, <1>2, <1>4, <1>7, <1>9 DEF States
<1>12. CASE e.type = "led" /\ SetState(wireless_state)
  <2>1. UNCHANGED <<wireless_state, host_index, mod, pend, firstDisconnect>>
    BY <1>12 DEF SetState
  <2>2. missed' = missed
    BY <1>2, <1>7, <1>8, <1>12
  <2>3. LinkEvent' = LinkEvent /\ Agrees' = Agrees
    BY <2>1 DEF LinkEvent, Agrees
  <2>4. e # LinkEvent
    BY <1>1, <1>8, <1>12
  <2>5. "link" \notin pend => Ends(queue', LinkEvent) \/ (NoLink(queue') /\ (missed \/ Agrees))
    BY <1>2, <1>3, <1>5, <2>4
  <2>6. "link" \notin pend' => Ends(queue', LinkEvent') \/ (NoLink(queue') /\ (missed' \/ Agrees'))
    BY <2>1, <2>2, <2>3, <2>5
  <2>7. LinkInv'
    BY <2>1, <2>6, <1>5, <1>6 DEF LinkInv, Ends, NoLink, Resets
  <2> QED BY <2>1, <2>7, <1>2, <1>4, <1>7, <1>9
<1>13. ASSUME NEW s \in {"connected", "pairing", "reconnecting"}, EnterState(s, e.host),
              e.type \in Links, s \in StateOf(e.type)
       PROVE  /\ wireless_state' \in States /\ host_index' \in Hosts
              /\ UNCHANGED <<mod, pend, firstDisconnect>> /\ LinkInv'
  <2>1. wireless_state' = s /\ host_index' = e.host /\ UNCHANGED <<mod, pend, firstDisconnect>>
    BY <1>13 DEF EnterState
  <2>2. e = LinkEvent => e.type = mod.link /\ e.host = mod.host
    BY DEF LinkEvent
  <2>3. e = LinkEvent => Agrees'
    BY <1>13, <2>1, <2>2 DEF Agrees
  <2>4. LinkInv'
    BY <1>10, <1>13, <2>1, <2>3
  <2> QED BY <2>1, <2>4, <1>8 DEF States
<1>14. /\ "connected" \in StateOf("connected") /\ "pairing" \in StateOf("discoverable")
       /\ "reconnecting" \in StateOf("reconnecting") /\ "suspend" \in StateOf("sleep")
       /\ "disconnected" \in StateOf("disconnected")
  BY DEF StateOf
<1>15. CASE e.type = "connected" /\ EnterState("connected", e.host)
  BY <1>15, <1>13, <1>14, <1>2, <1>4, <1>7, <1>9 DEF Links
<1>16. CASE e.type = "discoverable" /\ EnterState("pairing", e.host)
  BY <1>16, <1>13, <1>14, <1>2, <1>4, <1>7, <1>9 DEF Links
<1>17. CASE e.type = "reconnecting" /\ EnterState("reconnecting", e.host)
  BY <1>17, <1>13, <1>14, <1>2, <1>4, <1>7, <1>9 DEF Links
<1>18. ASSUME NEW s \in {"suspend", "disconnected"}, wireless_state' = s,
              UNCHANGED <<host_index, mod, pend>>, e.type \in {"sleep", "disconnected"},
              s \in StateOf(e.type)
       PROVE  LinkInv'
  <2>1. e = LinkEvent => e.type = mod.link
    BY DEF LinkEvent
  <2>2. e = LinkEvent => Agrees'
    BY <1>18, <2>1 DEF Agrees
  <2>3. e.type \in Links
    BY <1>18 DEF Links
  <2> QED BY <1>10, <1>18, <2>2, <2>3
<1>19. CASE e.type = "sleep" /\ SetState("suspend")
  <2>1. wireless_state' = "suspend" /\ UNCHANGED <<host_index, mod, pend, firstDisconnect>>
    BY <1>19 DEF SetState
  <2>2. LinkInv'
    BY <1>14, <1>18, <1>19, <2>1
  <2> QED BY <2>1, <2>2, <1>2, <1>4, <1>7, <1>9 DEF States
<1>20. CASE e.type = "disconnected" /\ EnterDisconnected
  <2>1. CASE firstDisconnect /\ transport = "bt" /\ ~critical
    <3>1. /\ ModuleConnect(0) /\ wireless_state' = "reconnecting"
          /\ UNCHANGED host_index /\ firstDisconnect' = FALSE
      BY <1>20, <2>1 DEF EnterDisconnected
    <3>2. mod' \in [link : Links, host : Hosts] /\ pend' = pend \cup {"link"}
      BY <3>1, CommandFacts DEF IInv
    <3>3. LinkInv'
      BY <3>2, <1>6 DEF LinkInv, Resets
    <3> QED BY <3>1, <3>2, <3>3, <1>2, <1>4, <1>7, <1>9 DEF States
  <2>2. CASE ~(firstDisconnect /\ transport = "bt" /\ ~critical)
    <3>1. /\ wireless_state' = "disconnected" /\ UNCHANGED <<host_index, mod, pend>>
          /\ firstDisconnect' \in BOOLEAN
      BY <1>20, <2>2, <1>9 DEF EnterDisconnected
    <3>2. LinkInv'
      BY <1>14, <1>18, <1>20, <3>1
    <3> QED BY <3>1, <3>2, <1>2, <1>4, <1>7, <1>9 DEF States
  <2> QED BY <2>1, <2>2
<1>21. \/ e.type = "reset"        /\ SetState("reset")
       \/ e.type = "connected"    /\ EnterState("connected", e.host)
       \/ e.type = "discoverable" /\ EnterState("pairing", e.host)
       \/ e.type = "reconnecting" /\ EnterState("reconnecting", e.host)
       \/ e.type = "disconnected" /\ EnterDisconnected
       \/ e.type = "sleep"        /\ SetState("suspend")
       \/ e.type = "led"          /\ SetState(wireless_state)
  BY DEF HandleEvent, e
<1> QED BY <1>11, <1>12, <1>15, <1>16, <1>17, <1>19, <1>20, <1>21

\* The variables about the link have their types, and a change is to be reported.
LinkStep ==
    /\ wireless_state' \in States /\ host_index' \in Hosts \cup {0, LastHost}
    /\ mod' \in [link : Links, host : Hosts] /\ pend' \subseteq {"reset", "link", "led"}
    /\ \/ "link" \in pend'
       \/ UNCHANGED <<wireless_state, host_index, mod>> /\ pend' \ {"led"} = pend \ {"led"}

\* Requests of the firmware to the module are such steps.
LEMMA RequestFacts ==
    ASSUME IInv
    PROVE  /\ Connect => LinkStep
           /\ \A h \in Hosts \cup {LastHost} : ConnectEx(h) => LinkStep
           /\ \A h \in Hosts : PairingEx(h) => LinkStep
           /\ Disconnect => LinkStep
           /\ UNCHANGED linkVars => LinkStep
<1>1. /\ wireless_state \in States /\ host_index \in Hosts \cup {0, LastHost}
      /\ mod \in [link : Links, host : Hosts] /\ pend \subseteq {"reset", "link", "led"}
  BY DEF IInv, TypeOK
<1>2. /\ \A h \in Hosts \cup {0, LastHost} : ModuleConnect(h) =>
            mod' \in [link : Links, host : Hosts] /\ pend' = pend \cup {"link"}
      /\ \A h \in Hosts : ModulePair(h) =>
            mod' \in [link : Links, host : Hosts] /\ pend' = pend \cup {"link"}
      /\ ModuleDisconnect =>
            /\ mod' \in [link : Links, host : Hosts]
            /\ pend' = pend \cup {"link"} \/ UNCHANGED <<mod, pend>>
  BY CommandFacts DEF IInv
<1>3. UNCHANGED linkVars => LinkStep
  BY <1>1 DEF linkVars, LinkStep
<1>4. Connect => LinkStep
  <2>1. ASSUME ModuleConnect(0), wireless_state' = "reconnecting", UNCHANGED host_index
        PROVE  LinkStep
    BY <2>1, <1>1, <1>2 DEF LinkStep, States
  <2> QED BY <2>1, <1>3 DEF Connect
<1>5. ASSUME NEW h \in Hosts \cup {LastHost}, ConnectEx(h) PROVE LinkStep
  <2>1. ASSUME ModuleConnect(h), wireless_state' = "reconnecting", host_index' = h
        PROVE  LinkStep
    BY <2>1, <1>1, <1>2 DEF LinkStep, States
  <2> QED BY <2>1, <1>3, <1>5 DEF ConnectEx
<1>6. ASSUME NEW h \in Hosts, PairingEx(h) PROVE LinkStep
  <2>1. ASSUME ModulePair(h), wireless_state' = "pairing", host_index' = h
        PROVE  LinkStep
    BY <2>1, <1>1, <1>2 DEF LinkStep, States
  <2> QED BY <2>1, <1>3, <1>6 DEF PairingEx
<1>7. Disconnect => LinkStep
  BY <1>1, <1>2 DEF Disconnect, LinkStep
<1> QED BY <1>3, <1>4, <1>5, <1>6, <1>7

\* A step about the link alone keeps the invariant.
LEMMA LinkStepKeeps ==
    ASSUME IInv, LinkStep, UNCHANGED <<queue, missed>>,
           firstDisconnect' \in BOOLEAN, critical' \in BOOLEAN,
           transport' \in {"none", "usb", "bt", "p24g"}, pc' \in {"loop", "events", "sync"}
    PROVE  IInv'
<1>1. LinkInv'
  BY ReportedKeeps DEF IInv, LinkStep
<1>2. TypeOK'
  BY DEF IInv, TypeOK, LinkStep
<1> QED BY <1>1, <1>2 DEF IInv

\* The module's own steps are reported as well.
LEMMA ModuleStepFacts ==
    ASSUME IInv, \/ ModuleConnects \/ ModuleGivesUp \/ ModuleLosesLink \/ ModuleSleeps
                 \/ ModuleResets \/ ModuleChatters
    PROVE  LinkStep /\ UNCHANGED <<fwVars, pc>>
<1>1. /\ wireless_state \in States /\ host_index \in Hosts \cup {0, LastHost}
      /\ mod \in [link : Links, host : Hosts] /\ mod.host \in Hosts
      /\ pend \subseteq {"reset", "link", "led"}
  BY DEF IInv, TypeOK
<1>2. UNCHANGED <<wireless_state, host_index, fwVars, pc>>
  BY DEF ModuleConnects, ModuleGivesUp, ModuleLosesLink, ModuleSleeps, ModuleResets,
         ModuleChatters, OnlyModule
<1>3. ASSUME NEW k \in Links, Reports(k, mod.host) PROVE LinkStep
  <2>1. mod' \in [link : Links, host : Hosts] /\ pend' = pend \cup {"link"}
    BY <1>1, <1>3 DEF Reports
  <2> QED BY <2>1, <1>1, <1>2 DEF LinkStep
<1>4. ModuleResets => LinkStep
  <2>1. "disconnected" \in Links
    BY DEF Links
  <2>2. ASSUME ModuleResets
        PROVE  mod' \in [link : Links, host : Hosts] /\ pend' = pend \cup {"reset", "link"}
    BY <2>1, <2>2, <1>1 DEF ModuleResets
  <2> QED BY <2>2, <1>1, <1>2 DEF LinkStep
<1>5. ModuleChatters => LinkStep
  BY <1>1, <1>2 DEF ModuleChatters, LinkStep
<1>6. \/ \E k \in Links : Reports(k, mod.host)
      \/ ModuleResets \/ ModuleChatters
  BY DEF ModuleConnects, ModuleGivesUp, ModuleLosesLink, ModuleSleeps, Links
<1> QED BY <1>2, <1>3, <1>4, <1>5, <1>6

\* The initial states satisfy the invariant.
LEMMA InitInv == Init => IInv
<1> SUFFICES ASSUME Init PROVE IInv
  OBVIOUS
<1>1. queue = <<>> /\ Len(queue) = 0 /\ queue \in Seq(Event) /\ 0 < QueueSize
  BY LinkAssumption DEF Init
<1>2. mod \in [link : {"disconnected"}, host : BtHosts] /\ mod.link = "disconnected"
  BY DEF Init
<1>3. mod \in [link : Links, host : Hosts]
  BY <1>2 DEF Links, Hosts
<1>4. TypeOK
  BY <1>1, <1>3 DEF Init, TypeOK, States
<1>5. Agrees
  BY <1>2 DEF Init, Agrees, StateOf
<1>6. Resets(queue) /\ NoLink(queue)
  BY <1>1 DEF Resets, NoLink
<1>7. "reset" \in pend => "link" \in pend
  BY DEF Init
<1> QED BY <1>4, <1>5, <1>6, <1>7 DEF IInv, LinkInv

\* Every step keeps the invariant: one step per action.
LEMMA NextInv == IInv /\ [Next]_vars => IInv'
<1> SUFFICES ASSUME IInv, [Next]_vars PROVE IInv'
  OBVIOUS
<1> USE DEF IInv
<1>1. /\ firstDisconnect \in BOOLEAN /\ critical \in BOOLEAN /\ missed \in BOOLEAN
      /\ transport \in {"none", "usb", "bt", "p24g"} /\ pc \in {"loop", "events", "sync"}
  BY DEF TypeOK
<1>2. ASSUME LinkStep, UNCHANGED <<fwVars, pc>> PROVE IInv'
  BY <1>1, <1>2, LinkStepKeeps DEF fwVars
<1>3. ASSUME NEW k \in BOOLEAN, Send(k) PROVE IInv'
  BY <1>2, <1>3, RequestFacts DEF Send
<1>4. ASSUME NEW h \in BtHosts, SelectHost(h) PROVE IInv'
  <2>1. h \in Hosts \cup {LastHost}
    BY DEF Hosts
  <2> QED BY <2>1, <1>2, <1>4, RequestFacts DEF SelectHost
<1>5. ASSUME NEW h \in Hosts, Pair(h) PROVE IInv'
  BY <1>2, <1>5, RequestFacts DEF Pair
<1>6. ASSUME NEW t \in {"usb", "bt", "p24g"}, SetTransport(t) PROVE IInv'
  <2>1. LinkStep
    BY <1>6, RequestFacts DEF SetTransport
  <2> QED BY <2>1, <1>1, <1>6, LinkStepKeeps DEF SetTransport
<1>7. ASSUME BatteryCritical PROVE IInv'
  <2>1. LinkStep
    BY <1>7, RequestFacts DEF BatteryCritical
  <2> QED BY <2>1, <1>1, <1>7, LinkStepKeeps DEF BatteryCritical
<1>8. ASSUME BatteryCharged PROVE IInv'
  <2>1. LinkStep
    BY <1>8, RequestFacts DEF BatteryCharged
  <2> QED BY <2>1, <1>1, <1>8, LinkStepKeeps DEF BatteryCharged
<1>9. ASSUME StartOver PROVE IInv'
  <2>1. LinkStep
    BY <1>9, RequestFacts DEF StartOver
  <2> QED BY <2>1, <1>1, <1>9, LinkStepKeeps DEF StartOver
<1>10. ASSUME SyncEnd PROVE IInv'
  <2>1. P24G \in Hosts \cup {LastHost} /\ LastHost \in Hosts \cup {LastHost}
    BY DEF Hosts
  <2>2. LinkStep
    BY <1>10, <2>1, RequestFacts DEF SyncEnd
  <2>3. pc' = "loop" /\ UNCHANGED fwVars
    BY <1>10 DEF SyncEnd
  <2> QED BY <2>2, <2>3, <1>1, LinkStepKeeps DEF fwVars
<1>11. ASSUME ReadPacket, pc' \in {"loop", "events", "sync"} PROVE IInv'
  <2>1. queue' \in Seq(Event) /\ Len(queue') < QueueSize /\ LinkInv'
    BY <1>11, ReadKeeps
  <2>2. /\ pend' = {} /\ missed' \in BOOLEAN
        /\ UNCHANGED <<wireless_state, host_index, firstDisconnect, critical, transport, mod>>
    BY <1>1, <1>11 DEF ReadPacket
  <2>3. TypeOK'
    BY <2>1, <2>2, <1>11 DEF TypeOK
  <2> QED BY <2>1, <2>3
<1>12. ASSUME UNCHANGED <<linkVars, fwVars>>, pc' \in {"loop", "events", "sync"} PROVE IInv'
  <2>1. LinkStep
    BY <1>12, RequestFacts
  <2> QED BY <2>1, <1>1, <1>12, LinkStepKeeps DEF fwVars
<1>13. ASSUME WirelessTask PROVE IInv'
  BY <1>11, <1>12, <1>13 DEF WirelessTask
<1>14. ASSUME HandleEvent, UNCHANGED pc PROVE IInv'
  <2>1. /\ queue' \in Seq(Event) /\ Len(queue') < QueueSize
        /\ wireless_state' \in States /\ host_index' \in Hosts \cup {0, LastHost}
        /\ mod' \in [link : Links, host : Hosts] /\ pend' \subseteq {"reset", "link", "led"}
        /\ firstDisconnect' \in BOOLEAN /\ missed' \in BOOLEAN
        /\ UNCHANGED <<critical, transport>>
        /\ LinkInv'
    BY <1>14, HandleKeeps
  <2>2. TypeOK'
    BY <1>1, <1>14, <2>1 DEF TypeOK
  <2> QED BY <2>1, <2>2
<1>15. ASSUME EventTask PROVE IInv'
  BY <1>12, <1>14, <1>15 DEF EventTask
<1>16. ASSUME SendStringTask PROVE IInv'
  BY <1>1, <1>11, <1>16 DEF SendStringTask
<1>17. ASSUME SyncRead PROVE IInv'
  BY <1>1, <1>11, <1>17 DEF SyncRead
<1>18. ASSUME \/ ModuleConnects \/ ModuleGivesUp \/ ModuleLosesLink \/ ModuleSleeps
              \/ ModuleResets \/ ModuleChatters
       PROVE  IInv'
  BY <1>2, <1>18, ModuleStepFacts
<1>19. ASSUME UNCHANGED vars PROVE IInv'
  <2>1. UNCHANGED <<linkVars, fwVars>> /\ UNCHANGED pc
    BY <1>19 DEF vars
  <2> QED BY <2>1, <1>1, <1>12
<1>20. CASE Next
  BY <1>20, <1>3, <1>4, <1>5, <1>6, <1>7, <1>8, <1>9, <1>10, <1>13, <1>15, <1>16, <1>17, <1>18
     DEF Next, Disturbance
<1> QED BY <1>19, <1>20

-----------------------------------------------------------------------------
\* Link state, events and ring keep their types, and the ring its size, for every
\* set of hosts and every size of the ring.
THEOREM TypeCorrect == Spec => []TypeOK
<1>1. IInv => TypeOK
  BY DEF IInv
<1> QED BY InitInv, NextInv, <1>1, PTL DEF Spec

\* wireless_event_task leaves the firmware in agreement with the module once all is
\* reported and handled, for every set of hosts, every size of the ring and every
\* interleaving of requests, packets and events, unless the last event was dropped.
THEOREM LinkAgreement == Spec => []LinkAgrees
<1>1. IInv => LinkAgrees
  <2> SUFFICES ASSUME IInv, queue = <<>>, pend = {}, ~missed PROVE Agrees
    BY DEF LinkAgrees
  <2>1. ~Ends(queue, LinkEvent)
    BY DEF Ends
  <2> QED BY <2>1 DEF IInv, LinkInv
<1> QED BY InitInv, NextInv, <1>1, PTL DEF Spec
=============================================================================
