---------------------------- MODULE ReportBuffer ----------------------------
(***************************************************************************)
(* keyboards/keychron/common/wireless: how HID reports travel from the     *)
(* firmware to the wireless module.  Keyboard reports go through a bounded *)
(* queue and are transmitted one at a time, with retries, by               *)
(* report_buffer_task; consumer reports are sent directly when the queue   *)
(* is empty; the module answers each transmission, some time later, with   *)
(* an acknowledgement that says whether its own FIFO had room.             *)
(*                                                                         *)
(* All of this runs in the main loop, so an action is one call made from   *)
(* it: a report being sent, a run of the task, one packet read from the    *)
(* module.  Elapsed times are nondeterministic: at any call the report     *)
(* interval and the retry interval may or may not have passed.             *)
(*                                                                         *)
(* Reports carry a number in the order in which the keyboard sent them in  *)
(* place of their contents.  The ring buffer is represented by the         *)
(* sequence of its elements, which RingQueue shows it to implement.        *)
(***************************************************************************)
EXTENDS Integers, Sequences

CONSTANTS
    QueueSize,    \* REPORT_BUFFER_QUEUE_SIZE
    RetryCount,   \* RETPORT_RETRY_COUNT
    FifoSize,     \* external: room in the wireless module
    AcksLost,     \* external: whether a packet from the module may be missed
    EarlyTimer,   \* whether timer_read32() may be 0..2 at a dequeue
    MaxReports    \* bound on the reports sent

ASSUME ReportBufferAssumption ==
    /\ QueueSize \in Nat /\ QueueSize >= 2
    /\ RetryCount \in Nat \ {0}
    /\ FifoSize \in Nat \ {0}
    /\ AcksLost \in BOOLEAN /\ EarlyTimer \in BOOLEAN
    /\ MaxReports \in Nat

\* REPORT_TYPE_KB and _NKRO behave alike; system reports never enter the queue.
Type   == {"kb", "consumer", "system"}
Report == [type : Type, n : Nat]

VARIABLES
    link,    \* WT_CONNECTED, WT_PARING during pin code entry, or any other state
    queue,   \* report_buffer_queue
    kb_rpt,  \* the report that is being transmitted
    retry,   \* transmissions left for kb_rpt; 0 when it is done
    fifo,    \* external: reports the module has accepted, oldest first
    acks,    \* external: acknowledgements on their way to the firmware
    host,    \* external: the last report of each type that reached the host
    sent,    \* history: the last report of each type the keyboard sent
    seqno,   \* history: reports sent so far
    base,    \* history: keyboard reports up to this one may have been lost
    tx       \* history: transmissions of kb_rpt

buffer == <<queue, kb_rpt, retry>>
module == <<fifo, acks>>
vars   == <<link, buffer, module, host, sent, seqno, base, tx>>

Last == [Type -> Nat]

\* The states in which keyboard reports are taken and the task runs.
Up == link # "down"

TypeOK ==
    /\ link \in {"down", "pincode", "connected"}
    /\ queue \in Seq(Report) /\ Len(queue) < QueueSize
    /\ kb_rpt \in Report
    /\ retry \in 0..RetryCount
    /\ fifo \in Seq(Report) /\ Len(fifo) <= FifoSize
    /\ acks \in Seq({"success", "full"})
    /\ host \in Last /\ sent \in Last
    /\ seqno \in Nat /\ base \in Nat /\ tx \in Nat

Init ==
    /\ link = "down"
    /\ queue = <<>> /\ kb_rpt = [type |-> "kb", n |-> 0] /\ retry = 0
    /\ fifo = <<>> /\ acks = <<>>
    /\ host = [t \in Type |-> 0] /\ sent = [t \in Type |-> 0]
    /\ seqno = 0 /\ base = 0 /\ tx = 0

-----------------------------------------------------------------------------
\* lkbt51_send_cmd with ack_enable, and the module's answer: accepted when its
\* FIFO has room, refused otherwise.
Transmit(r) ==
    IF Len(fifo) < FifoSize
    THEN fifo' = Append(fifo, r) /\ acks' = Append(acks, "success")
    ELSE UNCHANGED fifo /\ acks' = Append(acks, "full")

\* The module has the report, or the host has received it.
Arrived(r) == host[r.type] = r.n \/ \E i \in 1..Len(fifo) : fifo[i] = r

\* History: base once keyboard report r is known to be lost.
LoseUpTo(r) == IF r.type = "kb" /\ r.n > base THEN r.n ELSE base

\* A fresh report of the given type.
Fresh(t) == [type |-> t, n |-> seqno + 1]
Count(t) == /\ seqno < MaxReports /\ seqno' = seqno + 1
            /\ sent' = [sent EXCEPT ![t] = seqno + 1]

\* Mutation: the ring is allowed to fill up completely.
MutEnqueueFull(q, r) == IF Len(q) < QueueSize THEN Append(q, r) ELSE q

\* report_buffer_enqueue: a full queue refuses the report, and no caller looks
\* at the result.
Enqueued(q, r) == IF Len(q) < QueueSize - 1 THEN Append(q, r) ELSE q

\* Mutation: a report that has to wait for the interval is not kept.
MutIdleDrops(q) == UNCHANGED <<queue, kb_rpt, retry, module, tx>>

\* report_buffer_task, run with queue contents q.
TaskIdle(q) == queue' = q /\ UNCHANGED <<kb_rpt, retry, module, tx>>

\* A report dequeued while the timer reads at most 2 is discarded.
TaskDequeue(q) ==
    /\ q # <<>> /\ retry = 0
    /\ kb_rpt' = Head(q) /\ queue' = Tail(q)
    /\ \/ /\ retry' = RetryCount /\ tx' = 1 /\ Transmit(Head(q))
          /\ UNCHANGED base
       \/ /\ EarlyTimer /\ UNCHANGED <<retry, module>> /\ tx' = 0
          /\ base' = LoseUpTo(Head(q))

\* Mutation: retries are not counted.
MutRetryUncounted(q) ==
    /\ retry > 0
    /\ retry' = retry /\ tx' = tx + 1
    /\ Transmit(kb_rpt)
    /\ queue' = q /\ UNCHANGED <<kb_rpt, base>>

\* Mutation: the last retry is never used up.
MutRetryStops(q) ==
    /\ retry > 1
    /\ retry' = retry - 1 /\ tx' = tx + 1
    /\ Transmit(kb_rpt)
    /\ queue' = q /\ UNCHANGED <<kb_rpt, base>>

\* A report that is refused the last time as well is given up.
TaskRetry(q) ==
    /\ retry > 0
    /\ retry' = retry - 1 /\ tx' = tx + 1
    /\ Transmit(kb_rpt)
    /\ base' = IF retry = 1 /\ Len(fifo) >= FifoSize /\ ~Arrived(kb_rpt)
               THEN LoseUpTo(kb_rpt) ELSE base
    /\ queue' = q /\ UNCHANGED kb_rpt

\* Whether the report interval and the retry interval have passed.
RunTask(q) == (TaskIdle(q) /\ UNCHANGED base) \/ TaskDequeue(q) \/ TaskRetry(q)

-----------------------------------------------------------------------------
\* Mutation: an empty queue is bypassed, as for consumer reports.
MutKeyboardDirect ==
    /\ Count("kb")
    /\ IF queue = <<>>
       THEN Transmit(Fresh("kb")) /\ UNCHANGED <<buffer, tx>>
       ELSE TaskIdle(Enqueued(queue, Fresh("kb")))
    /\ UNCHANGED base

\* wireless_send_keyboard and wireless_send_nkro: enqueue, and run the task at
\* once if the queue was empty.
Keyboard ==
    /\ Count("kb")
    /\ LET q == Enqueued(queue, Fresh("kb"))
       IN  \/ queue = <<>> /\ RunTask(q)
           \/ /\ queue # <<>> /\ TaskIdle(q)
              /\ base' = IF q = queue THEN LoseUpTo(Fresh("kb")) ELSE base

SendKeyboard == Up /\ Keyboard /\ UNCHANGED <<link, host>>

\* The early returns of these functions: the battery may be critically low at any
\* time, the link may be pairing, or neither up nor pairing, when wireless_connect
\* asks for a connection.  The report is dropped.
DroppedKeyboard ==
    /\ Count("kb")
    /\ base' = LoseUpTo(Fresh("kb"))
    /\ UNCHANGED <<buffer, module, tx>>

DropKeyboard == DroppedKeyboard /\ UNCHANGED <<link, host>>

\* wireless_send_extra drops a report when the battery is critically low, and the
\* functions for consumer and system reports do when the link is not connected:
\* then wireless_connect, which does nothing while the timer reads zero, ends a
\* pin code entry.
DropExtra ==
    /\ \E t \in {"consumer", "system"} : Count(t)
    /\ link' = link \/ (link = "pincode" /\ link' = "down")
    /\ UNCHANGED <<buffer, module, host, base, tx>>

\* wireless_send_consumer: directly to the module when the queue is empty and
\* the report interval has passed, through the queue otherwise.  Whether kb_rpt
\* is still being retried is not considered.
SendConsumer ==
    /\ link = "connected" /\ Count("consumer")
    /\ \/ /\ queue = <<>>
          /\ Transmit(Fresh("consumer"))
          /\ UNCHANGED <<buffer, tx>>
       \/ TaskIdle(Enqueued(queue, Fresh("consumer")))
    /\ UNCHANGED <<link, host, base>>

\* wireless_send_system: always directly to the module.
SendSystem ==
    /\ link = "connected" /\ Count("system")
    /\ Transmit(Fresh("system"))
    /\ UNCHANGED <<link, host, buffer, base, tx>>

\* report_buffer_task from wireless_task or send_string_task, with something to
\* do and the interval passed.
Task ==
    /\ Up
    /\ TaskDequeue(queue) \/ TaskRetry(queue)
    /\ UNCHANGED <<link, host, sent, seqno>>

\* lkbt51_task and ack_handler: every successful acknowledgement ends the
\* retries, whichever transmission it answers; a refusal changes intervals only.
\* A report whose retries end before the module took it is lost.
HandleAck ==
    /\ acks # <<>>
    /\ acks' = Tail(acks)
    /\ retry' = IF Head(acks) = "success" THEN 0 ELSE retry
    /\ base' = IF Head(acks) = "success" /\ retry > 0 /\ ~Arrived(kb_rpt)
               THEN LoseUpTo(kb_rpt) ELSE base
    /\ UNCHANGED <<link, queue, kb_rpt, fifo, host, sent, seqno, tx>>

\* A packet that fails its checksum is ignored.
LoseAck ==
    /\ AcksLost /\ acks # <<>>
    /\ acks' = Tail(acks)
    /\ UNCHANGED <<link, buffer, fifo, host, sent, seqno, base, tx>>

\* The module sends its oldest report to the host.
Radio ==
    /\ fifo # <<>>
    /\ host' = [host EXCEPT ![Head(fifo).type] = Head(fifo).n]
    /\ fifo' = Tail(fifo)
    /\ UNCHANGED <<link, buffer, acks, sent, seqno, base, tx>>

\* wireless_enter_connected: the state changes, then clear_keyboard releases all
\* keys, which sends a report if any key was down.
Connect ==
    /\ link' = "connected"
    /\ \/ Keyboard
       \/ DroppedKeyboard
       \/ UNCHANGED <<buffer, module, sent, seqno, base, tx>>
    /\ UNCHANGED host

\* wireless_enter_bluetooth_pin_code_entry while pairing, or
\* wireless_enter_discoverable while the entry is still open.
EnterPinCode ==
    /\ link' = "pincode"
    /\ UNCHANGED <<buffer, module, host, sent, seqno, base, tx>>

\* wireless_enter_disconnected: report_buffer_init empties the queue and ends
\* the retries.  What the module still held is lost.
Disconnect ==
    /\ link' = "down"
    /\ queue' = <<>> /\ retry' = 0 /\ fifo' = <<>>
    /\ base' = seqno
    /\ UNCHANGED <<kb_rpt, acks, host, sent, seqno, tx>>

\* Every other event or request that leaves these states (reset, sleep,
\* reconnecting, discoverable, the end of the pin code entry, a new connection
\* request) keeps the buffer.
Pause ==
    /\ Up /\ link' = "down"
    /\ UNCHANGED <<buffer, module, host, sent, seqno, base, tx>>

\* lpm_task ends a low-power period with report_buffer_init, whatever the state
\* of the link.
Wakeup ==
    /\ queue' = <<>> /\ retry' = 0
    /\ base' = seqno
    /\ UNCHANGED <<link, kb_rpt, module, host, sent, seqno, tx>>

-----------------------------------------------------------------------------
Next ==
    \/ SendKeyboard \/ SendConsumer \/ SendSystem \/ Task
    \/ DropKeyboard \/ DropExtra
    \/ HandleAck \/ LoseAck \/ Radio
    \/ Connect \/ EnterPinCode \/ Disconnect \/ Pause \/ Wakeup

\* The main loop runs the task and reads the module again and again, and its
\* intervals pass; the module works through its FIFO.
Fairness == WF_vars(Task) /\ WF_vars(HandleAck) /\ WF_vars(Radio)

Spec == Init /\ [][Next]_vars /\ Fairness

-----------------------------------------------------------------------------
\* Keyboard reports reach the host in the order in which they were sent: a
\* retransmission never overwrites a later report, across retries, refusals,
\* disconnections and stale acknowledgements.
KeyboardInOrder == [][host'["kb"] >= host["kb"]]_vars

\* No report is transmitted more than 1 + RETPORT_RETRY_COUNT times.
BoundedRetries == tx <= RetryCount + 1

\* Nothing is on its way.
Quiet == Up /\ queue = <<>> /\ retry = 0 /\ fifo = <<>> /\ acks = <<>>

\* When nothing is on its way, the host has the last keyboard report: no key
\* stays pressed, no key press is missed.  It is lost only when it is sent while
\* the link is not up or the battery critically low, to a disconnection or
\* wake-up, to a full queue, to a dequeue while the timer reads at most 2, or
\* when the retries of a report that the module has always refused run out or
\* are ended by the acknowledgement of another transmission; not to lost or late
\* acknowledgements, to pauses of the link or to reports of other types.
NoReportLost == Quiet => host["kb"] = sent["kb"] \/ sent["kb"] <= base

\* Consumer reports reach the host in the order in which they were sent: the
\* release of a media key is never followed by its press.
ConsumerInOrder == [][host'["consumer"] >= host["consumer"]]_vars

\* The buffer drains: while the link stays up, whatever acknowledgements are
\* missed or refused, the queue and the retries run out.
Drains == []<>(~Up \/ (queue = <<>> /\ retry = 0))
=============================================================================
