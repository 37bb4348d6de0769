------------------------- MODULE ReportBufferProofs -------------------------
(***************************************************************************)
(* Proofs about ReportBuffer, for every queue size, retry count, module    *)
(* FIFO size and number of reports, with or without lost acknowledgements. *)
(***************************************************************************)
EXTENDS ReportBuffer, RingQueue, TLAPS

\* A transmission uses up one of the transmissions that kb_rpt has left.
RetryInv == tx + retry <= RetryCount + 1

\* Reports are numbered in the order in which they were sent, so a place that
\* a report has left never holds a later number than the place it moved on to:
\* host <= module FIFO <= kb_rpt < queue <= seqno, for keyboard reports.
QueueOrder ==
    /\ \A i \in 1..Len(queue) : kb_rpt.n < queue[i].n /\ queue[i].n <= seqno
    /\ \A i, j \in 1..Len(queue) : i < j => queue[i].n < queue[j].n
FifoOrder ==
    /\ \A i \in 1..Len(fifo) :
         fifo[i].type = "kb" => host["kb"] <= fifo[i].n /\ fifo[i].n <= kb_rpt.n
    /\ \A i, j \in 1..Len(fifo) :
         i < j /\ fifo[i].type = "kb" /\ fifo[j].type = "kb" => fifo[i].n <= fifo[j].n
RptOrder == host["kb"] <= kb_rpt.n /\ kb_rpt.n <= seqno

OrderInv == QueueOrder /\ FifoOrder /\ RptOrder

IInv == TypeOK /\ RetryInv /\ OrderInv

-----------------------------------------------------------------------------
\* The elements of a sequence of reports, and their numbers.
LEMMA ReportElements ==
    ASSUME NEW s \in Seq(Report)
    PROVE  \A i \in 1..Len(s) : s[i] \in Report /\ s[i].n \in Nat
<1>1. \A i \in 1..Len(s) : s[i] \in Report
  OBVIOUS
<1>2. \A r \in Report : r.n \in Nat
  BY DEF Report
<1> QED
  BY <1>1, <1>2

\* Transmit keeps the module's FIFO typed and within its size.
LEMMA TransmitType ==
    ASSUME TypeOK, NEW r \in Report, Transmit(r)
    PROVE  /\ fifo' \in Seq(Report) /\ Len(fifo') <= FifoSize
           /\ acks' \in Seq({"success", "full"})
<1>1. CASE Len(fifo) < FifoSize
  <2>1. fifo' = Append(fifo, r) /\ acks' = Append(acks, "success")
    BY <1>1 DEF Transmit
  <2>2. Append(fifo, r) \in Seq(Report) /\ Len(Append(fifo, r)) = Len(fifo) + 1
    BY DEF TypeOK
  <2>3. Append(acks, "success") \in Seq({"success", "full"})
    BY DEF TypeOK
  <2> QED
    BY <1>1, <2>1, <2>2, <2>3, ReportBufferAssumption DEF TypeOK
<1>2. CASE ~(Len(fifo) < FifoSize)
  <2>1. Append(acks, "full") \in Seq({"success", "full"})
    BY DEF TypeOK
  <2> QED
    BY <1>2, <2>1 DEF Transmit, TypeOK
<1> QED
  BY <1>1, <1>2

\* Enqueueing keeps the queue typed and below its size.
LEMMA EnqueuedType ==
    ASSUME TypeOK, NEW r \in Report
    PROVE  Enqueued(queue, r) \in Seq(Report) /\ Len(Enqueued(queue, r)) < QueueSize
BY ReportBufferAssumption DEF TypeOK, Enqueued

\* A report fresh from the keyboard is a report.
LEMMA FreshType ==
    ASSUME TypeOK, NEW t \in Type
    PROVE  Fresh(t) \in Report
BY DEF TypeOK, Fresh, Report

\* The outcomes of report_buffer_task.
RunBuffer(q) == TaskIdle(q) \/ TaskDequeue(q) \/ TaskRetry(q)

\* A lost report leaves base a number that is not smaller.
LEMMA LoseType ==
    ASSUME TypeOK, NEW r \in Report
    PROVE  /\ LoseUpTo(r) \in Nat /\ base <= LoseUpTo(r)
           /\ r.type = "kb" => r.n <= LoseUpTo(r)
<1>1. r.n \in Nat
  BY DEF Report
<1> QED
  BY <1>1 DEF TypeOK, LoseUpTo

\* report_buffer_task leaves base a number that is not smaller.
LEMMA RunTaskBase ==
    ASSUME TypeOK, NEW q \in Seq(Report), UNCHANGED base \/ TaskDequeue(q) \/ TaskRetry(q)
    PROVE  base' \in Nat /\ base <= base'
<1>1. base \in Nat /\ kb_rpt \in Report
  BY DEF TypeOK
<1>2. CASE UNCHANGED base
  BY <1>1, <1>2
<1>3. CASE TaskDequeue(q)
  <2>1. Head(q) \in Report
    BY <1>3 DEF TaskDequeue
  <2>2. base' \in {base, LoseUpTo(Head(q))}
    BY <1>3 DEF TaskDequeue
  <2> QED
    BY <1>1, <2>1, <2>2, LoseType
<1>4. CASE TaskRetry(q)
  <2>1. base' \in {base, LoseUpTo(kb_rpt)}
    BY <1>4 DEF TaskRetry
  <2> QED
    BY <1>1, <2>1, LoseType
<1> QED
  BY <1>2, <1>3, <1>4

\* Every outcome of report_buffer_task keeps the types and the retry bound.
LEMMA RunTaskType ==
    ASSUME TypeOK, RetryInv, NEW q \in Seq(Report), Len(q) < QueueSize, RunBuffer(q)
    PROVE  /\ queue' \in Seq(Report) /\ Len(queue') < QueueSize
           /\ kb_rpt' \in Report /\ retry' \in 0..RetryCount /\ tx' \in Nat
           /\ fifo' \in Seq(Report) /\ Len(fifo') <= FifoSize
           /\ acks' \in Seq({"success", "full"})
           /\ RetryInv'
<1>1. CASE TaskIdle(q)
  BY <1>1 DEF TypeOK, TaskIdle, module, RetryInv
<1>2. CASE TaskDequeue(q)
  <2>1. Head(q) \in Report /\ Tail(q) \in Seq(Report) /\ Len(Tail(q)) < QueueSize
    BY <1>2, ReportBufferAssumption DEF TaskDequeue
  <2>2. CASE retry' = RetryCount /\ tx' = 1 /\ Transmit(Head(q))
    <3>1. /\ fifo' \in Seq(Report) /\ Len(fifo') <= FifoSize
          /\ acks' \in Seq({"success", "full"})
      BY <2>1, <2>2, TransmitType
    <3> QED
      BY <1>2, <2>1, <2>2, <3>1, ReportBufferAssumption DEF TaskDequeue, RetryInv
  <2>3. CASE EarlyTimer /\ UNCHANGED <<retry, module>> /\ tx' = 0
    BY <1>2, <2>1, <2>3, ReportBufferAssumption DEF TaskDequeue, RetryInv, module, TypeOK
  <2> QED
    BY <1>2, <2>2, <2>3 DEF TaskDequeue
<1>3. CASE TaskRetry(q)
  <2>1. /\ fifo' \in Seq(Report) /\ Len(fifo') <= FifoSize
        /\ acks' \in Seq({"success", "full"})
    BY <1>3, TransmitType DEF TaskRetry, TypeOK
  <2> QED
    BY <1>3, <2>1, ReportBufferAssumption DEF TaskRetry, RetryInv, TypeOK
<1> QED
  BY <1>1, <1>2, <1>3 DEF RunBuffer

-----------------------------------------------------------------------------
\* Transmitting kb_rpt, or a report that is no keyboard report, keeps the order
\* of the module's FIFO.
LEMMA TransmitOrder ==
    ASSUME TypeOK, NEW r \in Report, NEW bound \in Nat, Transmit(r),
           host' = host, host["kb"] <= bound,
           r.type = "kb" => r.n = bound,
           \A i \in 1..Len(fifo) :
             fifo[i].type = "kb" => host["kb"] <= fifo[i].n /\ fifo[i].n <= bound,
           \A i, j \in 1..Len(fifo) :
             i < j /\ fifo[i].type = "kb" /\ fifo[j].type = "kb" => fifo[i].n <= fifo[j].n
    PROVE  /\ \A i \in 1..Len(fifo') :
                fifo'[i].type = "kb" => host'["kb"] <= fifo'[i].n /\ fifo'[i].n <= bound
           /\ \A i, j \in 1..Len(fifo') :
                i < j /\ fifo'[i].type = "kb" /\ fifo'[j].type = "kb"
                  => fifo'[i].n <= fifo'[j].n
<1>1. CASE fifo' = Append(fifo, r)
  <2>1. /\ Len(fifo') = Len(fifo) + 1
        /\ \A i \in 1..Len(fifo) : fifo'[i] = fifo[i]
        /\ fifo'[Len(fifo) + 1] = r
    BY <1>1 DEF TypeOK
  <2>2. Len(fifo) \in Nat
    BY DEF TypeOK
  <2>4. host["kb"] \in Nat
    BY DEF TypeOK, Last, Type
  <2>5. ASSUME NEW i \in 1..Len(fifo')
        PROVE  \/ i \in 1..Len(fifo) /\ fifo'[i] = fifo[i]
               \/ i = Len(fifo) + 1 /\ fifo'[i] = r
    BY <2>1, <2>2, <2>5
  <2>6. ASSUME NEW i \in 1..Len(fifo'), fifo'[i].type = "kb"
        PROVE  host'["kb"] <= fifo'[i].n /\ fifo'[i].n <= bound
    <3>1. CASE i \in 1..Len(fifo) /\ fifo'[i] = fifo[i]
      BY <2>6, <3>1
    <3>2. CASE i = Len(fifo) + 1 /\ fifo'[i] = r
      BY <2>4, <2>6, <3>2
    <3> QED
      BY <2>5, <3>1, <3>2
  <2>7. ASSUME NEW i \in 1..Len(fifo'), NEW j \in 1..Len(fifo'), i < j,
               fifo'[i].type = "kb", fifo'[j].type = "kb"
        PROVE  fifo'[i].n <= fifo'[j].n
    <3>1. i \in 1..Len(fifo) /\ fifo'[i] = fifo[i]
      BY <2>1, <2>2, <2>7
    <3>2. CASE j \in 1..Len(fifo) /\ fifo'[j] = fifo[j]
      BY <2>7, <3>1, <3>2
    <3>3. CASE j = Len(fifo) + 1 /\ fifo'[j] = r
      BY <2>7, <3>1, <3>3
    <3> QED
      BY <2>5, <3>2, <3>3
  <2> QED
    BY <2>6, <2>7
<1>2. CASE fifo' = fifo
  BY <1>2
<1> QED
  BY <1>1, <1>2 DEF Transmit

\* Enqueueing the newest report keeps the order of the queue.
LEMMA EnqueuedOrder ==
    ASSUME TypeOK, OrderInv, NEW t \in Type, NEW q, q = Enqueued(queue, Fresh(t))
    PROVE  /\ \A i \in 1..Len(q) : kb_rpt.n < q[i].n /\ q[i].n <= seqno + 1
           /\ \A i, j \in 1..Len(q) : i < j => q[i].n < q[j].n
<1>1. \A i \in 1..Len(queue) : queue[i].n \in Nat
  BY ReportElements DEF TypeOK
<1>2. Len(queue) \in Nat /\ seqno \in Nat /\ kb_rpt.n \in Nat /\ kb_rpt.n <= seqno
  BY DEF TypeOK, Report, OrderInv, RptOrder
<1>3. Fresh(t).n = seqno + 1
  BY DEF Fresh
<1>4. CASE q = Append(queue, Fresh(t))
  <2>1. /\ Len(q) = Len(queue) + 1
        /\ \A i \in 1..Len(queue) : q[i] = queue[i]
        /\ q[Len(queue) + 1] = Fresh(t)
    BY <1>4, FreshType DEF TypeOK
  <2>2. \A i \in 1..Len(q) : i \in 1..Len(queue) \/ i = Len(queue) + 1
    BY <1>2, <2>1
  <2>3. \A i \in 1..Len(q) : kb_rpt.n < q[i].n /\ q[i].n <= seqno + 1
    BY <1>1, <1>2, <1>3, <2>1, <2>2 DEF OrderInv, QueueOrder
  <2>4. \A i, j \in 1..Len(q) : i < j => q[i].n < q[j].n
    BY <1>1, <1>2, <1>3, <2>1, <2>2 DEF OrderInv, QueueOrder
  <2> QED
    BY <2>3, <2>4
<1>5. CASE q = queue
  BY <1>1, <1>2, <1>5 DEF OrderInv, QueueOrder
<1> QED
  BY <1>4, <1>5 DEF Enqueued

\* Every outcome of report_buffer_task keeps the order, when q is ordered.
LEMMA RunTaskOrder ==
    ASSUME TypeOK, OrderInv, NEW q \in Seq(Report), NEW top \in Nat,
           RunBuffer(q), host' = host, seqno' = top, seqno <= top,
           \A i \in 1..Len(q) : kb_rpt.n < q[i].n /\ q[i].n <= top,
           \A i, j \in 1..Len(q) : i < j => q[i].n < q[j].n
    PROVE  OrderInv'
<1> USE DEF OrderInv, QueueOrder, FifoOrder, RptOrder
<1>1. /\ seqno \in Nat /\ kb_rpt \in Report /\ kb_rpt.n \in Nat /\ host["kb"] \in Nat
      /\ \A i \in 1..Len(q) : q[i] \in Report /\ q[i].n \in Nat
      /\ \A i \in 1..Len(fifo) : fifo[i] \in Report /\ fifo[i].n \in Nat
  <2>1. seqno \in Nat /\ kb_rpt \in Report /\ host["kb"] \in Nat /\ fifo \in Seq(Report)
    BY DEF TypeOK, Last, Type
  <2>2. kb_rpt.n \in Nat
    BY <2>1 DEF Report
  <2> QED
    BY <2>1, <2>2, ReportElements
<1>2. CASE TaskIdle(q)
  <2>1. queue' = q /\ kb_rpt' = kb_rpt /\ fifo' = fifo
    BY <1>2 DEF TaskIdle, module
  <2>2. QueueOrder'
    BY <2>1
  <2>3. FifoOrder'
    BY <2>1
  <2> QED
    BY <1>1, <2>1, <2>2, <2>3
<1>3. CASE TaskDequeue(q)
  <2>1. /\ Len(q) \in Nat /\ Len(q) >= 1 /\ Head(q) = q[1]
        /\ Len(Tail(q)) = Len(q) - 1
        /\ \A i \in 1..Len(Tail(q)) : Tail(q)[i] = q[i + 1]
    BY <1>3 DEF TaskDequeue
  <2>2. kb_rpt' = q[1] /\ queue' = Tail(q)
    BY <1>3, <2>1 DEF TaskDequeue
  <2>3. QueueOrder' /\ RptOrder' /\ kb_rpt.n < kb_rpt'.n
    BY <1>1, <2>1, <2>2
  <2>4. CASE Transmit(Head(q))
    <3> DEFINE bound == q[1].n
    <3>1. /\ bound \in Nat /\ q[1] \in Report /\ host["kb"] <= bound
          /\ \A i \in 1..Len(fifo) : fifo[i].type = "kb" => fifo[i].n <= bound
      BY <1>1, <2>1, <2>2, <2>3
    <3>2. /\ \A i \in 1..Len(fifo') :
               fifo'[i].type = "kb" => host'["kb"] <= fifo'[i].n /\ fifo'[i].n <= bound
          /\ \A i, j \in 1..Len(fifo') :
               i < j /\ fifo'[i].type = "kb" /\ fifo'[j].type = "kb"
                 => fifo'[i].n <= fifo'[j].n
      <4> HIDE DEF bound
      <4>1. q[1].type = "kb" => q[1].n = bound
        BY DEF bound
      <4> QED
        BY <2>1, <2>4, <3>1, <4>1, TransmitOrder
    <3> QED
      BY <2>2, <2>3, <3>2
  <2>5. CASE UNCHANGED module
    <3>1. fifo' = fifo
      BY <2>5 DEF module
    <3>2. FifoOrder'
      <4>1. kb_rpt'.n \in Nat
        BY <1>1, <2>1, <2>2
      <4>2. \A i \in 1..Len(fifo) : fifo[i].type = "kb" => fifo[i].n <= kb_rpt'.n
        BY <1>1, <2>3, <4>1
      <4> QED
        BY <3>1, <4>2
    <3> QED
      BY <2>3, <3>2
  <2> QED
    BY <1>3, <2>4, <2>5 DEF TaskDequeue, module
<1>4. CASE TaskRetry(q)
  <2>1. queue' = q /\ kb_rpt' = kb_rpt /\ Transmit(kb_rpt)
    BY <1>4 DEF TaskRetry
  <2>2. FifoOrder'
    BY <1>1, <2>1, TransmitOrder
  <2> QED
    BY <1>1, <2>1, <2>2
<1> QED
  BY <1>2, <1>3, <1>4 DEF RunBuffer

-----------------------------------------------------------------------------
\* A report sent by the keyboard: the shared part of SendKeyboard and Connect.
LEMMA KeyboardStep ==
    ASSUME IInv, Keyboard, UNCHANGED host,
           link' \in {"down", "pincode", "connected"}
    PROVE  IInv'
<1> DEFINE q == Enqueued(queue, Fresh("kb"))
<1>1. /\ q \in Seq(Report) /\ Len(q) < QueueSize
      /\ seqno \in Nat /\ seqno' = seqno + 1
  BY EnqueuedType, FreshType DEF IInv, TypeOK, Keyboard, Count, Type
<1>2. sent' \in Last
  BY DEF IInv, TypeOK, Keyboard, Count, Last, Type
<1>3. RunBuffer(q)
  BY DEF Keyboard, RunTask, RunBuffer
<1>8. base' \in Nat
  <2>1. CASE queue = <<>> /\ RunTask(q)
    BY <1>1, <2>1, RunTaskBase DEF IInv, RunTask
  <2>2. CASE base' \in {base, LoseUpTo(Fresh("kb"))}
    BY <2>2, LoseType, FreshType DEF IInv, TypeOK, Type
  <2> QED
    BY <2>1, <2>2 DEF Keyboard
<1>4. /\ \A i \in 1..Len(q) : kb_rpt.n < q[i].n /\ q[i].n <= seqno + 1
      /\ \A i, j \in 1..Len(q) : i < j => q[i].n < q[j].n
  BY EnqueuedOrder DEF IInv, Type
<1> HIDE DEF q
<1>5. /\ queue' \in Seq(Report) /\ Len(queue') < QueueSize
      /\ kb_rpt' \in Report /\ retry' \in 0..RetryCount /\ tx' \in Nat
      /\ fifo' \in Seq(Report) /\ Len(fifo') <= FifoSize
      /\ acks' \in Seq({"success", "full"})
      /\ RetryInv'
  BY <1>1, <1>3, RunTaskType DEF IInv
<1>6. TypeOK'
  BY <1>1, <1>2, <1>5, <1>8 DEF IInv, TypeOK
<1>7. OrderInv'
  <2>1. seqno + 1 \in Nat /\ seqno <= seqno + 1
    BY <1>1
  <2> QED
    BY <1>1, <1>3, <1>4, <2>1, RunTaskOrder DEF IInv
<1> QED
  BY <1>5, <1>6, <1>7 DEF IInv

\* Transmitting a fresh report that is no keyboard report leaves the buffer
\* alone and keeps the invariant.
LEMMA DirectStep ==
    ASSUME IInv, NEW t \in {"consumer", "system"}, Count(t), Transmit(Fresh(t)),
           UNCHANGED <<link, host, base, buffer, tx>>
    PROVE  IInv'
<1>1. /\ Fresh(t) \in Report /\ Fresh(t).type # "kb"
      /\ seqno \in Nat /\ seqno' = seqno + 1 /\ sent' \in Last
  BY FreshType DEF IInv, TypeOK, Count, Type, Fresh, Last
<1>2. /\ fifo' \in Seq(Report) /\ Len(fifo') <= FifoSize
      /\ acks' \in Seq({"success", "full"})
  BY <1>1, TransmitType DEF IInv
<1>3. TypeOK'
  BY <1>1, <1>2 DEF IInv, TypeOK, buffer
<1>4. RetryInv'
  BY DEF IInv, RetryInv, buffer
<1>5. FifoOrder'
  <2>1. kb_rpt.n \in Nat /\ kb_rpt' = kb_rpt
    BY DEF IInv, TypeOK, Report, buffer
  <2> QED
    BY <1>1, <2>1, TransmitOrder DEF IInv, OrderInv, FifoOrder, RptOrder
<1>6. QueueOrder' /\ RptOrder'
  <2>1. \A i \in 1..Len(queue) : queue[i].n \in Nat
    BY ReportElements DEF IInv, TypeOK
  <2>2. kb_rpt.n \in Nat
    BY DEF IInv, TypeOK, Report
  <2> QED
    BY <1>1, <2>1, <2>2 DEF IInv, OrderInv, QueueOrder, RptOrder, buffer
<1> QED
  BY <1>3, <1>4, <1>5, <1>6 DEF IInv, OrderInv

\* A report that is only counted keeps the invariant.
LEMMA DroppedStep ==
    ASSUME IInv, NEW t \in Type, Count(t), base' \in Nat,
           link' \in {"down", "pincode", "connected"},
           UNCHANGED <<buffer, module, host, tx>>
    PROVE  IInv'
<1>1. seqno \in Nat /\ seqno' = seqno + 1 /\ sent' \in Last
  BY DEF IInv, TypeOK, Count, Last
<1>2. TypeOK'
  BY <1>1 DEF IInv, TypeOK, buffer, module
<1>3. RetryInv' /\ FifoOrder'
  BY DEF IInv, RetryInv, OrderInv, FifoOrder, buffer, module
<1>4. QueueOrder' /\ RptOrder'
  <2>1. \A i \in 1..Len(queue) : queue[i].n \in Nat
    BY ReportElements DEF IInv, TypeOK
  <2>2. kb_rpt.n \in Nat
    BY DEF IInv, TypeOK, Report
  <2> QED
    BY <1>1, <2>1, <2>2 DEF IInv, OrderInv, QueueOrder, RptOrder, buffer
<1> QED
  BY <1>2, <1>3, <1>4 DEF IInv, OrderInv

\* The initial state satisfies the invariant.
LEMMA InitIInv == Init => IInv
<1> SUFFICES ASSUME Init PROVE IInv
  OBVIOUS
<1>1. TypeOK
  <2>1. /\ queue \in Seq(Report) /\ fifo \in Seq(Report)
        /\ acks \in Seq({"success", "full"})
        /\ Len(queue) = 0 /\ Len(fifo) = 0
    BY DEF Init
  <2>2. kb_rpt \in Report
    BY DEF Init, Report, Type
  <2>3. host \in Last /\ sent \in Last
    BY DEF Init, Last
  <2>4. link \in {"down", "pincode", "connected"}
    BY DEF Init
  <2>5. retry \in 0..RetryCount /\ seqno \in Nat /\ base \in Nat /\ tx \in Nat
    BY ReportBufferAssumption DEF Init
  <2>6. Len(queue) < QueueSize /\ Len(fifo) <= FifoSize
    BY <2>1, ReportBufferAssumption
  <2> QED
    BY <2>1, <2>2, <2>3, <2>4, <2>5, <2>6 DEF TypeOK
<1>2. RetryInv /\ OrderInv
  BY ReportBufferAssumption
     DEF Init, RetryInv, OrderInv, QueueOrder, FifoOrder, RptOrder, Type
<1> QED
  BY <1>1, <1>2 DEF IInv

\* Every step preserves the invariant.
LEMMA StepIInv == IInv /\ [Next]_vars => IInv'
<1> SUFFICES ASSUME IInv, [Next]_vars PROVE IInv'
  OBVIOUS
<1>1. CASE SendKeyboard
  BY <1>1, KeyboardStep DEF SendKeyboard, IInv, TypeOK
<1>2. CASE SendConsumer
  <2>1. CASE Transmit(Fresh("consumer")) /\ UNCHANGED <<buffer, tx>>
    BY <1>2, <2>1, DirectStep DEF SendConsumer
  <2>2. CASE TaskIdle(Enqueued(queue, Fresh("consumer")))
    <3> DEFINE q == Enqueued(queue, Fresh("consumer"))
    <3>1. /\ q \in Seq(Report) /\ Len(q) < QueueSize
          /\ seqno \in Nat /\ seqno' = seqno + 1 /\ sent' \in Last
      <4>1. "consumer" \in Type
        BY DEF Type
      <4>2. Fresh("consumer") \in Report
        BY <4>1, FreshType DEF IInv
      <4>3. q \in Seq(Report) /\ Len(q) < QueueSize
        BY <4>2, EnqueuedType DEF IInv
      <4>4. seqno \in Nat /\ seqno' = seqno + 1 /\ sent' \in Last
        BY <1>2, <4>1 DEF IInv, TypeOK, SendConsumer, Count, Last
      <4> QED
        BY <4>3, <4>4
    <3>2. /\ \A i \in 1..Len(q) : kb_rpt.n < q[i].n /\ q[i].n <= seqno + 1
          /\ \A i, j \in 1..Len(q) : i < j => q[i].n < q[j].n
      BY EnqueuedOrder DEF IInv, Type
    <3>3. RunBuffer(q)
      BY <2>2 DEF RunBuffer
    <3>4. UNCHANGED <<link, host, base>>
      BY <1>2 DEF SendConsumer
    <3> HIDE DEF q
    <3>5. /\ queue' \in Seq(Report) /\ Len(queue') < QueueSize
          /\ kb_rpt' \in Report /\ retry' \in 0..RetryCount /\ tx' \in Nat
          /\ fifo' \in Seq(Report) /\ Len(fifo') <= FifoSize
          /\ acks' \in Seq({"success", "full"})
          /\ RetryInv'
      BY <3>1, <3>3, RunTaskType DEF IInv
    <3>6. TypeOK'
      BY <3>1, <3>4, <3>5 DEF IInv, TypeOK
    <3>7. OrderInv'
      <4>1. seqno + 1 \in Nat /\ seqno <= seqno + 1
        BY <3>1
      <4> QED
        BY <3>1, <3>2, <3>3, <3>4, <4>1, RunTaskOrder DEF IInv
    <3> QED
      BY <3>5, <3>6, <3>7 DEF IInv
  <2> QED
    BY <1>2, <2>1, <2>2 DEF SendConsumer
<1>3. CASE SendSystem
  BY <1>3, DirectStep DEF SendSystem
<1>4. CASE Task
  <2>1. RunBuffer(queue) /\ UNCHANGED <<link, host, sent, seqno>>
    BY <1>4 DEF Task, RunBuffer
  <2>2. queue \in Seq(Report) /\ Len(queue) < QueueSize /\ seqno \in Nat
    BY DEF IInv, TypeOK
  <2>3. /\ queue' \in Seq(Report) /\ Len(queue') < QueueSize
        /\ kb_rpt' \in Report /\ retry' \in 0..RetryCount /\ tx' \in Nat
        /\ fifo' \in Seq(Report) /\ Len(fifo') <= FifoSize
        /\ acks' \in Seq({"success", "full"})
        /\ RetryInv'
    BY <2>1, <2>2, RunTaskType DEF IInv
  <2>4. TypeOK'
    <3>1. base' \in Nat
      BY <1>4, <2>2, RunTaskBase DEF Task, IInv
    <3> QED
      BY <2>1, <2>3, <3>1 DEF IInv, TypeOK
  <2>5. OrderInv'
    <3>1. /\ \A i \in 1..Len(queue) : kb_rpt.n < queue[i].n /\ queue[i].n <= seqno
          /\ \A i, j \in 1..Len(queue) : i < j => queue[i].n < queue[j].n
      BY DEF IInv, OrderInv, QueueOrder
    <3>2. seqno <= seqno
      BY <2>2
    <3> QED
      BY <2>1, <2>2, <3>1, <3>2, RunTaskOrder DEF IInv
  <2> QED
    BY <2>3, <2>4, <2>5 DEF IInv
<1>5. CASE HandleAck
  <2>1. TypeOK'
    <3>1. base' \in {base, LoseUpTo(kb_rpt)}
      BY <1>5 DEF HandleAck
    <3>2. base' \in Nat
      BY <3>1, LoseType DEF IInv, TypeOK
    <3> QED
      BY <1>5, <3>2, ReportBufferAssumption DEF HandleAck, IInv, TypeOK
  <2>2. RetryInv'
    BY <1>5, ReportBufferAssumption DEF HandleAck, IInv, TypeOK, RetryInv
  <2>3. OrderInv'
    BY <1>5 DEF HandleAck, IInv, OrderInv, QueueOrder, FifoOrder, RptOrder
  <2> QED
    BY <2>1, <2>2, <2>3 DEF IInv
<1>6. CASE LoseAck
  <2>1. TypeOK'
    BY <1>6 DEF LoseAck, IInv, TypeOK, buffer
  <2>2. RetryInv' /\ OrderInv'
    BY <1>6 DEF LoseAck, IInv, OrderInv, QueueOrder, FifoOrder, RptOrder, RetryInv, buffer
  <2> QED
    BY <2>1, <2>2 DEF IInv
<1>7. CASE Radio
  <2>1. /\ fifo \in Seq(Report) /\ fifo # <<>> /\ Len(fifo) \in Nat /\ Len(fifo) >= 1
        /\ Head(fifo) = fifo[1] /\ fifo' = Tail(fifo)
        /\ Len(fifo') = Len(fifo) - 1
        /\ \A i \in 1..Len(fifo') : fifo'[i] = fifo[i + 1]
    BY <1>7 DEF Radio, IInv, TypeOK
  <2>2. /\ \A i \in 1..Len(fifo) : fifo[i] \in Report /\ fifo[i].n \in Nat
        /\ fifo[1].type \in Type
    <3>1. \A i \in 1..Len(fifo) : fifo[i] \in Report /\ fifo[i].n \in Nat
      BY <2>1, ReportElements
    <3>2. 1 \in 1..Len(fifo)
      BY <2>1
    <3>3. fifo[1] \in Report
      BY <3>1, <3>2
    <3> QED
      BY <3>1, <3>3 DEF Report
  <2>3. host \in Last /\ host["kb"] \in Nat
    BY DEF IInv, TypeOK, Last, Type
  <2>4. host' = [host EXCEPT ![fifo[1].type] = fifo[1].n]
    BY <1>7, <2>1 DEF Radio
  <2>5. UNCHANGED <<link, buffer, acks, sent, seqno, base, tx>>
    BY <1>7 DEF Radio
  <2>6. host' \in Last
    BY <2>1, <2>2, <2>3, <2>4 DEF Last
  <2>7. TypeOK'
    <3>1. fifo' \in Seq(Report) /\ Len(fifo') <= FifoSize
      BY <2>1, ReportBufferAssumption DEF IInv, TypeOK
    <3> QED
      BY <2>5, <2>6, <3>1 DEF IInv, TypeOK, buffer
  <2>8. host'["kb"] = IF fifo[1].type = "kb" THEN fifo[1].n ELSE host["kb"]
    BY <2>2, <2>3, <2>4 DEF Last, Type
  <2>9. FifoOrder'
    <3>1. \A i \in 1..Len(fifo') : i + 1 \in 1..Len(fifo) /\ 1 < i + 1
      BY <2>1
    <3>2. \A i \in 1..Len(fifo') : fifo'[i].type = "kb" =>
            host'["kb"] <= fifo'[i].n /\ fifo'[i].n <= kb_rpt.n
      BY <2>1, <2>2, <2>8, <3>1 DEF IInv, OrderInv, FifoOrder
    <3>3. \A i, j \in 1..Len(fifo') : i < j => i + 1 < j + 1
      BY <2>1
    <3>4. \A i, j \in 1..Len(fifo') :
            i < j /\ fifo'[i].type = "kb" /\ fifo'[j].type = "kb"
              => fifo'[i].n <= fifo'[j].n
      BY <2>1, <3>1, <3>3 DEF IInv, OrderInv, FifoOrder
    <3>5. kb_rpt' = kb_rpt
      BY <2>5 DEF buffer
    <3> QED
      BY <3>2, <3>4, <3>5 DEF FifoOrder
  <2>10. RptOrder' /\ QueueOrder' /\ RetryInv'
    BY <2>1, <2>5, <2>8
       DEF IInv, OrderInv, FifoOrder, RptOrder, QueueOrder, RetryInv, buffer
  <2> QED
    BY <2>7, <2>9, <2>10 DEF IInv, OrderInv
<1>13. ASSUME DroppedKeyboard, UNCHANGED host, link' \in {"down", "pincode", "connected"}
       PROVE  IInv'
  <2>1. "kb" \in Type
    BY DEF Type
  <2>2. Fresh("kb") \in Report
    BY <2>1, FreshType DEF IInv
  <2>3. base' \in Nat
    BY <1>13, <2>2, LoseType DEF DroppedKeyboard, IInv
  <2> QED
    BY <1>13, <2>1, <2>3, DroppedStep DEF DroppedKeyboard
<1>8. CASE Connect
  <2>1. CASE Keyboard
    BY <1>8, <2>1, KeyboardStep DEF Connect
  <2>3. CASE DroppedKeyboard
    BY <1>8, <1>13, <2>3 DEF Connect
  <2>2. CASE UNCHANGED <<buffer, module, sent, seqno, base, tx>>
    <3>1. TypeOK'
      BY <1>8, <2>2 DEF Connect, IInv, TypeOK, buffer, module
    <3>2. RetryInv' /\ OrderInv'
      BY <1>8, <2>2 DEF Connect, IInv, buffer, module, RetryInv, OrderInv,
                        QueueOrder, FifoOrder, RptOrder
    <3> QED
      BY <3>1, <3>2 DEF IInv
  <2> QED
    BY <1>8, <2>1, <2>2, <2>3 DEF Connect
<1>9. CASE Disconnect
  <2>1. TypeOK'
    <3>1. /\ queue' \in Seq(Report) /\ Len(queue') = 0
          /\ fifo' \in Seq(Report) /\ Len(fifo') = 0
      BY <1>9 DEF Disconnect
    <3>2. link' \in {"down", "pincode", "connected"}
      BY <1>9 DEF Disconnect
    <3>3. retry' \in 0..RetryCount /\ base' \in Nat
      BY <1>9, ReportBufferAssumption DEF Disconnect, IInv, TypeOK
    <3>4. UNCHANGED <<kb_rpt, acks, host, sent, seqno, tx>>
      BY <1>9 DEF Disconnect
    <3>5. Len(queue') < QueueSize /\ Len(fifo') <= FifoSize
      BY <3>1, ReportBufferAssumption
    <3> QED
      BY <3>1, <3>2, <3>3, <3>4, <3>5 DEF IInv, TypeOK
  <2>2. RetryInv'
    BY <1>9, ReportBufferAssumption DEF Disconnect, IInv, TypeOK, RetryInv
  <2>3. OrderInv'
    BY <1>9 DEF Disconnect, IInv, OrderInv, QueueOrder, FifoOrder, RptOrder
  <2> QED
    BY <2>1, <2>2, <2>3 DEF IInv
<1>10. CASE Pause
  <2>1. TypeOK'
    BY <1>10 DEF Pause, IInv, TypeOK, buffer, module
  <2>2. RetryInv' /\ OrderInv'
    BY <1>10 DEF Pause, IInv, buffer, module, RetryInv, OrderInv, QueueOrder,
                 FifoOrder, RptOrder
  <2> QED
    BY <2>1, <2>2 DEF IInv
<1>11. CASE Wakeup
  <2>1. TypeOK'
    <3>1. queue' \in Seq(Report) /\ Len(queue') = 0
      BY <1>11 DEF Wakeup
    <3>2. Len(queue') < QueueSize
      BY <3>1, ReportBufferAssumption
    <3>3. retry' \in 0..RetryCount /\ base' \in Nat
      BY <1>11, ReportBufferAssumption DEF Wakeup, IInv, TypeOK
    <3>4. UNCHANGED <<link, kb_rpt, fifo, acks, host, sent, seqno, tx>>
      BY <1>11 DEF Wakeup, module
    <3> QED
      BY <3>1, <3>2, <3>3, <3>4 DEF IInv, TypeOK
  <2>2. RetryInv'
    BY <1>11, ReportBufferAssumption DEF Wakeup, IInv, TypeOK, RetryInv
  <2>3. OrderInv'
    BY <1>11 DEF Wakeup, IInv, OrderInv, QueueOrder, FifoOrder, RptOrder, module
  <2> QED
    BY <2>1, <2>2, <2>3 DEF IInv
<1>14. CASE DropKeyboard
  BY <1>13, <1>14 DEF DropKeyboard, IInv, TypeOK
<1>15. CASE DropExtra
  <2>1. base' \in Nat /\ link' \in {"down", "pincode", "connected"}
    BY <1>15 DEF DropExtra, IInv, TypeOK
  <2>2. PICK t \in {"consumer", "system"} : Count(t)
    BY <1>15 DEF DropExtra
  <2>3. t \in Type
    BY DEF Type
  <2> QED
    BY <1>15, <2>1, <2>2, <2>3, DroppedStep DEF DropExtra
<1>16. CASE EnterPinCode
  <2>1. TypeOK'
    BY <1>16 DEF EnterPinCode, IInv, TypeOK, buffer, module
  <2>2. RetryInv' /\ OrderInv'
    BY <1>16 DEF EnterPinCode, IInv, buffer, module, RetryInv, OrderInv,
                 QueueOrder, FifoOrder, RptOrder
  <2> QED
    BY <2>1, <2>2 DEF IInv
<1>12. CASE UNCHANGED vars
  <2>1. TypeOK'
    BY <1>12 DEF vars, IInv, TypeOK, buffer, module
  <2>2. RetryInv' /\ OrderInv'
    BY <1>12 DEF vars, IInv, buffer, module, RetryInv, OrderInv, QueueOrder,
                 FifoOrder, RptOrder
  <2> QED
    BY <2>1, <2>2 DEF IInv
<1> QED
  BY <1>1, <1>2, <1>3, <1>4, <1>5, <1>6, <1>7, <1>8, <1>9, <1>10, <1>11, <1>12,
     <1>14, <1>15, <1>16 DEF Next

\* The invariant: the retries that are left bound the transmissions, and the
\* numbers of the reports are ordered along their way to the host.
THEOREM Invariance == Spec => []IInv
<1>1. Init => IInv
  BY InitIInv
<1>2. IInv /\ [Next]_vars => IInv'
  BY StepIInv
<1> QED
  BY <1>1, <1>2, PTL DEF Spec

\* The variables keep their types, the queue its capacity and the module's FIFO
\* its size.
THEOREM TypeCorrect == Spec => []TypeOK
<1>1. IInv => TypeOK
  BY DEF IInv
<1> QED
  BY <1>1, Invariance, PTL

\* report_buffer_task never transmits a report more than 1 + RETPORT_RETRY_COUNT
\* times.
THEOREM RetriesBounded == Spec => []BoundedRetries
<1>1. IInv => BoundedRetries
  BY ReportBufferAssumption DEF IInv, TypeOK, RetryInv, BoundedRetries
<1> QED
  BY <1>1, Invariance, PTL

\* Keyboard reports reach the host in the order in which they were sent.
THEOREM KeyboardOrder == Spec => KeyboardInOrder
<1>1. IInv /\ IInv' /\ [Next]_vars => [host'["kb"] >= host["kb"]]_vars
  <2> SUFFICES ASSUME IInv, IInv', [Next]_vars PROVE host'["kb"] >= host["kb"]
    OBVIOUS
  <2>1. host \in Last /\ host["kb"] \in Nat
    BY DEF IInv, TypeOK, Last, Type
  <2>2. CASE Radio
    <3>1. /\ Len(fifo) >= 1 /\ Len(fifo) \in Nat /\ Head(fifo) = fifo[1]
          /\ fifo[1] \in Report
      BY <2>2 DEF Radio, IInv, TypeOK
    <3>2. host'["kb"] = IF fifo[1].type = "kb" THEN fifo[1].n ELSE host["kb"]
      BY <2>1, <2>2, <3>1 DEF Radio, Last, Type
    <3>3. fifo[1].n \in Nat
      BY <3>1 DEF Report
    <3> QED
      BY <2>1, <3>1, <3>2, <3>3 DEF IInv, OrderInv, FifoOrder
  <2>3. CASE host' = host
    BY <2>1, <2>3
  <2>4. Next => Radio \/ host' = host
    BY DEF Next, SendKeyboard, SendConsumer, SendSystem, DropKeyboard, DropExtra,
           Task, HandleAck, LoseAck, Connect, EnterPinCode, Disconnect, Pause, Wakeup
  <2>5. UNCHANGED vars => host' = host
    BY DEF vars
  <2> QED
    BY <2>2, <2>3, <2>4, <2>5
<1> QED
  BY <1>1, Invariance, PTL DEF Spec, KeyboardInOrder

-----------------------------------------------------------------------------
\* The keyboard report with number n, and the places it can be in: the queue,
\* kb_rpt with retries left, the module, the host.
Kb(n) == [type |-> "kb", n |-> n]
InPlay(n) ==
    \/ \E i \in 1..Len(queue) : queue[i] = Kb(n)
    \/ retry > 0 /\ kb_rpt = Kb(n)
    \/ Arrived(Kb(n))

\* Nothing on its way is newer than the last report sent.
NotNewer ==
    /\ sent["kb"] <= seqno
    /\ \A i \in 1..Len(fifo) : fifo[i].type = "kb" => fifo[i].n <= sent["kb"]
    /\ \A i \in 1..Len(queue) : queue[i].type = "kb" => queue[i].n <= sent["kb"]
    /\ kb_rpt.type = "kb" => kb_rpt.n <= sent["kb"]

\* The last keyboard report is in play, or was lost in one of the ways that
\* base records.
NotLost == \A n \in Nat : n = sent["kb"] => n <= base \/ InPlay(n)

LostInv == NotNewer /\ NotLost

\* What the module or the host has stays there when something is transmitted.
LEMMA TransmitArrived ==
    ASSUME TypeOK, NEW r \in Report, Transmit(r), host' = host
    PROVE  /\ \A n \in Nat : Arrived(Kb(n)) => Arrived(Kb(n))'
           /\ Len(fifo) < FifoSize => \A n \in Nat : r = Kb(n) => Arrived(Kb(n))'
<1>1. CASE Len(fifo) < FifoSize
  <2>1. fifo' = Append(fifo, r)
    BY <1>1 DEF Transmit
  <2>2. /\ Len(fifo') = Len(fifo) + 1 /\ Len(fifo) \in Nat
        /\ \A i \in 1..Len(fifo) : fifo'[i] = fifo[i]
        /\ fifo'[Len(fifo) + 1] = r
    BY <2>1 DEF TypeOK
  <2>3. 1..Len(fifo) \subseteq 1..Len(fifo') /\ Len(fifo) + 1 \in 1..Len(fifo')
    BY <2>2
  <2> QED
    BY <2>2, <2>3 DEF Arrived
<1>2. CASE ~(Len(fifo) < FifoSize)
  BY <1>2 DEF Transmit, Arrived
<1> QED
  BY <1>1, <1>2

\* report_buffer_task keeps a report in play or records that it is lost.
LEMMA RunTaskLost ==
    ASSUME TypeOK, NEW q \in Seq(Report), host' = host, NEW n \in Nat,
           (TaskIdle(q) /\ UNCHANGED base) \/ TaskDequeue(q) \/ TaskRetry(q),
           \/ n <= base
           \/ \E i \in 1..Len(q) : q[i] = Kb(n)
           \/ retry > 0 /\ kb_rpt = Kb(n)
           \/ Arrived(Kb(n))
    PROVE  n <= base' \/ InPlay(n)'
<1>1. base \in Nat /\ base' \in Nat /\ base <= base' /\ kb_rpt \in Report /\ retry \in Nat
  BY RunTaskBase, ReportBufferAssumption DEF TypeOK
<1>2. CASE n <= base
  BY <1>1, <1>2
<1>3. CASE TaskIdle(q) /\ UNCHANGED base /\ ~(n <= base)
  <2>1. queue' = q /\ kb_rpt' = kb_rpt /\ retry' = retry /\ fifo' = fifo
    BY <1>3 DEF TaskIdle, module
  <2>2. Arrived(Kb(n)) => Arrived(Kb(n))'
    BY <2>1 DEF Arrived
  <2> QED
    BY <1>3, <2>1, <2>2 DEF InPlay
<1>4. CASE TaskDequeue(q) /\ ~(n <= base)
  <2>1. /\ q # <<>> /\ retry = 0 /\ kb_rpt' = Head(q) /\ queue' = Tail(q)
        /\ \/ retry' = RetryCount /\ Transmit(Head(q))
           \/ fifo' = fifo /\ base' = LoseUpTo(Head(q))
    BY <1>4 DEF TaskDequeue, module
  <2>2. /\ Head(q) = q[1] /\ Head(q) \in Report /\ Len(q) \in Nat
        /\ Len(Tail(q)) = Len(q) - 1
        /\ \A i \in 1..Len(Tail(q)) : Tail(q)[i] = q[i + 1]
    BY <2>1
  <2>3. CASE Arrived(Kb(n))
    <3>1. Arrived(Kb(n))'
      <4>1. CASE Transmit(Head(q))
        BY <2>2, <2>3, <4>1, TransmitArrived
      <4>2. CASE fifo' = fifo
        BY <2>3, <4>2 DEF Arrived
      <4> QED
        BY <2>1, <4>1, <4>2
    <3> QED
      BY <3>1 DEF InPlay
  <2>4. ASSUME NEW i \in 1..Len(q), q[i] = Kb(n)
        PROVE  n <= base' \/ InPlay(n)'
    <3>1. CASE i = 1 /\ retry' = RetryCount
      <4>1. kb_rpt' = Kb(n) /\ retry' > 0
        BY <2>1, <2>2, <2>4, <3>1, ReportBufferAssumption
      <4> QED
        BY <4>1 DEF InPlay
    <3>2. CASE i = 1 /\ base' = LoseUpTo(Head(q))
      <4>1. Head(q).type = "kb" /\ Head(q).n = n
        BY <2>2, <2>4, <3>2 DEF Kb
      <4> QED
        BY <1>1, <2>2, <3>2, <4>1, LoseType
    <3>3. CASE i # 1
      <4>1. i - 1 \in 1..Len(queue') /\ queue'[i - 1] = Kb(n)
        BY <2>1, <2>2, <2>4, <3>3
      <4> QED
        BY <4>1 DEF InPlay
    <3> QED
      BY <2>1, <3>1, <3>2, <3>3
  <2> QED
    BY <1>4, <2>1, <2>3, <2>4
<1>5. CASE TaskRetry(q) /\ ~(n <= base)
  <2>1. /\ retry > 0 /\ retry' = retry - 1 /\ Transmit(kb_rpt)
        /\ queue' = q /\ kb_rpt' = kb_rpt
    BY <1>5 DEF TaskRetry
  <2>2. CASE \E i \in 1..Len(q) : q[i] = Kb(n)
    BY <2>1, <2>2 DEF InPlay
  <2>3. CASE Arrived(Kb(n))
    BY <1>1, <2>1, <2>3, TransmitArrived DEF InPlay
  <2>4. CASE kb_rpt = Kb(n) /\ ~Arrived(Kb(n))
    <3>1. CASE Len(fifo) < FifoSize
      BY <1>1, <2>1, <2>4, <3>1, TransmitArrived DEF InPlay
    <3>2. CASE retry # 1
      <4>1. retry' > 0
        BY <1>1, <2>1, <3>2
      <4> QED
        BY <2>1, <2>4, <4>1 DEF InPlay
    <3>3. CASE ~(Len(fifo) < FifoSize) /\ retry = 1
      <4>1. Len(fifo) >= FifoSize
        BY <3>3, ReportBufferAssumption DEF TypeOK
      <4>2. base' = LoseUpTo(kb_rpt)
        BY <1>5, <2>4, <3>3, <4>1 DEF TaskRetry
      <4>3. kb_rpt.type = "kb" /\ kb_rpt.n = n
        BY <2>4 DEF Kb
      <4> QED
        BY <1>1, <4>2, <4>3, LoseType
    <3> QED
      BY <3>1, <3>2, <3>3
  <2> QED
    BY <1>5, <2>2, <2>3, <2>4
<1> QED
  BY <1>2, <1>3, <1>4, <1>5

\* Transmitting a report that is not newer leaves nothing newer in the module.
LEMMA TransmitNewer ==
    ASSUME TypeOK, NEW r \in Report, NEW top \in Nat, Transmit(r),
           r.type = "kb" => r.n <= top,
           \A i \in 1..Len(fifo) : fifo[i].type = "kb" => fifo[i].n <= top
    PROVE  \A i \in 1..Len(fifo') : fifo'[i].type = "kb" => fifo'[i].n <= top
<1>1. CASE fifo' = Append(fifo, r)
  <2>1. /\ Len(fifo') = Len(fifo) + 1 /\ Len(fifo) \in Nat
        /\ \A i \in 1..Len(fifo) : fifo'[i] = fifo[i]
        /\ fifo'[Len(fifo) + 1] = r
    BY <1>1 DEF TypeOK
  <2>2. \A i \in 1..Len(fifo') : i \in 1..Len(fifo) \/ i = Len(fifo) + 1
    BY <2>1
  <2> QED
    BY <2>1, <2>2
<1>2. CASE fifo' = fifo
  BY <1>2
<1> QED
  BY <1>1, <1>2 DEF Transmit

\* report_buffer_task leaves nothing newer anywhere.
LEMMA RunTaskNewer ==
    ASSUME TypeOK, NEW q \in Seq(Report), NEW top \in Nat, RunBuffer(q),
           \A i \in 1..Len(fifo) : fifo[i].type = "kb" => fifo[i].n <= top,
           \A i \in 1..Len(q) : q[i].type = "kb" => q[i].n <= top,
           kb_rpt.type = "kb" => kb_rpt.n <= top
    PROVE  /\ \A i \in 1..Len(fifo') : fifo'[i].type = "kb" => fifo'[i].n <= top
           /\ \A i \in 1..Len(queue') : queue'[i].type = "kb" => queue'[i].n <= top
           /\ kb_rpt'.type = "kb" => kb_rpt'.n <= top
<1>1. CASE TaskIdle(q)
  BY <1>1 DEF TaskIdle, module
<1>2. CASE TaskDequeue(q)
  <2>1. /\ Head(q) = q[1] /\ Head(q) \in Report /\ 1 \in 1..Len(q)
        /\ Len(Tail(q)) = Len(q) - 1 /\ Len(q) \in Nat
        /\ \A i \in 1..Len(Tail(q)) : Tail(q)[i] = q[i + 1] /\ i + 1 \in 1..Len(q)
    BY <1>2 DEF TaskDequeue
  <2>2. kb_rpt' = q[1] /\ queue' = Tail(q)
    BY <1>2, <2>1 DEF TaskDequeue
  <2>3. \A i \in 1..Len(fifo') : fifo'[i].type = "kb" => fifo'[i].n <= top
    <3>1. CASE Transmit(Head(q))
      BY <2>1, <3>1, TransmitNewer
    <3>2. CASE fifo' = fifo
      BY <3>2
    <3> QED
      BY <1>2, <3>1, <3>2 DEF TaskDequeue, module
  <2> QED
    BY <2>1, <2>2, <2>3
<1>3. CASE TaskRetry(q)
  <2>1. Transmit(kb_rpt) /\ queue' = q /\ kb_rpt' = kb_rpt /\ kb_rpt \in Report
    BY <1>3 DEF TaskRetry, TypeOK
  <2>2. \A i \in 1..Len(fifo') : fifo'[i].type = "kb" => fifo'[i].n <= top
    BY <2>1, TransmitNewer
  <2> QED
    BY <2>1, <2>2
<1> QED
  BY <1>1, <1>2, <1>3 DEF RunBuffer

\* A report enqueued is in the queue unless the queue is full; nothing leaves it.
LEMMA EnqueuedKeeps ==
    ASSUME TypeOK, NEW r \in Report, NEW q, q = Enqueued(queue, r)
    PROVE  /\ \A i \in 1..Len(queue) : i \in 1..Len(q) /\ q[i] = queue[i]
           /\ q # queue => \E i \in 1..Len(q) : q[i] = r
           /\ \A i \in 1..Len(q) : i \in 1..Len(queue) \/ q[i] = r
           /\ queue = <<>> => q # queue
<1>1. CASE Len(queue) < QueueSize - 1
  <2>1. /\ q = Append(queue, r) /\ Len(q) = Len(queue) + 1 /\ Len(queue) \in Nat
        /\ \A i \in 1..Len(queue) : q[i] = queue[i]
        /\ q[Len(queue) + 1] = r
    BY <1>1 DEF Enqueued, TypeOK
  <2>2. /\ 1..Len(queue) \subseteq 1..Len(q) /\ Len(queue) + 1 \in 1..Len(q)
        /\ \A i \in 1..Len(q) : i \in 1..Len(queue) \/ i = Len(queue) + 1
    BY <2>1
  <2>3. q # queue
    BY <2>1
  <2> QED
    BY <2>1, <2>2, <2>3
<1>2. CASE ~(Len(queue) < QueueSize - 1)
  <2>1. q = queue
    BY <1>2 DEF Enqueued
  <2>2. queue # <<>>
    BY <1>2, ReportBufferAssumption
  <2> QED
    BY <2>1, <2>2
<1> QED
  BY <1>1, <1>2

\* A keyboard report sent: it is in play or the queue was full.
LEMMA KeyboardLost ==
    ASSUME IInv, LostInv, Keyboard, host' = host
    PROVE  LostInv'
<1> DEFINE q == Enqueued(queue, Fresh("kb"))
<1>0. PICK top \in Nat : top = seqno + 1
  BY DEF IInv, TypeOK
<1>1. /\ q \in Seq(Report) /\ Len(q) < QueueSize /\ Fresh("kb") \in Report
      /\ Fresh("kb") = Kb(top) /\ top \in Nat
      /\ seqno \in Nat /\ seqno' = top /\ sent["kb"] \in Nat /\ sent'["kb"] = top
  BY <1>0, EnqueuedType, FreshType DEF IInv, TypeOK, Keyboard, Count, Type, Fresh, Last, Kb
<1>2. /\ \A i \in 1..Len(fifo) : fifo[i].n \in Nat
      /\ \A i \in 1..Len(queue) : queue[i].n \in Nat
      /\ kb_rpt.n \in Nat /\ TypeOK
  BY ReportElements DEF IInv, TypeOK, Report
<1>3. /\ \A i \in 1..Len(queue) : i \in 1..Len(q) /\ q[i] = queue[i]
      /\ q # queue => \E i \in 1..Len(q) : q[i] = Fresh("kb")
      /\ \A i \in 1..Len(q) : i \in 1..Len(queue) \/ q[i] = Fresh("kb")
      /\ queue = <<>> => q # queue
  BY <1>1, EnqueuedKeeps DEF IInv
<1>4. RunBuffer(q)
  BY DEF Keyboard, RunTask, RunBuffer
<1>5. \/ queue = <<>> /\ RunTask(q)
      \/ TaskIdle(q) /\ base' = IF q = queue THEN LoseUpTo(Fresh("kb")) ELSE base
  BY DEF Keyboard
<1> HIDE DEF q
<1>6. NotNewer'
  <2>1. /\ \A i \in 1..Len(fifo) : fifo[i].type = "kb" => fifo[i].n <= top
        /\ kb_rpt.type = "kb" => kb_rpt.n <= top
        /\ \A i \in 1..Len(queue) : queue[i].type = "kb" => queue[i].n <= top
    BY <1>0, <1>1, <1>2 DEF LostInv, NotNewer
  <2>2. \A i \in 1..Len(q) : q[i].type = "kb" => q[i].n <= top
    BY <1>1, <1>3, <2>1 DEF Kb
  <2>3. /\ \A i \in 1..Len(fifo') : fifo'[i].type = "kb" => fifo'[i].n <= top
        /\ \A i \in 1..Len(queue') : queue'[i].type = "kb" => queue'[i].n <= top
        /\ kb_rpt'.type = "kb" => kb_rpt'.n <= top
    <3>1. TypeOK /\ q \in Seq(Report) /\ RunBuffer(q)
      BY <1>1, <1>2, <1>4
    <3> QED
      BY <2>1, <2>2, <3>1, RunTaskNewer
  <2>4. sent'["kb"] <= seqno'
    BY <1>1
  <2> QED
    BY <1>1, <2>3, <2>4 DEF NotNewer
<1>7. top <= base' \/ InPlay(top)'
  <2>1. CASE q # queue
    <3>1. \E i \in 1..Len(q) : q[i] = Kb(top)
      BY <1>1, <1>3, <2>1
    <3>2. (TaskIdle(q) /\ UNCHANGED base) \/ TaskDequeue(q) \/ TaskRetry(q)
      BY <1>5, <2>1 DEF RunTask
    <3> QED
      BY <1>1, <1>2, <3>1, <3>2, RunTaskLost
  <2>2. CASE q = queue
    <3>1. base' = LoseUpTo(Fresh("kb"))
      BY <1>3, <1>5, <2>2
    <3>2. Fresh("kb").type = "kb" /\ Fresh("kb").n = top
      BY <1>1 DEF Kb
    <3> QED
      BY <1>1, <1>2, <3>1, <3>2, LoseType
  <2> QED
    BY <2>1, <2>2
<1>8. NotLost'
  BY <1>1, <1>7 DEF NotLost
<1> QED
  BY <1>6, <1>8 DEF LostInv

\* Initially nothing has been sent.
LEMMA InitLost == Init => LostInv
<1> SUFFICES ASSUME Init PROVE LostInv
  OBVIOUS
<1>1. /\ Len(fifo) = 0 /\ Len(queue) = 0 /\ kb_rpt.n = 0 /\ seqno = 0
      /\ host["kb"] = 0 /\ sent["kb"] = 0 /\ base = 0
  BY DEF Init, Type
<1> QED
  BY <1>1 DEF LostInv, NotNewer, NotLost

\* Every step keeps the last keyboard report in play or records its loss.
LEMMA StepLost == IInv /\ LostInv /\ [Next]_vars => LostInv'
<1> SUFFICES ASSUME IInv, LostInv, [Next]_vars PROVE LostInv'
  OBVIOUS
<1>1. /\ TypeOK /\ sent["kb"] \in Nat /\ seqno \in Nat /\ base \in Nat /\ host["kb"] \in Nat
      /\ kb_rpt \in Report /\ fifo \in Seq(Report) /\ queue \in Seq(Report)
      /\ \A i \in 1..Len(fifo) : fifo[i].n \in Nat
  BY ReportElements DEF IInv, TypeOK, Last, Type
<1>2. CASE SendKeyboard \/ (Connect /\ Keyboard)
  BY <1>2, KeyboardLost DEF SendKeyboard, Connect
<1>3. ASSUME NEW t \in {"consumer", "system"}, Count(t), Transmit(Fresh(t)),
             UNCHANGED <<host, base, buffer>>
      PROVE  LostInv'
  <2>1. /\ Fresh(t) \in Report /\ Fresh(t).type # "kb"
        /\ sent'["kb"] = sent["kb"] /\ seqno' = seqno + 1
        /\ queue' = queue /\ kb_rpt' = kb_rpt /\ retry' = retry
    BY <1>1, <1>3, FreshType DEF Count, Fresh, Type, buffer, TypeOK, Last
  <2>2. NotNewer'
    <3>1. PICK top \in Nat : top = sent["kb"]
      BY <1>1
    <3>2. \A i \in 1..Len(fifo') : fifo'[i].type = "kb" => fifo'[i].n <= top
      BY <1>1, <1>3, <2>1, <3>1, TransmitNewer DEF LostInv, NotNewer
    <3> QED
      BY <1>1, <2>1, <3>1, <3>2 DEF LostInv, NotNewer
  <2>3. \A n \in Nat : Arrived(Kb(n)) => Arrived(Kb(n))'
    BY <1>1, <1>3, <2>1, TransmitArrived
  <2>4. \A n \in Nat : InPlay(n) => InPlay(n)'
    BY <2>1, <2>3 DEF InPlay
  <2> QED
    BY <1>1, <1>3, <2>1, <2>2, <2>4 DEF LostInv, NotLost
<1>4. CASE SendConsumer
  <2>1. CASE Transmit(Fresh("consumer")) /\ UNCHANGED <<buffer, tx>>
    BY <1>3, <1>4, <2>1 DEF SendConsumer
  <2>2. CASE TaskIdle(Enqueued(queue, Fresh("consumer")))
    <3> DEFINE q == Enqueued(queue, Fresh("consumer"))
    <3>1. /\ q \in Seq(Report) /\ Fresh("consumer") \in Report
          /\ Fresh("consumer").type # "kb"
          /\ sent'["kb"] = sent["kb"] /\ seqno' = seqno + 1 /\ host' = host /\ base' = base
      BY <1>1, <1>4, EnqueuedType, FreshType DEF SendConsumer, Count, Fresh, Type, TypeOK, Last
    <3>2. /\ \A i \in 1..Len(queue) : i \in 1..Len(q) /\ q[i] = queue[i]
          /\ \A i \in 1..Len(q) : i \in 1..Len(queue) \/ q[i] = Fresh("consumer")
      BY <1>1, <3>1, EnqueuedKeeps
    <3> HIDE DEF q
    <3>3. TaskIdle(q)
      BY <2>2 DEF q
    <3>4. NotNewer'
      BY <1>1, <3>1, <3>2, <3>3 DEF TaskIdle, module, LostInv, NotNewer
    <3>5. queue' = q /\ kb_rpt' = kb_rpt /\ retry' = retry /\ fifo' = fifo
      BY <3>3 DEF TaskIdle, module
    <3>6. \A n \in Nat : InPlay(n) => InPlay(n)'
      BY <3>1, <3>2, <3>5 DEF InPlay, Arrived
    <3> QED
      BY <1>1, <3>1, <3>4, <3>6 DEF LostInv, NotLost
  <2> QED
    BY <1>4, <2>1, <2>2 DEF SendConsumer
<1>5. CASE SendSystem
  BY <1>3, <1>5 DEF SendSystem, buffer
<1>6. CASE Task
  <2>1. TaskDequeue(queue) \/ TaskRetry(queue)
    BY <1>6 DEF Task
  <2>2. host' = host /\ sent' = sent /\ seqno' = seqno
    BY <1>6 DEF Task
  <2>3. NotNewer'
    BY <1>1, <2>1, <2>2, RunTaskNewer DEF LostInv, NotNewer, RunBuffer
  <2>4. ASSUME NEW n \in Nat, n = sent["kb"]
        PROVE  n <= base' \/ InPlay(n)'
    <3>1. n <= base \/ InPlay(n)
      BY <2>4 DEF LostInv, NotLost
    <3>2. \/ n <= base
          \/ \E i \in 1..Len(queue) : queue[i] = Kb(n)
          \/ retry > 0 /\ kb_rpt = Kb(n)
          \/ Arrived(Kb(n))
      BY <3>1 DEF InPlay
    <3> QED
      BY <1>1, <2>1, <2>2, <3>2, RunTaskLost
  <2> QED
    BY <2>2, <2>3, <2>4 DEF LostInv, NotLost
<1>7. CASE HandleAck
  <2>1. UNCHANGED <<queue, kb_rpt, fifo, host, sent, seqno>>
    BY <1>7 DEF HandleAck
  <2>2. NotNewer'
    BY <2>1 DEF LostInv, NotNewer
  <2>3. \/ retry' = retry /\ base' = base
        \/ Arrived(kb_rpt) /\ base' = base
        \/ retry = 0 /\ base' = base
        \/ base' = LoseUpTo(kb_rpt)
    BY <1>1, <1>7, ReportBufferAssumption DEF HandleAck, TypeOK
  <2>4. base <= base' /\ base' \in Nat
    BY <1>1, <2>3, LoseType
  <2>5. ASSUME NEW n \in Nat, n = sent["kb"], ~(n <= base)
        PROVE  n <= base' \/ InPlay(n)'
    <3>1. InPlay(n)
      BY <2>5 DEF LostInv, NotLost
    <3>2. Arrived(Kb(n)) => Arrived(Kb(n))'
      BY <2>1 DEF Arrived
    <3>3. CASE retry > 0 /\ kb_rpt = Kb(n)
      <4>1. CASE base' = LoseUpTo(kb_rpt)
        <5>1. kb_rpt.type = "kb" /\ kb_rpt.n = n
          BY <3>3 DEF Kb
        <5> QED
          BY <1>1, <4>1, <5>1, LoseType
      <4>2. CASE Arrived(kb_rpt)
        BY <3>2, <3>3, <4>2 DEF InPlay
      <4>3. CASE retry' = retry
        BY <2>1, <3>3, <4>3 DEF InPlay
      <4> QED
        BY <2>3, <3>3, <4>1, <4>2, <4>3
    <3>4. CASE ~(retry > 0 /\ kb_rpt = Kb(n))
      BY <2>1, <3>1, <3>2, <3>4 DEF InPlay
    <3> QED
      BY <3>3, <3>4
  <2> QED
    BY <1>1, <2>1, <2>2, <2>4, <2>5 DEF LostInv, NotLost
<1>8. CASE Radio
  <2>1. /\ Len(fifo) \in Nat /\ Len(fifo) >= 1 /\ 1 \in 1..Len(fifo)
        /\ Head(fifo) = fifo[1] /\ fifo' = Tail(fifo)
        /\ Len(fifo') = Len(fifo) - 1
        /\ \A i \in 1..Len(fifo') : fifo'[i] = fifo[i + 1] /\ i + 1 \in 1..Len(fifo)
        /\ \A i \in 1..Len(fifo) : i # 1 => i - 1 \in 1..Len(fifo') /\ fifo'[i - 1] = fifo[i]
    BY <1>1, <1>8 DEF Radio
  <2>2. /\ queue' = queue /\ kb_rpt' = kb_rpt /\ retry' = retry /\ sent' = sent
        /\ seqno' = seqno /\ base' = base
    BY <1>8 DEF Radio, buffer
  <2>3. host'["kb"] = IF fifo[1].type = "kb" THEN fifo[1].n ELSE host["kb"]
    BY <1>1, <1>8, <2>1 DEF Radio, TypeOK, Last, Type
  <2>4. NotNewer'
    BY <2>1, <2>2 DEF LostInv, NotNewer
  <2>5. ASSUME NEW n \in Nat, n = sent["kb"], Arrived(Kb(n))
        PROVE  Arrived(Kb(n))'
    <3>1. CASE host["kb"] = n
      <4>1. fifo[1].type = "kb" => n <= fifo[1].n /\ fifo[1].n <= n
        BY <2>1, <2>5, <3>1 DEF IInv, OrderInv, FifoOrder, LostInv, NotNewer
      <4>2. host'["kb"] = n
        BY <1>1, <2>1, <2>3, <3>1, <4>1
      <4> QED
        BY <4>2 DEF Arrived, Kb
    <3>2. ASSUME NEW i \in 1..Len(fifo), fifo[i] = Kb(n)
          PROVE  Arrived(Kb(n))'
      <4>1. CASE i = 1
        <5>1. host'["kb"] = n
          BY <2>3, <3>2, <4>1 DEF Kb
        <5> QED
          BY <5>1 DEF Arrived, Kb
      <4>2. CASE i # 1
        <5>1. i - 1 \in 1..Len(fifo') /\ fifo'[i - 1] = Kb(n)
          BY <2>1, <3>2, <4>2
        <5> QED
          BY <5>1 DEF Arrived
      <4> QED
        BY <4>1, <4>2
    <3>3. host["kb"] = n \/ \E i \in 1..Len(fifo) : fifo[i] = Kb(n)
      BY <2>5 DEF Arrived, Kb
    <3> QED
      BY <3>1, <3>2, <3>3
  <2>6. \A n \in Nat : n = sent["kb"] /\ InPlay(n) => InPlay(n)'
    BY <2>2, <2>5 DEF InPlay
  <2> QED
    BY <1>1, <2>2, <2>4, <2>6 DEF LostInv, NotLost
<1>9. CASE Disconnect \/ Wakeup
  <2>1. /\ base' = seqno /\ sent' = sent /\ seqno' = seqno /\ kb_rpt' = kb_rpt
        /\ Len(queue') = 0 /\ (Len(fifo') = 0 \/ fifo' = fifo)
    BY <1>9 DEF Disconnect, Wakeup, module
  <2> QED
    BY <1>1, <2>1 DEF LostInv, NotNewer, NotLost
<1>10. CASE UNCHANGED <<queue, kb_rpt, retry, fifo, host, sent, seqno, base>>
  <2>1. NotNewer'
    BY <1>10 DEF LostInv, NotNewer
  <2>2. \A n \in Nat : InPlay(n) => InPlay(n)'
    BY <1>10 DEF InPlay, Arrived
  <2> QED
    BY <1>10, <2>1, <2>2 DEF LostInv, NotLost
<1>11. CASE \/ LoseAck \/ Pause \/ EnterPinCode \/ UNCHANGED vars
            \/ Connect /\ ~Keyboard /\ ~DroppedKeyboard
  BY <1>10, <1>11 DEF LoseAck, Pause, EnterPinCode, Connect, vars, buffer, module
<1>12. CASE DropKeyboard \/ (Connect /\ DroppedKeyboard)
  <2>1. PICK top \in Nat : top = seqno + 1
    BY <1>1
  <2>2. DroppedKeyboard /\ "kb" \in Type
    BY <1>12 DEF DropKeyboard, Type
  <2>3. /\ queue' = queue /\ kb_rpt' = kb_rpt /\ fifo' = fifo
        /\ seqno' = top /\ sent'["kb"] = top /\ sent["kb"] <= top
        /\ base' = LoseUpTo(Fresh("kb"))
    BY <1>1, <2>1, <2>2
       DEF DroppedKeyboard, Count, TypeOK, Last, buffer, module, LostInv, NotNewer
  <2>4. top <= base'
    <3>1. Fresh("kb") \in Report
      BY <1>1, <2>2, FreshType
    <3>2. Fresh("kb").type = "kb" /\ Fresh("kb").n = top
      BY <2>1 DEF Fresh
    <3> QED
      BY <1>1, <2>3, <3>1, <3>2, LoseType
  <2>5. /\ \A i \in 1..Len(queue) : queue[i].n \in Nat
        /\ kb_rpt.n \in Nat
    BY <1>1, ReportElements DEF Report
  <2>6. NotNewer'
    <3>1. sent["kb"] \in Nat /\ seqno \in Nat
      BY <1>1
    <3>2. \A i \in 1..Len(fifo) : fifo[i].type = "kb" => fifo[i].n <= top
      BY <1>1, <2>3, <3>1 DEF LostInv, NotNewer
    <3>3. \A i \in 1..Len(queue) : queue[i].type = "kb" => queue[i].n <= top
      BY <2>3, <2>5, <3>1 DEF LostInv, NotNewer
    <3>4. kb_rpt.type = "kb" => kb_rpt.n <= top
      BY <2>3, <2>5, <3>1 DEF LostInv, NotNewer
    <3> QED
      BY <2>3, <3>2, <3>3, <3>4 DEF NotNewer
  <2> QED
    BY <2>3, <2>4, <2>6 DEF LostInv, NotLost
<1>13. CASE DropExtra
  <2>1. /\ sent'["kb"] = sent["kb"] /\ seqno' = seqno + 1
        /\ UNCHANGED <<queue, kb_rpt, retry, fifo, host, base>>
    BY <1>1, <1>13 DEF DropExtra, Count, TypeOK, Last, Type, buffer, module
  <2>2. NotNewer'
    BY <1>1, <2>1 DEF LostInv, NotNewer
  <2>3. \A n \in Nat : InPlay(n) => InPlay(n)'
    BY <2>1 DEF InPlay, Arrived
  <2> QED
    BY <2>1, <2>2, <2>3 DEF LostInv, NotLost
<1> QED
  BY <1>2, <1>4, <1>5, <1>6, <1>7, <1>8, <1>9, <1>11, <1>12, <1>13 DEF Next

\* Nothing but a link that is not up or a critically low battery when it is sent, a
\* disconnection or wake-up, a full queue, an early timer, or retries that end
\* before the module ever took the report loses the last
\* keyboard report, whatever the sizes of queue and module and whatever happens
\* to the acknowledgements.
THEOREM NoneLost == Spec => []NoReportLost
<1>1. Init => LostInv
  BY InitLost
<1>2. IInv /\ LostInv /\ [Next]_vars => LostInv'
  BY StepLost
<1>3. IInv /\ LostInv => NoReportLost
  <2> SUFFICES ASSUME IInv, LostInv, Quiet PROVE host["kb"] = sent["kb"] \/ sent["kb"] <= base
    BY DEF NoReportLost
  <2>1. sent["kb"] \in Nat
    BY DEF IInv, TypeOK, Last, Type
  <2>2. Len(queue) = 0 /\ Len(fifo) = 0 /\ retry = 0
    BY DEF Quiet
  <2>3. PICK n \in Nat : n = sent["kb"]
    BY <2>1
  <2>4. n <= base \/ InPlay(n)
    BY <2>3 DEF LostInv, NotLost
  <2>5. InPlay(n) => host["kb"] = n
    BY <2>2 DEF InPlay, Arrived, Kb
  <2> QED
    BY <2>3, <2>4, <2>5
<1> QED
  BY <1>1, <1>2, <1>3, Invariance, PTL DEF Spec

-----------------------------------------------------------------------------
(* The ring buffers, of any size and elements.                             *)

\* An index runs around the ring at most once.
LEMMA Around ==
    ASSUME NEW size \in Nat, size >= 2, NEW i \in 0..(2 * size - 1)
    PROVE  i % size = IF i < size THEN i ELSE i - size
<1>1. CASE i < size
  BY <1>1
<1>2. CASE i >= size
  BY <1>2
<1> QED
  BY <1>1, <1>2

LEMMA NextSlot ==
    ASSUME NEW size \in Nat, size >= 2, NEW i \in Slot(size)
    PROVE  /\ After(size, i) \in Slot(size)
           /\ After(size, i) = IF i = size - 1 THEN 0 ELSE i + 1
<1>1. i + 1 \in 0..(2 * size - 1)
  BY DEF Slot
<1> QED
  BY <1>1, Around DEF After, Slot

\* The slot at a distance from the tail, and the distance from the next tail.
LEMMA DistanceFacts ==
    ASSUME NEW size \in Nat, size >= 2, NEW h \in Slot(size), NEW t \in Slot(size)
    PROVE  /\ Distance(size, h, t) \in 0..(size - 1)
           /\ \A i \in 1..Distance(size, h, t) : \E k \in Slot(size) :
                k # h /\ (k = t + i - 1 \/ k = t + i - 1 - size)
           /\ h # t => /\ Distance(size, h, t) >= 1
                       /\ Distance(size, h, After(size, t)) = Distance(size, h, t) - 1
           /\ After(size, h) # t => /\ Distance(size, h, t) < size - 1
                             /\ Distance(size, After(size, h), t) = Distance(size, h, t) + 1
<1>1. h \in 0..(size - 1) /\ t \in 0..(size - 1)
  BY DEF Slot
<1>2. /\ After(size, h) = IF h = size - 1 THEN 0 ELSE h + 1
      /\ After(size, t) = IF t = size - 1 THEN 0 ELSE t + 1
  BY NextSlot
<1>3. \A i \in 1..Distance(size, h, t) : \E k \in Slot(size) :
        k # h /\ (k = t + i - 1 \/ k = t + i - 1 - size)
  <2> TAKE i \in 1..Distance(size, h, t)
  <2>1. CASE t + i - 1 < size
    <3>1. t + i - 1 \in Slot(size) /\ t + i - 1 # h
      BY <1>1, <2>1 DEF Distance, Slot
    <3> QED
      BY <3>1
  <2>2. CASE t + i - 1 >= size
    <3>1. t + i - 1 - size \in Slot(size) /\ t + i - 1 - size # h
      BY <1>1, <2>2 DEF Distance, Slot
    <3> QED
      BY <3>1
  <2> QED
    BY <1>1, <2>1, <2>2 DEF Distance
<1>4. h # t => /\ Distance(size, h, t) >= 1
               /\ Distance(size, h, After(size, t)) = Distance(size, h, t) - 1
  BY <1>1, <1>2 DEF Distance
<1>5. After(size, h) # t => /\ Distance(size, h, t) < size - 1
                     /\ Distance(size, After(size, h), t) = Distance(size, h, t) + 1
  BY <1>1, <1>2 DEF Distance
<1> QED
  BY <1>1, <1>3, <1>4, <1>5 DEF Distance

\* The elements of a ring form a sequence shorter than the ring.
LEMMA ContentsType ==
    ASSUME NEW size \in Nat, size >= 2, NEW Item, NEW q \in Ring(size, Item)
    PROVE  /\ Used(size, q) \in 0..(size - 1)
           /\ Contents(size, q) \in Seq(Item) /\ Len(Contents(size, q)) = Used(size, q)
           /\ \A i \in 1..Used(size, q), k \in Slot(size) :
                k = q.tail + i - 1 \/ k = q.tail + i - 1 - size
                  => Contents(size, q)[i] = q.slot[k]
<1>1. q.head \in Slot(size) /\ q.tail \in Slot(size) /\ q.slot \in [Slot(size) -> Item]
  BY DEF Ring
<1>2. Used(size, q) \in 0..(size - 1)
  BY <1>1, DistanceFacts DEF Used
<1>3. \A i \in 1..Used(size, q) :
        /\ (q.tail + i - 1) % size \in Slot(size)
        /\ \A k \in Slot(size) : k = q.tail + i - 1 \/ k = q.tail + i - 1 - size
                            => (q.tail + i - 1) % size = k
  <2> TAKE i \in 1..Used(size, q)
  <2> DEFINE j == q.tail + i - 1
  <2>1. j \in 0..(2 * size - 1)
    BY <1>1, <1>2 DEF Slot
  <2> HIDE DEF j
  <2>2. j % size = IF j < size THEN j ELSE j - size
    BY <2>1, Around
  <2>3. j % size \in Slot(size) /\ \A k \in Slot(size) : k = j \/ k = j - size => j % size = k
    BY <2>1, <2>2 DEF Slot
  <2> QED
    BY <1>1, <1>2, <2>3 DEF j, Slot
<1>4. Contents(size, q) \in [1..Used(size, q) -> Item]
  BY <1>1, <1>3 DEF Contents
<1>5. Contents(size, q) \in Seq(Item) /\ Len(Contents(size, q)) = Used(size, q)
  BY <1>2, <1>4
<1>6. \A i \in 1..Used(size, q) : Contents(size, q)[i] = q.slot[(q.tail + i - 1) % size]
  BY DEF Contents
<1> QED
  BY <1>2, <1>3, <1>5, <1>6

\* The ring is empty when it has no elements, and full when the slot behind its
\* head is its tail.
LEMMA EmptyOrFull ==
    ASSUME NEW size \in Nat, size >= 2, NEW Item, NEW q \in Ring(size, Item)
    PROVE  /\ IsEmpty(q) <=> Used(size, q) = 0
           /\ After(size, q.head) = q.tail <=> Used(size, q) = size - 1
<1>1. q.head \in Slot(size) /\ q.tail \in Slot(size)
  BY DEF Ring
<1>2. After(size, q.head) = IF q.head = size - 1 THEN 0 ELSE q.head + 1
  BY <1>1, NextSlot
<1> QED
  BY <1>1, <1>2 DEF IsEmpty, Used, Distance, Slot

\* report_buffer_enqueue appends to a queue of size - 1 elements, and leaves a
\* full queue alone.
THEOREM EnqueueAppends ==
    ASSUME NEW size \in Nat, size >= 2, NEW Item, NEW q \in Ring(size, Item), NEW x \in Item
    PROVE  /\ Enqueue(size, q, x) \in Ring(size, Item)
           /\ Contents(size, Enqueue(size, q, x)) =
                IF Len(Contents(size, q)) < size - 1 THEN Append(Contents(size, q), x)
                ELSE Contents(size, q)
<1>1. q.head \in Slot(size) /\ q.tail \in Slot(size) /\ q.slot \in [Slot(size) -> Item]
  BY DEF Ring
<1>2. CASE After(size, q.head) = q.tail
  BY <1>2, EmptyOrFull, ContentsType DEF Enqueue
<1>3. CASE After(size, q.head) # q.tail
  <2> DEFINE r == Enqueue(size, q, x)
             n == Used(size, q)
  <2>1. /\ After(size, q.head) \in Slot(size)
        /\ After(size, q.head) = IF q.head = size - 1 THEN 0 ELSE q.head + 1
    BY <1>1, NextSlot
  <2>2. r = [q EXCEPT !.slot[q.head] = x, !.head = After(size, q.head)]
    BY <1>3 DEF Enqueue
  <2>3. /\ r.head = After(size, q.head) /\ r.tail = q.tail
        /\ r.slot = [q.slot EXCEPT ![q.head] = x]
    BY <2>2 DEF Ring
  <2>4. r \in Ring(size, Item)
    <3> DEFINE S == Slot(size)
    <3>1. /\ q \in [slot : [S -> Item], head : S, tail : S] /\ After(size, q.head) \in S
          /\ [q.slot EXCEPT ![q.head] = x] \in [S -> Item]
      BY <1>1, <2>1 DEF Ring
    <3> HIDE DEF S, r
    <3>2. r \in [slot : [S -> Item], head : S, tail : S]
      BY <2>2, <3>1
    <3> QED
      BY <3>2 DEF Ring, S
  <2> HIDE DEF r
  <2>5. n \in 0..(size - 2) /\ Used(size, r) = n + 1
    BY <1>1, <1>3, <2>3, DistanceFacts DEF Used
  <2>6. \A i \in 1..n : Contents(size, r)[i] = Contents(size, q)[i]
    <3> TAKE i \in 1..n
    <3>1. PICK k \in Slot(size) :
            k # q.head /\ (k = q.tail + i - 1 \/ k = q.tail + i - 1 - size)
      BY <1>1, DistanceFacts DEF Used
    <3>2. Contents(size, q)[i] = q.slot[k]
      BY <3>1, ContentsType
    <3>3. Contents(size, r)[i] = r.slot[k]
      <4>1. i \in 1..Used(size, r)
        BY <2>5
      <4>2. k = r.tail + i - 1 \/ k = r.tail + i - 1 - size
        BY <2>3, <3>1
      <4> QED
        BY <2>4, <3>1, <4>1, <4>2, ContentsType
    <3> QED
      BY <1>1, <2>3, <3>1, <3>2, <3>3
  <2>7. Contents(size, r)[n + 1] = x
    <3>1. /\ n + 1 \in 1..Used(size, r)
          /\ \/ q.head = r.tail + (n + 1) - 1
             \/ q.head = r.tail + (n + 1) - 1 - size
      <4> DEFINE h == q.head
                 t == q.tail
      <4>1. h \in 0..(size - 1) /\ t \in 0..(size - 1) /\ n = Distance(size, h, t)
        BY <1>1 DEF Used, Slot
      <4> HIDE DEF h, t, n
      <4>2. h = t + (n + 1) - 1 \/ h = t + (n + 1) - 1 - size
        BY <4>1 DEF Distance
      <4> QED
        BY <2>3, <2>5, <4>2 DEF h, t
    <3>2. Contents(size, r)[n + 1] = r.slot[q.head]
      BY <1>1, <2>4, <3>1, ContentsType
    <3> QED
      BY <1>1, <2>3, <3>2
  <2>8. /\ Contents(size, q) \in Seq(Item) /\ Len(Contents(size, q)) = n
        /\ Contents(size, r) \in Seq(Item) /\ Len(Contents(size, r)) = n + 1
    BY <2>4, <2>5, ContentsType
  <2> HIDE DEF n
  <2>9. Contents(size, r) = Append(Contents(size, q), x)
    BY <2>6, <2>7, <2>8, <2>5
  <2> QED
    BY <2>4, <2>5, <2>8, <2>9 DEF r
<1> QED
  BY <1>2, <1>3

\* report_buffer_dequeue takes the oldest element.
THEOREM DequeueTakesFirst ==
    ASSUME NEW size \in Nat, size >= 2, NEW Item, NEW q \in Ring(size, Item), ~IsEmpty(q)
    PROVE  /\ Dequeue(size, q) \in Ring(size, Item)
           /\ Contents(size, q) # <<>> /\ Front(q) = Head(Contents(size, q))
           /\ Contents(size, Dequeue(size, q)) = Tail(Contents(size, q))
<1> DEFINE r == Dequeue(size, q)
           n == Used(size, q)
<1>1. q.head \in Slot(size) /\ q.tail \in Slot(size) /\ q.slot \in [Slot(size) -> Item]
  BY DEF Ring
<1>2. /\ After(size, q.tail) \in Slot(size)
      /\ After(size, q.tail) = IF q.tail = size - 1 THEN 0 ELSE q.tail + 1
  BY <1>1, NextSlot
<1>3. /\ r.tail = After(size, q.tail) /\ r.head = q.head /\ r.slot = q.slot
      /\ r \in Ring(size, Item)
  BY <1>1, <1>2 DEF Dequeue, Ring
<1> HIDE DEF r
<1>4. n \in 1..(size - 1) /\ Used(size, r) = n - 1
  BY <1>1, <1>3, DistanceFacts DEF Used, IsEmpty
<1>5. /\ Contents(size, q) \in Seq(Item) /\ Len(Contents(size, q)) = n
      /\ Contents(size, r) \in Seq(Item) /\ Len(Contents(size, r)) = n - 1
  BY <1>3, <1>4, ContentsType
<1>6. Contents(size, q)[1] = q.slot[q.tail]
  <2>1. 1 \in 1..Used(size, q) /\ q.tail = q.tail + 1 - 1
    BY <1>1, <1>4 DEF Slot
  <2> QED
    BY <1>1, <2>1, ContentsType
<1>7. \A i \in 1..(n - 1) : Contents(size, r)[i] = Contents(size, q)[i + 1]
  <2> TAKE i \in 1..(n - 1)
  <2>1. i + 1 \in 1..Used(size, q) /\ i \in 1..Used(size, r)
    BY <1>4
  <2>2. PICK k \in Slot(size) :
          k = q.tail + (i + 1) - 1 \/ k = q.tail + (i + 1) - 1 - size
    <3>1. \A j \in 1..Used(size, q) : \E k \in Slot(size) :
            k = q.tail + j - 1 \/ k = q.tail + j - 1 - size
      BY <1>1, DistanceFacts DEF Used
    <3> QED
      BY <2>1, <3>1
  <2>3. k = r.tail + i - 1 \/ k = r.tail + i - 1 - size
    <3> DEFINE t == q.tail
               u == r.tail
    <3>1. /\ t \in 0..(size - 1) /\ k \in 0..(size - 1) /\ i \in Nat /\ i < size
          /\ u = IF t = size - 1 THEN 0 ELSE t + 1
          /\ k = t + (i + 1) - 1 \/ k = t + (i + 1) - 1 - size
      BY <1>1, <1>2, <1>3, <1>4, <2>2 DEF Slot
    <3> HIDE DEF t, u
    <3>2. k = u + i - 1 \/ k = u + i - 1 - size
      BY <3>1
    <3> QED
      BY <3>2 DEF u
  <2>4. Contents(size, q)[i + 1] = q.slot[k]
    BY <2>1, <2>2, ContentsType
  <2>5. Contents(size, r)[i] = r.slot[k]
    BY <1>3, <2>1, <2>3, ContentsType
  <2> QED
    BY <1>3, <2>4, <2>5
<1> HIDE DEF n
<1>8. Contents(size, r) = Tail(Contents(size, q))
  BY <1>4, <1>5, <1>7
<1>9. Contents(size, q) # <<>> /\ Head(Contents(size, q)) = Contents(size, q)[1]
  BY <1>4, <1>5
<1> QED
  BY <1>3, <1>6, <1>8, <1>9 DEF r, Front

\* wireless_event_enqueue appends too, and drops the oldest element of a full
\* queue.
THEOREM EnqueueOverKeepsLatest ==
    ASSUME NEW size \in Nat, size >= 2, NEW Item, NEW q \in Ring(size, Item), NEW x \in Item
    PROVE  /\ EnqueueOver(size, q, x) \in Ring(size, Item)
           /\ Contents(size, EnqueueOver(size, q, x)) =
                IF Len(Contents(size, q)) < size - 1 THEN Append(Contents(size, q), x)
                ELSE Append(Tail(Contents(size, q)), x)
<1>1. q.head \in Slot(size) /\ q.tail \in Slot(size) /\ q.slot \in [Slot(size) -> Item]
  BY DEF Ring
<1>2. CASE After(size, q.head) # q.tail
  <2>1. EnqueueOver(size, q, x) = Enqueue(size, q, x)
    <3>1. [q EXCEPT !.slot[q.head] = x, !.head = After(size, q.head), !.tail = q.tail]
            = [q EXCEPT !.slot[q.head] = x, !.head = After(size, q.head)]
      BY DEF Ring
    <3> QED
      BY <1>2, <3>1 DEF EnqueueOver, Enqueue
  <2>2. /\ Used(size, q) \in 0..(size - 1) /\ Used(size, q) # size - 1
        /\ Len(Contents(size, q)) = Used(size, q)
    BY <1>2, EmptyOrFull, ContentsType
  <2>3. Len(Contents(size, q)) < size - 1
    BY <2>2
  <2> QED
    BY <2>1, <2>3, EnqueueAppends
<1>3. CASE After(size, q.head) = q.tail
  <2> DEFINE d == Dequeue(size, q)
  <2>1. Used(size, q) = size - 1 /\ ~IsEmpty(q) /\ Len(Contents(size, q)) = size - 1
    BY <1>3, EmptyOrFull, ContentsType
  <2>2. d \in Ring(size, Item) /\ Contents(size, d) = Tail(Contents(size, q))
    BY <2>1, DequeueTakesFirst
  <2>3. /\ After(size, q.head) \in Slot(size) /\ After(size, q.tail) \in Slot(size)
        /\ After(size, q.tail) # q.tail
    BY <1>1, NextSlot DEF Slot
  <2>4. d.head = q.head /\ d.tail = After(size, q.tail) /\ d.slot = q.slot
    BY <1>1, <2>3 DEF Dequeue, Ring
  <2>5. EnqueueOver(size, q, x) = Enqueue(size, d, x)
    <3>1. After(size, d.head) # d.tail
      BY <1>3, <2>3, <2>4
    <3>2. Enqueue(size, d, x) = [d EXCEPT !.slot[d.head] = x, !.head = After(size, d.head)]
      BY <3>1 DEF Enqueue
    <3> QED
      BY <1>1, <1>3, <2>3, <2>4, <3>2 DEF EnqueueOver, Dequeue, Ring
  <2>6. Len(Contents(size, d)) < size - 1
    BY <2>1, <2>2, ContentsType
  <2> HIDE DEF d
  <2> QED
    BY <2>1, <2>2, <2>5, <2>6, EnqueueAppends
<1> QED
  BY <1>2, <1>3

\* The ring of report_buffer.c implements the queue of this specification: an
\* enqueue acts on its elements as Enqueued does, and a dequeue takes the head.
THEOREM RingImplementsQueue ==
    ASSUME NEW q \in Ring(QueueSize, Report), NEW r \in Report
    PROVE  /\ Enqueue(QueueSize, q, r) \in Ring(QueueSize, Report)
           /\ Contents(QueueSize, Enqueue(QueueSize, q, r)) = Enqueued(Contents(QueueSize, q), r)
           /\ ~IsEmpty(q) =>
                /\ Dequeue(QueueSize, q) \in Ring(QueueSize, Report)
                /\ Front(q) = Head(Contents(QueueSize, q))
                /\ Contents(QueueSize, Dequeue(QueueSize, q)) = Tail(Contents(QueueSize, q))
<1>1. QueueSize \in Nat /\ QueueSize >= 2
  BY ReportBufferAssumption
<1>2. /\ Enqueue(QueueSize, q, r) \in Ring(QueueSize, Report)
      /\ Contents(QueueSize, Enqueue(QueueSize, q, r)) = Enqueued(Contents(QueueSize, q), r)
  BY <1>1, EnqueueAppends DEF Enqueued
<1>3. ASSUME ~IsEmpty(q)
      PROVE  /\ Dequeue(QueueSize, q) \in Ring(QueueSize, Report)
             /\ Front(q) = Head(Contents(QueueSize, q))
             /\ Contents(QueueSize, Dequeue(QueueSize, q)) = Tail(Contents(QueueSize, q))
  BY <1>1, <1>3, DequeueTakesFirst
<1> QED
  BY <1>2, <1>3
=============================================================================
