------------------------------ MODULE RingQueue ------------------------------
(***************************************************************************)
(* The ring buffers of keyboards/keychron/common/wireless: the report      *)
(* queue of report_buffer.c, which refuses an element when it is full, and *)
(* the event queue of wireless.c, which drops its oldest element instead.  *)
(* Both keep one slot free to tell a full ring from an empty one.  The     *)
(* theorems of ReportBufferProofs show, for every size, that they implement *)
(* the operations on sequences that ReportBuffer uses in their place.       *)
(***************************************************************************)
EXTENDS Integers

\* size is REPORT_BUFFER_QUEUE_SIZE or WT_EVENT_QUEUE_SIZE.
Slot(size) == 0..(size - 1)
Ring(size, Item) == [slot : [Slot(size) -> Item], head : Slot(size), tail : Slot(size)]

After(size, i) == (i + 1) % size

IsEmpty(q) == q.head = q.tail

\* report_buffer_enqueue
Enqueue(size, q, x) ==
    IF After(size, q.head) = q.tail
    THEN q
    ELSE [q EXCEPT !.slot[q.head] = x, !.head = After(size, q.head)]

\* report_buffer_dequeue and wireless_event_dequeue, of a ring that is not empty
Dequeue(size, q) == [q EXCEPT !.tail = After(size, q.tail)]
Front(q) == q.slot[q.tail]

\* wireless_event_enqueue
EnqueueOver(size, q, x) ==
    [q EXCEPT !.slot[q.head] = x, !.head = After(size, q.head),
              !.tail = IF After(size, q.head) = q.tail THEN After(size, q.tail) ELSE q.tail]

\* The elements of a ring, oldest first.  The head is this far from the tail.
Distance(size, h, t) == IF t <= h THEN h - t ELSE h - t + size
Used(size, q) == Distance(size, q.head, q.tail)
Contents(size, q) == [i \in 1..Used(size, q) |-> q.slot[(q.tail + i - 1) % size]]
=============================================================================
