-------------------------- MODULE EventRingProofs --------------------------
(***************************************************************************)
(* Proofs about EventRing, for every queue size, arena size, column limit  *)
(* and every set of payloads and row bodies.                               *)
(***************************************************************************)
EXTENDS EventRing, TLAPS

\* Slot arithmetic: on the sums that occur, % is at most one subtraction.
LEMMA ModSmall ==
    ASSUME NEW a \in Slot
    PROVE  a % EventQueueSize = a
BY QueueSizeAssumption, SMTT(30) DEF Slot

LEMMA ModLarge ==
    ASSUME NEW a \in EventQueueSize .. (2 * EventQueueSize - 1)
    PROVE  a % EventQueueSize = a - EventQueueSize
BY QueueSizeAssumption, SMTT(30) DEF Slot

LEMMA SuccessorType ==
    ASSUME NEW s \in Slot
    PROVE  Successor(s) \in Slot
<1>1. CASE s + 1 \in Slot
  BY <1>1, ModSmall DEF Successor
<1>2. CASE s + 1 \notin Slot
  <2>1. s + 1 = EventQueueSize
    BY <1>2, QueueSizeAssumption DEF Slot
  <2> QED
    BY <2>1, ModLarge, QueueSizeAssumption DEF Successor, Slot
<1> QED
  BY <1>1, <1>2

LEMMA SequenceFacts ==
    ASSUME NEW S, NEW s \in Seq(S)
    PROVE  /\ s # <<>> => Head(s) \in S /\ Tail(s) \in Seq(S)
           /\ \A x \in S : Append(s, x) \in Seq(S)
           /\ \A n \in Nat : n < Len(s) => SubSeq(s, 1, n) \in Seq(S)
OBVIOUS

-----------------------------------------------------------------------------
(* The state stays within its types.                                       *)

LEMMA EnqueueType ==
    ASSUME TypeOK, NEW ev \in Event, Enqueue(ev)
    PROVE  /\ events' \in [Slot -> Event]
           /\ event_head' \in Slot
           /\ event_tail' \in Slot
           /\ event_count' \in 0 .. EventQueueSize
BY SuccessorType, QueueSizeAssumption DEF TypeOK, Enqueue

LEMMA ColumnType ==
    ASSUME TypeOK, NEW plen \in Nat \cup {NULL}
    PROVE  ColumnOf(plen) \in Column /\ ArenaAfter(plen) \in 0 .. RowArena
BY ArenaAssumption DEF TypeOK, ColumnOf, ArenaAfter, Fits, Column, NULL

LEMMA TypeInit == Init => TypeOK
BY QueueSizeAssumption, ArenaAssumption
DEF Init, TypeOK, Slot, Event, NoEvent, NoRow, Row

LEMMA TypeStep == TypeOK /\ [Next]_vars => TypeOK'
<1> SUFFICES ASSUME TypeOK, [Next]_vars
             PROVE  TypeOK'
  OBVIOUS
<1>1. ASSUME NEW p \in Payload, EnqueueEvent(p)
      PROVE  TypeOK'
  <2>1. [payload |-> p, cols |-> <<>>] \in Event
    BY DEF Event
  <2> QED
    BY <1>1, <2>1, EnqueueType DEF EnqueueEvent, TypeOK
<1>2. ASSUME NEW body \in RowBody, BeginRow(body)
      PROVE  TypeOK'
  <2>1. body \in Seq(Nat \cup {NULL})
    BY RowBodyAssumption
  <2>2. row' \in Row
    BY <1>2, <2>1, ArenaAssumption, SequenceFacts DEF BeginRow, Row
  <2> QED
    BY <1>2, <2>2 DEF BeginRow, TypeOK
<1>3. CASE CopyColumn
  <2> DEFINE plen == Head(row.todo)
  <2>1. /\ plen \in Nat \cup {NULL}
        /\ Tail(row.todo) \in Seq(Nat \cup {NULL})
    BY <1>3, SequenceFacts DEF CopyColumn, TypeOK, Row
  <2>2. ColumnOf(plen) \in Column /\ ArenaAfter(plen) \in 0 .. RowArena
    BY <2>1, ColumnType
  <2>3. Append(row.cols, ColumnOf(plen)) \in Seq(Column)
    BY <2>2, SequenceFacts DEF TypeOK, Row
  <2>4. row' \in Row
    BY <1>3, <2>1, <2>3 DEF CopyColumn, TypeOK, Row
  <2> QED
    BY <1>3, <2>2, <2>4 DEF CopyColumn, TypeOK
<1>4. CASE EndRow
  <2>1. [payload |-> DataRow, cols |-> row.cols] \in Event
    BY DEF TypeOK, Row, Event
  <2>2. row' \in Row
    BY <1>4 DEF EndRow, NoRow, Row
  <2> QED
    BY <1>4, <2>1, <2>2, EnqueueType DEF EndRow, TypeOK
<1>5. CASE DequeueEvent
  <2>1. events[event_head].cols \in Seq(Column)
    BY DEF TypeOK, Event
  <2>2. held' \in Seq(Column) /\ row_arena_used' \in 0 .. RowArena
    <3>1. CASE event_count' = 0
      <4>1. held' = <<>> /\ row_arena_used' = 0
        BY <1>5, <3>1 DEF DequeueEvent
      <4> QED
        BY <4>1, ArenaAssumption
    <3>2. CASE event_count' # 0
      BY <1>5, <2>1, <3>2 DEF DequeueEvent, TypeOK
    <3> QED
      BY <3>1, <3>2
  <2>3. event_head' \in Slot
    BY <1>5, SuccessorType DEF DequeueEvent, TypeOK
  <2>4. event_count' \in 0 .. EventQueueSize
    BY <1>5, QueueSizeAssumption DEF DequeueEvent, TypeOK
  <2> QED
    BY <1>5, <2>2, <2>3, <2>4 DEF DequeueEvent, TypeOK
<1>6. CASE ResetQueue
  BY <1>6, QueueSizeAssumption DEF ResetQueue, TypeOK, Slot
<1>7. CASE UNCHANGED vars
  BY <1>7 DEF vars, TypeOK
<1> QED
  BY <1>1, <1>2, <1>3, <1>4, <1>5, <1>6, <1>7 DEF Next

\* Every reachable state is well typed: in particular the arena counter never
\* exceeds the arena and no index leaves the ring.
THEOREM TypeCorrect == Spec => []TypeOK
BY TypeInit, TypeStep, PTL DEF Spec

-----------------------------------------------------------------------------
(* What enqueue_event and dequeue_event do to the queue as a sequence.     *)

Wrap(a) == IF a < EventQueueSize THEN a ELSE a - EventQueueSize

LEMMA ModWrap ==
    ASSUME NEW a \in 0 .. (2 * EventQueueSize - 1)
    PROVE  a % EventQueueSize = Wrap(a) /\ Wrap(a) \in Slot
<1>1. CASE a < EventQueueSize
  <2>1. a \in Slot
    BY <1>1, QueueSizeAssumption DEF Slot
  <2> QED
    BY <1>1, <2>1, ModSmall DEF Wrap
<1>2. CASE ~(a < EventQueueSize)
  <2>1. a \in EventQueueSize .. (2 * EventQueueSize - 1)
    BY <1>2, QueueSizeAssumption
  <2>2. a % EventQueueSize = a - EventQueueSize
    BY <2>1, ModLarge, Zenon
  <2> QED
    BY <1>2, <2>1, <2>2, QueueSizeAssumption DEF Wrap, Slot
<1> QED
  BY <1>1, <1>2

LEMMA SlotValue ==
    ASSUME NEW h \in Slot, NEW i \in 1 .. EventQueueSize
    PROVE  /\ SlotFrom(h, i) \in Slot
           /\ SlotFrom(h, i) = Wrap(h + (i - 1))
<1>1. h + (i - 1) \in 0 .. (2 * EventQueueSize - 1)
  BY QueueSizeAssumption DEF Slot
<1> QED
  BY <1>1, ModWrap, Zenon DEF SlotFrom

LEMMA SuccessorValue ==
    ASSUME NEW s \in Slot
    PROVE  Successor(s) = IF s + 1 < EventQueueSize THEN s + 1 ELSE 0
<1>1. CASE s + 1 < EventQueueSize
  BY <1>1, ModSmall, QueueSizeAssumption DEF Successor, Slot
<1>2. CASE ~(s + 1 < EventQueueSize)
  BY <1>2, ModLarge, QueueSizeAssumption DEF Successor, Slot
<1> QED
  BY <1>1, <1>2

\* The slots from the successor of h on are those from h on, one later.
LEMMA SlotShift ==
    ASSUME NEW h \in Slot, NEW i \in 1 .. EventQueueSize - 1
    PROVE  SlotFrom(Successor(h), i) = SlotFrom(h, i + 1)
<1>1. Successor(h) \in Slot
  BY SuccessorType
<1>2. /\ i \in 1 .. EventQueueSize
      /\ i + 1 \in 1 .. EventQueueSize
  BY QueueSizeAssumption
<1>3. SlotFrom(Successor(h), i) = Wrap(Successor(h) + (i - 1))
  BY <1>1, <1>2, SlotValue, Zenon
<1>4. SlotFrom(h, i + 1) = Wrap(h + ((i + 1) - 1))
  BY <1>2, SlotValue, Zenon
<1>5. Successor(h) = IF h + 1 < EventQueueSize THEN h + 1 ELSE 0
  BY SuccessorValue
<1> QED
  BY <1>3, <1>4, <1>5, QueueSizeAssumption DEF Slot, Wrap

\* Different positions of the queue are different slots.
LEMMA SlotsDistinct ==
    ASSUME NEW h \in Slot,
           NEW i \in 1 .. EventQueueSize, NEW j \in 1 .. EventQueueSize,
           SlotFrom(h, i) = SlotFrom(h, j)
    PROVE  i = j
<1>1. SlotFrom(h, i) = Wrap(h + (i - 1)) /\ SlotFrom(h, j) = Wrap(h + (j - 1))
  BY SlotValue, Zenon
<1>2. Wrap(h + (i - 1)) = Wrap(h + (j - 1))
  BY <1>1
<1> QED
  BY <1>2, QueueSizeAssumption DEF Slot, Wrap

\* The slot that enqueue_event writes: the first free one, or the oldest
\* event's if there is none.
LEMMA TailSlot ==
    ASSUME TypeOK, RingConsistent
    PROVE  event_tail = IF event_count < EventQueueSize
                        THEN SlotFrom(event_head, event_count + 1)
                        ELSE event_head
<1>1. CASE event_count < EventQueueSize
  <2>1. event_head + ((event_count + 1) - 1) = event_head + event_count
    BY QueueSizeAssumption DEF TypeOK, Slot
  <2> QED
    BY <1>1, <2>1 DEF RingConsistent, SlotFrom
<1>2. CASE ~(event_count < EventQueueSize)
  <2>1. event_count = EventQueueSize
    BY <1>2, QueueSizeAssumption DEF TypeOK
  <2>2. /\ event_head + event_count \in EventQueueSize .. 2 * EventQueueSize - 1
        /\ (event_head + event_count) - EventQueueSize = event_head
    BY <2>1, QueueSizeAssumption DEF TypeOK, Slot
  <2>3. event_tail = (event_head + event_count) - EventQueueSize
    BY <2>2, ModLarge, Zenon DEF RingConsistent
  <2> QED
    BY <1>2, <2>2, <2>3
<1> QED
  BY <1>1, <1>2

LEMMA EnqueueNotFull ==
    ASSUME TypeOK, RingConsistent, NEW ev \in Event, Enqueue(ev),
           event_count < EventQueueSize
    PROVE  /\ RingConsistent'
           /\ event_count' = event_count + 1
           /\ \A i \in 1 .. event_count : Queue'[i] = Queue[i]
           /\ Queue'[event_count + 1] = ev
<1> DEFINE h == event_head
           n == event_count
<1>1. /\ h \in Slot /\ n \in Nat /\ n + 1 \in 1 .. EventQueueSize
      /\ event_tail \in Slot
  BY QueueSizeAssumption DEF TypeOK
<1>2. event_tail = SlotFrom(h, n + 1)
  BY TailSlot
<1>3. /\ events' = [events EXCEPT ![event_tail] = ev]
      /\ event_tail' = Successor(event_tail)
      /\ event_head' = h
      /\ event_count' = n + 1
  BY QueueSizeAssumption DEF Enqueue, TypeOK
<1>4. Queue' = [i \in 1 .. n + 1 |-> events'[SlotFrom(h, i)]]
  BY <1>3 DEF Queue
<1>5. ASSUME NEW i \in 1 .. n
      PROVE  Queue'[i] = Queue[i]
  <2>1. i \in 1 .. n + 1 /\ i \in 1 .. EventQueueSize /\ i # n + 1
    BY <1>1, QueueSizeAssumption
  <2>2. SlotFrom(h, i) \in Slot /\ SlotFrom(h, i) # event_tail
    BY <1>1, <1>2, <2>1, SlotsDistinct, SlotValue
  <2>3. Queue'[i] = events'[SlotFrom(h, i)]
    BY <1>4, <2>1
  <2>4. events'[SlotFrom(h, i)] = events[SlotFrom(h, i)]
    BY <1>3, <2>2 DEF TypeOK
  <2> QED
    BY <2>3, <2>4 DEF Queue
<1>6. Queue'[n + 1] = ev
  <2>1. events'[event_tail] = ev
    BY <1>1, <1>3 DEF TypeOK
  <2>2. n + 1 \in 1 .. n + 1
    BY <1>1
  <2> QED
    BY <1>2, <1>4, <2>1, <2>2
<1>7. RingConsistent'
  <2>1. SlotFrom(h, n + 1) = Wrap(h + n)
    <3>1. (n + 1) - 1 = n
      BY <1>1
    <3> QED
      BY <1>1, <3>1, SlotValue
  <2>2. event_tail' = IF Wrap(h + n) + 1 < EventQueueSize
                      THEN Wrap(h + n) + 1 ELSE 0
    BY <1>1, <1>2, <1>3, <2>1, SuccessorValue
  <2>3. event_tail' = Wrap(h + (n + 1))
    BY <1>1, <2>2, QueueSizeAssumption DEF Wrap, Slot
  <2>4. (h + (n + 1)) % EventQueueSize = Wrap(h + (n + 1))
    <3>1. h + (n + 1) \in 0 .. (2 * EventQueueSize - 1)
      BY <1>1, QueueSizeAssumption DEF Slot
    <3> QED
      BY <3>1, ModWrap, Zenon
  <2> QED
    BY <1>3, <2>3, <2>4 DEF RingConsistent
<1> QED
  BY <1>3, <1>5, <1>6, <1>7

LEMMA EnqueueFull ==
    ASSUME TypeOK, RingConsistent, NEW ev \in Event, Enqueue(ev),
           event_count = EventQueueSize
    PROVE  /\ RingConsistent'
           /\ event_count' = event_count
           /\ \A i \in 1 .. event_count - 1 : Queue'[i] = Queue[i + 1]
           /\ Queue'[event_count] = ev
<1> DEFINE h == event_head
           n == event_count
<1>1. /\ h \in Slot /\ n \in Nat \ {0} /\ n \in 1 .. EventQueueSize
      /\ Successor(h) \in Slot
  BY QueueSizeAssumption, SuccessorType DEF TypeOK
<1>2. event_tail = h
  BY TailSlot, QueueSizeAssumption
<1>3. /\ events' = [events EXCEPT ![h] = ev]
      /\ event_tail' = Successor(h)
      /\ event_head' = Successor(h)
      /\ event_count' = n
  BY <1>2, QueueSizeAssumption DEF Enqueue, TypeOK
<1>4. Queue' = [i \in 1 .. n |-> events'[SlotFrom(Successor(h), i)]]
  BY <1>3 DEF Queue
<1>5. SlotFrom(h, 1) = h
  <2>1. 1 \in 1 .. EventQueueSize /\ h + (1 - 1) = h /\ h < EventQueueSize
    BY <1>1, QueueSizeAssumption DEF Slot
  <2> QED
    BY <1>1, <2>1, SlotValue DEF Wrap
<1>6. ASSUME NEW i \in 1 .. n - 1
      PROVE  Queue'[i] = Queue[i + 1]
  <2>1. /\ i \in 1 .. n /\ i + 1 \in 1 .. n /\ i \in 1 .. EventQueueSize - 1
        /\ i + 1 \in 1 .. EventQueueSize /\ 1 \in 1 .. EventQueueSize /\ i + 1 # 1
    BY <1>1
  <2>2. SlotFrom(Successor(h), i) = SlotFrom(h, i + 1)
    BY <1>1, <2>1, SlotShift
  <2>3. SlotFrom(h, i + 1) \in Slot
    BY <1>1, <2>1, SlotValue
  <2>4. SlotFrom(h, i + 1) # h
    BY <1>1, <1>5, <2>1, SlotsDistinct
  <2>5. Queue'[i] = events'[SlotFrom(h, i + 1)]
    BY <1>4, <2>1, <2>2
  <2>6. events'[SlotFrom(h, i + 1)] = events[SlotFrom(h, i + 1)]
    BY <1>3, <2>3, <2>4 DEF TypeOK
  <2> QED
    BY <2>1, <2>5, <2>6 DEF Queue
<1>7. Queue'[n] = ev
  <2>1. SlotFrom(Successor(h), n) = h
    <3>1. SlotFrom(Successor(h), n) = Wrap(Successor(h) + (n - 1))
      BY <1>1, SlotValue
    <3>2. Successor(h) = IF h + 1 < EventQueueSize THEN h + 1 ELSE 0
      BY <1>1, SuccessorValue
    <3> QED
      BY <1>1, <3>1, <3>2, QueueSizeAssumption DEF Wrap, Slot
  <2>2. n \in 1 .. n
    BY <1>1
  <2>3. events'[h] = ev
    BY <1>1, <1>3 DEF TypeOK
  <2> QED
    BY <1>4, <2>1, <2>2, <2>3
<1>8. RingConsistent'
  <2>1. /\ Successor(h) + n \in EventQueueSize .. (2 * EventQueueSize - 1)
        /\ (Successor(h) + n) - EventQueueSize = Successor(h)
    BY <1>1, QueueSizeAssumption DEF Slot
  <2>2. (Successor(h) + n) % EventQueueSize = (Successor(h) + n) - EventQueueSize
    BY <2>1, ModLarge, Zenon
  <2> QED
    BY <1>3, <2>1, <2>2 DEF RingConsistent
<1> QED
  BY <1>3, <1>6, <1>7, <1>8

LEMMA DequeueQueue ==
    ASSUME TypeOK, RingConsistent, DequeueEvent
    PROVE  /\ RingConsistent'
           /\ event_count' = event_count - 1
           /\ \A i \in 1 .. event_count - 1 : Queue'[i] = Queue[i + 1]
           /\ Queue[1] = events[event_head]
<1> DEFINE h == event_head
           n == event_count
<1>1. /\ h \in Slot /\ n \in 1 .. EventQueueSize /\ Successor(h) \in Slot
      /\ n \in Nat \ {0}
  BY QueueSizeAssumption, SuccessorType DEF TypeOK, DequeueEvent
<1>2. /\ events' = events
      /\ event_tail' = event_tail
      /\ event_head' = Successor(h)
      /\ event_count' = n - 1
  BY DEF DequeueEvent
<1>3. Queue' = [i \in 1 .. n - 1 |-> events[SlotFrom(Successor(h), i)]]
  BY <1>2 DEF Queue
<1>4. ASSUME NEW i \in 1 .. n - 1
      PROVE  Queue'[i] = Queue[i + 1]
  <2>1. i \in 1 .. EventQueueSize - 1 /\ i + 1 \in 1 .. n
    BY <1>1, QueueSizeAssumption
  <2>2. SlotFrom(Successor(h), i) = SlotFrom(h, i + 1)
    BY <1>1, <2>1, SlotShift
  <2> QED
    BY <1>3, <2>1, <2>2 DEF Queue
<1>5. Queue[1] = events[h]
  <2>1. 1 \in 1 .. EventQueueSize /\ h + (1 - 1) = h /\ h < EventQueueSize
    BY <1>1, QueueSizeAssumption DEF Slot
  <2>2. SlotFrom(h, 1) = h
    BY <1>1, <2>1, SlotValue DEF Wrap
  <2>3. 1 \in 1 .. n
    BY <1>1
  <2> QED
    BY <2>2, <2>3 DEF Queue
<1>6. RingConsistent'
  <2>1. /\ h + n \in 0 .. (2 * EventQueueSize - 1)
        /\ Successor(h) + (n - 1) \in 0 .. (2 * EventQueueSize - 1)
    BY <1>1, QueueSizeAssumption DEF Slot
  <2>2. /\ (h + n) % EventQueueSize = Wrap(h + n)
        /\ (Successor(h) + (n - 1)) % EventQueueSize = Wrap(Successor(h) + (n - 1))
    BY <2>1, ModWrap, Zenon
  <2>3. Successor(h) = IF h + 1 < EventQueueSize THEN h + 1 ELSE 0
    BY <1>1, SuccessorValue
  <2>4. Wrap(h + n) = Wrap(Successor(h) + (n - 1))
    BY <1>1, <2>3, QueueSizeAssumption DEF Wrap, Slot
  <2> QED
    BY <1>2, <2>2, <2>4 DEF RingConsistent
<1> QED
  BY <1>2, <1>4, <1>5, <1>6

-----------------------------------------------------------------------------
(* The arena.                                                              *)

\* Outside parse_data_row there is no row under construction.
RowIdle == ~row.active => row.cols = <<>>

\* The inductive invariant: the order of the queued columns follows the order
\* of the queue, so the lemmas above carry it along.
IInv ==
    /\ TypeOK
    /\ RowIdle
    /\ RingConsistent
    /\ QueuedRowsIntact
    /\ DeliveredRowIntact

LEMMA EmptyRow ==
    ASSUME NEW s, NEW b
    PROVE  /\ Increasing(<<>>)
           /\ Below(<<>>, b)
           /\ AllBefore(s, <<>>)
           /\ AllBefore(<<>>, s)
BY DEF Increasing, Below, AllBefore

LEMMA BelowWeaken ==
    ASSUME NEW s \in Seq(Column), NEW b \in Nat, NEW c \in Nat, b <= c, Below(s, b)
    PROVE  Below(s, c)
<1> SUFFICES ASSUME NEW k \in DOMAIN s, Stored(s[k])
             PROVE  s[k].off + s[k].len <= c
  BY DEF Below
<1>1. s[k].off \in Int /\ s[k].len \in Int
  <2>1. s[k] \in Column
    OBVIOUS
  <2> QED
    BY <2>1 DEF Column, NULL
<1>2. s[k].off + s[k].len <= b
  BY DEF Below
<1> QED
  BY <1>1, <1>2

LEMMA EnqueueIntact ==
    ASSUME TypeOK, RingConsistent, QueuedRowsIntact, DeliveredRowIntact,
           NEW ev \in Event, Enqueue(ev),
           row_arena_used' = row_arena_used, held' = held, row'.cols = <<>>,
           Increasing(ev.cols), Below(ev.cols, row_arena_used),
           AllBefore(held, ev.cols),
           \A i \in 1 .. event_count : AllBefore(Queue[i].cols, ev.cols)
    PROVE  RingConsistent' /\ QueuedRowsIntact' /\ DeliveredRowIntact'
<1>0. event_count \in Nat /\ EventQueueSize \in Nat
  BY QueueSizeAssumption DEF TypeOK
<1>1. PICK d \in {0, 1} :
        /\ RingConsistent'
        /\ event_count' = (event_count - d) + 1
        /\ \A i \in 1 .. event_count - d :
              Queue'[i] = Queue[i + d] /\ i + d \in 1 .. event_count
        /\ Queue'[event_count'] = ev
  <2>1. CASE event_count < EventQueueSize
    <3>1. \A i \in 1 .. event_count - 0 :
              Queue'[i] = Queue[i + 0] /\ i + 0 \in 1 .. event_count
      BY <1>0, <2>1, EnqueueNotFull
    <3>2. event_count' = (event_count - 0) + 1
      BY <1>0, <2>1, EnqueueNotFull
    <3> QED
      BY <1>0, <2>1, <3>1, <3>2, EnqueueNotFull
  <2>2. CASE event_count = EventQueueSize
    <3>1. \A i \in 1 .. event_count - 1 :
              Queue'[i] = Queue[i + 1] /\ i + 1 \in 1 .. event_count
      BY <1>0, <2>2, EnqueueFull
    <3>2. event_count' = (event_count - 1) + 1
      BY <1>0, <2>2, EnqueueFull
    <3> QED
      BY <1>0, <2>2, <3>1, <3>2, EnqueueFull
  <2> QED
    BY <1>0, <2>1, <2>2, QueueSizeAssumption DEF TypeOK
<1>2. ASSUME NEW i \in 1 .. event_count'
      PROVE  \/ i = event_count' /\ Queue'[i] = ev
             \/ /\ i \in 1 .. event_count - d
                /\ Queue'[i] = Queue[i + d]
                /\ i + d \in 1 .. event_count
  BY <1>0, <1>1
<1>3. QueuedRowsIntact'
  <2>1. ASSUME NEW i \in 1 .. event_count'
        PROVE  /\ Increasing(Queue'[i].cols)
               /\ Below(Queue'[i].cols, row_arena_used)
               /\ AllBefore(Queue'[i].cols, <<>>)
    BY <1>2, EmptyRow, Zenon DEF QueuedRowsIntact
  <2>2. ASSUME NEW i \in 1 .. event_count', NEW j \in 1 .. event_count', i < j
        PROVE  AllBefore(Queue'[i].cols, Queue'[j].cols)
    <3>1. i # event_count'
      BY <1>0, <1>1, <2>2
    <3>2. Queue'[i] = Queue[i + d] /\ i + d \in 1 .. event_count
      BY <1>2, <3>1
    <3>3. CASE j = event_count'
      BY <1>2, <1>1, <3>2, <3>3
    <3>4. CASE j # event_count'
      <4>1. Queue'[j] = Queue[j + d] /\ j + d \in 1 .. event_count
        BY <1>2, <3>4
      <4>2. i + d < j + d
        BY <1>0, <1>1, <2>2
      <4> QED
        BY <3>2, <4>1, <4>2 DEF QueuedRowsIntact
    <3> QED
      BY <3>3, <3>4
  <2> QED
    BY <2>1, <2>2, EmptyRow DEF QueuedRowsIntact
<1>4. DeliveredRowIntact'
  <2>1. ASSUME NEW i \in 1 .. event_count'
        PROVE  AllBefore(held, Queue'[i].cols)
    BY <1>2, Zenon DEF DeliveredRowIntact
  <2> QED
    BY <2>1, EmptyRow DEF DeliveredRowIntact
<1> QED
  BY <1>1, <1>3, <1>4

\* A column that parse_data_row stores lies above every column that is below
\* the arena counter.
LEMMA AppendBefore ==
    ASSUME TypeOK, NEW plen \in Nat \cup {NULL},
           NEW s \in Seq(Column), NEW t \in Seq(Column),
           Below(s, row_arena_used), AllBefore(s, t)
    PROVE  AllBefore(s, Append(t, ColumnOf(plen)))
<1> SUFFICES ASSUME NEW k \in DOMAIN s, NEW l \in DOMAIN Append(t, ColumnOf(plen))
             PROVE  Before(s[k], Append(t, ColumnOf(plen))[l])
  BY DEF AllBefore
<1>1. CASE l \in DOMAIN t
  <2>1. Append(t, ColumnOf(plen))[l] = t[l]
    BY <1>1
  <2> QED
    BY <1>1, <2>1 DEF AllBefore
<1>2. CASE l \notin DOMAIN t
  <2>1. Append(t, ColumnOf(plen))[l] = ColumnOf(plen)
    BY <1>2
  <2>2. Before(s[k], ColumnOf(plen))
    BY DEF Before, Below, ColumnOf, Stored
  <2> QED
    BY <2>1, <2>2
<1> QED
  BY <1>1, <1>2

LEMMA AppendIncreasing ==
    ASSUME TypeOK, NEW plen \in Nat \cup {NULL}, NEW s \in Seq(Column),
           Below(s, row_arena_used), Increasing(s)
    PROVE  /\ Increasing(Append(s, ColumnOf(plen)))
           /\ Below(Append(s, ColumnOf(plen)), ArenaAfter(plen))
<1> DEFINE c == ColumnOf(plen)
           t == Append(s, c)
<1>1. c \in Column /\ t \in Seq(Column)
  BY ColumnType
<1>2. DOMAIN s = 1 .. Len(s) /\ DOMAIN t = 1 .. Len(s) + 1 /\ Len(s) \in Nat
  BY <1>1
<1>3. \A k \in 1 .. Len(s) : t[k] = s[k]
  BY <1>1, <1>2
<1>4. t[Len(s) + 1] = c
  BY <1>1, <1>2
<1>5. Stored(c) => c.off = row_arena_used /\ c.off + c.len = ArenaAfter(plen)
  BY DEF Stored, ColumnOf, ArenaAfter
<1>6. row_arena_used <= ArenaAfter(plen) /\ row_arena_used \in Nat
      /\ ArenaAfter(plen) \in Nat
  BY DEF ArenaAfter, TypeOK, NULL
<1>7. \A k \in 1 .. Len(s) : Before(s[k], c)
  BY <1>2, <1>5 DEF Before, Below
<1>8. Increasing(t)
  <2> HIDE DEF c, t
  <2> SUFFICES ASSUME NEW k \in 1 .. Len(s) + 1, NEW l \in 1 .. Len(s) + 1, k < l
               PROVE  Before(t[k], t[l])
    BY <1>2 DEF Increasing
  <2>1. k \in 1 .. Len(s)
    BY <1>2
  <2>2. CASE l \in 1 .. Len(s)
    BY <1>2, <1>3, <2>1, <2>2 DEF Increasing
  <2>3. CASE l = Len(s) + 1
    BY <1>3, <1>4, <1>7, <2>1, <2>3
  <2> QED
    BY <1>2, <2>2, <2>3
<1>9. Below(t, ArenaAfter(plen))
  <2>1. Below(s, ArenaAfter(plen))
    BY <1>6, BelowWeaken
  <2> HIDE DEF c, t
  <2> SUFFICES ASSUME NEW k \in 1 .. Len(s) + 1, Stored(t[k])
               PROVE  t[k].off + t[k].len <= ArenaAfter(plen)
    BY <1>2 DEF Below
  <2>2. CASE k \in 1 .. Len(s)
    BY <1>2, <1>3, <2>1, <2>2 DEF Below
  <2>3. CASE k = Len(s) + 1
    BY <1>4, <1>5, <1>6, <2>3
  <2> QED
    BY <1>2, <2>2, <2>3
<1> QED
  BY <1>8, <1>9

LEMMA IInvInit == Init => IInv
<1> SUFFICES ASSUME Init
             PROVE  IInv
  OBVIOUS
<1>1. TypeOK
  BY TypeInit
<1>2. RowIdle
  BY DEF Init, RowIdle, NoRow
<1>3. RingConsistent
  <2>1. 0 \in Slot /\ event_head + event_count = 0
    BY QueueSizeAssumption DEF Init, Slot
  <2> QED
    BY <2>1, ModSmall DEF Init, RingConsistent
<1>4. row.cols = <<>> /\ held = <<>> /\ event_count = 0
  BY DEF Init, NoRow
<1>5. QueuedRowsIntact /\ DeliveredRowIntact
  <2>1. 1 .. event_count = {}
    BY <1>4
  <2> QED
    BY <1>4, <2>1, EmptyRow, Zenon DEF QueuedRowsIntact, DeliveredRowIntact
<1> QED
  BY <1>1, <1>2, <1>3, <1>5 DEF IInv

LEMMA IInvStep == IInv /\ [Next]_vars => IInv'
<1> SUFFICES ASSUME IInv, [Next]_vars
             PROVE  RowIdle' /\ RingConsistent' /\ QueuedRowsIntact' /\ DeliveredRowIntact'
  BY TypeStep DEF IInv
<1> USE DEF IInv
<1>0. /\ event_count \in Nat
      /\ \A i \in 1 .. event_count : Queue[i].cols \in Seq(Column)
      /\ row.cols \in Seq(Column)
  <2>1. ASSUME NEW i \in 1 .. event_count
        PROVE  Queue[i].cols \in Seq(Column)
    <3>1. event_head \in Slot /\ i \in 1 .. EventQueueSize
      BY QueueSizeAssumption DEF TypeOK
    <3>2. SlotFrom(event_head, i) \in Slot
      BY <3>1, SlotValue
    <3> QED
      BY <3>2 DEF Queue, TypeOK, Event
  <2> QED
    BY <2>1 DEF TypeOK, Row
<1>1. ASSUME NEW p \in Payload, EnqueueEvent(p)
      PROVE  RowIdle' /\ RingConsistent' /\ QueuedRowsIntact' /\ DeliveredRowIntact'
  <2> DEFINE ev == [payload |-> p, cols |-> <<>>]
  <2>1. ev \in Event /\ ev.cols = <<>> /\ Enqueue(ev)
    BY <1>1 DEF EnqueueEvent, Event
  <2>2. row_arena_used' = row_arena_used /\ held' = held /\ row' = row
        /\ row'.cols = <<>>
    BY <1>1 DEF EnqueueEvent, RowIdle
  <2>3. RowIdle'
    BY <2>2 DEF RowIdle
  <2> HIDE DEF ev
  <2> QED
    BY <2>1, <2>2, <2>3, EmptyRow, EnqueueIntact
<1>2. ASSUME NEW body \in RowBody, BeginRow(body)
      PROVE  RowIdle' /\ RingConsistent' /\ QueuedRowsIntact' /\ DeliveredRowIntact'
  <2>1. /\ row'.active /\ row'.cols = <<>> /\ row.cols = <<>>
        /\ Queue' = Queue /\ event_count' = event_count /\ held' = held
        /\ row_arena_used' = row_arena_used /\ RingConsistent'
    BY <1>2 DEF BeginRow, RowIdle, Queue, RingConsistent
  <2> QED
    BY <2>1, Zenon DEF RowIdle, QueuedRowsIntact, DeliveredRowIntact
<1>3. CASE CopyColumn
  <2> DEFINE plen == Head(row.todo)
  <2>1. plen \in Nat \cup {NULL}
    BY <1>3, SequenceFacts DEF CopyColumn, TypeOK, Row
  <2>2. /\ row'.active /\ row'.cols = Append(row.cols, ColumnOf(plen))
        /\ Queue' = Queue /\ event_count' = event_count /\ held' = held
        /\ row_arena_used' = ArenaAfter(plen) /\ RingConsistent'
    BY <1>3 DEF CopyColumn, Queue, RingConsistent
  <2> HIDE DEF plen
  <2>3. /\ row_arena_used \in Nat /\ ArenaAfter(plen) \in Nat
        /\ row_arena_used <= ArenaAfter(plen)
    BY <2>1 DEF ArenaAfter, TypeOK, NULL
  <2>4. ASSUME NEW s \in Seq(Column), Below(s, row_arena_used), AllBefore(s, row.cols)
        PROVE  Below(s, ArenaAfter(plen)) /\ AllBefore(s, row'.cols)
    BY <1>0, <2>1, <2>2, <2>3, <2>4, BelowWeaken, AppendBefore
  <2>5. Increasing(row'.cols) /\ Below(row'.cols, ArenaAfter(plen))
    BY <1>0, <2>1, <2>2, AppendIncreasing DEF QueuedRowsIntact
  <2>6. QueuedRowsIntact'
    BY <1>0, <2>2, <2>4, <2>5 DEF QueuedRowsIntact
  <2>7. DeliveredRowIntact'
    BY <2>2, <2>4 DEF DeliveredRowIntact, TypeOK
  <2> QED
    BY <2>2, <2>6, <2>7 DEF RowIdle
<1>4. CASE EndRow
  <2> DEFINE ev == [payload |-> DataRow, cols |-> row.cols]
  <2>1. ev \in Event /\ ev.cols = row.cols /\ Enqueue(ev)
    BY <1>0, <1>4 DEF EndRow, Event
  <2>2. row_arena_used' = row_arena_used /\ held' = held /\ row'.cols = <<>>
    BY <1>4 DEF EndRow, NoRow
  <2> HIDE DEF ev
  <2>3. /\ Increasing(ev.cols) /\ Below(ev.cols, row_arena_used)
        /\ AllBefore(held, ev.cols)
        /\ \A i \in 1 .. event_count : AllBefore(Queue[i].cols, ev.cols)
    BY <2>1 DEF QueuedRowsIntact, DeliveredRowIntact
  <2> QED
    BY <2>1, <2>2, <2>3, EnqueueIntact DEF RowIdle
<1>5. CASE DequeueEvent
  <2>1. /\ row' = row /\ row.cols = <<>> /\ event_count > 0
    BY <1>5 DEF DequeueEvent, RowIdle
  <2>2. /\ RingConsistent'
        /\ event_count' = event_count - 1
        /\ \A i \in 1 .. event_count - 1 : Queue'[i] = Queue[i + 1]
        /\ Queue[1] = events[event_head]
    BY <1>5, DequeueQueue
  <2>3. CASE event_count' = 0
    <3>1. held' = <<>>
      BY <1>5, <2>3 DEF DequeueEvent
    <3>2. 1 .. event_count' = {}
      BY <2>3
    <3> QED
      BY <2>1, <2>2, <3>1, <3>2, EmptyRow, Zenon
      DEF RowIdle, QueuedRowsIntact, DeliveredRowIntact
  <2>4. CASE event_count' # 0
    <3>1. row_arena_used' = row_arena_used /\ held' = Queue[1].cols
      BY <1>5, <2>2, <2>4 DEF DequeueEvent
    <3>2. ASSUME NEW i \in 1 .. event_count'
          PROVE  /\ Queue'[i] = Queue[i + 1] /\ i + 1 \in 1 .. event_count
                 /\ 1 \in 1 .. event_count /\ 1 < i + 1
      BY <1>0, <2>1, <2>2
    <3>3. QueuedRowsIntact'
      <4>1. ASSUME NEW i \in 1 .. event_count', NEW j \in 1 .. event_count', i < j
            PROVE  AllBefore(Queue'[i].cols, Queue'[j].cols)
        <5>1. i + 1 < j + 1
          BY <1>0, <2>2, <4>1
        <5> QED
          BY <3>2, <5>1 DEF QueuedRowsIntact
      <4>2. ASSUME NEW i \in 1 .. event_count'
            PROVE  /\ Increasing(Queue'[i].cols)
                   /\ Below(Queue'[i].cols, row_arena_used)
                   /\ AllBefore(Queue'[i].cols, row.cols)
        BY <3>2 DEF QueuedRowsIntact
      <4> QED
        BY <2>1, <3>1, <4>1, <4>2 DEF QueuedRowsIntact
    <3>4. DeliveredRowIntact'
      <4>1. 1 \in 1 .. event_count
        BY <1>0, <2>1
      <4>2. ASSUME NEW i \in 1 .. event_count'
            PROVE  AllBefore(Queue[1].cols, Queue'[i].cols)
        BY <3>2 DEF QueuedRowsIntact
      <4> QED
        BY <2>1, <3>1, <4>1, <4>2 DEF QueuedRowsIntact, DeliveredRowIntact
    <3> QED
      BY <2>1, <2>2, <3>3, <3>4 DEF RowIdle
  <2> QED
    BY <2>3, <2>4
<1>6. CASE ResetQueue
  <2>1. /\ row' = row /\ held' = held /\ row_arena_used' = row_arena_used
        /\ event_head' = 0 /\ event_tail' = 0 /\ event_count' = 0
        /\ 1 .. event_count' = {}
    BY <1>6 DEF ResetQueue
  <2>2. RingConsistent'
    <3>1. 0 \in Slot /\ 0 + 0 = 0
      BY QueueSizeAssumption DEF Slot
    <3> QED
      BY <2>1, <3>1, ModSmall DEF RingConsistent
  <2> QED
    BY <2>1, <2>2, Zenon DEF RowIdle, QueuedRowsIntact, DeliveredRowIntact
<1>7. CASE UNCHANGED vars
  BY <1>7 DEF vars, RowIdle, RingConsistent, QueuedRowsIntact,
              DeliveredRowIntact, Queue
<1> QED
  BY <1>1, <1>2, <1>3, <1>4, <1>5, <1>6, <1>7 DEF Next

\* enqueue_event, dequeue_event and reset keep head, tail and count agreed.
THEOREM RingCorrect == Spec => []RingConsistent
BY IInvInit, IInvStep, PTL DEF Spec, IInv

\* parse_data_row never overwrites column bytes of a queued DataRow.
THEOREM ArenaCorrect == Spec => []QueuedRowsIntact
BY IInvInit, IInvStep, PTL DEF Spec, IInv

\* Nor does it overwrite those of the row that pqwire_next_event delivered
\* last, as long as the queue has not been empty since.
THEOREM DeliveredCorrect == Spec => []DeliveredRowIntact
BY IInvInit, IInvStep, PTL DEF Spec, IInv

-----------------------------------------------------------------------------
(* The ring implements the bounded FIFO that drops its oldest item.        *)

QueueOK ==
    /\ Queue \in Seq(Event)
    /\ Len(Queue) = event_count
    /\ event_count \in Nat

LEMMA QueueType == TypeOK => QueueOK
<1> SUFFICES ASSUME TypeOK
             PROVE  QueueOK
  OBVIOUS
<1>1. event_count \in Nat /\ DOMAIN Queue = 1 .. event_count
  BY QueueSizeAssumption DEF TypeOK, Queue
<1>2. ASSUME NEW i \in 1 .. event_count
      PROVE  Queue[i] \in Event
  <2>1. event_head \in Slot /\ i \in 1 .. EventQueueSize
    BY QueueSizeAssumption DEF TypeOK
  <2>2. SlotFrom(event_head, i) \in Slot
    BY <2>1, SlotValue
  <2> QED
    BY <2>2 DEF Queue, TypeOK
<1>3. Queue \in [1 .. event_count -> Event]
  BY <1>1, <1>2 DEF Queue
<1> QED
  BY <1>1, <1>3 DEF QueueOK

LEMMA QueueTypePrime == TypeOK' => QueueOK'
BY QueueType, PTL

\* Two sequences with the same length and the same elements are equal.
LEMMA SequencesEqual ==
    ASSUME NEW S, NEW s \in Seq(S), NEW t \in Seq(S), Len(s) = Len(t),
           \A i \in 1 .. Len(s) : s[i] = t[i]
    PROVE  s = t
OBVIOUS

LEMMA EnqueuePuts ==
    ASSUME TypeOK, TypeOK', RingConsistent, NEW ev \in Event, Enqueue(ev)
    PROVE  Fifo!Put
<1> DEFINE n == event_count
           kept == IF Len(Queue) >= EventQueueSize THEN Tail(Queue) ELSE Queue
<1>1. /\ Queue \in Seq(Event) /\ Len(Queue) = n /\ n \in 0 .. EventQueueSize
  BY QueueType DEF TypeOK, QueueOK
<1>2. /\ Queue' \in Seq(Event) /\ Len(Queue') = event_count' /\ event_count' \in Nat
  BY QueueTypePrime DEF QueueOK
<1>3. CASE n < EventQueueSize
  <2>1. /\ event_count' = n + 1
        /\ \A i \in 1 .. n : Queue'[i] = Queue[i]
        /\ Queue'[n + 1] = ev
    BY <1>3, EnqueueNotFull
  <2>2. kept = Queue
    BY <1>1, <1>3, QueueSizeAssumption
  <2>3. Queue' = Append(Queue, ev)
    <3>1. Append(Queue, ev) \in Seq(Event) /\ Len(Append(Queue, ev)) = n + 1
      BY <1>1
    <3>2. \A i \in 1 .. n + 1 : Append(Queue, ev)[i] = Queue'[i]
      BY <1>1, <2>1
    <3> QED
      BY <1>2, <2>1, <3>1, <3>2, SequencesEqual
  <2>4. Queue' # <<>> /\ Queue'[Len(Queue')] = ev
    BY <1>1, <1>2, <2>1
  <2> QED
    BY <2>2, <2>3, <2>4 DEF Fifo!Put
<1>4. CASE n = EventQueueSize
  <2>1. /\ event_count' = n
        /\ \A i \in 1 .. n - 1 : Queue'[i] = Queue[i + 1]
        /\ Queue'[n] = ev
    BY <1>4, EnqueueFull
  <2>2. kept = Tail(Queue) /\ Queue # <<>> /\ n \in Nat \ {0}
    BY <1>1, <1>4, QueueSizeAssumption
  <2>3. /\ Tail(Queue) \in Seq(Event) /\ Len(Tail(Queue)) = n - 1
        /\ \A i \in 1 .. n - 1 : Tail(Queue)[i] = Queue[i + 1]
    BY <1>1, <2>2
  <2>4. Queue' = Append(Tail(Queue), ev)
    <3>1. /\ Append(Tail(Queue), ev) \in Seq(Event)
          /\ Len(Append(Tail(Queue), ev)) = n
      BY <2>2, <2>3
    <3>2. \A i \in 1 .. n : Append(Tail(Queue), ev)[i] = Queue'[i]
      BY <2>1, <2>2, <2>3
    <3> QED
      BY <1>2, <2>1, <3>1, <3>2, SequencesEqual
  <2>5. Queue' # <<>> /\ Queue'[Len(Queue')] = ev
    BY <1>2, <2>1, <2>2
  <2> QED
    BY <2>2, <2>4, <2>5 DEF Fifo!Put
<1> QED
  BY <1>1, <1>3, <1>4, QueueSizeAssumption

\* The ring of events with its head, tail and count implements a FIFO that
\* drops exactly its oldest item when it is full.
THEOREM Refinement == Spec => RefinesLossyFifo
<1>1. Init => Fifo!Init
  BY DEF Init, Fifo!Init, Queue
<1>2. IInv /\ [Next]_vars => [Fifo!Next]_Queue
  <2> SUFFICES ASSUME IInv, [Next]_vars
               PROVE  Fifo!Next \/ Queue' = Queue
    BY Zenon
  <2>0. TypeOK /\ TypeOK' /\ RingConsistent
    BY TypeStep DEF IInv
  <2>1. ASSUME NEW p \in Payload, EnqueueEvent(p)
        PROVE  Fifo!Next
    <3>1. [payload |-> p, cols |-> <<>>] \in Event
      BY DEF Event
    <3> QED
      BY <2>0, <2>1, <3>1, EnqueuePuts DEF EnqueueEvent, Fifo!Next
  <2>2. ASSUME NEW body \in RowBody, BeginRow(body)
        PROVE  Queue' = Queue
    BY <2>2 DEF BeginRow, Queue
  <2>3. CASE CopyColumn
    BY <2>3 DEF CopyColumn, Queue
  <2>4. CASE EndRow
    <3>1. [payload |-> DataRow, cols |-> row.cols] \in Event
      BY <2>0 DEF TypeOK, Row, Event
    <3> QED
      BY <2>0, <2>4, <3>1, EnqueuePuts DEF EndRow, Fifo!Next
  <2>5. CASE DequeueEvent
    <3>1. /\ event_count' = event_count - 1 /\ event_count > 0
          /\ \A i \in 1 .. event_count - 1 : Queue'[i] = Queue[i + 1]
      BY <2>0, <2>5, DequeueQueue DEF DequeueEvent
    <3>2. /\ Queue \in Seq(Event) /\ Len(Queue) = event_count
          /\ Queue' \in Seq(Event) /\ Len(Queue') = event_count'
          /\ event_count \in Nat
      BY <2>0, QueueType, QueueTypePrime DEF QueueOK
    <3>3. Queue # <<>>
      BY <3>1, <3>2
    <3>4. /\ Tail(Queue) \in Seq(Event) /\ Len(Tail(Queue)) = event_count - 1
          /\ \A i \in 1 .. event_count - 1 : Tail(Queue)[i] = Queue[i + 1]
      BY <3>2, <3>3
    <3>5. Queue' = Tail(Queue)
      BY <3>1, <3>2, <3>4, SequencesEqual
    <3> QED
      BY <3>3, <3>5 DEF Fifo!Get, Fifo!Next
  <2>6. CASE ResetQueue
    <3>1. event_count' = 0
      BY <2>6 DEF ResetQueue
    <3>2. Queue' \in Seq(Event) /\ Len(Queue') = 0
      BY <2>0, <3>1, QueueTypePrime DEF QueueOK
    <3>3. Queue' = <<>>
      BY <3>2
    <3> QED
      BY <3>3 DEF Fifo!Clear, Fifo!Next
  <2>7. CASE UNCHANGED vars
    BY <2>7 DEF vars, Queue
  <2> QED
    BY <2>1, <2>2, <2>3, <2>4, <2>5, <2>6, <2>7 DEF Next
<1> QED
  BY <1>1, <1>2, IInvInit, IInvStep, PTL DEF Spec, RefinesLossyFifo, Fifo!Spec

=============================================================================
