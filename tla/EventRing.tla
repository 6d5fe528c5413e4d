----------------------------- MODULE EventRing -----------------------------
(***************************************************************************)
(* The event queue of a context (src/src/pqwire.c): the ring of protocol   *)
(* events that feed_input fills and pqwire_next_event drains, and the row  *)
(* arena that holds the column bytes of the queued DataRow events.         *)
(*                                                                         *)
(* An event is handed over by value, but the columns of a DataRow point    *)
(* into the arena, so the ring and the arena are correct only together:    *)
(* the arena may be reused from its start only when nothing that is still  *)
(* queued points into it.                                                  *)
(*                                                                         *)
(* parse_data_row is modelled one loop iteration per step (BeginRow,       *)
(* CopyColumn, EndRow).  The code is single threaded, so every other       *)
(* operation waits until no row is under construction.                     *)
(***************************************************************************)
EXTENDS Integers, Sequences, FiniteSets

CONSTANTS
    EventQueueSize,  \* config->event_queue_size
    RowArena,        \* PQWIRE_ROW_ARENA
    MaxRowColumns,   \* PQWIRE_MAX_ROW_COLUMNS
    Payload,         \* the contents of the events that are not DataRows
    DataRow,         \* the payload of a DataRow event, its columns apart
    None,            \* the payload of a slot that was never written
    RowBody          \* DataRow bodies: the lengths of the columns they hold

NULL == -1           \* the null pointer, and the length of an SQL NULL

\* create_with_config returns no context for a queue size of zero or less.
ASSUME QueueSizeAssumption == EventQueueSize \in Nat \ {0}

\* Neither limit needs to be positive for what follows.
ASSUME ArenaAssumption == RowArena \in Nat /\ MaxRowColumns \in Nat

\* A body announces lengths of -1 (SQL NULL) and more; other negative
\* lengths are treated by the code as -1.
ASSUME RowBodyAssumption == RowBody \subseteq Seq(Nat \cup {NULL})

VARIABLES
    events,          \* the ring: a function from slots to events
    event_head,
    event_tail,
    event_count,
    row_arena_used,
    row,             \* the local state of parse_data_row
    held             \* history: the columns of the event delivered last

ring == <<events, event_head, event_tail, event_count>>
vars == <<events, event_head, event_tail, event_count,
          row_arena_used, row, held>>

-----------------------------------------------------------------------------
(* State.  A column is an arena offset (NULL for a null pointer) with the  *)
(* length the event reports; plen is a history field, the length that the  *)
(* column had on the wire.                                                 *)

Slot == 0 .. EventQueueSize - 1
Column == [off : Nat \cup {NULL}, len : Nat, plen : Nat \cup {NULL}]
Event == [payload : Payload \cup {DataRow, None}, cols : Seq(Column)]

NoEvent == [payload |-> None, cols |-> <<>>]
NoRow == [active |-> FALSE, todo |-> <<>>, cols |-> <<>>]

Row == [active : BOOLEAN, todo : Seq(Nat \cup {NULL}), cols : Seq(Column)]

Init ==
    /\ events = [s \in Slot |-> NoEvent]
    /\ event_head = 0
    /\ event_tail = 0
    /\ event_count = 0
    /\ row_arena_used = 0
    /\ row = NoRow
    /\ held = <<>>

-----------------------------------------------------------------------------
(* Operations.                                                             *)

Successor(s) == (s + 1) % EventQueueSize

\* Mutants: a ring that is never full, and one that drops its oldest event
\* without moving on to the next.
EnqueueUnchecked(ev) ==
    /\ events' = [events EXCEPT ![event_tail] = ev]
    /\ event_tail' = Successor(event_tail)
    /\ event_count' = event_count + 1
    /\ UNCHANGED event_head
EnqueueKeepingHead(ev) ==
    /\ events' = [events EXCEPT ![event_tail] = ev]
    /\ event_tail' = Successor(event_tail)
    /\ event_count' = IF event_count >= EventQueueSize THEN event_count
                      ELSE event_count + 1
    /\ UNCHANGED event_head

\* enqueue_event: a full ring first drops its oldest event.
Enqueue(ev) ==
    /\ events' = [events EXCEPT ![event_tail] = ev]
    /\ event_tail' = Successor(event_tail)
    /\ IF event_count >= EventQueueSize
       THEN /\ event_head' = Successor(event_head)
            /\ UNCHANGED event_count
       ELSE /\ event_count' = event_count + 1
            /\ UNCHANGED event_head

\* Every parser other than parse_data_row ends in one enqueue.
EnqueueEvent(p) ==
    /\ ~row.active
    /\ Enqueue([payload |-> p, cols |-> <<>>])
    /\ UNCHANGED <<row_arena_used, row, held>>

\* The column count is clamped; a body that ends early ends the loop early,
\* so that a body is the sequence of the columns it holds in full.
BeginRow(body) ==
    /\ ~row.active
    /\ row' = [active |-> TRUE,
               todo |-> IF Len(body) > MaxRowColumns
                        THEN SubSeq(body, 1, MaxRowColumns)
                        ELSE body,
               cols |-> <<>>]
    /\ UNCHANGED <<events, event_head, event_tail, event_count,
                   row_arena_used, held>>

\* What the loop body does with a column of length plen: a NULL column and a
\* column that the arena cannot take become null pointers.
Fits(plen) == row_arena_used + plen <= RowArena
ColumnOf(plen) ==
    IF plen >= 0 /\ Fits(plen)
    THEN [off |-> row_arena_used, len |-> plen, plen |-> plen]
    ELSE [off |-> NULL, len |-> 0, plen |-> plen]
ArenaAfter(plen) ==
    IF plen >= 0 /\ Fits(plen) THEN row_arena_used + plen ELSE row_arena_used

CopyColumn ==
    /\ row.active
    /\ row.todo # <<>>
    /\ row' = [active |-> TRUE,
               todo |-> Tail(row.todo),
               cols |-> Append(row.cols, ColumnOf(Head(row.todo)))]
    /\ row_arena_used' = ArenaAfter(Head(row.todo))
    /\ UNCHANGED <<events, event_head, event_tail, event_count, held>>

EndRow ==
    /\ row.active
    /\ row.todo = <<>>
    /\ Enqueue([payload |-> DataRow, cols |-> row.cols])
    /\ row' = NoRow
    /\ UNCHANGED <<row_arena_used, held>>

\* Mutant: the arena starts over one event too early.
DequeueEventEarly ==
    /\ ~row.active
    /\ event_count > 0
    /\ event_head' = Successor(event_head)
    /\ event_count' = event_count - 1
    /\ IF event_count' <= 1
       THEN /\ row_arena_used' = 0
            /\ held' = <<>>
       ELSE /\ held' = events[event_head].cols
            /\ UNCHANGED row_arena_used
    /\ UNCHANGED <<events, event_tail, row>>

\* pqwire_next_event / dequeue_event.  The arena starts over when the last
\* event leaves, and with it the claim of that event on the arena.
DequeueEvent ==
    /\ ~row.active
    /\ event_count > 0
    /\ event_head' = Successor(event_head)
    /\ event_count' = event_count - 1
    /\ IF event_count' = 0
       THEN /\ row_arena_used' = 0
            /\ held' = <<>>
       ELSE /\ held' = events[event_head].cols
            /\ UNCHANGED row_arena_used
    /\ UNCHANGED <<events, event_tail, row>>

\* Mutants: a reset that forgets the tail, and one that also starts the arena
\* over although a delivered row is still being read.
ResetQueueButTail ==
    /\ ~row.active
    /\ event_head' = 0
    /\ event_count' = 0
    /\ UNCHANGED <<events, event_tail, row_arena_used, row, held>>
ResetQueueAndArena ==
    /\ ~row.active
    /\ event_head' = 0
    /\ event_tail' = 0
    /\ event_count' = 0
    /\ row_arena_used' = 0
    /\ UNCHANGED <<events, row, held>>

\* The part of pqwire_reset that is about the queue; it leaves the arena
\* counter alone.
ResetQueue ==
    /\ ~row.active
    /\ event_head' = 0
    /\ event_tail' = 0
    /\ event_count' = 0
    /\ UNCHANGED <<events, row_arena_used, row, held>>

Next ==
    \/ \E p \in Payload : EnqueueEvent(p)
    \/ \E body \in RowBody : BeginRow(body)
    \/ CopyColumn
    \/ EndRow
    \/ DequeueEvent
    \/ ResetQueue

Spec == Init /\ [][Next]_vars

-----------------------------------------------------------------------------
(* Properties.                                                             *)

\* The state stays within its types.
TypeOK ==
    /\ events \in [Slot -> Event]
    /\ event_head \in Slot
    /\ event_tail \in Slot
    /\ event_count \in 0 .. EventQueueSize
    /\ row_arena_used \in 0 .. RowArena
    /\ row \in Row
    /\ held \in Seq(Column)

\* The i-th slot from slot h on, and the queue as a sequence, oldest first.
SlotFrom(h, i) == (h + (i - 1)) % EventQueueSize
Queue == [i \in 1 .. event_count |-> events[SlotFrom(event_head, i)]]

\* head, tail and count describe the same queue: enqueue_event writes at the
\* slot that next_event reaches after event_count events.
RingConsistent == event_tail = (event_head + event_count) % EventQueueSize

Stored(c) == c.off # NULL
Before(c, d) == Stored(c) /\ Stored(d) => c.off + c.len <= d.off
AllBefore(s, t) == \A k \in DOMAIN s, l \in DOMAIN t : Before(s[k], t[l])
Increasing(s) == \A k, l \in DOMAIN s : k < l => Before(s[k], s[l])
Below(s, bound) ==
    \A k \in DOMAIN s : Stored(s[k]) => s[k].off + s[k].len <= bound

\* Queued DataRows own disjoint parts of the arena, oldest lowest, all below
\* row_arena_used, and so do the columns of a row under construction: what
\* parse_data_row writes next overwrites nothing that is still to be read.
QueuedRowsIntact ==
    /\ Increasing(row.cols)
    /\ Below(row.cols, row_arena_used)
    /\ \A i \in 1 .. event_count :
           /\ Increasing(Queue[i].cols)
           /\ Below(Queue[i].cols, row_arena_used)
           /\ AllBefore(Queue[i].cols, row.cols)
           /\ \A j \in 1 .. event_count :
                  i < j => AllBefore(Queue[i].cols, Queue[j].cols)

\* The row that next_event delivered last stays readable for as long as
\* events were left in the queue when it was delivered, through any number
\* of rows that feed_input parses meanwhile.
DeliveredRowIntact ==
    /\ Below(held, row_arena_used)
    /\ AllBefore(held, row.cols)
    /\ \A i \in 1 .. event_count : AllBefore(held, Queue[i].cols)

\* Ring and indexes implement the bounded FIFO that drops its oldest item.
Fifo == INSTANCE LossyFifo WITH
            Item <- Event, Capacity <- EventQueueSize, q <- Queue
RefinesLossyFifo == Fifo!Spec

\* pqwire.c:657 says that a column is dropped only if its row is oversized:
\* then a queued row that fits into the arena keeps all its columns.
RowLength(cols) ==
    LET sum[k \in 0 .. Len(cols)] ==
            IF k = 0 THEN 0
            ELSE sum[k - 1] + (IF cols[k].plen < 0 THEN 0 ELSE cols[k].plen)
    IN  sum[Len(cols)]
OnlyOversizedRowsLoseColumns ==
    \A i \in 1 .. event_count :
        RowLength(Queue[i].cols) <= RowArena =>
            \A k \in DOMAIN Queue[i].cols :
                Queue[i].cols[k].plen >= 0 => Stored(Queue[i].cols[k])

=============================================================================
