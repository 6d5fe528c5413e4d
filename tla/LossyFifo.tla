----------------------------- MODULE LossyFifo -----------------------------
(***************************************************************************)
(* What the event queue of a libpqwire context promises its caller,        *)
(* without rings or indexes: a bounded FIFO that keeps the newest Capacity *)
(* items.  A put into a full queue costs exactly the oldest item, a get    *)
(* takes the oldest item, and a reset empties the queue.                   *)
(***************************************************************************)
EXTENDS Naturals, Sequences

CONSTANTS
    Item,       \* what the queue may hold
    Capacity    \* how many items fit

VARIABLE q      \* the queued items, oldest first

Init == q = <<>>

\* A put: the newest item is always accepted; a full queue gives up its
\* oldest.  The item is read off the end of the new queue, so that Item may
\* be an infinite set.
Put ==
    /\ q' # <<>>
    /\ LET x == q'[Len(q')]
       IN  /\ x \in Item
           /\ q' = Append(IF Len(q) >= Capacity THEN Tail(q) ELSE q, x)

Get == q # <<>> /\ q' = Tail(q)

Clear == q' = <<>>

Next == Put \/ Get \/ Clear

Spec == Init /\ [][Next]_q

=============================================================================
