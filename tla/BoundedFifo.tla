---------------------------- MODULE BoundedFifo ----------------------------
(* What one priority queue of the transport promises: a first-in first-out
   queue of at most Cap items that refuses an item when it is full and hands
   the oldest item to the thread that takes one. *)
EXTENDS Naturals, Sequences

CONSTANTS
    Items,      \* the transfers a caller may queue
    Cap         \* SMID_TX_QUEUE_CAP

VARIABLES
    fifo,       \* the queued items, oldest first
    out         \* the item taken last

vars == <<fifo, out>>

Init == /\ fifo = <<>>
        /\ out \in Items

Put(x) == /\ Len(fifo) < Cap
          /\ fifo' = Append(fifo, x)
          /\ UNCHANGED out

Take == /\ fifo # <<>>
        /\ out' = Head(fifo)
        /\ fifo' = Tail(fifo)

Clear == /\ fifo' = <<>>
         /\ UNCHANGED out

Next == (\E x \in Items : Put(x)) \/ Take \/ Clear

Spec == Init /\ [][Next]_vars
=============================================================================
