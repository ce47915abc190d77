------------------------------ MODULE MCCursor ------------------------------
(* An instance of Cursor for TLC: two streams, two images, and one budget for
   each kind of trouble. *)
EXTENDS Cursor

CONSTANTS arrow, beam

MCImage   == {arrow, beam}
MCStreams == {0, 1}

Budget(first, second, m, f, r) ==
    [sets |-> [s \in MCStreams |-> IF s = 0 THEN first ELSE second],
     moves |-> m, faults |-> f, recoveries |-> r]

MCBudgets == {
    Budget(2, 0, 0, 0, 1),  \* a session lost while images are uploaded
    Budget(1, 0, 0, 1, 1),  \* and with a fault
    Budget(3, 0, 0, 1, 0),  \* failed uploads, slots used again
    Budget(1, 1, 0, 1, 0),  \* two streams, one fails
    Budget(2, 1, 0, 0, 0),  \* two streams share the slots
    Budget(1, 0, 2, 0, 0),  \* shown, moved and hidden with an image
    Budget(1, 0, 1, 1, 0)}  \* the same with a fault
=============================================================================
