------------------------------- MODULE Ring --------------------------------
(* One priority queue of struct smid_transport (transport.h): an array of
   Cap slots with the unsigned indices head (next free slot), tail (oldest
   item) and the fill count.  Every operation runs under t->lock, so each is
   one step.  The abstraction is BoundedFifo. *)
EXTENDS Naturals, Sequences

CONSTANTS Items, Cap

ASSUME RingAssumption == Cap \in Nat \ {0} /\ Items # {}

VARIABLES
    slots,      \* queues[prio]
    head, tail, count,
    out         \* the copy queue_pop_locked hands to the transport thread

vars == <<slots, head, tail, count, out>>

Slot == 0 .. Cap - 1

Wrap(i) == i % Cap

(* memset in smid_transport_start: all indices are zero.  What the zeroed
   slots hold is never read, so any item stands for it. *)
Init == /\ head = 0 /\ tail = 0 /\ count = 0
        /\ slots \in [Slot -> Items]
        /\ out \in Items

(* smid_transport_submit past its checks: a full ring is refused. *)
Push(x) == /\ count # Cap
           /\ slots' = [slots EXCEPT ![head] = x]
           /\ head' = Wrap(head + 1)
           /\ count' = count + 1
           /\ UNCHANGED <<tail, out>>

(* Mutant: the pop reads the slot after advancing the tail. *)
PopAfterAdvance ==
    /\ count # 0
    /\ tail' = Wrap(tail + 1)
    /\ out' = slots[tail']
    /\ count' = count - 1
    /\ UNCHANGED <<slots, head>>

(* queue_pop_locked, and one turn of the drain loop. *)
Pop == /\ count # 0
       /\ out' = slots[tail]
       /\ tail' = Wrap(tail + 1)
       /\ count' = count - 1
       /\ UNCHANGED <<slots, head>>

(* The memset that ends smid_transport_stop and begins the next start. *)
Reset == /\ head' = 0 /\ tail' = 0 /\ count' = 0
         /\ slots' \in [Slot -> Items]
         /\ UNCHANGED out

Next == (\E x \in Items : Push(x)) \/ Pop \/ Reset

Spec == Init /\ [][Next]_vars

-----------------------------------------------------------------------------

TypeOK == /\ slots \in [Slot -> Items]
          /\ head \in Slot /\ tail \in Slot
          /\ count \in 0 .. Cap
          /\ out \in Items

(* The three indices are redundant and are updated by different callers:
   whatever the order of submissions, pops and restarts, head is where tail
   and count say it is.  A slot is overwritten while it is still queued as
   soon as this fails (transport.c:89-90, 210-211). *)
IndicesAgree == head = Wrap(tail + count)

(* The queue the ring stands for: oldest item first. *)
Contents == [i \in 1 .. count |-> slots[Wrap(tail + i - 1)]]

Abstract == INSTANCE BoundedFifo WITH fifo <- Contents

(* The ring is a bounded FIFO: no item is lost, duplicated, reordered or
   overwritten by the index arithmetic, across any number of wraps. *)
IsFifo == Abstract!Spec
=============================================================================
