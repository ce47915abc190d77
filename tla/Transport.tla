----------------------------- MODULE Transport ------------------------------
(* The USB transmit path (transport.c): callers queue transfers at four
   priorities, one worker thread sends them, and the main thread starts and
   stops the whole session around it (usb.c start_io, stop_io, reconnect).

   Every section under t->lock or a result's lock is one step.  A priority's
   ring is the sequence that module Ring shows it to be.  A transfer is known
   by the caller it belongs to. *)
EXTENDS Naturals, Sequences, FiniteSets, Functions

CONSTANTS
    SyncCallers,    \* submit_sync: the main thread's commands (usb.c:414)
    AsyncCallers,   \* a result cell waited for or polled later: picture
                    \* tiles (main.c:1325-1336), cursor images
                    \* (evdi_source.c:896-907)
    PostCallers,    \* no result: heartbeats, cursor states, device power
    Unfenced,       \* the callers of PostCallers that read the usb pointer,
                    \* release its lock and submit afterwards, so that nothing
                    \* keeps them out of a stopped session
                    \* (evdi_source.c:166-183)
    PrioCount,      \* SMID_TX_PRIO_COUNT; the last one is the heartbeat's
    PrioOf,         \* the priority each caller submits at
    Cap,            \* SMID_TX_QUEUE_CAP
    NoCaller

Callers == SyncCallers \cup AsyncCallers \cup PostCallers
Waiters == SyncCallers \cup AsyncCallers
Prios   == 0 .. PrioCount - 1
HeartbeatPrio == PrioCount - 1

(* A full heartbeat queue reports success and drops the item
   (transport.c:194-198): the code attaches no result to a heartbeat. *)
ASSUME TransportAssumption ==
    /\ Cap \in Nat \ {0} /\ PrioCount \in Nat \ {0}
    /\ PrioOf \in [Callers -> Prios]
    /\ \A c \in Waiters : PrioOf[c] # HeartbeatPrio
    /\ Unfenced \subseteq PostCallers
    /\ SyncCallers \cap AsyncCallers = {}
    /\ PostCallers \cap Waiters = {}
    /\ NoCaller \notin Callers

VARIABLES
    session,    \* down (zeroed), up, or joining: smid_transport_stop waits
    stop,       \* t->stop
    queue,      \* per priority, the callers whose transfers are queued
    thread,     \* the worker: none, check, wait, send, complete, drain, exited
    item,       \* the worker's local copy of the transfer it sends
    rc,         \* the worker's local outcome of that transfer
    caller,     \* idle, ready, pending, blocked: where each waiter is
    result      \* each waiter's result cell: done and rc

vars == <<session, stop, queue, thread, item, rc, caller, result>>

Outcomes == {"ok", "failed", "interrupted"}
NoResult == [done |-> FALSE, rc |-> "ok"]
Empty    == [p \in Prios |-> << >>]

Init == /\ session = "down"
        /\ stop = FALSE
        /\ queue = Empty
        /\ thread = "none"
        /\ item = NoCaller
        /\ rc = "ok"
        /\ caller = [c \in Waiters |-> "idle"]
        /\ result = [c \in Waiters |-> NoResult]

-----------------------------------------------------------------------------
(* The callers. *)

(* smid_tx_result_init of a synchronous caller's own cell, or
   smid_tx_result_reset of an asynchronous caller's cell. *)
ResetResult(c) ==
    /\ caller[c] = "idle"
    /\ session = "up"
    /\ result' = [result EXCEPT ![c] = NoResult]
    /\ caller' = [caller EXCEPT ![c] = "ready"]
    /\ UNCHANGED <<session, stop, queue, thread, item, rc>>

(* Mutant: the submission wakes nobody. *)
SignalWorkerLost == UNCHANGED thread

(* pthread_cond_signal(&t->cond): the worker is the only thread that waits. *)
SignalWorker == thread' = IF thread = "wait" THEN "check" ELSE thread

Enqueue(c) == queue' = [queue EXCEPT ![PrioOf[c]] = Append(@, c)]

Full(c) == Len(queue[PrioOf[c]]) = Cap

(* smid_transport_submit with a result cell.  Accepted: the cell now belongs
   to the queue until it is completed.  Refused: submit_sync returns the error
   and an asynchronous caller gives the cell back to itself. *)
SubmitAccepted(c) ==
    /\ caller[c] = "ready"
    /\ ~stop /\ ~Full(c)
    /\ Enqueue(c)
    /\ SignalWorker
    /\ caller' = [caller EXCEPT ![c] = "pending"]
    /\ UNCHANGED <<session, stop, item, rc, result>>

SubmitRefused(c) ==
    /\ caller[c] = "ready"
    /\ stop \/ Full(c)
    /\ caller' = [caller EXCEPT ![c] = "idle"]
    /\ UNCHANGED <<session, stop, queue, thread, item, rc, result>>

(* smid_transport_submit without a result.  Heartbeats and cursor states are
   fenced: their thread is joined, or the usb pointer is cleared, before the
   session stops.  A refused or dropped one changes nothing. *)
Post(c) ==
    /\ session = "up" \/ c \in Unfenced
    /\ ~stop /\ ~Full(c)
    /\ Enqueue(c)
    /\ SignalWorker
    /\ UNCHANGED <<session, stop, item, rc, caller, result>>

(* smid_tx_result_poll and smid_tx_result_wait take the outcome of a done
   cell; the wait sleeps on a cell that is not. *)
Collects(c) ==
    /\ caller[c] \in {"pending", "waiting"}
    /\ result[c].done
    /\ caller' = [caller EXCEPT ![c] = "idle"]
    /\ UNCHANGED <<session, stop, queue, thread, item, rc, result>>

WaitSleeps(c) ==
    /\ caller[c] \in {"pending", "waiting"}
    /\ ~result[c].done
    /\ caller' = [caller EXCEPT ![c] = "blocked"]
    /\ UNCHANGED <<session, stop, queue, thread, item, rc, result>>

(* pthread_cond_wait may return without a signal; nothing relies on it. *)
SpuriousWakeup ==
    \/ /\ thread = "wait"
       /\ thread' = "check"
       /\ UNCHANGED <<session, stop, queue, item, rc, caller, result>>
    \/ \E c \in Waiters :
          /\ caller[c] = "blocked"
          /\ caller' = [caller EXCEPT ![c] = "waiting"]
          /\ UNCHANGED <<session, stop, queue, thread, item, rc, result>>

-----------------------------------------------------------------------------
(* The worker, transport_thread_main. *)

(* queue_pop_locked scans the priorities from the most urgent one. *)
Urgent(p) == queue[p] # << >> /\ \A q \in Prios : q < p => queue[q] = << >>

WorkerSeesStop ==
    /\ thread = "check"
    /\ stop
    /\ thread' = "drain"
    /\ UNCHANGED <<session, stop, queue, item, rc, caller, result>>

WorkerPops ==
    /\ thread = "check"
    /\ ~stop
    /\ \E p \in Prios : /\ Urgent(p)
                        /\ item' = Head(queue[p])
                        /\ queue' = [queue EXCEPT ![p] = Tail(@)]
    /\ thread' = "send"
    /\ UNCHANGED <<session, stop, rc, caller, result>>

WorkerSleeps ==
    /\ thread = "check"
    /\ ~stop
    /\ queue = Empty
    /\ thread' = "wait"
    /\ UNCHANGED <<session, stop, queue, item, rc, caller, result>>

(* send_item, outside the lock: libusb returns within timeout_ms.  An error
   and a short transfer are both reported as a failure. *)
WorkerSends ==
    /\ thread = "send"
    /\ rc' \in {"ok", "failed"}
    /\ thread' = "complete"
    /\ UNCHANGED <<session, stop, queue, item, caller, result>>

(* tx_result_complete: fill the cell and wake whoever sleeps on it.  Nothing
   happens for an item without a result. *)
Complete(c, outcome) ==
    IF c \in Waiters
    THEN /\ result' = [result EXCEPT ![c] = [done |-> TRUE, rc |-> outcome]]
         /\ caller' = [caller EXCEPT ![c] = IF @ = "blocked" THEN "waiting" ELSE @]
    ELSE UNCHANGED <<caller, result>>

(* Mutant: a transfer that a stop overtakes is reported as interrupted. *)
WorkerCompletesInterrupted ==
    /\ thread = "complete"
    /\ Complete(item, IF stop THEN "interrupted" ELSE rc)
    /\ item' = NoCaller
    /\ thread' = "check"
    /\ UNCHANGED <<session, stop, queue, rc>>

WorkerCompletes ==
    /\ thread = "complete"
    /\ Complete(item, rc)
    /\ item' = NoCaller
    /\ thread' = "check"
    /\ UNCHANGED <<session, stop, queue, rc>>

(* The drain after the loop, one item at a time: a waiter whose cell is
   completed may run before the next item is drained. *)
WorkerDrains ==
    /\ thread = "drain"
    /\ \E p \in Prios : /\ Urgent(p)
                        /\ Complete(Head(queue[p]), "interrupted")
                        /\ queue' = [queue EXCEPT ![p] = Tail(@)]
    /\ UNCHANGED <<session, stop, thread, item, rc>>

(* Mutant: the worker leaves without draining its queues. *)
WorkerExitsUndrained ==
    /\ thread = "drain"
    /\ thread' = "exited"
    /\ UNCHANGED <<session, stop, queue, item, rc, caller, result>>

WorkerExits ==
    /\ thread = "drain"
    /\ queue = Empty
    /\ thread' = "exited"
    /\ UNCHANGED <<session, stop, queue, item, rc, caller, result>>

-----------------------------------------------------------------------------
(* The main thread. *)

(* memset of the whole structure. *)
Zeroed == queue' = Empty /\ stop' = FALSE

(* smid_transport_start; pthread_create may fail and leave the session down. *)
Start ==
    /\ session = "down"
    /\ Zeroed
    /\ \/ session' = "up" /\ thread' = "check"
       \/ UNCHANGED <<session, thread>>
    /\ UNCHANGED <<item, rc, caller, result>>

(* Mutant: the stop flag is set without waking the worker. *)
StopBeginsSilently ==
    /\ session = "up"
    /\ \A c \in SyncCallers : caller[c] = "idle"
    /\ \A c \in AsyncCallers : caller[c] \in {"idle", "pending"}
    /\ stop' = TRUE
    /\ session' = "joining"
    /\ UNCHANGED <<queue, thread, item, rc, caller, result>>

(* smid_transport_stop up to the join.  Every wait for a result is the main
   thread's own, so it is in none of them, and no fenced caller is between
   its check of the usb pointer and its submit. *)
StopBegins ==
    /\ session = "up"
    /\ \A c \in SyncCallers : caller[c] = "idle"
    /\ \A c \in AsyncCallers : caller[c] \in {"idle", "pending"}
    /\ stop' = TRUE
    /\ session' = "joining"
    /\ thread' = IF thread = "wait" THEN "check" ELSE thread
    /\ UNCHANGED <<queue, item, rc, caller, result>>

StopJoins ==
    /\ session = "joining"
    /\ thread = "exited"
    /\ thread' = "none"
    /\ session' = "down"
    /\ Zeroed
    /\ UNCHANGED <<item, rc, caller, result>>

-----------------------------------------------------------------------------

Worker == \/ WorkerSeesStop \/ WorkerPops \/ WorkerSleeps \/ WorkerSends
          \/ WorkerCompletes \/ WorkerDrains \/ WorkerExits

Next == \/ \E c \in Waiters : \/ ResetResult(c)
                              \/ SubmitAccepted(c)
                              \/ SubmitRefused(c)
                              \/ Collects(c)
                              \/ WaitSleeps(c)
        \/ \E c \in PostCallers : Post(c)
        \/ Worker
        \/ SpuriousWakeup
        \/ Start
        \/ StopBegins
        \/ StopJoins

(* The worker thread runs (libusb transfers carry a timeout), a caller takes
   the outcome of a done cell, and pthread_join returns after the worker's
   exit.  Nobody has to submit, start or stop. *)
Fairness == /\ WF_vars(Worker)
            /\ \A c \in Waiters : WF_vars(Collects(c))
            /\ WF_vars(StopJoins)

Spec == Init /\ [][Next]_vars
FairSpec == Spec /\ Fairness

-----------------------------------------------------------------------------
(* What must hold. *)

TypeOK ==
    /\ session \in {"down", "up", "joining"}
    /\ stop \in BOOLEAN
    /\ queue \in [Prios -> Seq(Callers)]
    /\ \A p \in Prios : Len(queue[p]) <= Cap
    /\ thread \in {"none", "check", "wait", "send", "complete", "drain", "exited"}
    /\ item \in Callers \cup {NoCaller}
    /\ rc \in {"ok", "failed"}
    /\ caller \in [Waiters -> {"idle", "ready", "pending", "waiting", "blocked"}]
    /\ result \in [Waiters -> [done : BOOLEAN, rc : Outcomes]]

(* The caller's cell, and for a big transfer its data, belong to the
   transport: submitted and not completed. *)
Awaited(c) == caller[c] \in {"pending", "waiting", "blocked"} /\ ~result[c].done

Occurs(c, s) == \E i \in DOMAIN s : s[i] = c

AtMostOnce(c, s) == \A i, j \in DOMAIN s : s[i] = c /\ s[j] = c => i = j

IsQueued(c) == Occurs(c, queue[PrioOf[c]])

(* No waiter hangs and no cell is completed behind its owner's back: a cell
   that is waited for has exactly one transfer in the queues or in the
   worker's hands, and every other cell has none.  submit_sync destroys its
   cell and the tile and cursor callers overwrite their packet on the strength
   of this (transport.c:138-147, 217-227). *)
ResultAccounting ==
    \A c \in Waiters :
        /\ Awaited(c) <=> (IsQueued(c) \/ item = c)
        /\ ~(IsQueued(c) /\ item = c)
        /\ AtMostOnce(c, queue[PrioOf[c]])

Phase(c) == IF caller[c] \in {"idle", "ready"} THEN "idle"
            ELSE IF ~result[c].done THEN "pending"
            ELSE result[c].rc

Phases == [c \in Waiters |-> Phase(c)]

OnWire == IF item \in Waiters THEN item ELSE NoCaller

Service == INSTANCE TxService WITH
    Callers <- Waiters, phase <- Phases, wire <- OnWire

(* Every accepted transfer ends once, with the outcome of its own time on the
   wire, or interrupted by a stop without having been sent
   (transport.c:124-146). *)
IsTxService == Service!Spec

(* A command of the most urgent priority returns to its caller whatever is
   submitted at its own and lower priorities, and whether the session stops
   or not: neither wakeup is lost (transport.c:115-117, 75, 212). *)
UrgentReturns ==
    \A c \in Waiters : PrioOf[c] = 0 =>
        (caller[c] = "pending" ~> caller[c] = "idle")

(* A less urgent transfer may be overtaken forever; it completes once nothing
   more urgent stays queued (transport.c:80-92). *)
CompletesWhenNotOvertaken ==
    \A c \in Waiters :
        <>[](\A p \in Prios : p < PrioOf[c] => queue[p] = << >>)
            => (Awaited(c) ~> ~Awaited(c))

(* Every transfer that nothing more urgent holds up for ever returns. *)
TransfersReturn == UrgentReturns /\ CompletesWhenNotOvertaken

(* smid_transport_stop returns: the worker notices the flag wherever it is,
   sleeping included (transport.c:169-173). *)
StopReturns == session = "joining" ~> session = "down"
=============================================================================
