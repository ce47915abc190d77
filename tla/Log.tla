-------------------------------- MODULE Log --------------------------------
(* The log (log.c): every thread's messages go through one ring to one thread
   that writes them.  A full ring gives up its oldest message and counts it; the
   thread tells the count before it writes on.  Messages are numbered in the
   order of log_lock.

   main starts the log before it starts any thread and stops it after it has
   joined them all (main.c:1060, 1412-1429): nobody logs while it stops. *)
EXTENDS Naturals, Sequences

CONSTANTS Loggers,      \* the threads that log
          Cap,          \* LOG_QUEUE_CAP
          MaxLog        \* bound on the messages

ASSUME LogAssumption == Cap \in Nat \ {0} /\ MaxLog \in Nat

VARIABLES
    slots, head, tail, count,       \* log_queue and its indices
    dropped,                        \* log_dropped
    running, stop_requested,
    th,             \* the log thread: its place, and what it took
    ctl,            \* main, in smid_log_start and smid_log_stop
    alive,          \* the threads that still log
    logged,         \* history: messages so far
    wrote, told,    \* history: messages written, and reported as dropped
    lastOut         \* history: the number of the last one written

ring    == <<slots, head, tail, count, dropped>>
flags   == <<running, stop_requested>>
ends    == <<ctl, alive>>
tally   == <<wrote, told, lastOut>>
logVars == <<ring, flags, th, ends, logged, tally>>

Slot    == 0 .. Cap - 1

Wrap(i) == i % Cap
Has(place, msg, note) == [at |-> place, msg |-> msg, note |-> note]
At(place) == Has(place, 0, 0)

LogInit ==
    /\ slots = [i \in Slot |-> 0]
    /\ head = 0 /\ tail = 0 /\ count = 0 /\ dropped = 0
    /\ running = FALSE /\ stop_requested = FALSE
    /\ th = At("none") /\ ctl = "off" /\ alive = {}
    /\ logged = 0 /\ wrote = 0 /\ told = 0 /\ lastOut = 0

-----------------------------------------------------------------------------
(* smid_vlogf *)

Signal == th' = IF th.at = "asleep" THEN At("check") ELSE th

Put == /\ slots' = [slots EXCEPT ![head] = logged']
       /\ head' = Wrap(head + 1)

(* Mutant: what is given up is not counted. *)
MakeRoomUncounted == IF count = Cap
                     THEN tail' = Wrap(tail + 1) /\ UNCHANGED <<count, dropped>>
                     ELSE count' = count + 1 /\ UNCHANGED <<tail, dropped>>

(* What a full ring gives up; the new message is counted here too. *)
MakeRoom == IF count = Cap
            THEN tail' = Wrap(tail + 1) /\ dropped' = dropped + 1 /\ UNCHANGED count
            ELSE count' = count + 1 /\ UNCHANGED <<tail, dropped>>

Queued == /\ running /\ logged < MaxLog /\ logged' = logged + 1
          /\ MakeRoom /\ Put
          /\ UNCHANGED <<flags, ends, tally>>

(* Mutant: the thread is not signalled. *)
LogSilently == alive # {} /\ Queued /\ UNCHANGED th

(* A message while the log runs; main's own is like that of any thread. *)
Log == alive # {} /\ Queued /\ Signal

(* Before the start and after the stop only main is there: it writes the
   message itself. *)
LogDirect ==
    /\ ~running /\ alive = {} /\ ctl \in {"off", "stopped"}
    /\ logged < MaxLog /\ logged' = logged + 1
    /\ wrote' = wrote + 1 /\ lastOut' = logged'
    /\ UNCHANGED <<ring, flags, th, ends, told>>

-----------------------------------------------------------------------------
(* log_thread_main, one step for each time it has the lock. *)

Empty == count = 0 /\ dropped = 0

Sleep == /\ th.at = "check" /\ ~stop_requested /\ Empty
         /\ th' = At("asleep")
         /\ UNCHANGED <<ring, flags, ends, logged, tally>>

Exit == /\ th.at = "check" /\ stop_requested /\ Empty
        /\ th' = At("exited")
        /\ UNCHANGED <<ring, flags, ends, logged, tally>>

TakeNote == /\ th.at = "check" /\ dropped # 0
            /\ th' = Has("note", 0, dropped)
            /\ dropped' = 0
            /\ UNCHANGED <<slots, head, tail, count, flags, ends, logged, tally>>

TakeOldest ==
    /\ th' = Has("write", slots[tail], 0)
    /\ tail' = Wrap(tail + 1) /\ count' = count - 1
    /\ UNCHANGED <<slots, head, dropped, flags, ends, logged, tally>>

(* Mutant: the thread takes a message although drops are not told yet. *)
TakeFirst == th.at = "check" /\ count # 0 /\ TakeOldest

Take == th.at = "check" /\ dropped = 0 /\ count # 0 /\ TakeOldest

(* write_all_stderr, outside the lock. *)
WriteNote == /\ th.at = "note" /\ th' = At("check")
             /\ told' = told + th.note
             /\ UNCHANGED <<ring, flags, ends, logged, wrote, lastOut>>

Write == /\ th.at = "write" /\ th' = At("check")
         /\ wrote' = wrote + 1 /\ lastOut' = th.msg
         /\ UNCHANGED <<ring, flags, ends, logged, told>>

Thread == Sleep \/ Exit \/ TakeNote \/ Take \/ WriteNote \/ Write

-----------------------------------------------------------------------------
(* main: smid_log_start, the threads that come and go, smid_log_stop. *)

Start == /\ ctl = "off" /\ ctl' = "created"
         /\ stop_requested' = FALSE
         /\ head' = 0 /\ tail' = 0 /\ count' = 0 /\ dropped' = 0
         /\ th' = At("check")
         /\ UNCHANGED <<slots, running, alive, logged, tally>>

Running == /\ ctl = "created" /\ ctl' = "running"
           /\ running' = TRUE /\ alive' = Loggers
           /\ UNCHANGED <<ring, stop_requested, th, logged, tally>>

ThreadEnds(p) == /\ p \in alive /\ alive' = alive \ {p}
                 /\ UNCHANGED <<ring, flags, th, ctl, logged, tally>>

Stop == /\ ctl = "running" /\ alive = {} /\ ctl' = "stopping"
        /\ stop_requested' = TRUE /\ Signal
        /\ UNCHANGED <<ring, running, alive, logged, tally>>

(* pthread_join *)
Joined == /\ ctl = "stopping" /\ th.at = "exited" /\ ctl' = "stopped"
          /\ running' = FALSE
          /\ UNCHANGED <<ring, stop_requested, th, alive, logged, tally>>

Control == Start \/ Running \/ (\E p \in Loggers : ThreadEnds(p)) \/ Stop \/ Joined

Ended == ctl = "stopped" /\ UNCHANGED logVars

LogNext == Log \/ LogDirect \/ Thread \/ Control \/ Ended

(* The log thread runs, and main joins it. *)
Fairness == WF_logVars(Thread) /\ WF_logVars(Joined)

LogSpec == LogInit /\ [][LogNext]_logVars /\ Fairness

-----------------------------------------------------------------------------
Places == {"none", "check", "asleep", "note", "write", "exited"}

LogTypeOK ==
    /\ slots \in [Slot -> Nat] /\ head \in Slot /\ tail \in Slot
    /\ count \in 0 .. Cap /\ dropped \in Nat
    /\ running \in BOOLEAN /\ stop_requested \in BOOLEAN
    /\ th \in [at : Places, msg : Nat, note : Nat]
    /\ ctl \in {"off", "created", "running", "stopping", "stopped"}
    /\ alive \subseteq Loggers
    /\ logged \in Nat /\ wrote \in Nat /\ told \in Nat /\ lastOut \in Nat

(* The ring holds the newest messages, without a hole, oldest at the tail -
   although the caller moves the tail too when it is full (log.c:144-153). *)
HoldsTheNewest ==
    /\ head = Wrap(tail + count)
    /\ \A i \in 0 .. count - 1 : slots[Wrap(tail + i)] = logged - count + i + 1

InHand == IF th.at = "write" THEN 1 ELSE IF th.at = "note" THEN th.note ELSE 0

(* No message disappears untold: each is written, told as dropped, queued,
   counted as dropped or in the log thread's hand (log.c:61-75, 144-153). *)
EveryMessageCounted == logged = wrote + told + count + dropped + InHand

(* The reader of the log can trust it: when a message is written, every one
   before it has been written or told as dropped (log.c:61-70), so a gap is
   never noticed later than at its place. *)
TellsBeforeItSkips == th.at = "write" => th.msg = wrote + told + 1

(* Messages come out in the order in which they were logged. *)
WritesInOrder == [][lastOut' # lastOut => lastOut' > lastOut]_lastOut

(* smid_log_stop returns with nothing left over: the thread drains the ring
   and the count before it leaves (log.c:57-60). *)
StoppedIsDrained == ctl = "stopped" => logged = wrote + told

(* Whenever one looks, every message is accounted for: in the ring, on its way, out
   or told as lost, and at the end nothing is on its way. *)
Accounted == HoldsTheNewest /\ EveryMessageCounted /\ StoppedIsDrained

(* Each message, or the news that it was dropped, gets out, and the stop
   returns. *)
EveryMessageOut == \A n \in 1 .. MaxLog : logged >= n ~> wrote + told >= n

StopReturns == ctl = "stopping" ~> ctl = "stopped"

EverythingOut == EveryMessageOut /\ StopReturns
=============================================================================
