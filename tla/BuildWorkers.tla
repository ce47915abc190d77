---------------------------- MODULE BuildWorkers ----------------------------
(* The build workers of the main loop and the packet buffers they share with
   the transport (main.c).

   Every tile (band of a stream) has a worker thread, two packet buffers and
   two result cells.  The main thread gives the workers of a frame their jobs,
   waits for them in tile order, waits for the frame in flight, hands the new
   packets to the transport, and builds the next frame into the other buffers
   while the transport sends these.  Nothing but this order keeps a worker out
   of a buffer that is being sent: the transport reads the caller's buffer. *)
EXTENDS Naturals, Sequences, FiniteSets, FiniteSetsExt, SequencesExt

CONSTANTS
    Streams,    \* the tiles of each live stream: a set of disjoint sets of numbers
    MaxBuilds,  \* bound: times a frame is built
    MaxFaults   \* bound: failed jobs and failed transfers

Tiles == UNION Streams
Slots == 0 .. 1

ASSUME BuildAssumption ==
    /\ Streams # {} /\ {} \notin Streams /\ Tiles \subseteq Nat
    /\ MaxBuilds \in Nat /\ MaxFaults \in Nat

VARIABLES
    \* the main thread
    pc,
    mask,       \* send_mask
    todo,       \* the tiles left in the loop over them
    late,       \* the build is the late rebuild
    slot,       \* pipe_slot
    inflight,   \* [active, slot, tiles]
    builds,     \* builds so far; what a build puts in a buffer is its number
    stopRequested,
    \* one struct smid_video_build_worker per tile
    job,        \* [has, done, rc, slot, build]: the fields under the lock
    running,    \* what the worker copied out of them: at most one [slot, build]
    stop, exited,
    \* per tile and slot
    buffer,     \* the build whose packet it holds, Torn while one is written
    result,
    freed,      \* tiles whose buffers were freed
    \* the transport
    queue,      \* the items not yet sent: [tile, slot, build, overlapped]
    faults,
    \* history: the tiles whose worker was at a job when the main thread stopped
    \* waiting for it, and those whose latest job was handed to a worker that
    \* was still at an earlier one
    abandoned, overlapped

mainVars   == <<pc, mask, todo, late, slot, inflight, builds>>
workerVars == <<job, running, stop, exited>>
history    == <<abandoned, overlapped>>
vars == <<mainVars, stopRequested, workerVars, buffer, result, freed, queue, faults,
          history>>

Torn == MaxBuilds + 1
Idle == [active |-> FALSE, slot |-> 0, tiles |-> {}]

Init == /\ pc = "top"
        /\ mask = {} /\ todo = {} /\ late = FALSE
        /\ slot = 0
        /\ inflight = Idle
        /\ builds = 0
        /\ stopRequested = FALSE
        /\ job = [t \in Tiles |-> [has |-> FALSE, done |-> FALSE, rc |-> 0,
                                   slot |-> 0, build |-> 0]]
        /\ running = [t \in Tiles |-> {}]
        /\ stop = {} /\ exited = {}
        /\ buffer = [t \in Tiles |-> [s \in Slots |-> 0]]
        /\ result = [t \in Tiles |-> [s \in Slots |-> "none"]]
        /\ freed = {}
        /\ queue = << >>
        /\ faults = 0
        /\ abandoned = {} /\ overlapped = {}

-----------------------------------------------------------------------------
(* A build worker. *)

(* Take the job, if there is one and the worker is not to stop, and start
   writing the packet. *)
TakeJob(t) ==
    /\ t \notin exited /\ running[t] = {}
    /\ t \notin stop /\ job[t].has
    /\ job' = [job EXCEPT ![t].has = FALSE]
    /\ running' = [running EXCEPT ![t] = {[slot |-> job[t].slot, build |-> job[t].build]}]
    /\ buffer' = [buffer EXCEPT ![t][job[t].slot] = Torn]
    /\ UNCHANGED <<mainVars, stopRequested, stop, exited, result, freed, queue,
                   faults, history>>

(* The packet is written, or the encoder or the capture failed. *)
FinishJob(t) ==
    /\ \E r \in running[t], rc \in {0, 1} :
          /\ rc = 1 => faults < MaxFaults
          /\ faults' = faults + rc
          /\ buffer' = [buffer EXCEPT ![t][r.slot] = IF rc = 0 THEN r.build ELSE @]
          /\ job' = [job EXCEPT ![t].rc = rc, ![t].done = TRUE]
    /\ running' = [running EXCEPT ![t] = {}]
    /\ UNCHANGED <<mainVars, stopRequested, stop, exited, result, freed, queue, history>>

ExitWorker(t) ==
    /\ t \in stop \ exited /\ running[t] = {}
    /\ exited' = exited \cup {t}
    /\ UNCHANGED <<mainVars, stopRequested, job, running, stop, buffer, result,
                   freed, queue, faults, history>>

-----------------------------------------------------------------------------
(* The main thread. *)

RequestStop ==
    /\ ~stopRequested
    /\ stopRequested' = TRUE
    /\ UNCHANGED <<mainVars, workerVars, buffer, result, freed, queue, faults, history>>

(* Plan a frame of the streams in ss. *)
StartBuild(ss) ==
    /\ builds < MaxBuilds
    /\ builds' = builds + 1
    /\ mask' = UNION ss /\ todo' = UNION ss
    /\ pc' = "submit"

(* The top of the loop: something is dirty ... *)
Build ==
    /\ pc = "top" /\ ~stopRequested
    /\ \E ss \in (SUBSET Streams) \ {{}} : StartBuild(ss)
    /\ late' = FALSE
    /\ UNCHANGED <<slot, inflight, stopRequested, workerVars, buffer, result,
                   freed, queue, faults, history>>

(* ... or the loop ends. *)
LeaveLoop ==
    /\ pc = "top" /\ stopRequested
    /\ pc' = "exit"
    /\ UNCHANGED <<mask, todo, late, slot, inflight, builds, stopRequested,
                   workerVars, buffer, result, freed, queue, faults, history>>

(* video_build_worker_submit, in tile order. *)
JobKeepingDone(t) ==    \* mutant: the flag of the last job stays up
    [has |-> TRUE, done |-> job[t].done, rc |-> 0, slot |-> slot, build |-> builds]

JobFor(t) == [has |-> TRUE, done |-> FALSE, rc |-> 0, slot |-> slot, build |-> builds]

SubmitJob ==
    /\ pc = "submit"
    /\ LET t == Min(todo) IN
          /\ job' = [job EXCEPT ![t] = JobFor(t)]
          /\ todo' = IF todo = {t} THEN mask ELSE todo \ {t}
          /\ pc' = IF todo = {t} THEN "wait" ELSE pc
          /\ IF running[t] # {}
             THEN overlapped' = overlapped \cup {t} /\ abandoned' = abandoned
             ELSE overlapped' = overlapped \ {t} /\ abandoned' = abandoned \ {t}
    /\ UNCHANGED <<mask, late, slot, inflight, builds, stopRequested, running,
                   stop, exited, buffer, result, freed, queue, faults>>

(* video_build_worker_wait, in tile order; the first failure ends the loop and
   the workers after it are left alone. *)
WaitJob ==
    /\ pc = "wait"
    /\ LET t == Min(todo) IN
          /\ job[t].done
          /\ \/ /\ job[t].rc # 0
                /\ pc' = "recover" /\ todo' = {}
                /\ abandoned' = abandoned \cup {x \in todo \ {t} : ~job[x].done}
             \/ /\ job[t].rc = 0 /\ todo # {t}
                /\ todo' = todo \ {t} /\ UNCHANGED <<pc, abandoned>>
             \/ /\ job[t].rc = 0 /\ todo = {t}
                /\ pc' = IF late THEN "send" ELSE "previous"
                /\ todo' = mask /\ UNCHANGED abandoned
    /\ UNCHANGED <<mask, late, slot, inflight, builds, stopRequested, workerVars,
                   buffer, result, freed, queue, faults, overlapped>>

InflightDone ==
    \A t \in inflight.tiles : result[t][inflight.slot] \in {"sent", "failed"}

InflightFailed ==
    \E t \in inflight.tiles : result[t][inflight.slot] = "failed"

(* video_inflight_wait before the new frame is sent. *)
WaitPrevious ==
    /\ pc = "previous"
    /\ inflight.active => InflightDone
    /\ pc' = IF InflightFailed THEN "recover" ELSE "built"
    /\ inflight' = Idle
    /\ UNCHANGED <<mask, todo, late, slot, builds, stopRequested, workerVars,
                   buffer, result, freed, queue, faults, history>>

(* The same, when nothing is dirty. *)
WaitIdle ==
    /\ pc = "top" /\ ~stopRequested /\ inflight.active
    /\ InflightDone
    /\ pc' = IF InflightFailed THEN "recover" ELSE pc
    /\ inflight' = Idle
    /\ UNCHANGED <<mask, todo, late, slot, builds, stopRequested, workerVars,
                   buffer, result, freed, queue, faults, history>>

(* The wait was long or the ACK is uncertain: build again, into the same slot,
   for what is dirty now as well ... *)
Rebuild ==
    /\ pc = "built"
    /\ \E ss \in SUBSET Streams : mask \subseteq UNION ss /\ StartBuild(ss)
    /\ late' = TRUE
    /\ UNCHANGED <<slot, inflight, stopRequested, workerVars, buffer, result,
                   freed, queue, faults, history>>

(* ... or not. *)
NoRebuild ==
    /\ pc = "built"
    /\ pc' = "send"
    /\ UNCHANGED <<mask, todo, late, slot, inflight, builds, stopRequested,
                   workerVars, buffer, result, freed, queue, faults, history>>

(* Reset the result cell and hand the packet to the transport, in tile order;
   after the last one the frame is in flight and the slots change places. *)
SameSlot == slot        \* mutant: one slot for every frame
NextSlot == 1 - slot

Send ==
    /\ pc = "send"
    /\ LET t == Min(todo)
           last == todo = {t}
       IN  /\ result' = [result EXCEPT ![t][slot] = "pending"]
           /\ queue' = Append(queue, [tile |-> t, slot |-> slot, build |-> builds,
                                     overlapped |-> t \in overlapped])
           /\ todo' = todo \ {t}
           /\ pc' = IF last THEN "top" ELSE pc
           /\ inflight' = IF last THEN [active |-> TRUE, slot |-> slot, tiles |-> mask]
                          ELSE inflight
           /\ slot' = IF last THEN NextSlot ELSE slot
    /\ UNCHANGED <<mask, late, builds, stopRequested, workerVars, buffer, freed,
                   faults, history>>

(* video_recover_usb_session gives up at once when the program is to stop. *)
RecoverNot ==
    /\ pc = "recover" /\ stopRequested
    /\ pc' = "exit"
    /\ UNCHANGED <<mask, todo, late, slot, inflight, builds, stopRequested,
                   workerVars, buffer, result, freed, queue, faults, history>>

(* Else it stops the transport, which ends every item with an error ... *)
Undrained == result     \* mutant: the items are dropped without a result

Drained == [t \in Tiles |-> [s \in Slots |->
              IF result[t][s] = "pending" THEN "failed" ELSE result[t][s]]]

StopTransport ==
    /\ pc = "recover" /\ ~stopRequested
    /\ queue' = << >>
    /\ result' = Drained
    /\ pc' = "reconnect"
    /\ UNCHANGED <<mask, todo, late, slot, inflight, builds, stopRequested,
                   workerVars, buffer, freed,
                   faults, history>>

(* ... and opens the session again, unless the program is to stop meanwhile. *)
Reconnected ==
    /\ pc = "reconnect"
    /\ pc' = "top"
    /\ inflight' = Idle
    /\ UNCHANGED <<mask, todo, late, slot, builds, stopRequested, workerVars,
                   buffer, result, freed, queue, faults, history>>

ReconnectNot ==
    /\ pc = "reconnect" /\ stopRequested
    /\ pc' = "exit"
    /\ UNCHANGED <<mask, todo, late, slot, inflight, builds, stopRequested,
                   workerVars, buffer, result, freed, queue, faults, history>>

(* After the loop: wait for the frame in flight ... *)
InflightLeft == TRUE    \* mutant: no wait
InflightOver == inflight.active => InflightDone

Exit ==
    /\ pc = "exit"
    /\ InflightOver
    /\ inflight' = Idle
    /\ todo' = Tiles
    /\ pc' = "stop"
    /\ UNCHANGED <<mask, late, slot, builds, stopRequested, workerVars, buffer,
                   result, freed, queue, faults, history>>

(* ... and, tile by tile, stop the worker, join it and free the buffers. *)
StopWorker ==
    /\ pc = "stop"
    /\ stop' = stop \cup {Min(todo)}
    /\ pc' = "join"
    /\ UNCHANGED <<mask, todo, late, slot, inflight, builds, stopRequested, job,
                   running, exited, buffer, result, freed, queue, faults, history>>

Joined(t) == t \in exited

JoinWorker ==
    /\ pc = "join"
    /\ Joined(Min(todo))
    /\ freed' = freed \cup {Min(todo)}
    /\ todo' = todo \ {Min(todo)}
    /\ pc' = IF todo' = {} THEN "done" ELSE "stop"
    /\ UNCHANGED <<mask, late, slot, inflight, builds, stopRequested, workerVars,
                   buffer, result, queue, faults, history>>

-----------------------------------------------------------------------------
(* The transport thread sends the items in order, or fails to. *)
Transmit ==
    /\ queue # << >>
    /\ LET i == Head(queue) IN
       \E failed \in {0, 1} :
          /\ failed = 1 => faults < MaxFaults
          /\ faults' = faults + failed
          /\ result' = [result EXCEPT ![i.tile][i.slot] =
                            IF failed = 1 THEN "failed" ELSE "sent"]
    /\ queue' = Tail(queue)
    /\ UNCHANGED <<mainVars, stopRequested, workerVars, buffer, freed, history>>

-----------------------------------------------------------------------------

Worker(t) == TakeJob(t) \/ FinishJob(t) \/ ExitWorker(t)

Main == \/ Build \/ LeaveLoop \/ SubmitJob \/ WaitJob
        \/ WaitPrevious \/ WaitIdle \/ Rebuild \/ NoRebuild \/ Send
        \/ RecoverNot \/ StopTransport \/ Reconnected \/ ReconnectNot
        \/ Exit \/ StopWorker \/ JoinWorker

Next == \/ \E t \in Tiles : Worker(t)
        \/ Main \/ RequestStop \/ Transmit

Spec == Init /\ [][Next]_vars

(* Threads that can run do, and a transfer ends (it has a timeout). *)
FairSpec == /\ Spec
            /\ WF_vars(Main) /\ WF_vars(Transmit)
            /\ \A t \in Tiles : WF_vars(Worker(t))

-----------------------------------------------------------------------------
(* Properties. *)

Task == [slot : Slots, build : 0 .. MaxBuilds]
Job  == [has : BOOLEAN, done : BOOLEAN, rc : {0, 1}, slot : Slots, build : 0 .. MaxBuilds]
Item == [tile : Tiles, slot : Slots, build : 0 .. MaxBuilds, overlapped : BOOLEAN]
Result == {"none", "pending", "sent", "failed"}

TypeOK ==
    /\ pc \in {"top", "submit", "wait", "previous", "built", "send", "recover",
               "reconnect", "exit", "stop", "join", "done"}
    /\ mask \subseteq Tiles /\ todo \subseteq Tiles
    /\ pc \in {"submit", "wait", "send", "stop", "join"} => todo # {}
    /\ late \in BOOLEAN /\ stopRequested \in BOOLEAN
    /\ slot \in Slots
    /\ inflight \in [active : BOOLEAN, slot : Slots, tiles : SUBSET Tiles]
    /\ builds \in 0 .. MaxBuilds
    /\ job \in [Tiles -> Job]
    /\ running \in [Tiles -> SUBSET Task]
    /\ \A t \in Tiles : \A r, o \in running[t] : r = o
    /\ exited \subseteq stop /\ stop \subseteq Tiles /\ freed \subseteq exited
    /\ buffer \in [Tiles -> [Slots -> 0 .. Torn]]
    /\ result \in [Tiles -> [Slots -> Result]]
    /\ queue \in Seq(Item)
    /\ \A m, n \in DOMAIN queue : queue[m].tile = queue[n].tile => m = n
    /\ abandoned \subseteq Tiles /\ overlapped \subseteq Tiles

(* What the transport sends is what was built for it: from the moment a packet
   is handed over until the transport is through with it, its buffer holds the
   packet of that very build, whole.  No worker writes into it for the next
   frame, and no packet is handed over before its worker has finished
   (main.c:728-737, 1320-1363).

   Nothing makes the main thread wait for the workers that are left at a job when
   another one's fails (main.c:733-736).  A recovery lies between that and the next
   build; a worker that is still at its job then has an end of it taken for the
   new one's, and its packet may be old or torn.  That is the only exception: a job
   overlaps an earlier one only if its worker was abandoned like this and has not
   been found at rest since. *)
QueuedPacketIntact ==
    /\ TypeOK
    /\ overlapped \subseteq abandoned
    /\ \A i \in Range(queue) : i.overlapped \/ buffer[i.tile][i.slot] = i.build

(* Nothing is freed under a thread that uses it: when a tile's buffers are
   freed its worker is gone and the transport holds none of its packets,
   however the loop was left (main.c:1404-1418). *)
NothingFreedInUse ==
    \A t \in freed : /\ running[t] = {} /\ t \in exited
                     /\ \A i \in Range(queue) : i.tile # t

(* The program ends once it is asked to, whatever the workers and the
   transport are doing: no wait for a job, for the frame in flight or for a
   worker is a wait for ever.  Since the request may come at any time this also
   finds any state in which everyone waits on everyone. *)
ShutdownCompletes == stopRequested ~> pc = "done"
=============================================================================
