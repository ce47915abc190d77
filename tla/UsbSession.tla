----------------------------- MODULE UsbSession -----------------------------
(* The session with the adapter (usb.c, heartbeat.c) and its recovery by the
   main thread (main.c, video_recover_usb_session).

   The main thread opens the device, starts the transport and the receiver
   thread, runs a script of commands, each of which may wait for a response
   that the receiver publishes, and starts the heartbeat thread.  When the
   session fails it is taken down and built again, first by closing and
   opening the endpoints, then by a reset of the device, for as long as it
   takes.

   The transport is up or down here (module Transport); ACKs of frames are in
   module AckGate. *)
EXTENDS Naturals, Sequences, SequencesExt

CONSTANTS
    Script,     \* the commands, by what is done about their response:
                \* "post" has no wait_code, "plain" a wait_code whose response
                \* may stay out, "mode" the one that is repeated (0x30)
    Tries,      \* how often a mode command is tried
    MaxFaults   \* bound: calls that fail, responses lost, late or unfavourable

Kinds == {"post", "plain", "mode"}

ASSUME SessionAssumption ==
    /\ Script \in Seq(Kinds) /\ Script # << >>
    /\ Tries \in Nat \ {0}
    /\ MaxFaults \in Nat

VARIABLES
    pc,         \* where the main thread is
    how,        \* it builds its first session (startup), reconnects (light),
                \* resets (full), or leaves (exit)
    stop,       \* no, deadline (--seconds is over), signal (stop_requested)
    cmd, try,   \* the command it runs
    usb,        \* struct smid_usb: zero, closed (no handle), ready
    tx,         \* the transport: down or up
    rx,         \* the receiver: none, check, read, publish, failed, exited
    rxMsg,      \* the response in its buffer, << >> or one message
    stopRx, rxError,
    fresh,      \* kinds whose response count has grown since the snapshot
    busy,       \* the status of the last mode response
    heart,      \* the heartbeat thread: none, asleep, posting, exited
    hstop,      \* h->stop
    evdiUsb,    \* the usb pointer of the EVDI source is set
    pending,    \* commands the adapter has received and not answered
    \* history and bounds
    accepted,   \* mode commands whose latest try the adapter accepted
    misread,    \* a response to an earlier try came while one was awaited
    faults

mainVars == <<pc, how, cmd, try>>
rxVars   == <<rx, rxMsg, stopRx, rxError, fresh, busy>>
restVars == <<heart, hstop, evdiUsb>>
history  == <<accepted, misread>>
vars     == <<mainVars, stop, usb, tx, rxVars, restVars, pending, history, faults>>

NoFault == UNCHANGED faults
Fault   == faults < MaxFaults /\ faults' = faults + 1
Kind    == Script[cmd]

Init == /\ pc = "open" /\ how = "startup" /\ stop = "no"
        /\ cmd = 1 /\ try = 1
        /\ usb = "zero" /\ tx = "down"
        /\ rx = "none" /\ rxMsg = << >>
        /\ stopRx = FALSE /\ rxError = "none"
        /\ fresh = {} /\ busy = FALSE
        /\ heart = "none" /\ hstop = FALSE /\ evdiUsb = FALSE
        /\ pending = << >>
        /\ accepted = {} /\ misread = FALSE
        /\ faults = 0

-----------------------------------------------------------------------------
(* Building a session. *)

(* What follows a failed call: the program leaves, or smid_usb_close and the
   next attempt. *)
Failed == IF how = "startup" THEN "exit" ELSE "close"

(* smid_usb_open resets the device, which forgets what it was asked.  A
   failure closes again by itself. *)
Open ==
    /\ pc = "open"
    /\ \/ /\ NoFault
          /\ usb' = "ready" /\ pc' = "io"
          /\ pending' = << >>
       \/ /\ Fault
          /\ usb' = "zero" /\ pc' = Failed
          /\ UNCHANGED pending
    /\ UNCHANGED <<how, cmd, try, stop, tx, rxVars, restVars, history>>

(* smid_usb_start_io; when the receiver cannot be created the transport is
   stopped again. *)
StartIo ==
    /\ pc = "io"
    /\ stopRx' = FALSE /\ rxError' = "none"
    /\ \/ /\ NoFault
          /\ tx' = "up" /\ rx' = "check"
          /\ pc' = IF how = "startup" THEN "beat" ELSE "snapshot"
       \/ /\ Fault
          /\ pc' = Failed
          /\ UNCHANGED <<tx, rx>>
    /\ cmd' = 1 /\ try' = 1
    /\ accepted' = {} /\ misread' = FALSE
    /\ UNCHANGED <<how, stop, usb, rxMsg, fresh, busy, restVars, pending>>

(* Mutant: a recovery ends by clearing the receiver's error, as it clears the
   ACKs. *)
StartHeartForgets ==
    /\ pc = "beat"
    /\ heart' = "asleep" /\ hstop' = FALSE
    /\ IF how = "startup" THEN pc' = "snapshot" /\ UNCHANGED evdiUsb
                          ELSE pc' = "stream" /\ evdiUsb' = TRUE
    /\ rxError' = "none"
    /\ UNCHANGED <<how, cmd, try, stop, usb, tx, rx, rxMsg, stopRx, fresh, busy,
                   pending, history, faults>>

(* smid_heartbeat_start, before the commands at startup and after them in a
   recovery, where it is the last call and the EVDI source gets its usb
   pointer back. *)
StartHeart ==
    /\ pc = "beat"
    /\ \/ /\ NoFault
          /\ heart' = "asleep" /\ hstop' = FALSE
          /\ IF how = "startup" THEN pc' = "snapshot" /\ UNCHANGED evdiUsb
                                ELSE pc' = "stream" /\ evdiUsb' = TRUE
       \/ /\ Fault
          /\ pc' = Failed
          /\ UNCHANGED restVars
    /\ UNCHANGED <<how, cmd, try, stop, usb, tx, rxVars, pending, history>>

(* smid_evdi_source_start, at startup only. *)
StartEvdi ==
    /\ pc = "evdi"
    /\ \/ /\ NoFault
          /\ pc' = "stream" /\ evdiUsb' = TRUE
       \/ /\ Fault
          /\ pc' = "exit" /\ UNCHANGED evdiUsb
    /\ UNCHANGED <<how, cmd, try, stop, usb, tx, rxVars, heart, hstop, pending,
                   history>>

-----------------------------------------------------------------------------
(* The commands: smid_usb_send_cmds, send_cmd_with_retry, send_cmd_once. *)

CommandDone ==
    IF cmd < Len(Script)
    THEN cmd' = cmd + 1 /\ try' = 1 /\ pc' = "snapshot"
    ELSE /\ pc' = IF how = "startup" THEN "evdi" ELSE "beat"
         /\ UNCHANGED <<cmd, try>>

CommandFails ==
    IF Kind = "mode" /\ try < Tries
    THEN try' = try + 1 /\ pc' = "snapshot" /\ UNCHANGED cmd
    ELSE pc' = Failed /\ UNCHANGED <<cmd, try>>

Outdated(s) == [i \in DOMAIN s |-> [s[i] EXCEPT !.old = TRUE]]

(* Mutant: the counts are compared with those of the session's start. *)
SnapshotOnce ==
    /\ pc = "snapshot"
    /\ pending' = Outdated(pending) /\ rxMsg' = Outdated(rxMsg)
    /\ pc' = "submit"
    /\ UNCHANGED <<how, cmd, try, stop, usb, tx, rx, stopRx, rxError, fresh, busy,
                   restVars, history, faults>>

(* smid_usb_rx_snapshot: what is answered from here on counts as the answer
   to this try; what the adapter still owes is an answer to another. *)
Snapshot ==
    /\ pc = "snapshot"
    /\ fresh' = fresh \ {Kind}
    /\ pending' = Outdated(pending) /\ rxMsg' = Outdated(rxMsg)
    /\ pc' = "submit"
    /\ UNCHANGED <<how, cmd, try, stop, usb, tx, rx, stopRx, rxError, busy,
                   restVars, history, faults>>

Received == IF Kind = "post" THEN pending
            ELSE Append(pending, [cmd |-> cmd, old |-> FALSE])

(* smid_transport_submit_sync.  A transfer that fails may have arrived. *)
Submit ==
    /\ pc = "submit"
    /\ \/ /\ NoFault
          /\ pending' = Received
          /\ IF Kind = "post" THEN CommandDone
                              ELSE pc' = "wait" /\ UNCHANGED <<cmd, try>>
       \/ /\ Fault
          /\ pending' \in {pending, Received}
          /\ CommandFails
    /\ UNCHANGED <<how, stop, usb, tx, rxVars, restVars, history>>

(* smid_usb_wait_code finds the count grown; only a mode command looks at the
   status. *)
WaitAnswered ==
    /\ pc = "wait"
    /\ Kind \in fresh
    /\ IF Kind = "mode" /\ busy THEN CommandFails ELSE CommandDone
    /\ UNCHANGED <<how, stop, usb, tx, rxVars, restVars, pending, history, faults>>

WaitSleeps ==
    /\ pc = "wait"
    /\ Kind \notin fresh
    /\ pc' = "asleep"
    /\ UNCHANGED <<how, cmd, try, stop, usb, tx, rxVars, restVars, pending, history,
                   faults>>

WaitWakes ==
    /\ pc = "asleep"
    /\ Kind \in fresh
    /\ pc' = "wait"
    /\ UNCHANGED <<how, cmd, try, stop, usb, tx, rxVars, restVars, pending, history,
                   faults>>

(* The answer to this try is still on its way. *)
AnswerComing ==
    /\ rx # "exited"
    /\ \E i \in DOMAIN (pending \o rxMsg) : ~(pending \o rxMsg)[i].old

(* pthread_cond_timedwait gives up after 1.2 s and the count is not looked at
   again.  It costs a fault unless the answer is lost. *)
WaitTimesOut ==
    /\ pc = "asleep"
    /\ IF AnswerComing \/ Kind \in fresh THEN Fault ELSE NoFault
    /\ IF Kind = "mode" THEN CommandFails ELSE CommandDone
    /\ UNCHANGED <<how, stop, usb, tx, rxVars, restVars, pending, history>>

-----------------------------------------------------------------------------
(* Streaming, the recovery, and the end. *)

(* video_recover_usb_session up to its loop. *)
TryToRecover(error) ==
    pc' = IF error = "recoverable" /\ stop # "signal" THEN "recover" ELSE "exit"

(* smid_usb_take_rx_error in the main loop. *)
TakeRxError ==
    /\ pc = "stream"
    /\ rxError # "none"
    /\ rxError' = "none"
    /\ TryToRecover(rxError)
    /\ UNCHANGED <<how, cmd, try, stop, usb, tx, rx, rxMsg, stopRx, fresh, busy,
                   restVars, pending, history, faults>>

(* A transfer fails, or the frame indexes wrap. *)
StreamFails ==
    /\ pc = "stream"
    /\ Fault
    /\ \E error \in {"recoverable", "fatal"} : TryToRecover(error)
    /\ UNCHANGED <<how, cmd, try, stop, usb, tx, rxVars, restVars, pending, history>>

StreamEnds ==
    /\ pc = "stream"
    /\ stop # "no"
    /\ pc' = "exit"
    /\ UNCHANGED <<how, cmd, try, stop, usb, tx, rxVars, restVars, pending, history,
                   faults>>

(* An attempt starts by keeping everybody away from the transport. *)
AttemptStarts ==
    /\ pc = "recover"
    /\ stop # "signal"
    /\ evdiUsb' = FALSE
    /\ hstop' = TRUE
    /\ how' = "light"
    /\ pc' = "stopHeart"
    /\ UNCHANGED <<cmd, try, stop, usb, tx, rxVars, heart, pending, history, faults>>

RecoveryStops ==
    /\ pc = "recover"
    /\ stop = "signal"
    /\ pc' = "exit"
    /\ UNCHANGED <<how, cmd, try, stop, usb, tx, rxVars, restVars, pending, history,
                   faults>>

(* Mutant: the heartbeat is told to stop and not waited for. *)
HeartNotJoined ==
    /\ pc = "stopHeart"
    /\ IF how = "exit" THEN pc' = "close" /\ UNCHANGED stopRx
       ELSE IF usb = "zero" THEN pc' = Failed /\ UNCHANGED stopRx
       ELSE pc' = "stopIo" /\ stopRx' = TRUE
    /\ UNCHANGED <<how, cmd, try, stop, usb, tx, rx, rxMsg, rxError, fresh, busy,
                   restVars, pending, history, faults>>

(* smid_heartbeat_stop joins the thread; then smid_usb_reconnect, or
   smid_usb_close at the end, sets stop_rx.  A session that is not initialized
   cannot be reconnected. *)
HeartJoined ==
    /\ pc = "stopHeart"
    /\ heart \in {"none", "exited"}
    /\ heart' = "none"
    /\ IF how = "exit" THEN pc' = "close" /\ UNCHANGED stopRx
       ELSE IF usb = "zero" THEN pc' = Failed /\ UNCHANGED stopRx
       ELSE pc' = "stopIo" /\ stopRx' = TRUE
    /\ UNCHANGED <<how, cmd, try, stop, usb, tx, rx, rxMsg, rxError, fresh, busy,
                   hstop, evdiUsb, pending, history, faults>>

(* Mutant: a handle that is open is not opened again, whoever reads from it. *)
ReconnectEarly ==
    /\ pc = "stopIo"
    /\ rx' = IF rx = "exited" THEN "none" ELSE rx
    /\ tx' = "down"
    /\ rxError' = "none"
    /\ \/ NoFault /\ usb' = "ready" /\ pc' = "io"
       \/ Fault /\ usb' = "closed" /\ pc' = Failed
    /\ UNCHANGED <<how, cmd, try, stop, rxMsg, stopRx, fresh, busy, restVars, pending,
                   history>>

(* smid_usb_stop_io joins the receiver and stops the transport;
   smid_usb_reconnect closes the handle and opens it again. *)
Reconnect ==
    /\ pc = "stopIo"
    /\ rx \in {"none", "exited"}
    /\ rx' = "none" /\ tx' = "down"
    /\ rxError' = "none"
    /\ \/ NoFault /\ usb' = "ready" /\ pc' = "io"
       \/ Fault /\ usb' = "closed" /\ pc' = Failed
    /\ UNCHANGED <<how, cmd, try, stop, rxMsg, stopRx, fresh, busy, restVars, pending,
                   history>>

(* Mutant: the receiver is not told. *)
CloseBeginsSilently ==
    /\ pc = "close"
    /\ pc' = "closing"
    /\ UNCHANGED <<how, cmd, try, stop, usb, tx, rxVars, restVars, pending, history,
                   faults>>

(* smid_usb_close up to the join. *)
CloseBegins ==
    /\ pc = "close"
    /\ stopRx' = (usb # "zero")
    /\ pc' = "closing"
    /\ UNCHANGED <<how, cmd, try, stop, usb, tx, rx, rxMsg, rxError, fresh, busy,
                   restVars, pending, history, faults>>

(* Mutant: a failed reset is the end of the recovery's attempts. *)
CloseEndsThere ==
    /\ pc = "closing"
    /\ rx \in {"none", "exited"}
    /\ rx' = "none" /\ tx' = "down" /\ usb' = "zero"
    /\ stopRx' = FALSE /\ rxError' = "none"
    /\ \/ how = "light" /\ how' = "full" /\ pc' = "open"
       \/ how = "full" /\ pc' = "closing" /\ UNCHANGED how
       \/ how = "exit" /\ pc' = "done" /\ UNCHANGED how
    /\ UNCHANGED <<cmd, try, stop, rxMsg, fresh, busy, restVars, pending, history,
                   faults>>

(* The rest of smid_usb_close ends in a memset.  A failed reconnection goes on
   with the reset of the device, a failed reset with the next attempt. *)
CloseEnds ==
    /\ pc = "closing"
    /\ rx \in {"none", "exited"}
    /\ rx' = "none" /\ tx' = "down" /\ usb' = "zero"
    /\ stopRx' = FALSE /\ rxError' = "none"
    /\ \/ how = "light" /\ how' = "full" /\ pc' = "open"
       \/ how = "full" /\ pc' = "recover" /\ UNCHANGED how
       \/ how = "exit" /\ pc' = "done" /\ UNCHANGED how
    /\ UNCHANGED <<cmd, try, stop, rxMsg, fresh, busy, restVars, pending, history,
                   faults>>

(* The end of main: smid_evdi_source_stop, smid_heartbeat_stop, then
   smid_usb_close. *)
Leave ==
    /\ pc = "exit"
    /\ evdiUsb' = FALSE
    /\ hstop' = TRUE
    /\ how' = "exit"
    /\ pc' = "stopHeart"
    /\ UNCHANGED <<cmd, try, stop, usb, tx, rxVars, heart, pending, history, faults>>

Main == \/ Open \/ StartIo \/ StartHeart \/ StartEvdi
        \/ Snapshot \/ Submit
        \/ WaitAnswered \/ WaitSleeps \/ WaitWakes \/ WaitTimesOut
        \/ TakeRxError \/ StreamFails \/ StreamEnds
        \/ AttemptStarts \/ RecoveryStops \/ HeartJoined \/ Reconnect
        \/ CloseBegins \/ CloseEnds \/ Leave

(* SIGINT, SIGTERM, and the end of --seconds. *)
Stop == /\ pc # "done"
        /\ \/ stop = "no" /\ stop' = "deadline"
           \/ stop # "signal" /\ stop' = "signal"
        /\ UNCHANGED <<mainVars, usb, tx, rxVars, restVars, pending, history, faults>>

-----------------------------------------------------------------------------
(* The receiver, rx_thread_main, and the adapter. *)

RxCheck ==
    /\ rx = "check"
    /\ rx' = IF stopRx THEN "exited" ELSE "read"
    /\ UNCHANGED <<mainVars, stop, usb, tx, rxMsg, stopRx, rxError, fresh, busy,
                   restVars, pending, history, faults>>

(* A read that times out after 250 ms is repeated: it matters at a stop. *)
RxTimesOut ==
    /\ rx = "read"
    /\ stopRx
    /\ rx' = "check"
    /\ UNCHANGED <<mainVars, stop, usb, tx, rxMsg, stopRx, rxError, fresh, busy,
                   restVars, pending, history, faults>>

(* The adapter answers the commands in their order, a mode command with its
   status. *)
RxReceives ==
    /\ rx = "read"
    /\ pending # << >>
    /\ \E refused \in BOOLEAN :
          LET answer == Head(pending) IN
          /\ IF refused THEN Script[answer.cmd] = "mode" /\ Fault ELSE NoFault
          /\ rxMsg' = << [cmd |-> answer.cmd, old |-> answer.old, busy |-> refused] >>
          /\ accepted' = IF answer.old \/ refused THEN accepted
                         ELSE accepted \cup {answer.cmd}
    /\ pending' = Tail(pending)
    /\ rx' = "publish"
    /\ UNCHANGED <<mainVars, stop, usb, tx, stopRx, rxError, fresh, busy, restVars,
                   misread>>

Awaiting == pc \in {"submit", "wait", "asleep"}

(* rx_publish, under rx_lock. *)
RxPublishes ==
    /\ rx = "publish"
    /\ LET answer == Head(rxMsg)
           kind   == Script[answer.cmd] IN
       /\ fresh' = fresh \cup {kind}
       /\ busy' = IF kind = "mode" THEN answer.busy ELSE busy
       /\ misread' = (misread \/ (Awaiting /\ answer.old /\ kind = Kind))
    /\ rxMsg' = << >>
    /\ rx' = "check"
    /\ UNCHANGED <<mainVars, stop, usb, tx, stopRx, rxError, restVars, pending,
                   accepted, faults>>

RxFails ==
    /\ rx = "read"
    /\ Fault
    /\ rx' = "failed"
    /\ UNCHANGED <<mainVars, stop, usb, tx, rxMsg, stopRx, rxError, fresh, busy,
                   restVars, pending, history>>

(* The thread is over; an error that no stop explains is left for the main
   thread. *)
RxReports ==
    /\ rx = "failed"
    /\ IF stopRx THEN UNCHANGED rxError ELSE rxError' \in {"recoverable", "fatal"}
    /\ rx' = "exited"
    /\ UNCHANGED <<mainVars, stop, usb, tx, rxMsg, stopRx, fresh, busy, restVars,
                   pending, history, faults>>

Receiver == RxCheck \/ RxTimesOut \/ RxReceives \/ RxPublishes \/ RxFails \/ RxReports

(* A command is ignored, or its answer is lost. *)
AnswerLost ==
    /\ pending # << >>
    /\ Fault
    /\ pending' = Tail(pending)
    /\ UNCHANGED <<mainVars, stop, usb, tx, rxVars, restVars, history>>

-----------------------------------------------------------------------------
(* The heartbeat, heartbeat_thread_main: a round that finds a recent success
   changes nothing. *)

HeartWakes ==
    /\ heart = "asleep"
    /\ heart' = IF hstop THEN "exited" ELSE "posting"
    /\ UNCHANGED <<mainVars, stop, usb, tx, rxVars, hstop, evdiUsb, pending, history,
                   faults>>

HeartPosts ==
    /\ heart = "posting"
    /\ heart' = "asleep"
    /\ UNCHANGED <<mainVars, stop, usb, tx, rxVars, hstop, evdiUsb, pending, history,
                   faults>>

Heart == HeartWakes \/ HeartPosts

Finished == pc = "done" /\ UNCHANGED vars

Next == Main \/ Stop \/ Receiver \/ AnswerLost \/ Heart \/ Finished

(* Every thread runs; an adapter that has a response to give gives it within
   the receiver's endless rounds of reading. *)
Fairness == WF_vars(Main) /\ WF_vars(Receiver) /\ WF_vars(Heart)

Spec == Init /\ [][Next]_vars
FairSpec == Spec /\ Fairness

-----------------------------------------------------------------------------
(* What must hold. *)

Places == {"open", "io", "beat", "evdi", "snapshot", "submit", "wait", "asleep",
           "stream", "recover", "stopHeart", "stopIo", "close", "closing", "exit", "done"}

Asked   == [cmd : DOMAIN Script, old : BOOLEAN]
Answers == [cmd : DOMAIN Script, old : BOOLEAN, busy : BOOLEAN]

StatesOK ==
    /\ pc \in Places
    /\ how \in {"startup", "light", "full", "exit"}
    /\ stop \in {"no", "deadline", "signal"}
    /\ usb \in {"zero", "closed", "ready"}
    /\ tx \in {"down", "up"}
    /\ rx \in {"none", "check", "read", "publish", "failed", "exited"}
    /\ rxError \in {"none", "recoverable", "fatal"}
    /\ heart \in {"none", "asleep", "posting", "exited"}

FlagsOK == /\ stopRx \in BOOLEAN /\ hstop \in BOOLEAN /\ evdiUsb \in BOOLEAN
           /\ busy \in BOOLEAN /\ misread \in BOOLEAN

CountsOK == /\ cmd \in DOMAIN Script /\ try \in 1 .. Tries
            /\ fresh \subseteq Kinds /\ accepted \subseteq DOMAIN Script
            /\ faults \in 0 .. MaxFaults

MessagesOK == /\ rxMsg \in Seq(Answers) /\ pending \in Seq(Asked)
              /\ IF rx = "publish" THEN Len(rxMsg) = 1 ELSE rxMsg = << >>

TypeOK == StatesOK /\ FlagsOK /\ CountsOK /\ MessagesOK

(* Nobody is left with what is closed: the receiver and the transport have an
   open handle, and the heartbeat and the holders of the usb pointer have a
   transport, whichever call of whichever attempt fails (usb.c:247-294,
   main.c:894-938, 1418-1421). *)
NothingClosedInUse ==
    /\ rx # "none" \/ tx = "up" => usb = "ready"
    /\ heart = "posting" \/ evdiUsb => tx = "up"

(* Whatever path built the session, frames are sent in a whole one; a receiver
   that has ended has left its error for the main loop (usb.c:219-224,
   main.c:1184-1195). *)
StreamsInWholeSession ==
    pc = "stream" =>
        /\ usb = "ready" /\ tx = "up" /\ ~stopRx
        /\ heart \in {"asleep", "posting"} /\ evdiUsb
        /\ rx # "none"
        /\ rx = "exited" => rxError # "none"

(* Frames are sent to an adapter that accepted the last try of every mode
   command of this session, unless a late response to an earlier try was taken
   for the answer to a later one (usb.c:400-444). *)
ModesAcceptedUnlessMisread ==
    pc = "stream" /\ ~misread =>
        \A i \in DOMAIN Script : Script[i] = "mode" => i \in accepted

(* The program leaves nothing running (main.c:1418-1421). *)
EverythingReleased ==
    pc = "done" => /\ usb = "zero" /\ tx = "down" /\ rx = "none"
                   /\ heart = "none" /\ ~evdiUsb

(* What is open, who uses it, and what is left at the end, together. *)
ResourcesInOrder == TypeOK /\ NothingClosedInUse /\ EverythingReleased

(* A recovery comes to an end once calls stop failing (main.c:894-938). *)
RecoveryReturns == pc = "recover" ~> pc \in {"stream", "done"}

(* A receiver that has ended is replaced, unless the program ends
   (usb.c:219-224, main.c:1184-1195). *)
DeadReceiverReplaced == rx = "exited" ~> rx = "check" \/ pc = "done"

(* No session is lost for ever while the program runs: what fails is noticed, and
   what was begun to repair it comes to an end. *)
SessionsRecover == RecoveryReturns /\ DeadReceiverReplaced

(* A signal ends the program wherever it is, commands and recovery included
   (main.c:887, 894). *)
SignalEndsProgram == stop = "signal" ~> pc = "done"
=============================================================================
