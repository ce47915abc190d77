------------------------------- MODULE Cursor -------------------------------
(* The hardware cursors (evdi_source.c): what the desktop asks for, as the
   EVDI threads note it, the thread that serves the notes, the cache of images
   that the adapter holds in numbered slots, and the replay after a recovery.

   Uploads are the hard part.  An image is in the cache from the moment it is
   submitted; whether the adapter took it is known only when the transfer is
   done and a response with code 0x42 has come, and no field of a response
   says which upload it answers.  The packet of an upload is read by the
   transport while the upload waits in its queue: a stream has one packet and
   one result cell.

   The transport is a queue that may fail an item (module Transport); the
   session goes down and comes back as a whole (module UsbSession). *)
EXTENDS Integers, Sequences, FiniteSets, FiniteSetsExt

CONSTANTS
    Streams,        \* 0..n-1
    Image,          \* cursor pictures
    CacheMax,       \* the last slot, SMID_CURSOR_CACHE_MAX
    Rewind,         \* SMID_CURSOR_CACHE_REWIND
    QueueCap,       \* SMID_TX_QUEUE_CAP
    Budgets         \* bounds: how often the desktop sets images (sets, per
                    \* stream) and moves cursors (moves), how often something
                    \* goes wrong (faults) and sessions are lost (recoveries)

ASSUME CursorAssumption ==
    /\ Streams # {} /\ IsFiniteSet(Streams) /\ Streams \subseteq Nat
    /\ CacheMax \in Nat /\ Rewind \in 1..CacheMax + 1
    /\ QueueCap \in Nat \ {0}
    /\ "none" \notin Image /\ "disabled" \notin Image
    /\ Budgets \subseteq [sets : [Streams -> Nat], moves : Nat, faults : Nat,
                          recoveries : Nat]

Slots    == 0..CacheMax
None     == "none"
NoSlot   == -1
Disabled == "disabled"     \* a cursor set without a picture
Pictures == Image \cup {None}
Places   == {0, 1}          \* 0 is the origin, 1 any other position
NoAnswer == [of |-> NoSlot, old |-> FALSE, ok |-> FALSE]
NoJob    == [stream |-> Min(Streams), set |-> None, move |-> NoSlot]

VARIABLES
    src,        \* what cursor_lock protects: per stream (st) and shared
    queue,      \* the transport's cursor queue
    usb,        \* the source's usb pointer is set
    note,       \* per stream, pending_cursor_*: a set and a move
    ct, job,    \* the cursor thread's place, and what it took
    main, todo, \* the main thread's place; what a replay has collected
    stop,       \* cursor_stop
    dev,        \* the adapter: slots, selected shape and state per stream
    answers,    \* responses to uploads on their way
    \* history and bounds
    doubt,      \* slots whose entry was made without an upload, or whose
                \* upload was taken for good on another one's response
    overtaken,  \* streams whose upload was in the queue when a replay began
    asked,      \* per stream, the last image that was accepted
    lapsed,     \* streams whose image was given up: refused, failed, late,
                \* or its slot was given to the other stream
    misled,     \* streams whose last selection failed in its transfer
    adrift,     \* streams whose last state was refused or failed
    reverted,   \* streams on which a replay put an older image
    sets, moves, faults, recoveries     \* what is left of the budget

sys    == <<note, ct, job, main, todo, stop>>
wire   == <<dev, answers>>
ghosts == <<doubt, overtaken, asked, lapsed, misled, adrift, reverted>>
bounds == <<sets, moves, faults, recoveries>>
vars   == <<src, queue, usb, sys, wire, ghosts, bounds>>

Fault   == faults > 0 /\ faults' = faults - 1
NoFault == UNCHANGED faults

-----------------------------------------------------------------------------
(* The operations under cursor_lock, as functions on a record w that holds
   src, the queue, the code returned, and the history they write. *)

World == [s |-> src, q |-> queue, rc |-> 0, ans |-> answers,
          doubt |-> doubt, asked |-> asked, lapsed |-> lapsed, adrift |-> adrift]

Become(w) == \E v \in {w} :
    /\ src' = v.s /\ queue' = v.q /\ answers' = v.ans
    /\ doubt' = v.doubt /\ asked' = v.asked /\ lapsed' = v.lapsed
    /\ adrift' = v.adrift

Fine(w)     == [w EXCEPT !.rc = 0]
Lapse(w, s) == [w EXCEPT !.lapsed = @ \cup {s}]

(* cursor_submit_inline and smid_transport_submit, under usb_lock. *)
Submit(w, item) ==
    IF ~usb \/ Len(w.q) = QueueCap THEN [w EXCEPT !.rc = -1]
    ELSE [Fine(w) EXCEPT !.q = Append(@, item)]

(* Mutant: the selection is recorded before its submission is accepted. *)
SelectRecordsFirst(w, s) ==
    LET u == w.s.st[s] IN
    IF \/ u.slot = NoSlot
       \/ u.inflight /\ u.upShape = u.slot
       \/ w.s.selStream = s /\ w.s.selShape[s] = u.slot
    THEN Fine(w)
    ELSE Submit([w EXCEPT !.s.selStream = s, !.s.selShape[s] = u.slot],
                [kind |-> "select", stream |-> s, shape |-> u.slot])

(* cursor_select_locked *)
Select(w, s) ==
    LET u == w.s.st[s]
        v == Submit(w, [kind |-> "select", stream |-> s, shape |-> u.slot])
    IN IF \/ u.slot = NoSlot
          \/ u.inflight /\ u.upShape = u.slot
          \/ w.s.selStream = s /\ w.s.selShape[s] = u.slot
       THEN Fine(w)
       ELSE IF v.rc # 0 THEN Lapse(v, s)
       ELSE [v EXCEPT !.s.selStream = s, !.s.selShape[s] = u.slot]

Moved(w, s, at, shown) == [w EXCEPT !.s.st[s] = [@ EXCEPT !.at = at, !.shown = shown]]

SendState(w, s) ==
    LET u == w.s.st[s]
        v == Submit(w, [kind |-> "state", stream |-> s, at |-> u.at, shown |-> u.shown])
    IN [v EXCEPT !.adrift = IF v.rc = 0 THEN @ \ {s} ELSE @ \cup {s}]

(* cursor_submit_state_locked *)
SubmitState(w, s, at, shown, force) ==
    LET u == w.s.st[s]
        v == IF shown THEN Select(w, s) ELSE Fine(w)
    IN IF v.rc # 0 \/ (~force /\ u.at = at /\ u.shown = shown) THEN v
       ELSE SendState(Moved(v, s, at, shown), s)

(* What is still in the queue or on its way back for stream s belongs to an
   upload that nobody waits for any more. *)
Outdated(w, s) ==
    [w EXCEPT !.q   = [i \in DOMAIN @ |-> IF @[i].stream = s /\ @[i].kind = "image"
                                          THEN [@[i] EXCEPT !.old = TRUE] ELSE @[i]],
              !.ans = [i \in DOMAIN @ |-> IF @[i].of = s
                                          THEN [@[i] EXCEPT !.old = TRUE] ELSE @[i]]]

GiveUp(w, s) ==
    [Outdated(w, s) EXCEPT !.s.st[s] = [@ EXCEPT !.inflight = FALSE, !.txDone = FALSE,
        !.upShape = NoSlot, !.result = None, !.seen = NoAnswer, !.late = FALSE]]

(* Mutant: a failed upload leaves the image in the cache. *)
UploadFailKeeps(w, s) == GiveUp(w, s)

(* cursor_upload_fail_locked *)
UploadFail(w, s) ==
    LET k == w.s.st[s].upShape IN
    IF k = NoSlot THEN GiveUp(w, s)
    ELSE [GiveUp(w, s) EXCEPT !.s.cache[k] = None, !.doubt = @ \ {k},
                              !.lapsed = @ \cup {r \in Streams : w.s.st[r].slot = k}]

(* Mutant: the image that has landed is not selected. *)
LandedSilently(w, s) == GiveUp(w, s)

(* The end of cursor_pump_locked, when the adapter has taken the image. *)
Landed(w, s) ==
    LET k == w.s.st[s].upShape
        a == w.s.st[s].seen
        v == [GiveUp(w, s) EXCEPT
                !.doubt = IF a.of = s /\ ~a.old THEN @ ELSE @ \cup {k}]
        x == Select(v, s)
        u == x.s.st[s]
    IN IF v.s.st[s].slot # k THEN v
       ELSE IF x.rc = 0 /\ u.shown THEN SubmitState(x, s, u.at, TRUE, TRUE)
       ELSE x

(* Mutant: a late upload is given up before its transfer is done. *)
PumpImpatient(w, s) ==
    LET u == w.s.st[s]
        v == [w EXCEPT !.s.st[s].txDone = TRUE]
    IN CASE ~u.inflight -> w
         [] u.inflight /\ ~u.txDone /\ u.result = None ->
                IF u.late THEN UploadFail(w, s) ELSE w
         [] u.inflight /\ ~u.txDone /\ u.result = "failed" -> UploadFail(w, s)
         [] u.inflight /\ (u.txDone \/ u.result = "ok") ->
                IF usb /\ u.seen # NoAnswer
                THEN IF u.seen.ok THEN Landed(v, s) ELSE UploadFail(v, s)
                ELSE IF u.late THEN UploadFail(v, s) ELSE v

(* cursor_pump_locked *)
Pump(w, s) ==
    LET u == w.s.st[s]
        v == [w EXCEPT !.s.st[s].txDone = TRUE]
    IN CASE ~u.inflight -> w
         [] u.inflight /\ ~u.txDone /\ u.result = None -> w
         [] u.inflight /\ ~u.txDone /\ u.result = "failed" -> UploadFail(w, s)
         [] u.inflight /\ (u.txDone \/ u.result = "ok") ->
                IF usb /\ u.seen # NoAnswer
                THEN IF u.seen.ok THEN Landed(v, s) ELSE UploadFail(v, s)
                ELSE IF u.late THEN UploadFail(v, s) ELSE v

(* The slot of a new image: slots are numbered on, and after the last one the
   numbering goes back by Rewind. *)
NextShape(next) == IF next > CacheMax THEN next - Rewind ELSE next

(* The image is entered in slot k, whatever the slot held, and numbered n. *)
Numbered(o, s, img, n, k) ==
    [o EXCEPT !.next = n + 1, !.cache[k] = img,
              !.st[s] = [@ EXCEPT !.slot = k, !.packet = [shape |-> k, img |-> img]]]

Entered(w, s, img, n, k) ==
    [w EXCEPT !.s = Numbered(@, s, img, n, k),
              !.doubt = @ \cup {k},
              !.lapsed = @ \cup {r \in Streams \ {s} : w.s.st[r].slot = k}]

Begin(w, s, k) ==
    [w EXCEPT !.s.st[s] = [@ EXCEPT !.inflight = TRUE, !.txDone = FALSE,
                 !.upShape = k, !.result = None, !.seen = NoAnswer, !.late = FALSE],
              !.doubt = @ \ {k}]

(* What cursor_send_image_ex does for an image that is not in the cache.  The
   entry is valid before anything is submitted. *)
Upload(w, s, img) ==
    LET n == NextShape(w.s.next)
        k == Min({n, CacheMax})
        v == Entered(w, s, img, n, k)
        x == Submit(v, [kind |-> "image", stream |-> s, old |-> FALSE])
    IN IF ~usb THEN [Lapse(v, s) EXCEPT !.rc = -1]
       ELSE IF x.rc # 0
       THEN [Lapse(x, s) EXCEPT !.s.st[s].result = None]
       ELSE Begin(x, s, k)

(* cursor_send_image_ex *)
SendImage(w, s, img, force) ==
    LET v    == Pump(w, s)
        u    == v.s.st[s]
        hits == {i \in Slots : v.s.cache[i] = img}
        took == IF force THEN v ELSE [v EXCEPT !.asked[s] = img, !.lapsed = @ \ {s}]
    IN IF img = Disabled THEN SubmitState(w, s, 0, FALSE, FALSE)
       ELSE IF u.inflight THEN Fine(v)
       ELSE IF force \/ hits = {} THEN Upload(took, s, img)
       ELSE IF u.slot \in hits THEN Select(took, s)
       ELSE LET k == Min(hits) IN
            Select([took EXCEPT !.s.st[s] = [@ EXCEPT !.slot = k,
                                !.packet = [shape |-> k, img |-> img]]], s)
-----------------------------------------------------------------------------
Nothing == [img |-> None, at |-> 0, shown |-> FALSE]

Init ==
    /\ src = [st |-> [s \in Streams |->
                        [slot |-> NoSlot, upShape |-> NoSlot,
                         inflight |-> FALSE, txDone |-> FALSE,
                         seen |-> NoAnswer, late |-> FALSE,
                         result |-> None, at |-> 0, shown |-> FALSE,
                         packet |-> [shape |-> NoSlot, img |-> None]]],
              cache |-> [k \in Slots |-> None], next |-> 0,
              selStream |-> NoSlot, selShape |-> [s \in Streams |-> NoSlot]]
    /\ queue = << >> /\ usb = TRUE
    /\ note = [s \in Streams |-> [set |-> None, move |-> NoSlot]]
    /\ ct = [at |-> "pump", k |-> Min(Streams)]
    /\ job = NoJob
    /\ main = [at |-> "run", k |-> Min(Streams)]
    /\ todo = [s \in Streams |-> Nothing]
    /\ stop = FALSE
    /\ dev = [slots |-> [k \in Slots |-> None],
              sel |-> [s \in Streams |-> NoSlot],
              state |-> [s \in Streams |-> [at |-> 0, shown |-> FALSE]]]
    /\ answers = << >>
    /\ doubt = {} /\ overtaken = {}
    /\ asked = [s \in Streams |-> None] /\ lapsed = {}
    /\ misled = {} /\ adrift = {} /\ reverted = {}
    /\ \E b \in Budgets : /\ sets = b.sets /\ moves = b.moves
                          /\ faults = b.faults /\ recoveries = b.recoveries

-----------------------------------------------------------------------------
(* The EVDI threads. *)

Awake == IF ct.at = "asleep" THEN ct' = [ct EXCEPT !.at = "fetch"]
                             ELSE UNCHANGED ct

(* evdi_cursor_set_handler: without a usb pointer the event is lost. *)
CursorSet(s, img) ==
    /\ main.at # "freed" /\ main.at # "closed" /\ usb
    /\ sets[s] > 0 /\ sets' = [sets EXCEPT ![s] = @ - 1]
    /\ note' = [note EXCEPT ![s].set = img] /\ Awake
    /\ UNCHANGED <<src, queue, usb, job, main, todo, stop, wire, ghosts,
                   moves, faults, recoveries>>

(* evdi_cursor_move_handler *)
CursorMove(s, at) ==
    /\ main.at # "freed" /\ main.at # "closed" /\ usb
    /\ moves > 0 /\ moves' = moves - 1
    /\ note' = [note EXCEPT ![s].move = at] /\ Awake
    /\ UNCHANGED <<src, queue, usb, job, main, todo, stop, wire, ghosts,
                   sets, faults, recoveries>>

-----------------------------------------------------------------------------
(* cursor_thread_main *)

Pending(s)  == note[s].set # None \/ note[s].move # NoSlot
AnyPending  == \E s \in Streams : Pending(s)
AnyInflight == \E s \in Streams : src.st[s].inflight

Later(s) == {r \in Streams : r > s}
PumpAll  == [at |-> "pump", k |-> Min(Streams)]

(* cursor_pump_stream, for one stream after the other. *)
CtPump ==
    /\ ct.at = "pump"
    /\ Become(IF usb THEN Pump(World, ct.k) ELSE World)
    /\ ct' = IF Later(ct.k) = {} THEN [ct EXCEPT !.at = "fetch"]
                                 ELSE [ct EXCEPT !.k = Min(Later(ct.k))]
    /\ UNCHANGED <<usb, note, job, main, todo, stop, dev, overtaken, misled, reverted, bounds>>

(* Under cursor_event_lock: sleep, leave, or take the notes of the first
   stream that has any.  The sleep is only limited (to 2 ms) while an upload is
   in flight. *)
CtFetch ==
    /\ ct.at \in {"fetch", "doze"}
    /\ \/ /\ ~AnyPending
          /\ ct' = [ct EXCEPT !.at = CASE stop -> "exited"
                                       [] ~stop /\ ct.at = "doze" -> "pump"
                                       [] ~stop /\ ct.at = "fetch" ->
                                            IF AnyInflight THEN "doze" ELSE "asleep",
                               !.k = Min(Streams)]
          /\ UNCHANGED <<note, job>>
       \/ /\ AnyPending
          /\ LET s == Min({r \in Streams : Pending(r)}) IN
             /\ job' = [stream |-> s, set |-> note[s].set, move |-> note[s].move]
             /\ note' = [note EXCEPT ![s] = [set |-> None, move |-> NoSlot]]
          /\ ct' = [ct EXCEPT !.at = "set"]
    /\ UNCHANGED <<src, queue, usb, main, todo, stop, wire, ghosts, bounds>>

CtSet ==
    /\ ct.at = "set"
    /\ Become(IF job.set = None THEN World
              ELSE SendImage(World, job.stream, job.set, FALSE))
    /\ ct' = [ct EXCEPT !.at = "move"]
    /\ UNCHANGED <<usb, note, job, main, todo, stop, dev, overtaken, misled, reverted, bounds>>

(* A move to the origin shows the cursor there and hides it. *)
CtMove ==
    /\ ct.at = "move"
    /\ Become(IF job.move = NoSlot THEN World
              ELSE SubmitState(World, job.stream, job.move, TRUE, FALSE))
    /\ ct' = IF job.move = 0 THEN [ct EXCEPT !.at = "hide"] ELSE PumpAll
    /\ job' = IF job.move = 0 THEN job ELSE NoJob
    /\ UNCHANGED <<usb, note, main, todo, stop, dev, overtaken, misled, reverted, bounds>>

CtHide ==
    /\ ct.at = "hide"
    /\ Become(SubmitState(World, job.stream, 0, FALSE, FALSE))
    /\ ct' = PumpAll /\ job' = NoJob
    /\ UNCHANGED <<usb, note, main, todo, stop, dev, overtaken, misled, reverted, bounds>>

CursorThread == CtPump \/ CtFetch \/ CtSet \/ CtMove \/ CtHide

-----------------------------------------------------------------------------
(* The transport's worker, the adapter, and time. *)

Queued(s) == \E i \in DOMAIN queue : queue[i].kind = "image" /\ queue[i].stream = s

(* An item leaves the queue: smid_transport's worker sends it. *)
Sent(kinds) ==
    /\ queue # << >> /\ Head(queue).kind \in kinds
    /\ queue' = Tail(queue)
    /\ UNCHANGED <<usb, sys, doubt, asked, reverted, sets, moves, recoveries>>

Answered(ok) == answers' = Append(answers,
                    [of |-> Head(queue).stream, old |-> Head(queue).old, ok |-> ok])
Result(rc)   == src' = [src EXCEPT !.st[Head(queue).stream].result = rc]

(* An image is read from the stream's packet when it is sent, and its result
   is written to the stream's cell.  The adapter may refuse it. *)
SendsImage ==
    LET p == src.st[Head(queue).stream].packet IN
    /\ Sent({"image"})
    /\ \/ /\ NoFault /\ Result("ok") /\ Answered(TRUE)
          /\ dev' = [dev EXCEPT !.slots[p.shape] = p.img]
       \/ /\ Fault /\ Result("ok") /\ Answered(FALSE)
          /\ UNCHANGED dev
    /\ overtaken' = {s \in overtaken : Queued(s)'} /\ UNCHANGED <<lapsed, misled, adrift>>

SendsCommand ==
    LET item == Head(queue) IN
    /\ Sent({"select", "state"})
    /\ NoFault
    /\ dev' = IF item.kind = "select"
              THEN [dev EXCEPT !.sel[item.stream] = item.shape]
              ELSE [dev EXCEPT !.state[item.stream] = [at |-> item.at, shown |-> item.shown]]
    /\ misled' = IF item.kind = "select" THEN misled \ {item.stream} ELSE misled
    /\ UNCHANGED <<src, answers, overtaken, lapsed, adrift>>

TransferFails ==
    /\ Sent({"image", "select", "state"})
    /\ Fault
    /\ IF Head(queue).kind = "image" THEN Result("failed") ELSE UNCHANGED src
    /\ overtaken' = {s \in overtaken : Queued(s)'}
    /\ LET failed(kind) == IF Head(queue).kind = kind THEN {Head(queue).stream} ELSE {}
       IN misled' = misled \cup failed("select") /\ adrift' = adrift \cup failed("state")
    /\ UNCHANGED <<dev, answers, lapsed>>

Worker == SendsImage \/ SendsCommand \/ TransferFails

(* The receiver counts a response to 0x42, whichever upload it answers
   (usb.c, publish_response). *)
Response ==
    /\ answers # << >> /\ main.at # "down"
    /\ answers' = Tail(answers)
    /\ src' = [src EXCEPT !.st = [s \in Streams |->
                  [src.st[s] EXCEPT !.seen = IF src.st[s].inflight THEN Head(answers) ELSE @]]]
    /\ UNCHANGED <<queue, usb, sys, dev, ghosts, bounds>>

ResponseLost ==
    /\ answers # << >> /\ Fault /\ answers' = Tail(answers)
    /\ UNCHANGED <<src, queue, usb, sys, dev, ghosts, sets, moves, recoveries>>

(* A second has passed since the upload began. *)
TimePasses(s) ==
    /\ src.st[s].inflight /\ ~src.st[s].late
    /\ src' = [src EXCEPT !.st[s].late = TRUE]
    /\ UNCHANGED <<queue, usb, sys, wire, ghosts, bounds>>

-----------------------------------------------------------------------------
(* The main thread: recovery (main.c, video_recover_usb_session) with
   smid_evdi_source_set_usb and smid_evdi_source_poke_cursor_state, and
   smid_evdi_source_stop. *)

(* smid_evdi_source_set_usb(NULL), which wakes the cursor thread too. *)
SessionFails ==
    /\ main.at = "run" /\ recoveries > 0 /\ recoveries' = recoveries - 1
    /\ main' = [main EXCEPT !.at = "down"] /\ usb' = FALSE /\ Awake
    /\ UNCHANGED <<src, queue, note, job, todo, stop, wire, ghosts, sets, moves, faults>>

(* The transport of the old session is stopped, which reports what is queued as
   interrupted, the adapter forgets its cursors, and a new session is built.  The
   response counters may be those of the old session or start again. *)
SessionRebuilt ==
    /\ main.at = "down"
    /\ main' = [main EXCEPT !.at = "attach"] /\ queue' = << >> /\ overtaken' = {}
    /\ \E keep \in BOOLEAN :
        src' = [src EXCEPT !.st = [s \in Streams |->
                  [src.st[s] EXCEPT !.result = IF Queued(s) THEN "failed" ELSE @,
                                    !.seen = IF keep THEN @ ELSE NoAnswer]]]
    /\ dev' = [slots |-> [k \in Slots |-> None],
               sel |-> [s \in Streams |-> NoSlot],
               state |-> [s \in Streams |-> [at |-> 0, shown |-> FALSE]]]
    /\ adrift' = {s \in Streams : src.st[s].shown}
    /\ UNCHANGED <<usb, note, ct, job, todo, stop, answers, doubt, asked, lapsed,
                   misled, reverted, bounds>>

Attach ==
    /\ main.at = "attach"
    /\ main' = [main EXCEPT !.at = "collect"] /\ usb' = TRUE /\ Awake
    /\ UNCHANGED <<src, queue, note, job, todo, stop, wire, ghosts, bounds>>

(* The first part of the replay, under cursor_lock: what the driver's records
   say each stream shows is collected and everything else forgotten.  The image,
   its visibility and its place go to local variables. *)
Collect ==
    /\ main.at = "collect"
    /\ LET w == [World EXCEPT !.q = [i \in DOMAIN @ |-> IF @[i].kind = "image"
                                         THEN [@[i] EXCEPT !.old = TRUE] ELSE @[i]],
                              !.ans = [i \in DOMAIN @ |-> [@[i] EXCEPT !.old = TRUE]],
                              !.doubt = {}]
       IN Become([w EXCEPT
            !.s.st = [s \in Streams |-> [GiveUp(World, s).s.st[s] EXCEPT !.slot = NoSlot]],
            !.s.selStream = NoSlot, !.s.selShape = [s \in Streams |-> NoSlot],
            !.s.cache = [k \in Slots |-> None]])
    /\ todo' = [s \in Streams |->
                  LET u == src.st[s] IN
                  IF u.slot = NoSlot \/ src.cache[u.slot] = None
                  THEN Nothing
                  ELSE [img |-> src.cache[u.slot], at |-> u.at, shown |-> u.shown]]
    /\ overtaken' = {s \in Streams : Queued(s)}
    /\ main' = [at |-> "replay", k |-> Min(Streams)]
    /\ UNCHANGED <<usb, note, ct, job, stop, dev, misled, reverted, bounds>>

NextMain(next) == main' = IF Later(main.k) = {}
                          THEN [at |-> next, k |-> Min(Streams)]
                          ELSE [main EXCEPT !.k = Min(Later(main.k))]

(* The second part: each image is uploaded again, until one is refused. *)
Replay ==
    /\ main.at = "replay"
    /\ LET s   == main.k
           img == todo[s].img
           w   == IF img = None THEN Fine(World) ELSE SendImage(World, s, img, TRUE)
       IN /\ Become(IF w.rc = 0 THEN w
                    ELSE [w EXCEPT !.lapsed = @ \cup {r \in Later(s) : todo[r].img # None}])
          /\ IF w.rc = 0 THEN NextMain("wake") /\ UNCHANGED todo
             ELSE /\ main' = [main EXCEPT !.at = "wake"]
                  /\ todo' = [r \in Streams |-> Nothing]
          /\ reverted' = IF img # None /\ w.s.st[s].packet.img # asked[s]
                         THEN reverted \cup {s} ELSE reverted
    /\ UNCHANGED <<usb, note, ct, job, stop, dev, overtaken, misled, bounds>>

(* Mutant: the cursor thread is not told of the uploads it has to wait for. *)
WakeForgets ==
    /\ main.at = "wake" /\ main' = [at |-> "force", k |-> Min(Streams)]
    /\ UNCHANGED <<src, queue, usb, note, ct, job, todo, stop, wire, ghosts, bounds>>

(* The cursor thread may sleep without a limit: it is woken for the uploads. *)
Wake ==
    /\ main.at = "wake" /\ main' = [at |-> "force", k |-> Min(Streams)]
    /\ Awake
    /\ UNCHANGED <<src, queue, usb, note, job, todo, stop, wire, ghosts, bounds>>

(* The third part: what is visible is shown where it was, except on a stream
   whose upload will do that when it lands. *)
ForceState ==
    /\ main.at = "force"
    /\ LET s == main.k
           w == IF ~todo[s].shown \/ src.st[s].inflight THEN World
                ELSE SubmitState(World, s, todo[s].at, TRUE, TRUE)
       IN /\ Become(w)
          /\ IF w.rc = 0 THEN NextMain("run") ELSE main' = [main EXCEPT !.at = "run"]
          /\ todo' = IF main'.at = "run" THEN [r \in Streams |-> Nothing] ELSE todo
    /\ UNCHANGED <<usb, note, ct, job, stop, dev, overtaken, misled, reverted, bounds>>

(* The end of the program, from the loop or out of a recovery. *)
StopBegins ==
    /\ main.at \in {"run", "attach"} /\ ~stop
    /\ stop' = TRUE /\ main' = [main EXCEPT !.at = "join"] /\ Awake
    /\ UNCHANGED <<src, queue, usb, note, job, todo, wire, ghosts, bounds>>

CtJoined ==
    /\ main.at = "join" /\ ct.at = "exited"
    /\ main' = [main EXCEPT !.at = "streams"]
    /\ UNCHANGED <<src, queue, usb, note, ct, job, todo, stop, wire, ghosts, bounds>>

(* No upload is in flight whose transfer has no result. *)
UploadsEnded == \A s \in Streams : LET u == src.st[s] IN
                   u.inflight /\ ~u.txDone => u.result # None

(* stream_stop waits for the result of an upload in flight; then the streams
   are freed with their packets and result cells.  For both streams at once. *)
StreamsFreed ==
    /\ main.at = "streams"
    /\ UploadsEnded
    /\ main' = [main EXCEPT !.at = "freed"]
    /\ UNCHANGED <<src, queue, usb, note, ct, job, todo, stop, wire, ghosts, bounds>>

(* smid_usb_close, after the streams are gone. *)
SessionCloses ==
    /\ main.at = "freed"
    /\ main' = [main EXCEPT !.at = "closed"] /\ queue' = << >> /\ overtaken' = {}
    /\ UNCHANGED <<src, usb, note, ct, job, todo, stop, wire, doubt, asked, lapsed,
                   misled, adrift, reverted, bounds>>

Recovery == SessionRebuilt \/ Attach \/ Collect \/ Replay \/ Wake \/ ForceState
Ending   == CtJoined \/ StreamsFreed \/ SessionCloses

Ended == main.at = "closed" /\ UNCHANGED vars

Next == \/ \E s \in Streams : \/ \E img \in Image \cup {Disabled} : CursorSet(s, img)
                              \/ \E at \in Places : CursorMove(s, at)
                              \/ TimePasses(s)
        \/ CursorThread \/ Worker \/ Response \/ ResponseLost
        \/ SessionFails \/ Recovery \/ StopBegins \/ Ending \/ Ended

(* Every thread runs; a transfer ends; a second passes.  The adapter need not
   answer, the desktop need not draw, nothing need fail.  Fairness is stated on
   the places of the threads and on the queue, which only their own steps change
   while they can take one. *)
Threads == {"pump", "fetch", "doze", "asleep", "set", "move", "hide", "exited"}
Mains   == {"run", "down", "attach", "collect", "replay", "wake", "force",
            "join", "streams", "freed", "closed"}

CtTurn == /\ ct.at \notin {"asleep", "exited"}
          /\ ct' \in [at : Threads, k : Streams]

WorkerTurn == queue # << >> /\ queue' = Tail(queue)

MainTurn == /\ main.at \notin {"run", "closed"}
            /\ main.at = "join" => ct.at = "exited"
            /\ main.at = "streams" => UploadsEnded
            /\ main' \in [at : Mains, k : Streams]

Fairness == /\ WF_ct(CtTurn) /\ WF_queue(WorkerTurn) /\ WF_main(MainTurn)
            /\ \A s \in Streams : WF_vars(TimePasses(s))

Spec == Init /\ [][Next]_vars /\ Fairness

-----------------------------------------------------------------------------
Notes == [set : Pictures \cup {Disabled}, move : Places \cup {NoSlot}]

(* Everything stays in its range. *)
TypeOK ==
    /\ src.cache \in [Slots -> Pictures] /\ src.next \in 0..CacheMax + 1
    /\ src.selStream \in Streams \cup {NoSlot}
    /\ src.selShape \in [Streams -> Slots \cup {NoSlot}]
    /\ \A s \in Streams : LET u == src.st[s] IN
        /\ u.slot \in Slots \cup {NoSlot} /\ u.upShape \in Slots \cup {NoSlot}
        /\ u.inflight <=> u.upShape # NoSlot
        /\ u.txDone => u.inflight
        /\ u.result \in {None, "ok", "failed"}
    /\ Len(queue) <= QueueCap
    /\ note \in [Streams -> Notes]
    /\ ct \in [at : Threads, k : Streams] /\ main \in [at : Mains, k : Streams]
    /\ doubt \subseteq Slots
    /\ lapsed \cup misled \cup adrift \cup reverted \cup overtaken \subseteq Streams

(* The cache never claims an image that the adapter does not hold
   (evdi_source.c:861-876, 744-754): whatever fails, times out or is
   refused, a valid entry that is not being uploaded is in the adapter's slot.
   Two exceptions are the code's: the entry stays when the submission of its
   upload is refused, and a response is taken for the upload of a stream
   whichever upload it answers (doubt).  Between the loss of a session and the
   replay the cache is that of the old session. *)
CacheMirrorsDevice ==
    /\ TypeOK
    /\ main.at \in {"run", "replay", "wake", "force"} =>
        \A k \in Slots \ doubt :
          \/ src.cache[k] \in {None, dev.slots[k]}
          \/ \E s \in Streams : src.st[s].inflight /\ src.st[s].upShape = k

(* A stream has one image packet and one result cell (evdi_source.c:91-95):
   while the transport still has to read the packet, nothing rewrites it.  Only
   the replay of a recovery, which forgets what is in flight
   (evdi_source.c:1446-1449), may. *)
OnlyReplayReusesPacket ==
    [][\A s \in Streams : Queued(s) /\ src'.st[s].packet # src.st[s].packet
                            => s \in overtaken]_vars

(* When the streams are freed, the transport holds no upload of theirs
   (evdi_source.c:1290-1297) - again except one that a replay has forgotten. *)
NothingFreedInUse ==
    main.at = "freed" => \A s \in Streams : Queued(s) => s \in overtaken

(* A packet in the queue is neither rewritten nor freed: the two together are
   why the transport may read it without a copy. *)
PacketsLeftAlone == OnlyReplayReusesPacket /\ []NothingFreedInUse

Waiting(kind, s) == {i \in DOMAIN queue : queue[i].kind = kind /\ queue[i].stream = s}

(* What a stream will have selected when the queue is empty. *)
ToSelect(s) == IF Waiting("select", s) = {} THEN dev.sel[s]
               ELSE queue[Max(Waiting("select", s))].shape

(* The driver leaves a selection out when it believes that it is made
   (evdi_source.c:662-665); it is never wrong about the shape, unless the
   transfer of a selection failed, which it does not learn - a request for the
   same image does not repair that. *)
SelectionInStep ==
    main.at \in {"run", "replay", "wake", "force"} =>
      \A s \in Streams \ misled : src.selShape[s] \in {NoSlot, ToSelect(s)}

(* The same for the place and the visibility (evdi_source.c:683-690): a move to
   where the cursor already is sends nothing, so what the driver has recorded must
   be what the adapter has or is about to get.  It is not when the submission or
   the transfer of a state went wrong, or a session was lost: only the next
   different state repairs that. *)
ToShow(s) ==
    LET own == Waiting("state", s)
        now == IF own = {} THEN dev.state[s] ELSE queue[Max(own)]
    IN <<now.at, now.shown>>

StateInStep ==
    main.at # "closed" =>
      \A s \in Streams \ adrift : ToShow(s) = <<src.st[s].at, src.st[s].shown>>

RecordsInStep == SelectionInStep /\ StateInStep

Settled(s) ==
    /\ main.at = "run" /\ ct.at = "asleep" /\ queue = << >>
    /\ ~AnyPending /\ asked[s] # None /\ s \notin lapsed \cup misled

Shows(s) == dev.sel[s] # NoSlot /\ dev.slots[dev.sel[s]] = asked[s]

(* The adapter shows the last image that was accepted, whatever was uploaded,
   cached, selected or lost with a session before: an image is given up only for
   one of the reasons in lapsed, on an answer that was another upload's, or when
   a replay put an older one in its place. *)
SettledShowsAsked ==
    \A s \in Streams \ reverted :
        Settled(s) /\ src.st[s].slot \notin doubt => Shows(s)

(* An upload does not stay in flight, and with it the images that come
   meanwhile are not dropped for ever (evdi_source.c:803-808): the thread polls
   it until it lands, fails or is a second old.  And once the end was asked for
   it comes, from whatever the cursor thread and the uploads are doing. *)
UploadsAndStopEnd ==
    \A s \in Streams : []<>(main.at = "closed" \/ (~stop /\ ~src.st[s].inflight))

=============================================================================
