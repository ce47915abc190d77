----------------------------- MODULE FrameLoop ------------------------------
(* From the EVDI displays to the adapter's panels: the EVDI threads
   (evdi_source.c), the main loop (main.c) and the frames on their way.

   Each stream has an EVDI thread that asks the kernel for updates, grabs the
   framebuffer, and leaves notes for the main thread in two atomics: something
   is dirty, or the display was switched off and is to be blanked.  The main
   loop consumes the notes, plans a frame of the streams that have any, builds
   it while the previous frame is in flight, and submits it.  An error of any
   kind ends in the recovery of the USB session.

   The bands of a stream are not told apart here (module RetainedBands), nor
   are the workers (BuildWorkers) and the transport (Transport). *)
EXTENDS Naturals, Sequences, FiniteSets, SequencesExt, TLC

CONSTANTS
    Streams,
    Pictures,   \* what a desktop can show
    Black,      \* a black frame
    Unknown,    \* what a panel shows after its session was reset
    NoBuffer,   \* the framebuffer before the first mode
    IndexMod,     \* frame indexes are counted modulo this: 2^32 in the code
    MaxChanges, \* bound: changes of the desktops
    MaxToggles, \* bound: DPMS and further mode events
    MaxFaults   \* bound: failed builds and transfers, errors of the receiver

ASSUME FrameLoopAssumption ==
    /\ IndexMod \in Nat /\ IndexMod > 2
    /\ IsFiniteSet(Streams)
    /\ Black # Unknown /\ Black # NoBuffer /\ Unknown # NoBuffer
    /\ {Black, Unknown, NoBuffer} \cap Pictures = {}

VARIABLES
    \* the compositor and the EVDI kernel module
    desk,       \* what the desktop shows
    damage,     \* it has changed since the last grab
    asked,      \* an update was requested and not announced yet
    \* struct smid_evdi_stream
    fb,         \* buffer
    hash,       \* last_band_hash: the picture hashed last, NoBuffer if none
    on,         \* dpms_on
    old,        \* the local old of evdi_dpms_handler
    requested,
    dirtyTiles, blankTiles,
    at,         \* where the EVDI thread is
    \* the main thread
    pc,
    dirty, blank,   \* streams
    plan,       \* [send, black]: streams
    late,       \* the frame is being rebuilt
    built,      \* the packets built so far, by stream
    seq,
    \* on the wire
    inflight,   \* packets submitted and not delivered, in order
    failed,     \* a transfer of the frame in flight failed
    panel,
    lastIndex,  \* index of the last frame shown in this session, 0 if none
    \* history and bounds
    ghost,      \* the last frame submitted was black though the display was on
    recovered,  \* the session was recovered since the stream was switched off
    changes, toggles, faults

kernelVars == <<desk, damage, asked>>
streamVars == <<fb, hash, on, old, requested, at>>
noteVars   == <<dirtyTiles, blankTiles>>
mainVars   == <<plan, late, built, seq>>
localVars  == <<dirty, blank>>
wireVars   == <<inflight, failed, panel, lastIndex>>
histVars   == <<ghost, recovered>>
budgets    == <<changes, toggles, faults>>
vars == <<kernelVars, streamVars, noteVars, pc, localVars, mainVars, wireVars,
          histVars, budgets>>

NoPlan == [send |-> {}, black |-> {}]

Init == /\ desk \in [Streams -> Pictures]
        /\ damage = [s \in Streams |-> TRUE]
        /\ asked = [s \in Streams |-> FALSE]
        /\ fb = [s \in Streams |-> NoBuffer]
        /\ hash = [s \in Streams |-> NoBuffer]
        /\ on = [s \in Streams |-> TRUE]
        /\ old = [s \in Streams |-> TRUE]
        /\ requested = [s \in Streams |-> FALSE]
        /\ dirtyTiles = {} /\ blankTiles = {}
        /\ at = [s \in Streams |-> "loop"]
        /\ pc = "consumeBlank"
        /\ dirty = Streams /\ blank = {}
        /\ plan = NoPlan /\ late = FALSE /\ built = << >>
        /\ seq = [s \in Streams |-> 2]
        /\ inflight = << >> /\ failed = FALSE
        /\ panel = [s \in Streams |-> Unknown]
        /\ lastIndex = [s \in Streams |-> 0]
        /\ ghost = {} /\ recovered = {}
        /\ changes = 0 /\ toggles = 0 /\ faults = 0

Set(f, s) == f' = [f EXCEPT ![s] = TRUE]
Clear(f, s) == f' = [f EXCEPT ![s] = FALSE]

-----------------------------------------------------------------------------
(* The compositor draws. *)
Draw(s) ==
    /\ changes < MaxChanges
    /\ \E p \in Pictures \ {desk[s]} : desk' = [desk EXCEPT ![s] = p]
    /\ Set(damage, s)
    /\ changes' = changes + 1
    /\ UNCHANGED <<asked, streamVars, noteVars, pc, localVars, mainVars, wireVars,
                   histVars, toggles, faults>>

-----------------------------------------------------------------------------
(* The EVDI thread of stream s. *)

(* evdi_mode_handler: a zeroed buffer without a hash, everything dirty.  The
   compositor redraws the desktop in the new mode. *)
Mode(s) ==
    /\ at[s] = "loop"
    /\ fb' = [fb EXCEPT ![s] = Black]
    /\ hash' = [hash EXCEPT ![s] = NoBuffer]
    /\ Clear(requested, s)
    /\ dirtyTiles' = dirtyTiles \cup {s}
    /\ Set(damage, s)
    /\ UNCHANGED <<desk, asked, on, old, blankTiles, at, pc, localVars, mainVars,
                   wireVars, histVars, changes, faults>>

FirstMode(s) == fb[s] = NoBuffer /\ Mode(s) /\ UNCHANGED toggles

NewMode(s) == /\ fb[s] # NoBuffer /\ toggles < MaxToggles
              /\ Mode(s)
              /\ toggles' = toggles + 1

(* evdi_request_next: if nothing is requested yet, request an update; the
   kernel has one at once if there is damage, and announces it later if not. *)
Request(s) ==
    /\ at[s] = "loop" /\ fb[s] # NoBuffer /\ on[s] /\ ~requested[s]
    /\ Set(requested, s)
    /\ IF damage[s] THEN at' = [at EXCEPT ![s] = "update"] /\ UNCHANGED asked
                    ELSE Set(asked, s) /\ UNCHANGED at
    /\ UNCHANGED <<desk, damage, fb, hash, on, old, noteVars, pc, localVars,
                   mainVars, wireVars, histVars, budgets>>

Announced(s) ==
    /\ at[s] = "loop" /\ asked[s] /\ damage[s]
    /\ Clear(asked, s)
    /\ at' = [at EXCEPT ![s] = "update"]
    /\ UNCHANGED <<desk, damage, fb, hash, on, old, requested, noteVars, pc,
                   localVars, mainVars, wireVars, histVars, budgets>>

(* evdi_update_handler: nothing if the display is off ... *)
UpdateOff(s) ==
    /\ at[s] = "update" /\ ~on[s]
    /\ Clear(requested, s)
    /\ at' = [at EXCEPT ![s] = "loop"]
    /\ UNCHANGED <<kernelVars, fb, hash, on, old, noteVars, pc, localVars,
                   mainVars, wireVars, histVars, budgets>>

(* ... else grab and hash under the write lock ... *)
Grab(s) ==
    /\ at[s] = "update" /\ on[s]
    /\ fb' = [fb EXCEPT ![s] = desk[s]]
    /\ hash' = [hash EXCEPT ![s] = desk[s]]
    /\ Clear(damage, s)
    /\ IF hash[s] # desk[s]
       THEN at' = [at EXCEPT ![s] = "publish"] /\ UNCHANGED requested
       ELSE at' = [at EXCEPT ![s] = "loop"] /\ Clear(requested, s)
    /\ UNCHANGED <<desk, asked, on, old, noteVars, pc, localVars,
                   mainVars, wireVars, histVars, budgets>>

(* ... and say so, if the picture is a new one. *)
Publish(s) ==
    /\ at[s] = "publish"
    /\ dirtyTiles' = dirtyTiles \cup {s}
    /\ Clear(requested, s)
    /\ at' = [at EXCEPT ![s] = "loop"]
    /\ UNCHANGED <<kernelVars, fb, hash, on, old, blankTiles, pc,
                   localVars, mainVars, wireVars, histVars, budgets>>

(* evdi_dpms_handler: exchange dpms_on ... *)
Dpms(s) ==
    /\ at[s] = "loop" /\ toggles < MaxToggles
    /\ old' = [old EXCEPT ![s] = on[s]]
    /\ \E new \in BOOLEAN : on' = [on EXCEPT ![s] = new]
    /\ at' = [at EXCEPT ![s] = "dpms"]
    /\ toggles' = toggles + 1
    /\ recovered' = IF on[s] THEN recovered \ {s} ELSE recovered
    /\ UNCHANGED <<kernelVars, fb, hash, requested, noteVars, pc, localVars,
                   mainVars, wireVars, ghost, changes, faults>>

(* ... withdraw the note that no longer holds ... *)
DpmsWithdraw(s) ==
    /\ at[s] = "dpms"
    /\ Clear(requested, s)
    /\ IF on[s] THEN blankTiles' = blankTiles \ {s} /\ UNCHANGED dirtyTiles
                ELSE dirtyTiles' = dirtyTiles \ {s} /\ UNCHANGED blankTiles
    /\ at' = [at EXCEPT ![s] = "dpmsNote"]
    /\ UNCHANGED <<kernelVars, fb, hash, on, old, pc, localVars, mainVars,
                   wireVars, histVars, budgets>>

(* ... and leave the new one. *)
DpmsNote(s) ==
    /\ at[s] = "dpmsNote"
    /\ IF on[s] THEN dirtyTiles' = dirtyTiles \cup {s} /\ UNCHANGED blankTiles
       ELSE /\ blankTiles' = IF old[s] THEN blankTiles \cup {s} ELSE blankTiles
            /\ UNCHANGED dirtyTiles
    /\ at' = [at EXCEPT ![s] = "loop"]
    /\ UNCHANGED <<kernelVars, fb, hash, on, old, requested, pc, localVars,
                   mainVars, wireVars, histVars, budgets>>

-----------------------------------------------------------------------------
(* The main thread. *)

(* smid_evdi_source_consume_blank, then smid_evdi_source_consume_dirty, which
   reports nothing for a display that is off. *)
TakeBlank ==
    /\ blank' = blank \cup blankTiles
    /\ blankTiles' = {}

Consumed == {s \in dirtyTiles : on[s]}

TakeDirty ==
    /\ dirty' = dirty \cup Consumed \cup blank
    /\ dirtyTiles' = {}

ConsumeBlank ==
    /\ pc \in {"consumeBlank", "jitBlank", "lateBlank"}
    /\ TakeBlank
    /\ pc' = CASE pc = "consumeBlank" -> "consumeDirty"
               [] pc = "jitBlank" -> "jitDirty"
               [] pc = "lateBlank" -> "lateDirty"
    /\ UNCHANGED <<kernelVars, streamVars, dirtyTiles, dirty, mainVars, wireVars,
                   histVars, budgets>>

ConsumeDirty ==
    /\ pc \in {"consumeDirty", "jitDirty"}
    /\ TakeDirty
    /\ pc' = IF pc = "jitDirty" THEN "plan" ELSE "decide"
    /\ UNCHANGED <<kernelVars, streamVars, blankTiles, blank, mainVars, wireVars,
                   histVars, budgets>>

Step(from, to) ==
    /\ pc = from
    /\ pc' = to
    /\ UNCHANGED <<kernelVars, streamVars, noteVars, localVars, mainVars, wireVars,
                   histVars, budgets>>

Active == inflight # << >> \/ failed

(* With nothing dirty: let the frame in flight finish, or sleep until damage
   is signalled or a second is over, whichever comes first. *)
Sleep == dirty = {} /\ ~Active /\ Step("decide", "consumeBlank")
Idle  == dirty = {} /\ Active /\ Step("decide", "idle")
WaitIdle == inflight = << >> /\ Step("idle", IF failed THEN "recover" ELSE "consumeBlank")

(* Otherwise plan a frame, perhaps after waiting for the one in flight and
   another look at the notes (video_jit_wait_before_build). *)
GoJit == dirty # {} /\ Active /\ Step("decide", "jitBlank")

(* smid_usb_take_rx_error. *)
ReceiverError ==
    /\ pc = "decide" /\ faults < MaxFaults
    /\ faults' = faults + 1
    /\ pc' = "recover"
    /\ UNCHANGED <<kernelVars, streamVars, noteVars, localVars, mainVars, wireVars,
                   histVars, changes, toggles>>

(* video_make_send_plan and video_plan_apply_blank. *)
MakePlan(d) == plan' = [send |-> d \cup blank, black |-> blank] /\ built' = << >>

Plan ==
    /\ pc = "plan" \/ (pc = "decide" /\ dirty # {})
    /\ MakePlan(dirty)
    /\ late' = FALSE
    /\ pc' = "build"
    /\ UNCHANGED <<kernelVars, streamVars, noteVars, localVars, seq, wireVars,
                   histVars, budgets>>

Packet(s) == [stream |-> s, seq |-> seq[s],
              pict |-> IF s \in plan.black THEN Black ELSE fb[s]]

(* A worker captures a stream, or encodes a black frame. *)
Build(s) ==
    /\ pc = "build" /\ s \in plan.send \ DOMAIN built
    /\ s \in plan.black \/ fb[s] # NoBuffer
    /\ built' = [t \in DOMAIN built \cup {s} |-> IF t = s THEN Packet(s) ELSE built[t]]
    /\ UNCHANGED <<kernelVars, streamVars, noteVars, pc, localVars, plan, late, seq,
                   wireVars, histVars, budgets>>

(* There is no framebuffer yet: like every failed build this counts as an
   error of the USB session (-1 is LIBUSB_ERROR_IO). *)
BuildNothing(s) ==
    /\ s \in plan.send \ (DOMAIN built \cup plan.black) /\ fb[s] = NoBuffer
    /\ Step("build", "recover")

BuildFails ==
    /\ pc = "build" /\ DOMAIN built # plan.send /\ faults < MaxFaults
    /\ faults' = faults + 1
    /\ pc' = "recover"
    /\ UNCHANGED <<kernelVars, streamVars, noteVars, localVars, mainVars, wireVars,
                   histVars, changes, toggles>>

(* video_inflight_wait once the frame is built.  A wait that took long, or an
   ACK that lags, has the main thread look at the notes again. *)
WaitPrevious ==
    /\ ~late /\ DOMAIN built = plan.send /\ inflight = << >>
    /\ \E next \in {"submit", "lateBlank"} :
          Step("build", IF failed THEN "recover" ELSE next)

(* smid_evdi_source_consume_dirty again; the frame is rebuilt if it reports
   anything or if the ACK is uncertain. *)
LateDirty ==
    /\ pc = "lateDirty"
    /\ dirtyTiles' = {}
    /\ \E uncertain \in BOOLEAN :
          IF Consumed # {} \/ uncertain
          THEN /\ dirty' = dirty \cup Consumed \cup blank
               /\ MakePlan(dirty')
               /\ late' = TRUE
               /\ pc' = "build"
          ELSE /\ pc' = "submit"
               /\ UNCHANGED <<dirty, plan, late, built>>
    /\ UNCHANGED <<kernelVars, streamVars, blankTiles, blank, seq, wireVars,
                   histVars, budgets>>

Rebuilt == late /\ DOMAIN built = plan.send /\ Step("build", "submit")

(* The packets go to the transport in tile order; a frame index is used up for
   every stream in the frame, and when one wraps to zero the session is
   recovered. *)
ClearAllBlank == blank' = {}        \* mutant: a blank noted late is lost
ClearBlank == blank' = blank \ plan.black

ClearDirty == dirty' = {}

NextIndex == seq' = [s \in Streams |-> IF s \in plan.send THEN (seq[s] + 1) % IndexMod
                                                         ELSE seq[s]]

NotWrapped(q) == FALSE      \* mutant: no wrap is noticed
Wrapped(q) == \E s \in Streams : q[s] = 0

Submit ==
    /\ pc = "submit"
    /\ inflight' = inflight \o SetToSeq(Range(built))
    /\ ClearBlank
    /\ ClearDirty
    /\ NextIndex
    /\ ghost' = (ghost \ plan.send) \cup {s \in plan.black : on[s]}
    /\ pc' = IF Wrapped(seq') THEN "recover" ELSE "consumeBlank"
    /\ plan' = NoPlan /\ built' = << >> /\ late' = FALSE
    /\ UNCHANGED <<kernelVars, streamVars, noteVars, failed, panel, lastIndex,
                   recovered, budgets>>

(* video_recover_usb_session, when it succeeds at last. *)
SameIndex  == UNCHANGED seq        \* mutant: the counters outlive the session
FirstIndex == seq' = [s \in Streams |-> 2]
RefreshNone == UNCHANGED dirty      \* mutant: only what was dirty is sent again
RefreshAll == dirty' = Streams

Recover ==
    /\ pc = "recover"
    /\ FirstIndex
    /\ RefreshAll
    /\ inflight' = << >> /\ failed' = FALSE
    /\ panel' = [s \in Streams |-> Unknown]
    /\ lastIndex' = [s \in Streams |-> 0]
    /\ recovered' = Streams
    /\ plan' = NoPlan /\ built' = << >> /\ late' = FALSE
    /\ pc' = "consumeBlank"
    /\ UNCHANGED <<kernelVars, streamVars, noteVars, blank, ghost, budgets>>

-----------------------------------------------------------------------------
(* The wire. *)

Deliver ==
    /\ inflight # << >>
    /\ LET p == Head(inflight)
       IN  /\ panel' = [panel EXCEPT ![p.stream] = p.pict]
           /\ lastIndex' = [lastIndex EXCEPT ![p.stream] = p.seq]
    /\ inflight' = Tail(inflight)
    /\ UNCHANGED <<kernelVars, streamVars, noteVars, pc, localVars, mainVars, failed,
                   histVars, budgets>>

TransferFails ==
    /\ inflight # << >> /\ faults < MaxFaults
    /\ inflight' = Tail(inflight)
    /\ failed' = TRUE
    /\ faults' = faults + 1
    /\ UNCHANGED <<kernelVars, streamVars, noteVars, pc, localVars, mainVars, panel,
                   lastIndex, histVars, changes, toggles>>
-----------------------------------------------------------------------------

Evdi(s) == \/ FirstMode(s) \/ Request(s) \/ Announced(s)
           \/ UpdateOff(s) \/ Grab(s) \/ Publish(s)
           \/ DpmsWithdraw(s) \/ DpmsNote(s)

Main == \/ ConsumeBlank \/ ConsumeDirty
        \/ Sleep \/ Idle \/ WaitIdle \/ GoJit
        \/ Plan \/ (\E s \in Streams : Build(s) \/ BuildNothing(s))
        \/ WaitPrevious \/ LateDirty \/ Rebuilt \/ Submit \/ Recover

Events(s) == Draw(s) \/ NewMode(s) \/ Dpms(s)

Faults == ReceiverError \/ BuildFails \/ TransferFails

Next == \/ \E s \in Streams : Events(s) \/ Evdi(s)
        \/ Main \/ Deliver \/ Faults

Spec == Init /\ [][Next]_vars

(* Threads that can run do; the kernel announces an update that was asked for
   and sets a first mode; a transfer ends. *)
FairSpec == /\ Spec
            /\ WF_vars(Main) /\ WF_vars(Deliver)
            /\ \A s \in Streams : WF_vars(Evdi(s))

-----------------------------------------------------------------------------
(* Properties. *)

Frames  == Pictures \cup {Black}
Packets == [stream : Streams, seq : 0 .. IndexMod - 1, pict : Frames]

Places  == {"loop", "update", "publish", "dpms", "dpmsNote"}
Steps   == {"consumeBlank", "consumeDirty", "decide", "idle", "jitBlank", "jitDirty",
            "plan", "build", "lateBlank", "lateDirty", "submit", "recover"}

(* Every variable has its type, and at most one frame is on its way. *)
TypeOK ==
    /\ desk \in [Streams -> Pictures]
    /\ damage \in [Streams -> BOOLEAN] /\ asked \in [Streams -> BOOLEAN]
    /\ fb \in [Streams -> Frames \cup {NoBuffer}]
    /\ hash \in [Streams -> Pictures \cup {NoBuffer}]
    /\ on \in [Streams -> BOOLEAN] /\ old \in [Streams -> BOOLEAN]
    /\ requested \in [Streams -> BOOLEAN]
    /\ at \in [Streams -> Places] /\ pc \in Steps
    /\ dirtyTiles \subseteq Streams /\ blankTiles \subseteq Streams
    /\ dirty \subseteq Streams /\ blank \subseteq Streams
    /\ ghost \subseteq Streams /\ recovered \subseteq Streams
    /\ plan \in [send : SUBSET Streams, black : SUBSET Streams]
    /\ plan.black \subseteq plan.send
    /\ DOMAIN built \subseteq plan.send
    /\ \A s \in DOMAIN built : built[s] \in Packets
    /\ late \in BOOLEAN /\ failed \in BOOLEAN
    /\ seq \in [Streams -> 0 .. IndexMod - 1]
    /\ inflight \in Seq(Packets)
    /\ \A j, k \in DOMAIN inflight : inflight[j].stream = inflight[k].stream => j = k
    /\ panel \in [Streams -> Frames \cup {Unknown}]
    /\ lastIndex \in [Streams -> 0 .. IndexMod - 1]

(* In one session the adapter gets the frames of a stream under the indexes 2,
   3, ... without a gap and never under index 0, whatever is rebuilt late,
   fails, wraps or is recovered (main.c:941-949, 989-997, 1369-1395;
   README.md:89-90). *)
IndexesInOrder ==
    /\ TypeOK
    /\ inflight # << >> =>
          LET p == Head(inflight)
          IN  /\ p.seq # 0
              /\ p.seq = IF lastIndex[p.stream] = 0 THEN 2 ELSE lastIndex[p.stream] + 1

(* What a panel should show.  A display that is on shows its desktop, unless
   its last frame was a black one submitted while it was on already; one that
   is off is black, unless the session was recovered after it was switched off,
   which repaints it. *)
Right(s) == IF on[s] THEN panel[s] = desk[s] \/ s \in ghost
            ELSE panel[s] = Black \/ s \in recovered

Pending(s) == \/ at[s] # "loop" \/ fb[s] = NoBuffer \/ (on[s] /\ damage[s])
              \/ s \in dirtyTiles \cup blankTiles \cup dirty \cup blank \cup plan.send
              \/ \E p \in Range(inflight) : p.stream = s
              \/ failed \/ pc = "recover"

(* No note is lost between the EVDI threads and the main thread, whenever it is
   left and whatever becomes of the frame it is consumed for: a panel that
   shows the wrong picture has a correction under way at every moment
   (main.c:1153-1154, 1220-1225, 1298-1319, 1343-1375; evdi_source.c:930-975). *)
NothingForgotten == \A s \in Streams : Pending(s) \/ Right(s)

(* When the desktops, the displays' power and the faults come to rest, every
   panel comes to show what it should and stays so. *)
PanelsConverge == \A s \in Streams : <>[]Right(s)
=============================================================================
