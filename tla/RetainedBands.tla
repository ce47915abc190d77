--------------------------- MODULE RetainedBands ----------------------------
(* The send plan of one stream (main.c, video_make_send_plan and what the main
   loop does with the plan) against the adapter's retained frames.

   A stream's picture is two bands, and both are sent for every frame: a band
   that changed as a full picture, an unchanged band as a companion, a small
   rectangle at a fixed place, if the picture the adapter will keep under it
   is known to be the current one.  The code keeps the hashes of the last
   Period packets of a band for that.  Meanwhile the stream's EVDI thread
   grabs new pictures: between two reads of the framebuffer by the main thread
   or by its build workers anything may have been grabbed.

   A hash stands for the picture it was computed from (the grab and the hash
   are one section under buffer_lock, evdi_source.c:939-942). *)
EXTENDS Naturals, Sequences, FiniteSets, SequencesExt

CONSTANTS
    Bands,      \* the two bands of a stream
    Pictures,   \* what a band of the framebuffer can show
    Black,      \* the picture of video_tile_build_black
    Unknown,    \* what the adapter keeps after a reset: no picture we know
    Period,     \* SMID_VIDEO_RETAINED_PERIOD
    MaxGrabs,   \* bound: grabs that change a picture
    MaxMishaps  \* bound: switching off, failed builds and transfers, receiver errors

ASSUME RetainedAssumption ==
    /\ IsFiniteSet(Bands)
    /\ Period \in Nat \ {0}
    /\ Black \notin Pictures /\ Unknown \notin Pictures \cup {Black}

VARIABLES
    \* the stream's EVDI thread
    fb,         \* the framebuffer, and so the last band hashes
    grabbed,    \* bands grabbed with a new hash whose dirty bits are not set yet
    on,         \* dpms_on
    dirtyTiles, blankTiles,     \* the atomics the main thread consumes
    \* the main thread
    pc, dirty, blank,
    uncertain,  \* ack_uncertain
    plan,       \* the send plan: hashes, companions, and whether it is black
    packet,     \* the packets built so far, by band
    retained,   \* per band the hashes of its last packets, oldest first
    \* the transfers and the adapter
    inflight,   \* the packets submitted and not yet sent
    failed,     \* a transfer of the frame in flight failed
    kept,       \* per band the last Period pictures the adapter kept, oldest first
    \* history
    raced,      \* a full picture was noted under the hash of another one
    grabs, mishaps

evdiVars == <<fb, grabbed, on, dirtyTiles, blankTiles, grabs>>
mainVars == <<pc, dirty, blank, uncertain, plan, packet, retained, raced>>
wireVars == <<inflight, failed, kept>>
vars     == <<evdiVars, mainVars, wireVars, mishaps>>

Whole(p)  == [body |-> p, patch |-> p]
NoPlan    == [hash |-> << >>, companion |-> {}, black |-> FALSE]
NoPackets == << >>

Init == /\ fb \in [Bands -> Pictures]
        /\ grabbed = {}
        /\ on = TRUE /\ dirtyTiles = {} /\ blankTiles = FALSE
        /\ pc = "top"
        /\ dirty = Bands /\ blank = FALSE /\ uncertain = FALSE
        /\ plan = NoPlan
        /\ packet = NoPackets
        /\ retained = [b \in Bands |-> << >>]
        /\ inflight = << >> /\ failed = FALSE
        /\ kept = [b \in Bands |-> [i \in 1 .. Period |-> Whole(Unknown)]]
        /\ raced = FALSE
        /\ grabs = 0 /\ mishaps = 0

-----------------------------------------------------------------------------
(* The EVDI thread of the stream. *)

(* evdi_update_handler: grab and hash under the write lock ... *)
Grab ==
    /\ on /\ grabs < MaxGrabs /\ grabbed = {}
    /\ \E new \in [Bands -> Pictures] :
          /\ new # fb
          /\ fb' = new
          /\ grabbed' = {b \in Bands : new[b] # fb[b]}
    /\ grabs' = grabs + 1
    /\ UNCHANGED <<on, dirtyTiles, blankTiles, mainVars, wireVars, mishaps>>

(* ... and set the dirty bits after unlocking. *)
PublishDirty ==
    /\ grabbed # {}
    /\ dirtyTiles' = dirtyTiles \cup grabbed
    /\ grabbed' = {}
    /\ UNCHANGED <<fb, on, blankTiles, grabs, mainVars, wireVars, mishaps>>

(* evdi_dpms_handler.  Module FrameLoop has the steps of the handler; here it
   is what brings a black frame among the others. *)
SwitchOff ==
    /\ on /\ grabbed = {} /\ mishaps < MaxMishaps
    /\ on' = FALSE
    /\ dirtyTiles' = {}
    /\ blankTiles' = TRUE
    /\ mishaps' = mishaps + 1
    /\ UNCHANGED <<fb, grabbed, grabs, mainVars, wireVars>>

SwitchOn ==
    /\ ~on
    /\ on' = TRUE
    /\ dirtyTiles' = Bands
    /\ blankTiles' = FALSE
    /\ UNCHANGED <<fb, grabbed, grabs, mainVars, wireVars, mishaps>>

-----------------------------------------------------------------------------
(* The main thread. *)

(* smid_evdi_source_consume_blank and _consume_dirty: a stream that is off has
   no dirty bands. *)
Consumed == IF on THEN dirtyTiles ELSE {}

Consume ==
    /\ blank' = (blank \/ blankTiles)
    /\ blankTiles' = FALSE
    /\ dirty' = dirty \cup Consumed \cup (IF blank' THEN Bands ELSE {})
    /\ dirtyTiles' = {}

(* The top of the loop: after an error of the receiver the session is
   recovered; else a frame is built if anything is dirty, and if nothing is the
   frame in flight is waited for. *)
Top ==
    /\ pc = "top"
    /\ Consume
    /\ pc' = IF dirty' # {} THEN "plan"
              ELSE IF inflight # << >> \/ failed THEN "idle" ELSE "top"
    /\ UNCHANGED <<fb, grabbed, on, grabs, uncertain, plan, packet,
                   retained, raced, wireVars, mishaps>>

ReceiverError ==
    /\ pc = "top" /\ mishaps < MaxMishaps
    /\ Consume
    /\ mishaps' = mishaps + 1
    /\ pc' = "recover"
    /\ UNCHANGED <<fb, grabbed, on, grabs, uncertain, plan, packet,
                   retained, raced, wireVars>>

(* video_retained_band_base_matches: the adapter writes the next packet over
   the one sent Period packets ago. *)
BaseMatchesByAge(b, hash) ==       \* mutant: compares with the newest packet
    /\ Len(retained[b]) = Period
    /\ Last(retained[b]).hash = hash

BaseMatches(b, hash) ==
    /\ Len(retained[b]) = Period
    /\ Head(retained[b]).hash = hash

(* video_make_send_plan and video_plan_apply_blank.  The hashes of both bands
   are read in one section under the read lock. *)
MakePlan ==
    /\ plan' = [hash |-> fb,
                companion |-> IF blank THEN {}
                              ELSE {b \in Bands \ dirty : BaseMatches(b, fb[b])},
                black |-> blank]
    /\ packet' = NoPackets

Plan ==
    /\ pc = "plan"
    /\ MakePlan
    /\ uncertain' = FALSE
    /\ pc' = "build"
    /\ UNCHANGED <<evdiVars, dirty, blank, retained, raced, wireVars, mishaps>>

Built(b) == [band |-> b,
             hash |-> plan.hash[b],
             companion |-> b \in plan.companion,
             pict |-> IF plan.black THEN Black ELSE fb[b]]

(* One build worker encodes one band, from whatever the framebuffer shows when
   the worker gets the read lock. *)
BuildBand(b) ==
    /\ pc \in {"build", "rebuild"} /\ b \notin DOMAIN packet
    /\ packet' = [c \in DOMAIN packet \cup {b} |-> IF c = b THEN Built(b) ELSE packet[c]]
    /\ UNCHANGED <<evdiVars, pc, dirty, blank, uncertain, plan, retained, raced,
                   wireVars, mishaps>>

BuildFails ==
    /\ pc \in {"build", "rebuild"} /\ mishaps < MaxMishaps
    /\ DOMAIN packet # Bands
    /\ mishaps' = mishaps + 1
    /\ pc' = "recover"
    /\ UNCHANGED <<evdiVars, dirty, blank, uncertain, plan, packet, retained,
                   raced, wireVars>>

(* video_inflight_wait for the previous frame, once this one is built ... *)
WaitPrevious ==
    /\ pc = "build" /\ DOMAIN packet = Bands
    /\ inflight = << >>
    /\ pc' = IF failed THEN "recover" ELSE "ack"
    /\ UNCHANGED <<evdiVars, dirty, blank, uncertain, plan, packet, retained,
                   raced, wireVars, mishaps>>

(* ... and when there is nothing to build. *)
WaitIdle ==
    /\ pc = "idle"
    /\ inflight = << >>
    /\ pc' = IF failed THEN "recover" ELSE "top"
    /\ UNCHANGED <<evdiVars, dirty, blank, uncertain, plan, packet, retained,
                   raced, wireVars, mishaps>>

ResetRetained == retained' = [b \in Bands |-> << >>] /\ raced' = FALSE

(* The wait was long: rebuild the frame if something got dirty meanwhile. *)
LateRebuildForgets ==   \* mutant: takes the dirty bands and sends the old frame
    /\ pc = "ack"
    /\ Consume
    /\ pc' = "submit"
    /\ UNCHANGED <<fb, grabbed, on, grabs, uncertain, plan, packet,
                   retained, raced, wireVars, mishaps>>

LateRebuild ==
    /\ pc = "ack"
    /\ Consume
    /\ pc' = IF Consumed # {} THEN "replan" ELSE "submit"
    /\ UNCHANGED <<fb, grabbed, on, grabs, uncertain, plan, packet,
                   retained, raced, wireVars, mishaps>>

(* The device's ACK lags too far: what it retains is uncertain, so forget the
   hashes, rebuild without companions, and note nothing for this frame. *)
AckUncertain ==
    /\ pc = "ack"
    /\ Consume
    /\ ResetRetained
    /\ uncertain' = TRUE
    /\ pc' = "replan"
    /\ UNCHANGED <<fb, grabbed, on, grabs, plan, packet, wireVars, mishaps>>

Replan ==
    /\ pc = "replan"
    /\ MakePlan
    /\ pc' = "rebuild"
    /\ UNCHANGED <<evdiVars, dirty, blank, uncertain, retained, raced, wireVars,
                   mishaps>>

(* video_retained_note_plan: remember the planned hash of every packet of the
   frame.  pict, what the packet really shows, is history. *)
Raced == raced \/ \E b \in Bands : /\ ~packet[b].companion
                                 /\ packet[b].pict # plan.hash[b]

Noted(b) ==
    LET note == [hash |-> plan.hash[b], pict |-> packet[b].pict]
    IN  IF Len(retained[b]) = Period THEN Append(Tail(retained[b]), note)
        ELSE Append(retained[b], note)

NotePlanOfFull ==       \* mutant: a companion is not noted
    /\ retained' = [b \in Bands |-> IF packet[b].companion THEN retained[b]
                                   ELSE Noted(b)]
    /\ raced' = Raced

NotePlan ==
    /\ retained' = [b \in Bands |-> Noted(b)]
    /\ raced' = Raced

(* The frame is handed to the transport: from "ack" when the ACK gate lets it
   through and the wait was short.  A black frame is
   not noted: everything is forgotten instead. *)
Submit ==
    /\ \/ pc \in {"ack", "submit"}
       \/ pc = "rebuild" /\ DOMAIN packet = Bands
    /\ inflight' = SetToSeq({packet[b] : b \in Bands})
    /\ IF plan.black \/ uncertain THEN ResetRetained ELSE NotePlan
    /\ blank' = (blank /\ ~plan.black)
    /\ dirty' = {}
    /\ plan' = NoPlan /\ packet' = NoPackets
    /\ pc' = "top"
    /\ UNCHANGED <<evdiVars, uncertain, failed, kept, mishaps>>

(* video_recover_usb_session. *)
Recover ==
    /\ pc = "recover"
    /\ ResetRetained
    /\ dirty' = Bands
    /\ inflight' = << >> /\ failed' = FALSE
    /\ kept' = [b \in Bands |-> [i \in 1 .. Period |-> Whole(Unknown)]]
    /\ plan' = NoPlan /\ packet' = NoPackets
    /\ pc' = "top"
    /\ UNCHANGED <<evdiVars, blank, uncertain, mishaps>>

-----------------------------------------------------------------------------
(* The transport and the adapter. *)

(* The adapter keeps Period pictures of a band.  A full packet replaces the
   oldest one, a companion replaces a rectangle of it; the result is shown. *)
PictureOf(p) ==
    [body |-> IF p.companion THEN Head(kept[p.band]).body ELSE p.pict, patch |-> p.pict]

Deliver ==
    /\ inflight # << >>
    /\ kept' = [b \in Bands |-> IF b = Head(inflight).band
                                THEN Append(Tail(kept[b]), PictureOf(Head(inflight)))
                                ELSE kept[b]]
    /\ inflight' = Tail(inflight)
    /\ UNCHANGED <<evdiVars, mainVars, failed, mishaps>>

TransferFails ==
    /\ inflight # << >> /\ mishaps < MaxMishaps
    /\ inflight' = Tail(inflight)
    /\ failed' = TRUE
    /\ mishaps' = mishaps + 1
    /\ UNCHANGED <<evdiVars, mainVars, kept>>

-----------------------------------------------------------------------------

Next == \/ Grab \/ PublishDirty \/ SwitchOff \/ SwitchOn
        \/ Top \/ ReceiverError \/ Plan \/ (\E b \in Bands : BuildBand(b)) \/ BuildFails
        \/ WaitPrevious \/ WaitIdle
        \/ LateRebuild \/ AckUncertain \/ Replan
        \/ Submit \/ Recover
        \/ Deliver \/ TransferFails

Spec == Init /\ [][Next]_vars

-----------------------------------------------------------------------------
(* Properties. *)

Shown   == Pictures \cup {Black, Unknown}
Packets == [band : Bands, hash : Pictures, companion : BOOLEAN,
            pict : Pictures \cup {Black}]

Plans    == [hash : [Bands -> Pictures], companion : SUBSET Bands, black : BOOLEAN]
Notes    == [hash : Pictures, pict : Pictures]
Retained == [body : Shown, patch : Shown]

(* Every variable has its type; no band has more noted hashes than the adapter
   has retained pictures (main.c:348-354), and at most one frame of one packet
   per band is on its way. *)
TypeOK ==
    /\ fb \in [Bands -> Pictures]
    /\ grabbed \subseteq Bands /\ dirtyTiles \subseteq Bands /\ dirty \subseteq Bands
    /\ on \in BOOLEAN /\ blankTiles \in BOOLEAN /\ blank \in BOOLEAN
    /\ uncertain \in BOOLEAN /\ failed \in BOOLEAN /\ raced \in BOOLEAN
    /\ pc \in {"top", "idle", "plan", "build", "ack", "replan", "rebuild",
               "submit", "recover"}
    /\ plan = NoPlan \/ plan \in Plans
    /\ DOMAIN packet \subseteq Bands /\ \A b \in DOMAIN packet : packet[b] \in Packets
    /\ \A b \in Bands :
          /\ retained[b] \in Seq(Notes)
          /\ Len(retained[b]) <= Period
          /\ kept[b] \in Seq(Retained)
          /\ Len(kept[b]) = Period
    /\ inflight \in Seq(Packets) /\ Len(inflight) <= Cardinality(Bands)

(* The noted hashes and the adapter's retained pictures stay in step, packet
   for packet: whatever was forgotten and noted in between (black frames,
   uncertain ACKs, recoveries, failed transfers), the n-th newest hash of a
   band is that of the n-th newest picture the adapter keeps of it
   (main.c:348-366, 1343-1351). *)
BasisInStep ==
    /\ TypeOK
    /\ (inflight = << >> /\ ~failed) =>
          \A b \in Bands : \A i \in 1 .. Len(retained[b]) :
              retained[b][i].pict = kept[b][Period - Len(retained[b]) + i].patch

(* A companion only reaches the adapter when the picture it is laid over is the
   one the band's hash was computed from: what the README promises of companion
   updates (README.md:77-79) and what video_retained_band_base_matches is for.
   The code does not keep it: see RetainedBandsRace.cfg. *)
CompanionBasis ==
    (inflight # << >> /\ Head(inflight).companion) =>
        Head(kept[Head(inflight).band]).body = Head(inflight).hash

(* The same, except where a full picture was noted under the hash of another
   one because the framebuffer was grabbed between the plan and the build. *)
CompanionBasisUnlessRaced == raced \/ CompanionBasis

Settled == /\ pc = "top" /\ on
           /\ dirty = {} /\ dirtyTiles = {} /\ grabbed = {}
           /\ ~blank /\ ~blankTiles
           /\ inflight = << >> /\ ~failed

(* No damage is lost between the EVDI thread and the adapter: once nothing is
   dirty, nothing is in flight and nothing failed, a display that is on shows
   its framebuffer, unless the last frame sent was a black one.  It holds
   whatever is grabbed between plan, build, late rebuild and submission, with
   the same exception. *)
SettledShowsFramebuffer ==
    Settled => \/ raced
               \/ \A b \in Bands : Last(kept[b]) \in {Whole(fb[b]), Whole(Black)}
=============================================================================
