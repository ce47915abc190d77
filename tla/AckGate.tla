------------------------------ MODULE AckGate -------------------------------
(* The ACKs of stream A and the gate they control (usb.c, rx_publish and
   smid_usb_ack_a_within_window; main.c:1267-1296).

   The adapter acknowledges the frames it was sent, in their order, by their
   indexes.  Before a frame of stream A is sent, the main loop compares the
   last index that is known to be delivered with the last one acknowledged.
   When the adapter is more than the window behind, nothing is assumed about
   the pictures it retains until it has said something new.

   One frame is in flight at a time; frames of stream B alone touch nothing
   here.  The end of a session that was closed and opened without a reset of
   the device leaves ACKs to come that the next session receives. *)
EXTENDS Integers, Sequences, SequencesExt

CONSTANTS
    IndexMod,       \* frame indexes are counted modulo this: 2^32 in the code
    Window,         \* --ack-window
    LowSeq, HighSeq,    \* SMID_ACK_WRAP_LOW_SEQ, SMID_ACK_WRAP_HIGH_SEQ
    MaxCarried,     \* bound: sessions that leave frames to be acknowledged
    MaxLost         \* bound: ACKs that are never sent

ASSUME AckGateAssumption ==
    /\ IndexMod \in Nat /\ IndexMod > 3
    /\ Window \in Nat
    /\ LowSeq \in 0 .. HighSeq /\ HighSeq \in 0 .. IndexMod - 1
    /\ MaxCarried \in Nat /\ MaxLost \in Nat

VARIABLES
    pc,         \* the main loop: build, gate, send
    seq,        \* index of the next frame
    inflight,   \* index of the frame in flight, 0 if none
    last,       \* last_stream_seq[0], 0 if none
    bypassed, bypassAck,    \* ack_gate_bypassed, ack_gate_bypass_ack
    ack, seen,  \* ack_a, ack_a_seen
    unacked,    \* frames the adapter has and has not acknowledged, in order
    \* history and bounds
    owed,       \* frames delivered in this session after the last one whose
                \* ACK was published
    ours,       \* the last ACK published is one of this session
    stale,      \* an ACK of a former session was published in this one
    silent,     \* a frame was uncertain, and no ACK was published since
    verdict,    \* on the frame to be sent: unchecked, uncertain, and with an
                \* ACK of this session certain, without one unfounded
    carried, lost

gateVars    == <<seq, last, bypassed, bypassAck, verdict>>
ackVars     == <<ack, seen, unacked, owed, ours, stale>>
ackGateVars == <<pc, inflight, silent, gateVars, ackVars, carried, lost>>

AckInit == /\ pc = "build" /\ seq = 2 /\ inflight = 0 /\ last = 0
           /\ bypassed = FALSE /\ bypassAck = 0
           /\ ack = 0 /\ seen = FALSE
           /\ unacked = << >>
           /\ owed = 0 /\ ours = FALSE /\ stale = FALSE /\ silent = FALSE
           /\ verdict = "unchecked"
           /\ carried = 0 /\ lost = 0

-----------------------------------------------------------------------------
Frame(index) == [index |-> index, old |-> FALSE]

(* Mutant: while the gate is bypassed no index is noted for it. *)
DeliverUnlessBypassed ==
    /\ unacked' = Append(unacked, Frame(inflight))
    /\ owed' = owed + 1
    /\ last' = IF bypassed THEN last ELSE inflight
    /\ inflight' = 0

(* video_inflight_wait: the frame in flight is delivered. *)
Deliver ==
    /\ unacked' = Append(unacked, Frame(inflight))
    /\ owed' = owed + 1
    /\ last' = inflight
    /\ inflight' = 0

(* Nothing is dirty: the main loop waits for the frame in flight. *)
WaitIdle ==
    /\ pc = "build"
    /\ inflight # 0
    /\ Deliver
    /\ UNCHANGED <<pc, seq, bypassed, bypassAck, verdict, silent, ack, seen, ours,
                   stale, carried, lost>>

(* The next frame is built, and waits for the one in flight. *)
WaitPrevious ==
    /\ pc = "build"
    /\ pc' = "gate"
    /\ IF inflight # 0 THEN Deliver ELSE UNCHANGED <<unacked, owed, last, inflight>>
    /\ UNCHANGED <<seq, bypassed, bypassAck, verdict, silent, ack, seen, ours,
                   stale, carried, lost>>

(* Mutant: either side of the wrap is enough. *)
PreWrapStaleEither == last < LowSeq \/ ack >= HighSeq

(* An old session's last indexes do not hold up the first of a new one. *)
PreWrapStale == last < LowSeq /\ ack >= HighSeq

(* Mutant: a lag of exactly the window is too much. *)
WithinWindowStrictly ==
    Window = 0 \/ ~seen \/ PreWrapStale \/ (last - ack) % IndexMod < Window

(* smid_usb_ack_a_within_window: an unsigned difference. *)
WithinWindow ==
    Window = 0 \/ ~seen \/ PreWrapStale \/ (last - ack) % IndexMod <= Window

(* All retained bands are given up, and the check of this index is done. *)
Uncertain == last' = 0 /\ verdict' = "uncertain" /\ silent' = TRUE

Gate ==
    /\ pc = "gate"
    /\ pc' = "send"
    /\ \/ /\ last = 0
          /\ verdict' = "unchecked"
          /\ UNCHANGED <<last, bypassed, bypassAck, silent>>
       \/ /\ last # 0 /\ ~WithinWindow
          /\ bypassed' = TRUE /\ bypassAck' = ack
          /\ Uncertain
       \/ /\ last # 0 /\ WithinWindow
          /\ bypassed /\ ~(seen /\ ack # bypassAck)
          /\ Uncertain
          /\ UNCHANGED <<bypassed, bypassAck>>
       \/ /\ last # 0 /\ WithinWindow
          /\ bypassed => seen /\ ack # bypassAck
          /\ bypassed' = FALSE
          /\ verdict' = IF seen /\ ours THEN "certain" ELSE "unfounded"
          /\ UNCHANGED <<last, bypassAck, silent>>
    /\ UNCHANGED <<seq, inflight, ackVars, carried, lost>>

ResetGate == last' = 0 /\ bypassed' = FALSE /\ bypassAck' = 0

(* smid_usb_ack_clear. *)
ClearAck == ack' = 0 /\ seen' = FALSE

(* video_recover_usb_session.  Endpoints closed and opened leave the adapter
   with its frames, and the one in flight has reached it or not; a reset of
   the device leaves it with none. *)
Recovered(undelivered) ==
    /\ pc' = "build" /\ seq' = 2 /\ inflight' = 0
    /\ ResetGate
    /\ ClearAck
    /\ \/ unacked' = << >> /\ UNCHANGED carried
       \/ /\ carried < MaxCarried /\ carried' = carried + 1
          /\ \E sent \in {unacked, unacked \o undelivered} :
                unacked' = [i \in DOMAIN sent |-> [sent[i] EXCEPT !.old = TRUE]]
    /\ owed' = 0 /\ ours' = FALSE /\ stale' = FALSE /\ silent' = FALSE
    /\ verdict' = "unchecked"
    /\ UNCHANGED lost

(* A transfer, a build or the receiver fails. *)
Recover == Recovered(IF inflight = 0 THEN << >> ELSE << Frame(inflight) >>)

(* The frame is submitted; an index that would be zero is never used, the
   session is built again instead (video_sequence_wrapped). *)
Send ==
    /\ pc = "send"
    /\ IF (seq + 1) % IndexMod = 0
       THEN Recovered(<< Frame(seq) >>)
       ELSE /\ seq' = (seq + 1) % IndexMod /\ inflight' = seq
            /\ pc' = "build"
            /\ verdict' = "unchecked"
            /\ UNCHANGED <<last, bypassed, bypassAck, silent, ackVars, carried, lost>>

(* The adapter acknowledges a frame: rx_publish.  The session an ACK belongs
   to is not in it. *)
Acknowledge ==
    /\ unacked # << >>
    /\ ack' = Head(unacked).index /\ seen' = TRUE
    /\ unacked' = Tail(unacked)
    /\ ours' = ~Head(unacked).old /\ stale' = (stale \/ Head(unacked).old)
    /\ owed' = IF ours' THEN Len(unacked') ELSE owed
    /\ silent' = FALSE
    /\ UNCHANGED <<pc, inflight, gateVars, carried, lost>>

(* An ACK is not sent, or lost. *)
LoseAck ==
    /\ unacked # << >>
    /\ lost < MaxLost /\ lost' = lost + 1
    /\ unacked' = Tail(unacked)
    /\ UNCHANGED <<pc, inflight, silent, gateVars, ack, seen, owed, ours, stale,
                   carried>>

AckNext == WaitIdle \/ WaitPrevious \/ Gate \/ Send \/ Recover \/ Acknowledge \/ LoseAck

AckSpec == AckInit /\ [][AckNext]_ackGateVars

-----------------------------------------------------------------------------
(* What must hold. *)

Indexes == 0 .. IndexMod - 1

AckTypeOK ==
    /\ pc \in {"build", "gate", "send"}
    /\ seq \in Indexes \ {0} /\ inflight \in Indexes /\ last \in Indexes
    /\ bypassed \in BOOLEAN /\ bypassAck \in Indexes
    /\ ack \in Indexes /\ seen \in BOOLEAN
    /\ unacked \in Seq([index : Indexes \ {0}, old : BOOLEAN])
    /\ owed \in 0 .. IndexMod
    /\ ours \in BOOLEAN /\ stale \in BOOLEAN /\ silent \in BOOLEAN
    /\ verdict \in {"unchecked", "uncertain", "certain", "unfounded"}
    /\ carried \in 0 .. MaxCarried /\ lost \in 0 .. MaxLost

(* Companions rest on the pictures the adapter retains: once it has
   acknowledged a frame of this session, the gate lets through only when no
   more frames than the window are open, across lost ACKs, recoveries and the
   end of the index range (usb.c:343-356). *)
GateIsSound ==
    [][verdict' = "certain" /\ pc = "gate" /\ Window > 0 => owed <= Window]_ackGateVars

(* And a session is not slowed down for nothing: with an ACK of this session
   and none of a former one the gate closes only when more frames than the
   window are open.  A former session's ACK closes it at once, and when this
   session comes to the same index it is taken for that same ACK
   (usb.c:348-356, main.c:1275-1296). *)
NoFalseAlarm ==
    [][verdict' = "uncertain" /\ pc = "gate" /\ ours /\ ~stale
           => owed > Window]_ackGateVars

(* A frame that was let through unchecked never breaks a run of uncertain
   ones: until the adapter says something new, or the session is built again,
   every frame is uncertain (main.c:1275-1296). *)
SilenceStaysUncertain ==
    pc = "send" /\ silent => verdict = "uncertain"

(* An open gate is not held by what a former session left in it: the gate is
   only bypassed in the session whose ACK closed it (main.c:951-955). *)
BypassOfThisSession ==
    bypassed => seen

(* What the gate remembers is about this session and about the index it waits
   for, and in its range. *)
GateRemembers == AckTypeOK /\ SilenceStaysUncertain /\ BypassOfThisSession
=============================================================================
