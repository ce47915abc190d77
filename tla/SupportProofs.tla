---------------------------- MODULE SupportProofs ----------------------------
(* The parts beside the frame path.  The quality controller, for every
   measurement and every setting: the quality stays in its range and moves for the
   reasons it should.  The ACK gate, for every index range, window and number of
   lost ACKs: what it certifies and what it refuses is right; while a session
   lasts its indexes do not wrap, so the unsigned difference the code takes is the
   number of frames the adapter has not acknowledged.  And the log, for every
   number of threads, capacity and message. *)
EXTENDS QualityController, AckGate, Log, SequenceTheorems, TLAPS

(* What a row of windows leaves in the counters. *)
RowInv ==
    /\ encoder_pressure_windows > 0 =>
          run.kind = "encoder" /\ run.n >= Least(encoder_pressure_windows, DOWN_PRESSURE)
    /\ service_pressure_windows > 0 =>
          run.kind = "service" /\ run.n >= Least(service_pressure_windows, DOWN_PRESSURE)
    /\ spare_windows > 0 => run.kind = "spare" /\ run.n >= spare_windows

(* The hold counts down the windows that sinceAck counts up. *)
HoldInv == ack_paced_hold_windows = HOLD - sinceAck

QualityInv == TypeOK /\ RowInv /\ HoldInv /\ PacedIsNotSlow

(* What is decided in a window: its kind, one of five. *)
LEMMA KindIsOne ==
    ASSUME NEW m
    PROVE  Kind(m) \in {"wire", "encoder", "service", "spare", "none"}
BY DEF Kind

(* The kind "encoder" speaks of a window in which no hold applies. *)
LEMMA EncoderUnheld ==
    ASSUME NEW m, Kind(m) = "encoder", WireBelowTarget(m)
    PROVE  ~AckPaced(m) /\ ~(Hold(m) > 0)
BY DEF Kind

LEMMA InitQualityInv == Init => QualityInv
<1> SUFFICES ASSUME Init PROVE QualityInv
  OBVIOUS
<1>1. PICK q \in Asked : ceiling = Clamped(q)
  BY DEF Init
<1>2. q \in Int
  BY <1>1, QualityAssumption
<1>3. ceiling \in 1 .. 100
  BY <1>1, <1>2 DEF Clamped, Greatest, Least
<1>4. floor \in 1 .. 100 /\ floor <= ceiling
  BY <1>3 DEF Init, Least, FLOOR_DEFAULT
<1>5. TypeOK
  <2>1. fixed \in BOOLEAN
    BY Zenon DEF Init
  <2>2. run \in [kind : Kinds, n : 0 .. DOWN_PRESSURE, room : BOOLEAN]
    BY DEF Init, Kinds, DOWN_PRESSURE
  <2>3. /\ 0 \in 0 .. Greatest(MaxPressure, DOWN_PRESSURE)
        /\ 0 \in 0 .. Greatest(MaxPressure, SERVICE_DOWN)
    BY QualityAssumption DEF Greatest, DOWN_PRESSURE, SERVICE_DOWN
  <2>q. QED BY <1>3, <1>4, <2>1, <2>2, <2>3 DEF Init, TypeOK, UP_GOOD, HOLD
<1>6. RowInv /\ HoldInv /\ PacedIsNotSlow
  BY DEF Init, RowInv, HoldInv, PacedIsNotSlow, HOLD
<1>q. QED BY <1>5, <1>6 DEF QualityInv

-----------------------------------------------------------------------------
(* A step down or up stays between floor and ceiling. *)
LEMMA StepsInRange ==
    ASSUME TypeOK
    PROVE  /\ floor \in 1 .. 100 /\ ceiling \in 1 .. 100
           /\ Lowered \in floor .. ceiling /\ Lowered <= current
           /\ Raised \in floor .. ceiling /\ current <= Raised
           /\ current \in Int
BY DEF TypeOK, Lowered, Raised, Greatest, Least

(* What each kind of window does to the quality and to the counters: what the
   invariant and the two action properties need of it. *)
LEMMA AdjustEffect ==
    ASSUME QualityInv, NEW kind, Adjust(kind), NEW room, run' = Noted(kind, room)
    PROVE  /\ current' \in floor .. ceiling
           /\ encoder_pressure_windows' \in 0 .. Greatest(MaxPressure, DOWN_PRESSURE)
           /\ service_pressure_windows' \in 0 .. Greatest(MaxPressure, SERVICE_DOWN)
           /\ spare_windows' \in 0 .. UP_GOOD - 1
           /\ RowInv'
           /\ current' < current =>
                 \/ kind = "wire"
                 \/ kind = "encoder" /\ run'.n >= DOWN_PRESSURE
                 \/ kind = "service" /\ run'.n >= SERVICE_DOWN
           /\ current' > current => kind = "spare" /\ run'.n >= UP_GOOD
<1>0. /\ TypeOK /\ RowInv /\ run.n \in 0 .. DOWN_PRESSURE
      /\ MaxPressure \in Nat
      /\ encoder_pressure_windows \in Nat /\ service_pressure_windows \in Nat
      /\ spare_windows \in {0, 1} /\ current \in floor .. ceiling
      /\ floor \in 1 .. 100 /\ ceiling \in 1 .. 100
  BY QualityAssumption DEF QualityInv, TypeOK, UP_GOOD
<1>1. run'.kind = kind /\ run'.n = IF run.kind = kind THEN Least(run.n + 1, DOWN_PRESSURE) ELSE 1
  BY DEF Noted
<1>2. /\ Lowered \in floor .. ceiling /\ Lowered <= current
      /\ Raised \in floor .. ceiling /\ current <= Raised
  BY <1>0, StepsInRange
<1> USE DEF Counters, DOWN_PRESSURE, SERVICE_DOWN, UP_GOOD
<1>3. CASE kind = "wire" /\ UnderWire
  BY <1>0, <1>1, <1>2, <1>3 DEF UnderWire, RowInv, Greatest
<1>4. CASE kind = "encoder" /\ UnderEncoder
  BY <1>0, <1>1, <1>2, <1>4 DEF UnderEncoder, RowInv, Greatest, Least
<1>5. CASE kind = "service" /\ UnderService
  BY <1>0, <1>1, <1>2, <1>5 DEF UnderService, RowInv, Greatest, Least
<1>6. CASE kind = "spare" /\ current < ceiling /\ WithSpare
  BY <1>0, <1>1, <1>2, <1>6 DEF WithSpare, RowInv, Greatest, Least
<1>7. CASE kind = "none" /\ WithNeither
  BY <1>0, <1>1, <1>2, <1>7 DEF WithNeither, RowInv, Greatest
<1>8. CASE kind = "spare" /\ current = ceiling /\ WithNeither
  BY <1>0, <1>1, <1>2, <1>8 DEF WithNeither, RowInv, Greatest
<1>q. QED BY <1>3, <1>4, <1>5, <1>6, <1>7, <1>8 DEF Adjust

LEMMA WindowStep ==
    ASSUME QualityInv, NEW m, Update(m)
    PROVE  QualityInv'
<1>0. /\ TypeOK /\ HoldInv /\ UNCHANGED set
      /\ ack_paced_hold_windows' = Hold(m)
      /\ Adjust(Kind(m)) /\ run' = Noted(Kind(m), WireBelowTarget(m))
      /\ sinceAck' = IF AckPaced(m) THEN 0 ELSE Least(sinceAck + 1, HOLD)
      /\ sinceAck \in 0 .. HOLD /\ run.n \in 0 .. DOWN_PRESSURE
  BY DEF Update, QualityInv, TypeOK
<1>1. /\ ack_paced_hold_windows' \in 0 .. HOLD /\ sinceAck' \in 0 .. HOLD
      /\ ack_paced_hold_windows' = HOLD - sinceAck'
  BY <1>0 DEF Hold, HoldInv, Least, HOLD
<1>2. run' \in [kind : Kinds, n : 0 .. DOWN_PRESSURE, room : BOOLEAN]
  <2>1. WireBelowTarget(m) \in BOOLEAN
    BY DEF WireBelowTarget
  <2>2. Kind(m) \in Kinds
    BY KindIsOne DEF Kinds
  <2>3. Least(run.n + 1, DOWN_PRESSURE) \in 0 .. DOWN_PRESSURE /\ 1 \in 0 .. DOWN_PRESSURE
    BY <1>0 DEF Least, DOWN_PRESSURE
  <2>q. QED BY <1>0, <2>1, <2>2, <2>3 DEF Noted
<1>3. TypeOK'
  <2>1. /\ current' \in floor .. ceiling
        /\ encoder_pressure_windows' \in 0 .. Greatest(MaxPressure, DOWN_PRESSURE)
        /\ service_pressure_windows' \in 0 .. Greatest(MaxPressure, SERVICE_DOWN)
        /\ spare_windows' \in 0 .. UP_GOOD - 1
    BY <1>0, AdjustEffect
  <2>2. floor' = floor /\ ceiling' = ceiling /\ fixed' = fixed
    BY <1>0 DEF set
  <2>q. QED BY <1>0, <1>1, <1>2, <2>1, <2>2 DEF TypeOK
<1>4. RowInv'
  BY <1>0, AdjustEffect
<1>5. PacedIsNotSlow'
  <2>1. run'.kind = Kind(m) /\ run'.room = WireBelowTarget(m)
    BY <1>0 DEF Noted
  <2>2. ASSUME Kind(m) = "encoder", WireBelowTarget(m) PROVE sinceAck' = HOLD
    <3>1. ~(Hold(m) > 0)
      BY <2>2, EncoderUnheld
    <3>q. QED BY <1>0, <1>1, <3>1 DEF HOLD
  <2>q. QED BY <2>1, <2>2 DEF PacedIsNotSlow
<1>q. QED BY <1>1, <1>3, <1>4, <1>5 DEF QualityInv, HoldInv

LEMMA IdleStep ==
    ASSUME QualityInv, NoteIdle
    PROVE  QualityInv'
<1>1. /\ TypeOK /\ MaxPressure \in Nat
  BY QualityAssumption DEF QualityInv
<1>2. run' \in [kind : Kinds, n : 0 .. DOWN_PRESSURE, room : BOOLEAN]
  BY DEF NoteIdle, Kinds, DOWN_PRESSURE
<1>3. TypeOK'
  BY <1>1, <1>2 DEF TypeOK, NoteIdle, Counters, set, Greatest, DOWN_PRESSURE,
     SERVICE_DOWN, UP_GOOD, HOLD
<1>4. RowInv' /\ HoldInv' /\ PacedIsNotSlow'
  BY DEF NoteIdle, Counters, RowInv, HoldInv, PacedIsNotSlow, HOLD
<1>q. QED BY <1>3, <1>4 DEF QualityInv

LEMMA NextQualityInv == QualityInv /\ [Next]_vars => QualityInv'
<1> SUFFICES ASSUME QualityInv, [Next]_vars PROVE QualityInv'
  OBVIOUS
<1>1. ASSUME NEW m \in Measures, Update(m) PROVE QualityInv'
  BY <1>1, WindowStep
<1>2. CASE NoteIdle
  BY <1>2, IdleStep
<1>3. CASE NotAdaptive \/ UNCHANGED vars
  BY <1>3 DEF NotAdaptive, vars, set, counters, QualityInv, TypeOK, RowInv, HoldInv,
     PacedIsNotSlow
<1>q. QED BY <1>1, <1>2, <1>3 DEF Next, Measured

-----------------------------------------------------------------------------
(* The quality stays between floor and ceiling, and both in 1 .. 100, which is
   what the encoder is asked for. *)
THEOREM QualityTypeOK == Spec => []TypeOK
<1>1. QualityInv => TypeOK
  BY DEF QualityInv
<1>q. QED BY InitQualityInv, NextQualityInv, <1>1, PTL DEF Spec

(* Frames that ACKs held back are not taken for a slow encoder. *)
THEOREM QualityPacedIsNotSlow == Spec => []PacedIsNotSlow
<1>1. QualityInv => PacedIsNotSlow
  BY DEF QualityInv
<1>q. QED BY InitQualityInv, NextQualityInv, <1>1, PTL DEF Spec

Fall == current' < current => \/ run'.kind = "wire"
                              \/ run'.kind = "encoder" /\ run'.n >= DOWN_PRESSURE
                              \/ run'.kind = "service" /\ run'.n >= SERVICE_DOWN

Rise == current' > current => \/ run'.kind = "idle"
                              \/ (run'.kind = "spare" /\ run'.n >= UP_GOOD)

LEMMA NextMoves == QualityInv /\ [Next]_vars => [Fall /\ Rise]_vars
<1> SUFFICES ASSUME QualityInv, Next PROVE Fall /\ Rise
  OBVIOUS
<1>0. current \in Int /\ current <= ceiling
  BY DEF QualityInv, TypeOK
<1>1. ASSUME NEW m \in Measures, Update(m) PROVE Fall /\ Rise
  <2>1. Adjust(Kind(m)) /\ run' = Noted(Kind(m), WireBelowTarget(m))
    BY <1>1 DEF Update
  <2>2. run'.kind = Kind(m)
    BY <2>1 DEF Noted
  <2>q. QED BY <2>1, <2>2, AdjustEffect DEF Fall, Rise
<1>2. CASE NoteIdle
  BY <1>0, <1>2 DEF NoteIdle, Fall, Rise, QualityInv, TypeOK
<1>3. CASE NotAdaptive
  BY <1>0, <1>3 DEF NotAdaptive, vars, Fall, Rise
<1>q. QED BY <1>1, <1>2, <1>3 DEF Next, Measured

(* The quality only falls for a full wire or a whole row of slow windows. *)
THEOREM QualityFallsForAReason == Spec => FallsForAReason
<1>1. [Fall /\ Rise]_vars => [Fall]_vars
  OBVIOUS
<1>q. QED BY InitQualityInv, NextQualityInv, NextMoves, <1>1, PTL DEF Spec, FallsForAReason, Fall

(* It only rises after a row of good windows, or at rest. *)
THEOREM QualityRisesWithRoom == Spec => RisesWithRoom
<1>1. [Fall /\ Rise]_vars => [Rise]_vars
  OBVIOUS
<1>q. QED BY InitQualityInv, NextQualityInv, NextMoves, <1>1, PTL DEF Spec, RisesWithRoom, Rise

(* The three together: what the run of the controllers checks. *)
THEOREM QualityMoves == Spec => QualityMovesForAReason
BY QualityFallsForAReason, QualityRisesWithRoom, QualityPacedIsNotSlow, PTL
   DEF QualityMovesForAReason

-----------------------------------------------------------------------------

(* The ACK gate. *)

(* The index of the last frame delivered, 1 if none was. *)
LastDelivered == IF inflight = 0 THEN seq - 1 ELSE seq - 2

Flight == /\ seq \in 2 .. IndexMod - 1
          /\ inflight # 0 => inflight = seq - 1 /\ inflight >= 2
          /\ pc # "build" => inflight = 0
          /\ last \in {0, LastDelivered}

(* The adapter owes the ACKs of former sessions first, and those of this one
   without a gap up to the last frame delivered. *)
Owing == /\ \A i, j \in DOMAIN unacked :
               i <= j /\ unacked[j].old => unacked[i].old
         /\ \A i \in DOMAIN unacked : ~unacked[i].old =>
               unacked[i].index = LastDelivered - (Len(unacked) - i)

Counted == /\ owed \in Nat /\ owed <= LastDelivered
           /\ ours => seen /\ ack + owed = LastDelivered
           /\ seen /\ ~ours => stale

(* The gate is only held by an ACK that has left too many frames open. *)
Held == bypassed /\ ~stale =>
            /\ ours /\ bypassAck <= ack
            /\ ack = bypassAck => owed > Window

(* Since the last miss the adapter has said nothing, and the next check will
   come to the same end. *)
Waiting == silent => /\ bypassed /\ ack = bypassAck
                     /\ pc = "gate" => last # 0
                     /\ pc = "build" => inflight # 0 \/ last # 0

(* Once it has acknowledged a frame of this session, nothing else is owed. *)
Answered == ours => Len(unacked) <= owed /\ \A i \in DOMAIN unacked : ~unacked[i].old

(* The verdict is on the frame that is about to be sent. *)
Fresh == pc # "send" => verdict = "unchecked"

GateInv == AckTypeOK /\ Fresh /\ Flight /\ Owing /\ Answered /\ Counted /\ Held /\ Waiting
          /\ SilenceStaysUncertain /\ BypassOfThisSession

Frames == [index : Indexes \ {0}, old : BOOLEAN]

USE AckGateAssumption

LEMMA InitGateInv == AckInit => GateInv
<1> SUFFICES ASSUME AckInit PROVE GateInv
  OBVIOUS
<1>1. /\ unacked = << >> /\ unacked \in Seq([index : Indexes \ {0}, old : BOOLEAN])
      /\ DOMAIN unacked = {}
  BY DEF AckInit
<1>2. Owing /\ Answered
  BY <1>1 DEF Owing, Answered, AckInit
<1>3. AckTypeOK
  <2>1. 0 \in Indexes /\ 2 \in Indexes \ {0} /\ 0 \in 0 .. IndexMod
    BY DEF Indexes
  <2>2. 0 \in 0 .. MaxCarried /\ 0 \in 0 .. MaxLost
    OBVIOUS
  <2>q. QED BY <1>1, <2>1, <2>2 DEF AckInit, AckTypeOK
<1>4. /\ Fresh /\ Flight /\ Counted /\ Held /\ Waiting
      /\ SilenceStaysUncertain /\ BypassOfThisSession
  BY DEF AckInit, Fresh, Flight, LastDelivered, Counted, Held, Waiting, SilenceStaysUncertain,
         BypassOfThisSession
<1>q. QED BY <1>2, <1>3, <1>4 DEF GateInv

-----------------------------------------------------------------------------
(* The frame in flight is added to those the adapter owes an ACK for. *)
LEMMA DeliverStep ==
    ASSUME GateInv, inflight # 0, pc = "build", pc' \in {"build", "gate"}, Deliver,
           UNCHANGED <<seq, bypassed, bypassAck, verdict, silent, ack, seen, ours,
                       stale, carried, lost>>
    PROVE  GateInv'
<1>. DEFINE f == Frame(inflight)
<1>1. /\ seq \in 2 .. IndexMod - 1 /\ inflight = seq - 1 /\ inflight >= 2
      /\ inflight' = 0 /\ last' = inflight /\ owed' = owed + 1 /\ seq' = seq
      /\ inflight \in Indexes
  BY DEF GateInv, Flight, Deliver, AckTypeOK
<1>2. LastDelivered = seq - 2 /\ LastDelivered' = seq - 1 /\ LastDelivered' = inflight
  BY <1>1 DEF LastDelivered
<1>3. /\ unacked \in Seq(Frames)
      /\ f \in Frames
      /\ f.index = inflight /\ f.old = FALSE
  BY <1>1 DEF GateInv, AckTypeOK, Frame, Frames
<1>4. /\ unacked' \in Seq(Frames)
      /\ Len(unacked') = Len(unacked) + 1
      /\ \A i \in DOMAIN unacked : unacked'[i] = unacked[i]
      /\ unacked'[Len(unacked) + 1] = f
      /\ DOMAIN unacked = 1 .. Len(unacked) /\ DOMAIN unacked' = 1 .. Len(unacked) + 1
      /\ Len(unacked) \in Nat
  BY <1>3 DEF Deliver
<1>5. Owing' /\ Answered'
  <2>1. ASSUME NEW i \in DOMAIN unacked', NEW j \in DOMAIN unacked', i <= j, unacked'[j].old
        PROVE  unacked'[i].old
    <3>1. i \in DOMAIN unacked /\ j \in DOMAIN unacked
      BY <1>3, <1>4, <2>1
    <3>q. QED BY <1>4, <2>1, <3>1 DEF GateInv, Owing
  <2>2. ASSUME NEW i \in DOMAIN unacked', ~unacked'[i].old
        PROVE  unacked'[i].index = LastDelivered' - (Len(unacked') - i)
    <3>1. CASE i = Len(unacked) + 1
      BY <1>1, <1>2, <1>3, <1>4, <3>1 DEF Indexes
    <3>2. CASE i \in DOMAIN unacked
      <4>1. unacked[i].index = LastDelivered - (Len(unacked) - i)
        BY <1>4, <2>2, <3>2 DEF GateInv, Owing
      <4>q. QED BY <1>1, <1>2, <1>4, <3>2, <4>1
    <3>q. QED BY <1>4, <3>1, <3>2
  <2>3. Answered'
    <3>1. ASSUME ours PROVE \A i \in DOMAIN unacked' : ~unacked'[i].old
      BY <1>3, <1>4, <3>1 DEF GateInv, Answered
    <3>2. ASSUME ours PROVE Len(unacked') <= owed'
      BY <1>1, <1>4, <3>2 DEF GateInv, Answered, Counted
    <3>q. QED BY <3>1, <3>2 DEF Answered
  <2>q. QED BY <2>1, <2>2, <2>3 DEF Owing
<1>6. Flight'
  BY <1>1, <1>2 DEF Flight, GateInv
<1>7. Counted'
  BY <1>1, <1>2 DEF Counted, GateInv, AckTypeOK, Indexes
<1>8. AckTypeOK'
  BY <1>1, <1>2, <1>4, <1>7 DEF AckTypeOK, GateInv, Indexes, Counted, Frames
<1>9. Fresh' /\ Held' /\ Waiting' /\ SilenceStaysUncertain' /\ BypassOfThisSession'
  BY <1>1 DEF GateInv, Fresh, Held, Waiting, SilenceStaysUncertain, BypassOfThisSession, Counted
<1>q. QED BY <1>5, <1>6, <1>7, <1>8, <1>9 DEF GateInv

(* What the adapter owes is left alone by the gate. *)
LEMMA GateStep == GateInv /\ Gate => GateInv'
<1> SUFFICES ASSUME GateInv, Gate PROVE GateInv'
  OBVIOUS
<1>1. /\ pc = "gate" /\ pc' = "send" /\ inflight = 0
      /\ UNCHANGED <<seq, inflight, ackVars, carried, lost>>
      /\ last \in Indexes /\ bypassAck \in Indexes /\ ack \in Indexes
  BY DEF Gate, GateInv, Flight, AckTypeOK
<1>2. Owing' /\ Answered' /\ Counted'
  BY <1>1 DEF GateInv, Owing, Answered, Counted, LastDelivered, ackVars
<1>3. last' \in {0, last} /\ verdict' \in {"unchecked", "uncertain", "certain", "unfounded"}
      /\ bypassed' \in BOOLEAN /\ bypassAck' \in Indexes /\ silent' \in BOOLEAN
  BY <1>1 DEF Gate, Uncertain, GateInv, AckTypeOK
<1>4. AckTypeOK' /\ Flight'
  BY <1>1, <1>3 DEF GateInv, AckTypeOK, Flight, LastDelivered, ackVars, Indexes
<1>5. Held' /\ BypassOfThisSession'
  <2>1. CASE UNCHANGED <<bypassed, bypassAck>>
    BY <2>1, <1>1 DEF GateInv, Held, BypassOfThisSession, ackVars
  <2>2. CASE last # 0 /\ ~WithinWindow /\ bypassAck' = ack
    <3>1. seen /\ Window # 0 /\ ~((last - ack) % IndexMod <= Window)
      BY <2>2 DEF WithinWindow
    <3>2. ~stale => ours
      BY <3>1 DEF GateInv, Counted
    <3>3. ~stale => last - ack = owed /\ owed \in 0 .. IndexMod - 1
      BY <1>1, <2>2, <3>2 DEF GateInv, Counted, Flight, LastDelivered, Indexes
    <3>4. ~stale => owed > Window
      BY <3>1, <3>3
    <3>q. QED BY <1>1, <2>2, <3>1, <3>2, <3>4 DEF Held, BypassOfThisSession, ackVars, Indexes
  <2>3. CASE bypassed' = FALSE
    BY <2>3 DEF Held, BypassOfThisSession
  <2>q. QED BY <2>1, <2>2, <2>3 DEF Gate, Uncertain
<1>6. Fresh' /\ Waiting' /\ SilenceStaysUncertain'
  BY <1>1 DEF Gate, Fresh, Uncertain, GateInv, Waiting, SilenceStaysUncertain,
     BypassOfThisSession, ackVars
<1>q. QED BY <1>2, <1>4, <1>5, <1>6 DEF GateInv

(* A new session owes nothing of its own. *)
LEMMA RecoverStep ==
    ASSUME GateInv, NEW undelivered, Recovered(undelivered),
           undelivered \in Seq(Frames)
    PROVE  GateInv'
<1>1. unacked' \in Seq(Frames) /\ \A i \in DOMAIN unacked' : unacked'[i].old
  <2>1. unacked \in Seq(Frames) /\ unacked \o undelivered \in Seq(Frames)
    BY DEF GateInv, AckTypeOK, Frames
  <2>2. ASSUME NEW sent \in Seq(Frames),
               unacked' = [i \in DOMAIN sent |-> [sent[i] EXCEPT !.old = TRUE]]
        PROVE  unacked' \in Seq(Frames) /\ \A i \in DOMAIN unacked' : unacked'[i].old
    <3>1. DOMAIN sent = 1 .. Len(sent) /\ Len(sent) \in Nat
          /\ \A i \in DOMAIN sent : sent[i] \in Frames
      OBVIOUS
    <3>2. ASSUME NEW f \in Frames
          PROVE  [f EXCEPT !.old = TRUE] \in Frames /\ [f EXCEPT !.old = TRUE].old
      BY DEF Frames
    <3>3. /\ DOMAIN unacked' = 1 .. Len(sent)
          /\ \A i \in 1 .. Len(sent) : unacked'[i] \in Frames /\ unacked'[i].old
      BY <2>2, <3>1, <3>2
    <3>4. unacked' = [i \in 1 .. Len(sent) |-> unacked'[i]]
      BY <2>2, <3>1
    <3>5. unacked' \in [1 .. Len(sent) -> Frames]
      BY <3>3, <3>4
    <3>q. QED BY <3>1, <3>3, <3>5, SeqDef
  <2>3. CASE unacked' = << >>
    BY <2>3
  <2>q. QED BY <2>1, <2>2, <2>3 DEF Recovered
<1>2. /\ pc' = "build" /\ seq' = 2 /\ inflight' = 0 /\ last' = 0 /\ bypassed' = FALSE
      /\ bypassAck' = 0 /\ ack' = 0 /\ seen' = FALSE /\ owed' = 0 /\ ours' = FALSE
      /\ stale' = FALSE /\ silent' = FALSE /\ verdict' = "unchecked" /\ lost' = lost
      /\ carried' \in 0 .. MaxCarried
  BY DEF Recovered, ResetGate, ClearAck, GateInv, AckTypeOK
<1>3. AckTypeOK'
  <2>1. lost \in 0 .. MaxLost
    BY DEF GateInv, AckTypeOK
  <2>2. 0 \in Indexes /\ 2 \in Indexes \ {0} /\ 0 \in 0 .. IndexMod
    BY DEF Indexes
  <2>q. QED BY <1>1, <1>2, <2>1, <2>2 DEF AckTypeOK, Frames
<1>4. Owing' /\ Answered'
  BY <1>1, <1>2 DEF Owing, Answered
<1>5. /\ Fresh' /\ Flight' /\ Counted' /\ Held' /\ Waiting'
      /\ SilenceStaysUncertain' /\ BypassOfThisSession'
  BY <1>2 DEF Fresh, Flight, Counted, Held, Waiting, SilenceStaysUncertain,
     BypassOfThisSession, LastDelivered
<1>q. QED BY <1>3, <1>4, <1>5 DEF GateInv

LEMMA OneFrame == \A n \in Indexes \ {0} :
                      << Frame(n) >> \in Seq(Frames)
BY DEF Frame, Frames

LEMMA SendStep == GateInv /\ Send => GateInv'
<1> SUFFICES ASSUME GateInv, Send PROVE GateInv'
  OBVIOUS
<1>1. /\ pc = "send" /\ inflight = 0 /\ seq \in 2 .. IndexMod - 1
      /\ last \in {0, seq - 1}
  BY DEF Send, GateInv, Flight, LastDelivered
<1>2. CASE (seq + 1) % IndexMod = 0
  <2>1. << Frame(seq) >> \in Seq(Frames)
    BY <1>1, OneFrame DEF Indexes
  <2>q. QED BY <1>2, <2>1, RecoverStep DEF Send
<1>3. CASE (seq + 1) % IndexMod # 0
  <2>1. /\ seq + 1 \in 2 .. IndexMod - 1 /\ seq' = seq + 1
    BY <1>1, <1>3 DEF Send
  <2>2. /\ inflight' = seq /\ pc' = "build" /\ verdict' = "unchecked"
        /\ UNCHANGED <<last, bypassed, bypassAck, silent, ackVars, carried, lost>>
    BY <1>3 DEF Send
  <2>3. LastDelivered = seq - 1 /\ LastDelivered' = seq - 1
    BY <1>1, <2>1, <2>2 DEF LastDelivered
  <2>4. AckTypeOK'
    BY <1>1, <2>1, <2>2 DEF GateInv, AckTypeOK, Indexes, ackVars
  <2>5. Flight'
    BY <1>1, <2>1, <2>2, <2>3 DEF Flight
  <2>6. Owing' /\ Answered' /\ Counted'
    BY <2>2, <2>3 DEF GateInv, Owing, Answered, Counted, ackVars
  <2>7. Fresh' /\ Held' /\ Waiting' /\ SilenceStaysUncertain' /\ BypassOfThisSession'
    BY <1>1, <2>2 DEF GateInv, Fresh, Held, Waiting, SilenceStaysUncertain, BypassOfThisSession,
                      ackVars
  <2>q. QED BY <2>4, <2>5, <2>6, <2>7 DEF GateInv
<1>q. QED BY <1>2, <1>3

(* The first ACK that the adapter owes, given or lost. *)
LEMMA TailOwing ==
    ASSUME GateInv, unacked # << >>, unacked' = Tail(unacked), UNCHANGED <<seq, inflight>>
    PROVE  /\ Owing' /\ unacked' \in Seq(Frames) /\ Head(unacked) \in Frames
           /\ ~Head(unacked).old => Head(unacked).index + Len(unacked') = LastDelivered
           /\ ~Head(unacked).old => \A i \in DOMAIN unacked' : ~unacked'[i].old
           /\ Len(unacked') \in Nat /\ Len(unacked) = Len(unacked') + 1
           /\ (\A i \in DOMAIN unacked : ~unacked[i].old)
                 => ~Head(unacked).old /\ \A i \in DOMAIN unacked' : ~unacked'[i].old
<1>1. /\ unacked \in Seq(Frames)
      /\ Len(unacked) \in Nat \ {0} /\ DOMAIN unacked = 1 .. Len(unacked)
      /\ Head(unacked) = unacked[1] /\ unacked[1] \in Frames
  <2>1. unacked \in Seq(Frames)
    BY DEF GateInv, AckTypeOK, Frames
  <2>q. QED BY <2>1
<1>2. /\ unacked' \in Seq(Frames)
      /\ Len(unacked') = Len(unacked) - 1 /\ DOMAIN unacked' = 1 .. Len(unacked')
      /\ \A i \in DOMAIN unacked' : unacked'[i] = unacked[i + 1] /\ i + 1 \in DOMAIN unacked
  BY <1>1
<1>3. LastDelivered' = LastDelivered /\ LastDelivered \in Int
  BY DEF LastDelivered, GateInv, Flight
<1>4. \A i \in DOMAIN unacked' : i \in Nat /\ i >= 1
  BY <1>1, <1>2
<1>5. ASSUME NEW i \in DOMAIN unacked', NEW j \in DOMAIN unacked', i <= j, unacked'[j].old
      PROVE  unacked'[i].old
  <2>1. i + 1 <= j + 1
    BY <1>4, <1>5
  <2>q. QED BY <1>2, <1>5, <2>1 DEF GateInv, Owing
<1>6. ASSUME NEW i \in DOMAIN unacked', ~unacked'[i].old
      PROVE  unacked'[i].index = LastDelivered' - (Len(unacked') - i)
  <2>1. unacked[i + 1].index = LastDelivered - (Len(unacked) - (i + 1))
    BY <1>2, <1>6 DEF GateInv, Owing
  <2>q. QED BY <1>1, <1>2, <1>3, <1>4, <2>1
<1>7. Owing'
  BY <1>5, <1>6 DEF Owing
<1>8. 1 \in DOMAIN unacked
  BY <1>1
<1>9. ASSUME ~Head(unacked).old PROVE \A i \in DOMAIN unacked' : ~unacked'[i].old
  <2> TAKE i \in DOMAIN unacked'
  <2>1. i + 1 \in DOMAIN unacked /\ 1 <= i + 1 /\ unacked'[i] = unacked[i + 1]
    BY <1>2, <1>4
  <2>q. QED BY <1>1, <1>8, <1>9, <2>1 DEF GateInv, Owing
<1>10. ASSUME ~Head(unacked).old PROVE Head(unacked).index + Len(unacked') = LastDelivered
  <2>1. unacked[1].index = LastDelivered - (Len(unacked) - 1)
    BY <1>1, <1>8, <1>10 DEF GateInv, Owing
  <2>q. QED BY <1>1, <1>2, <1>3, <2>1
<1>q. QED BY <1>1, <1>2, <1>7, <1>8, <1>9, <1>10

LEMMA AcknowledgeStep == GateInv /\ Acknowledge => GateInv'
<1> SUFFICES ASSUME GateInv, Acknowledge PROVE GateInv'
  OBVIOUS
<1>0. /\ seq \in 2 .. IndexMod - 1 /\ inflight \in Indexes /\ ack \in Indexes
      /\ bypassAck \in Indexes /\ owed \in Nat
      /\ UNCHANGED <<pc, inflight, seq, last, bypassed, bypassAck, verdict, carried, lost>>
  BY DEF GateInv, Flight, AckTypeOK, Counted, Acknowledge, gateVars
<1>1. /\ Owing' /\ unacked' \in Seq(Frames) /\ Head(unacked) \in Frames
      /\ ~Head(unacked).old => Head(unacked).index + Len(unacked') = LastDelivered
      /\ ~Head(unacked).old => \A i \in DOMAIN unacked' : ~unacked'[i].old
      /\ Len(unacked') \in Nat /\ Len(unacked) = Len(unacked') + 1
      /\ (\A i \in DOMAIN unacked : ~unacked[i].old) => ~Head(unacked).old
  BY <1>0, TailOwing DEF Acknowledge
<1>h. Head(unacked).index \in 1 .. IndexMod - 1 /\ Head(unacked).old \in BOOLEAN
  BY <1>1 DEF Frames, Indexes
<1>2. /\ LastDelivered' = LastDelivered /\ LastDelivered \in Int /\ LastDelivered < IndexMod
      /\ Flight'
  BY <1>0 DEF LastDelivered, GateInv, Flight
<1>3. /\ ack' = Head(unacked).index /\ seen' = TRUE /\ silent' = FALSE
      /\ ours' = ~Head(unacked).old /\ stale' = (stale \/ Head(unacked).old)
      /\ owed' = IF ours' THEN Len(unacked') ELSE owed
  BY DEF Acknowledge
<1>o. Head(unacked).old => owed' = owed
  BY <1>3, <1>h
<1>n. ~Head(unacked).old => owed' = Len(unacked')
  BY <1>3, <1>h
<1>4. Counted'
  <2>1. owed' \in Nat /\ owed' <= LastDelivered'
    BY <1>0, <1>1, <1>2, <1>h, <1>o, <1>n DEF GateInv, Counted
  <2>2. ours' => ack' + owed' = LastDelivered'
    BY <1>1, <1>2, <1>3, <1>n
  <2>3. seen' /\ ~ours' => stale'
    BY <1>3
  <2>q. QED BY <1>3, <2>1, <2>2, <2>3 DEF Counted
<1>5. ours' \in BOOLEAN /\ stale' \in BOOLEAN
  BY <1>1, <1>3, Zenon DEF GateInv, AckTypeOK
<1>6. AckTypeOK'
  <2>1. ack' \in Indexes /\ owed' \in 0 .. IndexMod
    BY <1>2, <1>3, <1>4, <1>h DEF Indexes, Counted
  <2>2. seen' \in BOOLEAN /\ silent' \in BOOLEAN
    BY <1>3
  <2>q. QED BY <1>0, <1>1, <1>5, <2>1, <2>2 DEF GateInv, AckTypeOK, Frames
<1>7. Held'
  <2> SUFFICES ASSUME bypassed, ~stale, ~Head(unacked).old
               PROVE  ours' /\ bypassAck <= ack' /\ ack' # bypassAck
    <3>1. bypassed' = bypassed /\ bypassAck' = bypassAck
      BY <1>0
    <3>2. ~stale' => ~stale /\ ~Head(unacked).old
      BY <1>3
    <3>q. QED BY <3>1, <3>2 DEF Held
  <2>1. ours /\ bypassAck <= ack /\ ack + owed = LastDelivered
    BY DEF GateInv, Held, Counted
  <2>2. Len(unacked') < owed
    BY <1>0, <1>1, <2>1 DEF GateInv, Answered
  <2>3. ack' + Len(unacked') = LastDelivered /\ ack' \in Nat /\ Len(unacked') \in Nat
    BY <1>1, <1>3, <1>h
  <2>4. ack \in Nat /\ bypassAck \in Nat
    BY <1>0 DEF Indexes
  <2>5. bypassAck < ack'
    BY <1>0, <1>2, <2>1, <2>2, <2>3, <2>4
  <2>6. ours'
    BY <1>3
  <2>q. QED BY <2>3, <2>4, <2>5, <2>6
<1>8. Answered'
  <2> SUFFICES ASSUME ~Head(unacked).old
               PROVE  Len(unacked') <= owed' /\ \A i \in DOMAIN unacked' : ~unacked'[i].old
    BY <1>3 DEF Answered
  <2>q. QED BY <1>1, <1>n
<1>9. Fresh' /\ Waiting' /\ SilenceStaysUncertain' /\ BypassOfThisSession'
  BY <1>0, <1>3 DEF GateInv, Fresh, Waiting, SilenceStaysUncertain, BypassOfThisSession
<1>q. QED BY <1>1, <1>2, <1>4, <1>6, <1>7, <1>8, <1>9 DEF GateInv

LEMMA LoseAckStep == GateInv /\ LoseAck => GateInv'
<1> SUFFICES ASSUME GateInv, LoseAck PROVE GateInv'
  OBVIOUS
<1>1. /\ unacked # << >> /\ unacked' = Tail(unacked) /\ lost' \in 0 .. MaxLost
      /\ UNCHANGED <<pc, inflight, silent, seq, last, bypassed, bypassAck, verdict, ack, seen,
                     owed, ours, stale, carried>>
  BY DEF LoseAck, gateVars, GateInv, AckTypeOK
<1>2. /\ Owing' /\ unacked' \in Seq(Frames)
      /\ Len(unacked') \in Nat /\ Len(unacked) = Len(unacked') + 1
      /\ (\A i \in DOMAIN unacked : ~unacked[i].old)
            => \A i \in DOMAIN unacked' : ~unacked'[i].old
  BY <1>1, TailOwing
<1>3. AckTypeOK'
  BY <1>1, <1>2 DEF GateInv, AckTypeOK, Frames, Indexes
<1>4. Answered'
  BY <1>1, <1>2 DEF GateInv, Answered, Counted
<1>5. Flight' /\ Counted'
  BY <1>1 DEF GateInv, Flight, Counted, LastDelivered
<1>6. Fresh' /\ Held' /\ Waiting' /\ SilenceStaysUncertain' /\ BypassOfThisSession'
  BY <1>1 DEF GateInv, Fresh, Held, Waiting, SilenceStaysUncertain, BypassOfThisSession
<1>q. QED BY <1>2, <1>3, <1>4, <1>5, <1>6 DEF GateInv

-----------------------------------------------------------------------------
LEMMA NextGateInv == GateInv /\ [AckNext]_ackGateVars => GateInv'
<1> SUFFICES ASSUME GateInv, [AckNext]_ackGateVars PROVE GateInv'
  OBVIOUS
<1>1. CASE WaitIdle
  <2>1. pc' \in {"build", "gate"}
    BY <1>1 DEF WaitIdle
  <2>q. QED BY <1>1, <2>1, DeliverStep DEF WaitIdle
<1>2. CASE WaitPrevious
  <2>1. CASE inflight # 0
    BY <1>2, <2>1, DeliverStep DEF WaitPrevious
  <2>2. CASE inflight = 0
    <3>1. /\ pc = "build" /\ pc' = "gate"
          /\ UNCHANGED <<unacked, owed, last, inflight, seq, bypassed, bypassAck, verdict,
                         silent, ack, seen, ours, stale, carried, lost>>
      BY <1>2, <2>2 DEF WaitPrevious
    <3>2. Owing' /\ Answered' /\ Counted' /\ Flight'
      BY <2>2, <3>1 DEF GateInv, Owing, Answered, Counted, Flight, LastDelivered
    <3>3. AckTypeOK'
      BY <3>1 DEF GateInv, AckTypeOK, Indexes
    <3>4. Fresh' /\ Held' /\ Waiting' /\ SilenceStaysUncertain' /\ BypassOfThisSession'
      BY <2>2, <3>1 DEF GateInv, Fresh, Held, Waiting, SilenceStaysUncertain, BypassOfThisSession
    <3>q. QED BY <3>2, <3>3, <3>4 DEF GateInv
  <2>q. QED BY <2>1, <2>2
<1>3. CASE Gate
  BY <1>3, GateStep
<1>4. CASE Send
  BY <1>4, SendStep
<1>5. CASE Recover
  <2>1. CASE inflight = 0
    <3>1. Recovered(<< >>)
      BY <1>5, <2>1 DEF Recover
    <3>2. << >> \in Seq(Frames)
      OBVIOUS
    <3>q. QED BY <3>1, <3>2, RecoverStep
  <2>2. CASE inflight # 0
    <3>1. Recovered(<< Frame(inflight) >>)
      BY <1>5, <2>2 DEF Recover
    <3>2. << Frame(inflight) >> \in Seq(Frames)
      BY <2>2, OneFrame DEF GateInv, AckTypeOK
    <3>q. QED BY <3>1, <3>2, RecoverStep
  <2>q. QED BY <2>1, <2>2
<1>6. CASE Acknowledge
  BY <1>6, AcknowledgeStep
<1>7. CASE LoseAck
  BY <1>7, LoseAckStep
<1>8. CASE UNCHANGED ackGateVars
  BY <1>8 DEF ackGateVars, gateVars, ackVars, GateInv, AckTypeOK, Fresh, Flight, Owing, Answered,
              Counted, Held, Waiting, SilenceStaysUncertain, BypassOfThisSession, LastDelivered
<1>q. QED BY <1>1, <1>2, <1>3, <1>4, <1>5, <1>6, <1>7, <1>8 DEF AckNext

LEMMA AlwaysGateInv == AckSpec => []GateInv
<1>1. AckInit => GateInv
  BY InitGateInv
<1>2. GateInv /\ [AckNext]_ackGateVars => GateInv'
  BY NextGateInv
<1>q. QED BY <1>1, <1>2, PTL DEF AckSpec

(* What the gate remembers is about this session and in its range, whatever
   the range of the indexes (usb.c, rx_publish; main.c:951-955, 1267-1296). *)
THEOREM AckGateRemembers == AckSpec => []GateRemembers
<1>1. GateInv => GateRemembers
  BY DEF GateInv, GateRemembers
<1>q. QED BY <1>1, AlwaysGateInv, PTL

(* With an ACK of this session and a last frame, the unsigned difference of
   the code is the number of frames that are open. *)
LEMMA LagIsOwed ==
    ASSUME GateInv, ours, last # 0
    PROVE  (last - ack) % IndexMod = owed /\ owed < IndexMod /\ last - ack = owed
<1>1. /\ seq \in 2 .. IndexMod - 1 /\ last = LastDelivered /\ ack + owed = LastDelivered
      /\ ack \in Indexes /\ owed \in Nat
  BY DEF GateInv, Flight, Counted, AckTypeOK
<1>2. LastDelivered \in 0 .. IndexMod - 1
  BY <1>1 DEF LastDelivered
<1>3. last - ack = owed /\ owed \in 0 .. IndexMod - 1
  BY <1>1, <1>2 DEF Indexes
<1>q. QED BY <1>3

(* A check of the gate that comes to a new verdict comes to it in the action
   of the gate. *)
LEMMA VerdictOfTheGate ==
    ASSUME GateInv, AckNext, pc = "gate", verdict' \in {"certain", "uncertain"}
    PROVE  Gate
<1>1. verdict = "unchecked"
  BY DEF GateInv, Fresh
<1>2. ~WaitIdle /\ ~WaitPrevious /\ ~Send
  BY DEF WaitIdle, WaitPrevious, Send
<1>3. Recover => verdict' = "unchecked"
  BY DEF Recover, Recovered
<1>4. Acknowledge \/ LoseAck => verdict' = verdict
  BY DEF Acknowledge, LoseAck, gateVars
<1>q. QED BY <1>1, <1>2, <1>3, <1>4 DEF AckNext

(* The gate lets a frame through as certain only when the adapter is within
   the window, for every window and range of indexes (usb.c:343-356). *)
THEOREM AckGateIsSound == AckSpec => GateIsSound
<1>1. ASSUME GateInv, AckNext, verdict' = "certain", pc = "gate", Window > 0
      PROVE  owed <= Window
  <2>1. last # 0 /\ WithinWindow /\ seen /\ ours
    BY <1>1, VerdictOfTheGate DEF Gate, Uncertain
  <2>2. (last - ack) % IndexMod = owed /\ last - ack = owed
    BY <1>1, <2>1, LagIsOwed
  <2>3. ~PreWrapStale
    <3>1. owed \in Nat /\ last \in Nat /\ ack \in Nat
      BY <1>1 DEF GateInv, Counted, AckTypeOK, Indexes
    <3>2. last >= ack
      BY <2>2, <3>1
    <3>q. QED BY <3>1, <3>2 DEF PreWrapStale
  <2>q. QED BY <1>1, <2>1, <2>2, <2>3 DEF WithinWindow
<1>2. GateInv /\ [AckNext]_ackGateVars =>
        [verdict' = "certain" /\ pc = "gate" /\ Window > 0 => owed <= Window]_ackGateVars
  BY <1>1
<1>q. QED BY <1>2, AlwaysGateInv, PTL DEF AckSpec, GateIsSound

(* And it refuses one for nothing in no session that is not misled by a
   former one (usb.c:348-356, main.c:1275-1296). *)
THEOREM AckGateNoFalseAlarm == AckSpec => NoFalseAlarm
<1>1. ASSUME GateInv, AckNext, verdict' = "uncertain", pc = "gate", ours, ~stale
      PROVE  owed > Window
  <2>1. last # 0 /\ (~WithinWindow \/ (bypassed /\ ~(seen /\ ack # bypassAck)))
    <3>1. Gate
      BY <1>1, VerdictOfTheGate
    <3>2. verdict' # "unchecked" /\ verdict' # (IF seen /\ ours THEN "certain" ELSE "unfounded")
      BY <1>1
    <3>q. QED BY <3>1, <3>2 DEF Gate
  <2>2. CASE ~WithinWindow
    <3>1. (last - ack) % IndexMod = owed /\ owed \in Nat
      BY <1>1, <2>1, LagIsOwed DEF GateInv, Counted
    <3>q. QED BY <2>2, <3>1 DEF WithinWindow
  <2>3. CASE bypassed /\ ~(seen /\ ack # bypassAck)
    BY <1>1, <2>3 DEF GateInv, Held, Counted
  <2>q. QED BY <2>1, <2>2, <2>3
<1>2. GateInv /\ [AckNext]_ackGateVars =>
        [verdict' = "uncertain" /\ pc = "gate" /\ ours /\ ~stale => owed > Window]_ackGateVars
  BY <1>1
<1>q. QED BY <1>2, AlwaysGateInv, PTL DEF AckSpec, NoFalseAlarm

-----------------------------------------------------------------------------
(* The log. *)
(* Beside the stated properties the induction needs what the thread holds: a
   message after the last one written and before those still in the ring, and
   when it has left, that the log was stopped with nothing in the ring. *)
HandInv ==
    /\ lastOut <= wrote + told
    /\ th.at = "exited" => /\ count = 0 /\ dropped = 0 /\ stop_requested
                           /\ alive = {}
    /\ stop_requested => ctl \in {"stopping", "stopped"}
    /\ ctl \in {"stopping", "stopped"} => alive = {}
    /\ ctl = "stopped" => th.at = "exited"
    /\ running => ctl \in {"running", "stopping"}
    /\ ctl \in {"off", "created"} => count = 0 /\ dropped = 0
    /\ ctl = "off" => th.at = "none"

LogInv == /\ LogTypeOK /\ HoldsTheNewest /\ EveryMessageCounted
          /\ TellsBeforeItSkips /\ HandInv

LEMMA WrapOnce ==
    ASSUME NEW n \in Nat, n < 2 * Cap
    PROVE  /\ Wrap(n) \in Slot
           /\ Wrap(n) = IF n < Cap THEN n ELSE n - Cap
BY LogAssumption DEF Slot, Wrap

(* What follows from the type invariant about the numbers. *)
LEMMA LogNumbers ==
    ASSUME LogTypeOK
    PROVE  /\ Cap \in Nat /\ Cap > 0
           /\ head \in Nat /\ head < Cap /\ tail \in Nat /\ tail < Cap
           /\ count \in Nat /\ count <= Cap /\ dropped \in Nat
           /\ logged \in Nat /\ wrote \in Nat /\ told \in Nat /\ lastOut \in Nat
           /\ th.at \in Places /\ th.msg \in Nat /\ th.note \in Nat
           /\ InHand \in Nat
BY LogAssumption DEF LogTypeOK, Slot, InHand, Places

(* Two offsets below the capacity are two slots. *)
LEMMA WrapInjective ==
    ASSUME NEW t \in Slot, NEW i \in Slot, NEW j \in Slot, i # j
    PROVE  Wrap(t + i) # Wrap(t + j)
<1>1. /\ t + i \in Nat /\ t + i < 2 * Cap /\ t + j \in Nat /\ t + j < 2 * Cap
      /\ Cap \in Nat /\ t \in Nat /\ i \in Nat /\ j \in Nat
      /\ i < Cap /\ j < Cap /\ t < Cap
  BY LogAssumption DEF Slot
<1>2. /\ Wrap(t + i) = IF t + i < Cap THEN t + i ELSE t + i - Cap
      /\ Wrap(t + j) = IF t + j < Cap THEN t + j ELSE t + j - Cap
  BY <1>1, WrapOnce
<1>q. QED BY <1>1, <1>2

(* Stepping the tail is stepping every offset. *)
LEMMA WrapShift ==
    ASSUME NEW t \in Slot, NEW i \in Nat, i < Cap
    PROVE  /\ Wrap(t + 1) \in Slot
           /\ Wrap(Wrap(t + 1) + i) = Wrap(t + (i + 1))
<1>0. Cap \in Nat /\ Cap > 0 /\ t \in Nat /\ t < Cap
  BY LogAssumption DEF Slot
<1>1. /\ Wrap(t + 1) \in Slot
      /\ Wrap(t + 1) = IF t + 1 < Cap THEN t + 1 ELSE t + 1 - Cap
  BY <1>0, WrapOnce
<1>2. CASE t + 1 < Cap
  BY <1>0, <1>1, <1>2
<1>3. CASE ~(t + 1 < Cap)
  <2>1. t + 1 = Cap /\ Wrap(t + 1) = 0
    BY <1>0, <1>1, <1>3
  <2>2. Wrap(i) = i
    BY <1>0, WrapOnce
  <2>3. /\ t + (i + 1) \in Nat /\ t + (i + 1) < 2 * Cap /\ t + (i + 1) >= Cap
        /\ t + (i + 1) - Cap = i
    BY <1>0, <2>1
  <2>4. Wrap(t + (i + 1)) = i
    BY <1>0, <2>3, WrapOnce
  <2>q. QED BY <1>0, <1>1, <2>1, <2>2, <2>4
<1>q. QED BY <1>2, <1>3

(* A message goes into a ring that has room: it is one longer. *)
LEMMA PutWithRoom ==
    ASSUME LogTypeOK, HoldsTheNewest, count # Cap, Put, logged' = logged + 1,
           count' = count + 1, tail' = tail
    PROVE  HoldsTheNewest' /\ head' \in Slot
<1>0. /\ Cap \in Nat /\ Cap > 0 /\ tail \in Nat /\ tail < Cap
      /\ count \in Nat /\ count < Cap /\ head \in Slot /\ logged \in Nat
      /\ slots \in [Slot -> Nat] /\ tail \in Slot /\ count \in Slot
  BY LogNumbers DEF LogTypeOK, Slot
<1>1. head = Wrap(tail + count)
  BY DEF HoldsTheNewest
<1>2. head' = Wrap(tail + (count + 1)) /\ head' \in Slot
  <2>1. /\ tail + count \in Nat /\ tail + count < 2 * Cap
        /\ tail + (count + 1) \in Nat /\ tail + (count + 1) < 2 * Cap
        /\ head \in Nat /\ head < Cap
    BY <1>0 DEF Slot
  <2>2. /\ head = IF tail + count < Cap THEN tail + count ELSE tail + count - Cap
        /\ Wrap(tail + (count + 1)) = IF tail + (count + 1) < Cap
              THEN tail + (count + 1) ELSE tail + (count + 1) - Cap
    BY <1>0, <1>1, <2>1, WrapOnce
  <2>3. /\ head' = IF head + 1 < Cap THEN head + 1 ELSE head + 1 - Cap
        /\ head' \in Slot
    BY <1>0, <2>1, WrapOnce DEF Put
  <2>q. QED BY <1>0, <2>1, <2>2, <2>3
<1>3. ASSUME NEW i \in 0 .. count' - 1
      PROVE  slots'[Wrap(tail' + i)] = logged' - count' + i + 1
  <2>0. i \in Nat /\ i <= count /\ i \in Slot
    BY <1>0 DEF Slot
  <2>1. slots' = [slots EXCEPT ![head] = logged + 1]
    BY DEF Put
  <2>2. CASE i = count
    BY <1>0, <1>1, <2>1, <2>2
  <2>3. CASE i # count
    <3>1. i \in 0 .. count - 1
      BY <1>0, <2>0, <2>3
    <3>2. Wrap(tail + i) # head
      BY <1>0, <1>1, <2>0, <2>3, WrapInjective
    <3>3. slots[Wrap(tail + i)] = logged - count + i + 1
      BY <3>1 DEF HoldsTheNewest
    <3>4. Wrap(tail + i) \in Slot
      BY <1>0, <2>0, WrapOnce
    <3>q. QED BY <1>0, <2>0, <2>1, <3>2, <3>3, <3>4
  <2>q. QED BY <2>2, <2>3
<1>q. QED BY <1>0, <1>2, <1>3 DEF HoldsTheNewest

(* The tail moves on: what is left is still the newest. *)
LEMMA TailMoves ==
    ASSUME LogTypeOK, HoldsTheNewest, count # 0
    PROVE  /\ head = Wrap(Wrap(tail + 1) + (count - 1))
           /\ \A i \in 0 .. count - 2 :
                 slots[Wrap(Wrap(tail + 1) + i)] = logged - (count - 1) + i + 1
<1>0. /\ Cap \in Nat /\ Cap > 0 /\ tail \in Slot
      /\ count \in Nat /\ count <= Cap /\ logged \in Nat
  BY LogNumbers DEF LogTypeOK
<1>1. head = Wrap(Wrap(tail + 1) + (count - 1))
  <2>1. count - 1 \in Nat /\ count - 1 < Cap /\ (count - 1) + 1 = count
    BY <1>0
  <2>2. Wrap(Wrap(tail + 1) + (count - 1)) = Wrap(tail + ((count - 1) + 1))
    BY <1>0, <2>1, WrapShift
  <2>q. QED BY <2>1, <2>2 DEF HoldsTheNewest
<1>2. ASSUME NEW i \in 0 .. count - 2
      PROVE  slots[Wrap(Wrap(tail + 1) + i)] = logged - (count - 1) + i + 1
  <2>1. i \in Nat /\ i < Cap /\ i + 1 \in 0 .. count - 1
    BY <1>0
  <2>2. Wrap(Wrap(tail + 1) + i) = Wrap(tail + (i + 1))
    BY <1>0, <2>1, WrapShift
  <2>3. slots[Wrap(tail + (i + 1))] = logged - count + (i + 1) + 1
    BY <2>1 DEF HoldsTheNewest
  <2>q. QED BY <1>0, <2>1, <2>2, <2>3
<1>q. QED BY <1>1, <1>2

(* A full ring gives up its oldest message for the new one. *)
LEMMA PutWhenFull ==
    ASSUME LogTypeOK, HoldsTheNewest, count = Cap, Put, logged' = logged + 1,
           count' = count, tail' = Wrap(tail + 1)
    PROVE  HoldsTheNewest' /\ head' \in Slot /\ tail' \in Slot
<1>0. /\ Cap \in Nat /\ Cap > 0 /\ tail \in Slot /\ tail \in Nat /\ tail < Cap
      /\ count \in Nat /\ count # 0 /\ logged \in Nat
      /\ slots \in [Slot -> Nat]
  BY LogNumbers DEF LogTypeOK
<1>1. head = tail
  <2>1. tail + Cap \in Nat /\ tail + Cap < 2 * Cap /\ ~(tail + Cap < Cap)
    BY <1>0
  <2>2. Wrap(tail + Cap) = tail + Cap - Cap
    BY <1>0, <2>1, WrapOnce
  <2>q. QED BY <1>0, <2>2 DEF HoldsTheNewest
<1>2. tail' \in Slot /\ head' = tail'
  BY <1>0, <1>1, WrapShift DEF Put
<1>3. head' = Wrap(tail' + count')
  <2>1. tail' \in Nat /\ tail' < Cap
    BY <1>0, <1>2 DEF Slot
  <2>2. tail' + Cap \in Nat /\ tail' + Cap < 2 * Cap /\ ~(tail' + Cap < Cap)
    BY <1>0, <2>1
  <2>3. Wrap(tail' + Cap) = tail' + Cap - Cap
    BY <1>0, <2>2, WrapOnce
  <2>q. QED BY <1>0, <1>2, <2>1, <2>3
<1>4. slots' = [slots EXCEPT ![tail] = logged + 1]
  BY <1>1 DEF Put
<1>5. ASSUME NEW i \in 0 .. count' - 1
      PROVE  slots'[Wrap(tail' + i)] = logged' - count' + i + 1
  <2>0. i \in Nat /\ i < Cap
    BY <1>0
  <2>1. Wrap(tail' + i) = Wrap(tail + (i + 1))
    BY <1>0, <2>0, WrapShift
  <2>2. CASE i = Cap - 1
    <3>1. Wrap(tail + (i + 1)) = tail
      <4>1. /\ tail + (i + 1) \in Nat /\ tail + (i + 1) < 2 * Cap
            /\ ~(tail + (i + 1) < Cap) /\ tail + (i + 1) - Cap = tail
        BY <1>0, <2>2
      <4>q. QED BY <1>0, <4>1, WrapOnce
    <3>q. QED BY <1>0, <1>4, <2>1, <2>2, <3>1
  <2>3. CASE i # Cap - 1
    <3>1. i + 1 \in Slot /\ 0 \in Slot /\ i \in 0 .. count - 2 /\ i + 1 # 0
      BY <1>0, <2>0, <2>3 DEF Slot
    <3>2. Wrap(tail + 0) = tail
      BY <1>0, WrapOnce
    <3>3. Wrap(tail + (i + 1)) # tail
      BY <1>0, <3>1, <3>2, WrapInjective
    <3>4. slots[Wrap(tail + (i + 1))] = logged - (count - 1) + i + 1
      <4>1. slots[Wrap(Wrap(tail + 1) + i)] = logged - (count - 1) + i + 1
        BY <1>0, <3>1, TailMoves
      <4>q. QED BY <1>0, <2>0, <4>1, WrapShift
    <3>5. Wrap(tail + (i + 1)) \in Slot
      BY <1>0, <3>1, WrapOnce DEF Slot
    <3>q. QED BY <1>0, <1>4, <2>0, <2>1, <3>3, <3>4, <3>5
  <2>q. QED BY <2>2, <2>3
<1>q. QED BY <1>2, <1>3, <1>5 DEF HoldsTheNewest

-----------------------------------------------------------------------------
LEMMA LogInvInit == LogInit => LogInv
<1> SUFFICES ASSUME LogInit PROVE LogInv
  OBVIOUS
<1>1. Cap \in Nat /\ Cap > 0 /\ 0 \in Slot /\ Wrap(0) = 0
  BY LogAssumption, WrapOnce DEF Slot
<1>2. LogTypeOK
  <2>1. th = [at |-> "none", msg |-> 0, note |-> 0] /\ slots \in [Slot -> Nat]
    BY DEF LogInit, At, Has
  <2>2. th \in [at : Places, msg : Nat, note : Nat]
    BY <2>1 DEF Places
  <2>3. count \in 0 .. Cap /\ head \in Slot /\ tail \in Slot
    BY <1>1 DEF LogInit
  <2>4. running \in BOOLEAN /\ stop_requested \in BOOLEAN
    BY Zenon DEF LogInit
  <2>5. /\ ctl \in {"off", "created", "running", "stopping", "stopped"}
        /\ alive \subseteq Loggers
        /\ dropped \in Nat /\ logged \in Nat /\ wrote \in Nat /\ told \in Nat
        /\ lastOut \in Nat
    BY DEF LogInit
  <2>q. QED BY <2>1, <2>2, <2>3, <2>4, <2>5 DEF LogTypeOK
<1>3. HoldsTheNewest
  BY <1>1 DEF LogInit, HoldsTheNewest
<1>4. EveryMessageCounted /\ TellsBeforeItSkips /\ HandInv
  BY DEF LogInit, EveryMessageCounted, TellsBeforeItSkips, HandInv, InHand, At, Has
<1>q. QED BY <1>2, <1>3, <1>4 DEF LogInv

LEMMA LogStep == LogInv /\ Log => LogInv'
<1> SUFFICES ASSUME LogInv, Log PROVE LogInv'
  OBVIOUS
<1>0. /\ LogTypeOK /\ HoldsTheNewest /\ EveryMessageCounted /\ TellsBeforeItSkips
      /\ HandInv /\ Queued /\ Signal /\ alive # {}
  BY DEF LogInv, Log
<1>n. /\ Cap \in Nat /\ Cap > 0 /\ count \in Nat /\ count <= Cap
      /\ dropped \in Nat /\ logged \in Nat /\ wrote \in Nat /\ told \in Nat
      /\ lastOut \in Nat /\ th.at \in Places /\ InHand \in Nat /\ head \in Slot
  BY <1>0, LogNumbers DEF LogTypeOK
<1>1. /\ logged' = logged + 1 /\ Put /\ MakeRoom /\ running
      /\ UNCHANGED <<flags, ends, tally>>
  BY <1>0 DEF Queued
<1>2. /\ HoldsTheNewest' /\ head' \in Slot /\ tail' \in Slot
      /\ count' \in 0 .. Cap /\ dropped' \in Nat
      /\ \/ count' = count /\ dropped' = dropped + 1
         \/ count' = count + 1 /\ dropped' = dropped
  <2>1. CASE count = Cap
    BY <1>0, <1>1, <1>n, <2>1, PutWhenFull DEF MakeRoom
  <2>2. CASE count # Cap
    <3>1. tail' = tail /\ tail \in Slot
      BY <1>0, <1>1, <2>2 DEF MakeRoom, LogTypeOK
    <3>2. HoldsTheNewest' /\ head' \in Slot
      BY <1>0, <1>1, <2>2, <3>1, PutWithRoom DEF MakeRoom
    <3>q. QED BY <1>1, <1>n, <2>2, <3>1, <3>2 DEF MakeRoom
  <2>q. QED BY <2>1, <2>2
<1>3. /\ th' \in [at : Places, msg : Nat, note : Nat]
      /\ InHand' = InHand
      /\ th'.at = "write" <=> th.at = "write"
      /\ th.at = "write" => th'.msg = th.msg
      /\ th'.at \in {"exited", "none"} <=> th.at \in {"exited", "none"}
      /\ th'.at = "exited" <=> th.at = "exited"
      /\ th'.at = "none" <=> th.at = "none"
  <2>1. th' = IF th.at = "asleep" THEN [at |-> "check", msg |-> 0, note |-> 0] ELSE th
    BY <1>0 DEF Signal, At, Has
  <2>2. th \in [at : Places, msg : Nat, note : Nat]
    BY <1>0 DEF LogTypeOK
  <2>q. QED BY <2>1, <2>2 DEF InHand, Places
<1>4. LogTypeOK'
  <2>1. slots' \in [Slot -> Nat]
    BY <1>0, <1>1, <1>n DEF Put, LogTypeOK
  <2>q. QED
    BY <1>0, <1>1, <1>2, <1>3, <1>n, <2>1 DEF LogTypeOK, flags, ends, tally
<1>5. EveryMessageCounted'
  <2>1. /\ wrote' = wrote /\ told' = told /\ logged' = logged + 1
    BY <1>1 DEF tally
  <2>2. InHand' = InHand
    BY <1>3
  <2>3. logged = wrote + told + count + dropped + InHand
    BY <1>0 DEF EveryMessageCounted
  <2>4. CASE count' = count /\ dropped' = dropped + 1
    <3>1. logged + 1 = wrote + told + count + (dropped + 1) + InHand
      BY <1>n, <2>3
    <3>q. QED BY <2>1, <2>4, <2>2, <3>1 DEF EveryMessageCounted
  <2>5. CASE count' = count + 1 /\ dropped' = dropped
    <3>1. logged + 1 = wrote + told + (count + 1) + dropped + InHand
      BY <1>n, <2>3
    <3>q. QED BY <2>1, <2>5, <2>2, <3>1 DEF EveryMessageCounted
  <2>q. QED BY <1>2, <2>4, <2>5
<1>6. TellsBeforeItSkips'
  BY <1>0, <1>1, <1>3 DEF TellsBeforeItSkips, tally
<1>7. HandInv'
  BY <1>0, <1>1, <1>3 DEF HandInv, flags, ends, tally
<1>q. QED BY <1>2, <1>4, <1>5, <1>6, <1>7 DEF LogInv

(* Log and the tail of the ring apart, no step touches the ring. *)
LEMMA RingKept ==
    ASSUME HoldsTheNewest, UNCHANGED <<slots, head, tail, count, logged>>
    PROVE  HoldsTheNewest'
BY DEF HoldsTheNewest

LEMMA TakeStep == LogInv /\ Take => LogInv'
<1> SUFFICES ASSUME LogInv, Take PROVE LogInv'
  OBVIOUS
<1>0. /\ LogTypeOK /\ HoldsTheNewest /\ EveryMessageCounted /\ HandInv
      /\ th.at = "check" /\ dropped = 0 /\ count # 0
      /\ tail' = Wrap(tail + 1) /\ count' = count - 1
      /\ th' = Has("write", slots[tail], 0)
      /\ UNCHANGED <<slots, head, dropped, flags, ends, logged, tally>>
  BY DEF LogInv, Take, TakeOldest
<1>n. /\ Cap \in Nat /\ Cap > 0 /\ count \in Nat /\ count <= Cap
      /\ logged \in Nat /\ wrote \in Nat /\ told \in Nat /\ tail \in Slot
      /\ slots \in [Slot -> Nat]
  BY <1>0, LogNumbers DEF LogTypeOK
<1>1. HoldsTheNewest'
  <2>1. (count - 1) - 1 = count - 2
    BY <1>n
  <2>q. QED BY <1>0, <2>1, TailMoves DEF HoldsTheNewest
<1>2. slots[tail] = logged - count + 1
  <2>1. 0 \in 0 .. count - 1 /\ tail \in Nat /\ tail < Cap /\ tail + 0 = tail
    BY <1>0, <1>n DEF Slot
  <2>2. Wrap(tail) = tail
    BY <1>n, <2>1, WrapOnce
  <2>3. slots[Wrap(tail + 0)] = logged - count + 0 + 1
    BY <1>0, <2>1 DEF HoldsTheNewest
  <2>q. QED BY <1>n, <2>1, <2>2, <2>3
<1>3. th' = [at |-> "write", msg |-> slots[tail], note |-> 0]
  BY <1>0 DEF At, Has
<1>4. logged = wrote + told + count
  BY <1>0, <1>n DEF EveryMessageCounted, InHand
<1>5. LogTypeOK'
  <2>1. Wrap(tail + 1) \in Slot
    BY <1>n, WrapShift
  <2>2. slots[tail] \in Nat /\ count - 1 \in 0 .. Cap
    BY <1>0, <1>n
  <2>q. QED BY <1>0, <1>3, <2>1, <2>2 DEF LogTypeOK, flags, ends, tally, Places
<1>6. EveryMessageCounted'
  <2>1. InHand' = 1
    BY <1>3 DEF InHand
  <2>q. QED BY <1>0, <1>n, <1>4, <2>1 DEF EveryMessageCounted, tally
<1>7. TellsBeforeItSkips'
  BY <1>0, <1>n, <1>2, <1>3, <1>4 DEF TellsBeforeItSkips, tally
<1>8. HandInv'
  <2>1. ctl \notin {"off", "created"}
    BY <1>0 DEF HandInv
  <2>q. QED BY <1>0, <1>3, <2>1 DEF HandInv, flags, ends, tally
<1>q. QED BY <1>1, <1>5, <1>6, <1>7, <1>8 DEF LogInv

(* The other steps of the log thread. *)
LEMMA ThreadStep == LogInv /\ (Sleep \/ Exit \/ TakeNote \/ WriteNote \/ Write) => LogInv'
<1> SUFFICES ASSUME LogInv, Sleep \/ Exit \/ TakeNote \/ WriteNote \/ Write PROVE LogInv'
  OBVIOUS
<1>0. LogTypeOK /\ HoldsTheNewest /\ EveryMessageCounted /\ TellsBeforeItSkips /\ HandInv
  BY DEF LogInv
<1>n. /\ count \in Nat /\ dropped \in Nat /\ logged \in Nat /\ wrote \in Nat
      /\ told \in Nat /\ lastOut \in Nat /\ th.note \in Nat /\ th.msg \in Nat
  BY <1>0, LogNumbers
<1>1. HoldsTheNewest'
  BY <1>0, RingKept DEF Sleep, Exit, TakeNote, WriteNote, Write, ring
<1>2. CASE Sleep
  BY <1>0, <1>1, <1>2, <1>n DEF Sleep, LogInv, LogTypeOK, EveryMessageCounted, InHand,
     TellsBeforeItSkips, HandInv, At, Has, Places, ring, flags, ends, tally
<1>3. CASE Exit
  BY <1>0, <1>1, <1>3, <1>n DEF Exit, Empty, LogInv, LogTypeOK, EveryMessageCounted,
     InHand, TellsBeforeItSkips, HandInv, At, Has, Places, ring, flags, ends, tally
<1>4. CASE TakeNote
  <2>1. th' = [at |-> "note", msg |-> 0, note |-> dropped] /\ dropped' = 0
    BY <1>4 DEF TakeNote, At, Has
  <2>2. ctl # "off" /\ ctl # "created"
    BY <1>0, <1>4 DEF TakeNote, HandInv
  <2>q. QED BY <1>0, <1>1, <1>4, <1>n, <2>1, <2>2 DEF TakeNote, LogInv, LogTypeOK,
     EveryMessageCounted, InHand, TellsBeforeItSkips, HandInv, Places, flags,
     ends, tally
<1>5. CASE WriteNote
  <2>1. /\ th' = [at |-> "check", msg |-> 0, note |-> 0] /\ told' = told + th.note
        /\ InHand' = 0 /\ InHand = th.note
    BY <1>5 DEF WriteNote, At, Has, InHand
  <2>q. QED BY <1>0, <1>1, <1>5, <1>n, <2>1 DEF WriteNote, LogInv, LogTypeOK,
     EveryMessageCounted, TellsBeforeItSkips, HandInv, Places, ring, flags, ends
<1>6. CASE Write
  <2>1. /\ th' = [at |-> "check", msg |-> 0, note |-> 0]
        /\ wrote' = wrote + 1 /\ lastOut' = wrote + told + 1
        /\ InHand' = 0 /\ InHand = 1
    BY <1>0, <1>6 DEF Write, At, Has, InHand, TellsBeforeItSkips
  <2>q. QED BY <1>0, <1>1, <1>6, <1>n, <2>1 DEF Write, LogInv, LogTypeOK,
     EveryMessageCounted, TellsBeforeItSkips, HandInv, Places, ring, flags, ends
<1>q. QED BY <1>2, <1>3, <1>4, <1>5, <1>6

LEMMA ControlStep == LogInv /\ (LogDirect \/ Control) => LogInv'
<1> SUFFICES ASSUME LogInv, LogDirect \/ Control PROVE LogInv'
  OBVIOUS
<1>0. LogTypeOK /\ HoldsTheNewest /\ EveryMessageCounted /\ TellsBeforeItSkips /\ HandInv
  BY DEF LogInv
<1>n. /\ count \in Nat /\ dropped \in Nat /\ logged \in Nat /\ wrote \in Nat
      /\ told \in Nat /\ lastOut \in Nat /\ InHand \in Nat
      /\ Cap \in Nat /\ Cap > 0 /\ 0 \in Slot /\ Wrap(0) = 0
  <2>1. 0 \in Slot /\ Wrap(0) = 0
    BY LogAssumption, WrapOnce DEF Slot
  <2>q. QED BY <1>0, <2>1, LogNumbers
<1>1. CASE LogDirect
  <2>1. count = 0 /\ dropped = 0 /\ InHand = 0 /\ th.at # "write"
    BY <1>0, <1>1 DEF LogDirect, HandInv, InHand
  <2>2. HoldsTheNewest'
    BY <1>0, <1>1, <2>1 DEF LogDirect, HoldsTheNewest, ring
  <2>3. lastOut' <= wrote' + told'
    BY <1>0, <1>1, <1>n, <2>1 DEF LogDirect, EveryMessageCounted
  <2>q. QED BY <1>0, <1>1, <1>n, <2>1, <2>2, <2>3 DEF LogDirect, LogInv, LogTypeOK,
     EveryMessageCounted, InHand, TellsBeforeItSkips, HandInv, ring, flags, ends
<1>2. CASE Start
  <2>1. /\ count = 0 /\ dropped = 0 /\ InHand = 0 /\ InHand' = 0
        /\ th' = [at |-> "check", msg |-> 0, note |-> 0]
    BY <1>0, <1>2 DEF Start, HandInv, InHand, At, Has
  <2>2. HoldsTheNewest'
    BY <1>n, <1>2 DEF Start, HoldsTheNewest
  <2>3. LogTypeOK'
    <3>1. count' \in 0 .. Cap /\ head' \in Slot /\ tail' \in Slot
      BY <1>2, <1>n DEF Start
    <3>2. th' \in [at : Places, msg : Nat, note : Nat]
      BY <2>1 DEF Places
    <3>3. stop_requested' \in BOOLEAN /\ running' \in BOOLEAN
      BY <1>0, <1>2, Zenon DEF Start, LogTypeOK
    <3>q. QED BY <1>0, <1>2, <3>1, <3>2, <3>3 DEF Start, LogTypeOK, tally
  <2>4. EveryMessageCounted'
    <3>1. logged = wrote + told
      BY <1>0, <1>n, <2>1 DEF EveryMessageCounted
    <3>q. QED BY <1>n, <1>2, <2>1, <3>1 DEF Start, EveryMessageCounted, tally
  <2>5. TellsBeforeItSkips'
    BY <2>1 DEF TellsBeforeItSkips
  <2>6. HandInv'
    BY <1>0, <1>2, <2>1 DEF Start, HandInv, tally
  <2>q. QED BY <2>2, <2>3, <2>4, <2>5, <2>6 DEF LogInv
<1>3. ASSUME Control, ~Start PROVE LogInv'
  <2>1. HoldsTheNewest'
    BY <1>0, <1>3, RingKept DEF Control, Running, ThreadEnds, Stop, Joined, ring
  <2>2. UNCHANGED <<ring, logged, tally>>
    BY <1>3 DEF Control, Running, ThreadEnds, Stop, Joined
  <2>3. CASE Running
    BY <1>0, <2>1, <2>2, <2>3 DEF Running, LogInv, LogTypeOK, EveryMessageCounted,
       InHand, TellsBeforeItSkips, HandInv, ring, tally
  <2>4. ASSUME NEW p \in Loggers, ThreadEnds(p) PROVE LogInv'
    BY <1>0, <2>1, <2>2, <2>4 DEF ThreadEnds, LogInv, LogTypeOK, EveryMessageCounted,
       InHand, TellsBeforeItSkips, HandInv, ring, tally, flags
  <2>5. CASE Stop
    <3>1. /\ th' \in [at : Places, msg : Nat, note : Nat]
          /\ InHand' = InHand /\ (th.at = "write" => th'.msg = th.msg)
          /\ th'.at = "write" <=> th.at = "write"
          /\ th'.at = "exited" <=> th.at = "exited"
      <4>1. th' = IF th.at = "asleep" THEN [at |-> "check", msg |-> 0, note |-> 0] ELSE th
        BY <2>5 DEF Stop, Signal, At, Has
      <4>2. th \in [at : Places, msg : Nat, note : Nat]
        BY <1>0 DEF LogTypeOK
      <4>q. QED BY <4>1, <4>2 DEF InHand, Places
    <3>q. QED BY <1>0, <2>1, <2>2, <2>5, <3>1 DEF Stop, LogInv, LogTypeOK,
       EveryMessageCounted, TellsBeforeItSkips, HandInv, ring, tally
  <2>6. CASE Joined
    BY <1>0, <2>1, <2>2, <2>6 DEF Joined, LogInv, LogTypeOK, EveryMessageCounted,
       InHand, TellsBeforeItSkips, HandInv, ring, tally
  <2>q. QED BY <1>3, <2>3, <2>4, <2>5, <2>6 DEF Control
<1>q. QED BY <1>1, <1>2, <1>3 DEF Control

LEMMA LogInvStep == LogInv /\ [LogNext]_logVars => LogInv'
<1>1. LogInv /\ UNCHANGED logVars => LogInv'
  BY DEF LogInv, LogTypeOK, HoldsTheNewest, EveryMessageCounted, InHand,
     TellsBeforeItSkips, HandInv, logVars, ring, flags, ends, tally
<1>q. QED BY <1>1, LogStep, TakeStep, ThreadStep, ControlStep DEF LogNext, Thread, Ended

LEMMA LogInvariant == LogSpec => []LogInv
BY LogInvInit, LogInvStep, PTL DEF LogSpec

(* For every capacity: the ring holds the newest messages (log.c:144-153). *)
THEOREM LogHoldsTheNewest == LogSpec => [](LogTypeOK /\ HoldsTheNewest)
<1>1. LogInv => LogTypeOK /\ HoldsTheNewest
  BY DEF LogInv
<1>q. QED BY <1>1, LogInvariant, PTL

(* No message disappears untold, however fast they come (log.c:61-75). *)
THEOREM LogCountsEveryMessage == LogSpec => []EveryMessageCounted
<1>1. LogInv => EveryMessageCounted
  BY DEF LogInv
<1>q. QED BY <1>1, LogInvariant, PTL

(* A gap in the log is told where it is (log.c:61-70). *)
THEOREM LogTellsBeforeItSkips == LogSpec => []TellsBeforeItSkips
<1>1. LogInv => TellsBeforeItSkips
  BY DEF LogInv
<1>q. QED BY <1>1, LogInvariant, PTL

(* Messages are written in the order in which they were logged. *)
THEOREM LogWritesInOrder == LogSpec => WritesInOrder
<1>1. LogInv /\ [LogNext]_logVars => [lastOut' # lastOut => lastOut' > lastOut]_lastOut
  <2> SUFFICES ASSUME LogInv, [LogNext]_logVars, lastOut' # lastOut PROVE lastOut' > lastOut
    OBVIOUS
  <2>1. /\ logged \in Nat /\ wrote \in Nat /\ told \in Nat /\ lastOut \in Nat
        /\ count \in Nat /\ dropped \in Nat /\ InHand \in Nat
        /\ lastOut <= wrote + told
    BY LogNumbers DEF LogInv, HandInv
  <2>2. CASE Write
    BY <2>1, <2>2 DEF Write, LogInv, TellsBeforeItSkips
  <2>3. CASE LogDirect
    BY <2>1, <2>3 DEF LogDirect, LogInv, EveryMessageCounted
  <2>4. ASSUME ~Write, ~LogDirect PROVE UNCHANGED lastOut
    BY <2>4 DEF LogNext, Log, Queued, Thread, Sleep, Exit, TakeNote, Take, TakeOldest,
       WriteNote, Control, Start, Running, ThreadEnds, Stop, Joined, Ended, logVars, tally
  <2>q. QED BY <2>2, <2>3, <2>4
<1>q. QED BY <1>1, LogInvariant, PTL DEF LogSpec, WritesInOrder

(* smid_log_stop loses nothing (log.c:57-60, 104-119). *)
THEOREM LogStopsDrained == LogSpec => []StoppedIsDrained
<1>1. LogInv => StoppedIsDrained
  <2> SUFFICES ASSUME LogInv, ctl = "stopped" PROVE logged = wrote + told
    BY DEF StoppedIsDrained
  <2>1. th.at = "exited" /\ count = 0 /\ dropped = 0 /\ InHand = 0
    BY DEF LogInv, HandInv, InHand
  <2>2. wrote \in Nat /\ told \in Nat
    BY LogNumbers DEF LogInv
  <2>q. QED BY <2>1, <2>2 DEF LogInv, EveryMessageCounted
<1>q. QED BY <1>1, LogInvariant, PTL

(* Nothing is lost untold, whatever the capacity and whoever logs. *)
THEOREM LogAccounted == LogSpec => []Accounted
BY LogHoldsTheNewest, LogCountsEveryMessage, LogStopsDrained, PTL DEF Accounted
=============================================================================
