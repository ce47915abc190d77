------------------------- MODULE QualityController --------------------------
(* The JPEG quality (main.c:123-325).  Once a second the main loop measures the
   window that passed; pressure on the wire, on the encoder or on the service
   of frames brings the quality down, spare room brings it up again, and a
   screen at rest gets the ceiling.  Times are in ticks, Second of them a
   second; what a window may measure is a parameter. *)
EXTENDS Integers, FiniteSetsExt

CONSTANTS
    Asked,          \* what --jpeg-quality may ask for
    Streams,        \* the streams, 1 .. evdi_streams
    TargetFps, TargetWire,      \* target_fps, and the wire's bytes per second
    Second,         \* ticks per second
    Measures,       \* what a window may measure
    MaxPressure     \* bound on the pressure counters, which nothing stops at the floor

ASSUME QualityAssumption == Asked \subseteq Int /\ MaxPressure \in Nat

VARIABLES
    floor, ceiling, fixed,      \* set once
    current,                    \* the quality
    encoder_pressure_windows, service_pressure_windows, spare_windows,
    ack_paced_hold_windows,
    run,            \* history: the kind of the last windows in a row, how many, and
                    \* whether the last one left room on the wire
    sinceAck        \* history: windows since the last one that ACKs held back

set      == <<floor, ceiling, fixed>>
counters == <<encoder_pressure_windows, service_pressure_windows, spare_windows>>
vars     == <<set, current, counters, ack_paced_hold_windows, run, sinceAck>>

FLOOR_DEFAULT    == 70
UP_GOOD          == 2
DOWN_PRESSURE    == 4
SERVICE_DOWN     == 2
HOLD             == 3

Least(a, b)    == IF a < b THEN a ELSE b
Greatest(a, b) == IF a > b THEN a ELSE b
Clamped(q)     == Greatest(1, Least(q, 100))

Init == /\ fixed \in BOOLEAN
        /\ \E q \in Asked : ceiling = Clamped(q)
        /\ floor = IF fixed THEN ceiling ELSE Least(FLOOR_DEFAULT, ceiling)
        /\ current = ceiling
        /\ encoder_pressure_windows = 0 /\ service_pressure_windows = 0
        /\ spare_windows = 0 /\ ack_paced_hold_windows = 0
        /\ run = [kind |-> "none", n |-> 0, room |-> TRUE]
        /\ sinceAck = HOLD

-----------------------------------------------------------------------------
(* What quality_controller_update makes of a window. *)

TargetBytes(m) == (TargetWire * m.elapsed) \div Second
WirePressure(m) == m.wire > (TargetBytes(m) * 105) \div 100
WireBelowTarget(m) == m.wire < TargetBytes(m)
WireSpare(m) == m.wire < (TargetBytes(m) * 95) \div 100

TargetFrames(m) == Greatest(1, (TargetFps * m.elapsed) \div Second)
Active(m) == {i \in Streams : m.dirty[i] * 100 >= TargetFrames(m) * 85}
Delivered(m) == IF Active(m) = {} THEN m.frames ELSE Min({m.sent[i] : i \in Active(m)})
Observed(m) == LET seen == Max({m.dirty[i] : i \in Streams})
               IN  IF seen = 0 THEN TargetFrames(m) ELSE Least(seen, TargetFrames(m))
DeliveryPressure(m) == Active(m) # {} /\ Delivered(m) * 100 < Observed(m) * 97

AckPaced(m) == m.waits # 0 /\ m.blocks * 100 >= m.waits * 25

Budget(m) == Greatest(1, m.elapsed \div Observed(m))
Average(total, m) == IF m.frames = 0 THEN 0 ELSE total \div m.frames
SlowEncoder(m) == /\ DeliveryPressure(m)
                  /\ Average(m.build, m) * 100 >= Budget(m) * 65
                  /\ Average(m.build, m) >= Average(m.tx, m)
SlowService(m) == /\ DeliveryPressure(m) /\ m.frames # 0
                  /\ \/ Average(m.frame, m) * 100 >= Budget(m) * 130
                     \/ m.slowest * 100 >= Budget(m) * 240
                     \/ Average(m.tx, m) * 100 >= Budget(m) * 75

Hold(m) == IF AckPaced(m) THEN HOLD
           ELSE IF ack_paced_hold_windows > 0 THEN ack_paced_hold_windows - 1 ELSE 0

(* The first pressure that applies.  Frames that wait for ACKs with room on the
   wire are not the encoder's fault: that is what the hold is for. *)
Kind(m) ==
    LET paced == (AckPaced(m) \/ Hold(m) > 0) /\ WireBelowTarget(m)
    IN  IF WirePressure(m) THEN "wire"
        ELSE IF SlowEncoder(m) /\ ~paced THEN "encoder"
        ELSE IF SlowService(m) THEN "service"
        ELSE IF WireSpare(m) /\ ~DeliveryPressure(m) THEN "spare"
        ELSE "none"

-----------------------------------------------------------------------------
Counters(e, s, g) == /\ encoder_pressure_windows' = e
                     /\ service_pressure_windows' = s
                     /\ spare_windows' = g

(* Mutant: a last step that is too large is not taken at all. *)
LoweredNotQuite == IF current >= floor + 2 THEN current - 2 ELSE current

Lowered == IF current > floor THEN Greatest(current - 2, floor) ELSE current

Raised == Least(current + 2, ceiling)

UnderWire == current' = Lowered /\ Counters(0, 0, 0)

UnderEncoder ==
    LET n == encoder_pressure_windows + 1
    IN  IF n >= DOWN_PRESSURE /\ current > floor
        THEN current' = Lowered /\ Counters(0, 0, 0)
        ELSE n <= MaxPressure /\ Counters(n, 0, 0) /\ UNCHANGED current

(* Mutant: service pressure leaves the encoder's count standing. *)
UnderServiceKeeps ==
    LET n == service_pressure_windows + 1
    IN  IF n >= SERVICE_DOWN /\ current > floor
        THEN current' = Lowered /\ Counters(encoder_pressure_windows, 0, 0)
        ELSE /\ n <= MaxPressure
             /\ Counters(encoder_pressure_windows, n, 0) /\ UNCHANGED current

UnderService ==
    LET n == service_pressure_windows + 1
    IN  IF n >= SERVICE_DOWN /\ current > floor
        THEN current' = Lowered /\ Counters(0, 0, 0)
        ELSE n <= MaxPressure /\ Counters(0, n, 0) /\ UNCHANGED current

WithSpare == IF spare_windows + 1 >= UP_GOOD
             THEN current' = Raised /\ Counters(0, 0, 0)
             ELSE Counters(0, 0, spare_windows + 1) /\ UNCHANGED current

WithNeither == Counters(0, 0, 0) /\ UNCHANGED current

Adjust(kind) ==
    \/ kind = "wire" /\ UnderWire
    \/ kind = "encoder" /\ UnderEncoder
    \/ kind = "service" /\ UnderService
    \/ kind = "spare" /\ current < ceiling /\ WithSpare
    \/ kind = "none" /\ WithNeither
    \/ kind = "spare" /\ current = ceiling /\ WithNeither

Noted(kind, room) ==
    [kind |-> kind, room |-> room,
     n |-> IF run.kind = kind THEN Least(run.n + 1, DOWN_PRESSURE) ELSE 1]

(* quality_controller_update *)
Update(m) ==
    /\ ~fixed /\ floor < ceiling /\ m.elapsed # 0
    /\ ack_paced_hold_windows' = Hold(m)
    /\ LET kind == Kind(m)
       IN  Adjust(kind) /\ run' = Noted(kind, WireBelowTarget(m))
    /\ sinceAck' = IF AckPaced(m) THEN 0 ELSE Least(sinceAck + 1, HOLD)
    /\ UNCHANGED set

(* quality_controller_note_idle: nothing dirty, and no frame for half a second. *)
NoteIdle == /\ ~fixed
            /\ current' = ceiling /\ Counters(0, 0, 0)
            /\ ack_paced_hold_windows' = 0
            /\ run' = [kind |-> "idle", n |-> 1, room |-> TRUE] /\ sinceAck' = HOLD
            /\ UNCHANGED set

(* The calls that return at once. *)
NotAdaptive == (fixed \/ floor >= ceiling) /\ UNCHANGED vars

Measured == \E m \in Measures : Update(m)

Next == Measured \/ NoteIdle \/ NotAdaptive

(* The loop takes its statistics every second (main.c:1159). *)
Spec == Init /\ [][Next]_vars /\ WF_vars(Measured)

-----------------------------------------------------------------------------
Kinds == {"wire", "encoder", "service", "spare", "none", "idle"}

TypeOK ==
    /\ fixed \in BOOLEAN
    /\ floor \in 1 .. 100 /\ ceiling \in floor .. 100 /\ current \in floor .. ceiling
    /\ encoder_pressure_windows \in 0 .. Greatest(MaxPressure, DOWN_PRESSURE)
    /\ service_pressure_windows \in 0 .. Greatest(MaxPressure, SERVICE_DOWN)
    /\ spare_windows \in 0 .. UP_GOOD - 1
    /\ ack_paced_hold_windows \in 0 .. HOLD
    /\ run \in [kind : Kinds, n : 0 .. DOWN_PRESSURE, room : BOOLEAN]
    /\ sinceAck \in 0 .. HOLD

(* The quality only falls for a wire that is too full, after four windows in a
   row with a slow encoder, or two with slow service: the rows are counted by
   three counters that reset each other (main.c:263-313). *)
FallsForAReason ==
    [][current' < current =>
          \/ run'.kind = "wire"
          \/ run'.kind = "encoder" /\ run'.n >= DOWN_PRESSURE
          \/ run'.kind = "service" /\ run'.n >= SERVICE_DOWN]_vars

(* It only rises after two good windows in a row, or for a screen at rest. *)
RisesWithRoom ==
    [][current' > current => \/ run'.kind = "idle"
                             \/ (run'.kind = "spare" /\ run'.n >= UP_GOOD)]_vars

(* The encoder is not blamed for frames that ACKs held back: neither in that
   window nor in the two after it, unless the wire is at its target
   (main.c:238-254). *)
PacedIsNotSlow ==
    run.kind = "encoder" /\ run.room => sinceAck = HOLD

(* No quality is lost or gained but for a reason in the row of windows that
   ends there. *)
QualityMovesForAReason == FallsForAReason /\ RisesWithRoom /\ []PacedIsNotSlow

(* A wire that stays too full brings the quality down to the floor, spare room
   that lasts brings it to the ceiling: no row of windows is forgotten for ever. *)
FullWireFindsFloor   == <>[](run.kind = "wire") => <>[](current = floor)
SpareFindsCeiling    == <>[](run.kind = "spare") => <>[](current = ceiling)
QualityFindsItsEnds  == FullWireFindsFloor /\ SpareFindsCeiling
=============================================================================
