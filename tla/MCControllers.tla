--------------------------- MODULE MCControllers ----------------------------
(* The two controllers of the main loop, the gate of the ACKs and the quality,
   for TLC: each behaviour runs one of them, and the other rests. *)
EXTENDS QualityController, AckGate

VARIABLE part       \* the controller that runs

all == <<part, vars, ackGateVars>>

(* The quality has several initial states; one is enough while it rests. *)
MCInit == /\ part \in {"quality", "gate"} /\ Init /\ AckInit
          /\ part = "gate" => fixed /\ ceiling = 70

Quality == part = "quality" /\ Next /\ UNCHANGED <<part, ackGateVars>>
Gated   == part = "gate" /\ AckNext /\ UNCHANGED <<part, vars>>

MCSpec == MCInit /\ [][Quality \/ Gated]_all /\ WF_vars(part = "quality" /\ Measured)

-----------------------------------------------------------------------------
(* A second of 100 ticks, ten frames to deliver in it and 100 bytes of wire. *)

(* What the streams did: damage, and frames that reached the adapter. *)
Loads == {[dirty |-> <<10, 0>>, sent |-> <<10, 0>>, frames |-> 10],
          [dirty |-> <<10, 0>>, sent |-> <<9, 0>>,  frames |-> 9],
          [dirty |-> <<10, 12>>, sent |-> <<10, 8>>, frames |-> 10],
          [dirty |-> <<12, 9>>, sent |-> <<9, 9>>,  frames |-> 9],
          [dirty |-> <<9, 3>>,  sent |-> <<0, 0>>,  frames |-> 0],
          [dirty |-> <<4, 0>>,  sent |-> <<4, 0>>,  frames |-> 4],
          [dirty |-> <<0, 0>>,  sent |-> <<0, 0>>,  frames |-> 0]}

(* Per frame: build, wait for the transfer, from start to completion, slowest. *)
Paces == {[build |-> 2, tx |-> 3, frame |-> 6, slowest |-> 7],
          [build |-> 7, tx |-> 3, frame |-> 11, slowest |-> 11],
          [build |-> 7, tx |-> 8, frame |-> 16, slowest |-> 16],
          [build |-> 2, tx |-> 8, frame |-> 12, slowest |-> 13],
          [build |-> 2, tx |-> 3, frame |-> 13, slowest |-> 14],
          [build |-> 2, tx |-> 3, frame |-> 6, slowest |-> 24]}

Gauged(elapsed, wires, acks) ==
    {[elapsed |-> elapsed, wire |-> (w * elapsed) \div 100,
      dirty |-> l.dirty, sent |-> l.sent, frames |-> l.frames,
      waits |-> a[1], blocks |-> a[2],
      build |-> p.build * l.frames, tx |-> p.tx * l.frames,
      frame |-> p.frame * l.frames, slowest |-> IF l.frames = 0 THEN 0 ELSE p.slowest]
     : w \in wires, l \in Loads, p \in Paces, a \in acks}

MCMeasures == Gauged(100, {90, 97, 110}, {<<0, 0>>, <<8, 2>>}) \cup
              Gauged(130, {97}, {<<8, 1>>})
=============================================================================
