----------------------------- MODULE MCPackets ------------------------------
(* Small parts on a packet's way, for TLC: the ring that queues it, the slot it is
   built in, the tables it carries, and the packets that switch the outputs.
   Each behaviour runs one of them, and the others rest. *)
EXTENDS Ring, FramePacket, HuffmanTables, DisplayPower

VARIABLE part       \* the part that runs

Two == {0, 1}

parts == <<vars, packetVars, tableVars, powerVars>>

(* Where a part rests one of its initial states is enough. *)
MCInit ==
    /\ part \in {"ring", "packet", "tables", "power"}
    /\ Init /\ PacketInit /\ TablesInit /\ PowerInit
    /\ part # "ring" => slots = [i \in Slot |-> out] /\ out = CHOOSE x \in Items : TRUE
    /\ part # "packet" => at = 0

MCNext ==
    /\ UNCHANGED part
    /\ \/ part = "ring" /\ Next /\ UNCHANGED <<packetVars, tableVars, powerVars>>
       \/ part = "packet" /\ PacketNext /\ UNCHANGED <<vars, tableVars, powerVars>>
       \/ part = "tables" /\ TablesNext /\ UNCHANGED <<vars, packetVars, powerVars>>
       \/ part = "power" /\ PowerNext /\ UNCHANGED <<vars, packetVars, tableVars>>

(* In the other parts no action of the power's fairness can be taken. *)
MCSpec == MCInit /\ [][MCNext]_<<part, parts>> /\ PowerFairness
=============================================================================
