---------------------------- MODULE MCTransport -----------------------------
(* Transport with the main thread's commands, one picture tile, a cursor image
   and the heartbeat at the four priorities of enum smid_tx_priority, and
   device power, which submits at the priority of the commands without being
   fenced. *)
EXTENDS Transport

CONSTANTS command, tile, image, heartbeat, power

MCPrioOf == [c \in Callers |->
                CASE c = command \/ c = power -> 0
                  [] c = tile                 -> 1
                  [] c = image                -> 2
                  [] c = heartbeat            -> 3]
=============================================================================
