----------------------------- MODULE TxService ------------------------------
(* What the transport promises the callers that attach a result cell: every
   accepted transfer ends exactly once.  It ends either with the outcome of
   the one time it was on the wire, or interrupted without having been on the
   wire at all.  Only one transfer is on the wire at a time. *)

CONSTANTS
    Callers,    \* the callers that attach a smid_tx_result
    NoCaller    \* the wire is idle, or busy with a transfer without a result

VARIABLES
    phase,      \* per caller: idle, pending, ok, failed or interrupted
    wire        \* whose transfer is on the wire

vars == <<phase, wire>>

Init == phase = [c \in Callers |-> "idle"] /\ wire = NoCaller

Accept(c) == /\ phase[c] = "idle"
             /\ phase' = [phase EXCEPT ![c] = "pending"]
             /\ UNCHANGED wire

Begin(c) == /\ wire = NoCaller /\ phase[c] = "pending"
            /\ wire' = c
            /\ UNCHANGED phase

Finish(c, outcome) == /\ wire = c /\ phase[c] = "pending"
                      /\ phase' = [phase EXCEPT ![c] = outcome]
                      /\ wire' = NoCaller

Interrupt(c) == /\ wire # c /\ phase[c] = "pending"
                /\ phase' = [phase EXCEPT ![c] = "interrupted"]
                /\ UNCHANGED wire

Collect(c) == /\ phase[c] \in {"ok", "failed", "interrupted"}
              /\ phase' = [phase EXCEPT ![c] = "idle"]
              /\ UNCHANGED wire

Next == \E c \in Callers :
            \/ Accept(c)
            \/ Begin(c)
            \/ \E outcome \in {"ok", "failed"} : Finish(c, outcome)
            \/ Interrupt(c)
            \/ Collect(c)

Spec == Init /\ [][Next]_vars
=============================================================================
