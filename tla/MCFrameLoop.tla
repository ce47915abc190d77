----------------------------- MODULE MCFrameLoop ----------------------------
EXTENDS FrameLoop

(* Not the streams: their packets are submitted in a fixed order. *)
Symmetry == Permutations(Pictures)
=============================================================================
