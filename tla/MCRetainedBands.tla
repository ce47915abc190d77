--------------------------- MODULE MCRetainedBands --------------------------
(* RetainedBands with two bands and two pictures. *)
EXTENDS RetainedBands

PictureSymmetry == Permutations(Pictures)
=============================================================================
