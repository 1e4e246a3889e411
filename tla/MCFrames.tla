------------------------------ MODULE MCFrames ------------------------------
(***************************************************************************)
(* The memory of the kernel with a few frames, which may be exchanged.     *)
(***************************************************************************)
EXTENDS Frames, TLC

Symmetry == Permutations(Frame)

=============================================================================
