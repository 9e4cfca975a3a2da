------------------------------ MODULE MCSketch ------------------------------
(***************************************************************************)
(* Small instances of Sketch.                                              *)
(***************************************************************************)
EXTENDS Sketch, TLC

Symmetry == Permutations(Objects) \cup Permutations(Pins)
=============================================================================
