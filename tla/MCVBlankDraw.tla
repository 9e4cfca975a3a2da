---------------------------- MODULE MCVBlankDraw ----------------------------
(***************************************************************************)
(* Small instances of VBlankDraw.                                          *)
(***************************************************************************)
EXTENDS VBlankDraw, TLC

Body        == [pin |-> FALSE, pinned |-> <<0, 0>>]
PinTo(i, k) == [pin |-> TRUE, pinned |-> <<i, k>>]

\* A damaged file behind its first thing, and two objects pinned to each other.
MCSketches ==
  {[elements |-> <<Body>>, valid |-> FALSE],
   [elements |-> <<Body, Body, PinTo(2, 1)>>, valid |-> TRUE]}

Symmetry == Permutations(Objects) \cup Permutations(Pins)
=============================================================================
