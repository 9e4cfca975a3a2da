------------------------------ MODULE MCWorld ------------------------------
(***************************************************************************)
(* Small instances of World: the sketches on the card and the symmetries.  *)
(***************************************************************************)
EXTENDS World, TLC

Body(ty)   == [pin |-> FALSE, type |-> ty, pinned |-> <<0, 0>>]
PinTo(i, k) == [pin |-> TRUE, type |-> "Solid", pinned |-> <<i, k>>]

(***************************************************************************)
(* An empty damaged file, a damaged one with a thing, an object pinned to  *)
(* the background, and two objects pinned to each other.                   *)
(***************************************************************************)
MCSketches ==
  {[elements |-> <<>>, valid |-> FALSE],
   [elements |-> <<Body("Dynamic")>>, valid |-> FALSE],
   [elements |-> <<Body("Dynamic"), PinTo(1, 0)>>, valid |-> TRUE],
   [elements |-> <<Body("Solid"), Body("Dynamic"), PinTo(2, 1)>>, valid |-> TRUE]}

Symmetry == Permutations(Objects) \cup Permutations(Pins)
=============================================================================
