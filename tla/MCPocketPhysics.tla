-------------------------- MODULE MCPocketPhysics --------------------------
(***************************************************************************)
(* Small instances of PocketPhysics: the sketches and symmetries.          *)
(***************************************************************************)
EXTENDS PocketPhysics, TLC

Body(ty)    == [pin |-> FALSE, type |-> ty, pinned |-> <<0, 0>>]
PinTo(i, k) == [pin |-> TRUE, type |-> "Solid", pinned |-> <<i, k>>]

MCSketches ==
  {[elements |-> <<Body("Dynamic")>>, valid |-> FALSE],
   [elements |-> <<Body("Solid"), Body("Dynamic"), PinTo(2, 1)>>, valid |-> TRUE]}

Symmetry == Permutations(Objects) \cup Permutations(Pins)
=============================================================================
