------------------------------ MODULE MCShapes ------------------------------
(***************************************************************************)
(* A small instance of Shapes: the places the stylus is sampled at.        *)
(***************************************************************************)
EXTENDS Shapes

MCPoints ==
  {<<0, 0>>, <<2, 0>>, <<4, 0>>, <<4, 2>>, <<2, 2>>, <<0, 2>>, <<1, 1>>, <<1, 0>>, <<3, 1>>}
=============================================================================
