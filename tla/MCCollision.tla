---------------------------- MODULE MCCollision ----------------------------
(***************************************************************************)
(* A small instance of Collision: a body of two shapes and a body of one,  *)
(* in a world of three by three cells.  At the second place one shape of   *)
(* the first body and the second body are out of the world.  Two of the    *)
(* three pairs share a chain of the hash table.                            *)
(***************************************************************************)
EXTENDS Collision

MCShapeList(b) == CASE b = "a" -> <<"a1", "a2">> [] b = "b" -> <<"b1">>

MCPlaces == {<<0, 0>>, <<2, 2>>}

Offset(s) == IF s = "a1" THEN <<0, 0>> ELSE <<3, 0>>
MCBox(s, at) == [a \in 1..2 |-> <<at[a] + Offset(s)[a], at[a] + Offset(s)[a] + 1>>]

MCTouches    == {<<<<2, 3>>, <<0, 1>>>>}
MCJointPairs == {{"a", "b"}}
MCHash(ids)  == IF 0 \in ids THEN 0 ELSE 1
=============================================================================
