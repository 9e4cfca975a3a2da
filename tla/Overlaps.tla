------------------------------ MODULE Overlaps ------------------------------
(***************************************************************************)
(* What the broad phase promises b2ContactManager: once the boxes of the   *)
(* shapes have changed, it has been told of exactly those pairs of shapes  *)
(* whose boxes overlap.  It may be told late of boxes that only moved.     *)
(***************************************************************************)
EXTENDS Integers

CONSTANTS Shapes, Boxes, NoBox, Meet(_, _)

VARIABLES box,       \* of each shape
          reported   \* pairs added and not removed

Present(b)  == {s \in Shapes : b[s] # NoBox}
Touching(b) == {{s, t} : s \in Present(b), t \in Present(b)}
Meeting(b)  == {st \in Touching(b) : \E s, t \in st : s # t /\ Meet(b[s], b[t])}

OInit == box \in [Shapes -> Boxes \cup {NoBox}] /\ reported = Meeting(box)

Move ==
  /\ box' \in [Shapes -> Boxes \cup {NoBox}] /\ Present(box') = Present(box)
  /\ UNCHANGED reported

Update ==
  /\ box' \in [Shapes -> Boxes \cup {NoBox}]
  /\ reported' = Meeting(box')

ONext == Move \/ Update

OSpec == OInit /\ [][ONext]_<<box, reported>>
=============================================================================
