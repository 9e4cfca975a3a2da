------------------------------- MODULE Shapes -------------------------------
(***************************************************************************)
(* From the stylus to the shapes of a body: the points that a stroke puts  *)
(* into a Polygon, what penUp makes of them, and how makePhysical cuts a   *)
(* closed polygon into convex pieces for Box2D.                            *)
(*                                                                         *)
(* Drawing is in pixels; the cutting is done on the lattice that the       *)
(* stylus positions lie on, so that areas and sines stay small.  Recursion *)
(* on the parts of a pinched polygon is the list work of parts to come.    *)
(***************************************************************************)
EXTENDS Geometry

CONSTANTS Points,      \* lattice points the stylus may be sampled at
          MAX_POINTS,  \* 64: canvas.cpp
          MAX_VERTICES \* 64: polygon.h

ASSUME PointsAssumption ==
  /\ Points \subseteq Nat \X Nat
  /\ MAX_POINTS \in Nat /\ MAX_VERTICES \in Nat /\ MAX_POINTS <= MAX_VERTICES
  \* No two directions are nearly, but not quite, parallel: the code would split
  \* such a triangle at the foot of its height, which is not on the lattice.
  /\ \A a, b, c, d \in Points :
       Cross(Minus(a, b), Minus(c, d)) # 0 => ~NearParallel(Minus(a, b), Minus(c, d))

MIN_POINT_DIST == 7
CLOSE_DIST     == 10
Cos20          == <<9397, 10000>>  \* of DRAW_NEW_POINT_ANGLE

VARIABLES stage,     \* of the stroke: see Stages
          mode,      \* pen_mode
          vertices, x, y, closed,  \* the Polygon
          lastx, lasty,
          work,      \* parts still to be triangulated
          tris,      \* triangulated
          pieces,    \* decomposed
          shapes,    \* of the b2Body
          outline    \* history: the lattice points at penUp

polygon == <<vertices, x, y, closed>>
cutting == <<work, tris, pieces, shapes>>
svars   == <<stage, mode, polygon, lastx, lasty, cutting, outline>>

Rest   == {"none", "physical", "removed", "bodiless"}
Stages == Rest \cup {"drawing", "triangulate", "polygonize", "add"}

Pixel(q)      == <<Unit * q[1], Unit * q[2]>>
Vertex(i)     == <<vertices[i][1] + x, vertices[i][2] + y>>
Square2(a, b) == Square(Minus(a, b))

\* sqrt64: rounded down.
Root(n) == CHOOSE r \in 0..n : r * r <= n /\ n < (r + 1) * (r + 1)
Length(a, b) == Root(Square2(a, b))

\* Division of the processor: towards zero.
Quotient(a, b) == IF a >= 0 THEN a \div b ELSE -((-a) \div b)

\* What remains of s when only the places K are kept.
Selected(s, K) == [n \in 1..Cardinality(K) |-> s[Nth(K, n)]]

\* Polygon::addVertex
Added(p, q) == IF Len(p) = MAX_VERTICES THEN p ELSE Append(p, q)

SInit ==
  /\ stage = "none" /\ mode = "polygon"
  /\ vertices = <<>> /\ x = 0 /\ y = 0 /\ closed = FALSE
  /\ lastx = 0 /\ lasty = 0
  /\ work = <<>> /\ tris = <<>> /\ pieces = <<>> /\ shapes = <<>> /\ outline = <<>>

\* Only penUp of a box looks at lastx and lasty, so only a box keeps them here.
Sampled(q) == lastx' = q[1] /\ lasty' = q[2]

NewThing(p, c) ==
  /\ stage \in Rest /\ stage' = "drawing"
  /\ vertices' = p /\ closed' = c /\ x' = 0 /\ y' = 0
  /\ work' = <<>> /\ tris' = <<>> /\ pieces' = <<>> /\ shapes' = <<>> /\ outline' = <<>>

PenDownLine(q) == mode' = "polygon" /\ NewThing(<<q>>, FALSE) /\ Sampled(<<0, 0>>)

PenDownBox(q) ==
  /\ mode' = "box"
  /\ NewThing(<<q, <<q[1] + 1, q[2]>>, <<q[1] + 1, q[2] + 1>>, <<q[1], q[2] + 1>>>>, TRUE)
  /\ Sampled(q)

(***************************************************************************)
(* The angle between the last segment and the next is below 20 degrees.    *)
(* The lengths are rounded down, so the quotient can exceed 1: acos is     *)
(* then not a number, nor is it with a length of zero, and the comparison  *)
(* fails.                                                                  *)
(***************************************************************************)
GoesOn(a, b, q) ==
  LET d == Dot(Minus(b, a), Minus(q, b))
      l == Length(a, b) * Length(b, q)
  IN  l > 0 /\ d <= l /\ d * Cos20[2] > l * Cos20[1]

Drawn(p, q) ==
  LET n == Len(p)
  IN  IF n = 1 THEN IF Square2(p[1], q) >= MIN_POINT_DIST * MIN_POINT_DIST
                    THEN Added(p, q) ELSE p
      ELSE IF Length(p[n], q) <= MIN_POINT_DIST THEN p
      ELSE IF GoesOn(p[n - 1], p[n], q) THEN [p EXCEPT ![n] = q]
      ELSE IF n < MAX_POINTS - 1 THEN Added(p, q) ELSE p

PenMoveLine(q) ==
  /\ stage = "drawing" /\ mode = "polygon"
  /\ vertices' = Drawn(vertices, q)
  /\ UNCHANGED <<stage, mode, x, y, closed, lastx, lasty, cutting, outline>>

\* Make sure it's clockwise
BoxTo(c, q) ==
  IF (q[1] >= c[1] /\ q[2] >= c[2]) \/ (q[1] <= c[1] /\ q[2] <= c[2])
  THEN <<c, <<q[1], c[2]>>, q, <<c[1], q[2]>>>>
  ELSE <<c, <<c[1], q[2]>>, q, <<q[1], c[2]>>>>

PenMoveBox(q) ==
  /\ stage = "drawing" /\ mode = "box"
  /\ vertices' = BoxTo(vertices[1], q)
  /\ Sampled(q)
  /\ UNCHANGED <<stage, mode, x, y, closed, cutting, outline>>

-----------------------------------------------------------------------------
\* Seeded fault: the polygon keeps its last point.
OpenedKept(p) == p

\* The last point goes when it is too close to the first.
Opened(p) == IF Square2(p[1], p[Len(p)]) < MIN_POINT_DIST * MIN_POINT_DIST
             THEN Front(p) ELSE p

\* A vertex is compared with the one before it, also when that one was removed.
Far(p)     == {i \in 2..Len(p) : Length(p[i - 1], p[i]) >= 5}
Kept(p)    == (DOMAIN p) \cap ({1} \cup Far(p))
Thinned(p) == Selected(p, Kept(p))
TotalLength(p) == SumOver(Far(p), LAMBDA i : Length(p[i - 1], p[i]))

\* The position is the mean of the vertices, which become relative to it.
Mean(p, c) == Quotient(SumOver(DOMAIN p, LAMBDA i : p[i][c]), Len(p))
Recentred(p) ==
  /\ x' = Mean(p, 1) /\ y' = Mean(p, 2)
  /\ vertices' = [i \in DOMAIN p |-> Minus(p[i], <<Mean(p, 1), Mean(p, 2)>>)]

\* The vertices on the lattice, from the first; clockwise, for the ears.
Lattice(p)   == [i \in DOMAIN p |-> <<Quotient(p[i][1] - p[1][1], Unit),
                                      Quotient(p[i][2] - p[1][2], Unit)>>]

\* Seeded fault: the direction in which it was drawn stays.
ClockwiseAsDrawn(p) == p

Clockwise(p) == IF IsCCW(p) THEN Reverse(p) ELSE p

(***************************************************************************)
(* Each segment of an open polygon becomes a box six pixels wide; the      *)
(* normal is computed in 24.8 fixed point.  A shift rounds down.           *)
(***************************************************************************)
Normal(d, len) == Quotient(6 * 256 * d, len) \div 256
Box(a, b) ==
  LET n == <<Normal(a[2] - b[2], Length(a, b)), Normal(b[1] - a[1], Length(a, b))>>
  IN  <<a, b, <<b[1] + n[1], b[2] + n[2]>>, <<a[1] + n[1], a[2] + n[2]>>>>
Boxes(p) == [i \in 1..(Len(p) - 1) |-> Box(p[i], p[i + 1])]

MakePhysical(p, c) ==
  /\ outline' = p
  /\ IF c THEN /\ stage' = IF Len(p) < 3 THEN "removed" ELSE "triangulate"
               /\ work' = <<Clockwise(Lattice(p))>>
               /\ UNCHANGED shapes
          ELSE /\ stage' = "physical"
               /\ shapes' = Boxes(p)
               /\ UNCHANGED work
  /\ UNCHANGED <<tris, pieces>>

Refused == stage' = "removed" /\ UNCHANGED <<cutting, outline>>

PenUpLine ==
  /\ stage = "drawing" /\ mode = "polygon"
  /\ LET p    == Thinned(Opened(vertices))
         near == Square2(vertices[1], vertices[Len(vertices)]) < CLOSE_DIST * CLOSE_DIST
     IN  /\ closed' = near
         /\ IF Len(p) < 2 \/ TotalLength(Opened(vertices)) < 10
            THEN vertices' = p /\ UNCHANGED <<x, y>> /\ Refused
            ELSE Recentred(p) /\ MakePhysical(p, near)
  /\ UNCHANGED <<mode, lastx, lasty>>

Distance(a, b) == IF a >= b THEN a - b ELSE b - a

\* Seeded fault: one side that is long enough will do.
TooSmallBoth(w, h) == w < 6 /\ h < 6

TooSmall(w, h) == w < 6 \/ h < 6 \/ w * h < 50

PenUpBox ==
  /\ stage = "drawing" /\ mode = "box"
  /\ LET w == Distance(lastx, vertices[1][1])
         h == Distance(lasty, vertices[1][2])
     IN  IF TooSmall(w, h)
         THEN Refused /\ UNCHANGED <<vertices, x, y>>
         ELSE Recentred(vertices) /\ MakePhysical(vertices, TRUE)
  /\ UNCHANGED <<mode, closed, lastx, lasty>>

-----------------------------------------------------------------------------
(***************************************************************************)
(* DecomposeConvexAndAddTo: TriangulatePolygon, one part or ear at a time, *)
(* PolygonizeTriangles, and the shapes for the pieces that are usable.     *)
(***************************************************************************)
\* penUp removes a line that could not be made physical; it does not ask for a box.
Fail ==
  /\ stage' = IF mode = "polygon" THEN "removed" ELSE "bodiless"
  /\ work' = <<>> /\ tris' = <<>>
  /\ UNCHANGED <<pieces, shapes>>

Triangulating == stage = "triangulate" /\ work # <<>>
Part          == Head(work)

\* A part of two vertices has no triangle.
DropPart ==
  /\ Triangulating /\ Len(Part) < 3
  /\ work' = Tail(work)
  /\ UNCHANGED <<stage, tris, pieces, shapes>>

SplitPart ==
  /\ Triangulating /\ Len(Part) >= 3 /\ PinchPoints(Part) # {}
  /\ work' = Parts(Part) \o Tail(work)
  /\ UNCHANGED <<stage, tris, pieces, shapes>>

NoEar ==
  /\ Triangulating /\ Len(Part) > 3 /\ PinchPoints(Part) = {}
  /\ Ears(Part) = {}
  /\ Fail

ClipEar ==
  /\ Triangulating /\ Len(Part) > 3 /\ PinchPoints(Part) = {}
  /\ \E i \in BestEars(Part) :
       /\ work' = <<RemoveAt(Part, i)>> \o Tail(work)
       /\ tris' = Append(tris, EarTriangle(Part, i))
  /\ UNCHANGED <<stage, pieces, shapes>>

LastTriangle ==
  /\ Triangulating /\ Len(Part) = 3 /\ PinchPoints(Part) = {}
  /\ work' = Tail(work)
  /\ tris' = Append(tris, Triangle(Part[2], Part[3], Part[1]))
  /\ UNCHANGED <<stage, pieces, shapes>>

Triangulated ==
  /\ stage = "triangulate" /\ work = <<>>
  /\ IF tris = <<>> THEN Fail
     ELSE /\ stage' = "polygonize"
          /\ tris' = Selected(tris, {i \in DOMAIN tris : ~IsFlat(tris[i])})
          /\ UNCHANGED <<work, pieces, shapes>>

(***************************************************************************)
(* The first triangle left is the seed; each later one that leaves the     *)
(* piece convex joins it.  A piece that merging has spoilt is skipped.     *)
(***************************************************************************)
Tried(g, t) == IF CanJoin(g.piece, t) THEN [g EXCEPT !.piece = Join(@, t)]
               ELSE [g EXCEPT !.left = Append(@, t)]
Grown(ts)   == FoldLeft(Tried, [piece |-> Head(ts), left |-> <<>>], Tail(ts))

Polygonize ==
  /\ stage = "polygonize"
  /\ IF tris = <<>> THEN stage' = "add" /\ UNCHANGED <<tris, pieces>>
     ELSE /\ tris' = Grown(tris).left
          /\ LET piece == Merged(Grown(tris).piece)
             IN  pieces' = IF Len(piece) >= 3 THEN Append(pieces, piece) ELSE pieces
          /\ UNCHANGED stage
  /\ UNCHANGED <<work, shapes>>

\* b2Body::CreateShape for the first piece; an unusable one is left out.
AddShape ==
  /\ stage = "add"
  /\ IF pieces = <<>> THEN stage' = "physical" /\ UNCHANGED <<pieces, shapes>>
     ELSE /\ pieces' = Tail(pieces)
          /\ shapes' = IF IsUsable(Head(pieces)) THEN Append(shapes, Head(pieces)) ELSE shapes
          /\ UNCHANGED stage
  /\ UNCHANGED <<work, tris>>

Cut ==
  /\ DropPart \/ SplitPart \/ NoEar \/ ClipEar \/ LastTriangle \/ Triangulated
       \/ Polygonize \/ AddShape
  /\ UNCHANGED <<mode, polygon, lastx, lasty, outline>>

Pen(q) == PenDownLine(q) \/ PenDownBox(q) \/ PenMoveLine(q) \/ PenMoveBox(q)

SNext == PenUpLine \/ PenUpBox \/ Cut \/ \E q \in Points : Pen(Pixel(q))

SSpec == SInit /\ [][SNext]_svars

-----------------------------------------------------------------------------
\* The closed line neither crosses nor touches itself.
Between(q, a, b) ==
  /\ Cross(Minus(b, a), Minus(q, a)) = 0
  /\ Dot(Minus(a, q), Minus(b, q)) <= 0
Plain(p) ==
  /\ IsSimple(p)
  /\ \A i, j \in DOMAIN p : j \notin {i, (i % Len(p)) + 1} => ~Between(p[j], p[i], After(p, i))

\* Nor does a vertex lie between two others.
General(p) ==
  \A i, j, k \in DOMAIN p : Cardinality({i, j, k}) = 3 => ~Between(p[j], p[i], p[k])

SumSeq(s, f(_)) == SumOver(DOMAIN s, LAMBDA i : f(s[i]))

(***************************************************************************)
(* makePhysical divides by the length of each segment of an open line, and *)
(* Box2D normalises the edges of a closed one: what penUp leaves has       *)
(* segments of five pixels or more, and a closed line does not end where   *)
(* it began.                                                               *)
(***************************************************************************)
NoZeroEdge ==
  stage \in {"physical", "triangulate", "polygonize", "add"} =>
    /\ \A i \in 2..Len(vertices) : Length(vertices[i - 1], vertices[i]) >= 5
    /\ closed => vertices[1] # Last(vertices)

(***************************************************************************)
(* Cutting loses nothing and covers nothing twice: while a closed line     *)
(* that does not cross itself is cut, what is left of it, its triangles    *)
(* and its pieces have together the area of the line.  No vertex may lie   *)
(* between two others: IsInside is strict, an ear whose border runs        *)
(* through a vertex is clipped, and the pieces can then cover a notch.     *)
(***************************************************************************)
AreaKept ==
  (stage \in {"triangulate", "polygonize"} /\ IsSimple(Lattice(outline))
     /\ General(Lattice(outline))) =>
    SumSeq(tris, Area2) + SumSeq(pieces, Area2) - SumSeq(work, Area2)
      = Distance(Area2(Lattice(outline)), 0)

(***************************************************************************)
(* What is handed to Box2D is convex, turns counter-clockwise and has at   *)
(* most b2_maxPolygonVertices vertices.                                    *)
(***************************************************************************)
PiecesConvex ==
  \A i \in DOMAIN pieces : /\ Len(pieces[i]) \in 3..MaxVertices
                           /\ IsConvex(pieces[i]) /\ Area2(pieces[i]) >= 0

\* A closed line that does not cross itself and encloses something is cut.
SimpleIsCut ==
  stage = "removed" /\ Len(outline) >= 3 => ~Plain(Lattice(outline))

\* penUp does not ask whether a box could be made physical: each that it keeps
\* has a body with shapes, and they cover it.
BoxIsSolid ==
  mode = "box" =>
    /\ stage # "bodiless"
    /\ stage = "physical" =>
         shapes # <<>> /\ SumSeq(shapes, Area2) = Distance(Area2(Lattice(outline)), 0)

(***************************************************************************)
(* "Closed polygon: Convert to a set of convex polygons and add them to    *)
(* the body", says makePhysical.  TLC refutes that a body gets any: when   *)
(* IsUsable refuses every piece of a thin line, the thing is physical,     *)
(* lies in the world and can neither be hit, moved nor erased.             *)
(***************************************************************************)
BodyHasShape == stage = "physical" => shapes # <<>>

(***************************************************************************)
(* The loops of the cutting end: each split, ear, merge and shape leaves   *)
(* less to do.  As a state in which there is something to do has a next    *)
(* one, penUp returns.                                                     *)
(***************************************************************************)
Rank(s) == CASE s = "triangulate" -> 3 [] s = "polygonize" -> 2 [] s = "add" -> 1 [] OTHER -> 0
ToDo    == SumSeq(work, LAMBDA p : 4 * Len(p) - 1) + 2 * Len(tris) + Len(pieces) + Rank(stage)
CutEnds == [][stage \notin Rest \cup {"drawing"} => ToDo' < ToDo]_svars
=============================================================================
