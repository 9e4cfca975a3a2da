------------------------------ MODULE Geometry ------------------------------
(***************************************************************************)
(* The polygons of Box2D's b2Polygon.cpp: what its tests compute about a   *)
(* polygon, and how it joins triangles to convex pieces.                   *)
(*                                                                         *)
(* A polygon is a sequence of points with integer coordinates.  The code   *)
(* computes in single precision; here every test is exact.  A quotient or  *)
(* a square root is never formed: tests compare squares and products.      *)
(* Lengths are in steps of a lattice of Unit pixels, and Box2D's           *)
(* tolerances, lengths of its world, are in pixels: b2_linearSlop is a     *)
(* quarter of a pixel, b2_toiSlop two pixels.                              *)
(***************************************************************************)
EXTENDS Integers, Sequences, SequencesExt, FiniteSetsExt

CONSTANTS Unit,         \* pixels of one step of the lattice
          MaxVertices   \* b2_maxPolygonVertices

ASSUME UnitAssumption == Unit \in Nat \ {0} /\ MaxVertices \in Nat \ {0, 1, 2}

\* Points and differences of points.
Minus(a, b) == <<a[1] - b[1], a[2] - b[2]>>
Cross(u, v) == u[1] * v[2] - u[2] * v[1]
Dot(u, v)   == u[1] * v[1] + u[2] * v[2]
Square(u)   == Dot(u, u)

\* The neighbours of vertex i, and the edges that meet there.
After(p, i)  == p[(i % Len(p)) + 1]
Before(p, i) == p[IF i = 1 THEN Len(p) ELSE i - 1]
Edge(p, i)   == Minus(After(p, i), p[i])
Turn(p, i)   == Cross(Minus(p[i], Before(p, i)), Edge(p, i))

SumOver(S, f(_)) == MapThenSumSet(f, S)

\* Twice the signed area.
Area2(p) == SumOver(DOMAIN p, LAMBDA i : Cross(p[i], After(p, i)))
IsCCW(p) == Area2(p) > 0

IsConvex(p) == \A i \in DOMAIN p : (Turn(p, i) >= 0) <=> (Turn(p, 1) >= 0)

\* The segments cross; segments that touch or are parallel do not.
Inside(n, d)     == IF d > 0 THEN 0 < n /\ n < d ELSE d < n /\ n < 0
Crosses(a, c, b, d) ==
  LET along == Minus(c, a)
      other == Minus(d, b)
      denom == Cross(along, other)
  IN  denom # 0 /\ Inside(Cross(Minus(b, a), other), denom)
                /\ Inside(Cross(Minus(b, a), along), denom)

IsSimple(p) ==
  \A i, j \in DOMAIN p : i < j => ~Crosses(p[i], After(p, i), p[j], After(p, j))

\* The constructor of b2Triangle turns its corners counter-clockwise.
Triangle(a, b, c) ==
  IF Cross(Minus(b, a), Minus(c, a)) > 0 THEN <<a, b, c>> ELSE <<a, c, b>>

\* Within the triangle, not on its border.  No point is inside a flat one: the
\* barycentric coordinates are then not numbers.
IsInside(t, q) == \A i \in 1..3 : Cross(Edge(t, i), Minus(q, t[i])) > 0

EarTriangle(p, i) == Triangle(p[i], After(p, i), Before(p, i))

\* Seeded fault: the other vertices are not looked at.
IsEarAnyCorner(p, i) == Turn(p, i) <= 0

IsEar(p, i) ==
  /\ Turn(p, i) <= 0
  /\ \A j \in DOMAIN p \ {i, (i % Len(p)) + 1, IF i = 1 THEN Len(p) ELSE i - 1} :
       ~IsInside(EarTriangle(p, i), p[j])

(***************************************************************************)
(* Ears are compared by the sine of their smallest angle.  A sine is kept  *)
(* as its square, a fraction <<numerator, denominator>>; Normalize leaves  *)
(* a zero vector alone, and its sine is zero.                              *)
(***************************************************************************)
Sine(u, v) == IF Square(u) * Square(v) = 0 THEN <<0, 1>>
              ELSE <<Cross(u, v) * Cross(u, v), Square(u) * Square(v)>>
AtMost(q, r) == q[1] * r[2] <= r[1] * q[2]

Sharpness(p, i) ==
  LET t     == EarTriangle(p, i)
      sines == {Sine(Edge(t, j), Edge(t, (j % 3) + 1)) : j \in 1..3}
  IN  CHOOSE s \in sines : \A r \in sines : AtMost(s, r)

Ears(p) == {i \in DOMAIN p : IsEar(p, i)}

\* The ears that the search may settle on: rounding decides between equals.
BestEars(p) ==
  {i \in Ears(p) : \A j \in Ears(p) : AtMost(Sharpness(p, j), Sharpness(p, i))}

(***************************************************************************)
(* A pinch point is a point that two vertices share which do not follow    *)
(* each other.  The polygon falls into the part from the first of them and *)
(* the part from the second.                                               *)
(***************************************************************************)
PinchPoints(p) ==
  {q \in (DOMAIN p) \X (DOMAIN p) : q[2] > q[1] + 1 /\ p[q[1]] = p[q[2]]}

\* Seeded fault: the second part starts over at the first vertex.
PartsWhole(p) ==
  LET q == CHOOSE r \in PinchPoints(p) : TRUE
  IN  <<SubSeq(p, q[1], q[2] - 1), p>>

Parts(p) ==
  LET i == Min({q[1] : q \in PinchPoints(p)})
      j == Min({q[2] : q \in {r \in PinchPoints(p) : r[1] = i}})
  IN  <<SubSeq(p, i, j - 1), SubSeq(p, j, Len(p)) \o SubSeq(p, 1, i - 1)>>

\* Two directions that differ by less than b2_angularSlop, two degrees: 1/821
\* is the square of its sine.
NearParallel(u, v) ==
  821 * Cross(u, v) * Cross(u, v) < Square(u) * Square(v) /\ Dot(u, v) > 0

IsFlat(t) == \E i \in 1..3 : t[i] = After(t, i)

(***************************************************************************)
(* b2Polygon::Add: the corner of t that is not shared goes behind the      *)
(* first shared vertex of p.  With fewer than two shared there is none.    *)
(***************************************************************************)
Shared(p, t) == {i \in DOMAIN p : p[i] \in ToSet(t)}
Corner(t, q) == Min({k \in 1..3 : t[k] = q})
Tip(p, t, i, j) ==
  t[Min({k \in 1..3 : k \notin {Corner(t, p[i]), Corner(t, p[j])}})]

Join(p, t) ==
  LET i == Min(Shared(p, t))
      j == Max(Shared(p, t))
      first == IF i = 1 /\ j = Len(p) THEN Len(p) ELSE i
  IN  InsertAt(p, first + 1, Tip(p, t, i, j))

\* Seeded fault: the polygon that results need not be convex.
CanJoinConcave(p, t) == Cardinality(Shared(p, t)) > 1 /\ Len(p) < MaxVertices

CanJoin(p, t) ==
  Cardinality(Shared(p, t)) > 1 /\ Len(p) < MaxVertices /\ IsConvex(Join(p, t))

\* The n-th of the places K.
Nth(K, n) == CHOOSE i \in K : Cardinality({k \in K : k <= i}) = n

(***************************************************************************)
(* b2Polygon::MergeParallelEdges walks once round the polygon.  For a      *)
(* vertex that equals a neighbour it lowers the count, but does not mark   *)
(* the vertex: the count then drops the last vertices instead.             *)
(***************************************************************************)
Merged(p) ==
  LET Visit(m, i) ==
        LET before == Minus(p[i], Before(p, i))
            same   == Square(before) * Square(Edge(p, i)) = 0
        IN  IF m.count <= 3 THEN m
            ELSE IF same THEN [m EXCEPT !.count = @ - 1]
            ELSE IF NearParallel(before, Edge(p, i))
                 THEN [count |-> m.count - 1, marked |-> m.marked \cup {i}]
                 ELSE m
      m == FoldLeft(Visit, [count |-> Len(p), marked |-> {}], [i \in DOMAIN p |-> i])
  IN  [k \in 1..m.count |-> p[Nth(DOMAIN p \ m.marked, k)]]

(***************************************************************************)
(* b2Polygon::IsUsable, the last test before Box2D gets a piece.  The      *)
(* centroid is a third of Moment by Area2; Depth is its distance from an   *)
(* edge, times the length of the edge and 3 * Area2.                       *)
(***************************************************************************)
Moment(p) ==
  [c \in 1..2 |-> SumOver(DOMAIN p, LAMBDA i :
                    Cross(p[i], After(p, i)) * (p[i][c] + After(p, i)[c]))]
Depth(p, i) ==
  Cross(Edge(p, i), Minus(Moment(p), [c \in 1..2 |-> 3 * Area2(p) * p[i][c]]))

\* No other vertex is closer to the edge than b2_linearSlop.
Thick(p, i) ==
  \A j \in DOMAIN p \ {i, (i % Len(p)) + 1} :
    LET h == 4 * Unit * Cross(Edge(p, i), Minus(p[j], p[i]))
    IN  h > 0 /\ h * h > Square(Edge(p, i))

\* The centroid is at least b2_toiSlop behind the edge.
Deep(p, i) ==
  LET h == Unit * Depth(p, i)
      d == 6 * Area2(p)
  IN  h >= 0 /\ h * h >= d * d * Square(Edge(p, i))

IsUsable(p) ==
  /\ Len(p) \in 3..MaxVertices
  /\ IsConvex(p) /\ IsSimple(p) /\ IsCCW(p)
  /\ \A i \in DOMAIN p :
       /\ Turn(p, i) > 0
       /\ ~(821 * Turn(p, i) * Turn(p, i)
              <= Square(Minus(p[i], Before(p, i))) * Square(Edge(p, i)))
       /\ Thick(p, i) /\ Deep(p, i)
=============================================================================
