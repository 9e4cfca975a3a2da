---------------------------- MODULE Shapes_proofs ----------------------------
(***************************************************************************)
(* Proofs about Shapes.  First, makePhysical and Box2D never divide by the *)
(* length of an edge that is zero.  The points of a stroke keep            *)
(* MIN_POINT_DIST from each other while it is drawn: a sample that is      *)
(* close is dropped, and one that moves the last point goes on in the      *)
(* direction of the segment, which thereby gets longer.  So penUp thins    *)
(* out nothing, and moving the line to its mean, a whole number, changes   *)
(* no length.  Second, the loops of the cutting end: each step leaves less *)
(* to do, since a part of a pinched polygon is shorter than the polygon,   *)
(* an ear takes a vertex away, and a piece takes its first triangle.       *)
(* Third, a box is solid: whichever ear of its four goes first, the two    *)
(* triangles are joined to the rectangle again, which Box2D accepts.       *)
(***************************************************************************)
EXTENDS Shapes, FiniteSetTheorems, SequenceTheorems, WellFoundedInduction, TLAPS

\* A set of numbers has a least one.
LEMMA SmallestNat ==
  ASSUME NEW T \in SUBSET Nat, T # {}
  PROVE  \E n \in T : \A m \in T : n <= m
<1> DEFINE R == OpToRel(<, Nat)
<1>1. IsWellFoundedOn(R, Nat)
  BY NatLessThanWellFounded
<1>2. PICK n \in T : \A m \in T : ~ (<<m, n>> \in R)
  <2> HIDE DEF R
  <2> QED BY <1>1, WFMin
<1>3. \A m \in T : n <= m
  <2>1. TAKE m \in T
  <2>2. <<m, n>> \in R <=> m < n
    BY DEF OpToRel
  <2>3. ~ (m < n)
    BY <1>2, <2>2
  <2>4. QED BY <2>3
<1>4. QED BY <1>3

\* sqrt64 is the square root, rounded down.
LEMMA RootIsRoot ==
  ASSUME NEW n \in Nat
  PROVE  Root(n) \in Nat /\ Root(n) * Root(n) <= n /\ n < (Root(n) + 1) * (Root(n) + 1)
<1> DEFINE T == {k \in Nat : n < (k + 1) * (k + 1)}
<1>1. n \in T
  <2>1. n < (n + 1) * (n + 1)
    OBVIOUS
  <2>2. QED BY <2>1
<1>2. PICK r \in T : \A m \in T : r <= m
  <2> HIDE DEF T
  <2>1. T \in SUBSET Nat
    BY DEF T
  <2>2. QED BY <1>1, <2>1, SmallestNat
<1>3. r \in 0..n /\ n < (r + 1) * (r + 1)
  BY <1>1, <1>2
<1>4. r * r <= n
  <2>1. CASE r = 0
    BY <2>1
  <2>2. CASE r > 0
    <3>1. r - 1 \in Nat /\ ~ (r <= r - 1) /\ r - 1 + 1 = r
      BY <1>3, <2>2
    <3>2. r - 1 \notin T
      BY <1>2, <3>1
    <3>3. ~ (n < (r - 1 + 1) * (r - 1 + 1))
      BY <3>1, <3>2
    <3>4. QED BY <1>3, <3>1, <3>3
  <2>3. QED BY <1>3, <2>1, <2>2
<1>5. Root(n) \in 0..n /\ Root(n) * Root(n) <= n /\ n < (Root(n) + 1) * (Root(n) + 1)
  BY <1>3, <1>4 DEF Root
<1>6. QED BY <1>5

Point == Int \X Int

\* The square of a distance, and of the rounded one.
LEMMA Squares ==
  ASSUME NEW a \in Point, NEW b \in Point
  PROVE  /\ Square2(a, b) \in Nat
         /\ Square2(a, b) = (a[1] - b[1]) * (a[1] - b[1]) + (a[2] - b[2]) * (a[2] - b[2])
<1>1. Square2(a, b) = (a[1] - b[1]) * (a[1] - b[1]) + (a[2] - b[2]) * (a[2] - b[2])
  BY DEF Square2, Square, Dot, Minus, Point
<1>2. \A i \in Int : i * i \in Nat
  OBVIOUS
<1>3. a[1] - b[1] \in Int /\ a[2] - b[2] \in Int
  BY DEF Point
<1>4. QED BY <1>1, <1>2, <1>3

\* So a length can be compared without its root.
LEMMA Lengths ==
  ASSUME NEW a \in Point, NEW b \in Point, NEW k \in Nat
  PROVE  /\ Length(a, b) \in Nat
         /\ Length(a, b) >= k <=> Square2(a, b) >= k * k
<1>1. PICK n, r : n = Square2(a, b) /\ r = Root(n)
  OBVIOUS
<1>2. n \in Nat /\ r \in Nat /\ r * r <= n /\ n < (r + 1) * (r + 1)
  BY <1>1, Squares, RootIsRoot
<1>3. r >= k => n >= k * k
  BY <1>2
<1>4. n >= k * k => r >= k
  BY <1>2
<1>5. QED BY <1>1, <1>2, <1>3, <1>4 DEF Length

-----------------------------------------------------------------------------
(***************************************************************************)
(* Sums.  The fold behind SumOver is a recursive function on the subsets   *)
(* of a finite set: it exists since it can be built up size by size, and   *)
(* what it computes follows from a smallest subset that would break it.    *)
(***************************************************************************)
Adds(D, f, g) ==
  g = [s \in SUBSET D |->
         IF s = {} THEN 0 ELSE LET i == CHOOSE i \in s : TRUE IN f[i] + g[s \ {i}]]

LEMMA SumExists ==
  ASSUME NEW D, IsFiniteSet(D), NEW f
  PROVE  \E g : Adds(D, f, g)
<1>1. \A s \in SUBSET D : IsFiniteSet(s) /\ Cardinality(s) \in Nat /\ Cardinality(s) <= Cardinality(D)
  BY FS_Subset, FS_CardinalityType
<1> DEFINE Body(g, s) == IF s = {} THEN 0 ELSE LET i == CHOOSE i \in s : TRUE IN f[i] + g[s \ {i}]
           Some(n)    == \E g : \A s \in SUBSET D : Cardinality(s) <= n => g[s] = Body(g, s)
<1>2. ASSUME NEW s \in SUBSET D, s # {}, NEW g, NEW h,
             \A r \in SUBSET D : Cardinality(r) < Cardinality(s) => h[r] = g[r]
      PROVE  Body(h, s) = Body(g, s)
  <2>1. PICK i : i = CHOOSE j \in s : TRUE
    OBVIOUS
  <2>2. i \in s
    BY <1>2, <2>1
  <2>3. s \ {i} \in SUBSET D /\ Cardinality(s \ {i}) < Cardinality(s)
    <3>1. Cardinality(s \ {i}) = Cardinality(s) - 1
      BY <1>1, <2>2, FS_RemoveElement
    <3>2. QED BY <1>1, <3>1
  <2>4. h[s \ {i}] = g[s \ {i}]
    BY <1>2, <2>3
  <2>5. Body(g, s) = f[i] + g[s \ {i}] /\ Body(h, s) = f[i] + h[s \ {i}]
    BY <1>2, <2>1
  <2>6. QED BY <2>4, <2>5
<1>3. Some(0)
  <2>1. PICK g : g = [s \in SUBSET D |-> 0]
    OBVIOUS
  <2>2. \A s \in SUBSET D : Cardinality(s) <= 0 => s = {}
    BY <1>1, FS_EmptySet
  <2>3. \A s \in SUBSET D : Cardinality(s) <= 0 => g[s] = Body(g, s)
    BY <2>1, <2>2
  <2>4. QED BY <2>3
<1>4. ASSUME NEW n \in Nat, Some(n) PROVE Some(n + 1)
  <2>1. PICK g : \A s \in SUBSET D : Cardinality(s) <= n => g[s] = Body(g, s)
    BY <1>4
  <2>2. PICK h : h = [s \in SUBSET D |-> IF Cardinality(s) <= n THEN g[s] ELSE Body(g, s)]
    OBVIOUS
  <2>3. \A r \in SUBSET D : Cardinality(r) <= n => h[r] = g[r]
    BY <2>2
  <2>4. ASSUME NEW s \in SUBSET D, Cardinality(s) <= n + 1 PROVE h[s] = Body(h, s)
    <3>1. h[s] = Body(g, s)
      <4> HIDE DEF Body
      <4> QED BY <2>1, <2>2
    <3>2. CASE s = {}
      BY <3>1, <3>2
    <3>3. CASE s # {}
      <4>1. \A r \in SUBSET D : Cardinality(r) < Cardinality(s) => Cardinality(r) <= n
        BY <1>1, <2>4
      <4>2. \A r \in SUBSET D : Cardinality(r) < Cardinality(s) => h[r] = g[r]
        BY <2>3, <4>1
      <4>3. Body(h, s) = Body(g, s)
        <5> HIDE DEF Body
        <5> QED BY <1>2, <3>3, <4>2
      <4>4. QED BY <3>1, <4>3
    <3>4. QED BY <3>2, <3>3
  <2>5. QED BY <2>4
<1>5. Some(Cardinality(D))
  <2>1. SUFFICES ASSUME NEW N \in Nat, ~ Some(N) PROVE FALSE
    BY <1>1
  <2> HIDE DEF Some
  <2>2. PICK T : T = {n \in Nat : ~ Some(n)}
    OBVIOUS
  <2>3. PICK n \in T : \A m \in T : n <= m
    BY <2>1, <2>2, SmallestNat
  <2>4. n # 0
    BY <1>3, <2>2, <2>3
  <2>5. n - 1 \in Nat /\ ~ (n <= n - 1) /\ n - 1 + 1 = n
    BY <2>2, <2>3, <2>4
  <2>6. Some(n - 1)
    BY <2>2, <2>3, <2>5
  <2>7. QED BY <1>4, <2>2, <2>3, <2>5, <2>6
<1>6. PICK g : \A s \in SUBSET D : Cardinality(s) <= Cardinality(D) => g[s] = Body(g, s)
  BY <1>5
<1>7. PICK h : h = [s \in SUBSET D |-> g[s]]
  OBVIOUS
<1>8. ASSUME NEW s \in SUBSET D PROVE h[s] = Body(h, s)
  <2>1. h[s] = Body(g, s)
    BY <1>1, <1>6, <1>7
  <2>2. CASE s = {}
    BY <2>1, <2>2
  <2>3. CASE s # {}
    <3>1. \A r \in SUBSET D : Cardinality(r) < Cardinality(s) => h[r] = g[r]
      BY <1>7
    <3>2. Body(h, s) = Body(g, s)
      <4> HIDE DEF Body
      <4> QED BY <1>2, <2>3, <3>1
    <3>3. QED BY <2>1, <3>2
  <2>4. QED BY <2>2, <2>3
<1>9. h = [s \in SUBSET D |-> Body(h, s)]
  <2> HIDE DEF Body
  <2> QED BY <1>7, <1>8
<1>10. Adds(D, f, h)
  BY <1>9 DEF Adds
<1>11. QED BY <1>10

\* One step of the sum: some element of s comes last.
LEMMA SumStep ==
  ASSUME NEW D, NEW f, NEW g, Adds(D, f, g), NEW s \in SUBSET D
  PROVE  IF s = {} THEN g[s] = 0 ELSE \E i \in s : g[s] = f[i] + g[s \ {i}]
<1>1. CASE s = {}
  BY <1>1 DEF Adds
<1>2. CASE s # {}
  <2>1. PICK i : i = CHOOSE j \in s : TRUE
    OBVIOUS
  <2>2. i \in s
    BY <1>2, <2>1
  <2>3. g[s] = f[i] + g[s \ {i}]
    BY <1>2, <2>1 DEF Adds
  <2>4. QED BY <1>2, <2>2, <2>3
<1>3. QED BY <1>1, <1>2

\* A sum of numbers of a kind is a number of this kind.
LEMMA SumTyped ==
  ASSUME NEW D, IsFiniteSet(D), NEW V, 0 \in V, \A a, b \in V : a + b \in V,
         NEW f \in [D -> V], NEW g, Adds(D, f, g)
  PROVE  \A s \in SUBSET D : g[s] \in V
<1>1. SUFFICES ASSUME NEW u \in SUBSET D, g[u] \notin V PROVE FALSE
  OBVIOUS
<1>2. \A s \in SUBSET D : IsFiniteSet(s) /\ Cardinality(s) \in Nat
  BY FS_Subset, FS_CardinalityType
<1>3. PICK T : T = {n \in Nat : \E s \in SUBSET D : Cardinality(s) = n /\ g[s] \notin V}
  OBVIOUS
<1>4. Cardinality(u) \in T
  BY <1>1, <1>2, <1>3
<1>5. PICK n \in T : \A m \in T : n <= m
  BY <1>3, <1>4, SmallestNat
<1>6. PICK s \in SUBSET D : Cardinality(s) = n /\ g[s] \notin V
  BY <1>3, <1>5
<1>7. s # {}
  BY <1>6, SumStep
<1>8. PICK i \in s : g[s] = f[i] + g[s \ {i}]
  BY <1>7, SumStep
<1>9. Cardinality(s \ {i}) = n - 1 /\ s \ {i} \in SUBSET D /\ n - 1 \in Nat
  <2>1. Cardinality(s \ {i}) = n - 1
    BY <1>2, <1>6, <1>8, FS_RemoveElement
  <2>2. QED BY <1>2, <2>1
<1>10. g[s \ {i}] \in V
  <2>1. n - 1 \notin T
    BY <1>3, <1>5, <1>9
  <2>2. QED BY <1>3, <1>9, <2>1
<1>11. QED BY <1>6, <1>8, <1>10

\* Any element may come last.
LEMMA SumAny ==
  ASSUME NEW D, IsFiniteSet(D), NEW f \in [D -> Int], NEW g, Adds(D, f, g),
         NEW u \in SUBSET D, NEW v \in u
  PROVE  g[u] = f[v] + g[u \ {v}]
<1> DEFINE Off(s, e) == g[s] # f[e] + g[s \ {e}]
<1>1. SUFFICES ASSUME Off(u, v) PROVE FALSE
  OBVIOUS
<1>2. \A s \in SUBSET D : IsFiniteSet(s) /\ Cardinality(s) \in Nat
  BY FS_Subset, FS_CardinalityType
<1>3. \A s \in SUBSET D : g[s] \in Int
  <2>1. 0 \in Int /\ \A a, b \in Int : a + b \in Int
    OBVIOUS
  <2>2. QED BY <2>1, SumTyped
<1> HIDE DEF Off
<1>4. PICK T : T = {n \in Nat : \E s \in SUBSET D : \E e \in s : Cardinality(s) = n /\ Off(s, e)}
  OBVIOUS
<1>5. Cardinality(u) \in T
  BY <1>1, <1>2, <1>4
<1>6. PICK n \in T : \A m \in T : n <= m
  BY <1>4, <1>5, SmallestNat
<1>6a. PICK s \in SUBSET D : \E e \in s : Cardinality(s) = n /\ Off(s, e)
  BY <1>4, <1>6
<1>7. PICK e \in s : Cardinality(s) = n /\ Off(s, e)
  BY <1>6a
<1>8. PICK i \in s : g[s] = f[i] + g[s \ {i}]
  BY <1>7, SumStep
<1>9. i # e
  BY <1>7, <1>8 DEF Off
<1>10. /\ s \ {i} \in SUBSET D /\ s \ {e} \in SUBSET D /\ n - 1 \in Nat
       /\ Cardinality(s \ {i}) = n - 1 /\ Cardinality(s \ {e}) = n - 1
  <2>1. Cardinality(s \ {i}) = n - 1 /\ Cardinality(s \ {e}) = n - 1
    BY <1>2, <1>7, <1>8, FS_RemoveElement
  <2>2. QED BY <1>2, <2>1
<1>11. n - 1 \notin T
  BY <1>4, <1>6, <1>10
<1>12. ~ Off(s \ {i}, e) /\ ~ Off(s \ {e}, i)
  BY <1>4, <1>7, <1>8, <1>9, <1>10, <1>11
<1>13. PICK r : r = s \ {i, e}
  OBVIOUS
<1>14. (s \ {i}) \ {e} = r /\ (s \ {e}) \ {i} = r /\ r \in SUBSET D
  BY <1>13
<1>15. g[s \ {i}] = f[e] + g[r] /\ g[s \ {e}] = f[i] + g[r]
  BY <1>12, <1>14 DEF Off
<1>16. f[e] \in Int /\ f[i] \in Int /\ g[r] \in Int
  BY <1>3, <1>7, <1>8, <1>14
<1>17. g[s] = f[e] + g[s \ {e}]
  BY <1>8, <1>15, <1>16
<1>18. QED BY <1>7, <1>17 DEF Off

\* The sum of a coordinate of the points, for the mean.
Total(p, c) == SumOver(DOMAIN p, LAMBDA i : p[i][c])

LEMMA SumIsInt ==
  ASSUME NEW p \in Seq(Point), NEW c \in 1..2
  PROVE  Total(p, c) \in Int
<1>1. PICK D : D = DOMAIN p
  OBVIOUS
<1>2. D = 1..Len(p) /\ Len(p) \in Nat /\ IsFiniteSet(D)
  BY <1>1, LenProperties, FS_Interval
<1>3. PICK f : f = [i \in D |-> p[i][c]]
  OBVIOUS
<1>4. f \in [D -> Int]
  <2>1. \A i \in D : p[i][c] \in Int
    BY <1>2, ElementOfSeq DEF Point
  <2>2. QED BY <1>3, <2>1
<1> DEFINE Fold(g) == g = [s \in SUBSET D |->
                             IF s = {} THEN 0 ELSE LET i == CHOOSE i \in s : TRUE IN p[i][c] + g[s \ {i}]]
<1>5. ASSUME NEW g PROVE Adds(D, f, g) <=> Fold(g)
  <2>1. \A s \in SUBSET D : s # {} => (CHOOSE i \in s : TRUE) \in D
    OBVIOUS
  <2>2. ASSUME NEW s \in SUBSET D
        PROVE  (IF s = {} THEN 0 ELSE LET i == CHOOSE i \in s : TRUE IN f[i] + g[s \ {i}])
             = (IF s = {} THEN 0 ELSE LET i == CHOOSE i \in s : TRUE IN p[i][c] + g[s \ {i}])
    BY <1>3, <2>1
  <2>3. [s \in SUBSET D |-> IF s = {} THEN 0 ELSE LET i == CHOOSE i \in s : TRUE IN f[i] + g[s \ {i}]]
      = [s \in SUBSET D |-> IF s = {} THEN 0 ELSE LET i == CHOOSE i \in s : TRUE IN p[i][c] + g[s \ {i}]]
    BY <2>2
  <2>4. QED BY <2>3 DEF Adds
<1>6. PICK g : g = CHOOSE h : Fold(h)
  OBVIOUS
<1>7. Fold(g)
  <2>1. \E h : Fold(h)
    <3> HIDE DEF Fold
    <3> QED BY <1>2, <1>5, SumExists
  <2> HIDE DEF Fold
  <2> QED BY <1>6, <2>1
<1>8. g[D] \in Int
  <2>1. Adds(D, f, g)
    BY <1>5, <1>7
  <2>2. 0 \in Int /\ (\A a, b \in Int : a + b \in Int) /\ D \in SUBSET D
    OBVIOUS
  <2> HIDE DEF Fold
  <2> QED BY <1>2, <1>4, <2>1, <2>2, SumTyped
<1>9. Total(p, c) = g[D]
  BY <1>1, <1>6 DEF Total, SumOver, MapThenSumSet, MapThenFoldSet
<1>10. QED BY <1>8, <1>9

-----------------------------------------------------------------------------
\* Neighbours on an open line are at least k apart.
Spread(p, k) == \A i \in 2..Len(p) : Square2(p[i - 1], p[i]) >= k * k

MIN == MIN_POINT_DIST

\* A line that goes on gets longer.
LEMMA GoesFurther ==
  ASSUME NEW a \in Point, NEW b \in Point, NEW q \in Point, GoesOn(a, b, q)
  PROVE  Square2(a, q) >= Square2(a, b)
<1>1. PICK x1, x2, y1, y2 : /\ x1 = b[1] - a[1] /\ x2 = b[2] - a[2]
                            /\ y1 = q[1] - b[1] /\ y2 = q[2] - b[2]
  OBVIOUS
<1>2. x1 \in Int /\ x2 \in Int /\ y1 \in Int /\ y2 \in Int
  BY <1>1 DEF Point
<1>3. PICK d, l : /\ d = Dot(Minus(b, a), Minus(q, b))
                  /\ l = Length(a, b) * Length(b, q)
  OBVIOUS
<1>4. l > 0 /\ d * 10000 > l * 9397
  BY <1>3 DEF GoesOn, Cos20
<1>5. d = x1 * y1 + x2 * y2
  BY <1>1, <1>3 DEF Dot, Minus
<1>6. l \in Nat /\ d \in Int
  <2>1. Length(a, b) \in Nat /\ Length(b, q) \in Nat
    BY Lengths
  <2>2. QED BY <1>2, <1>3, <1>5, <2>1
<1>7. d > 0
  BY <1>4, <1>6
<1>8. Square2(a, b) = x1 * x1 + x2 * x2
  <2>1. a[1] - b[1] = - x1 /\ a[2] - b[2] = - x2
    BY <1>1 DEF Point
  <2>2. Square2(a, b) = (- x1) * (- x1) + (- x2) * (- x2)
    BY <2>1, Squares
  <2>3. QED BY <1>2, <2>2
<1>9. Square2(a, q) = (x1 + y1) * (x1 + y1) + (x2 + y2) * (x2 + y2)
  <2>1. a[1] - q[1] = - (x1 + y1) /\ a[2] - q[2] = - (x2 + y2)
    BY <1>1 DEF Point
  <2>2. Square2(a, q) = (- (x1 + y1)) * (- (x1 + y1)) + (- (x2 + y2)) * (- (x2 + y2))
    BY <2>1, Squares
  <2>3. \A u \in Int : (- u) * (- u) = u * u
    OBVIOUS
  <2>4. x1 + y1 \in Int /\ x2 + y2 \in Int
    BY <1>2
  <2>5. QED BY <2>2, <2>3, <2>4
<1>10. (x1 + y1) * (x1 + y1) + (x2 + y2) * (x2 + y2)
         = (x1 * x1 + x2 * x2) + 2 * (x1 * y1 + x2 * y2) + (y1 * y1 + y2 * y2)
  BY <1>2
<1>11. y1 * y1 \in Nat /\ y2 * y2 \in Nat /\ x1 * x1 \in Nat /\ x2 * x2 \in Nat
  BY <1>2
<1>12. QED BY <1>5, <1>6, <1>7, <1>8, <1>9, <1>10, <1>11

\* PenMoveLine keeps the points apart.
LEMMA DrawnSpread ==
  ASSUME NEW p \in Seq(Point), Len(p) > 0, NEW q \in Point, Spread(p, MIN)
  PROVE  Drawn(p, q) \in Seq(Point) /\ Len(Drawn(p, q)) > 0 /\ Spread(Drawn(p, q), MIN)
<1>1. PICK n : n = Len(p)
  OBVIOUS
<1>2. n \in Nat \ {0} /\ \A i \in 1..n : p[i] \in Point
  BY <1>1, ElementOfSeq, LenProperties
<1>3. ASSUME Square2(p[n], q) >= MIN * MIN
      PROVE  LET a == Added(p, q) IN a \in Seq(Point) /\ Len(a) > 0 /\ Spread(a, MIN)
  <2>1. CASE n = MAX_VERTICES
    BY <1>1, <2>1 DEF Added
  <2>2. CASE n # MAX_VERTICES
    <3>1. PICK a : a = Append(p, q)
      OBVIOUS
    <3>2. /\ a \in Seq(Point) /\ Len(a) = n + 1 /\ a[n + 1] = q
          /\ \A i \in 1..n : a[i] = p[i]
      BY <1>1, <3>1, AppendProperties
    <3>3. ASSUME NEW i \in 2..Len(a) PROVE Square2(a[i - 1], a[i]) >= MIN * MIN
      <4>1. CASE i = n + 1
        <5>1. i - 1 = n /\ a[i] = q /\ a[i - 1] = p[n]
          BY <1>2, <3>2, <4>1
        <5>2. QED BY <1>3, <5>1
      <4>2. CASE i # n + 1
        <5>1. i \in 2..n /\ i - 1 \in 1..n /\ i \in 1..n
          BY <1>2, <3>2, <4>2
        <5>2. QED BY <1>1, <3>2, <5>1 DEF Spread
      <4>3. QED BY <4>1, <4>2
    <3>4. Added(p, q) = a
      BY <1>1, <2>2, <3>1 DEF Added
    <3>5. QED BY <1>2, <3>2, <3>3, <3>4 DEF Spread
  <2>3. QED BY <2>1, <2>2
<1>4. CASE n = 1
  BY <1>1, <1>3, <1>4 DEF Drawn, MIN
<1>5. CASE n # 1 /\ ~ (Length(p[n], q) <= MIN_POINT_DIST)
  <2>1. n \in 1..n /\ n - 1 \in 1..n /\ n \in 2..n
    BY <1>2, <1>5
  <2>2. p[n] \in Point /\ p[n - 1] \in Point
    BY <1>2, <2>1
  <2>3. Square2(p[n], q) >= MIN * MIN
    <3>2. 7 \in Nat
      OBVIOUS
    <3>0. Length(p[n], q) \in Nat
      BY <2>2, <3>2, Lengths
    <3>1. Length(p[n], q) \in Nat /\ Length(p[n], q) >= 7
      BY <1>5, <3>0 DEF MIN_POINT_DIST
    <3>3. Square2(p[n], q) >= 7 * 7
      BY <2>2, <3>1, <3>2, Lengths
    <3>4. QED BY <3>3 DEF MIN, MIN_POINT_DIST
  <2>4. CASE GoesOn(p[n - 1], p[n], q)
    <3>1. PICK a : a = [p EXCEPT ![n] = q]
      OBVIOUS
    <3>2. /\ a \in Seq(Point) /\ Len(a) = n /\ a[n] = q
          /\ \A i \in 1..n - 1 : a[i] = p[i]
      BY <1>1, <1>2, <2>1, <3>1, ExceptSeq
    <3>3. Square2(p[n - 1], q) >= Square2(p[n - 1], p[n]) /\ Square2(p[n - 1], p[n]) >= MIN * MIN
      BY <1>1, <2>1, <2>2, <2>4, GoesFurther DEF Spread
    <3>4. ASSUME NEW i \in 2..Len(a) PROVE Square2(a[i - 1], a[i]) >= MIN * MIN
      <4>1. CASE i = n
        <5>1. a[i] = q /\ a[i - 1] = p[n - 1]
          BY <2>1, <3>2, <4>1
        <5>2. Square2(p[n - 1], q) \in Nat /\ Square2(p[n - 1], p[n]) \in Nat
          BY <2>2, Squares
        <5>3. QED BY <3>3, <5>1, <5>2 DEF MIN, MIN_POINT_DIST
      <4>2. CASE i # n
        <5>1. i \in 2..n /\ i - 1 \in 1..n - 1 /\ i \in 1..n - 1
          BY <1>2, <3>2, <4>2
        <5>2. QED BY <1>1, <3>2, <5>1 DEF Spread
      <4>3. QED BY <4>1, <4>2
    <3>5. Drawn(p, q) = a
      BY <1>1, <1>5, <2>4, <3>1 DEF Drawn
    <3>6. QED BY <1>2, <3>2, <3>4, <3>5 DEF Spread
  <2>5. CASE ~ GoesOn(p[n - 1], p[n], q) /\ n < MAX_POINTS - 1
    BY <1>1, <1>3, <1>5, <2>3, <2>5 DEF Drawn
  <2>6. CASE ~ GoesOn(p[n - 1], p[n], q) /\ ~ (n < MAX_POINTS - 1)
    BY <1>1, <1>5, <2>6 DEF Drawn
  <2>7. QED BY <2>4, <2>5, <2>6
<1>6. CASE n # 1 /\ Length(p[n], q) <= MIN_POINT_DIST
  BY <1>1, <1>6 DEF Drawn
<1>7. CASE n = 1 /\ ~ (Square2(p[1], q) >= MIN * MIN)
  BY <1>1, <1>7 DEF Drawn, MIN
<1>8. QED BY <1>4, <1>5, <1>6, <1>7

-----------------------------------------------------------------------------
\* Without neighbours that are close, none is left out.
LEMMA AllKept ==
  ASSUME NEW p \in Seq(Point), Len(p) > 0, Spread(p, MIN)
  PROVE  Thinned(p) = p
<1>1. PICK n : n = Len(p)
  OBVIOUS
<1>2. n \in Nat \ {0} /\ (\A i \in 1..n : p[i] \in Point) /\ DOMAIN p = 1..n
  BY <1>1, ElementOfSeq, LenProperties
<1>3. ASSUME NEW i \in 2..n PROVE Length(p[i - 1], p[i]) >= 5
  <2>1. i \in 1..n /\ i - 1 \in 1..n /\ 5 \in Nat
    BY <1>2
  <2>2. p[i - 1] \in Point /\ p[i] \in Point
    BY <1>2, <2>1
  <2>3. Square2(p[i - 1], p[i]) >= 49 /\ Square2(p[i - 1], p[i]) \in Nat
    BY <1>1, <2>2, Squares DEF Spread, MIN, MIN_POINT_DIST
  <2>4. Square2(p[i - 1], p[i]) >= 5 * 5
    BY <2>3
  <2>5. QED BY <2>1, <2>2, <2>4, Lengths
<1>4. Kept(p) = 1..n
  <2>1. Far(p) = 2..n
    BY <1>1, <1>3 DEF Far
  <2>2. (1..n) \cap ({1} \cup 2..n) = 1..n
    BY <1>2
  <2>3. QED BY <1>2, <2>1, <2>2 DEF Kept
<1>5. Cardinality(Kept(p)) = n
  BY <1>2, <1>4, FS_Interval
<1>6. ASSUME NEW i \in 1..n PROVE Nth(Kept(p), i) = i
  <2>1. ASSUME NEW j \in 1..n PROVE Cardinality({k \in 1..n : k <= j}) = j
    <3>1. {k \in 1..n : k <= j} = 1..j
      BY <1>2
    <3>2. 1 \in Int /\ j \in Int /\ ~ (1 > j) /\ j - 1 + 1 = j
      BY <1>2
    <3>3. Cardinality(1..j) = j
      BY <3>2, FS_Interval
    <3>4. QED BY <3>1, <3>3
  <2>2. QED BY <1>4, <2>1 DEF Nth
<1>7. Thinned(p) = [i \in 1..n |-> p[i]]
  BY <1>5, <1>6 DEF Thinned, Selected
<1>8. QED BY <1>2, <1>7

\* The end of a closed line is not where it began.
LEMMA OpenedEnds ==
  ASSUME NEW p \in Seq(Point), Len(p) > 0, Spread(p, MIN)
  PROVE  /\ Opened(p) \in Seq(Point) /\ Spread(Opened(p), MIN)
         /\ Len(Opened(p)) > 1 => Opened(p)[1] # Opened(p)[Len(Opened(p))]
<1>1. PICK n : n = Len(p)
  OBVIOUS
<1>2. n \in Nat \ {0} /\ (\A i \in 1..n : p[i] \in Point)
  BY <1>1, ElementOfSeq, LenProperties
<1>3. p[1] \in Point /\ p[n] \in Point /\ Square2(p[1], p[n]) \in Nat
  BY <1>2, Squares
<1>4. \A a \in Point : Square2(a, a) = 0
  <2>1. TAKE a \in Point
  <2>2. a[1] - a[1] = 0 /\ a[2] - a[2] = 0
    BY DEF Point
  <2>3. QED BY <2>2, Squares
<1>5. CASE ~ (Square2(p[1], p[n]) < MIN * MIN)
  <2>1. Opened(p) = p
    BY <1>1, <1>5 DEF Opened, MIN
  <2>2. p[1] # p[n]
    BY <1>3, <1>4, <1>5 DEF MIN, MIN_POINT_DIST
  <2>3. QED BY <1>1, <2>1, <2>2
<1>6. CASE Square2(p[1], p[n]) < MIN * MIN
  <2>1. PICK o : o = SubSeq(p, 1, n - 1)
    OBVIOUS
  <2>2. /\ o \in Seq(Point) /\ Len(o) = n - 1
        /\ \A i \in 1..n - 1 : o[i] = p[i]
    <3>1. n - 1 \in Int /\ 1 \in Int /\ \A i \in 1..n - 1 : p[i] \in Point
      BY <1>2
    <3>2. /\ o \in Seq(Point)
          /\ Len(o) = IF 1 <= n - 1 THEN n - 1 - 1 + 1 ELSE 0
          /\ \A i \in 1..n - 1 - 1 + 1 : o[i] = p[1 + i - 1]
      BY <2>1, <3>1, SubSeqProperties
    <3>3. n - 1 - 1 + 1 = n - 1 /\ \A i \in 1..n - 1 : 1 + i - 1 = i
      BY <1>2
    <3>4. QED BY <1>2, <3>2, <3>3
  <2>3. Opened(p) = o
    BY <1>1, <1>6, <2>1 DEF Opened, MIN, Front
  <2>4. ASSUME NEW i \in 2..Len(o) PROVE Square2(o[i - 1], o[i]) >= MIN * MIN
    <3>1. i \in 2..n /\ i - 1 \in 1..n - 1 /\ i \in 1..n - 1
      BY <1>2, <2>2
    <3>2. QED BY <1>1, <2>2, <3>1 DEF Spread
  <2>5. ASSUME Len(o) > 1 PROVE o[1] # o[Len(o)]
    <3>1. n \in 2..n /\ n - 1 \in 1..n - 1 /\ 1 \in 1..n - 1
      BY <1>2, <2>2, <2>5
    <3>2. Square2(p[n - 1], p[n]) >= MIN * MIN
      BY <1>1, <3>1 DEF Spread
    <3>3. p[n - 1] # p[1]
      BY <1>3, <1>6, <3>2 DEF MIN, MIN_POINT_DIST
    <3>4. QED BY <2>2, <3>1, <3>3
  <2>6. QED BY <2>2, <2>3, <2>4, <2>5 DEF Spread
<1>7. QED BY <1>5, <1>6

\* Moving a line does not change its lengths.
LEMMA MovedLength ==
  ASSUME NEW a \in Point, NEW b \in Point, NEW m \in Point
  PROVE  /\ Minus(a, m) \in Point /\ Square2(Minus(a, m), Minus(b, m)) = Square2(a, b)
         /\ Length(Minus(a, m), Minus(b, m)) = Length(a, b)
         /\ a # b => Minus(a, m) # Minus(b, m)
<1>1. Minus(a, m) = <<a[1] - m[1], a[2] - m[2]>> /\ Minus(b, m) = <<b[1] - m[1], b[2] - m[2]>>
  BY DEF Minus
<1>2. a[1] \in Int /\ a[2] \in Int /\ b[1] \in Int /\ b[2] \in Int /\ m[1] \in Int /\ m[2] \in Int
      /\ a = <<a[1], a[2]>> /\ b = <<b[1], b[2]>>
  BY DEF Point
<1>3. Minus(a, m) \in Point /\ Minus(b, m) \in Point
  BY <1>1, <1>2 DEF Point
<1>4. Minus(Minus(a, m), Minus(b, m)) = Minus(a, b)
  BY <1>1, <1>2 DEF Minus
<1>5. a # b => Minus(a, m) # Minus(b, m)
  BY <1>1, <1>2
<1>6. QED BY <1>3, <1>4, <1>5 DEF Square2, Length

\* The mean, on which the line is centred, is a whole number.
LEMMA MeanIsInt ==
  ASSUME NEW p \in Seq(Point), Len(p) > 0, NEW c \in 1..2
  PROVE  Mean(p, c) \in Int
<1>1. PICK t, n : t = Total(p, c) /\ n = Len(p)
  OBVIOUS
<1>2. t \in Int /\ n \in Nat \ {0}
  BY <1>1, SumIsInt, LenProperties
<1>3. Quotient(t, n) \in Int
  BY <1>2 DEF Quotient
<1>4. Mean(p, c) = Quotient(Total(p, c), Len(p))
  BY DEF Mean, Total
<1>5. QED BY <1>1, <1>3, <1>4

\* What penUp makes of its points, wherever their mean lies.
LEMMA RecentredEdges ==
  ASSUME NEW p \in Seq(Point), Len(p) > 1, Spread(p, 5), Recentred(p), p[1] # p[Len(p)]
  PROVE  /\ \A i \in 2..Len(vertices') : Length(vertices'[i - 1], vertices'[i]) >= 5
         /\ vertices'[1] # Last(vertices')
<1>1. PICK n, m : n = Len(p) /\ m = <<Mean(p, 1), Mean(p, 2)>>
  OBVIOUS
<1>2. n \in Nat /\ n > 1 /\ (\A i \in 1..n : p[i] \in Point) /\ DOMAIN p = 1..n
  BY <1>1, ElementOfSeq, LenProperties
<1>3. m \in Point
  <2>1. 1 \in 1..2 /\ 2 \in 1..2 /\ Len(p) > 0
    BY <1>1, <1>2
  <2>2. Mean(p, 1) \in Int /\ Mean(p, 2) \in Int
    BY <2>1, MeanIsInt
  <2>3. QED BY <1>1, <2>2 DEF Point
<1>4. PICK v : v = [i \in 1..n |-> Minus(p[i], m)]
  OBVIOUS
<1>5. vertices' = v
  BY <1>1, <1>2, <1>4 DEF Recentred
<1>6. \A i \in 1..n : v[i] = Minus(p[i], m) /\ v[i] \in Point
  BY <1>2, <1>3, <1>4, MovedLength
<1>7. v \in Seq(Point) /\ Len(v) = n
  <2>1. v \in [1..n -> Point]
    BY <1>4, <1>6
  <2>2. v \in Seq(Point)
    BY <1>2, <2>1, SeqDef
  <2>3. QED BY <1>2, <2>1, <2>2, LenProperties
<1>8. ASSUME NEW i \in 2..n PROVE Length(v[i - 1], v[i]) >= 5
  <2>1. i \in 1..n /\ i - 1 \in 1..n /\ 5 \in Nat
    BY <1>2
  <2>2. p[i - 1] \in Point /\ p[i] \in Point
    BY <1>2, <2>1
  <2>3. Square2(p[i - 1], p[i]) >= 5 * 5
    BY <1>1 DEF Spread
  <2>4. Length(p[i - 1], p[i]) >= 5
    BY <2>1, <2>2, <2>3, Lengths
  <2>5. QED BY <1>3, <1>6, <2>1, <2>2, <2>4, MovedLength
<1>9. v[1] # v[n]
  <2>1. 1 \in 1..n /\ n \in 1..n /\ p[1] # p[n]
    BY <1>1, <1>2
  <2>2. QED BY <1>2, <1>3, <1>6, <2>1, MovedLength
<1>10. QED BY <1>5, <1>7, <1>8, <1>9 DEF Last

-----------------------------------------------------------------------------
(***************************************************************************)
(* While a stroke is drawn its points are apart, and a box is the one that *)
(* its first corner and the last sample span.                              *)
(***************************************************************************)
Spanned == /\ Len(vertices) = 4
           /\ \/ vertices = BoxTo(vertices[1], <<lastx, lasty>>)
              \/ <<lastx, lasty>> = vertices[1]

Drawing ==
  stage = "drawing" =>
    /\ vertices \in Seq(Point) /\ Len(vertices) > 0
    /\ lastx \in Int /\ lasty \in Int
    /\ mode = "polygon" => Spread(vertices, MIN)
    /\ mode = "box" => Spanned

SInv == mode \in {"polygon", "box"} /\ Drawing /\ NoZeroEdge

\* The stylus is somewhere on the screen.
LEMMA PixelIsPoint ==
  ASSUME NEW q \in Points
  PROVE  Pixel(q) \in Point
<1>1. q \in Nat \X Nat /\ Unit \in Nat
  BY PointsAssumption, UnitAssumption
<1>2. q[1] \in Nat /\ q[2] \in Nat
  BY <1>1
<1>3. Unit * q[1] \in Int /\ Unit * q[2] \in Int
  BY <1>1, <1>2
<1>4. QED BY <1>3 DEF Pixel, Point

\* The corners of a box: c, the sample q across from it, and the two between.
LEMMA FourPoints ==
  ASSUME NEW a \in Point, NEW b \in Point, NEW c \in Point, NEW d \in Point
  PROVE  /\ <<a, b, c, d>> \in Seq(Point) /\ Len(<<a, b, c, d>>) = 4
         /\ <<a, b, c, d>>[1] = a /\ <<a, b, c, d>>[2] = b
         /\ <<a, b, c, d>>[3] = c /\ <<a, b, c, d>>[4] = d
OBVIOUS

LEMMA Corners ==
  ASSUME NEW c \in Point, NEW q \in Point
  PROVE  LET v == BoxTo(c, q)
         IN  /\ v \in Seq(Point) /\ Len(v) = 4 /\ v[1] = c
             /\ \/ v[2] = <<q[1], c[2]>> /\ v[3] = q /\ v[4] = <<c[1], q[2]>>
                \/ v[2] = <<c[1], q[2]>> /\ v[3] = q /\ v[4] = <<q[1], c[2]>>
<1>1. PICK a, b : a = <<q[1], c[2]>> /\ b = <<c[1], q[2]>>
  OBVIOUS
<1>2. a \in Point /\ b \in Point
  BY <1>1 DEF Point
<1>3. BoxTo(c, q) = <<c, a, q, b>> \/ BoxTo(c, q) = <<c, b, q, a>>
  BY <1>1 DEF BoxTo
<1>4. CASE BoxTo(c, q) = <<c, a, q, b>>
  <2>1. PICK v : v = <<c, a, q, b>>
    OBVIOUS
  <2>2. v \in Seq(Point) /\ Len(v) = 4 /\ v[1] = c /\ v[2] = a /\ v[3] = q /\ v[4] = b
    BY <1>2, <2>1, FourPoints
  <2>3. QED BY <1>1, <1>4, <2>1, <2>2
<1>5. CASE BoxTo(c, q) = <<c, b, q, a>>
  <2>1. PICK v : v = <<c, b, q, a>>
    OBVIOUS
  <2>2. v \in Seq(Point) /\ Len(v) = 4 /\ v[1] = c /\ v[2] = b /\ v[3] = q /\ v[4] = a
    BY <1>2, <2>1, FourPoints
  <2>3. QED BY <1>1, <1>5, <2>1, <2>2
<1>6. QED BY <1>3, <1>4, <1>5

\* The pen comes down and moves.
LEMMA PenStep ==
  ASSUME SInv, NEW r \in Points, Pen(Pixel(r))
  PROVE  SInv'
<1>1. PICK q \in Point : q = Pixel(r)
  BY PixelIsPoint
<1>2. CASE PenDownLine(q)
  <2>1. /\ mode' = "polygon" /\ stage' = "drawing" /\ vertices' = <<q>>
        /\ lastx' = 0 /\ lasty' = 0
    BY <1>2 DEF PenDownLine, NewThing, Sampled
  <2>2. <<q>> \in Seq(Point) /\ Len(<<q>>) = 1
    OBVIOUS
  <2>3. \A i \in 2..Len(vertices') : FALSE
    BY <2>1, <2>2
  <2>4. Drawing'
    BY <2>1, <2>2, <2>3 DEF Drawing, Spread
  <2>5. QED BY <2>1, <2>4 DEF SInv, NoZeroEdge
<1>3. CASE PenDownBox(q)
  <2>1. q[1] \in Int /\ q[2] \in Int /\ q = <<q[1], q[2]>>
    BY DEF Point
  <2>2. PICK a, b, c : /\ a = <<q[1] + 1, q[2]>> /\ b = <<q[1] + 1, q[2] + 1>>
                       /\ c = <<q[1], q[2] + 1>>
    OBVIOUS
  <2>3. a \in Point /\ b \in Point /\ c \in Point
    BY <2>1, <2>2 DEF Point
  <2>4. /\ mode' = "box" /\ stage' = "drawing" /\ vertices' = <<q, a, b, c>>
        /\ lastx' = q[1] /\ lasty' = q[2]
    BY <1>3, <2>2 DEF PenDownBox, NewThing, Sampled
  <2>5. vertices' \in Seq(Point) /\ Len(vertices') = 4 /\ vertices'[1] = q
    BY <2>3, <2>4, FourPoints
  <2>6. Drawing'
    BY <2>1, <2>4, <2>5 DEF Drawing, Spanned
  <2>7. QED BY <2>4, <2>6 DEF SInv, NoZeroEdge
<1>4. CASE PenMoveLine(q)
  <2>1. /\ stage = "drawing" /\ mode = "polygon" /\ vertices' = Drawn(vertices, q)
        /\ stage' = stage /\ mode' = mode /\ lastx' = lastx /\ lasty' = lasty
    BY <1>4 DEF PenMoveLine
  <2>2. vertices \in Seq(Point) /\ Len(vertices) > 0 /\ Spread(vertices, MIN)
    BY <2>1 DEF SInv, Drawing
  <2>3. vertices' \in Seq(Point) /\ Len(vertices') > 0 /\ Spread(vertices', MIN)
    BY <2>1, <2>2, DrawnSpread
  <2>4. Spread(vertices, MIN)'
    BY <2>3 DEF Spread, MIN
  <2>5. Drawing'
    BY <2>1, <2>3, <2>4 DEF SInv, Drawing
  <2>6. QED BY <2>1, <2>5 DEF SInv, NoZeroEdge
<1>5. CASE PenMoveBox(q)
  <2>1. /\ stage = "drawing" /\ mode = "box" /\ vertices' = BoxTo(vertices[1], q)
        /\ lastx' = q[1] /\ lasty' = q[2] /\ stage' = stage /\ mode' = mode
    BY <1>5 DEF PenMoveBox, Sampled
  <2>2. PICK c : c = vertices[1]
    OBVIOUS
  <2>3. c \in Point
    <3>1. vertices \in Seq(Point) /\ 1 \in 1..Len(vertices)
      BY <2>1 DEF SInv, Drawing, Spanned
    <3>2. QED BY <2>2, <3>1, ElementOfSeq
  <2>4. vertices' = BoxTo(c, q) /\ vertices' \in Seq(Point) /\ Len(vertices') = 4 /\ vertices'[1] = c
    BY <2>1, <2>2, <2>3, Corners
  <2>5. q[1] \in Int /\ q[2] \in Int /\ q = <<q[1], q[2]>>
    BY DEF Point
  <2>6. Drawing'
    BY <2>1, <2>4, <2>5 DEF Drawing, Spanned
  <2>7. QED BY <2>1, <2>6 DEF SInv, NoZeroEdge
<1>6. QED BY <1>1, <1>2, <1>3, <1>4, <1>5 DEF Pen
\* Nothing is left of a line of one point.
LEMMA ThinnedEmpty ==
  ASSUME NEW p \in Seq(Point), Len(p) = 0
  PROVE  Len(Thinned(p)) = 0
<1>1. DOMAIN p = {}
  BY LenProperties
<1>2. Kept(p) = {}
  BY <1>1 DEF Kept
<1>3. Cardinality(Kept(p)) = 0
  BY <1>2, FS_EmptySet
<1>4. PICK t : t = Thinned(p)
  OBVIOUS
<1>5. t = [n \in 1..0 |-> p[Nth(Kept(p), n)]]
  BY <1>3, <1>4 DEF Thinned, Selected
<1>6. t \in [1..0 -> Point] /\ 0 \in Nat
  BY <1>5
<1>7. t \in Seq(Point) /\ DOMAIN t = 1..0
  BY <1>6, SeqDef
<1>8. Len(t) \in Nat /\ 1..Len(t) = 1..0
  BY <1>7, LenProperties
<1>9. Len(t) = 0
  BY <1>8
<1>10. QED BY <1>4, <1>9

\* The pen comes up at the end of a line.
LEMMA LineStep ==
  ASSUME SInv, PenUpLine
  PROVE  SInv'
<1>1. stage = "drawing" /\ mode = "polygon" /\ mode' = mode
  BY DEF PenUpLine
<1>2. vertices \in Seq(Point) /\ Len(vertices) > 0 /\ Spread(vertices, MIN)
  BY <1>1 DEF SInv, Drawing
<1>3. PICK o : o = Opened(vertices)
  OBVIOUS
<1>4. /\ o \in Seq(Point) /\ Spread(o, MIN) /\ Len(o) \in Nat
      /\ Len(o) > 1 => o[1] # o[Len(o)]
  BY <1>2, <1>3, OpenedEnds, LenProperties
<1>5. PICK t, near : /\ t = Thinned(o)
                     /\ near = (Square2(vertices[1], vertices[Len(vertices)]) < CLOSE_DIST * CLOSE_DIST)
  OBVIOUS
<1>6. CASE Len(t) < 2 \/ TotalLength(o) < 10
  <2>1. stage' = "removed"
    BY <1>3, <1>5, <1>6 DEF PenUpLine, Refused
  <2>2. QED BY <1>1, <2>1 DEF SInv, Drawing, NoZeroEdge
<1>7. CASE ~ (Len(t) < 2 \/ TotalLength(o) < 10)
  <2>1. Len(o) # 0
    BY <1>4, <1>5, <1>7, ThinnedEmpty
  <2>2. t = o
    BY <1>4, <1>5, <2>1, AllKept
  <2>3. Len(o) > 1
    BY <1>4, <1>7, <2>2
  <2>4. Recentred(o) /\ MakePhysical(o, near)
    BY <1>3, <1>5, <1>7, <2>2 DEF PenUpLine
  <2>5. Spread(o, 5)
    <3>1. ASSUME NEW i \in 2..Len(o) PROVE Square2(o[i - 1], o[i]) >= 5 * 5
      <4>1. i \in 1..Len(o) /\ i - 1 \in 1..Len(o)
        BY <1>4
      <4>2. o[i - 1] \in Point /\ o[i] \in Point
        BY <1>4, <4>1, ElementOfSeq
      <4>3. PICK z : z = Square2(o[i - 1], o[i])
        OBVIOUS
      <4>4. z \in Nat
        BY <4>2, <4>3, Squares
      <4>5. z >= MIN * MIN
        BY <1>4, <4>3 DEF Spread
      <4>6. MIN = 7 /\ 7 * 7 = 49 /\ 5 * 5 = 25
        BY DEF MIN, MIN_POINT_DIST
      <4>7. z >= 25
        BY <4>4, <4>5, <4>6
      <4>8. QED BY <4>3, <4>6, <4>7
    <3>2. QED BY <3>1 DEF Spread
  <2>6. /\ \A i \in 2..Len(vertices') : Length(vertices'[i - 1], vertices'[i]) >= 5
        /\ vertices'[1] # Last(vertices')
    BY <1>4, <2>3, <2>4, <2>5, RecentredEdges
  <2>7. NoZeroEdge'
    BY <2>6 DEF NoZeroEdge, Length, Square2, Last
  <2>8. stage' # "drawing"
    BY <2>4 DEF MakePhysical
  <2>9. QED BY <1>1, <2>7, <2>8 DEF SInv, Drawing
<1>8. QED BY <1>6, <1>7

\* The sides of a box are those that its corner and the last sample span.
LEMMA BoxSides ==
  ASSUME NEW c \in Point, NEW q \in Point,
         ~ TooSmall(Distance(q[1], c[1]), Distance(q[2], c[2]))
  PROVE  /\ q # c /\ Spread(BoxTo(c, q), 5)
         /\ BoxTo(c, q)[1] # BoxTo(c, q)[4]
<1>1. PICK a, b : a = <<q[1], c[2]>> /\ b = <<c[1], q[2]>>
  OBVIOUS
<1>2. a \in Point /\ b \in Point /\ c[1] \in Int /\ c[2] \in Int /\ q[1] \in Int /\ q[2] \in Int
  BY <1>1 DEF Point
<1>3. PICK w, h : w = q[1] - c[1] /\ h = q[2] - c[2]
  OBVIOUS
<1>4. w \in Int /\ h \in Int /\ (w >= 6 \/ w <= -6) /\ (h >= 6 \/ h <= -6)
  BY <1>2, <1>3 DEF TooSmall, Distance
<1>5. \A u \in Int : (u >= 6 \/ u <= -6) => u * u >= 25
  OBVIOUS
<1>6. w * w >= 25 /\ h * h >= 25
  BY <1>4, <1>5
<1>7. /\ Square2(c, a) >= 25 /\ Square2(b, q) >= 25
      /\ Square2(a, q) >= 25 /\ Square2(c, b) >= 25
      /\ Square2(q, a) >= 25 /\ Square2(q, b) >= 25
  <2>1. Square2(c, a) = (-w) * (-w) + 0 * 0 /\ Square2(b, q) = (-w) * (-w) + 0 * 0
        /\ Square2(q, b) = w * w + 0 * 0
    <3>1. c[1] - a[1] = -w /\ c[2] - a[2] = 0 /\ b[1] - q[1] = -w /\ b[2] - q[2] = 0
          /\ q[1] - b[1] = w /\ q[2] - b[2] = 0
      BY <1>1, <1>2, <1>3
    <3>2. QED BY <1>2, <3>1, Squares
  <2>2. Square2(a, q) = 0 * 0 + (-h) * (-h) /\ Square2(c, b) = 0 * 0 + (-h) * (-h)
        /\ Square2(q, a) = 0 * 0 + h * h
    <3>1. a[1] - q[1] = 0 /\ a[2] - q[2] = -h /\ c[1] - b[1] = 0 /\ c[2] - b[2] = -h
          /\ q[1] - a[1] = 0 /\ q[2] - a[2] = h
      BY <1>1, <1>2, <1>3
    <3>2. QED BY <1>2, <3>1, Squares
  <2>3. (-w) * (-w) = w * w /\ (-h) * (-h) = h * h
    BY <1>4
  <2>4. \A u \in Int : u >= 25 => 0 * 0 + u >= 25 /\ u + 0 * 0 >= 25
    OBVIOUS
  <2>5. w * w \in Int /\ h * h \in Int
    BY <1>4
  <2>6. QED BY <1>6, <2>1, <2>2, <2>3, <2>4, <2>5
<1>8. a # c /\ b # c /\ q # c
  <2>1. w # 0 /\ h # 0
    BY <1>4
  <2>2. q[1] # c[1] /\ q[2] # c[2]
    BY <1>2, <1>3, <2>1
  <2>3. a[1] = q[1] /\ b[2] = q[2]
    BY <1>1
  <2>4. QED BY <2>2, <2>3
<1>9. PICK v : v = BoxTo(c, q)
  OBVIOUS
<1>10. /\ Len(v) = 4 /\ v[1] = c /\ v[3] = q
       /\ (v[2] = a /\ v[4] = b) \/ (v[2] = b /\ v[4] = a)
  <2>1. v = <<c, a, q, b>> \/ v = <<c, b, q, a>>
    BY <1>1, <1>9 DEF BoxTo
  <2>2. CASE v = <<c, a, q, b>>
    BY <2>2
  <2>3. CASE v = <<c, b, q, a>>
    BY <2>3
  <2>4. QED BY <2>1, <2>2, <2>3
<1>11. \A i \in 2..Len(v) : Square2(v[i - 1], v[i]) >= 25
  <2>1. \A i \in 2..4 : i = 2 \/ i = 3 \/ i = 4
    OBVIOUS
  <2>2. Square2(v[1], v[2]) >= 25 /\ Square2(v[2], v[3]) >= 25 /\ Square2(v[3], v[4]) >= 25
    BY <1>7, <1>10
  <2>3. 2 - 1 = 1 /\ 3 - 1 = 2 /\ 4 - 1 = 3
    OBVIOUS
  <2>4. QED BY <1>10, <2>1, <2>2, <2>3
<1>12. 5 * 5 = 25
  OBVIOUS
<1>13. QED BY <1>8, <1>9, <1>10, <1>11, <1>12 DEF Spread

\* The pen comes up from a box.
LEMMA BoxStep ==
  ASSUME SInv, PenUpBox
  PROVE  SInv'
<1>1. stage = "drawing" /\ mode = "box" /\ mode' = mode
  BY DEF PenUpBox
<1>2. PICK c, q : c = vertices[1] /\ q = <<lastx, lasty>>
  OBVIOUS
<1>3. /\ vertices \in Seq(Point) /\ Len(vertices) = 4 /\ c \in Point /\ q \in Point
      /\ vertices = BoxTo(c, q) \/ q = c
  <2>1. vertices \in Seq(Point) /\ lastx \in Int /\ lasty \in Int /\ Spanned
    BY <1>1 DEF SInv, Drawing
  <2>2. 1 \in 1..Len(vertices)
    BY <2>1 DEF Spanned
  <2>3. c \in Point /\ q \in Point
    BY <1>2, <2>1, <2>2, ElementOfSeq DEF Point
  <2>4. QED BY <1>2, <2>1, <2>3 DEF Spanned
<1>4. q[1] = lastx /\ q[2] = lasty
  BY <1>2
<1>5. CASE TooSmall(Distance(q[1], c[1]), Distance(q[2], c[2]))
  <2>1. stage' = "removed"
    BY <1>2, <1>4, <1>5 DEF PenUpBox, Refused
  <2>2. QED BY <1>1, <2>1 DEF SInv, Drawing, NoZeroEdge
<1>6. CASE ~ TooSmall(Distance(q[1], c[1]), Distance(q[2], c[2]))
  <2>1. Recentred(vertices) /\ MakePhysical(vertices, TRUE)
    BY <1>2, <1>4, <1>6 DEF PenUpBox
  <2>2. Spread(vertices, 5) /\ vertices[1] # vertices[4]
    BY <1>3, <1>6, BoxSides
  <2>3. Len(vertices) > 1 /\ vertices[1] # vertices[Len(vertices)]
    BY <1>3, <2>2
  <2>4. /\ \A i \in 2..Len(vertices') : Length(vertices'[i - 1], vertices'[i]) >= 5
        /\ vertices'[1] # Last(vertices')
    BY <1>3, <2>1, <2>2, <2>3, RecentredEdges
  <2>5. NoZeroEdge'
    BY <2>4 DEF NoZeroEdge, Length, Square2, Last
  <2>6. stage' # "drawing"
    BY <2>1 DEF MakePhysical
  <2>7. QED BY <1>1, <2>5, <2>6 DEF SInv, Drawing
<1>7. QED BY <1>5, <1>6

\* Cutting leaves the line alone.
LEMMA CutStep ==
  ASSUME SInv, Cut
  PROVE  SInv'
<1>1. mode' = mode /\ vertices' = vertices /\ closed' = closed
  BY DEF Cut, polygon
<1>2. /\ stage \in {"triangulate", "polygonize", "add"}
      /\ stage' \in Stages \ {"drawing"}
  <2>1. CASE DropPart \/ SplitPart \/ ClipEar \/ LastTriangle
    BY <2>1 DEF DropPart, SplitPart, ClipEar, LastTriangle, Triangulating, Stages, Rest
  <2>2. CASE NoEar
    BY <2>2 DEF NoEar, Fail, Triangulating, Stages, Rest
  <2>3. CASE Triangulated
    BY <2>3 DEF Triangulated, Fail, Stages, Rest
  <2>4. CASE Polygonize \/ AddShape
    BY <2>4 DEF Polygonize, AddShape, Stages, Rest
  <2>5. QED BY <2>1, <2>2, <2>3, <2>4 DEF Cut
<1>3. NoZeroEdge'
  BY <1>1, <1>2 DEF SInv, NoZeroEdge, Length, Square2, Last
<1>4. QED BY <1>1, <1>2, <1>3 DEF SInv, Drawing

-----------------------------------------------------------------------------
\* The invariant is inductive.
LEMMA InvariantStep ==
  ASSUME SInv, [SNext]_svars
  PROVE  SInv'
<1>1. CASE PenUpLine
  BY <1>1, LineStep
<1>2. CASE PenUpBox
  BY <1>2, BoxStep
<1>3. CASE Cut
  BY <1>3, CutStep
<1>4. CASE \E q \in Points : Pen(Pixel(q))
  BY <1>4, PenStep
<1>5. CASE UNCHANGED svars
  BY <1>5 DEF svars, polygon, SInv, Drawing, NoZeroEdge, Spread, MIN, Spanned, BoxTo,
              Length, Square2, Last
<1>6. QED BY <1>1, <1>2, <1>3, <1>4, <1>5 DEF SNext

(***************************************************************************)
(* Whatever the stylus samples, for any limits and any lattice, no segment *)
(* that makePhysical and Box2D divide by the length of is shorter than     *)
(* five pixels, and a closed line does not end where it began.             *)
(***************************************************************************)
THEOREM EdgesNeverZero == SSpec => []NoZeroEdge
<1>1. SInit => SInv
  BY DEF SInit, SInv, Drawing, NoZeroEdge
<1>2. SInv /\ [SNext]_svars => SInv'
  BY InvariantStep
<1>3. SInv => NoZeroEdge
  BY DEF SInv
<1>4. QED BY <1>1, <1>2, <1>3, PTL DEF SSpec

-----------------------------------------------------------------------------
(***************************************************************************)
(* The cutting ends.  Its state is one of sequences, and the parts that    *)
(* are still to be cut have vertices.                                      *)
(***************************************************************************)
PartSet  == {p \in Seq(Point) : Len(p) > 0}
IsSeq(s) == \E S : s \in Seq(S)
CutTyped == work \in Seq(PartSet) /\ IsSeq(tris) /\ IsSeq(pieces)

\* What is left to do for the parts, as ToDo counts it.
Work(w) == SumSeq(w, LAMBDA p : 4 * Len(p) - 1)

WorkSum(w, f, g) ==
  /\ f = [i \in 1..Len(w) |-> 4 * Len(w[i]) - 1]
  /\ Adds(1..Len(w), f, g)

LEMMA WorkIsSum ==
  ASSUME NEW w \in Seq(PartSet)
  PROVE  /\ Len(w) \in Nat /\ IsFiniteSet(1..Len(w))
         /\ \E f, g : /\ WorkSum(w, f, g) /\ Work(w) = g[1..Len(w)]
                      /\ f \in [1..Len(w) -> Nat] /\ f \in [1..Len(w) -> Int]
<1>1. PICK D : D = DOMAIN w
  OBVIOUS
<1>2. D = 1..Len(w) /\ Len(w) \in Nat /\ IsFiniteSet(D)
  BY <1>1, LenProperties, FS_Interval
<1>3. PICK f : f = [i \in D |-> 4 * Len(w[i]) - 1]
  OBVIOUS
<1>4. f \in [D -> Nat] /\ f \in [D -> Int]
  <2>1. \A i \in D : 4 * Len(w[i]) - 1 \in Nat
    <3>1. TAKE i \in D
    <3>2. w[i] \in Seq(Point) /\ Len(w[i]) > 0
      BY <1>2, ElementOfSeq DEF PartSet
    <3>3. Len(w[i]) \in Nat
      BY <3>2, LenProperties
    <3>4. QED BY <3>2, <3>3
  <2>2. QED BY <1>3, <2>1
<1> DEFINE Fold(g) == g = [s \in SUBSET D |->
                             IF s = {} THEN 0 ELSE LET i == CHOOSE i \in s : TRUE IN (4 * Len(w[i]) - 1) + g[s \ {i}]]
<1>5. ASSUME NEW g PROVE Adds(D, f, g) <=> Fold(g)
  <2>1. \A s \in SUBSET D : s # {} => (CHOOSE i \in s : TRUE) \in D
    OBVIOUS
  <2>2. ASSUME NEW s \in SUBSET D
        PROVE  (IF s = {} THEN 0 ELSE LET i == CHOOSE i \in s : TRUE IN f[i] + g[s \ {i}])
             = (IF s = {} THEN 0 ELSE LET i == CHOOSE i \in s : TRUE IN (4 * Len(w[i]) - 1) + g[s \ {i}])
    BY <1>3, <2>1
  <2>3. [s \in SUBSET D |-> IF s = {} THEN 0 ELSE LET i == CHOOSE i \in s : TRUE IN f[i] + g[s \ {i}]]
      = [s \in SUBSET D |-> IF s = {} THEN 0 ELSE LET i == CHOOSE i \in s : TRUE IN (4 * Len(w[i]) - 1) + g[s \ {i}]]
    BY <2>2
  <2>4. QED BY <2>3 DEF Adds
<1>6. PICK g : g = CHOOSE h : Fold(h)
  OBVIOUS
<1>7. Adds(D, f, g)
  <2>1. \E h : Fold(h)
    <3> HIDE DEF Fold
    <3> QED BY <1>2, <1>5, SumExists
  <2> HIDE DEF Fold
  <2> QED BY <1>5, <1>6, <2>1
<1>8. Work(w) = g[D]
  BY <1>1, <1>6 DEF Work, SumSeq, SumOver, MapThenSumSet, MapThenFoldSet
<1>9. WorkSum(w, f, g)
  BY <1>2, <1>3, <1>7 DEF WorkSum
<1>10. QED BY <1>2, <1>4, <1>8, <1>9

LEMMA WorkIsNat ==
  ASSUME NEW w \in Seq(PartSet)
  PROVE  Work(w) \in Nat
<1>1. PICK f, g : /\ WorkSum(w, f, g) /\ Work(w) = g[1..Len(w)]
                  /\ f \in [1..Len(w) -> Nat]
  BY WorkIsSum
<1>2. PICK D : D = 1..Len(w)
  OBVIOUS
<1>3. IsFiniteSet(D) /\ Adds(D, f, g) /\ f \in [D -> Nat] /\ D \in SUBSET D
  BY <1>1, <1>2, WorkIsSum DEF WorkSum
<1>4. 0 \in Nat /\ \A a, b \in Nat : a + b \in Nat
  OBVIOUS
<1>5. g[D] \in Nat
  BY <1>3, <1>4, SumTyped
<1>6. QED BY <1>1, <1>2, <1>5

LEMMA WorkCons ==
  ASSUME NEW p \in PartSet, NEW w \in Seq(PartSet)
  PROVE  <<p>> \o w \in Seq(PartSet) /\ Work(<<p>> \o w) = 4 * Len(p) - 1 + Work(w)
<1>1. PICK v, n : v = <<p>> \o w /\ n = Len(w)
  OBVIOUS
<1>2. /\ v \in Seq(PartSet) /\ Len(v) = n + 1 /\ n \in Nat /\ v[1] = p
      /\ \A i \in 1..n : v[i + 1] = w[i]
  <2>1. <<p>> \in Seq(PartSet) /\ Len(<<p>>) = 1 /\ <<p>>[1] = p
    OBVIOUS
  <2>2. n \in Nat
    BY <1>1, LenProperties
  <2>3. /\ v \in Seq(PartSet) /\ Len(v) = 1 + n
        /\ \A i \in 1..1 + n : v[i] = IF i <= 1 THEN <<p>>[i] ELSE w[i - 1]
    BY <1>1, <2>1, ConcatProperties
  <2>4. \A i \in 1..n : i + 1 \in 1..1 + n /\ ~ (i + 1 <= 1) /\ i + 1 - 1 = i
    BY <2>2
  <2>5. 1 \in 1..1 + n /\ 1 + n = n + 1
    BY <2>2
  <2>6. QED BY <2>1, <2>2, <2>3, <2>4, <2>5
<1>3. PICK f, g : /\ WorkSum(v, f, g) /\ Work(v) = g[1..n + 1]
                  /\ f \in [1..n + 1 -> Int]
  BY <1>2, WorkIsSum
<1>4. PICK k, h : /\ WorkSum(w, k, h) /\ Work(w) = h[1..n]
                  /\ k \in [1..n -> Int]
  BY <1>1, WorkIsSum
<1>5. PICK D, E : D = 1..n + 1 /\ E = 1..n
  OBVIOUS
<1>6. /\ IsFiniteSet(D) /\ Adds(D, f, g) /\ f \in [D -> Int]
      /\ IsFiniteSet(E) /\ Adds(E, k, h) /\ k \in [E -> Int]
  BY <1>1, <1>2, <1>3, <1>4, <1>5, WorkIsSum DEF WorkSum
<1>7. f[1] = 4 * Len(p) - 1 /\ f[1] \in Int /\ \A i \in 1..n : f[i + 1] = k[i] /\ k[i] \in Int
  <2>1. \A i \in 1..n + 1 : f[i] = 4 * Len(v[i]) - 1
    BY <1>2, <1>3 DEF WorkSum
  <2>2. \A i \in 1..n : k[i] = 4 * Len(w[i]) - 1
    BY <1>1, <1>4 DEF WorkSum
  <2>3. 1 \in 1..n + 1 /\ \A i \in 1..n : i + 1 \in 1..n + 1
    BY <1>2
  <2>4. QED BY <1>2, <1>3, <1>4, <2>1, <2>2, <2>3
<1>8. (\A s \in SUBSET D : g[s] \in Int) /\ (\A s \in SUBSET E : h[s] \in Int)
  <2>1. 0 \in Int /\ \A a, b \in Int : a + b \in Int
    OBVIOUS
  <2>2. QED BY <1>6, <2>1, SumTyped
<1>8a. /\ \A s \in SUBSET D : \A e \in s : g[s] = f[e] + g[s \ {e}]
       /\ \A s \in SUBSET E : \A e \in s : h[s] = k[e] + h[s \ {e}]
  <2>1. ASSUME NEW s \in SUBSET D, NEW e \in s PROVE g[s] = f[e] + g[s \ {e}]
    BY <1>6, SumAny
  <2>2. ASSUME NEW s \in SUBSET E, NEW e \in s PROVE h[s] = k[e] + h[s \ {e}]
    BY <1>6, SumAny
  <2>3. QED BY <2>1, <2>2
<1> DEFINE Shifted(j) == g[1..j + 1] = f[1] + h[1..j]
<1>9. Shifted(0)
  <2>1. 1..0 + 1 = {1} /\ 1..0 = {}
    OBVIOUS
  <2>2. {1} \in SUBSET D /\ {} \in SUBSET D /\ {} \in SUBSET E
    BY <1>2, <1>5
  <2>3. 1 \in {1} /\ {1} \ {1} = {}
    OBVIOUS
  <2>4. g[{1}] = f[1] + g[{}]
    BY <1>8a, <2>2, <2>3
  <2>5. g[{}] = 0 /\ h[{}] = 0
    BY <1>6, <2>2, SumStep
  <2>6. QED BY <2>1, <2>4, <2>5
<1>10. ASSUME NEW j \in 0..n, j > 0, Shifted(j - 1) PROVE Shifted(j)
  <2>1. /\ 1..j + 1 \in SUBSET D /\ j + 1 \in 1..j + 1 /\ (1..j + 1) \ {j + 1} = 1..j
        /\ 1..j \in SUBSET E /\ j \in 1..j /\ (1..j) \ {j} = 1..j - 1
        /\ 1..j \in SUBSET D /\ 1..j - 1 \in SUBSET E
        /\ j \in 1..n /\ j - 1 + 1 = j
    BY <1>2, <1>5, <1>10
  <2>2. g[1..j + 1] = f[j + 1] + g[1..j]
    <3>1. PICK s, e, t : s = 1..j + 1 /\ e = j + 1 /\ t = 1..j
      OBVIOUS
    <3>2. s \in SUBSET D /\ e \in s /\ s \ {e} = t
      BY <2>1, <3>1
    <3>3. g[s] = f[e] + g[t]
      BY <1>8a, <3>2
    <3>4. QED BY <3>1, <3>3
  <2>3. h[1..j] = k[j] + h[1..j - 1]
    <3>1. PICK s, t : s = 1..j /\ t = 1..j - 1
      OBVIOUS
    <3>2. s \in SUBSET E /\ j \in s /\ s \ {j} = t
      BY <2>1, <3>1
    <3>3. h[s] = k[j] + h[t]
      BY <1>8a, <3>2
    <3>4. QED BY <3>1, <3>3
  <2>4. g[1..j] = f[1] + h[1..j - 1]
    BY <1>10, <2>1
  <2>5. g[1..j] \in Int /\ h[1..j - 1] \in Int /\ f[j + 1] = k[j] /\ k[j] \in Int /\ f[1] \in Int
    BY <1>7, <1>8, <2>1
  <2>6. QED BY <2>2, <2>3, <2>4, <2>5
<1>11. Shifted(n)
  <2>1. SUFFICES ASSUME ~ Shifted(n) PROVE FALSE
    OBVIOUS
  <2> HIDE DEF Shifted
  <2>2. PICK T : T = {j \in 0..n : ~ Shifted(j)}
    OBVIOUS
  <2>3. T \in SUBSET Nat /\ n \in T
    BY <1>2, <2>1, <2>2
  <2>4. PICK j \in T : \A m \in T : j <= m
    BY <2>3, SmallestNat
  <2>5. j \in 0..n /\ j # 0
    BY <1>9, <2>2, <2>4
  <2>6. j > 0 /\ j - 1 \in 0..n /\ ~ (j <= j - 1)
    BY <1>2, <2>5
  <2>7. Shifted(j - 1)
    BY <2>2, <2>4, <2>6
  <2>8. QED BY <1>10, <2>2, <2>4, <2>5, <2>6, <2>7
<1>12. g[1..n + 1] = f[1] + h[1..n]
  BY <1>11
<1> HIDE DEF Shifted
<1>13. Work(v) = 4 * Len(p) - 1 + Work(w)
  BY <1>3, <1>4, <1>7, <1>12
<1>14. QED BY <1>1, <1>2, <1>13

LEMMA WorkOfHead ==
  ASSUME NEW w \in Seq(PartSet), w # <<>>
  PROVE  /\ Head(w) \in PartSet /\ Tail(w) \in Seq(PartSet)
         /\ Work(w) = 4 * Len(Head(w)) - 1 + Work(Tail(w))
<1>1. Head(w) \in PartSet /\ Tail(w) \in Seq(PartSet)
  BY HeadTailProperties
<1>2. w = <<Head(w)>> \o Tail(w)
  <2>1. PICK n : n = Len(w)
    OBVIOUS
  <2>2. n \in Nat \ {0}
    BY <2>1, EmptySeq
  <2>3. 1 \in 1..n /\ n \in 1..n /\ SubSeq(w, 1, n) = w
    BY <2>1, <2>2, SubSeqFull
  <2>4. w = <<w[1]>> \o SubSeq(w, 1 + 1, n)
    BY <2>1, <2>3, SubSeqRecursiveFirst
  <2>5. Tail(w) = SubSeq(w, 2, n) /\ 1 + 1 = 2
    BY <2>1, TailIsSubSeq
  <2>6. Head(w) = w[1]
    BY <2>2
  <2>7. QED BY <2>4, <2>5, <2>6
<1>3. QED BY <1>1, <1>2, WorkCons
-----------------------------------------------------------------------------
\* Append and Selected on sequences of anything.
LEMMA AppendIsSeq ==
  ASSUME NEW s, IsSeq(s), NEW e
  PROVE  IsSeq(Append(s, e)) /\ Len(Append(s, e)) = Len(s) + 1 /\ Len(s) \in Nat
<1>1. PICK S : s \in Seq(S)
  BY DEF IsSeq
<1>2. PICK T : T = S \cup {e}
  OBVIOUS
<1>3. s \in Seq(T) /\ e \in T
  <2>1. S \subseteq T
    BY <1>2
  <2>2. QED BY <1>1, <1>2, <2>1, SeqMonotonic
<1>4. Append(s, e) \in Seq(T) /\ Len(Append(s, e)) = Len(s) + 1
  BY <1>3, AppendProperties
<1>5. QED BY <1>3, <1>4, LenProperties DEF IsSeq

LEMMA TailIsSeq ==
  ASSUME NEW s, IsSeq(s), s # <<>>
  PROVE  IsSeq(Tail(s)) /\ Len(Tail(s)) = Len(s) - 1 /\ Len(s) \in Nat \ {0}
<1>1. PICK S : s \in Seq(S)
  BY DEF IsSeq
<1>2. Tail(s) \in Seq(S) /\ Len(Tail(s)) = Len(s) - 1
  BY <1>1, HeadTailProperties
<1>3. Len(s) \in Nat \ {0}
  BY <1>1, EmptySeq
<1>4. QED BY <1>2, <1>3 DEF IsSeq

LEMMA SelectedIsSeq ==
  ASSUME NEW s, NEW K, IsFiniteSet(K)
  PROVE  IsSeq(Selected(s, K)) /\ Len(Selected(s, K)) = Cardinality(K)
<1>1. PICK c, t : c = Cardinality(K) /\ t = Selected(s, K)
  OBVIOUS
<1>2. c \in Nat
  BY <1>1, FS_CardinalityType
<1>3. t = [n \in 1..c |-> s[Nth(K, n)]]
  BY <1>1 DEF Selected
<1>4. PICK S : S = {s[Nth(K, n)] : n \in 1..c}
  OBVIOUS
<1>5. t \in [1..c -> S]
  BY <1>3, <1>4
<1>6. t \in Seq(S) /\ DOMAIN t = 1..c
  BY <1>2, <1>5, SeqDef
<1>7. Len(t) \in Nat /\ 1..Len(t) = 1..c
  BY <1>6, LenProperties
<1>8. Len(t) = c
  <2>1. Cardinality(1..Len(t)) = IF 1 > Len(t) THEN 0 ELSE Len(t) - 1 + 1
    BY <1>7, FS_Interval
  <2>2. Cardinality(1..c) = IF 1 > c THEN 0 ELSE c - 1 + 1
    BY <1>2, FS_Interval
  <2>3. QED BY <1>2, <1>7, <2>1, <2>2
<1>9. QED BY <1>1, <1>6, <1>8 DEF IsSeq

\* Extremes of sets of numbers.
LEMMA MinIsIn ==
  ASSUME NEW s \in SUBSET Nat, s # {}
  PROVE  Min(s) \in s
<1>1. PICK n \in s : \A m \in s : n <= m
  BY SmallestNat
<1>2. QED BY <1>1 DEF Min

LEMMA MaxIsIn ==
  ASSUME NEW n \in Nat, NEW s \in SUBSET (1..n), s # {}
  PROVE  Max(s) \in s /\ \A k \in s : k <= Max(s)
<1>1. PICK T : T = {n - k : k \in s}
  OBVIOUS
<1>2. T \in SUBSET Nat /\ T # {}
  <2>1. \A k \in s : n - k \in Nat
    <3>1. TAKE k \in s
    <3>2. k \in 1..n
      OBVIOUS
    <3>3. QED BY <3>2
  <2>2. QED BY <1>1, <2>1
<1>3. PICK t \in T : \A u \in T : t <= u
  BY <1>2, SmallestNat
<1>4. PICK m \in s : t = n - m
  BY <1>1, <1>3
<1>5. \A k \in s : m >= k
  <2>1. TAKE k \in s
  <2>2. n - m <= n - k
    BY <1>1, <1>3, <1>4
  <2>3. QED BY <2>2
<1>6. \E k \in s : \A i \in s : k >= i
  BY <1>5
<1>7. PICK k : k = Max(s)
  OBVIOUS
<1>8. k \in s /\ \A i \in s : k >= i
  BY <1>6, <1>7 DEF Max
<1>9. QED BY <1>7, <1>8

(***************************************************************************)
(* The fold of Polygonize, from the first triangle to the last: what it    *)
(* leaves is no longer than what it has seen.                              *)
(***************************************************************************)
Steps(q, b, g) ==
  g = [s \in SUBSET DOMAIN q |-> IF s = {} THEN b ELSE Tried(g[s \ {Max(s)}], q[Max(s)])]

LEMMA StepsExist ==
  ASSUME NEW S, NEW q \in Seq(S), NEW b
  PROVE  \E g : Steps(q, b, g)
<1>0. PICK D : D = DOMAIN q
  OBVIOUS
<1>1. D = 1..Len(q) /\ Len(q) \in Nat /\ IsFiniteSet(D)
  BY <1>0, LenProperties, FS_Interval
<1>2. \A s \in SUBSET D : IsFiniteSet(s) /\ Cardinality(s) \in Nat /\ Cardinality(s) <= Cardinality(D)
  BY <1>1, FS_Subset, FS_CardinalityType
<1>3. \A s \in SUBSET D : s # {} =>
        s \ {Max(s)} \in SUBSET D /\ Cardinality(s \ {Max(s)}) < Cardinality(s)
  <2>1. TAKE s \in SUBSET D
  <2>2. HAVE s # {}
  <2>3. PICK m : m = Max(s)
    OBVIOUS
  <2>4. m \in s
    BY <1>1, <2>2, <2>3, MaxIsIn
  <2>5. Cardinality(s \ {m}) = Cardinality(s) - 1
    BY <1>2, <2>4, FS_RemoveElement
  <2>6. QED BY <1>2, <2>3, <2>5
<1> DEFINE Body(g, s) == IF s = {} THEN b ELSE Tried(g[s \ {Max(s)}], q[Max(s)])
           Some(n)    == \E g : \A s \in SUBSET D : Cardinality(s) <= n => g[s] = Body(g, s)
<1>4. ASSUME NEW s \in SUBSET D, NEW g, NEW h,
             \A r \in SUBSET D : Cardinality(r) < Cardinality(s) => h[r] = g[r]
      PROVE  Body(h, s) = Body(g, s)
  <2>1. s # {} => h[s \ {Max(s)}] = g[s \ {Max(s)}]
    BY <1>3, <1>4
  <2>2. CASE s = {}
    BY <2>2
  <2>3. CASE s # {}
    <3>1. PICK u : u = g[s \ {Max(s)}]
      OBVIOUS
    <3>2. Body(g, s) = Tried(u, q[Max(s)])
      BY <2>3, <3>1
    <3>3. Body(h, s) = Tried(u, q[Max(s)])
      BY <2>1, <2>3, <3>1
    <3>4. QED BY <3>2, <3>3
  <2>4. QED BY <2>2, <2>3
<1>5. Some(0)
  <2>1. PICK g : g = [s \in SUBSET D |-> b]
    OBVIOUS
  <2>2. \A s \in SUBSET D : Cardinality(s) <= 0 => s = {}
    BY <1>2, FS_EmptySet
  <2>3. \A s \in SUBSET D : Cardinality(s) <= 0 => g[s] = Body(g, s)
    BY <2>1, <2>2
  <2>4. QED BY <2>3
<1>6. ASSUME NEW n \in Nat, Some(n) PROVE Some(n + 1)
  <2> HIDE DEF Body
  <2>1. PICK g : \A s \in SUBSET D : Cardinality(s) <= n => g[s] = Body(g, s)
    BY <1>6
  <2>2. PICK h : h = [s \in SUBSET D |-> IF Cardinality(s) <= n THEN g[s] ELSE Body(g, s)]
    OBVIOUS
  <2>3. \A r \in SUBSET D : Cardinality(r) <= n => h[r] = g[r]
    BY <2>2
  <2>4. ASSUME NEW s \in SUBSET D, Cardinality(s) <= n + 1 PROVE h[s] = Body(h, s)
    <3>1. h[s] = Body(g, s)
      BY <2>1, <2>2
    <3>2. \A r \in SUBSET D : Cardinality(r) < Cardinality(s) => Cardinality(r) <= n
      BY <1>2, <2>4
    <3>3. \A r \in SUBSET D : Cardinality(r) < Cardinality(s) => h[r] = g[r]
      BY <2>3, <3>2
    <3>4. Body(h, s) = Body(g, s)
      BY <1>4, <3>3
    <3>5. QED BY <3>1, <3>4
  <2>5. QED BY <2>4
<1>7. Some(Cardinality(D))
  <2>1. SUFFICES ASSUME NEW N \in Nat, ~ Some(N) PROVE FALSE
    BY <1>1, <1>2
  <2> HIDE DEF Some
  <2>2. PICK T : T = {n \in Nat : ~ Some(n)}
    OBVIOUS
  <2>3. PICK n \in T : \A m \in T : n <= m
    BY <2>1, <2>2, SmallestNat
  <2>4. n # 0
    BY <1>5, <2>2, <2>3
  <2>5. n - 1 \in Nat /\ ~ (n <= n - 1) /\ n - 1 + 1 = n
    BY <2>2, <2>3, <2>4
  <2>6. Some(n - 1)
    BY <2>2, <2>3, <2>5
  <2>7. QED BY <1>6, <2>2, <2>3, <2>5, <2>6
<1>8. PICK g : \A s \in SUBSET D : Cardinality(s) <= Cardinality(D) => g[s] = Body(g, s)
  BY <1>7
<1>9. PICK h : h = [s \in SUBSET D |-> g[s]]
  OBVIOUS
<1>10. ASSUME NEW s \in SUBSET D PROVE h[s] = Body(h, s)
  <2> HIDE DEF Body
  <2>1. h[s] = Body(g, s)
    BY <1>2, <1>8, <1>9
  <2>2. \A r \in SUBSET D : Cardinality(r) < Cardinality(s) => h[r] = g[r]
    BY <1>9
  <2>3. QED BY <1>4, <2>1, <2>2
<1>11. h = [s \in SUBSET D |-> Body(h, s)]
  <2> HIDE DEF Body
  <2> QED BY <1>9, <1>10
<1>12. Steps(q, b, h)
  BY <1>0, <1>11 DEF Steps
<1>13. QED BY <1>12

LEMMA GrownShorter ==
  ASSUME NEW ts, IsSeq(ts), ts # <<>>
  PROVE  IsSeq(Grown(ts).left) /\ Len(Grown(ts).left) <= Len(ts) - 1
<1>1. PICK S : ts \in Seq(S)
  BY DEF IsSeq
<1>2. PICK q, b, n : q = Tail(ts) /\ b = [piece |-> Head(ts), left |-> <<>>] /\ n = Len(ts) - 1
  OBVIOUS
<1>3. q \in Seq(S) /\ Len(q) = n /\ n \in Nat /\ DOMAIN q = 1..n
  BY <1>1, <1>2, HeadTailProperties, EmptySeq, LenProperties
<1>4. PICK g : g = CHOOSE h : Steps(q, b, h)
  OBVIOUS
<1>5. Steps(q, b, g)
  BY <1>3, <1>4, StepsExist
<1>6. Grown(ts) = g[DOMAIN q]
  BY <1>2, <1>4 DEF Grown, FoldLeft, MapThenFoldSet, Steps
<1> DEFINE Small(j) == \E a, l : g[1..j] = [piece |-> a, left |-> l] /\ IsSeq(l) /\ Len(l) <= j
<1>7. Small(0)
  <2>1. 1..0 = {} /\ {} \in SUBSET DOMAIN q
    OBVIOUS
  <2>2. g[1..0] = [piece |-> Head(ts), left |-> <<>>]
    BY <1>2, <1>5, <2>1 DEF Steps
  <2>3. IsSeq(<<>>) /\ Len(<<>>) <= 0
    BY EmptySeq DEF IsSeq
  <2>4. QED BY <2>2, <2>3
<1>8. ASSUME NEW j \in 1..n, Small(j - 1) PROVE Small(j)
  <2>1. PICK s, t : s = 1..j /\ t = 1..j - 1
    OBVIOUS
  <2>2. s \in SUBSET (1..n) /\ s # {} /\ j \in s /\ (\A k \in s : k <= j) /\ s \ {j} = t
    <3>1. j \in s /\ \A k \in s : k \in 1..n /\ k <= j
      BY <1>3, <2>1
    <3>2. s \ {j} = t
      BY <1>3, <2>1
    <3>3. QED BY <3>1, <3>2
  <2>3. Max(s) = j
    <3>1. PICK m : m = Max(s)
      OBVIOUS
    <3>2. m \in s /\ \A k \in s : k <= m
      BY <1>3, <2>2, <3>1, MaxIsIn
    <3>3. m <= j /\ j <= m /\ m \in Int
      BY <2>1, <2>2, <3>2
    <3>4. QED BY <3>1, <3>3
  <2>4. g[s] = Tried(g[t], q[j])
    <3>1. s \in SUBSET DOMAIN q
      BY <1>3, <2>2
    <3>2. g[s] = Tried(g[s \ {Max(s)}], q[Max(s)])
      BY <1>5, <2>2, <3>1 DEF Steps
    <3>3. QED BY <2>2, <2>3, <3>2
  <2>5. PICK a, l : g[t] = [piece |-> a, left |-> l] /\ IsSeq(l) /\ Len(l) <= j - 1
    BY <1>8, <2>1
  <2>6. PICK e : e = q[j]
    OBVIOUS
  <2>7. /\ IsSeq(Append(l, e)) /\ Len(Append(l, e)) = Len(l) + 1 /\ Len(l) \in Nat
    BY <2>5, AppendIsSeq
  <2>8. \/ g[s] = [piece |-> Join(a, e), left |-> l]
        \/ g[s] = [piece |-> a, left |-> Append(l, e)]
    <3>1. PICK r : r = [piece |-> a, left |-> l]
      OBVIOUS
    <3>2. g[s] = IF CanJoin(r.piece, e) THEN [r EXCEPT !.piece = Join(r.piece, e)]
                 ELSE [r EXCEPT !.left = Append(r.left, e)]
      BY <2>4, <2>5, <2>6, <3>1 DEF Tried
    <3>3. r.piece = a /\ r.left = l
      BY <3>1
    <3>4. /\ [r EXCEPT !.piece = Join(a, e)] = [piece |-> Join(a, e), left |-> l]
          /\ [r EXCEPT !.left = Append(l, e)] = [piece |-> a, left |-> Append(l, e)]
      BY <3>1
    <3>5. QED BY <3>2, <3>3, <3>4
  <2>9. Len(l) <= j /\ Len(l) + 1 <= j
    BY <2>5, <2>7
  <2>10. QED BY <2>1, <2>5, <2>7, <2>8, <2>9
<1>9. Small(n)
  <2>1. SUFFICES ASSUME ~ Small(n) PROVE FALSE
    OBVIOUS
  <2> HIDE DEF Small
  <2>2. PICK T : T = {j \in 0..n : ~ Small(j)}
    OBVIOUS
  <2>3. T \in SUBSET Nat /\ n \in T
    BY <1>3, <2>1, <2>2
  <2>4. PICK j \in T : \A m \in T : j <= m
    BY <2>3, SmallestNat
  <2>5. j \in 0..n /\ j # 0
    BY <1>7, <2>2, <2>4
  <2>6. j \in 1..n /\ j - 1 \in 0..n /\ ~ (j <= j - 1)
    BY <1>3, <2>5
  <2>7. Small(j - 1)
    BY <2>2, <2>4, <2>6
  <2>8. QED BY <1>8, <2>2, <2>4, <2>6, <2>7
<1>10. PICK a, l : Grown(ts) = [piece |-> a, left |-> l] /\ IsSeq(l) /\ Len(l) <= n
  BY <1>3, <1>6, <1>9
<1>11. QED BY <1>2, <1>10
-----------------------------------------------------------------------------
\* A pinched part falls into two that have its vertices between them.
LEMMA PartsOfPart ==
  ASSUME NEW p \in PartSet, PinchPoints(p) # {}
  PROVE  \E a, b \in PartSet : Parts(p) = <<a, b>> /\ Len(a) + Len(b) = Len(p)
<1>1. PICK n : n = Len(p)
  OBVIOUS
<1>2. p \in Seq(Point) /\ n \in Nat \ {0} /\ DOMAIN p = 1..n
  BY <1>1, LenProperties DEF PartSet
<1>3. PICK P : P = PinchPoints(p)
  OBVIOUS
<1>4. \A q \in P : q[1] \in 1..n /\ q[2] \in 1..n /\ q[2] > q[1] + 1
  BY <1>2, <1>3 DEF PinchPoints
<1>5. PICK I, i : I = {q[1] : q \in P} /\ i = Min(I)
  OBVIOUS
<1>6. i \in I
  <2>1. I \in SUBSET Nat
    <3>1. \A q \in P : q[1] \in Nat
      BY <1>2, <1>4
    <3>2. QED BY <1>5, <3>1
  <2>2. I # {}
    BY <1>3, <1>5
  <2>3. QED BY <1>5, <2>1, <2>2, MinIsIn
<1>7. PICK J, j : J = {q[2] : q \in {r \in P : r[1] = i}} /\ j = Min(J)
  OBVIOUS
<1>8. j \in J
  <2>1. J \in SUBSET Nat
    <3>1. \A q \in P : q[2] \in Nat
      BY <1>2, <1>4
    <3>2. QED BY <1>7, <3>1
  <2>2. J # {}
    BY <1>5, <1>6, <1>7
  <2>3. QED BY <1>7, <2>1, <2>2, MinIsIn
<1>9. i \in 1..n /\ j \in 1..n /\ j > i + 1
  <2>1. PICK q \in P : q[1] = i /\ q[2] = j
    BY <1>7, <1>8
  <2>2. QED BY <1>4, <2>1
<1>10. PICK a, b, c, d : /\ a = SubSeq(p, i, j - 1) /\ c = SubSeq(p, j, n)
                         /\ d = SubSeq(p, 1, i - 1) /\ b = c \o d
  OBVIOUS
<1>11. Parts(p) = <<a, b>>
  BY <1>1, <1>3, <1>5, <1>7, <1>10 DEF Parts
<1>12. \A k \in 1..n : p[k] \in Point
  BY <1>1, <1>2, ElementOfSeq
<1>13. a \in Seq(Point) /\ Len(a) = j - i
  <2>1. i \in Int /\ j - 1 \in Int /\ i <= j - 1 /\ j - 1 - i + 1 = j - i
    BY <1>2, <1>9
  <2>2. \A k \in i..j - 1 : p[k] \in Point
    BY <1>2, <1>9, <1>12
  <2>3. QED BY <1>10, <2>1, <2>2, SubSeqProperties
<1>14. c \in Seq(Point) /\ Len(c) = n - j + 1
  <2>1. j \in Int /\ n \in Int /\ j <= n
    BY <1>2, <1>9
  <2>2. \A k \in j..n : p[k] \in Point
    BY <1>2, <1>9, <1>12
  <2>3. QED BY <1>10, <2>1, <2>2, SubSeqProperties
<1>15. d \in Seq(Point) /\ Len(d) = i - 1
  <2>1. 1 \in Int /\ i - 1 \in Int /\ (IF 1 <= i - 1 THEN i - 1 - 1 + 1 ELSE 0) = i - 1
    BY <1>2, <1>9
  <2>2. \A k \in 1..i - 1 : p[k] \in Point
    BY <1>2, <1>9, <1>12
  <2>3. Len(d) = IF 1 <= i - 1 THEN i - 1 - 1 + 1 ELSE 0
    BY <1>10, <2>1, <2>2, SubSeqProperties
  <2>4. d \in Seq(Point)
    BY <1>10, <2>1, <2>2, SubSeqProperties
  <2>5. QED BY <2>1, <2>3, <2>4
<1>16. b \in Seq(Point) /\ Len(b) = n - j + 1 + (i - 1)
  BY <1>10, <1>14, <1>15, ConcatProperties
<1>17. Len(a) > 0 /\ Len(b) > 0 /\ Len(a) + Len(b) = n
  BY <1>2, <1>9, <1>13, <1>16
<1>18. a \in PartSet /\ b \in PartSet
  BY <1>13, <1>16, <1>17 DEF PartSet
<1>19. QED BY <1>1, <1>11, <1>17, <1>18

LEMMA RemovedFromPart ==
  ASSUME NEW p \in PartSet, Len(p) > 1, NEW i \in DOMAIN p
  PROVE  RemoveAt(p, i) \in PartSet /\ Len(RemoveAt(p, i)) = Len(p) - 1
<1>1. PICK n : n = Len(p)
  OBVIOUS
<1>2. p \in Seq(Point) /\ n \in Nat /\ n > 1 /\ i \in 1..n
  BY <1>1, LenProperties DEF PartSet
<1>3. \A k \in 1..n : p[k] \in Point
  BY <1>1, <1>2, ElementOfSeq
<1>4. PICK a, b : a = SubSeq(p, 1, i - 1) /\ b = SubSeq(p, i + 1, n)
  OBVIOUS
<1>5. a \in Seq(Point) /\ Len(a) = i - 1
  <2>1. 1 \in Int /\ i - 1 \in Int /\ (IF 1 <= i - 1 THEN i - 1 - 1 + 1 ELSE 0) = i - 1
    BY <1>2
  <2>2. \A k \in 1..i - 1 : p[k] \in Point
    BY <1>2, <1>3
  <2>3. Len(a) = IF 1 <= i - 1 THEN i - 1 - 1 + 1 ELSE 0
    BY <1>4, <2>1, <2>2, SubSeqProperties
  <2>4. a \in Seq(Point)
    BY <1>4, <2>1, <2>2, SubSeqProperties
  <2>5. QED BY <2>1, <2>3, <2>4
<1>6. b \in Seq(Point) /\ Len(b) = n - i
  <2>1. i + 1 \in Int /\ n \in Int /\ (IF i + 1 <= n THEN n - (i + 1) + 1 ELSE 0) = n - i
    BY <1>2
  <2>2. \A k \in i + 1..n : p[k] \in Point
    BY <1>2, <1>3
  <2>3. Len(b) = IF i + 1 <= n THEN n - (i + 1) + 1 ELSE 0
    BY <1>4, <2>1, <2>2, SubSeqProperties
  <2>4. b \in Seq(Point)
    BY <1>4, <2>1, <2>2, SubSeqProperties
  <2>5. QED BY <2>1, <2>3, <2>4
<1>7. RemoveAt(p, i) = a \o b
  BY <1>1, <1>4 DEF RemoveAt
<1>8. PICK e : e = a \o b
  OBVIOUS
<1>9. e \in Seq(Point) /\ Len(e) = Len(a) + Len(b)
  <2>1. a \in Seq(Point) /\ b \in Seq(Point)
    BY <1>5, <1>6
  <2>2. a \o b \in Seq(Point) /\ Len(a \o b) = Len(a) + Len(b)
    BY <2>1, ConcatProperties
  <2>3. QED BY <1>8, <2>2
<1>10. Len(e) = n - 1 /\ n - 1 > 0
  BY <1>2, <1>5, <1>6, <1>9
<1>11. QED BY <1>1, <1>7, <1>8, <1>9, <1>10 DEF PartSet

-----------------------------------------------------------------------------
\* Each step of the cutting leaves less to do.
LEMMA ToDoIs ==
  /\ ToDo = Work(work) + 2 * Len(tris) + Len(pieces) + Rank(stage)
  /\ ToDo' = Work(work') + 2 * Len(tris') + Len(pieces') + Rank(stage')
BY DEF ToDo, Work, SumSeq, SumOver, MapThenSumSet, MapThenFoldSet

LEMMA Ranks ==
  /\ Rank("triangulate") = 3 /\ Rank("polygonize") = 2 /\ Rank("add") = 1
  /\ Rank("removed") = 0 /\ Rank("bodiless") = 0 /\ Rank("physical") = 0
BY DEF Rank

LEMMA NothingLeft == Work(<<>>) = 0 /\ <<>> \in Seq(PartSet) /\ IsSeq(<<>>) /\ Len(<<>>) = 0
<1>1. <<>> \in Seq(PartSet) /\ Len(<<>>) = 0
  BY EmptySeq
<1>2. PICK f, g : WorkSum(<<>>, f, g) /\ Work(<<>>) = g[1..Len(<<>>)]
  BY <1>1, WorkIsSum
<1>3. 1..Len(<<>>) = {}
  BY <1>1
<1>4. {} \in SUBSET (1..Len(<<>>)) /\ Adds(1..Len(<<>>), f, g)
  BY <1>2 DEF WorkSum
<1>5. g[{}] = 0
  BY <1>4, SumStep
<1>6. QED BY <1>1, <1>2, <1>3, <1>5 DEF IsSeq

LEMMA PairIsConcat ==
  ASSUME NEW a \in PartSet, NEW b \in PartSet
  PROVE  <<a>> \o <<b>> = <<a, b>>
<1>1. PICK l, r, e : l = <<a>> /\ r = <<b>> /\ e = <<a, b>>
  OBVIOUS
<1>2. /\ l \in Seq(PartSet) /\ Len(l) = 1 /\ l[1] = a
      /\ r \in Seq(PartSet) /\ Len(r) = 1 /\ r[1] = b
      /\ e \in Seq(PartSet) /\ Len(e) = 2 /\ e[1] = a /\ e[2] = b
  BY <1>1
<1>3. PICK c : c = l \o r
  OBVIOUS
<1>4. c \in Seq(PartSet) /\ Len(c) = 2 /\ c[1] = a /\ c[2] = b
  <2>1. l \in Seq(PartSet) /\ r \in Seq(PartSet)
    BY <1>2
  <2>2. /\ l \o r \in Seq(PartSet) /\ Len(l \o r) = Len(l) + Len(r)
        /\ \A i \in 1..Len(l) + Len(r) : (l \o r)[i] = IF i <= Len(l) THEN l[i] ELSE r[i - Len(l)]
    BY <2>1, ConcatProperties
  <2>3. c \in Seq(PartSet) /\ Len(c) = Len(l) + Len(r)
    BY <1>3, <2>2
  <2>4. \A i \in 1..Len(l) + Len(r) : c[i] = IF i <= Len(l) THEN l[i] ELSE r[i - Len(l)]
    BY <1>3, <2>2
  <2>5. c[1] = l[1] /\ c[2] = r[1]
    BY <1>2, <2>4
  <2>6. QED BY <1>2, <2>3, <2>5
<1>5. \A i \in 1..2 : c[i] = e[i]
  BY <1>2, <1>4
<1>6. c = e
  BY <1>2, <1>4, <1>5, SeqEqual
<1>7. QED BY <1>1, <1>3, <1>6

LEMMA CutShrinks ==
  ASSUME CutTyped, Cut
  PROVE  CutTyped' /\ ToDo' < ToDo
<1>1. PICK w, t, c : w = Work(work) /\ t = Len(tris) /\ c = Len(pieces)
  OBVIOUS
<1>2. PICK v, u, d : v = Work(work') /\ u = Len(tris') /\ d = Len(pieces')
  OBVIOUS
<1>3. w \in Nat /\ t \in Nat /\ c \in Nat
  BY <1>1, WorkIsNat, LenProperties DEF CutTyped, IsSeq
<1>4. ToDo = w + 2 * t + c + Rank(stage) /\ ToDo' = v + 2 * u + d + Rank(stage')
  BY <1>1, <1>2, ToDoIs
<1>5. CASE DropPart
  <2>1. /\ work # <<>> /\ work' = Tail(work) /\ stage = "triangulate"
        /\ stage' = stage /\ tris' = tris /\ pieces' = pieces
    BY <1>5 DEF DropPart, Triangulating
  <2>2. /\ Head(work) \in PartSet /\ work' \in Seq(PartSet)
        /\ w = 4 * Len(Head(work)) - 1 + v
    BY <1>1, <1>2, <2>1, WorkOfHead DEF CutTyped
  <2>3. PICK k : k = Len(Head(work))
    OBVIOUS
  <2>4. k \in Nat /\ k > 0 /\ v \in Nat
    BY <1>2, <2>2, <2>3, LenProperties, WorkIsNat DEF PartSet
  <2>5. v < w /\ u = t /\ d = c
    BY <1>1, <1>2, <2>1, <2>2, <2>3, <2>4
  <2>6. CutTyped'
    BY <2>1, <2>2 DEF CutTyped, IsSeq
  <2>7. QED BY <1>3, <1>4, <2>1, <2>4, <2>5, <2>6, Ranks
<1>6. CASE SplitPart
  <2>1. /\ work # <<>> /\ work' = Parts(Part) \o Tail(work) /\ stage = "triangulate"
        /\ stage' = stage /\ tris' = tris /\ pieces' = pieces /\ PinchPoints(Part) # {}
    BY <1>6 DEF SplitPart, Triangulating
  <2>2. PICK p, r : p = Head(work) /\ r = Tail(work)
    OBVIOUS
  <2>3. /\ p \in PartSet /\ r \in Seq(PartSet)
        /\ w = 4 * Len(p) - 1 + Work(r)
    BY <1>1, <2>1, <2>2, WorkOfHead DEF CutTyped
  <2>4. PICK a \in PartSet, b \in PartSet : Parts(p) = <<a, b>> /\ Len(a) + Len(b) = Len(p)
    BY <2>1, <2>2, <2>3, PartsOfPart DEF Part
  <2>5. work' = <<a>> \o (<<b>> \o r)
    <3>1. work' = <<a, b>> \o r
      BY <2>1, <2>2, <2>4 DEF Part
    <3>2. <<a>> \in Seq(PartSet) /\ <<b>> \in Seq(PartSet)
      OBVIOUS
    <3>3. <<a>> \o <<b>> = <<a, b>>
      BY PairIsConcat
    <3>4. (<<a>> \o <<b>>) \o r = <<a>> \o (<<b>> \o r)
      BY <2>3, <3>2, ConcatAssociative
    <3>5. QED BY <3>1, <3>3, <3>4
  <2>6. <<b>> \o r \in Seq(PartSet) /\ Work(<<b>> \o r) = 4 * Len(b) - 1 + Work(r)
    BY <2>3, WorkCons
  <2>7. work' \in Seq(PartSet) /\ v = 4 * Len(a) - 1 + (4 * Len(b) - 1 + Work(r))
    BY <1>2, <2>5, <2>6, WorkCons
  <2>8. PICK k, l, m, z : k = Len(p) /\ l = Len(a) /\ m = Len(b) /\ z = Work(r)
    OBVIOUS
  <2>9. k \in Nat /\ l \in Nat /\ m \in Nat /\ z \in Nat /\ l + m = k
    BY <2>3, <2>4, <2>8, LenProperties, WorkIsNat DEF PartSet
  <2>10. w = 4 * k - 1 + z /\ v = 4 * l - 1 + (4 * m - 1 + z) /\ u = t /\ d = c
    BY <1>1, <1>2, <2>1, <2>3, <2>7, <2>8
  <2>11. v < w /\ v \in Int
    BY <2>9, <2>10
  <2>12. CutTyped'
    BY <2>1, <2>7 DEF CutTyped, IsSeq
  <2>13. ToDo' < ToDo
    <3>1. ToDo = w + 2 * t + c + 3 /\ ToDo' = v + 2 * t + c + 3
      BY <1>4, <2>1, <2>10, Ranks
    <3>2. w \in Int /\ v \in Int /\ t \in Int /\ c \in Int
      BY <1>3, <2>11
    <3>3. QED BY <2>11, <3>1, <3>2
  <2>14. QED BY <2>12, <2>13
<1>7. CASE NoEar
  <2>1. /\ stage = "triangulate" /\ stage' \in {"removed", "bodiless"}
        /\ work' = <<>> /\ tris' = <<>> /\ pieces' = pieces
    BY <1>7 DEF NoEar, Fail, Triangulating
  <2>2. v = 0 /\ u = 0 /\ d = c
    BY <1>1, <1>2, <2>1, NothingLeft
  <2>3. CutTyped'
    BY <2>1, NothingLeft DEF CutTyped, IsSeq
  <2>4. QED BY <1>3, <1>4, <2>1, <2>2, <2>3, Ranks
<1>8. CASE ClipEar
  <2>1. /\ work # <<>> /\ stage = "triangulate" /\ Len(Part) > 3
        /\ stage' = stage /\ pieces' = pieces
    BY <1>8 DEF ClipEar, Triangulating
  <2>2. PICK i \in BestEars(Part) : /\ work' = <<RemoveAt(Part, i)>> \o Tail(work)
                                    /\ tris' = Append(tris, EarTriangle(Part, i))
    BY <1>8 DEF ClipEar
  <2>3. PICK p, r : p = Head(work) /\ r = Tail(work)
    OBVIOUS
  <2>4. /\ p \in PartSet /\ r \in Seq(PartSet) /\ w = 4 * Len(p) - 1 + Work(r)
    BY <1>1, <2>1, <2>3, WorkOfHead DEF CutTyped
  <2>5. i \in DOMAIN p
    BY <2>2, <2>3 DEF BestEars, Ears, Part
  <2>6. PICK o : o = RemoveAt(p, i)
    OBVIOUS
  <2>7. Len(p) \in Nat /\ Len(p) > 3
    BY <2>1, <2>3, <2>4, LenProperties DEF Part, PartSet
  <2>8. o \in PartSet /\ Len(o) = Len(p) - 1
    <3>1. Len(p) > 1
      BY <2>7
    <3>2. QED BY <2>4, <2>5, <2>6, <3>1, RemovedFromPart
  <2>9. work' \in Seq(PartSet) /\ v = 4 * Len(o) - 1 + Work(r)
    BY <1>2, <2>2, <2>3, <2>4, <2>6, <2>8, WorkCons DEF Part
  <2>10. IsSeq(tris') /\ u = t + 1
    BY <1>1, <1>2, <2>2, AppendIsSeq DEF CutTyped
  <2>11. PICK k, z : k = Len(p) /\ z = Work(r)
    OBVIOUS
  <2>12. k \in Nat /\ z \in Nat /\ w = 4 * k - 1 + z /\ v = 4 * (k - 1) - 1 + z /\ d = c
    BY <1>1, <1>2, <2>1, <2>4, <2>7, <2>8, <2>9, <2>11, WorkIsNat
  <2>13. CutTyped'
    BY <2>1, <2>9, <2>10 DEF CutTyped, IsSeq
  <2>14. v + 2 * u < w + 2 * t /\ v \in Int
    BY <1>3, <2>10, <2>12
  <2>15. QED BY <1>3, <1>4, <2>1, <2>10, <2>12, <2>13, <2>14, Ranks
<1>9. CASE LastTriangle
  <2>1. /\ work # <<>> /\ stage = "triangulate" /\ Len(Part) = 3
        /\ stage' = stage /\ pieces' = pieces /\ work' = Tail(work)
        /\ tris' = Append(tris, Triangle(Part[2], Part[3], Part[1]))
    BY <1>9 DEF LastTriangle, Triangulating
  <2>2. work' \in Seq(PartSet) /\ w = 4 * 3 - 1 + v
    BY <1>1, <1>2, <2>1, WorkOfHead DEF CutTyped, Part
  <2>3. IsSeq(tris') /\ u = t + 1
    BY <1>1, <1>2, <2>1, AppendIsSeq DEF CutTyped
  <2>4. v \in Nat /\ d = c
    BY <1>1, <1>2, <2>1, <2>2, WorkIsNat
  <2>5. CutTyped'
    BY <2>1, <2>2, <2>3 DEF CutTyped, IsSeq
  <2>6. v + 2 * u < w + 2 * t
    BY <1>3, <2>2, <2>3, <2>4
  <2>7. QED BY <1>3, <1>4, <2>1, <2>3, <2>4, <2>5, <2>6, Ranks
<1>10. CASE Triangulated
  <2>1. stage = "triangulate" /\ work = <<>>
    BY <1>10 DEF Triangulated
  <2>2. CASE tris = <<>>
    <3>1. /\ stage' \in {"removed", "bodiless"}
          /\ work' = <<>> /\ tris' = <<>> /\ pieces' = pieces
      BY <1>10, <2>2 DEF Triangulated, Fail
    <3>2. v = 0 /\ u = 0 /\ d = c
      BY <1>1, <1>2, <3>1, NothingLeft
    <3>3. CutTyped'
      BY <3>1, NothingLeft DEF CutTyped, IsSeq
    <3>4. QED BY <1>3, <1>4, <2>1, <3>1, <3>2, <3>3, Ranks
  <2>3. CASE tris # <<>>
    <3>1. PICK K : K = {i \in DOMAIN tris : ~ IsFlat(tris[i])}
      OBVIOUS
    <3>2. /\ stage' = "polygonize" /\ work' = work /\ pieces' = pieces
          /\ tris' = Selected(tris, K)
      BY <1>10, <2>3, <3>1 DEF Triangulated
    <3>3. IsFiniteSet(K) /\ Cardinality(K) <= t
      <4>1. DOMAIN tris = 1..t
        BY <1>1, LenProperties DEF CutTyped, IsSeq
      <4>2. IsFiniteSet(1..t) /\ Cardinality(1..t) = t
        BY <1>3, FS_Interval
      <4>3. K \in SUBSET (1..t)
        BY <3>1, <4>1
      <4>4. QED BY <4>2, <4>3, FS_Subset
    <3>4. IsSeq(tris') /\ u = Cardinality(K)
      BY <1>2, <3>2, <3>3, SelectedIsSeq
    <3>5. u \in Nat
      BY <3>3, <3>4, FS_CardinalityType
    <3>6. v = w /\ d = c
      BY <1>1, <1>2, <3>2
    <3>7. CutTyped'
      BY <3>2, <3>4 DEF CutTyped, IsSeq
    <3>8. QED BY <1>3, <1>4, <2>1, <3>2, <3>3, <3>4, <3>5, <3>6, <3>7, Ranks
  <2>4. QED BY <2>2, <2>3
<1>11. CASE Polygonize
  <2>1. stage = "polygonize" /\ work' = work /\ v = w
    BY <1>1, <1>2, <1>11 DEF Polygonize
  <2>2. CASE tris = <<>>
    <3>1. stage' = "add" /\ tris' = tris /\ pieces' = pieces /\ u = t /\ d = c
      BY <1>1, <1>2, <1>11, <2>2 DEF Polygonize
    <3>2. CutTyped'
      BY <2>1, <3>1 DEF CutTyped, IsSeq
    <3>3. QED BY <1>3, <1>4, <2>1, <3>1, <3>2, Ranks
  <2>3. CASE tris # <<>>
    <3>1. /\ stage' = stage /\ tris' = Grown(tris).left
          /\ \E e : pieces' \in {pieces, Append(pieces, e)}
      BY <1>11, <2>3 DEF Polygonize
    <3>2. IsSeq(tris') /\ u <= t - 1
      BY <1>1, <1>2, <2>3, <3>1, GrownShorter DEF CutTyped
    <3>3. u \in Nat
      BY <1>2, <3>2, LenProperties DEF IsSeq
    <3>4. IsSeq(pieces') /\ (d = c \/ d = c + 1)
      BY <1>1, <1>2, <3>1, AppendIsSeq DEF CutTyped
    <3>5. CutTyped'
      BY <2>1, <3>2, <3>4 DEF CutTyped, IsSeq
    <3>6. QED BY <1>3, <1>4, <2>1, <3>1, <3>2, <3>3, <3>4, <3>5, Ranks
  <2>4. QED BY <2>2, <2>3
<1>12. CASE AddShape
  <2>1. stage = "add" /\ work' = work /\ tris' = tris /\ v = w /\ u = t
    BY <1>1, <1>2, <1>12 DEF AddShape
  <2>2. CASE pieces = <<>>
    <3>1. stage' = "physical" /\ pieces' = pieces /\ d = c
      BY <1>1, <1>2, <1>12, <2>2 DEF AddShape
    <3>2. CutTyped'
      BY <2>1, <3>1 DEF CutTyped, IsSeq
    <3>3. QED BY <1>3, <1>4, <2>1, <3>1, <3>2, Ranks
  <2>3. CASE pieces # <<>>
    <3>1. stage' = stage /\ pieces' = Tail(pieces)
      BY <1>12, <2>3 DEF AddShape
    <3>2. IsSeq(pieces') /\ d = c - 1
      BY <1>1, <1>2, <2>3, <3>1, TailIsSeq DEF CutTyped
    <3>3. CutTyped'
      BY <2>1, <3>2 DEF CutTyped, IsSeq
    <3>4. QED BY <1>3, <1>4, <2>1, <3>1, <3>2, <3>3, Ranks
  <2>4. QED BY <2>2, <2>3
<1>13. QED BY <1>5, <1>6, <1>7, <1>8, <1>9, <1>10, <1>11, <1>12 DEF Cut

\* What makePhysical hands to the cutting is a part.
LEMMA LatticeIsPart ==
  ASSUME NEW p \in Seq(Point), Len(p) > 0
  PROVE  Clockwise(Lattice(p)) \in PartSet
<1>1. PICK n, l : n = Len(p) /\ l = Lattice(p)
  OBVIOUS
<1>2. n \in Nat /\ n > 0 /\ DOMAIN p = 1..n /\ \A i \in 1..n : p[i] \in Point
  BY <1>1, LenProperties, ElementOfSeq
<1>3. \A a \in Int : Quotient(a, Unit) \in Int
  BY UnitAssumption DEF Quotient
<1>4. \A i \in 1..n : <<Quotient(p[i][1] - p[1][1], Unit), Quotient(p[i][2] - p[1][2], Unit)>> \in Point
  <2>1. TAKE i \in 1..n
  <2>2. p[i] \in Point /\ p[1] \in Point
    BY <1>2
  <2>3. p[i][1] - p[1][1] \in Int /\ p[i][2] - p[1][2] \in Int
    BY <2>2 DEF Point
  <2>4. QED BY <1>3, <2>3 DEF Point
<1>5. l \in [1..n -> Point]
  BY <1>1, <1>2, <1>4 DEF Lattice
<1>6. l \in Seq(Point) /\ Len(l) = n
  BY <1>2, <1>5, SeqDef, LenProperties
<1>7. PICK r : r = Reverse(l)
  OBVIOUS
<1>8. r = [i \in 1..n |-> l[(n - i) + 1]]
  BY <1>6, <1>7 DEF Reverse
<1>9. r \in [1..n -> Point]
  <2>1. \A i \in 1..n : (n - i) + 1 \in 1..n
    BY <1>2
  <2>2. QED BY <1>5, <1>8, <2>1
<1>10. r \in Seq(Point) /\ Len(r) = n
  BY <1>2, <1>9, SeqDef, LenProperties
<1>11. QED BY <1>1, <1>2, <1>6, <1>7, <1>10 DEF Clockwise, PartSet

LEMMA PhysicalTyped ==
  ASSUME CutTyped, NEW p \in Seq(Point), Len(p) > 0, NEW c, MakePhysical(p, c)
  PROVE  CutTyped'
<1>1. tris' = tris /\ pieces' = pieces
  BY DEF MakePhysical
<1>2. work' = <<Clockwise(Lattice(p))>> \/ work' = work
  BY DEF MakePhysical
<1>3. work' \in Seq(PartSet)
  <2>1. PICK e \in PartSet : e = Clockwise(Lattice(p))
    BY LatticeIsPart
  <2>2. <<e>> \in Seq(PartSet)
    OBVIOUS
  <2>3. QED BY <1>2, <2>1, <2>2 DEF CutTyped
<1>4. QED BY <1>1, <1>3 DEF CutTyped, IsSeq

LEMMA PenUpTyped ==
  ASSUME SInv, CutTyped, PenUpLine \/ PenUpBox
  PROVE  CutTyped'
<1>1. CASE UNCHANGED cutting
  BY <1>1 DEF CutTyped, IsSeq, cutting
<1>2. CASE PenUpLine
  <2>1. vertices \in Seq(Point) /\ Len(vertices) > 0 /\ Spread(vertices, MIN)
    BY <1>2 DEF SInv, Drawing, PenUpLine
  <2>2. PICK o, t : o = Opened(vertices) /\ t = Thinned(o)
    OBVIOUS
  <2>3. o \in Seq(Point) /\ Spread(o, MIN) /\ Len(o) \in Nat
    BY <2>1, <2>2, OpenedEnds, LenProperties
  <2>4. UNCHANGED cutting \/ (~ (Len(t) < 2) /\ \E c : MakePhysical(t, c))
    BY <1>2, <2>2 DEF PenUpLine, Refused
  <2>5. ~ (Len(t) < 2) => t \in Seq(Point) /\ Len(t) > 0
    <3>1. HAVE ~ (Len(t) < 2)
    <3>2. Len(o) # 0
      BY <2>2, <2>3, <3>1, ThinnedEmpty
    <3>3. t = o
      BY <2>2, <2>3, <3>2, AllKept
    <3>4. QED BY <2>3, <3>2, <3>3
  <2>6. QED BY <1>1, <2>4, <2>5, PhysicalTyped
<1>3. CASE PenUpBox
  <2>1. vertices \in Seq(Point) /\ Len(vertices) > 0
    BY <1>3 DEF SInv, Drawing, PenUpBox
  <2>2. UNCHANGED cutting \/ MakePhysical(vertices, TRUE)
    BY <1>3 DEF PenUpBox, Refused
  <2>3. QED BY <1>1, <2>1, <2>2, PhysicalTyped
<1>4. QED BY <1>2, <1>3

LEMMA PenTyped ==
  ASSUME CutTyped, NEW q, Pen(q)
  PROVE  CutTyped'
<1>1. \/ work' = <<>> /\ tris' = <<>> /\ pieces' = <<>>
      \/ UNCHANGED cutting
  BY DEF Pen, PenDownLine, PenDownBox, NewThing, PenMoveLine, PenMoveBox
<1>2. QED BY <1>1, NothingLeft DEF CutTyped, IsSeq, cutting

(***************************************************************************)
(* Whatever was drawn, each step of the cutting leaves less to do: the     *)
(* loops of TriangulatePolygon, PolygonizeTriangles and makePhysical end,  *)
(* also for a line that crosses itself, has pinch points or encloses       *)
(* nothing.                                                                *)
(***************************************************************************)
THEOREM CuttingEnds == SSpec => CutEnds
<1>1. SInit => SInv /\ CutTyped
  BY NothingLeft DEF SInit, SInv, Drawing, NoZeroEdge, CutTyped
<1>2. ASSUME SInv, CutTyped, [SNext]_svars
      PROVE  CutTyped'
  <2>1. CASE PenUpLine \/ PenUpBox
    BY <1>2, <2>1, PenUpTyped
  <2>2. CASE Cut
    BY <1>2, <2>2, CutShrinks
  <2>3. CASE \E q \in Points : Pen(Pixel(q))
    BY <1>2, <2>3, PenTyped
  <2>4. CASE UNCHANGED svars
    BY <1>2, <2>4 DEF svars, cutting, CutTyped, IsSeq
  <2>5. QED BY <1>2, <2>1, <2>2, <2>3, <2>4 DEF SNext
<1>3. ASSUME CutTyped, [SNext]_svars
      PROVE  [stage \notin Rest \cup {"drawing"} => ToDo' < ToDo]_svars
  <2>1. CASE Cut
    BY <1>3, <2>1, CutShrinks
  <2>2. CASE PenUpLine \/ PenUpBox
    BY <2>2 DEF PenUpLine, PenUpBox
  <2>3. CASE \E q \in Points : Pen(Pixel(q))
    BY <2>3 DEF Pen, PenDownLine, PenDownBox, NewThing, PenMoveLine, PenMoveBox
  <2>4. CASE UNCHANGED svars
    BY <2>4
  <2>5. QED BY <1>3, <2>1, <2>2, <2>3, <2>4 DEF SNext
<1>4. SInv /\ [SNext]_svars => SInv'
  BY InvariantStep
<1>5. QED BY <1>1, <1>2, <1>3, <1>4, PTL DEF SSpec, CutEnds

-----------------------------------------------------------------------------
(***************************************************************************)
(* A box is solid.  On the lattice it is the rectangle that two vectors    *)
(* span at a corner, its frame.  K is the area; u and v are at a right     *)
(* angle, so K is the product of their lengths, each six pixels or more.   *)
(***************************************************************************)
Plus(a, b) == <<a[1] + b[1], a[2] + b[2]>>
Opposite(u) == <<-u[1], -u[2]>>

Frame(c, u, v, K) ==
  /\ c \in Point /\ u \in Point /\ v \in Point /\ K \in Nat \ {0}
  /\ Cross(u, v) = -K
  /\ Square(u) * Square(v) = K * K
  /\ Unit * Unit * Square(u) >= 36 /\ Unit * Unit * Square(v) >= 36

\* The other corners of the frame: next to c along u and along v, and across.
Named(c, u, v, a, o, b) == a = Plus(c, u) /\ o = Plus(a, v) /\ b = Plus(c, v)

LEMMA Differences ==
  ASSUME NEW c \in Point, NEW u \in Point, NEW v \in Point, NEW a, NEW o, NEW b,
         Named(c, u, v, a, o, b)
  PROVE  /\ a \in Point /\ o \in Point /\ b \in Point
         /\ Opposite(u) \in Point /\ Opposite(v) \in Point
         /\ Minus(a, c) = u /\ Minus(o, b) = u
         /\ Minus(c, a) = Opposite(u) /\ Minus(b, o) = Opposite(u)
         /\ Minus(b, c) = v /\ Minus(o, a) = v
         /\ Minus(c, b) = Opposite(v) /\ Minus(a, o) = Opposite(v)
         /\ Minus(a, b) = Minus(u, v) /\ Minus(b, a) = Minus(v, u)
         /\ Minus(o, c) = Plus(u, v) /\ Minus(c, o) = Opposite(Plus(u, v))
<1>c. PICK c1, c2 \in Int : c = <<c1, c2>>
  BY DEF Point
<1>u. PICK u1, u2 \in Int : u = <<u1, u2>>
  BY DEF Point
<1>v. PICK v1, v2 \in Int : v = <<v1, v2>>
  BY DEF Point
<1>1. c = <<c1, c2>> /\ u = <<u1, u2>> /\ v = <<v1, v2>>
  BY <1>c, <1>u, <1>v
<1>2. /\ a = <<c1 + u1, c2 + u2>> /\ b = <<c1 + v1, c2 + v2>>
      /\ o = <<c1 + u1 + v1, c2 + u2 + v2>>
  BY <1>1 DEF Named, Plus
<1>3. a \in Point /\ o \in Point /\ b \in Point
  BY <1>2 DEF Point
<1>4. /\ Opposite(u) = <<-u1, -u2>> /\ Opposite(v) = <<-v1, -v2>>
      /\ Opposite(u) \in Point /\ Opposite(v) \in Point
  BY <1>1 DEF Opposite, Point
<1>5. Minus(a, c) = u /\ Minus(o, b) = u
  BY <1>1, <1>2 DEF Minus
<1>6. Minus(c, a) = Opposite(u) /\ Minus(b, o) = Opposite(u)
  BY <1>1, <1>2, <1>4 DEF Minus
<1>7. Minus(b, c) = v /\ Minus(o, a) = v
  BY <1>1, <1>2 DEF Minus
<1>8. Minus(c, b) = Opposite(v) /\ Minus(a, o) = Opposite(v)
  BY <1>1, <1>2, <1>4 DEF Minus
<1>9. Minus(a, b) = Minus(u, v) /\ Minus(b, a) = Minus(v, u)
  BY <1>1, <1>2 DEF Minus
<1>10. Minus(o, c) = Plus(u, v) /\ Minus(c, o) = Opposite(Plus(u, v))
  BY <1>1, <1>2 DEF Minus, Plus, Opposite
<1>11. QED BY <1>3, <1>4, <1>5, <1>6, <1>7, <1>8, <1>9, <1>10

\* On which side the vectors of the frame lie of each other.
LEMMA Sides ==
  ASSUME NEW u \in Point, NEW v \in Point, NEW K \in Int, Cross(u, v) = -K
  PROVE  /\ Cross(v, u) = K /\ Cross(u, Opposite(v)) = K /\ Cross(Opposite(u), v) = K
         /\ Cross(Opposite(v), Opposite(u)) = K
         /\ Cross(v, Opposite(u)) = -K /\ Cross(Opposite(v), u) = -K
         /\ Cross(Opposite(u), Opposite(v)) = -K
         /\ Cross(v, Plus(u, v)) = K /\ Cross(Opposite(v), Opposite(Plus(u, v))) = K
         /\ Cross(u, Minus(u, v)) = K /\ Cross(Opposite(u), Minus(v, u)) = K
         /\ Cross(v, Minus(v, u)) = -K /\ Cross(Minus(u, v), u) = -K
         /\ Cross(Minus(u, v), Opposite(v)) = K
         /\ Cross(u, Opposite(u)) = 0 /\ Cross(v, Opposite(v)) = 0
         /\ Square(Opposite(u)) = Square(u) /\ Square(Opposite(v)) = Square(v)
         /\ Square(u) \in Nat /\ Square(v) \in Nat
<1>1. PICK u1, u2, v1, v2 \in Int : u = <<u1, u2>> /\ v = <<v1, v2>>
  BY DEF Point
<1>2. PICK p, q \in Int : p = u1 * v2 /\ q = u2 * v1
  BY <1>1
<1>3. p - q = -K
  BY <1>1, <1>2 DEF Cross
<1>4. /\ u1 * (-v2) = -p /\ u2 * (-v1) = -q /\ (-u1) * v2 = -p /\ (-u2) * v1 = -q
      /\ (-u1) * (-v2) = p /\ (-u2) * (-v1) = q
      /\ v2 * u1 = p /\ v1 * u2 = q /\ v2 * (-u1) = -p /\ v1 * (-u2) = -q
      /\ (-v2) * u1 = -p /\ (-v1) * u2 = -q /\ (-v2) * (-u1) = p /\ (-v1) * (-u2) = q
  BY <1>1, <1>2
<1>5. /\ Cross(v, u) = q - p /\ Cross(u, Opposite(v)) = -p - -q /\ Cross(Opposite(u), v) = -p - -q
      /\ Cross(Opposite(v), Opposite(u)) = q - p
      /\ Cross(v, Opposite(u)) = -q - -p /\ Cross(Opposite(v), u) = -q - -p
      /\ Cross(Opposite(u), Opposite(v)) = p - q
  BY <1>1, <1>2, <1>4 DEF Cross, Opposite
<1>6. Cross(v, Plus(u, v)) = q - p
  <2>1. Cross(v, Plus(u, v)) = v1 * (u2 + v2) - v2 * (u1 + v1)
    BY <1>1 DEF Cross, Plus
  <2>2. QED BY <1>1, <1>2, <2>1
<1>7. Cross(Opposite(v), Opposite(Plus(u, v))) = q - p
  <2>1. Cross(Opposite(v), Opposite(Plus(u, v))) = (-v1) * (-(u2 + v2)) - (-v2) * (-(u1 + v1))
    BY <1>1 DEF Cross, Plus, Opposite
  <2>2. QED BY <1>1, <1>2, <2>1
<1>8. Cross(u, Minus(u, v)) = q - p
  <2>1. Cross(u, Minus(u, v)) = u1 * (u2 - v2) - u2 * (u1 - v1)
    BY <1>1 DEF Cross, Minus
  <2>2. QED BY <1>1, <1>2, <2>1
<1>9. Cross(Opposite(u), Minus(v, u)) = q - p
  <2>1. Cross(Opposite(u), Minus(v, u)) = (-u1) * (v2 - u2) - (-u2) * (v1 - u1)
    BY <1>1 DEF Cross, Minus, Opposite
  <2>2. QED BY <1>1, <1>2, <2>1
<1>10. Cross(v, Minus(v, u)) = p - q
  <2>1. Cross(v, Minus(v, u)) = v1 * (v2 - u2) - v2 * (v1 - u1)
    BY <1>1 DEF Cross, Minus
  <2>2. QED BY <1>1, <1>2, <2>1
<1>11. Cross(Minus(u, v), u) = p - q
  <2>1. Cross(Minus(u, v), u) = (u1 - v1) * u2 - (u2 - v2) * u1
    BY <1>1 DEF Cross, Minus
  <2>2. QED BY <1>1, <1>2, <2>1
<1>12. Cross(Minus(u, v), Opposite(v)) = q - p
  <2>1. Cross(Minus(u, v), Opposite(v)) = (u1 - v1) * (-v2) - (u2 - v2) * (-v1)
    BY <1>1 DEF Cross, Minus, Opposite
  <2>2. QED BY <1>1, <1>2, <2>1
<1>13. Cross(u, Opposite(u)) = 0 /\ Cross(v, Opposite(v)) = 0
  BY <1>1 DEF Cross, Opposite
<1>14. Square(Opposite(u)) = Square(u) /\ Square(Opposite(v)) = Square(v)
  BY <1>1 DEF Square, Dot, Opposite
<1>15. Square(u) \in Nat /\ Square(v) \in Nat
  <2>1. \A i \in Int : i * i \in Nat
    OBVIOUS
  <2>2. Square(u) = u1 * u1 + u2 * u2 /\ Square(v) = v1 * v1 + v2 * v2
    BY <1>1 DEF Square, Dot
  <2>3. QED BY <1>1, <2>1, <2>2
<1>16. p - q = -K /\ q - p = K /\ -p - -q = K /\ -q - -p = -K
  BY <1>3
<1>17. QED BY <1>5, <1>6, <1>7, <1>8, <1>9, <1>10, <1>11, <1>12, <1>13, <1>14, <1>15, <1>16

\* Seen from the next corner, the frame is one as well.
LEMMA Turned ==
  ASSUME NEW c, NEW u, NEW v, NEW K, Frame(c, u, v, K), NEW a, NEW o, NEW b,
         Named(c, u, v, a, o, b)
  PROVE  Frame(a, v, Opposite(u), K) /\ Named(a, v, Opposite(u), o, b, c)
<1>1. /\ c \in Point /\ u \in Point /\ v \in Point /\ K \in Int /\ Cross(u, v) = -K
  BY DEF Frame
<1>2. a \in Point /\ Opposite(u) \in Point
  BY <1>1, Differences
<1>3. Cross(v, Opposite(u)) = -K /\ Square(Opposite(u)) = Square(u)
      /\ Square(u) \in Nat /\ Square(v) \in Nat
  BY <1>1, Sides
<1>4. Square(v) * Square(u) = Square(u) * Square(v)
  BY <1>3
<1>5. Frame(a, v, Opposite(u), K)
  BY <1>1, <1>2, <1>3, <1>4 DEF Frame
<1>c. PICK c1, c2 \in Int : c = <<c1, c2>>
  BY <1>1 DEF Point
<1>u. PICK u1, u2 \in Int : u = <<u1, u2>>
  BY <1>1 DEF Point
<1>v. PICK v1, v2 \in Int : v = <<v1, v2>>
  BY <1>1 DEF Point
<1>6. c = <<c1, c2>> /\ u = <<u1, u2>> /\ v = <<v1, v2>>
  BY <1>c, <1>u, <1>v
<1>7. /\ a = <<c1 + u1, c2 + u2>> /\ b = <<c1 + v1, c2 + v2>>
      /\ o = <<c1 + u1 + v1, c2 + u2 + v2>> /\ Opposite(u) = <<-u1, -u2>>
  BY <1>6 DEF Named, Plus, Opposite
<1>8. o = Plus(a, v)
  BY DEF Named
<1>9. b = Plus(o, Opposite(u)) /\ c = Plus(a, Opposite(u))
  BY <1>6, <1>7 DEF Plus
<1>10. QED BY <1>5, <1>8, <1>9 DEF Named

\* Its corners are four.
LEMMA Apart ==
  ASSUME NEW c, NEW u, NEW v, NEW K, Frame(c, u, v, K), NEW a, NEW o, NEW b,
         Named(c, u, v, a, o, b)
  PROVE  c # a /\ c # o /\ c # b /\ a # o /\ a # b /\ o # b
<1>1. /\ c \in Point /\ u \in Point /\ v \in Point /\ K \in Int /\ K # 0 /\ Cross(u, v) = -K
  BY DEF Frame
<1>2. a \in Point /\ o \in Point /\ b \in Point
  BY <1>1, Differences
<1>3. \A w \in Point : Minus(w, w) = <<0, 0>> /\ Cross(w, <<0, 0>>) = 0 /\ Cross(<<0, 0>>, w) = 0
  <2>1. TAKE w \in Point
  <2>2. PICK x1, x2 \in Int : w = <<x1, x2>>
    BY DEF Point
  <2>3. QED BY <2>2 DEF Minus, Cross
<1>4. /\ Minus(a, c) = u /\ Minus(o, b) = u /\ Minus(b, c) = v /\ Minus(o, a) = v
      /\ Minus(a, b) = Minus(u, v) /\ Minus(o, c) = Plus(u, v)
  <2>c. PICK c1, c2 \in Int : c = <<c1, c2>>
    BY <1>1 DEF Point
  <2>u. PICK u1, u2 \in Int : u = <<u1, u2>>
    BY <1>1 DEF Point
  <2>v. PICK v1, v2 \in Int : v = <<v1, v2>>
    BY <1>1 DEF Point
  <2>1. c = <<c1, c2>> /\ u = <<u1, u2>> /\ v = <<v1, v2>>
    BY <2>c, <2>u, <2>v
  <2>2. /\ a = <<c1 + u1, c2 + u2>> /\ b = <<c1 + v1, c2 + v2>>
        /\ o = <<c1 + u1 + v1, c2 + u2 + v2>>
    BY <2>1 DEF Named, Plus
  <2>3. QED BY <2>1, <2>2 DEF Minus, Plus
<1>5. Cross(v, Plus(u, v)) = K /\ Cross(u, Minus(u, v)) = K /\ Cross(u, v) # 0
  <2>1. -K # 0
    BY <1>1
  <2>2. QED BY <1>1, <2>1, Sides
<1>6. u # <<0, 0>> /\ v # <<0, 0>> /\ Plus(u, v) # <<0, 0>> /\ Minus(u, v) # <<0, 0>>
  BY <1>1, <1>3, <1>5
<1>7. QED BY <1>1, <1>2, <1>3, <1>4, <1>6

-----------------------------------------------------------------------------
\* The sum of four numbers, and of one.
LEMMA FourAdded ==
  ASSUME NEW f \in [1..4 -> Int], NEW g, Adds(1..4, f, g)
  PROVE  g[1..4] = f[1] + f[2] + f[3] + f[4]
<1>1. IsFiniteSet(1..4)
  <2>1. 1 \in Int /\ 4 \in Int
    OBVIOUS
  <2>2. QED BY <2>1, FS_Interval
<1>2. /\ (1..4) \ {4} = {1, 2, 3} /\ {1, 2, 3} \ {3} = {1, 2} /\ {1, 2} \ {2} = {1}
      /\ {1} \ {1} = {}
  OBVIOUS
<1>3. {1, 2, 3} \in SUBSET (1..4) /\ {1, 2} \in SUBSET (1..4) /\ {1} \in SUBSET (1..4)
      /\ {} \in SUBSET (1..4) /\ 1..4 \in SUBSET (1..4)
      /\ 4 \in 1..4 /\ 3 \in {1, 2, 3} /\ 2 \in {1, 2} /\ 1 \in {1}
  OBVIOUS
<1>4. g[1..4] = f[4] + g[(1..4) \ {4}]
  BY <1>1, <1>3, SumAny
<1>5. g[{1, 2, 3}] = f[3] + g[{1, 2, 3} \ {3}]
  BY <1>1, <1>3, SumAny
<1>6. g[{1, 2}] = f[2] + g[{1, 2} \ {2}]
  BY <1>1, <1>3, SumAny
<1>7. g[{1}] = f[1] + g[{1} \ {1}]
  BY <1>1, <1>3, SumAny
<1>8. g[{}] = 0
  BY <1>3, SumStep
<1>9. g[1..4] = f[4] + (f[3] + (f[2] + (f[1] + 0)))
  BY <1>2, <1>4, <1>5, <1>6, <1>7, <1>8
<1>10. f[1] \in Int /\ f[2] \in Int /\ f[3] \in Int /\ f[4] \in Int
  OBVIOUS
<1>11. QED BY <1>9, <1>10

LEMMA CrossIsInt ==
  ASSUME NEW a \in Point, NEW b \in Point
  PROVE  Cross(a, b) \in Int
BY DEF Cross, Point

\* The neighbours in a polygon of four.
Corners4(p, a, b, c, d) ==
  /\ p \in Seq(Point) /\ Len(p) = 4 /\ DOMAIN p = 1..4
  /\ p[1] = a /\ p[2] = b /\ p[3] = c /\ p[4] = d

LEMMA Neighbours ==
  ASSUME NEW p, NEW a, NEW b, NEW c, NEW d, Corners4(p, a, b, c, d)
  PROVE  /\ After(p, 1) = b /\ After(p, 2) = c /\ After(p, 3) = d /\ After(p, 4) = a
         /\ Before(p, 1) = d /\ Before(p, 2) = a /\ Before(p, 3) = b /\ Before(p, 4) = c
         /\ a \in Point /\ b \in Point /\ c \in Point /\ d \in Point
<1>1. Len(p) = 4 /\ p[1] = a /\ p[2] = b /\ p[3] = c /\ p[4] = d
  BY DEF Corners4
<1>2. 1 % 4 = 1 /\ 2 % 4 = 2 /\ 3 % 4 = 3 /\ 4 % 4 = 0
  OBVIOUS
<1>3. After(p, 1) = b /\ After(p, 2) = c /\ After(p, 3) = d /\ After(p, 4) = a
  BY <1>1, <1>2 DEF After
<1>4. Before(p, 1) = d /\ Before(p, 2) = a /\ Before(p, 3) = b /\ Before(p, 4) = c
  BY <1>1 DEF Before
<1>5. a \in Point /\ b \in Point /\ c \in Point /\ d \in Point
  <2>1. p \in Seq(Point) /\ 1 \in 1..Len(p) /\ 2 \in 1..Len(p) /\ 3 \in 1..Len(p) /\ 4 \in 1..Len(p)
    BY <1>1 DEF Corners4
  <2>2. QED BY <1>1, <2>1, ElementOfSeq
<1>6. QED BY <1>3, <1>4, <1>5

LEMMA AreaOfFour ==
  ASSUME NEW p, NEW a, NEW b, NEW c, NEW d, Corners4(p, a, b, c, d)
  PROVE  Area2(p) = Cross(a, b) + Cross(b, c) + Cross(c, d) + Cross(d, a)
<1>1. PICK D : D = DOMAIN p
  OBVIOUS
<1>2. D = 1..4 /\ IsFiniteSet(D)
  BY <1>1, FS_Interval DEF Corners4
<1>3. PICK f : f = [i \in D |-> Cross(p[i], After(p, i))]
  OBVIOUS
<1>4. f[1] = Cross(a, b) /\ f[2] = Cross(b, c) /\ f[3] = Cross(c, d) /\ f[4] = Cross(d, a)
  <2>1. 1 \in D /\ 2 \in D /\ 3 \in D /\ 4 \in D
    BY <1>2
  <2>2. p[1] = a /\ p[2] = b /\ p[3] = c /\ p[4] = d
    BY DEF Corners4
  <2>3. QED BY <1>3, <2>1, <2>2, Neighbours
<1>5. f \in [1..4 -> Int]
  <2>1. \A i \in 1..4 : i = 1 \/ i = 2 \/ i = 3 \/ i = 4
    OBVIOUS
  <2>2. f[1] \in Int /\ f[2] \in Int /\ f[3] \in Int /\ f[4] \in Int
    BY <1>4, Neighbours, CrossIsInt
  <2>3. \A i \in 1..4 : f[i] \in Int
    BY <2>1, <2>2
  <2>4. QED BY <1>2, <1>3, <2>3
<1> DEFINE Fold(g) == g = [s \in SUBSET D |->
             IF s = {} THEN 0 ELSE LET i == CHOOSE i \in s : TRUE IN Cross(p[i], After(p, i)) + g[s \ {i}]]
<1>6. ASSUME NEW g PROVE Adds(D, f, g) <=> Fold(g)
  <2>1. \A s \in SUBSET D : s # {} => (CHOOSE i \in s : TRUE) \in D
    OBVIOUS
  <2>2. ASSUME NEW s \in SUBSET D
        PROVE  (IF s = {} THEN 0 ELSE LET i == CHOOSE i \in s : TRUE IN f[i] + g[s \ {i}])
             = (IF s = {} THEN 0 ELSE LET i == CHOOSE i \in s : TRUE IN Cross(p[i], After(p, i)) + g[s \ {i}])
    BY <1>3, <2>1
  <2>3. [s \in SUBSET D |-> IF s = {} THEN 0 ELSE LET i == CHOOSE i \in s : TRUE IN f[i] + g[s \ {i}]]
      = [s \in SUBSET D |-> IF s = {} THEN 0 ELSE LET i == CHOOSE i \in s : TRUE IN Cross(p[i], After(p, i)) + g[s \ {i}]]
    BY <2>2
  <2>4. QED BY <2>3 DEF Adds
<1>7. PICK g : g = CHOOSE h : Fold(h)
  OBVIOUS
<1>8. Fold(g)
  <2>1. \E h : Fold(h)
    <3> HIDE DEF Fold
    <3> QED BY <1>2, <1>6, SumExists
  <2> HIDE DEF Fold
  <2> QED BY <1>7, <2>1
<1>9. Adds(1..4, f, g)
  BY <1>2, <1>6, <1>8
<1>10. Area2(p) = g[D]
  BY <1>1, <1>7 DEF Area2, SumOver, MapThenSumSet, MapThenFoldSet
<1>11. QED BY <1>2, <1>4, <1>5, <1>9, <1>10, FourAdded

LEMMA MomentOfFour ==
  ASSUME NEW p, NEW a, NEW b, NEW c, NEW d, Corners4(p, a, b, c, d), NEW k \in 1..2
  PROVE  Moment(p)[k] = Cross(a, b) * (a[k] + b[k]) + Cross(b, c) * (b[k] + c[k])
                          + Cross(c, d) * (c[k] + d[k]) + Cross(d, a) * (d[k] + a[k])
<1>1. PICK D : D = DOMAIN p
  OBVIOUS
<1>2. D = 1..4 /\ IsFiniteSet(D)
  BY <1>1, FS_Interval DEF Corners4
<1>3. PICK f : f = [i \in D |-> Cross(p[i], After(p, i)) * (p[i][k] + After(p, i)[k])]
  OBVIOUS
<1>4. /\ f[1] = Cross(a, b) * (a[k] + b[k]) /\ f[2] = Cross(b, c) * (b[k] + c[k])
      /\ f[3] = Cross(c, d) * (c[k] + d[k]) /\ f[4] = Cross(d, a) * (d[k] + a[k])
  <2>1. 1 \in D /\ 2 \in D /\ 3 \in D /\ 4 \in D
    BY <1>2
  <2>2. p[1] = a /\ p[2] = b /\ p[3] = c /\ p[4] = d
    BY DEF Corners4
  <2>3. QED BY <1>3, <2>1, <2>2, Neighbours
<1>5. f \in [1..4 -> Int]
  <2>1. \A i \in 1..4 : i = 1 \/ i = 2 \/ i = 3 \/ i = 4
    OBVIOUS
  <2>2. \A x1, x2 \in Point : Cross(x1, x2) * (x1[k] + x2[k]) \in Int
    <3>1. TAKE x1, x2 \in Point
    <3>2. Cross(x1, x2) \in Int /\ x1[k] \in Int /\ x2[k] \in Int
      BY CrossIsInt DEF Point
    <3>3. QED BY <3>2
  <2>3. f[1] \in Int /\ f[2] \in Int /\ f[3] \in Int /\ f[4] \in Int
    BY <1>4, <2>2, Neighbours
  <2>4. \A i \in 1..4 : f[i] \in Int
    BY <2>1, <2>3
  <2>5. QED BY <1>2, <1>3, <2>4
<1> DEFINE Fold(g) == g = [s \in SUBSET D |->
             IF s = {} THEN 0 ELSE LET i == CHOOSE i \in s : TRUE
                                   IN Cross(p[i], After(p, i)) * (p[i][k] + After(p, i)[k]) + g[s \ {i}]]
<1>6. ASSUME NEW g PROVE Adds(D, f, g) <=> Fold(g)
  <2>1. \A s \in SUBSET D : s # {} => (CHOOSE i \in s : TRUE) \in D
    OBVIOUS
  <2>2. ASSUME NEW s \in SUBSET D
        PROVE  (IF s = {} THEN 0 ELSE LET i == CHOOSE i \in s : TRUE IN f[i] + g[s \ {i}])
             = (IF s = {} THEN 0 ELSE LET i == CHOOSE i \in s : TRUE
                                   IN Cross(p[i], After(p, i)) * (p[i][k] + After(p, i)[k]) + g[s \ {i}])
    BY <1>3, <2>1
  <2>3. [s \in SUBSET D |-> IF s = {} THEN 0 ELSE LET i == CHOOSE i \in s : TRUE IN f[i] + g[s \ {i}]]
      = [s \in SUBSET D |-> IF s = {} THEN 0 ELSE LET i == CHOOSE i \in s : TRUE
                                   IN Cross(p[i], After(p, i)) * (p[i][k] + After(p, i)[k]) + g[s \ {i}]]
    BY <2>2
  <2>4. QED BY <2>3 DEF Adds
<1>7. PICK g : g = CHOOSE h : Fold(h)
  OBVIOUS
<1>8. Fold(g)
  <2>1. \E h : Fold(h)
    <3> HIDE DEF Fold
    <3> QED BY <1>2, <1>6, SumExists
  <2> HIDE DEF Fold
  <2> QED BY <1>7, <2>1
<1>9. Adds(1..4, f, g)
  BY <1>2, <1>6, <1>8
<1>10. Moment(p)[k] = g[D]
  BY <1>1, <1>7 DEF Moment, SumOver, MapThenSumSet, MapThenFoldSet
<1>11. QED BY <1>2, <1>4, <1>5, <1>9, <1>10, FourAdded

-----------------------------------------------------------------------------
(***************************************************************************)
(* The piece that the rectangle becomes, counter-clockwise.                *)
(***************************************************************************)
Piece(p, c, u, v, a, o, b) == Corners4(p, c, b, o, a) /\ Named(c, u, v, a, o, b)

LEMMA PieceEdges ==
  ASSUME NEW c, NEW u, NEW v, NEW K, Frame(c, u, v, K),
         NEW p, NEW a, NEW o, NEW b, Piece(p, c, u, v, a, o, b)
  PROVE  /\ Edge(p, 1) = v /\ Edge(p, 2) = u /\ Edge(p, 3) = Opposite(v) /\ Edge(p, 4) = Opposite(u)
         /\ \A i \in 1..4 : /\ Turn(p, i) = K
                            /\ Cross(Minus(p[i], Before(p, i)), Edge(p, i)) = K
                            /\ Square(Minus(p[i], Before(p, i))) * Square(Edge(p, i)) = K * K
         /\ Area2(p) = 2 * K
<1>1. /\ c \in Point /\ u \in Point /\ v \in Point /\ K \in Int /\ Cross(u, v) = -K
  BY DEF Frame
<1>2. Corners4(p, c, b, o, a) /\ Named(c, u, v, a, o, b)
  BY DEF Piece
<1>3. p[1] = c /\ p[2] = b /\ p[3] = o /\ p[4] = a
  BY <1>2 DEF Corners4
<1>d. /\ Minus(c, a) = Opposite(u) /\ Minus(b, c) = v
      /\ Minus(o, b) = u /\ Minus(a, o) = Opposite(v)
  <2>1. c \in Point /\ u \in Point /\ v \in Point /\ Named(c, u, v, a, o, b)
    BY <1>1, <1>2
  <2> HIDE <1>1, <1>2
  <2>2. QED BY <2>1, Differences
<1>4. Edge(p, 1) = v /\ Edge(p, 2) = u /\ Edge(p, 3) = Opposite(v) /\ Edge(p, 4) = Opposite(u)
  <2>1. /\ After(p, 1) = b /\ After(p, 2) = o /\ After(p, 3) = a /\ After(p, 4) = c
    BY <1>2, Neighbours
  <2>2. QED BY <1>3, <1>d, <2>1 DEF Edge
<1>5. /\ Minus(p[1], Before(p, 1)) = Opposite(u) /\ Minus(p[2], Before(p, 2)) = v
      /\ Minus(p[3], Before(p, 3)) = u /\ Minus(p[4], Before(p, 4)) = Opposite(v)
  <2>1. /\ Before(p, 1) = a /\ Before(p, 2) = c /\ Before(p, 3) = b /\ Before(p, 4) = o
    BY <1>2, Neighbours
  <2>2. QED BY <1>3, <1>d, <2>1
<1>6. Turn(p, 1) = K /\ Turn(p, 2) = K /\ Turn(p, 3) = K /\ Turn(p, 4) = K
  BY <1>1, <1>4, <1>5, Sides DEF Turn
<1>7. Area2(p) = Cross(c, b) + Cross(b, o) + Cross(o, a) + Cross(a, c)
  BY <1>2, AreaOfFour
<1>8. Cross(c, b) + Cross(b, o) + Cross(o, a) + Cross(a, c) = 2 * K
  <2>c. PICK c1, c2 \in Int : c = <<c1, c2>>
    BY <1>1 DEF Point
  <2>u. PICK u1, u2 \in Int : u = <<u1, u2>>
    BY <1>1 DEF Point
  <2>v. PICK v1, v2 \in Int : v = <<v1, v2>>
    BY <1>1 DEF Point
  <2>1. c = <<c1, c2>> /\ u = <<u1, u2>> /\ v = <<v1, v2>>
    BY <2>c, <2>u, <2>v
  <2>2. /\ a = <<c1 + u1, c2 + u2>> /\ b = <<c1 + v1, c2 + v2>>
        /\ o = <<c1 + u1 + v1, c2 + u2 + v2>>
    BY <1>2, <2>1 DEF Named, Plus
  <2>3. u1 * v2 - u2 * v1 = -K
    BY <1>1, <2>1 DEF Cross
  <2>4. /\ Cross(c, b) = c1 * (c2 + v2) - c2 * (c1 + v1)
        /\ Cross(b, o) = (c1 + v1) * (c2 + u2 + v2) - (c2 + v2) * (c1 + u1 + v1)
        /\ Cross(o, a) = (c1 + u1 + v1) * (c2 + u2) - (c2 + u2 + v2) * (c1 + u1)
        /\ Cross(a, c) = (c1 + u1) * c2 - (c2 + u2) * c1
    BY <2>1, <2>2 DEF Cross
  <2>5. /\ Cross(c, b) = c1 * v2 - c2 * v1
        /\ Cross(b, o) = c1 * u2 + v1 * u2 - c2 * u1 - v2 * u1
        /\ Cross(o, a) = v1 * c2 + v1 * u2 - v2 * c1 - v2 * u1
        /\ Cross(a, c) = u1 * c2 - u2 * c1
    BY <2>1, <2>4
  <2>6. QED BY <2>1, <2>3, <2>5, <1>1
<1>9. \A i \in 1..4 : i = 1 \/ i = 2 \/ i = 3 \/ i = 4
  OBVIOUS
<1>10. \A i \in 1..4 : Turn(p, i) = K
  BY <1>6, <1>9
<1>11. \A i \in 1..4 : Cross(Minus(p[i], Before(p, i)), Edge(p, i)) = K
  BY <1>10 DEF Turn
<1>12. \A i \in 1..4 : Square(Minus(p[i], Before(p, i))) * Square(Edge(p, i)) = K * K
  <2>1. Square(Opposite(u)) = Square(u) /\ Square(Opposite(v)) = Square(v)
        /\ Square(u) \in Nat /\ Square(v) \in Nat
    BY <1>1, Sides
  <2>2. Square(u) * Square(v) = K * K /\ Square(v) * Square(u) = K * K
    BY <2>1 DEF Frame
  <2>3. QED BY <1>4, <1>5, <1>9, <2>1, <2>2
<1>13. QED BY <1>4, <1>7, <1>8, <1>10, <1>11, <1>12

\* Its sides do not cross.
LEMMA PieceSimple ==
  ASSUME NEW c, NEW u, NEW v, NEW K, Frame(c, u, v, K),
         NEW p, NEW a, NEW o, NEW b, Piece(p, c, u, v, a, o, b)
  PROVE  IsSimple(p)
<1>1. /\ c \in Point /\ u \in Point /\ v \in Point /\ K \in Int /\ K > 0 /\ Cross(u, v) = -K
  BY DEF Frame
<1>2. Corners4(p, c, b, o, a) /\ Named(c, u, v, a, o, b)
  BY DEF Piece
<1>3. p[1] = c /\ p[2] = b /\ p[3] = o /\ p[4] = a /\ DOMAIN p = 1..4
  BY <1>2 DEF Corners4
<1>4. /\ After(p, 1) = b /\ After(p, 2) = o /\ After(p, 3) = a /\ After(p, 4) = c
  BY <1>2, Neighbours
<1>5. Minus(b, c) = v /\ Minus(o, b) = u /\ Minus(a, o) = Opposite(v) /\ Minus(c, a) = Opposite(u)
      /\ Minus(a, c) = u
  BY <1>1, <1>2, Differences
<1>6. ~ Inside(K, K) /\ ~ Inside(0, -K)
  BY <1>1 DEF Inside
<1>7. ~ Crosses(c, b, b, o)
  <2>1. Cross(v, u) = K
    BY <1>1, Sides
  <2>2. QED BY <1>5, <1>6, <2>1 DEF Crosses
<1>8. ~ Crosses(b, o, o, a)
  <2>1. Cross(u, Opposite(v)) = K
    BY <1>1, Sides
  <2>2. QED BY <1>5, <1>6, <2>1 DEF Crosses
<1>9. ~ Crosses(o, a, a, c)
  <2>1. Cross(Opposite(v), Opposite(u)) = K
    BY <1>1, Sides
  <2>2. QED BY <1>5, <1>6, <2>1 DEF Crosses
<1>10. ~ Crosses(c, b, o, a)
  <2>1. Cross(v, Opposite(v)) = 0
    BY <1>1, Sides
  <2>2. QED BY <1>5, <2>1 DEF Crosses
<1>11. ~ Crosses(b, o, a, c)
  <2>1. Cross(u, Opposite(u)) = 0
    BY <1>1, Sides
  <2>2. QED BY <1>5, <2>1 DEF Crosses
<1>12. ~ Crosses(c, b, a, c)
  <2>1. Cross(v, Opposite(u)) = -K /\ Cross(u, Opposite(u)) = 0
    BY <1>1, Sides
  <2>2. QED BY <1>5, <1>6, <2>1 DEF Crosses
<1>13. \A i, j \in 1..4 : i < j =>
         (i = 1 /\ j \in {2, 3, 4}) \/ (i = 2 /\ j \in {3, 4}) \/ (i = 3 /\ j = 4)
  OBVIOUS
<1>14. \A i, j \in 1..4 : i < j => ~ Crosses(p[i], After(p, i), p[j], After(p, j))
  BY <1>3, <1>4, <1>7, <1>8, <1>9, <1>10, <1>11, <1>12, <1>13
<1>15. QED BY <1>3, <1>14 DEF IsSimple

\* It is not thin.
LEMMA PieceThick ==
  ASSUME NEW c, NEW u, NEW v, NEW K, Frame(c, u, v, K),
         NEW p, NEW a, NEW o, NEW b, Piece(p, c, u, v, a, o, b)
  PROVE  \A i \in 1..4 : Thick(p, i)
<1>1. /\ c \in Point /\ u \in Point /\ v \in Point /\ K \in Nat /\ K > 0 /\ Cross(u, v) = -K
  BY DEF Frame
<1>2. Corners4(p, c, b, o, a) /\ Named(c, u, v, a, o, b)
  BY DEF Piece
<1>3. p[1] = c /\ p[2] = b /\ p[3] = o /\ p[4] = a /\ DOMAIN p = 1..4 /\ Len(p) = 4
  BY <1>2 DEF Corners4
<1>4. Edge(p, 1) = v /\ Edge(p, 2) = u /\ Edge(p, 3) = Opposite(v) /\ Edge(p, 4) = Opposite(u)
  BY PieceEdges
<1>5. /\ Minus(o, c) = Plus(u, v) /\ Minus(a, c) = u
      /\ Minus(a, b) = Minus(u, v) /\ Minus(c, b) = Opposite(v)
      /\ Minus(c, o) = Opposite(Plus(u, v)) /\ Minus(b, o) = Opposite(u)
      /\ Minus(b, a) = Minus(v, u) /\ Minus(o, a) = v
  BY <1>1, <1>2, Differences
<1>6. /\ Cross(v, Plus(u, v)) = K /\ Cross(v, u) = K
      /\ Cross(u, Minus(u, v)) = K /\ Cross(u, Opposite(v)) = K
      /\ Cross(Opposite(v), Opposite(Plus(u, v))) = K /\ Cross(Opposite(v), Opposite(u)) = K
      /\ Cross(Opposite(u), Minus(v, u)) = K /\ Cross(Opposite(u), v) = K
  BY <1>1, Sides
<1>7. /\ Cross(Edge(p, 1), Minus(p[3], p[1])) = K /\ Cross(Edge(p, 1), Minus(p[4], p[1])) = K
      /\ Cross(Edge(p, 2), Minus(p[4], p[2])) = K /\ Cross(Edge(p, 2), Minus(p[1], p[2])) = K
      /\ Cross(Edge(p, 3), Minus(p[1], p[3])) = K /\ Cross(Edge(p, 3), Minus(p[2], p[3])) = K
      /\ Cross(Edge(p, 4), Minus(p[2], p[4])) = K /\ Cross(Edge(p, 4), Minus(p[3], p[4])) = K
  BY <1>3, <1>4, <1>5, <1>6
<1>8. PICK h : h = 4 * Unit * K
  OBVIOUS
<1>9. h > 0 /\ h * h > Square(v) /\ h * h > Square(u)
  <2>1. PICK U, V, N : U = Square(u) /\ V = Square(v) /\ N = Unit * Unit
    OBVIOUS
  <2>2. U \in Nat /\ V \in Nat /\ N \in Nat /\ Unit \in Nat /\ Unit > 0
    BY <1>1, <2>1, Sides, UnitAssumption
  <2>3. U * V = K * K /\ N * U >= 36 /\ N * V >= 36
    BY <2>1 DEF Frame
  <2>4. h * h = 16 * (N * (K * K))
    BY <1>1, <1>8, <2>1, <2>2
  <2>5. N * (K * K) = (N * U) * V /\ N * (K * K) = (N * V) * U
    BY <2>2, <2>3
  <2>6. K * K > 0
    BY <1>1
  <2>7. U > 0 /\ V > 0
    BY <2>2, <2>3
  <2>8. (N * U) * V >= 36 * V /\ (N * V) * U >= 36 * U
    BY <2>2, <2>3
  <2>9. h > 0
    BY <1>1, <1>8, <2>2
  <2>10. h * h > V /\ h * h > U
    BY <2>2, <2>4, <2>5, <2>7, <2>8
  <2>11. QED BY <2>1, <2>9, <2>10
<1>10. Square(Opposite(u)) = Square(u) /\ Square(Opposite(v)) = Square(v)
  BY <1>1, Sides
<1>11. \A i \in 1..4 : h * h > Square(Edge(p, i))
  <2>1. \A i \in 1..4 : i = 1 \/ i = 2 \/ i = 3 \/ i = 4
    OBVIOUS
  <2>2. QED BY <1>4, <1>9, <1>10, <2>1
<1>12. ASSUME NEW i \in 1..4, NEW j \in DOMAIN p \ {i, (i % Len(p)) + 1}
       PROVE  Cross(Edge(p, i), Minus(p[j], p[i])) = K
  <2>1. \/ (i = 1 /\ j \in {3, 4}) \/ (i = 2 /\ j \in {4, 1})
        \/ (i = 3 /\ j \in {1, 2}) \/ (i = 4 /\ j \in {2, 3})
    <3>1. 1 % 4 = 1 /\ 2 % 4 = 2 /\ 3 % 4 = 3 /\ 4 % 4 = 0
      OBVIOUS
    <3>2. \A k \in 1..4 : k = 1 \/ k = 2 \/ k = 3 \/ k = 4
      OBVIOUS
    <3>3. j \in 1..4 /\ j # i /\ j # (i % 4) + 1
      BY <1>3
    <3>4. QED BY <3>1, <3>2, <3>3
  <2>2. QED BY <1>7, <2>1
<1>13. ASSUME NEW i \in 1..4 PROVE Thick(p, i)
  <2>1. ASSUME NEW j \in DOMAIN p \ {i, (i % Len(p)) + 1}
        PROVE  LET e == 4 * Unit * Cross(Edge(p, i), Minus(p[j], p[i]))
               IN  e > 0 /\ e * e > Square(Edge(p, i))
    BY <1>8, <1>9, <1>11, <1>12
  <2>2. QED BY <2>1 DEF Thick
<1>14. QED BY <1>13

\* Its centroid is in its middle.
LEMMA PieceMoment ==
  ASSUME NEW c, NEW u, NEW v, NEW K, Frame(c, u, v, K),
         NEW p, NEW a, NEW o, NEW b, Piece(p, c, u, v, a, o, b), NEW k \in 1..2
  PROVE  Moment(p)[k] = 6 * K * c[k] + 3 * K * (u[k] + v[k])
<1>1. /\ c \in Point /\ u \in Point /\ v \in Point /\ K \in Int /\ Cross(u, v) = -K
  BY DEF Frame
<1>2. Corners4(p, c, b, o, a) /\ Named(c, u, v, a, o, b)
  BY DEF Piece
<1>c. PICK c1, c2 \in Int : c = <<c1, c2>>
  BY <1>1 DEF Point
<1>u. PICK u1, u2 \in Int : u = <<u1, u2>>
  BY <1>1 DEF Point
<1>v. PICK v1, v2 \in Int : v = <<v1, v2>>
  BY <1>1 DEF Point
<1>3. c = <<c1, c2>> /\ u = <<u1, u2>> /\ v = <<v1, v2>>
  BY <1>c, <1>u, <1>v
<1>4. /\ a = <<c1 + u1, c2 + u2>> /\ b = <<c1 + v1, c2 + v2>>
      /\ o = <<c1 + u1 + v1, c2 + u2 + v2>>
  BY <1>2, <1>3 DEF Named, Plus
<1>5. u1 * v2 - u2 * v1 = -K
  BY <1>1, <1>3 DEF Cross
<1>6. PICK r, s \in Int : r = c1 * v2 - c2 * v1 /\ s = c1 * u2 - c2 * u1
  BY <1>3
<1>7. Cross(c, b) = r /\ Cross(b, o) = s + K /\ Cross(o, a) = K - r /\ Cross(a, c) = -s
  <2>1. /\ Cross(c, b) = c1 * (c2 + v2) - c2 * (c1 + v1)
        /\ Cross(b, o) = (c1 + v1) * (c2 + u2 + v2) - (c2 + v2) * (c1 + u1 + v1)
        /\ Cross(o, a) = (c1 + u1 + v1) * (c2 + u2) - (c2 + u2 + v2) * (c1 + u1)
        /\ Cross(a, c) = (c1 + u1) * c2 - (c2 + u2) * c1
    BY <1>3, <1>4 DEF Cross
  <2>2. /\ Cross(c, b) = c1 * v2 - c2 * v1
        /\ Cross(b, o) = c1 * u2 + v1 * u2 - c2 * u1 - v2 * u1
        /\ Cross(o, a) = v1 * c2 + v1 * u2 - v2 * c1 - v2 * u1
        /\ Cross(a, c) = u1 * c2 - u2 * c1
    BY <1>3, <2>1
  <2>3. QED BY <1>1, <1>3, <1>5, <1>6, <2>2
<1>8. s * v1 - r * u1 = K * c1 /\ s * v2 - r * u2 = K * c2
  <2>1. K = u2 * v1 - u1 * v2
    BY <1>1, <1>3, <1>5
  <2>2. s * v1 - r * u1 = (c1 * u2 - c2 * u1) * v1 - (c1 * v2 - c2 * v1) * u1
    BY <1>6
  <2>3. s * v2 - r * u2 = (c1 * u2 - c2 * u1) * v2 - (c1 * v2 - c2 * v1) * u2
    BY <1>6
  <2>4. (c1 * u2 - c2 * u1) * v1 - (c1 * v2 - c2 * v1) * u1 = (u2 * v1 - u1 * v2) * c1
    BY <1>3
  <2>5. (c1 * u2 - c2 * u1) * v2 - (c1 * v2 - c2 * v1) * u2 = (u2 * v1 - u1 * v2) * c2
    BY <1>3
  <2>6. QED BY <2>1, <2>2, <2>3, <2>4, <2>5
<1>9. PICK x1, y1, z1 \in Int :
        /\ c[k] = x1 /\ u[k] = y1 /\ v[k] = z1 /\ s * z1 - r * y1 = K * x1
        /\ b[k] = x1 + z1 /\ o[k] = x1 + y1 + z1 /\ a[k] = x1 + y1
  <2>1. k = 1 => /\ c[k] = c1 /\ u[k] = u1 /\ v[k] = v1 /\ b[k] = c1 + v1
                 /\ o[k] = c1 + u1 + v1 /\ a[k] = c1 + u1
    BY <1>3, <1>4
  <2>2. k = 2 => /\ c[k] = c2 /\ u[k] = u2 /\ v[k] = v2 /\ b[k] = c2 + v2
                 /\ o[k] = c2 + u2 + v2 /\ a[k] = c2 + u2
    BY <1>3, <1>4
  <2>3. k = 1 \/ k = 2
    OBVIOUS
  <2>4. QED BY <1>3, <1>8, <2>1, <2>2, <2>3
<1>10. Moment(p)[k] = r * (c[k] + b[k]) + (s + K) * (b[k] + o[k])
                        + (K - r) * (o[k] + a[k]) + (-s) * (a[k] + c[k])
  <2>1. Moment(p)[k] = Cross(c, b) * (c[k] + b[k]) + Cross(b, o) * (b[k] + o[k])
                         + Cross(o, a) * (o[k] + a[k]) + Cross(a, c) * (a[k] + c[k])
    BY <1>2, MomentOfFour
  <2>2. QED BY <1>7, <2>1
<1>11. Moment(p)[k] = r * (x1 + (x1 + z1)) + (s + K) * ((x1 + z1) + (x1 + y1 + z1))
               + (K - r) * ((x1 + y1 + z1) + (x1 + y1)) + (-s) * ((x1 + y1) + x1)
  BY <1>9, <1>10
<1>12. r * (x1 + (x1 + z1)) + (s + K) * ((x1 + z1) + (x1 + y1 + z1))
           + (K - r) * ((x1 + y1 + z1) + (x1 + y1)) + (-s) * ((x1 + y1) + x1)
       = 4 * (K * x1) + 3 * (K * y1) + 3 * (K * z1) + 2 * (s * z1) - 2 * (r * y1)
  BY <1>1, <1>6, <1>9
<1>13. PICK e, f, g, h, i \in Int :
         e = K * x1 /\ f = K * y1 /\ g = K * z1 /\ h = s * z1 /\ i = r * y1
  BY <1>1, <1>6, <1>9
<1>14. 4 * e + 3 * f + 3 * g + 2 * h - 2 * i = 6 * e + 3 * f + 3 * g
  BY <1>9, <1>13
<1>15. 6 * K * x1 + 3 * K * (y1 + z1) = 6 * (K * x1) + 3 * (K * y1) + 3 * (K * z1)
  BY <1>1, <1>9
<1>16. QED BY <1>9, <1>11, <1>12, <1>13, <1>14, <1>15

\* So it is as deep as it is thick.
LEMMA PieceDeep ==
  ASSUME NEW c, NEW u, NEW v, NEW K, Frame(c, u, v, K),
         NEW p, NEW a, NEW o, NEW b, Piece(p, c, u, v, a, o, b)
  PROVE  \A i \in 1..4 : Deep(p, i)
<1>1. /\ c \in Point /\ u \in Point /\ v \in Point /\ K \in Nat /\ K > 0 /\ Cross(u, v) = -K
  BY DEF Frame
<1>2. Corners4(p, c, b, o, a) /\ Named(c, u, v, a, o, b)
  BY DEF Piece
<1>3. p[1] = c /\ p[2] = b /\ p[3] = o /\ p[4] = a
  BY <1>2 DEF Corners4
<1>c. PICK c1, c2 \in Int : c = <<c1, c2>>
  BY <1>1 DEF Point
<1>u. PICK u1, u2 \in Int : u = <<u1, u2>>
  BY <1>1 DEF Point
<1>v. PICK v1, v2 \in Int : v = <<v1, v2>>
  BY <1>1 DEF Point
<1>4. c = <<c1, c2>> /\ u = <<u1, u2>> /\ v = <<v1, v2>>
  BY <1>c, <1>u, <1>v
<1>5. /\ a = <<c1 + u1, c2 + u2>> /\ b = <<c1 + v1, c2 + v2>>
      /\ o = <<c1 + u1 + v1, c2 + u2 + v2>>
  BY <1>2, <1>4 DEF Named, Plus
<1>6. PICK M, T \in Int : M = 3 * K /\ T = 6 * K
  BY <1>1
<1>7. Moment(p)[1] = T * c1 + M * (u1 + v1) /\ Moment(p)[2] = T * c2 + M * (u2 + v2)
  <2>1. 1 \in 1..2 /\ 2 \in 1..2
    OBVIOUS
  <2>2. /\ Moment(p)[1] = 6 * K * c[1] + 3 * K * (u[1] + v[1])
        /\ Moment(p)[2] = 6 * K * c[2] + 3 * K * (u[2] + v[2])
    BY <2>1, PieceMoment
  <2>3. QED BY <1>4, <1>6, <2>2
<1>8. 3 * Area2(p) = T
  <2>1. Area2(p) = 2 * K
    BY PieceEdges
  <2>2. QED BY <1>1, <1>6, <2>1
<1> DEFINE Arm(i) == Minus(Moment(p), [k \in 1..2 |-> 3 * Area2(p) * p[i][k]])
<1>9. ASSUME NEW i \in 1..4
      PROVE  Arm(i) = <<(T * c1 + M * (u1 + v1)) - T * p[i][1], (T * c2 + M * (u2 + v2)) - T * p[i][2]>>
  <2>1. PICK f : f = [k \in 1..2 |-> 3 * Area2(p) * p[i][k]]
    OBVIOUS
  <2>2. f[1] = T * p[i][1] /\ f[2] = T * p[i][2]
    BY <1>8, <2>1
  <2>3. Arm(i) = Minus(Moment(p), f)
    BY <2>1
  <2>4. Minus(Moment(p), f) = <<Moment(p)[1] - f[1], Moment(p)[2] - f[2]>>
    BY DEF Minus
  <2>5. /\ Moment(p)[1] - f[1] = (T * c1 + M * (u1 + v1)) - T * p[i][1]
        /\ Moment(p)[2] - f[2] = (T * c2 + M * (u2 + v2)) - T * p[i][2]
    BY <1>7, <2>2
  <2> HIDE DEF Arm
  <2>6. QED BY <2>3, <2>4, <2>5
<1>10. ASSUME NEW e \in Point, NEW w \in Point, Cross(e, w) = K
       PROVE  Cross(e, <<M * w[1], M * w[2]>>) = M * K
  <2>1. PICK e1, e2, w1, w2 \in Int : e = <<e1, e2>> /\ w = <<w1, w2>>
    BY <1>10 DEF Point
  <2>2. Cross(e, <<M * w[1], M * w[2]>>) = e1 * (M * w2) - e2 * (M * w1)
    BY <2>1 DEF Cross
  <2>3. e1 * w2 - e2 * w1 = K
    BY <1>10, <2>1 DEF Cross
  <2>4. e1 * (M * w2) - e2 * (M * w1) = M * (e1 * w2 - e2 * w1)
    BY <1>6, <2>1
  <2>5. QED BY <2>2, <2>3, <2>4
<1>11. \A x1, y1, z1 \in Int :
         /\ (T * x1 + M * (y1 + z1)) - T * x1 = M * (y1 + z1)
         /\ (T * x1 + M * (y1 + z1)) - T * (x1 + z1) = M * (y1 - z1)
         /\ (T * x1 + M * (y1 + z1)) - T * (x1 + y1 + z1) = M * (-(y1 + z1))
         /\ (T * x1 + M * (y1 + z1)) - T * (x1 + y1) = M * (z1 - y1)
  <2>1. TAKE x1, y1, z1 \in Int
  <2>2. T = 2 * M
    BY <1>1, <1>6
  <2>3. PICK q, r, s \in Int : q = M * x1 /\ r = M * y1 /\ s = M * z1
    BY <1>6
  <2>4. \A m, n \in Int : M * (m + n) = M * m + M * n /\ M * (m - n) = M * m - M * n
                          /\ M * (-(m + n)) = -(M * m + M * n)
    BY <1>6
  <2>5. M * (y1 + z1) = r + s /\ M * (y1 - z1) = r - s /\ M * (-(y1 + z1)) = -(r + s)
        /\ M * (z1 - y1) = s - r /\ M * (x1 + z1) = q + s /\ M * (x1 + y1) = q + r
    BY <2>3, <2>4
  <2>6. M * (x1 + y1 + z1) = q + r + s
    BY <1>6, <2>3
  <2>7. \A m \in Int : T * m = 2 * (M * m)
    BY <1>6, <2>2
  <2>8. /\ T * x1 = 2 * q /\ T * (x1 + z1) = 2 * (q + s)
        /\ T * (x1 + y1 + z1) = 2 * (q + r + s) /\ T * (x1 + y1) = 2 * (q + r)
    BY <2>3, <2>5, <2>6, <2>7
  <2>9. QED BY <2>3, <2>5, <2>8
<1>12. /\ Arm(1) = <<M * (u1 + v1), M * (u2 + v2)>> /\ Arm(2) = <<M * (u1 - v1), M * (u2 - v2)>>
       /\ Arm(3) = <<M * (-(u1 + v1)), M * (-(u2 + v2))>> /\ Arm(4) = <<M * (v1 - u1), M * (v2 - u2)>>
  <2>1. 1 \in 1..4 /\ 2 \in 1..4 /\ 3 \in 1..4 /\ 4 \in 1..4
    OBVIOUS
  <2>2. /\ p[1][1] = c1 /\ p[1][2] = c2 /\ p[2][1] = c1 + v1 /\ p[2][2] = c2 + v2
        /\ p[3][1] = c1 + u1 + v1 /\ p[3][2] = c2 + u2 + v2
        /\ p[4][1] = c1 + u1 /\ p[4][2] = c2 + u2
    BY <1>3, <1>4, <1>5
  <2> HIDE DEF Arm
  <2>3. /\ Arm(1) = <<(T * c1 + M * (u1 + v1)) - T * c1, (T * c2 + M * (u2 + v2)) - T * c2>>
        /\ Arm(2) = <<(T * c1 + M * (u1 + v1)) - T * (c1 + v1), (T * c2 + M * (u2 + v2)) - T * (c2 + v2)>>
        /\ Arm(3) = <<(T * c1 + M * (u1 + v1)) - T * (c1 + u1 + v1), (T * c2 + M * (u2 + v2)) - T * (c2 + u2 + v2)>>
        /\ Arm(4) = <<(T * c1 + M * (u1 + v1)) - T * (c1 + u1), (T * c2 + M * (u2 + v2)) - T * (c2 + u2)>>
    BY <1>9, <2>1, <2>2
  <2>4. QED BY <1>4, <1>11, <2>3
<1>13. \A i \in 1..4 : Depth(p, i) = M * K
  <2>1. /\ Edge(p, 1) = v /\ Edge(p, 2) = u /\ Edge(p, 3) = Opposite(v) /\ Edge(p, 4) = Opposite(u)
    BY PieceEdges
  <2>2. /\ Plus(u, v) = <<u1 + v1, u2 + v2>> /\ Minus(u, v) = <<u1 - v1, u2 - v2>>
        /\ Opposite(Plus(u, v)) = <<-(u1 + v1), -(u2 + v2)>> /\ Minus(v, u) = <<v1 - u1, v2 - u2>>
    BY <1>4 DEF Plus, Minus, Opposite
  <2>3. /\ Plus(u, v) \in Point /\ Minus(u, v) \in Point /\ Opposite(Plus(u, v)) \in Point
        /\ Minus(v, u) \in Point /\ Opposite(u) \in Point /\ Opposite(v) \in Point
    BY <1>4, <2>2 DEF Point, Opposite
  <2>4. /\ Cross(v, Plus(u, v)) = K /\ Cross(u, Minus(u, v)) = K
        /\ Cross(Opposite(v), Opposite(Plus(u, v))) = K /\ Cross(Opposite(u), Minus(v, u)) = K
    BY <1>1, Sides
  <2>5. /\ Cross(v, <<M * (u1 + v1), M * (u2 + v2)>>) = M * K
        /\ Cross(u, <<M * (u1 - v1), M * (u2 - v2)>>) = M * K
        /\ Cross(Opposite(v), <<M * (-(u1 + v1)), M * (-(u2 + v2))>>) = M * K
        /\ Cross(Opposite(u), <<M * (v1 - u1), M * (v2 - u2)>>) = M * K
    <3>1. /\ <<u1 + v1, u2 + v2>>[1] = u1 + v1 /\ <<u1 + v1, u2 + v2>>[2] = u2 + v2
          /\ <<u1 - v1, u2 - v2>>[1] = u1 - v1 /\ <<u1 - v1, u2 - v2>>[2] = u2 - v2
          /\ <<-(u1 + v1), -(u2 + v2)>>[1] = -(u1 + v1) /\ <<-(u1 + v1), -(u2 + v2)>>[2] = -(u2 + v2)
          /\ <<v1 - u1, v2 - u2>>[1] = v1 - u1 /\ <<v1 - u1, v2 - u2>>[2] = v2 - u2
      OBVIOUS
    <3>2. QED BY <1>1, <1>10, <2>2, <2>3, <2>4, <3>1
  <2>6. Depth(p, 1) = M * K /\ Depth(p, 2) = M * K /\ Depth(p, 3) = M * K /\ Depth(p, 4) = M * K
    <3> HIDE DEF Arm
    <3>1. \A i \in 1..4 : Depth(p, i) = Cross(Edge(p, i), Arm(i))
      BY DEF Depth, Arm
    <3>2. QED BY <1>12, <2>1, <2>5, <3>1
  <2>7. \A i \in 1..4 : i = 1 \/ i = 2 \/ i = 3 \/ i = 4
    OBVIOUS
  <2>8. QED BY <2>6, <2>7
<1>14. PICK h, d : h = Unit * (M * K) /\ d = 6 * (2 * K)
  OBVIOUS
<1>15. h >= 0 /\ h * h >= d * d * Square(v) /\ h * h >= d * d * Square(u)
  <2>1. PICK U, V, N : U = Square(u) /\ V = Square(v) /\ N = Unit * Unit
    OBVIOUS
  <2>2. U \in Nat /\ V \in Nat /\ N \in Nat /\ Unit \in Nat /\ Unit > 0
    BY <1>1, <2>1, Sides, UnitAssumption
  <2>3. U * V = K * K /\ N * U >= 36 /\ N * V >= 36
    BY <2>1 DEF Frame
  <2>4. PICK S \in Nat : S = K * K
    BY <1>1
  <2>5. h * h = 9 * ((N * S) * S) /\ d * d = 144 * S
    <3>1. h = 3 * (Unit * S)
      BY <1>1, <1>6, <1>14, <2>2, <2>4
    <3>2. h * h = 9 * ((Unit * S) * (Unit * S))
      BY <3>1, <2>2, <2>4
    <3>3. (Unit * S) * (Unit * S) = (N * S) * S
      BY <2>1, <2>2, <2>4
    <3>4. d * d = 144 * S
      BY <1>1, <1>14, <2>4
    <3>5. QED BY <3>2, <3>3, <3>4
  <2>6. N * S = (N * U) * V /\ N * S = (N * V) * U
    BY <2>2, <2>3, <2>4
  <2>7. (N * U) * V >= 36 * V /\ (N * V) * U >= 36 * U
    BY <2>2, <2>3
  <2>8. N * S >= 16 * V /\ N * S >= 16 * U
    BY <2>2, <2>6, <2>7
  <2>9. N * S \in Nat
    BY <2>2, <2>4
  <2>10. (N * S) * S >= (16 * V) * S /\ (N * S) * S >= (16 * U) * S
    BY <2>2, <2>4, <2>8, <2>9
  <2>11. d * d * V = 9 * ((16 * V) * S) /\ d * d * U = 9 * ((16 * U) * S)
    BY <2>2, <2>4, <2>5
  <2>12. h >= 0
    BY <1>1, <1>6, <1>14, <2>2
  <2>13. (16 * V) * S \in Int /\ (16 * U) * S \in Int /\ (N * S) * S \in Int
    BY <2>2, <2>4, <2>9
  <2>14. QED BY <2>1, <2>5, <2>10, <2>11, <2>12, <2>13
<1>16. \A i \in 1..4 : h * h >= d * d * Square(Edge(p, i))
  <2>1. \A i \in 1..4 : i = 1 \/ i = 2 \/ i = 3 \/ i = 4
    OBVIOUS
  <2>2. /\ Edge(p, 1) = v /\ Edge(p, 2) = u /\ Edge(p, 3) = Opposite(v) /\ Edge(p, 4) = Opposite(u)
    BY PieceEdges
  <2>3. Square(Opposite(u)) = Square(u) /\ Square(Opposite(v)) = Square(v)
    BY <1>1, Sides
  <2>4. QED BY <1>15, <2>1, <2>2, <2>3
<1>17. ASSUME NEW i \in 1..4 PROVE Deep(p, i)
  <2>1. Unit * Depth(p, i) = h /\ 6 * Area2(p) = d
    BY <1>13, <1>14, PieceEdges
  <2>2. h >= 0 /\ h * h >= d * d * Square(Edge(p, i))
    BY <1>15, <1>16
  <2>3. QED BY <2>1, <2>2 DEF Deep
<1>18. QED BY <1>17

\* Box2D takes it, with its four vertices.
LEMMA PieceUsable ==
  ASSUME MaxVertices > 3,
         NEW c, NEW u, NEW v, NEW K, Frame(c, u, v, K),
         NEW p, NEW a, NEW o, NEW b, Piece(p, c, u, v, a, o, b)
  PROVE  IsConvex(p) /\ IsUsable(p)
<1>1. K \in Nat /\ K > 0
  BY DEF Frame
<1>2. DOMAIN p = 1..4 /\ Len(p) = 4
  BY DEF Piece, Corners4
<1>3. \A i \in 1..4 : Turn(p, i) = K /\ 1 \in 1..4
  BY PieceEdges
<1>4. IsConvex(p)
  BY <1>1, <1>2, <1>3 DEF IsConvex
<1>5. Len(p) \in 3..MaxVertices
  BY <1>2, UnitAssumption
<1>6. IsSimple(p)
  BY PieceSimple
<1>7. IsCCW(p)
  BY <1>1, PieceEdges DEF IsCCW
<1>8. ASSUME NEW i \in 1..4
      PROVE  /\ Turn(p, i) > 0
             /\ ~ (821 * Turn(p, i) * Turn(p, i)
                     <= Square(Minus(p[i], Before(p, i))) * Square(Edge(p, i)))
             /\ Thick(p, i) /\ Deep(p, i)
  <2>1. Square(Minus(p[i], Before(p, i))) * Square(Edge(p, i)) = K * K
    BY PieceEdges
  <2>2. ~ (821 * K * K <= K * K)
    <3>1. K * K > 0
      BY <1>1
    <3>2. 821 * K * K = 821 * (K * K)
      BY <1>1
    <3>3. QED BY <1>1, <3>1, <3>2
  <2>3. Thick(p, i) /\ Deep(p, i)
    BY PieceThick, PieceDeep
  <2>4. QED BY <1>1, <1>3, <2>1, <2>2, <2>3
<1>9. QED BY <1>2, <1>4, <1>5, <1>6, <1>7, <1>8 DEF IsUsable

LEMMA LastOfMany ==
  ASSUME NEW j \in 1..4
  PROVE  Max(1..j) = j /\ (1..j) \ {j} = 1..j - 1 /\ 1..j # {} /\ 1..j \in SUBSET (1..4)
<1>1. 1..j \in SUBSET (1..4) /\ j \in 1..j /\ 1..j # {} /\ 4 \in Nat
  OBVIOUS
<1>2. PICK m : m = Max(1..j)
  OBVIOUS
<1>3. m \in 1..j /\ \A k \in 1..j : k <= m
  BY <1>1, <1>2, MaxIsIn
<1>4. m = j
  BY <1>1, <1>3
<1>5. (1..j) \ {j} = 1..j - 1
  OBVIOUS
<1>6. QED BY <1>1, <1>2, <1>4, <1>5

\* The n-th of the first numbers is n.
LEMMA NthOfAll ==
  ASSUME NEW n \in Nat, NEW i \in 1..n
  PROVE  Nth(1..n, i) = i /\ Cardinality(1..n) = n
<1>1. ASSUME NEW j \in 1..n PROVE Cardinality({k \in 1..n : k <= j}) = j
  <2>1. {k \in 1..n : k <= j} = 1..j
    OBVIOUS
  <2>2. 1 \in Int /\ j \in Int /\ ~ (1 > j) /\ j - 1 + 1 = j
    OBVIOUS
  <2>3. Cardinality(1..j) = j
    BY <2>2, FS_Interval
  <2>4. QED BY <2>1, <2>3
<1>2. Nth(1..n, i) = i
  BY <1>1 DEF Nth
<1>3. {k \in 1..n : k <= n} = 1..n /\ n \in 1..n
  OBVIOUS
<1>4. QED BY <1>1, <1>2, <1>3

\* None of its edges are parallel, so MergeParallelEdges leaves it alone.
LEMMA PieceMerged ==
  ASSUME NEW c, NEW u, NEW v, NEW K, Frame(c, u, v, K),
         NEW p, NEW a, NEW o, NEW b, Piece(p, c, u, v, a, o, b)
  PROVE  Merged(p) = p
<1>1. K \in Nat /\ K > 0
  BY DEF Frame
<1>2. p \in Seq(Point) /\ DOMAIN p = 1..4 /\ Len(p) = 4
  BY DEF Piece, Corners4
<1> DEFINE Visit(m, i) ==
        LET before == Minus(p[i], Before(p, i))
            same   == Square(before) * Square(Edge(p, i)) = 0
        IN  IF m.count <= 3 THEN m
            ELSE IF same THEN [m EXCEPT !.count = @ - 1]
            ELSE IF NearParallel(before, Edge(p, i))
                 THEN [count |-> m.count - 1, marked |-> m.marked \cup {i}]
                 ELSE m
<1>3. PICK q, m : q = [i \in DOMAIN p |-> i] /\ m = [count |-> Len(p), marked |-> {}]
  OBVIOUS
<1>4. ASSUME NEW i \in 1..4 PROVE q[i] = i /\ Visit(m, i) = m
  <2>1. PICK w, e : w = Minus(p[i], Before(p, i)) /\ e = Edge(p, i)
    OBVIOUS
  <2>2. Cross(w, e) = K /\ Square(w) * Square(e) = K * K
    BY <2>1, PieceEdges
  <2>3. K * K > 0 /\ 821 * K * K = 821 * (K * K)
    BY <1>1
  <2>4. Square(w) * Square(e) # 0
    BY <1>1, <2>2, <2>3
  <2>5. ~ NearParallel(w, e)
    BY <1>1, <2>2, <2>3 DEF NearParallel
  <2>6. QED BY <1>2, <1>3, <2>1, <2>4, <2>5
<1> HIDE DEF Visit
<1> DEFINE Steps4(g) == g = [s \in SUBSET DOMAIN q |->
                              IF s = {} THEN m ELSE Visit(g[s \ {Max(s)}], q[Max(s)])]
<1>5. DOMAIN q = 1..4
  BY <1>2, <1>3
<1>6. PICK g : g = CHOOSE h : Steps4(h)
  OBVIOUS
<1>7. Steps4(g)
  <2>1. PICK h : h = [s \in SUBSET DOMAIN q |-> m]
    OBVIOUS
  <2>2. ASSUME NEW s \in SUBSET DOMAIN q
        PROVE  m = IF s = {} THEN m ELSE Visit(h[s \ {Max(s)}], q[Max(s)])
    <3>1. s # {} => Max(s) \in 1..4 /\ s \ {Max(s)} \in SUBSET DOMAIN q
      <4>1. s \in SUBSET (1..4) /\ 4 \in Nat
        BY <1>5
      <4>2. QED BY <4>1, MaxIsIn
    <3>2. s # {} => h[s \ {Max(s)}] = m
      BY <2>1, <3>1
    <3>3. QED BY <1>4, <3>1, <3>2
  <2>3. h = [s \in SUBSET DOMAIN q |-> IF s = {} THEN m ELSE Visit(h[s \ {Max(s)}], q[Max(s)])]
    BY <2>1, <2>2
  <2>4. \E f : Steps4(f)
    BY <2>3
  <2> HIDE DEF Steps4
  <2>5. QED BY <1>6, <2>4
<1>8. FoldLeft(Visit, m, q) = g[DOMAIN q]
  BY <1>6 DEF FoldLeft, MapThenFoldSet
<1>9. g[1..4] = m
  <2>1. g[1..0] = m
    <3>1. 1..0 = {} /\ {} \in SUBSET DOMAIN q
      OBVIOUS
    <3>2. QED BY <1>7, <3>1
  <2>2. ASSUME NEW j \in 1..4, g[1..j - 1] = m PROVE g[1..j] = m
    <3>1. g[1..j] = Visit(g[(1..j) \ {Max(1..j)}], q[Max(1..j)])
      BY <1>5, <1>7, LastOfMany
    <3>2. g[1..j] = Visit(m, q[j])
      BY <2>2, <3>1, LastOfMany
    <3>3. QED BY <1>4, <3>2
  <2>3. 1 - 1 = 0 /\ 2 - 1 = 1 /\ 3 - 1 = 2 /\ 4 - 1 = 3
        /\ 1 \in 1..4 /\ 2 \in 1..4 /\ 3 \in 1..4 /\ 4 \in 1..4
    OBVIOUS
  <2>4. g[1..1] = m
    BY <2>1, <2>2, <2>3
  <2>5. g[1..2] = m
    BY <2>2, <2>3, <2>4
  <2>6. g[1..3] = m
    BY <2>2, <2>3, <2>5
  <2>7. QED BY <2>2, <2>3, <2>6
<1>10. Merged(p) = LET f == FoldLeft(Visit, m, q)
                   IN  [k \in 1..f.count |-> p[Nth(DOMAIN p \ f.marked, k)]]
  BY <1>3 DEF Merged, Visit
<1>11. m.count = 4 /\ DOMAIN p \ m.marked = 1..4
  BY <1>2, <1>3
<1>12. Merged(p) = [k \in 1..m.count |-> p[Nth(DOMAIN p \ m.marked, k)]]
  BY <1>5, <1>8, <1>9, <1>10
<1>13. Merged(p) = [k \in 1..4 |-> p[k]]
  <2>1. \A k \in 1..4 : Nth(1..4, k) = k
    BY NthOfAll
  <2>2. QED BY <1>11, <1>12, <2>1
<1>14. p = [k \in 1..4 |-> p[k]]
  BY <1>2
<1>15. QED BY <1>13, <1>14

LEMMA ThreePoints ==
  ASSUME NEW a \in Point, NEW b \in Point, NEW c \in Point
  PROVE  /\ <<a, b, c>> \in Seq(Point) /\ Len(<<a, b, c>>) = 3 /\ DOMAIN <<a, b, c>> = 1..3
         /\ <<a, b, c>>[1] = a /\ <<a, b, c>>[2] = b /\ <<a, b, c>>[3] = c
OBVIOUS

\* The corners of t are a, b and o, in some order.
HasCorners(t, a, b, o) ==
  /\ t \in Seq(Point) /\ Len(t) = 3 /\ DOMAIN t = 1..3
  /\ \E i, j, k \in 1..3 : i # j /\ j # k /\ i # k /\ t[i] = a /\ t[j] = b /\ t[k] = o

LEMMA MinOfOne ==
  ASSUME NEW n \in Int
  PROVE  Min({n}) = n
BY DEF Min

\* The second triangle of a rectangle joins the first.
LEMMA TwoJoin ==
  ASSUME NEW c, NEW u, NEW v, NEW K, Frame(c, u, v, K),
         NEW a, NEW o, NEW b, Named(c, u, v, a, o, b),
         NEW s, s = <<c, b, a>>, NEW t, HasCorners(t, a, b, o)
  PROVE  /\ Piece(Join(s, t), c, u, v, a, o, b)
         /\ Cardinality(Shared(s, t)) > 1 /\ Len(s) = 3
<1>1. /\ c \in Point /\ a \in Point /\ o \in Point /\ b \in Point
  BY Differences DEF Frame
<1>2. c # a /\ c # o /\ c # b /\ a # o /\ a # b /\ o # b
  BY Apart
<1>3. s \in Seq(Point) /\ Len(s) = 3 /\ DOMAIN s = 1..3 /\ s[1] = c /\ s[2] = b /\ s[3] = a
  BY <1>1, ThreePoints
<1>4. PICK i, j, k \in 1..3 : i # j /\ j # k /\ i # k /\ t[i] = a /\ t[j] = b /\ t[k] = o
  BY DEF HasCorners
<1>5. DOMAIN t = 1..3
  BY DEF HasCorners
<1>6. \A n \in 1..3 : n = i \/ n = j \/ n = k
  BY <1>4
<1>7. ToSet(t) = {a, b, o}
  <2>1. \A n \in 1..3 : t[n] \in {a, b, o}
    BY <1>4, <1>6
  <2>2. ToSet(t) = {t[n] : n \in 1..3}
    BY <1>5 DEF ToSet
  <2>3. QED BY <1>4, <2>1, <2>2
<1>8. Shared(s, t) = {2, 3}
  <2>1. s[1] \notin ToSet(t) /\ s[2] \in ToSet(t) /\ s[3] \in ToSet(t)
    BY <1>2, <1>3, <1>7
  <2>2. \A n \in 1..3 : n = 1 \/ n = 2 \/ n = 3
    OBVIOUS
  <2>3. Shared(s, t) = {n \in 1..3 : s[n] \in ToSet(t)}
    BY <1>3 DEF Shared
  <2>4. QED BY <2>1, <2>2, <2>3
<1>9. Min(Shared(s, t)) = 2 /\ Max(Shared(s, t)) = 3
  <2>1. Min({2, 3}) = 2
    BY DEF Min
  <2>2. Max({2, 3}) = 3
    BY DEF Max
  <2>3. QED BY <1>8, <2>1, <2>2
<1>10. Tip(s, t, 2, 3) = o
  <2>1. Corner(t, b) = j /\ Corner(t, a) = i
    <3>1. {n \in 1..3 : t[n] = b} = {j} /\ {n \in 1..3 : t[n] = a} = {i}
      BY <1>2, <1>4, <1>6
    <3>2. QED BY <3>1, MinOfOne DEF Corner
  <2>2. {n \in 1..3 : n \notin {j, i}} = {k}
    BY <1>4, <1>6
  <2>3. Tip(s, t, 2, 3) = t[Min({n \in 1..3 : n \notin {j, i}})]
    BY <1>3, <2>1 DEF Tip
  <2>4. QED BY <1>4, <2>2, <2>3, MinOfOne
<1>11. Join(s, t) = InsertAt(s, 3, o)
  BY <1>3, <1>9, <1>10 DEF Join
<1>12. PICK l, m, r : l = SubSeq(s, 1, 2) /\ m = <<o>> /\ r = SubSeq(s, 3, 3)
  OBVIOUS
<1>13. InsertAt(s, 3, o) = l \o m \o r
  <2>1. 3 - 1 = 2
    OBVIOUS
  <2>2. QED BY <1>3, <1>12, <2>1 DEF InsertAt
<1>14. l \in Seq(Point) /\ Len(l) = 2 /\ l[1] = c /\ l[2] = b
  <2>1. 1 \in Int /\ 2 \in Int /\ \A n \in 1..2 : s[n] \in Point
    BY <1>1, <1>3
  <2>2. /\ l \in Seq(Point) /\ Len(l) = IF 1 <= 2 THEN 2 - 1 + 1 ELSE 0
        /\ \A n \in 1..2 - 1 + 1 : l[n] = s[1 + n - 1]
    BY <1>12, <2>1, SubSeqProperties
  <2>3. 1 \in 1..2 - 1 + 1 /\ 2 \in 1..2 - 1 + 1 /\ 1 + 1 - 1 = 1 /\ 1 + 2 - 1 = 2
        /\ (IF 1 <= 2 THEN 2 - 1 + 1 ELSE 0) = 2
    OBVIOUS
  <2>4. QED BY <1>3, <2>2, <2>3
<1>15. r \in Seq(Point) /\ Len(r) = 1 /\ r[1] = a
  <2>1. 3 \in Int /\ \A n \in 3..3 : s[n] \in Point
    BY <1>1, <1>3
  <2>2. /\ r \in Seq(Point) /\ Len(r) = IF 3 <= 3 THEN 3 - 3 + 1 ELSE 0
        /\ \A n \in 1..3 - 3 + 1 : r[n] = s[3 + n - 1]
    BY <1>12, <2>1, SubSeqProperties
  <2>3. 1 \in 1..3 - 3 + 1 /\ 3 + 1 - 1 = 3 /\ (IF 3 <= 3 THEN 3 - 3 + 1 ELSE 0) = 1
    OBVIOUS
  <2>4. QED BY <1>3, <2>2, <2>3
<1>16. m \in Seq(Point) /\ Len(m) = 1 /\ m[1] = o
  BY <1>1, <1>12
<1>17. PICK e : e = l \o m
  OBVIOUS
<1>18. e \in Seq(Point) /\ Len(e) = 3 /\ e[1] = c /\ e[2] = b /\ e[3] = o
  <2>1. /\ e \in Seq(Point) /\ Len(e) = Len(l) + Len(m)
        /\ \A n \in 1..Len(l) + Len(m) : e[n] = IF n <= Len(l) THEN l[n] ELSE m[n - Len(l)]
    BY <1>14, <1>16, <1>17, ConcatProperties
  <2>2. Len(l) + Len(m) = 3 /\ 3 - Len(l) = 1
    BY <1>14, <1>16
  <2>3. QED BY <1>14, <1>16, <2>1, <2>2
<1>19. PICK d : d = e \o r
  OBVIOUS
<1>20. d \in Seq(Point) /\ Len(d) = 4 /\ d[1] = c /\ d[2] = b /\ d[3] = o /\ d[4] = a
  <2>1. /\ d \in Seq(Point) /\ Len(d) = Len(e) + Len(r)
        /\ \A n \in 1..Len(e) + Len(r) : d[n] = IF n <= Len(e) THEN e[n] ELSE r[n - Len(e)]
    BY <1>15, <1>18, <1>19, ConcatProperties
  <2>2. Len(e) + Len(r) = 4 /\ 4 - Len(e) = 1
    BY <1>15, <1>18
  <2>3. QED BY <1>15, <1>18, <2>1, <2>2
<1>21. Join(s, t) = d
  BY <1>11, <1>13, <1>17, <1>19
<1>22. DOMAIN d = 1..4
  BY <1>20, LenProperties
<1>23. Piece(Join(s, t), c, u, v, a, o, b)
  BY <1>20, <1>21, <1>22 DEF Piece, Corners4
<1>24. Cardinality(Shared(s, t)) = 2
  <2>1. {2, 3} = 2..3 /\ 2 \in Int /\ 3 \in Int /\ ~ (2 > 3) /\ 3 - 2 + 1 = 2
    OBVIOUS
  <2>2. Cardinality(2..3) = 2
    BY <2>1, FS_Interval
  <2>3. QED BY <1>8, <2>1, <2>2
<1>25. QED BY <1>3, <1>23, <1>24

\* So polygonizing the two makes the rectangle and leaves nothing.
LEMMA TwoGrown ==
  ASSUME MaxVertices > 3,
         NEW c, NEW u, NEW v, NEW K, Frame(c, u, v, K),
         NEW a, NEW o, NEW b, Named(c, u, v, a, o, b),
         NEW s, s = <<c, b, a>>, NEW t, HasCorners(t, a, b, o)
  PROVE  /\ Grown(<<s, t>>).left = <<>>
         /\ Piece(Merged(Grown(<<s, t>>).piece), c, u, v, a, o, b)
<1>1. PICK p : p = Join(s, t)
  OBVIOUS
<1>2. Piece(p, c, u, v, a, o, b) /\ Cardinality(Shared(s, t)) > 1 /\ Len(s) = 3
  BY <1>1, TwoJoin
<1>3. CanJoin(s, t)
  <2>1. IsConvex(p) /\ Len(s) < MaxVertices
    BY <1>2, PieceUsable
  <2>2. QED BY <1>1, <1>2, <2>1 DEF CanJoin
<1>4. PICK q, m, ts : q = <<t>> /\ m = [piece |-> s, left |-> <<>>] /\ ts = <<s, t>>
  OBVIOUS
<1>5. Head(ts) = s /\ Tail(ts) = q
  BY <1>4
<1>6. q \in Seq({t}) /\ DOMAIN q = {1} /\ q[1] = t
  BY <1>4
<1>7. PICK g : g = CHOOSE h : Steps(q, m, h)
  OBVIOUS
<1>8. Steps(q, m, g)
  BY <1>6, <1>7, StepsExist
<1>9. Grown(ts) = g[DOMAIN q]
  BY <1>4, <1>5, <1>7 DEF Grown, FoldLeft, MapThenFoldSet, Steps
<1>10. g[{1}] = Tried(m, t)
  <2>1. {} \in SUBSET DOMAIN q /\ {1} \in SUBSET DOMAIN q /\ {1} # {} /\ {1} \ {1} = {}
    BY <1>6
  <2>2. Max({1}) = 1
    BY DEF Max
  <2>3. g[{}] = m
    BY <1>8, <2>1 DEF Steps
  <2>4. g[{1}] = Tried(g[{1} \ {Max({1})}], q[Max({1})])
    BY <1>8, <2>1 DEF Steps
  <2>5. QED BY <1>6, <2>1, <2>2, <2>3, <2>4
<1>11. Tried(m, t) = [piece |-> p, left |-> <<>>]
  <2>1. m.piece = s
    BY <1>4
  <2>2. Tried(m, t) = [m EXCEPT !.piece = Join(m.piece, t)]
    BY <1>3, <2>1 DEF Tried
  <2>3. [m EXCEPT !.piece = p] = [piece |-> p, left |-> <<>>]
    BY <1>4
  <2>4. QED BY <1>1, <2>1, <2>2, <2>3
<1>12. Grown(ts) = [piece |-> p, left |-> <<>>]
  BY <1>6, <1>9, <1>10, <1>11
<1>13. Grown(ts).piece = p /\ Grown(ts).left = <<>>
  BY <1>12
<1>14. Merged(p) = p
  BY <1>2, PieceMerged
<1>15. QED BY <1>2, <1>4, <1>13, <1>14

\* Without its i-th, the later vertices move up.
LEMMA RemovedAt ==
  ASSUME NEW p \in Seq(Point), NEW i \in 1..Len(p)
  PROVE  /\ RemoveAt(p, i) \in Seq(Point) /\ Len(RemoveAt(p, i)) = Len(p) - 1
         /\ \A k \in 1..Len(p) - 1 : RemoveAt(p, i)[k] = IF k < i THEN p[k] ELSE p[k + 1]
<1>1. PICK n : n = Len(p)
  OBVIOUS
<1>2. n \in Nat /\ i \in 1..n /\ \A k \in 1..n : p[k] \in Point
  BY <1>1, LenProperties, ElementOfSeq
<1>3. PICK l, r : l = SubSeq(p, 1, i - 1) /\ r = SubSeq(p, i + 1, n)
  OBVIOUS
<1>4. l \in Seq(Point) /\ Len(l) = i - 1 /\ \A k \in 1..i - 1 : l[k] = p[k]
  <2>1. 1 \in Int /\ i - 1 \in Int /\ (IF 1 <= i - 1 THEN i - 1 - 1 + 1 ELSE 0) = i - 1
        /\ i - 1 - 1 + 1 = i - 1 /\ \A k \in 1..i - 1 : 1 + k - 1 = k
    BY <1>2
  <2>2. \A k \in 1..i - 1 : p[k] \in Point
    BY <1>2
  <2>3. l \in Seq(Point) /\ Len(l) = IF 1 <= i - 1 THEN i - 1 - 1 + 1 ELSE 0
    BY <1>3, <2>1, <2>2, SubSeqProperties
  <2>4. \A k \in 1..i - 1 - 1 + 1 : l[k] = p[1 + k - 1]
    BY <1>3, <2>1, <2>2, SubSeqProperties
  <2>5. QED BY <2>1, <2>3, <2>4
<1>5. r \in Seq(Point) /\ Len(r) = n - i /\ \A k \in 1..n - i : r[k] = p[i + k]
  <2>1. i + 1 \in Int /\ n \in Int /\ (IF i + 1 <= n THEN n - (i + 1) + 1 ELSE 0) = n - i
        /\ n - (i + 1) + 1 = n - i /\ \A k \in 1..n - i : i + 1 + k - 1 = i + k
    BY <1>2
  <2>2. \A k \in i + 1..n : p[k] \in Point
    BY <1>2
  <2>3. r \in Seq(Point) /\ Len(r) = IF i + 1 <= n THEN n - (i + 1) + 1 ELSE 0
    BY <1>3, <2>1, <2>2, SubSeqProperties
  <2>4. \A k \in 1..n - (i + 1) + 1 : r[k] = p[i + 1 + k - 1]
    BY <1>3, <2>1, <2>2, SubSeqProperties
  <2>5. QED BY <2>1, <2>3, <2>4
<1>6. PICK e : e = l \o r
  OBVIOUS
<1>7. RemoveAt(p, i) = e
  BY <1>1, <1>3, <1>6 DEF RemoveAt
<1>8. /\ e \in Seq(Point) /\ Len(e) = Len(l) + Len(r)
      /\ \A k \in 1..Len(l) + Len(r) : e[k] = IF k <= Len(l) THEN l[k] ELSE r[k - Len(l)]
  BY <1>4, <1>5, <1>6, ConcatProperties
<1>9. Len(l) + Len(r) = n - 1
  BY <1>2, <1>4, <1>5
<1>10. ASSUME NEW k \in 1..n - 1 PROVE e[k] = IF k < i THEN p[k] ELSE p[k + 1]
  <2>1. e[k] = IF k <= i - 1 THEN l[k] ELSE r[k - (i - 1)]
    BY <1>4, <1>8, <1>9
  <2>2. CASE k < i
    <3>1. k <= i - 1 /\ k \in 1..i - 1
      BY <1>2, <2>2
    <3>2. QED BY <1>4, <2>1, <2>2, <3>1
  <2>3. CASE ~ (k < i)
    <3>1. ~ (k <= i - 1) /\ k - (i - 1) \in 1..n - i /\ i + (k - (i - 1)) = k + 1
      BY <1>2, <2>3
    <3>2. QED BY <1>5, <2>1, <2>3, <3>1
  <2>4. QED BY <2>2, <2>3
<1>11. QED BY <1>1, <1>7, <1>8, <1>9, <1>10

\* The lattice points of the box, clockwise.
Rim(p, c, u, v, a, o, b) == Corners4(p, c, a, o, b) /\ Named(c, u, v, a, o, b)

\* Seen from the next corner, the frame lists them in another order.
LEMMA EarCut ==
  ASSUME NEW c, NEW u, NEW v, NEW K, Frame(c, u, v, K),
         NEW a, NEW o, NEW b, Named(c, u, v, a, o, b)
  PROVE  Triangle(c, a, b) = <<c, b, a>>
<1>1. /\ c \in Point /\ u \in Point /\ v \in Point /\ K \in Int /\ K > 0 /\ Cross(u, v) = -K
  BY DEF Frame
<1>2. Minus(a, c) = u /\ Minus(b, c) = v
  <2>c. PICK c1, c2 \in Int : c = <<c1, c2>>
    BY <1>1 DEF Point
  <2>u. PICK u1, u2 \in Int : u = <<u1, u2>>
    BY <1>1 DEF Point
  <2>v. PICK v1, v2 \in Int : v = <<v1, v2>>
    BY <1>1 DEF Point
  <2>1. c = <<c1, c2>> /\ u = <<u1, u2>> /\ v = <<v1, v2>>
    BY <2>c, <2>u, <2>v
  <2>2. a = <<c1 + u1, c2 + u2>> /\ b = <<c1 + v1, c2 + v2>>
    BY <2>1 DEF Named, Plus
  <2>3. QED BY <2>1, <2>2 DEF Minus
<1>3. ~ (Cross(u, v) > 0)
  BY <1>1
<1>4. QED BY <1>2, <1>3 DEF Triangle

LEMMA Clipped ==
  ASSUME NEW c, NEW u, NEW v, NEW K, Frame(c, u, v, K),
         NEW a, NEW o, NEW b, NEW p, Rim(p, c, u, v, a, o, b), NEW i \in 1..4
  PROVE  \E d, e, f, x1, y1, z1 :
           /\ Frame(d, e, f, K) /\ Named(d, e, f, x1, y1, z1)
           /\ EarTriangle(p, i) = <<d, z1, x1>>
           /\ HasCorners(RemoveAt(p, i), x1, z1, y1)
<1>1. Named(c, u, v, a, o, b) /\ Corners4(p, c, a, o, b)
  BY DEF Rim
<1>2. PICK f2, f3, f4 : f2 = Opposite(u) /\ f3 = Opposite(v) /\ f4 = Opposite(f2)
  OBVIOUS
<1>3. Frame(a, v, f2, K) /\ Named(a, v, f2, o, b, c)
  BY <1>1, <1>2, Turned
<1>4. Frame(o, f2, f3, K) /\ Named(o, f2, f3, b, c, a)
  BY <1>2, <1>3, Turned
<1>5. Frame(b, f3, f4, K) /\ Named(b, f3, f4, c, a, o)
  BY <1>2, <1>4, Turned
<1>6. p[1] = c /\ p[2] = a /\ p[3] = o /\ p[4] = b /\ Len(p) = 4 /\ p \in Seq(Point)
  BY <1>1 DEF Corners4
<1>7. /\ After(p, 1) = a /\ After(p, 2) = o /\ After(p, 3) = b /\ After(p, 4) = c
      /\ Before(p, 1) = b /\ Before(p, 2) = c /\ Before(p, 3) = a /\ Before(p, 4) = o
  BY <1>1, Neighbours
<1>8. PICK q : q = RemoveAt(p, i)
  OBVIOUS
<1>9. /\ q \in Seq(Point) /\ Len(q) = 3 /\ DOMAIN q = 1..3
      /\ \A k \in 1..3 : q[k] = IF k < i THEN p[k] ELSE p[k + 1]
  <2>1. i \in 1..Len(p) /\ Len(p) - 1 = 3
    BY <1>6
  <2>2. /\ q \in Seq(Point) /\ Len(q) = 3
        /\ \A k \in 1..3 : q[k] = IF k < i THEN p[k] ELSE p[k + 1]
    BY <1>6, <1>8, <2>1, RemovedAt
  <2>3. QED BY <2>2, LenProperties
<1>10. 1 \in 1..3 /\ 2 \in 1..3 /\ 3 \in 1..3 /\ 1 # 2 /\ 2 # 3 /\ 1 # 3
       /\ 1 + 1 = 2 /\ 2 + 1 = 3 /\ 3 + 1 = 4
  OBVIOUS
<1>11. CASE i = 1
  <2>1. EarTriangle(p, i) = <<c, b, a>>
    BY <1>1, <1>6, <1>7, <1>11, EarCut DEF EarTriangle
  <2>2. q[1] = a /\ q[2] = o /\ q[3] = b
    BY <1>6, <1>9, <1>10, <1>11
  <2>3. HasCorners(q, a, b, o)
    BY <1>9, <1>10, <2>2 DEF HasCorners
  <2>4. QED BY <1>1, <1>8, <2>1, <2>3
<1>12. CASE i = 2
  <2>1. EarTriangle(p, i) = <<a, c, o>>
    BY <1>3, <1>6, <1>7, <1>12, EarCut DEF EarTriangle
  <2>2. q[1] = c /\ q[2] = o /\ q[3] = b
    BY <1>6, <1>9, <1>10, <1>12
  <2>3. HasCorners(q, o, c, b)
    BY <1>9, <1>10, <2>2 DEF HasCorners
  <2>4. QED BY <1>3, <1>8, <2>1, <2>3
<1>13. CASE i = 3
  <2>1. EarTriangle(p, i) = <<o, a, b>>
    BY <1>4, <1>6, <1>7, <1>13, EarCut DEF EarTriangle
  <2>2. q[1] = c /\ q[2] = a /\ q[3] = b
    BY <1>6, <1>9, <1>10, <1>13
  <2>3. HasCorners(q, b, a, c)
    BY <1>9, <1>10, <2>2 DEF HasCorners
  <2>4. QED BY <1>4, <1>8, <2>1, <2>3
<1>14. CASE i = 4
  <2>1. EarTriangle(p, i) = <<b, o, c>>
    BY <1>5, <1>6, <1>7, <1>14, EarCut DEF EarTriangle
  <2>2. q[1] = c /\ q[2] = a /\ q[3] = o
    BY <1>6, <1>9, <1>10, <1>14
  <2>3. HasCorners(q, c, o, a)
    BY <1>9, <1>10, <2>2 DEF HasCorners
  <2>4. QED BY <1>5, <1>8, <2>1, <2>3
<1>15. i = 1 \/ i = 2 \/ i = 3 \/ i = 4
  OBVIOUS
<1>16. QED BY <1>11, <1>12, <1>13, <1>14, <1>15

\* The box has no pinch point, and its first corner is an ear.
LEMMA RimHasEar ==
  ASSUME NEW c, NEW u, NEW v, NEW K, Frame(c, u, v, K),
         NEW a, NEW o, NEW b, NEW p, Rim(p, c, u, v, a, o, b)
  PROVE  PinchPoints(p) = {} /\ Ears(p) # {} /\ Len(p) = 4
<1>1. Named(c, u, v, a, o, b) /\ Corners4(p, c, a, o, b)
  BY DEF Rim
<1>2. p[1] = c /\ p[2] = a /\ p[3] = o /\ p[4] = b /\ Len(p) = 4 /\ DOMAIN p = 1..4
  BY <1>1 DEF Corners4
<1>3. c # a /\ c # o /\ c # b /\ a # o /\ a # b /\ o # b
  BY <1>1, Apart
<1>4. \A n \in 1..4 : n = 1 \/ n = 2 \/ n = 3 \/ n = 4
  OBVIOUS
<1>5. PinchPoints(p) = {}
  <2>1. \A i, j \in 1..4 : p[i] = p[j] => i = j
    BY <1>2, <1>3, <1>4
  <2>2. \A i \in 1..4 : ~ (i > i + 1)
    OBVIOUS
  <2>3. QED BY <1>2, <2>1, <2>2 DEF PinchPoints
<1>6. /\ c \in Point /\ u \in Point /\ v \in Point /\ K \in Int /\ K > 0 /\ Cross(u, v) = -K
  BY DEF Frame
<1>7. IsEar(p, 1)
  <2>1. After(p, 1) = a /\ Before(p, 1) = b
    BY <1>1, Neighbours
  <2>2. Minus(c, b) = Opposite(v) /\ Minus(a, c) = u /\ Minus(a, b) = Minus(u, v) /\ Minus(o, b) = u
    BY <1>1, <1>6, Differences
  <2>3. Cross(Opposite(v), u) = -K /\ Cross(Minus(u, v), u) = -K
    BY <1>6, Sides
  <2>4. Turn(p, 1) <= 0
    BY <1>2, <1>6, <2>1, <2>2, <2>3 DEF Turn, Edge
  <2>5. PICK t : t = <<c, b, a>>
    OBVIOUS
  <2>6. EarTriangle(p, 1) = t
    BY <1>1, <1>2, <2>1, <2>5, EarCut DEF EarTriangle
  <2>7. t[2] = b /\ t[3] = a /\ Len(t) = 3
    BY <2>5
  <2>8. After(t, 2) = a
    <3>1. (2 % 3) + 1 = 3
      OBVIOUS
    <3>2. QED BY <2>7, <3>1 DEF After
  <2>9. ~ IsInside(t, o)
    <3>1. Cross(Edge(t, 2), Minus(o, t[2])) = -K
      BY <2>2, <2>3, <2>7, <2>8 DEF Edge
    <3>2. 2 \in 1..3 /\ ~ (-K > 0)
      BY <1>6
    <3>3. QED BY <3>1, <3>2 DEF IsInside
  <2>10. ASSUME NEW j \in DOMAIN p \ {1, (1 % Len(p)) + 1, IF 1 = 1 THEN Len(p) ELSE 1 - 1}
         PROVE  j = 3
    <3>1. (1 % 4) + 1 = 2
      OBVIOUS
    <3>2. j \in 1..4 /\ j # 1 /\ j # 2 /\ j # 4
      BY <1>2, <3>1
    <3>3. QED BY <1>4, <3>2
  <2>11. QED BY <1>2, <2>4, <2>6, <2>9, <2>10 DEF IsEar
<1>8. 1 \in Ears(p)
  BY <1>2, <1>7 DEF Ears
<1>9. QED BY <1>2, <1>5, <1>8

\* What is left is a triangle, and a proper one.
LEMMA HalfCut ==
  ASSUME NEW c, NEW u, NEW v, NEW K, Frame(c, u, v, K),
         NEW a, NEW o, NEW b, Named(c, u, v, a, o, b),
         NEW p, HasCorners(p, a, b, o)
  PROVE  /\ PinchPoints(p) = {} /\ Len(p) = 3 /\ ~ IsFlat(p)
         /\ HasCorners(Triangle(p[2], p[3], p[1]), a, b, o)
<1>1. c # a /\ c # o /\ c # b /\ a # o /\ a # b /\ o # b
  BY Apart
<1>2. p \in Seq(Point) /\ Len(p) = 3 /\ DOMAIN p = 1..3
  BY DEF HasCorners
<1>3. PICK i, j, k \in 1..3 : i # j /\ j # k /\ i # k /\ p[i] = a /\ p[j] = b /\ p[k] = o
  BY DEF HasCorners
<1>4. \A n \in 1..3 : n = i \/ n = j \/ n = k
  BY <1>3
<1>5. \A m, n \in 1..3 : p[m] = p[n] => m = n
  BY <1>1, <1>3, <1>4
<1>6. PinchPoints(p) = {}
  <2>1. \A n \in 1..3 : ~ (n > n + 1)
    OBVIOUS
  <2>2. QED BY <1>2, <1>5, <2>1 DEF PinchPoints
<1>7. ~ IsFlat(p)
  <2>1. \A n \in 1..3 : (n % 3) + 1 \in 1..3 /\ (n % 3) + 1 # n
    <3>1. 1 % 3 = 1 /\ 2 % 3 = 2 /\ 3 % 3 = 0
      OBVIOUS
    <3>2. \A n \in 1..3 : n = 1 \/ n = 2 \/ n = 3
      OBVIOUS
    <3>3. QED BY <3>1, <3>2
  <2>2. QED BY <1>2, <1>5, <2>1 DEF IsFlat, After
<1>8. PICK t : t = Triangle(p[2], p[3], p[1])
  OBVIOUS
<1>9. t = <<p[2], p[3], p[1]>> \/ t = <<p[2], p[1], p[3]>>
  BY <1>8 DEF Triangle
<1>10. p[1] \in Point /\ p[2] \in Point /\ p[3] \in Point
  <2>1. 1 \in 1..Len(p) /\ 2 \in 1..Len(p) /\ 3 \in 1..Len(p)
    BY <1>2
  <2>2. QED BY <1>2, <2>1, ElementOfSeq
<1>11. /\ t \in Seq(Point) /\ Len(t) = 3 /\ DOMAIN t = 1..3
       /\ \/ t[1] = p[2] /\ t[2] = p[3] /\ t[3] = p[1]
          \/ t[1] = p[2] /\ t[2] = p[1] /\ t[3] = p[3]
  <2>1. CASE t = <<p[2], p[3], p[1]>>
    BY <1>10, <2>1, ThreePoints
  <2>2. CASE t = <<p[2], p[1], p[3]>>
    BY <1>10, <2>2, ThreePoints
  <2>3. QED BY <1>9, <2>1, <2>2
<1>12. \E l, m, n \in 1..3 : l # m /\ m # n /\ l # n /\ t[l] = p[i] /\ t[m] = p[j] /\ t[n] = p[k]
  <2>1. CASE t[1] = p[2] /\ t[2] = p[3] /\ t[3] = p[1]
    <3>1. PICK h : h = [n \in 1..3 |-> IF n = 1 THEN 3 ELSE IF n = 2 THEN 1 ELSE 2]
      OBVIOUS
    <3>2. \A n \in 1..3 : h[n] \in 1..3 /\ t[h[n]] = p[n]
      BY <2>1, <3>1
    <3>3. \A m, n \in 1..3 : m # n => h[m] # h[n]
      BY <3>1
    <3>4. QED BY <1>3, <3>2, <3>3
  <2>2. CASE t[1] = p[2] /\ t[2] = p[1] /\ t[3] = p[3]
    <3>1. PICK h : h = [n \in 1..3 |-> IF n = 1 THEN 2 ELSE IF n = 2 THEN 1 ELSE 3]
      OBVIOUS
    <3>2. \A n \in 1..3 : h[n] \in 1..3 /\ t[h[n]] = p[n]
      BY <2>2, <3>1
    <3>3. \A m, n \in 1..3 : m # n => h[m] # h[n]
      BY <3>1
    <3>4. QED BY <1>3, <3>2, <3>3
  <2>3. QED BY <1>11, <2>1, <2>2
<1>13. HasCorners(t, a, b, o)
  BY <1>3, <1>11, <1>12 DEF HasCorners
<1>14. QED BY <1>2, <1>6, <1>7, <1>8, <1>13

\* The samples of the stylus lie on the lattice.
LEMMA QuotientExact ==
  ASSUME NEW k \in Int
  PROVE  Quotient(Unit * k, Unit) = k
<1>1. PICK d : d = Unit
  OBVIOUS
<1>2. d \in Nat /\ d > 0
  BY <1>1, UnitAssumption
<1>3. \A n \in Int : (d * n) \div d = n
  BY <1>2
<1>4. - (d * k) = d * (-k) /\ -k \in Int /\ - (-k) = k
  BY <1>2
<1>5. Quotient(d * k, d) = IF d * k >= 0 THEN (d * k) \div d ELSE - ((- (d * k)) \div d)
  BY DEF Quotient
<1>6. QED BY <1>1, <1>3, <1>4, <1>5

\* Seen from the corner r, q is k steps of the lattice away.
Away(q, r, k) == q \in Point /\ k \in Point /\ \A d \in 1..2 : q[d] - r[d] = Unit * k[d]

\* A box on the lattice.
LEMMA LatticeOfFour ==
  ASSUME NEW p, NEW q1 \in Point, NEW q2, NEW q3, NEW q4, Corners4(p, q1, q2, q3, q4),
         NEW k2, NEW k3, NEW k4, Away(q2, q1, k2), Away(q3, q1, k3), Away(q4, q1, k4)
  PROVE  /\ Corners4(Lattice(p), <<0, 0>>, k2, k3, k4)
         /\ Corners4(Reverse(Lattice(p)), k4, k3, k2, <<0, 0>>)
<1>. k2 \in Point /\ k3 \in Point /\ k4 \in Point
  BY DEF Away
<1>1. p \in Seq(Point) /\ DOMAIN p = 1..4 /\ p[1] = q1 /\ p[2] = q2 /\ p[3] = q3 /\ p[4] = q4
  BY DEF Corners4
<1>2. PICK l, r : l = Lattice(p) /\ r = Reverse(l)
  OBVIOUS
<1>3. l = [i \in 1..4 |-> <<Quotient(p[i][1] - q1[1], Unit), Quotient(p[i][2] - q1[2], Unit)>>]
  BY <1>1, <1>2 DEF Lattice
<1>4. \A c \in 1..2 : q1[c] - q1[c] = Unit * 0
  BY UnitAssumption DEF Point
<1>5. \A k \in Point : k[1] \in Int /\ k[2] \in Int /\ k = <<k[1], k[2]>>
  BY DEF Point
<1>6. /\ l[1] = <<0, 0>> /\ l[2] = k2 /\ l[3] = k3 /\ l[4] = k4
  <2>1. 1 \in 1..2 /\ 2 \in 1..2 /\ 0 \in Int
    OBVIOUS
  <2>2. Quotient(q1[1] - q1[1], Unit) = 0 /\ Quotient(q1[2] - q1[2], Unit) = 0
    BY <1>4, <2>1, QuotientExact
  <2>3. Quotient(q2[1] - q1[1], Unit) = k2[1] /\ Quotient(q2[2] - q1[2], Unit) = k2[2]
    BY <1>5, <2>1, QuotientExact DEF Away
  <2>4. Quotient(q3[1] - q1[1], Unit) = k3[1] /\ Quotient(q3[2] - q1[2], Unit) = k3[2]
    BY <1>5, <2>1, QuotientExact DEF Away
  <2>5. Quotient(q4[1] - q1[1], Unit) = k4[1] /\ Quotient(q4[2] - q1[2], Unit) = k4[2]
    BY <1>5, <2>1, QuotientExact DEF Away
  <2>6. QED BY <1>1, <1>3, <1>5, <2>2, <2>3, <2>4, <2>5
<1>7. \A i \in 1..4 : i = 1 \/ i = 2 \/ i = 3 \/ i = 4
  OBVIOUS
<1>8. <<0, 0>> \in Point
  BY DEF Point
<1>9. l \in [1..4 -> Point]
  <2>1. \A i \in 1..4 : l[i] \in Point
    BY <1>6, <1>7, <1>8
  <2>2. QED BY <1>3, <2>1
<1>10. l \in Seq(Point) /\ Len(l) = 4 /\ DOMAIN l = 1..4
  <2>1. 4 \in Nat
    OBVIOUS
  <2>2. l \in Seq(Point)
    BY <1>9, <2>1, SeqDef
  <2>3. QED BY <1>9, <2>2, LenProperties
<1>11. r = [i \in 1..4 |-> l[(4 - i) + 1]]
  BY <1>2, <1>10 DEF Reverse
<1>12. (4 - 1) + 1 = 4 /\ (4 - 2) + 1 = 3 /\ (4 - 3) + 1 = 2 /\ (4 - 4) + 1 = 1
  OBVIOUS
<1>13. r[1] = k4 /\ r[2] = k3 /\ r[3] = k2 /\ r[4] = <<0, 0>>
  BY <1>6, <1>11, <1>12
<1>14. r \in [1..4 -> Point]
  <2>1. \A i \in 1..4 : r[i] \in Point
    BY <1>7, <1>8, <1>13
  <2>2. QED BY <1>11, <2>1
<1>15. r \in Seq(Point) /\ Len(r) = 4 /\ DOMAIN r = 1..4
  <2>1. 4 \in Nat
    OBVIOUS
  <2>2. r \in Seq(Point)
    BY <1>14, <2>1, SeqDef
  <2>3. QED BY <1>14, <2>2, LenProperties
<1>16. QED BY <1>2, <1>6, <1>10, <1>13, <1>15 DEF Corners4

\* A box that is not refused has a frame on the lattice.
LEMMA BoxHasFrame ==
  ASSUME NEW m \in Points, NEW n \in Points, NEW c, NEW q, c = Pixel(m), q = Pixel(n),
         ~ TooSmall(Distance(q[1], c[1]), Distance(q[2], c[2])), NEW p, p = BoxTo(c, q)
  PROVE  \E d, u, v, a, o, b, K :
           /\ Frame(d, u, v, K) /\ Rim(Clockwise(Lattice(p)), d, u, v, a, o, b)
           /\ Distance(Area2(Lattice(p)), 0) = 2 * K
<1>1. PICK i, j : i = n[1] - m[1] /\ j = n[2] - m[2]
  OBVIOUS
<1>2. i \in Int /\ j \in Int /\ m[1] \in Int /\ m[2] \in Int /\ n[1] \in Int /\ n[2] \in Int
      /\ Unit \in Nat /\ Unit > 0
  BY <1>1, PointsAssumption, UnitAssumption
<1>3. c \in Point /\ q \in Point
  BY PixelIsPoint
<1>4. /\ c[1] = Unit * m[1] /\ c[2] = Unit * m[2] /\ q[1] = Unit * n[1] /\ q[2] = Unit * n[2]
  BY DEF Pixel
<1>5. q[1] - c[1] = Unit * i /\ q[2] - c[2] = Unit * j
  BY <1>1, <1>2, <1>4
<1>6. PICK w, h \in Int : w = Unit * i /\ h = Unit * j
  BY <1>2
<1>7. (w >= 6 \/ w <= -6) /\ (h >= 6 \/ h <= -6)
  BY <1>3, <1>5, <1>6 DEF TooSmall, Distance, Point
<1>8. w * w >= 36 /\ h * h >= 36
  BY <1>7
<1>9. Unit * Unit * (i * i) >= 36 /\ Unit * Unit * (j * j) >= 36
  <2>1. w * w = Unit * Unit * (i * i) /\ h * h = Unit * Unit * (j * j)
    BY <1>2, <1>6
  <2>2. QED BY <1>8, <2>1
<1>10. i # 0 /\ j # 0 /\ (i > 0 <=> w > 0) /\ (j > 0 <=> h > 0)
  BY <1>2, <1>6, <1>7
<1>11. q[1] >= c[1] <=> w > 0
  BY <1>3, <1>5, <1>6, <1>7 DEF Point
<1>12. q[1] <= c[1] <=> ~ (w > 0)
  BY <1>3, <1>5, <1>6, <1>7 DEF Point
<1>13. (q[2] >= c[2] <=> h > 0) /\ (q[2] <= c[2] <=> ~ (h > 0))
  BY <1>3, <1>5, <1>6, <1>7 DEF Point
<1>14. PICK z, e, f, g : z = <<0, 0>> /\ e = <<i, 0>> /\ f = <<i, j>> /\ g = <<0, j>>
  OBVIOUS
<1>15. z \in Point /\ e \in Point /\ f \in Point /\ g \in Point
  BY <1>2, <1>14 DEF Point
<1>16. PICK ce, cg : ce = <<q[1], c[2]>> /\ cg = <<c[1], q[2]>>
  OBVIOUS
<1>17. ce \in Point /\ cg \in Point
  BY <1>3, <1>16 DEF Point
<1>18. \A k \in 1..2 : /\ ce[k] - c[k] = Unit * e[k] /\ q[k] - c[k] = Unit * f[k]
                       /\ cg[k] - c[k] = Unit * g[k]
  <2>1. c[1] - c[1] = Unit * 0 /\ c[2] - c[2] = Unit * 0
    BY <1>2, <1>3 DEF Point
  <2>2. \A k \in 1..2 : k = 1 \/ k = 2
    OBVIOUS
  <2>3. QED BY <1>5, <1>14, <1>16, <2>1, <2>2
<1>19. CASE i > 0 <=> j > 0
  <2>1. p = <<c, ce, q, cg>>
    BY <1>10, <1>11, <1>12, <1>13, <1>16, <1>19 DEF BoxTo
  <2>2. Corners4(p, c, ce, q, cg)
    <3>1. /\ p \in Seq(Point) /\ Len(p) = 4 /\ p[1] = c /\ p[2] = ce /\ p[3] = q /\ p[4] = cg
      BY <1>3, <1>17, <2>1, FourPoints
    <3>2. QED BY <3>1, LenProperties DEF Corners4
  <2>3. Corners4(Lattice(p), z, e, f, g) /\ Corners4(Reverse(Lattice(p)), g, f, e, z)
    <3>1. Away(ce, c, e) /\ Away(q, c, f) /\ Away(cg, c, g)
      BY <1>3, <1>15, <1>17, <1>18 DEF Away
    <3>2. /\ Corners4(Lattice(p), <<0, 0>>, e, f, g)
          /\ Corners4(Reverse(Lattice(p)), g, f, e, <<0, 0>>)
      BY <1>3, <2>2, <3>1, LatticeOfFour
    <3>3. QED BY <1>14, <3>2
  <2>4. PICK K : K = i * j
    OBVIOUS
  <2>5. K \in Nat \ {0}
    BY <1>2, <1>10, <1>19, <2>4
  <2>6. Area2(Lattice(p)) = 2 * K
    <3>1. Area2(Lattice(p)) = Cross(z, e) + Cross(e, f) + Cross(f, g) + Cross(g, z)
      BY <2>3, AreaOfFour
    <3>2. Cross(z, e) = 0 /\ Cross(e, f) = K /\ Cross(f, g) = K /\ Cross(g, z) = 0
      BY <1>2, <1>14, <2>4 DEF Cross
    <3>3. QED BY <2>5, <3>1, <3>2
  <2>7. Clockwise(Lattice(p)) = Reverse(Lattice(p)) /\ Distance(Area2(Lattice(p)), 0) = 2 * K
    BY <2>5, <2>6 DEF Clockwise, IsCCW, Distance
  <2>8. PICK u, v : u = <<i, 0>> /\ v = <<0, -j>>
    OBVIOUS
  <2>9. Frame(g, u, v, K)
    <3>1. u \in Point /\ v \in Point
      BY <1>2, <2>8 DEF Point
    <3>2. Cross(u, v) = -K
      BY <1>2, <2>4, <2>8 DEF Cross
    <3>3. Square(u) = i * i /\ Square(v) = j * j
      BY <1>2, <2>8 DEF Square, Dot
    <3>4. (i * i) * (j * j) = K * K
      BY <1>2, <2>4
    <3>5. QED BY <1>9, <1>15, <2>5, <3>1, <3>2, <3>3, <3>4 DEF Frame
  <2>10. Named(g, u, v, f, e, z)
    BY <1>2, <1>14, <2>8 DEF Named, Plus
  <2>11. QED BY <2>3, <2>7, <2>9, <2>10 DEF Rim
<1>20. CASE ~ (i > 0 <=> j > 0)
  <2>1. p = <<c, cg, q, ce>>
    BY <1>10, <1>11, <1>12, <1>13, <1>16, <1>20 DEF BoxTo
  <2>2. Corners4(p, c, cg, q, ce)
    <3>1. /\ p \in Seq(Point) /\ Len(p) = 4 /\ p[1] = c /\ p[2] = cg /\ p[3] = q /\ p[4] = ce
      BY <1>3, <1>17, <2>1, FourPoints
    <3>2. QED BY <3>1, LenProperties DEF Corners4
  <2>3. Corners4(Lattice(p), z, g, f, e) /\ Corners4(Reverse(Lattice(p)), e, f, g, z)
    <3>1. Away(ce, c, e) /\ Away(q, c, f) /\ Away(cg, c, g)
      BY <1>3, <1>15, <1>17, <1>18 DEF Away
    <3>2. /\ Corners4(Lattice(p), <<0, 0>>, g, f, e)
          /\ Corners4(Reverse(Lattice(p)), e, f, g, <<0, 0>>)
      BY <1>3, <2>2, <3>1, LatticeOfFour
    <3>3. QED BY <1>14, <3>2
  <2>4. PICK K : K = - (i * j)
    OBVIOUS
  <2>5. K \in Nat \ {0}
    <3>1. (i > 0 /\ j < 0) \/ (i < 0 /\ j > 0)
      BY <1>2, <1>10, <1>20
    <3>2. QED BY <1>2, <2>4, <3>1
  <2>6. Area2(Lattice(p)) = 2 * K
    <3>1. Area2(Lattice(p)) = Cross(z, g) + Cross(g, f) + Cross(f, e) + Cross(e, z)
      BY <2>3, AreaOfFour
    <3>2. Cross(z, g) = 0 /\ Cross(g, f) = K /\ Cross(f, e) = K /\ Cross(e, z) = 0
      BY <1>2, <1>14, <2>4 DEF Cross
    <3>3. QED BY <2>5, <3>1, <3>2
  <2>7. Clockwise(Lattice(p)) = Reverse(Lattice(p)) /\ Distance(Area2(Lattice(p)), 0) = 2 * K
    BY <2>5, <2>6 DEF Clockwise, IsCCW, Distance
  <2>8. PICK u, v : u = <<0, j>> /\ v = <<-i, 0>>
    OBVIOUS
  <2>9. Frame(e, u, v, K)
    <3>1. u \in Point /\ v \in Point
      BY <1>2, <2>8 DEF Point
    <3>2. Cross(u, v) = -K
      BY <1>2, <2>4, <2>8 DEF Cross
    <3>3. Square(u) = j * j /\ Square(v) = i * i
      BY <1>2, <2>8 DEF Square, Dot
    <3>4. (j * j) * (i * i) = K * K
      BY <1>2, <2>4
    <3>5. QED BY <1>9, <1>15, <2>5, <3>1, <3>2, <3>3, <3>4 DEF Frame
  <2>10. Named(e, u, v, f, g, z)
    BY <1>2, <1>14, <2>8 DEF Named, Plus
  <2>11. QED BY <2>3, <2>7, <2>9, <2>10 DEF Rim
<1>21. QED BY <1>19, <1>20

\* The area of a body of one shape is that of the shape.
LEMMA AreaOfOne ==
  ASSUME NEW q, Area2(q) \in Int
  PROVE  SumSeq(<<q>>, Area2) = Area2(q)
<1>1. PICK s : s = <<q>>
  OBVIOUS
<1>2. s[1] = q /\ DOMAIN s = 1..1
  BY <1>1
<1>3. PICK D : D = DOMAIN s
  OBVIOUS
<1>4. D = {1} /\ D # {} /\ D \in SUBSET D /\ IsFiniteSet(D)
  <2>1. D = {1}
    BY <1>2, <1>3
  <2>2. QED BY <2>1, FS_Singleton
<1>5. PICK f : f = [i \in D |-> Area2(s[i])]
  OBVIOUS
<1>6. f[1] = Area2(q)
  BY <1>2, <1>4, <1>5
<1> DEFINE Fold(g) == g = [r \in SUBSET D |->
             IF r = {} THEN 0 ELSE LET i == CHOOSE i \in r : TRUE IN Area2(s[i]) + g[r \ {i}]]
<1>7. ASSUME NEW g PROVE Adds(D, f, g) <=> Fold(g)
  <2>1. \A r \in SUBSET D : r # {} => (CHOOSE i \in r : TRUE) \in D
    OBVIOUS
  <2>2. ASSUME NEW r \in SUBSET D
        PROVE  (IF r = {} THEN 0 ELSE LET i == CHOOSE i \in r : TRUE IN f[i] + g[r \ {i}])
             = (IF r = {} THEN 0 ELSE LET i == CHOOSE i \in r : TRUE IN Area2(s[i]) + g[r \ {i}])
    BY <1>5, <2>1
  <2>3. [r \in SUBSET D |-> IF r = {} THEN 0 ELSE LET i == CHOOSE i \in r : TRUE IN f[i] + g[r \ {i}]]
      = [r \in SUBSET D |-> IF r = {} THEN 0 ELSE LET i == CHOOSE i \in r : TRUE IN Area2(s[i]) + g[r \ {i}]]
    BY <2>2
  <2>4. QED BY <2>3 DEF Adds
<1>8. PICK g : g = CHOOSE h : Fold(h)
  OBVIOUS
<1>9. Fold(g)
  <2>1. \E h : Fold(h)
    <3> HIDE DEF Fold
    <3> QED BY <1>4, <1>7, SumExists
  <2> HIDE DEF Fold
  <2> QED BY <1>8, <2>1
<1>10. SumSeq(s, Area2) = g[D]
  BY <1>3, <1>8 DEF SumSeq, SumOver, MapThenSumSet, MapThenFoldSet
<1>11. g[D] = Area2(q)
  <2>1. Adds(D, f, g) /\ D \ {1} = {} /\ {} \in SUBSET D
    BY <1>4, <1>7, <1>9
  <2>2. \E i \in D : g[D] = f[i] + g[D \ {i}]
    BY <1>4, <2>1, SumStep
  <2>3. g[{}] = 0
    BY <2>1, SumStep
  <2>4. QED BY <1>4, <1>6, <2>1, <2>2, <2>3
<1>12. QED BY <1>1, <1>10, <1>11

\* Neither half of a box is flat, so both are kept.
LEMMA BothKept ==
  ASSUME NEW c, NEW u, NEW v, NEW K, Frame(c, u, v, K),
         NEW a, NEW o, NEW b, Named(c, u, v, a, o, b), NEW t, HasCorners(t, a, b, o),
         NEW w, w = <<<<c, b, a>>, t>>
  PROVE  Selected(w, {i \in DOMAIN w : ~ IsFlat(w[i])}) = w
<1>1. PICK s : s = <<c, b, a>>
  OBVIOUS
<1>2. w = <<s, t>> /\ DOMAIN w = 1..2 /\ w[1] = s /\ w[2] = t
  BY <1>1
<1>3. ~ IsFlat(s)
  <2>1. c # b /\ b # a /\ a # c
    BY Apart
  <2>2. Len(s) = 3 /\ s[1] = c /\ s[2] = b /\ s[3] = a
    BY <1>1
  <2>3. 1 % 3 = 1 /\ 2 % 3 = 2 /\ 3 % 3 = 0
    OBVIOUS
  <2>4. After(s, 1) = b /\ After(s, 2) = a /\ After(s, 3) = c
    BY <2>2, <2>3 DEF After
  <2>5. \A i \in 1..3 : i = 1 \/ i = 2 \/ i = 3
    OBVIOUS
  <2>6. \A i \in 1..3 : s[i] # After(s, i)
    BY <2>1, <2>2, <2>4, <2>5
  <2>7. QED BY <2>6 DEF IsFlat
<1>4. ~ IsFlat(t)
  BY HalfCut
<1>5. \A i \in 1..2 : i = 1 \/ i = 2
  OBVIOUS
<1>6. {i \in DOMAIN w : ~ IsFlat(w[i])} = 1..2
  BY <1>2, <1>3, <1>4, <1>5
<1>7. Cardinality(1..2) = 2 /\ \A i \in 1..2 : Nth(1..2, i) = i
  <2>1. 2 \in Nat /\ 2 \in 1..2
    OBVIOUS
  <2>2. QED BY <2>1, NthOfAll
<1>8. Selected(w, 1..2) = [i \in 1..2 |-> w[i]]
  BY <1>7 DEF Selected
<1>9. w = [i \in 1..2 |-> w[i]]
  BY <1>2
<1>10. QED BY <1>6, <1>8, <1>9

-----------------------------------------------------------------------------
(***************************************************************************)
(* How far the cutting of a box has got: it is its rim, a half of it and a *)
(* triangle, two triangles, a piece, and a shape.                          *)
(***************************************************************************)
Covers(p, K) == Distance(Area2(Lattice(p)), 0) = 2 * K

AtRim(c, u, v, a, o, b) ==
  /\ stage = "triangulate" /\ tris = <<>> /\ pieces = <<>> /\ shapes = <<>>
  /\ \E p : work = <<p>> /\ Rim(p, c, u, v, a, o, b)

AtHalf(c, u, v, a, o, b) ==
  /\ stage = "triangulate" /\ tris = <<<<c, b, a>>>> /\ pieces = <<>> /\ shapes = <<>>
  /\ \E p : work = <<p>> /\ HasCorners(p, a, b, o)

AtPair(c, u, v, a, o, b) ==
  /\ stage \in {"triangulate", "polygonize"} /\ work = <<>> /\ pieces = <<>> /\ shapes = <<>>
  /\ \E t : tris = <<<<c, b, a>>, t>> /\ HasCorners(t, a, b, o)

AtPiece(c, u, v, a, o, b) ==
  /\ stage \in {"polygonize", "add"} /\ work = <<>> /\ tris = <<>> /\ shapes = <<>>
  /\ \E p : pieces = <<p>> /\ Piece(p, c, u, v, a, o, b)

AtShape(c, u, v, a, o, b) ==
  /\ stage \in {"add", "physical"} /\ work = <<>> /\ tris = <<>> /\ pieces = <<>>
  /\ \E p : shapes = <<p>> /\ Piece(p, c, u, v, a, o, b)

BoxCut ==
  \E c, u, v, a, o, b, K :
    /\ Frame(c, u, v, K) /\ Named(c, u, v, a, o, b) /\ Covers(outline, K)
    /\ \/ AtRim(c, u, v, a, o, b) \/ AtHalf(c, u, v, a, o, b) \/ AtPair(c, u, v, a, o, b)
       \/ AtPiece(c, u, v, a, o, b) \/ AtShape(c, u, v, a, o, b)

\* While it is drawn, a box goes from one lattice point to another.
BoxDrawn ==
  /\ stage = "drawing" /\ tris = <<>> /\ pieces = <<>> /\ shapes = <<>>
  /\ \E m, n \in Points : vertices[1] = Pixel(m) /\ <<lastx, lasty>> = Pixel(n)

BoxInv == mode = "box" => BoxDrawn \/ BoxCut \/ stage = "removed"

LEMMA AppendIsPair ==
  ASSUME NEW s, NEW t
  PROVE  Append(<<s>>, t) = <<s, t>>
<1>1. PICK V, l, e, r : V = {s, t} /\ l = <<s>> /\ e = <<s, t>> /\ r = Append(l, t)
  OBVIOUS
<1>2. s \in V /\ t \in V
  BY <1>1
<1>3. l \in Seq(V) /\ Len(l) = 1 /\ l[1] = s
  BY <1>1, <1>2
<1>4. e \in Seq(V) /\ Len(e) = 2 /\ e[1] = s /\ e[2] = t
  BY <1>1, <1>2
<1>5. r \in Seq(V) /\ Len(r) = 2 /\ r[1] = s /\ r[2] = t
  <2>1. /\ r \in Seq(V) /\ Len(r) = Len(l) + 1
        /\ \A i \in 1..Len(l) : r[i] = l[i]
        /\ r[Len(l) + 1] = t
    BY <1>1, <1>2, <1>3, AppendProperties
  <2>2. QED BY <1>3, <2>1
<1>6. \A i \in 1..2 : r[i] = e[i]
  <2>1. \A i \in 1..2 : i = 1 \/ i = 2
    OBVIOUS
  <2>2. QED BY <1>4, <1>5, <2>1
<1>7. r = e
  BY <1>4, <1>5, <1>6, SeqEqual
<1>8. QED BY <1>1, <1>7

\* A step of the cutting, from each of these.
LEMMA CutRim ==
  ASSUME NEW c, NEW u, NEW v, NEW a, NEW o, NEW b, NEW K, Frame(c, u, v, K),
         Named(c, u, v, a, o, b), Covers(outline, K), AtRim(c, u, v, a, o, b), Cut
  PROVE  BoxCut'
<1>1. PICK p : work = <<p>> /\ Rim(p, c, u, v, a, o, b)
  BY DEF AtRim
<1>2. stage = "triangulate" /\ tris = <<>> /\ pieces = <<>> /\ shapes = <<>> /\ outline' = outline
  BY DEF AtRim, Cut
<1>3. Part = p /\ Tail(work) = <<>> /\ work # <<>>
  BY <1>1 DEF Part
<1>4. PinchPoints(p) = {} /\ Ears(p) # {} /\ Len(p) = 4
  BY <1>1, RimHasEar
<1>5. ClipEar
  BY <1>2, <1>3, <1>4 DEF Cut, DropPart, SplitPart, NoEar, LastTriangle, Triangulated,
                          Polygonize, AddShape, Triangulating
<1>6. PICK i \in BestEars(p) : /\ work' = <<RemoveAt(p, i)>> \o <<>>
                               /\ tris' = Append(<<>>, EarTriangle(p, i))
  BY <1>2, <1>3, <1>5 DEF ClipEar
<1>7. i \in 1..4
  <2>1. DOMAIN p = 1..4
    BY <1>1 DEF Rim, Corners4
  <2>2. QED BY <1>6, <2>1 DEF BestEars, Ears
<1>8. PICK d, e, f, x1, y1, z1 :
        /\ Frame(d, e, f, K) /\ Named(d, e, f, x1, y1, z1)
        /\ EarTriangle(p, i) = <<d, z1, x1>>
        /\ HasCorners(RemoveAt(p, i), x1, z1, y1)
  BY <1>1, <1>7, Clipped
<1>9. work' = <<RemoveAt(p, i)>> /\ tris' = <<<<d, z1, x1>>>>
  BY <1>6, <1>8
<1>10. stage' = "triangulate" /\ pieces' = <<>> /\ shapes' = <<>>
  BY <1>2, <1>5 DEF ClipEar
<1>11. AtHalf(d, e, f, x1, y1, z1)'
  BY <1>8, <1>9, <1>10 DEF AtHalf
<1>12. QED BY <1>2, <1>8, <1>11 DEF BoxCut

LEMMA CutHalf ==
  ASSUME NEW c, NEW u, NEW v, NEW a, NEW o, NEW b, NEW K, Frame(c, u, v, K),
         Named(c, u, v, a, o, b), Covers(outline, K), AtHalf(c, u, v, a, o, b), Cut
  PROVE  BoxCut'
<1>1. PICK p : work = <<p>> /\ HasCorners(p, a, b, o)
  BY DEF AtHalf
<1>2. /\ stage = "triangulate" /\ tris = <<<<c, b, a>>>> /\ pieces = <<>> /\ shapes = <<>>
      /\ outline' = outline
  BY DEF AtHalf, Cut
<1>3. Part = p /\ Tail(work) = <<>> /\ work # <<>>
  BY <1>1 DEF Part
<1>4. PinchPoints(p) = {} /\ Len(p) = 3 /\ HasCorners(Triangle(p[2], p[3], p[1]), a, b, o)
  BY <1>1, HalfCut
<1>5. LastTriangle
  BY <1>2, <1>3, <1>4 DEF Cut, DropPart, SplitPart, NoEar, ClipEar, Triangulated,
                          Polygonize, AddShape, Triangulating
<1>6. PICK t : t = Triangle(p[2], p[3], p[1])
  OBVIOUS
<1>7. /\ work' = <<>> /\ tris' = Append(<<<<c, b, a>>>>, t)
      /\ stage' = "triangulate" /\ pieces' = <<>> /\ shapes' = <<>>
  BY <1>2, <1>3, <1>5, <1>6 DEF LastTriangle
<1>8. tris' = <<<<c, b, a>>, t>>
  <2>1. PICK s : s = <<c, b, a>>
    OBVIOUS
  <2>2. Append(<<s>>, t) = <<s, t>>
    BY AppendIsPair
  <2>3. QED BY <1>7, <2>1, <2>2
<1>9. AtPair(c, u, v, a, o, b)'
  BY <1>4, <1>6, <1>7, <1>8 DEF AtPair
<1>10. QED BY <1>2, <1>9 DEF BoxCut

LEMMA CutPair ==
  ASSUME MaxVertices > 3,
         NEW c, NEW u, NEW v, NEW a, NEW o, NEW b, NEW K, Frame(c, u, v, K),
         Named(c, u, v, a, o, b), Covers(outline, K), AtPair(c, u, v, a, o, b), Cut
  PROVE  BoxCut'
<1>1. PICK s, t : s = <<c, b, a>> /\ tris = <<s, t>> /\ HasCorners(t, a, b, o)
  BY DEF AtPair
<1>2. work = <<>> /\ pieces = <<>> /\ shapes = <<>> /\ outline' = outline
  BY DEF AtPair, Cut
<1>3. tris # <<>>
  BY <1>1
<1>4. CASE stage = "triangulate"
  <2>1. Triangulated
    BY <1>2, <1>4 DEF Cut, DropPart, SplitPart, NoEar, ClipEar, LastTriangle,
                      Polygonize, AddShape, Triangulating
  <2>2. /\ tris' = Selected(tris, {i \in DOMAIN tris : ~ IsFlat(tris[i])})
        /\ stage' = "polygonize" /\ work' = <<>> /\ pieces' = <<>> /\ shapes' = <<>>
    BY <1>2, <1>3, <2>1 DEF Triangulated
  <2>3. tris' = tris
    BY <1>1, <2>2, BothKept
  <2>4. AtPair(c, u, v, a, o, b)'
    BY <1>1, <2>2, <2>3 DEF AtPair
  <2>5. QED BY <1>2, <2>4 DEF BoxCut
<1>5. CASE stage = "polygonize"
  <2>1. Polygonize
    BY <1>2, <1>5 DEF Cut, DropPart, SplitPart, NoEar, ClipEar, LastTriangle,
                      Triangulated, AddShape, Triangulating
  <2>2. PICK g, p : g = Grown(<<s, t>>) /\ p = Merged(g.piece)
    OBVIOUS
  <2>3. g.left = <<>> /\ Piece(p, c, u, v, a, o, b)
    BY <1>1, <2>2, TwoGrown
  <2>4. Len(p) >= 3
    <3>1. Len(p) = 4
      BY <2>3 DEF Piece, Corners4
    <3>2. QED BY <3>1
  <2>5. /\ tris' = <<>> /\ pieces' = Append(<<>>, p)
        /\ stage' = "polygonize" /\ work' = <<>> /\ shapes' = <<>>
    BY <1>1, <1>2, <1>3, <1>5, <2>1, <2>2, <2>3, <2>4 DEF Polygonize
  <2>6. pieces' = <<p>>
    BY <2>5
  <2>7. AtPiece(c, u, v, a, o, b)'
    BY <2>3, <2>5, <2>6 DEF AtPiece
  <2>8. QED BY <1>2, <2>7 DEF BoxCut
<1>6. QED BY <1>4, <1>5 DEF AtPair

LEMMA CutPiece ==
  ASSUME MaxVertices > 3,
         NEW c, NEW u, NEW v, NEW a, NEW o, NEW b, NEW K, Frame(c, u, v, K),
         Named(c, u, v, a, o, b), Covers(outline, K), AtPiece(c, u, v, a, o, b), Cut
  PROVE  BoxCut'
<1>1. PICK p : pieces = <<p>> /\ Piece(p, c, u, v, a, o, b)
  BY DEF AtPiece
<1>2. work = <<>> /\ tris = <<>> /\ shapes = <<>> /\ outline' = outline
  BY DEF AtPiece, Cut
<1>3. CASE stage = "polygonize"
  <2>1. Polygonize
    BY <1>2, <1>3 DEF Cut, DropPart, SplitPart, NoEar, ClipEar, LastTriangle,
                      Triangulated, AddShape, Triangulating
  <2>2. /\ stage' = "add" /\ tris' = <<>> /\ pieces' = <<p>> /\ work' = <<>> /\ shapes' = <<>>
    BY <1>1, <1>2, <2>1 DEF Polygonize
  <2>3. AtPiece(c, u, v, a, o, b)'
    BY <1>1, <2>2 DEF AtPiece
  <2>4. QED BY <1>2, <2>3 DEF BoxCut
<1>4. CASE stage = "add"
  <2>1. AddShape
    BY <1>4 DEF Cut, DropPart, SplitPart, NoEar, ClipEar, LastTriangle,
                Triangulated, Polygonize, Triangulating
  <2>2. pieces # <<>> /\ Head(pieces) = p /\ Tail(pieces) = <<>>
    BY <1>1
  <2>3. IsUsable(p)
    BY <1>1, PieceUsable
  <2>4. /\ pieces' = <<>> /\ shapes' = Append(<<>>, p)
        /\ stage' = "add" /\ work' = <<>> /\ tris' = <<>>
    BY <1>2, <1>4, <2>1, <2>2, <2>3 DEF AddShape
  <2>5. shapes' = <<p>>
    BY <2>4
  <2>6. AtShape(c, u, v, a, o, b)'
    BY <1>1, <2>4, <2>5 DEF AtShape
  <2>7. QED BY <1>2, <2>6 DEF BoxCut
<1>5. QED BY <1>3, <1>4 DEF AtPiece

LEMMA CutShape ==
  ASSUME NEW c, NEW u, NEW v, NEW a, NEW o, NEW b, NEW K, Frame(c, u, v, K),
         Named(c, u, v, a, o, b), Covers(outline, K), AtShape(c, u, v, a, o, b), Cut
  PROVE  BoxCut'
<1>1. PICK p : shapes = <<p>> /\ Piece(p, c, u, v, a, o, b)
  BY DEF AtShape
<1>2. work = <<>> /\ tris = <<>> /\ pieces = <<>> /\ outline' = outline
  BY DEF AtShape, Cut
<1>3. AddShape
  BY DEF AtShape, Cut, DropPart, SplitPart, NoEar, ClipEar, LastTriangle,
         Triangulated, Polygonize, Triangulating
<1>4. stage' = "physical" /\ shapes' = <<p>> /\ pieces' = <<>> /\ work' = <<>> /\ tris' = <<>>
  BY <1>1, <1>2, <1>3 DEF AddShape
<1>5. AtShape(c, u, v, a, o, b)'
  BY <1>1, <1>4 DEF AtShape
<1>6. QED BY <1>2, <1>5 DEF BoxCut

LEMMA BoxCutStep ==
  ASSUME MaxVertices > 3, BoxInv, Cut
  PROVE  BoxInv'
<1>1. mode' = mode /\ stage \notin {"drawing", "removed"}
  BY DEF Cut, DropPart, SplitPart, NoEar, ClipEar, LastTriangle, Triangulated,
         Polygonize, AddShape, Triangulating
<1>2. SUFFICES ASSUME mode = "box" PROVE BoxCut'
  BY <1>1 DEF BoxInv
<1>3. BoxCut
  BY <1>1, <1>2 DEF BoxInv, BoxDrawn
<1>4. PICK c, u, v, a, o, b, K :
        /\ Frame(c, u, v, K) /\ Named(c, u, v, a, o, b) /\ Covers(outline, K)
        /\ \/ AtRim(c, u, v, a, o, b) \/ AtHalf(c, u, v, a, o, b) \/ AtPair(c, u, v, a, o, b)
           \/ AtPiece(c, u, v, a, o, b) \/ AtShape(c, u, v, a, o, b)
  BY <1>3 DEF BoxCut
<1>5. CASE AtRim(c, u, v, a, o, b)
  BY <1>4, <1>5, CutRim
<1>6. CASE AtHalf(c, u, v, a, o, b)
  BY <1>4, <1>6, CutHalf
<1>7. CASE AtPair(c, u, v, a, o, b)
  BY <1>4, <1>7, CutPair
<1>8. CASE AtPiece(c, u, v, a, o, b)
  BY <1>4, <1>8, CutPiece
<1>9. CASE AtShape(c, u, v, a, o, b)
  BY <1>4, <1>9, CutShape
<1>10. QED BY <1>4, <1>5, <1>6, <1>7, <1>8, <1>9

\* The pen comes up from a box: it is refused, or has a frame.
LEMMA BoxUpStep ==
  ASSUME SInv, BoxInv, PenUpBox
  PROVE  BoxInv'
<1>1. stage = "drawing" /\ mode = "box" /\ mode' = mode
  BY DEF PenUpBox
<1>2. PICK c, q : c = vertices[1] /\ q = <<lastx, lasty>>
  OBVIOUS
<1>3. q[1] = lastx /\ q[2] = lasty
  BY <1>2
<1>4. BoxDrawn
  BY <1>1 DEF BoxInv, BoxCut, AtRim, AtHalf, AtPair, AtPiece, AtShape
<1>5. PICK m, n \in Points : c = Pixel(m) /\ q = Pixel(n)
  BY <1>2, <1>4 DEF BoxDrawn
<1>6. vertices = BoxTo(c, q) \/ q = c
  BY <1>1, <1>2 DEF SInv, Drawing, Spanned
<1>7. CASE TooSmall(Distance(q[1], c[1]), Distance(q[2], c[2]))
  <2>1. stage' = "removed"
    BY <1>2, <1>3, <1>7 DEF PenUpBox, Refused
  <2>2. QED BY <2>1 DEF BoxInv
<1>8. CASE ~ TooSmall(Distance(q[1], c[1]), Distance(q[2], c[2]))
  <2>1. MakePhysical(vertices, TRUE)
    BY <1>2, <1>3, <1>8 DEF PenUpBox
  <2>2. c \in Point /\ q \in Point
    BY <1>5, PixelIsPoint
  <2>3. vertices = BoxTo(c, q)
    BY <1>6, <1>8, <2>2, BoxSides
  <2>4. Len(vertices) = 4
    BY <2>2, <2>3, Corners
  <2>5. /\ outline' = vertices /\ stage' = "triangulate"
        /\ work' = <<Clockwise(Lattice(vertices))>>
        /\ shapes' = <<>> /\ tris' = <<>> /\ pieces' = <<>>
    BY <1>4, <2>1, <2>4 DEF MakePhysical, BoxDrawn
  <2>6. PICK d, u, v, a, o, b, K :
          /\ Frame(d, u, v, K) /\ Rim(Clockwise(Lattice(vertices)), d, u, v, a, o, b)
          /\ Distance(Area2(Lattice(vertices)), 0) = 2 * K
    BY <1>5, <1>8, <2>3, BoxHasFrame
  <2>7. AtRim(d, u, v, a, o, b)'
    BY <2>5, <2>6 DEF AtRim
  <2>8. Covers(outline, K)'
    <3>1. Covers(vertices, K)
      BY <2>6 DEF Covers
    <3>2. QED BY <2>5, <3>1
  <2>9. Named(d, u, v, a, o, b)
    BY <2>6 DEF Rim
  <2>10. BoxCut'
    BY <2>6, <2>7, <2>8, <2>9 DEF BoxCut
  <2>11. QED BY <2>10 DEF BoxInv
<1>9. QED BY <1>7, <1>8

\* The pen comes down on the lattice and moves on it.
LEMMA BoxPenStep ==
  ASSUME SInv, BoxInv, NEW r \in Points, Pen(Pixel(r))
  PROVE  BoxInv'
<1>1. PICK q \in Point : q = Pixel(r)
  BY PixelIsPoint
<1>2. q[1] \in Int /\ q[2] \in Int /\ q = <<q[1], q[2]>>
  BY DEF Point
<1>3. CASE PenDownLine(q)
  <2>1. mode' = "polygon"
    BY <1>3 DEF PenDownLine
  <2>2. QED BY <2>1 DEF BoxInv
<1>4. CASE PenDownBox(q)
  <2>1. /\ vertices' = <<q, <<q[1] + 1, q[2]>>, <<q[1] + 1, q[2] + 1>>, <<q[1], q[2] + 1>>>>
        /\ stage' = "drawing" /\ tris' = <<>> /\ pieces' = <<>> /\ shapes' = <<>>
        /\ lastx' = q[1] /\ lasty' = q[2]
    BY <1>4 DEF PenDownBox, NewThing, Sampled
  <2>2. vertices'[1] = q /\ <<lastx', lasty'>> = q
    BY <1>2, <2>1
  <2>3. BoxDrawn'
    BY <1>1, <2>1, <2>2 DEF BoxDrawn
  <2>4. QED BY <2>3 DEF BoxInv
<1>5. CASE PenMoveLine(q)
  <2>1. mode' = "polygon"
    BY <1>5 DEF PenMoveLine
  <2>2. QED BY <2>1 DEF BoxInv
<1>6. CASE PenMoveBox(q)
  <2>1. /\ stage = "drawing" /\ mode = "box" /\ vertices' = BoxTo(vertices[1], q)
        /\ lastx' = q[1] /\ lasty' = q[2]
        /\ stage' = stage /\ tris' = tris /\ pieces' = pieces /\ shapes' = shapes
    BY <1>6 DEF PenMoveBox, Sampled, cutting
  <2>2. BoxDrawn
    BY <2>1 DEF BoxInv, BoxCut, AtRim, AtHalf, AtPair, AtPiece, AtShape
  <2>3. PICK m \in Points : vertices[1] = Pixel(m)
    BY <2>2 DEF BoxDrawn
  <2>4. vertices'[1] = Pixel(m)
    <3>1. Pixel(m) \in Point
      BY PixelIsPoint
    <3>2. QED BY <2>1, <2>3, <3>1, Corners
  <2>5. <<lastx', lasty'>> = q
    BY <1>2, <2>1
  <2>6. BoxDrawn'
    BY <1>1, <2>1, <2>2, <2>4, <2>5 DEF BoxDrawn
  <2>7. QED BY <2>6 DEF BoxInv
<1>7. QED BY <1>1, <1>3, <1>4, <1>5, <1>6 DEF Pen

LEMMA BoxInvStep ==
  ASSUME MaxVertices > 3, SInv, BoxInv, [SNext]_svars
  PROVE  BoxInv'
<1>1. CASE PenUpLine
  BY <1>1 DEF PenUpLine, BoxInv
<1>2. CASE PenUpBox
  BY <1>2, BoxUpStep
<1>3. CASE Cut
  BY <1>3, BoxCutStep
<1>4. CASE \E q \in Points : Pen(Pixel(q))
  BY <1>4, BoxPenStep
<1>5. CASE UNCHANGED svars
  BY <1>5 DEF svars, polygon, cutting, BoxInv, BoxDrawn, BoxCut, AtRim, AtHalf, AtPair,
              AtPiece, AtShape
<1>6. QED BY <1>1, <1>2, <1>3, <1>4, <1>5 DEF SNext

LEMMA CutIsSolid ==
  ASSUME BoxInv
  PROVE  BoxIsSolid
<1>1. SUFFICES ASSUME mode = "box"
               PROVE  /\ stage # "bodiless"
                      /\ stage = "physical" =>
                           /\ shapes # <<>>
                           /\ SumSeq(shapes, Area2) = Distance(Area2(Lattice(outline)), 0)
  BY DEF BoxIsSolid
<1>2. stage # "bodiless"
  BY <1>1 DEF BoxInv, BoxDrawn, BoxCut, AtRim, AtHalf, AtPair, AtPiece, AtShape
<1>3. ASSUME stage = "physical"
      PROVE  shapes # <<>> /\ SumSeq(shapes, Area2) = Distance(Area2(Lattice(outline)), 0)
  <2>1. PICK c, u, v, a, o, b, K :
          Frame(c, u, v, K) /\ Covers(outline, K) /\ AtShape(c, u, v, a, o, b)
    BY <1>1, <1>3 DEF BoxInv, BoxDrawn, BoxCut, AtRim, AtHalf, AtPair, AtPiece
  <2>2. PICK p : shapes = <<p>> /\ Piece(p, c, u, v, a, o, b)
    BY <2>1 DEF AtShape
  <2>3. Area2(p) = 2 * K
    BY <2>1, <2>2, PieceEdges
  <2>4. Area2(p) \in Int
    BY <2>1, <2>3 DEF Frame
  <2>5. SumSeq(<<p>>, Area2) = 2 * K
    BY <2>3, <2>4, AreaOfOne
  <2>6. Distance(Area2(Lattice(outline)), 0) = 2 * K
    BY <2>1 DEF Covers
  <2>7. shapes # <<>>
    BY <2>2
  <2>8. SumSeq(shapes, Area2) = SumSeq(<<p>>, Area2)
    BY <2>2
  <2>9. QED BY <2>5, <2>6, <2>7, <2>8
<1>4. QED BY <1>2, <1>3

(***************************************************************************)
(* Whatever the stylus samples, on any lattice and when Box2D's polygons   *)
(* may have four vertices (b2_maxPolygonVertices is 8): a box that penUp   *)
(* keeps is cut without failing, and the body it becomes has shapes, with  *)
(* together the area of the box.                                           *)
(***************************************************************************)
THEOREM BoxesAreSolid ==
  ASSUME MaxVertices > 3
  PROVE  SSpec => []BoxIsSolid
<1>1. SInit => SInv /\ BoxInv
  BY DEF SInit, SInv, BoxInv, Drawing, NoZeroEdge
<1>2. SInv /\ BoxInv /\ [SNext]_svars => SInv' /\ BoxInv'
  BY InvariantStep, BoxInvStep
<1>3. SInv /\ BoxInv => BoxIsSolid
  BY CutIsSolid
<1>4. QED BY <1>1, <1>2, <1>3, PTL DEF SSpec
=============================================================================
