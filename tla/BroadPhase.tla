----------------------------- MODULE BroadPhase -----------------------------
(***************************************************************************)
(* b2BroadPhase: sweep and prune.  Each axis keeps the ends of all boxes   *)
(* in one sorted array; an end counts the boxes that it stabs.  The value  *)
(* of a lower end is even, that of an upper end is odd (ComputeBounds).    *)
(*                                                                         *)
(* A broad phase is a record; indices into bounds start at 1.              *)
(***************************************************************************)
EXTENDS PairTable

CONSTANTS NumProxies,  \* b2_maxProxies
          MaxStamp,    \* B2BROADPHASE_MAX, where the time stamp wraps around
          WorldMax,    \* the largest quantised value, an odd one
          NoShape

ASSUME ProxyAssumption ==
  /\ NumProxies \in Nat \ {0} /\ MaxStamp \in Nat \ {0}
  /\ WorldMax \in Nat /\ WorldMax % 2 = 1

Proxies   == 0..(NumProxies - 1)
NullProxy == NumProxies
Axes      == 1..2

IsLower(b)     == b.value % 2 = 0
Bound(v, p, s) == [value |-> v, id |-> p, stab |-> s]

NewAxis == [bounds |-> <<>>, lower |-> [p \in Proxies |-> 0], upper |-> [p \in Proxies |-> 0]]

NewBroadPhase ==
  [axes |-> [a \in Axes |-> NewAxis], free |-> [i \in 1..NumProxies |-> i - 1],
   user |-> [p \in Proxies |-> NoShape], stamp |-> [p \in Proxies |-> 0], time |-> 1,
   m |-> NewTable, contacts |-> {}]

IsValid(bp, p) == p \in Proxies \ ToSet(bp.free)

\* A box is a sequence of two intervals, one for each axis.  It is in range when
\* a part of it is in the world.
InRange(box) == \A a \in Axes : box[a][1] < WorldMax /\ box[a][2] > 0

\* ComputeBounds: the part in the world, lower ends made even and upper ends odd.
Clamp(v)    == Max({0, Min({v, WorldMax})})
Bounds(box) == [a \in Axes |-> <<2 * (Clamp(box[a][1]) \div 2), 2 * (Clamp(box[a][2]) \div 2) + 1>>]

LowerValue(bp, a, p) == bp.axes[a].bounds[bp.axes[a].lower[p]].value
UpperValue(bp, a, p) == bp.axes[a].bounds[bp.axes[a].upper[p]].value
BoxOf(bp, p) == [a \in Axes |-> <<LowerValue(bp, a, p), UpperValue(bp, a, p)>>]

Overlap(b, c) == \A a \in Axes : b[a][1] <= c[a][2] /\ c[a][1] <= b[a][2]

\* The index of the value, any one of them, or that of the first greater one.
BinarySearch(bounds, v) ==
  LET n == Len(bounds)
      search[r \in (1..(n + 1)) \X (0..n)] ==
        LET mid == (r[1] + r[2]) \div 2
        IN  IF r[1] > r[2] THEN r[1]
            ELSE IF bounds[mid].value > v THEN search[<<r[1], mid - 1>>]
            ELSE IF bounds[mid].value < v THEN search[<<mid + 1, r[2]>>]
            ELSE mid
  IN  search[<<1, n>>]

-----------------------------------------------------------------------------
\* IncrementOverlapCount: the second visit since the last query is a hit.
Visit(q, p) == IF q.stamp[p] < q.time THEN [q EXCEPT !.stamp[p] = q.time]
               ELSE [q EXCEPT !.hits = Append(@, p)]

\* Lower ends between the two values, and those of the boxes stabbed at the
\* first: as many as the stabbing count says, looked for from there down.
QueryAxis(q, x, box) ==
  LET low    == BinarySearch(x.bounds, box[1])
      high   == BinarySearch(x.bounds, box[2])
      Easy(r, i) == IF IsLower(x.bounds[i]) THEN Visit(r, x.bounds[i].id) ELSE r
      Hard(r, k) ==
        LET b == x.bounds[low - k]
        IN  IF r.left > 0 /\ IsLower(b) /\ low <= x.upper[b.id]
            THEN [left |-> r.left - 1, q |-> Visit(r.q, b.id)] ELSE r
      inside == FoldLeft(Easy, q, [k \in 1..(high - low) |-> low + k - 1])
      stab   == IF low > 1 THEN x.bounds[low - 1].stab ELSE 0
  IN  [low |-> low, high |-> high,
       q |-> FoldLeft(Hard, [left |-> stab, q |-> inside], [k \in 1..(low - 1) |-> k]).q]

NewQuery(bp) == [stamp |-> bp.stamp, time |-> bp.time, hits |-> <<>>]

\* Seeded fault: the stamps survive when the time starts over.
StampedStale(bp, q) ==
  [bp EXCEPT !.stamp = q.stamp, !.time = IF @ = MaxStamp THEN 1 ELSE @ + 1]

\* IncrementTimeStamp
Stamped(bp, q) ==
  IF bp.time = MaxStamp
  THEN [bp EXCEPT !.stamp = [p \in Proxies |-> 0], !.time = 1]
  ELSE [bp EXCEPT !.stamp = q.stamp, !.time = @ + 1]

Query(bp, box) ==
  FoldLeft(LAMBDA q, a : QueryAxis(q, bp.axes[a], box[a]).q, NewQuery(bp), <<1, 2>>)

-----------------------------------------------------------------------------
\* From index i on, the proxies learn where their ends are now.
Reindexed(x, i) ==
  LET here(p, low) == {k \in i..Len(x.bounds) : x.bounds[k].id = p /\ IsLower(x.bounds[k]) = low}
      At(p, low, old) == IF here(p, low) = {} THEN old ELSE Min(here(p, low))
  IN  [x EXCEPT !.lower = [p \in Proxies |-> At(p, TRUE, @[p])],
                !.upper = [p \in Proxies |-> At(p, FALSE, @[p])]]

\* Stabbing counts between two indices change by d.
Restabbed(bounds, from, to, d) ==
  [i \in DOMAIN bounds |-> IF i \in from..to THEN [bounds[i] EXCEPT !.stab = @ + d] ELSE bounds[i]]

Inserted(x, p, box, low, high) ==
  LET Stab(bounds, i) == IF i = 1 THEN 0 ELSE bounds[i - 1].stab
      one == InsertAt(x.bounds, low, Bound(box[1], p, Stab(x.bounds, low)))
      two == InsertAt(one, high + 1, Bound(box[2], p, Stab(one, high + 1)))
  IN  Reindexed([x EXCEPT !.bounds = Restabbed(two, low, high, 1)], low)

\* Seeded fault: one index too many after the second removal.
DeletedOneMore(x, p) ==
  LET left == RemoveAt(RemoveAt(x.bounds, x.upper[p]), x.lower[p])
  IN  Reindexed([x EXCEPT !.bounds = Restabbed(left, x.lower[p], x.upper[p] - 1, -1)], x.lower[p])

Deleted(x, p) ==
  LET low  == x.lower[p]
      high == x.upper[p]
      left == RemoveAt(RemoveAt(x.bounds, high), low)
  IN  Reindexed([x EXCEPT !.bounds = Restabbed(left, low, high - 2, -1)], low)

PairsAdded(m, p, others)   == FoldLeft(LAMBDA t, q : AddBufferedPair(t, {p, q}), m, others)
PairsRemoved(m, p, others) == FoldLeft(LAMBDA t, q : RemoveBufferedPair(t, {p, q}), m, others)

Committed(bp, c) == [bp EXCEPT !.m = c.m, !.contacts = c.contacts]
Commit(bp, unwanted) ==
  Committed(bp, CommitPairs(bp.m, bp.contacts, bp.user, unwanted))

\* Both work on r = [bp, q]: the broad phase, and the query along its axes.
InsertEnds(r, a, p, interval, q) ==
  [q |-> q.q, bp |-> [r.bp EXCEPT !.axes[a] = Inserted(@, p, interval, q.low, q.high)]]

Created(r, p, shape, unwanted) ==
  Stamped(Commit([r.bp EXCEPT !.free = Tail(@), !.user[p] = shape,
                              !.m = PairsAdded(@, p, r.q.hits)], unwanted),
          r.q)

\* The proxy is the first of the free ones.
CreateProxy(bp, box, shape, unwanted) ==
  Created(FoldLeft(LAMBDA r, a : InsertEnds(r, a, Head(bp.free), box[a],
                                   QueryAxis(r.q, r.bp.axes[a], box[a])),
                   [q |-> NewQuery(bp), bp |-> bp], <<1, 2>>),
          Head(bp.free), shape, unwanted)

DeleteEnds(r, a, interval, x) ==
  [q |-> QueryAxis(r.q, x, interval).q, bp |-> [r.bp EXCEPT !.axes[a] = x]]

Destroyed(r, p, unwanted) ==
  [Stamped(Commit([r.bp EXCEPT !.m = PairsRemoved(@, p, r.q.hits)], unwanted),
           r.q) EXCEPT !.user[p] = NoShape, !.free = <<p>> \o @]

DestroyProxy(bp, p, unwanted) ==
  Destroyed(FoldLeft(LAMBDA r, a : DeleteEnds(r, a, BoxOf(bp, p)[a],
                                     Deleted(r.bp.axes[a], p)),
                     [q |-> NewQuery(bp), bp |-> bp], <<1, 2>>),
            p, unwanted)

-----------------------------------------------------------------------------
(***************************************************************************)
(* MoveProxy lets each end of the box bubble to its place.  Expanding      *)
(* (grow is 1) adds the pairs whose other kind of end is passed, shrinking *)
(* (grow is -1) removes them; r.met are those, in the order they are met.  *)
(***************************************************************************)
Passes(x, i, d) ==
  IF d = -1 THEN i > 1 /\ x.bounds[i].value < x.bounds[i - 1].value
            ELSE i < Len(x.bounds) /\ x.bounds[i + 1].value <= x.bounds[i].value

Shifted(x, b, d) == IF IsLower(b) THEN [x EXCEPT !.lower[b.id] = @ + d]
                                  ELSE [x EXCEPT !.upper[b.id] = @ + d]

Swap(r, d, grow) ==
  LET i     == r.index
      me    == r.x.bounds[i]
      other == r.x.bounds[i + d]
      opposite == IsLower(me) # IsLower(other)
      moved == Shifted(Shifted(r.x, other, -d), me, d)
  IN  [index |-> i + d,
       met   |-> IF opposite THEN Append(r.met, other.id) ELSE r.met,
       x     |-> [moved EXCEPT !.bounds[i]     = [other EXCEPT !.stab = @ + grow],
                               !.bounds[i + d] = [me EXCEPT !.stab =
                                                    IF opposite THEN @ + grow ELSE @ - grow]]]

Bubbled(x, i, d, grow) ==
  FoldLeft(LAMBDA r, k : IF Passes(r.x, r.index, d) THEN Swap(r, d, grow) ELSE r,
           [index |-> i, met |-> <<>>, x |-> x], [k \in 1..Len(x.bounds) |-> k])

\* The four cases, in the order of the code.  The box to test against is the
\* new one when pairs are added and the old one when they are removed.
Met(bp, r, box) == SelectSeq(r.met, LAMBDA q : Overlap(box, BoxOf(bp, q)))

EndMoved(bp, a, p, r, grow, box) ==
  IF grow = 1
  THEN [bp EXCEPT !.axes[a] = r.x, !.m = PairsAdded(@, p, Met(bp, r, box))]
  ELSE [bp EXCEPT !.axes[a] = r.x, !.m = PairsRemoved(@, p, Met(bp, r, box))]

MoveEnd(bp, a, p, i, d, grow, box) ==
  EndMoved(bp, a, p, Bubbled(bp.axes[a], i, d, grow), grow, box)

LowerEnd(bp, a, p) == bp.axes[a].lower[p]
UpperEnd(bp, a, p) == bp.axes[a].upper[p]

LowerDown(bp, a, p, new, old) ==
  IF new[a][1] < old[a][1] THEN MoveEnd(bp, a, p, LowerEnd(bp, a, p), -1, 1, new) ELSE bp
UpperUp(bp, a, p, new, old) ==
  IF new[a][2] > old[a][2] THEN MoveEnd(bp, a, p, UpperEnd(bp, a, p), 1, 1, new) ELSE bp
LowerUp(bp, a, p, new, old) ==
  IF new[a][1] > old[a][1] THEN MoveEnd(bp, a, p, LowerEnd(bp, a, p), 1, -1, old) ELSE bp
UpperDown(bp, a, p, new, old) ==
  IF new[a][2] < old[a][2] THEN MoveEnd(bp, a, p, UpperEnd(bp, a, p), -1, -1, old) ELSE bp

Revalued(bp, a, p, new) ==
  [bp EXCEPT !.axes[a].bounds[bp.axes[a].lower[p]].value = new[a][1],
             !.axes[a].bounds[bp.axes[a].upper[p]].value = new[a][2]]

MoveOnAxis(bp, a, p, new, old) ==
  UpperDown(LowerUp(UpperUp(LowerDown(Revalued(bp, a, p, new),
    a, p, new, old), a, p, new, old), a, p, new, old), a, p, new, old)

MoveProxy(bp, p, box) ==
  FoldLeft(LAMBDA b, a : MoveOnAxis(b, a, p, box, BoxOf(bp, p)), bp, <<1, 2>>)
=============================================================================
