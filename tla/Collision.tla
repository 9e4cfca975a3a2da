------------------------------ MODULE Collision ------------------------------
(***************************************************************************)
(* b2World as class World uses it: bodies and joints come and go between   *)
(* the steps, bodies move in a step, and those that leave the world box    *)
(* are frozen in the middle of it.  The broad phase and the contact        *)
(* manager have to keep up.                                                *)
(*                                                                         *)
(* Where a body is decides the boxes of its shapes; what the solver makes  *)
(* it do is open.                                                          *)
(***************************************************************************)
EXTENDS BroadPhase

CONSTANTS Bodies, StaticBodies,
          ShapeList(_),       \* the shapes of a body, m_shapeList
          Places,             \* of bodies
          Touches,            \* boxes that the stylus asks for
          Box(_, _),          \* of a shape at a place
          NoBox, Nowhere,
          JointPairs, MaxJoints

VARIABLES bp,        \* m_broadPhase
          place,     \* of each body in m_bodyList, else Nowhere
          proxy,     \* m_proxyId
          frozen,    \* e_frozenFlag
          joints,    \* how many of them connect two bodies
          lock,      \* m_lock
          moving,    \* bodies that this round of the step has not moved yet
          marked     \* bodies to be made unphysical after the step

bodystate == <<place, frozen>>
step      == <<lock, moving, marked>>
cvars     == <<bp, bodystate, proxy, joints, step>>

Shapes    == UNION {ToSet(ShapeList(b)) : b \in Bodies}
BodyOf(s) == CHOOSE b \in Bodies : s \in ToSet(ShapeList(b))
InWorld   == {b \in Bodies : place[b] # Nowhere}

\* The contacts that PairAdded would refuse, with joints j: two static bodies,
\* one body, or bodies that a joint connects.
ConnectedBy(j, b, c) == {b, c} \in DOMAIN j /\ j[{b, c}] > 0
Unwanted(j) ==
  {{s, t} : s \in Shapes, t \in Shapes} \
    {{s, t} : <<s, t>> \in {st \in Shapes \X Shapes :
       LET b == BodyOf(st[1])
           c == BodyOf(st[2])
       IN  b # c /\ ~({b, c} \subseteq StaticBodies) /\ ~ConnectedBy(j, b, c)}}

\* ComputeSweptAABB: around the shape at both places.
Hull(b, c) == [a \in Axes |-> <<Min({b[a][1], c[a][1]}), Max({b[a][2], c[a][2]})>>]
Swept(s, from, to) == Hull(Box(s, from), Box(s, to))

-----------------------------------------------------------------------------
(***************************************************************************)
(* b2Shape's calls of the broad phase, on w = [bp, proxy].                 *)
(***************************************************************************)
MakeProxy(w, s, at, j) ==
  [bp    |-> CreateProxy(w.bp, Bounds(Box(s, at)), s, Unwanted(j)),
   proxy |-> [w.proxy EXCEPT ![s] = Head(w.bp.free)]]

DropProxy(w, s, j) ==
  IF w.proxy[s] = NullProxy THEN w
  ELSE [bp    |-> DestroyProxy(w.bp, w.proxy[s], Unwanted(j)),
        proxy |-> [w.proxy EXCEPT ![s] = NullProxy]]

MakeAgain(w, s, at, j)  == IF InRange(Box(s, at)) THEN MakeProxy(w, s, at, j) ELSE w
ResetProxy(w, s, at, j) == MakeAgain(DropProxy(w, s, j), s, at, j)

\* Seeded fault: the contacts are left as they are.
ResetFilteringNot(w, b, c, j) == w

\* Of the body with fewer shapes, the second one when they have the same.
ResetBody(w, b, j) ==
  FoldLeft(LAMBDA v, s : ResetProxy(v, s, place[b], j), w, ShapeList(b))

ResetFiltering(w, b, c, j) ==
  ResetBody(w, IF Len(ShapeList(b)) < Len(ShapeList(c)) THEN b ELSE c, j)

\* World::step comes back when what left the world is unphysical.
Free  == ~lock /\ marked = {}
Now   == [bp |-> bp, proxy |-> proxy]
Is(w) == bp' = w.bp /\ proxy' = w.proxy

\* Shapes are synchronised until one is out of range or has no proxy.
Synchronized(w, b, from, to) ==
  LET Sync(r, s) ==
        IF ~r.ok THEN r
        ELSE IF r.w.proxy[s] = NullProxy \/ ~InRange(Swept(s, from, to))
        THEN [r EXCEPT !.ok = FALSE]
        ELSE [r EXCEPT !.w.bp = MoveProxy(@, r.w.proxy[s], Bounds(Swept(s, from, to)))]
  IN  FoldLeft(Sync, [ok |-> TRUE, w |-> w], ShapeList(b))

Dropped(w, b, j) == FoldLeft(LAMBDA v, s : DropProxy(v, s, j), w, ShapeList(b))

-----------------------------------------------------------------------------
\* The shape made last is the first of the list.
MadeBody(w, b, at, j) ==
  FoldLeft(LAMBDA v, s : MakeProxy(v, s, at, j), w, Reverse(ShapeList(b)))

CInit ==
  /\ bp = NewBroadPhase
  /\ place = [b \in Bodies |-> Nowhere] /\ frozen = [b \in Bodies |-> FALSE]
  /\ proxy = [s \in Shapes |-> NullProxy]
  /\ joints = [j \in JointPairs |-> 0]
  /\ lock = FALSE /\ moving = {} /\ marked = {}

\* World::makePhysical makes a body and its shapes, inside the world.
CreateBody(b, at) ==
  /\ Free /\ place[b] = Nowhere
  /\ \A s \in ToSet(ShapeList(b)) : InRange(Box(s, at))
  /\ place' = [place EXCEPT ![b] = at]
  /\ Is(MadeBody(Now, b, at, joints))
  /\ UNCHANGED <<frozen, joints, step>>

CreateJoint(b, c) ==
  /\ Free /\ b # c /\ {b, c} \in JointPairs /\ {b, c} \subseteq InWorld
  /\ joints[{b, c}] < MaxJoints
  /\ joints' = [joints EXCEPT ![{b, c}] = @ + 1]
  /\ Is(ResetFiltering(Now, b, c, joints'))
  /\ UNCHANGED <<bodystate, step>>

DestroyJoint(b, c) ==
  /\ Free /\ b # c /\ {b, c} \in JointPairs /\ joints[{b, c}] > 0
  /\ joints' = [joints EXCEPT ![{b, c}] = @ - 1]
  /\ Is(ResetFiltering(Now, b, c, joints'))
  /\ UNCHANGED <<bodystate, step>>

(***************************************************************************)
(* DestroyBody destroys the joints one by one, each with the filtering     *)
(* reset, before the proxies.  Which body is the first of a joint does not *)
(* matter to this body: an order is chosen.                                *)
(***************************************************************************)
WithoutJoint(r, b, c) ==
  LET j == [r.j EXCEPT ![{b, c}] = @ - 1]
  IN  [j |-> j, w |-> ResetFiltering(r.w, b, c, j)]

RECURSIVE WithoutJoints(_, _)
WithoutJoints(r, b) ==
  LET left == {c \in Bodies : ConnectedBy(r.j, b, c)}
  IN  IF left = {} THEN r
      ELSE WithoutJoints(WithoutJoint(r, b, CHOOSE c \in left : TRUE), b)

WithoutBody(r, b) == joints' = r.j /\ Is(Dropped(r.w, b, r.j))

DestroyBody(b) ==
  /\ ~lock /\ b \in InWorld /\ (marked = {} \/ b \in marked)
  /\ marked' = marked \ {b}
  /\ WithoutBody(WithoutJoints([j |-> joints, w |-> Now], b), b)
  /\ place' = [place EXCEPT ![b] = Nowhere]
  /\ frozen' = [frozen EXCEPT ![b] = FALSE]
  /\ UNCHANGED <<lock, moving>>

\* A body that does not fit is frozen and loses its proxies.
Freeze(w, b) ==
  Is(Dropped(w, b, joints)) /\ frozen' = [frozen EXCEPT ![b] = TRUE]

\* Thing::setPosition: without a Commit of its own when the body is frozen.
Placed(r, b) ==
  \/ r.ok /\ Is([r.w EXCEPT !.bp = Commit(@, Unwanted(joints))]) /\ UNCHANGED frozen
  \/ ~r.ok /\ Freeze(r.w, b)

SetXForm(b, at) ==
  /\ Free /\ b \in InWorld /\ ~frozen[b]
  /\ place' = [place EXCEPT ![b] = at]
  /\ Placed(Synchronized(Now, b, at, at), b)
  /\ UNCHANGED <<joints, step>>

-----------------------------------------------------------------------------
Awake == {b \in InWorld \ StaticBodies : ~frozen[b]}

Step ==
  /\ Free /\ lock' = TRUE /\ moving' = Awake
  /\ UNCHANGED <<bp, bodystate, proxy, joints, marked>>

\* PPBoundaryListener::Violation marks what was frozen.
Swung(r, b) ==
  \/ r.ok /\ Is(r.w) /\ UNCHANGED <<frozen, marked>>
  \/ ~r.ok /\ Freeze(r.w, b) /\ marked' = marked \cup {b}

\* SynchronizeShapes, with the way the body went.
Synchronize(b, to) ==
  /\ lock /\ b \in moving /\ moving' = moving \ {b}
  /\ place' = [place EXCEPT ![b] = to]
  /\ Swung(Synchronized(Now, b, place[b], to), b)
  /\ UNCHANGED <<joints, lock>>

\* The bodies left are asleep; a time of impact starts another round.
EndRound ==
  /\ lock
  /\ bp' = Commit(bp, Unwanted(joints))
  /\ \/ lock' = FALSE /\ moving' = {}
     \/ UNCHANGED lock /\ moving' = Awake
  /\ UNCHANGED <<bodystate, proxy, joints, marked>>

CNext ==
  \/ \E b \in Bodies, at \in Places : CreateBody(b, at) \/ SetXForm(b, at) \/ Synchronize(b, at)
  \/ \E b, c \in Bodies : CreateJoint(b, c) \/ DestroyJoint(b, c)
  \/ \E b \in Bodies : DestroyBody(b)
  \/ Step \/ EndRound

CSpec == CInit /\ [][CNext]_cvars

-----------------------------------------------------------------------------
\* The boxes of the shapes and the pairs b2ContactManager was told of.
ShapeBox == [s \in Shapes |-> IF proxy[s] = NullProxy THEN NoBox ELSE BoxOf(bp, proxy[s])]
Reported == {{bp.user[p] : p \in ids} : ids \in FinalPairs(bp.m)}
AllBoxes == {Bounds(Swept(s, from, to)) : s \in Shapes, from \in Places, to \in Places}

Abstract == INSTANCE Overlaps WITH box <- ShapeBox, reported <- Reported,
              Meet <- Overlap, Boxes <- AllBoxes

\* The broad phase keeps its promise in every step of the world.
OverlapsSpec == Abstract!OSpec

(***************************************************************************)
(* b2BroadPhase::Validate, with the asserts of IsValid: each axis is       *)
(* sorted, a proxy knows where its ends are, and an end is stabbed by as   *)
(* many boxes as it counts.  Valid also in the middle of a step.           *)
(***************************************************************************)
AxisValid(x) ==
  \A i \in DOMAIN x.bounds :
    LET b == x.bounds[i]
        ends(low) == {k \in 1..i : IsLower(x.bounds[k]) = low}
    IN  /\ i > 1 => x.bounds[i - 1].value <= b.value
        /\ IsValid(bp, b.id)
        /\ i = IF IsLower(b) THEN x.lower[b.id] ELSE x.upper[b.id]
        /\ b.stab = Cardinality(ends(TRUE)) - Cardinality(ends(FALSE))

AxesValid ==
  \A a \in Axes : /\ AxisValid(bp.axes[a])
                  /\ Len(bp.axes[a].bounds) = 2 * (NumProxies - Len(bp.free))

(***************************************************************************)
(* The chains of the hash table and the free list share the slots of       *)
(* m_pairs: no slot is lost or in two lists, a pair is in the chain of its *)
(* hash, once, and it is in the buffer exactly when it says so.            *)
(***************************************************************************)
TableSound ==
  LET m    == bp.m
      free == Links(m, m.free)
  IN  /\ IsInjective(free) /\ ToSet(free) = DOMAIN m.pairs \ InUse(m)
      /\ \A i \in InUse(m) : Find(m, m.pairs[i].ids) = i
      /\ IsInjective(m.buffer)
      /\ ToSet(m.buffer) = {m.pairs[i].ids : i \in {k \in InUse(m) : m.pairs[k].buffered}}

(***************************************************************************)
(* Between two steps a contact stands for each pair of overlapping boxes   *)
(* that may collide, whatever joints came and went, and for no other pair: *)
(* CreateJoint and DestroyJoint have to reset the filtering.               *)
(***************************************************************************)
ContactsCollide ==
  ~lock => bp.contacts = Abstract!Meeting(ShapeBox) \ Unwanted(joints)

(***************************************************************************)
(* Query finds each proxy whose box meets the one asked for, and finds it  *)
(* once, also after the time stamp wrapped around.  All that a query       *)
(* changes are the stamps, which CreateProxy and DestroyProxy change as    *)
(* well: World::getThingsAt is no action of its own.                       *)
(***************************************************************************)
QueryExact ==
  \A t \in Touches :
    LET box  == Bounds(t)
        hits == Query(bp, box).hits
    IN  IsInjective(hits)
        /\ ToSet(hits) = {p \in Proxies : IsValid(bp, p) /\ Overlap(box, BoxOf(bp, p))}

=============================================================================
