------------------------ MODULE PocketPhysics_proofs ------------------------
(***************************************************************************)
(* First class World by itself, for every set of things, sketches and      *)
(* capacity; then the program, which acts on the scene only through calls  *)
(* of class World and so inherits its invariant and the promises of Scene. *)
(***************************************************************************)
EXTENDS PocketPhysics, FiniteSetTheorems, TLAPS

(***************************************************************************)
(* Facts about the operators.                                              *)
(***************************************************************************)
LEMMA ThingKinds ==
  /\ Objects \cap Pins = {} /\ NULL \notin Things /\ BG \notin Things
  /\ NULL # BG /\ NULL \notin Joints
PROOF BY ConstantsAssumption

LEMMA MouseJointType ==
  ASSUME NEW o \in Objects
  PROVE  MouseJoint(o) \in Joints /\ MouseJoint(o) # NULL
PROOF BY ThingKinds DEF MouseJoint, Joints

\* What a pin with the things ts asks Box2D for is a joint.
LEMMA RevoluteJointType ==
  ASSUME NEW p \in Pins, NEW ts, ts[1] \in Objects, ts[2] \in Objects \cup {NULL}
  PROVE  RevoluteJoint(p, ts) \in Joints
PROOF BY DEF RevoluteJoint, Joints

LEMMA AttachType ==
  ASSUME NEW P \in SUBSET Pins, NEW e, NEW phys \in [Pins -> SUBSET Objects],
         NEW kept \in SUBSET Joints, NEW pointers \in SUBSET Pins,
         Attach(P, e, phys, kept, pointers), orphaned \in BOOLEAN
  PROVE  joints' \subseteq Joints /\ b2joint' \subseteq Pins /\ orphaned' \in BOOLEAN
<1>1. Attached(P, e, phys) \subseteq Pins
  BY DEF Attached
<1>2. ASSUME NEW p \in Attached(P, e, phys) PROVE RevoluteJoint(p, e[p]) \in Joints
  <2>1. p \in Pins /\ e[p][1] \in Objects /\ e[p][2] \in Objects \cup {NULL}
    BY DEF Attached
  <2>2. QED BY <2>1, RevoluteJointType
<1>3. QED BY <1>1, <1>2 DEF Attach

\* Where the loader puts the elements of a sketch.
LEMMA LoadedThings ==
  ASSUME NEW f, NEW a, Load(f, a)
  PROVE  /\ Len(f.elements) \in Nat /\ Len(f.elements) <= MAX_THINGS
         /\ \A i \in 1..Len(f.elements) :
              /\ a[i] \in Things /\ (a[i] \in Pins <=> f.elements[i].pin)
              /\ f.elements[i].type \in Types
              /\ f.elements[i].pinned[1] \in Nat /\ f.elements[i].pinned[2] \in Nat
              /\ IsElement(f.elements, i)
         /\ \A i, k \in 1..Len(f.elements) : a[i] = a[k] => i = k
<1>1. f \in Sketches
  BY DEF Load
<1>2. f.elements \in Seq(Element) /\ Len(f.elements) <= MAX_THINGS
  BY <1>1, ConstantsAssumption
<1>3. Len(f.elements) \in Nat
  BY <1>2
<1>4. ASSUME NEW i \in 1..Len(f.elements)
      PROVE  f.elements[i] \in Element
  BY <1>2, <1>3
<1>5. \A i \in 1..Len(f.elements) : IsElement(f.elements, i)
  BY <1>1, ConstantsAssumption
<1>6. /\ a \in [1..Len(f.elements) -> Things \ HeapAfterClear]
      /\ \A i, k \in 1..Len(f.elements) : i # k => a[i] # a[k]
      /\ \A i \in 1..Len(f.elements) : a[i] \in Pins <=> f.elements[i].pin
  BY DEF Load
<1>7. QED BY <1>2, <1>3, <1>4, <1>5, <1>6 DEF Element

Loaded(f, a) == {a[i] : i \in 1..Len(f.elements)}

\* The scene after a load: its array is ordered, a pin follows its things.
LEMMA LoadedScene ==
  ASSUME WTypeOK, NEW f, NEW a, Load(f, a)
  PROVE  /\ things' = Loaded(f, a) /\ things' \subseteq Things
         /\ before' \subseteq things' \X things'
         /\ \A t, u \in things' : t # u => (<<t, u>> \in before' <=> <<u, t>> \notin before')
         /\ type' \in [Objects -> Types]
         /\ pinned' \in [Pins -> (Objects \cup {NULL}) \X (Objects \cup {NULL})]
         /\ \A p \in Pins \ things' :
              pinned'[p] = IF p \in things THEN Unpinned ELSE pinned[p]
         /\ \A p \in Pins \cap things' :
              /\ pinned'[p][1] \in things' \cap Objects
              /\ <<pinned'[p][1], p>> \in before'
              /\ pinned'[p][2] # NULL => /\ pinned'[p][2] \in things' \cap Objects
                                         /\ <<pinned'[p][2], p>> \in before'
<1> DEFINE s == f.elements
           n == Len(s)
           New == Loaded(f, a)
           At(i) == IF i = 0 THEN NULL ELSE a[i]
           Pos(t) == CHOOSE i \in 1..n : a[i] = t
           e == [p \in Pins |->
                   IF p \in New THEN <<At(s[Pos(p)].pinned[1]), At(s[Pos(p)].pinned[2])>>
                   ELSE IF p \in things THEN Unpinned ELSE pinned[p]]
<1>1. /\ things' = New
      /\ before' = {tu \in New \X New : \E i, k \in 1..n : i < k /\ tu = <<a[i], a[k]>>}
      /\ type' = [o \in Objects |-> IF o \in New THEN s[Pos(o)].type
                                    ELSE IF o \in things THEN "Dynamic" ELSE type[o]]
      /\ pinned' = e
  BY DEF Load, Loaded
<1>2. n \in Nat /\ \A i, k \in 1..n : a[i] = a[k] => i = k
  BY LoadedThings
<1>3. \A t \in New : Pos(t) \in 1..n /\ a[Pos(t)] = t
  BY DEF Loaded
<1>4. New \subseteq Things
  BY LoadedThings DEF Loaded
<1>5. ASSUME NEW t \in New, NEW u \in New
      PROVE  <<t, u>> \in before' <=> Pos(t) < Pos(u)
  <2>1. before' = {tu \in New \X New : \E i, k \in 1..n : i < k /\ tu = <<a[i], a[k]>>}
    BY <1>1
  <2>2. Pos(t) \in 1..n /\ a[Pos(t)] = t /\ Pos(u) \in 1..n /\ a[Pos(u)] = u
    BY <1>3
  <2> HIDE DEF New, Pos, n
  <2>3. Pos(t) < Pos(u) => <<t, u>> \in before'
    BY <2>1, <2>2
  <2>4. ASSUME <<t, u>> \in before' PROVE Pos(t) < Pos(u)
    <3>1. PICK i, k \in 1..n : i < k /\ <<t, u>> = <<a[i], a[k]>>
      BY <2>1, <2>4
    <3>2. t = a[i] /\ u = a[k]
      BY <3>1
    <3>3. i = Pos(t) /\ k = Pos(u)
      BY <3>2, <2>2, <1>2
    <3>4. QED BY <3>1, <3>3
  <2>5. QED BY <2>3, <2>4
<1>6. \A t, u \in New : t # u => (<<t, u>> \in before' <=> <<u, t>> \notin before')
  <2> HIDE DEF New, Pos
  <2>1. QED BY <1>2, <1>3, <1>5
<1>7. type' \in [Objects -> Types]
  <2>1. \A o \in New : s[Pos(o)].type \in Types
    BY <1>3, LoadedThings
  <2> HIDE DEF New, Pos
  <2>2. QED BY <1>1, <2>1 DEF WTypeOK, Types
<1>8. ASSUME NEW p \in Pins \cap New
      PROVE  /\ e[p][1] \in New \cap Objects /\ <<e[p][1], p>> \in before'
             /\ e[p][2] \in (New \cap Objects) \cup {NULL}
             /\ e[p][2] # NULL => <<e[p][2], p>> \in before'
  <2> DEFINE i == Pos(p)
  <2>1. i \in 1..n /\ a[i] = p /\ IsElement(s, i) /\ s[i].pin
    BY <1>3, LoadedThings
  <2>2. e[p] = <<At(s[i].pinned[1]), At(s[i].pinned[2])>>
    OBVIOUS
  <2> HIDE DEF e, i, s, n, New, Pos
  <2>3. ASSUME NEW k \in 1..(i - 1), ~ s[k].pin
        PROVE  a[k] \in New \cap Objects /\ <<a[k], p>> \in before'
    <3>1. k \in 1..n /\ k < i
      BY <2>1, <1>2
    <3>2. a[k] \in New /\ a[k] \in Objects
      BY <3>1, <2>3, LoadedThings DEF New, Loaded, s, n, Things
    <3>3. QED BY <3>1, <3>2, <2>1, <1>1
  <2>4. QED BY <2>1, <2>2, <2>3 DEF IsElement
<1>9. pinned' \in [Pins -> (Objects \cup {NULL}) \X (Objects \cup {NULL})]
  <2>1. ASSUME NEW p \in Pins \cap New
        PROVE  e[p] \in (Objects \cup {NULL}) \X (Objects \cup {NULL})
    <3> DEFINE t1 == At(s[Pos(p)].pinned[1])
               t2 == At(s[Pos(p)].pinned[2])
    <3>1. e[p] = <<t1, t2>>
      OBVIOUS
    <3>2. e[p][1] \in Objects /\ e[p][2] \in Objects \cup {NULL}
      BY <1>8
    <3> HIDE DEF e, t1, t2, New
    <3>3. t1 \in Objects /\ t2 \in Objects \cup {NULL}
      BY <3>1, <3>2
    <3>4. QED BY <3>1, <3>3
  <2>2. \A p \in Pins \ New : e[p] \in (Objects \cup {NULL}) \X (Objects \cup {NULL})
    BY DEF WTypeOK, Unpinned
  <2>3. e = [p \in Pins |-> e[p]] /\ pinned' = e
    BY <1>1
  <2> HIDE DEF e, New
  <2>4. \A p \in Pins : e[p] \in (Objects \cup {NULL}) \X (Objects \cup {NULL})
    BY <2>1, <2>2
  <2>5. QED BY <2>3, <2>4
<1>10. \A p \in Pins \ New : e[p] = IF p \in things THEN Unpinned ELSE pinned[p]
  OBVIOUS
<1> HIDE DEF e, New
<1>11. QED BY <1>1, <1>4, <1>6, <1>7, <1>8, <1>9, <1>10 DEF New

-----------------------------------------------------------------------------
(***************************************************************************)
(* Type correctness.                                                       *)
(***************************************************************************)
LEMMA TypeInit == WInit => WTypeOK
<1> SUFFICES ASSUME WInit PROVE WTypeOK
  OBVIOUS
<1>1. type \in [Objects -> Types]
  BY DEF WInit, Types
<1>2. pinned \in [Pins -> (Objects \cup {NULL}) \X (Objects \cup {NULL})]
  BY DEF WInit, Unpinned
<1>3. QED BY <1>1, <1>2 DEF WInit, WTypeOK, Faults

LEMMA TypeStep ==
  ASSUME WTypeOK, [WNext]_wvars
  PROVE  WTypeOK'
<1> USE DEF WTypeOK
<1>1. ASSUME NEW t \in Things, NEW ty \in Types, Add(t, ty) PROVE WTypeOK'
  BY <1>1 DEF Add
<1>2. ASSUME NEW t \in Things, AddFull(t) PROVE WTypeOK'
  BY <1>2 DEF AddFull
<1>3. ASSUME NEW o \in Objects, MakePhysical(o) PROVE WTypeOK'
  BY <1>3 DEF MakePhysical, array
<1>4. ASSUME NEW p \in Pins, NEW t1 \in Objects, NEW t2 \in Objects \cup {NULL}, Pin(p, t1, t2)
      PROVE  WTypeOK'
  <2> DEFINE e == [pinned EXCEPT ![p] = <<t1, t2>>]
             phys == [q \in Pins |-> b2body]
  <2>1. e \in [Pins -> (Objects \cup {NULL}) \X (Objects \cup {NULL})]
    OBVIOUS
  <2>2. phys \in [Pins -> SUBSET Objects]
    OBVIOUS
  <2>3. pinned' = e /\ Attach({p}, e, phys, joints, b2joint)
    BY <1>4 DEF Pin
  <2> HIDE DEF e, phys
  <2>4. joints' \subseteq Joints /\ b2joint' \subseteq Pins /\ orphaned' \in BOOLEAN
    BY <2>2, <2>3, AttachType
  <2>5. QED BY <1>4, <2>1, <2>3, <2>4 DEF Pin
<1>5. ASSUME NEW o \in Objects, Grab(o) PROVE WTypeOK'
  BY <1>5, MouseJointType DEF Grab, array
<1>6. CASE Drag
  BY <1>6 DEF Drag, array, Faults
<1>7. CASE LetGo
  BY <1>7 DEF LetGo, array, Faults
<1>8. ASSUME NEW M \in SUBSET Objects, Step(M) PROVE WTypeOK'
  BY <1>8 DEF Step, array, JointsWithout, PointersWithout, Goodbye, Faults, Things
<1>9. ASSUME NEW F \in SUBSET Objects, Reset(F) PROVE WTypeOK'
  <2> DEFINE P == things \cap Pins
  <2>1. Rebuilt(F) \in [Pins -> SUBSET Objects]
    BY DEF Rebuilt
  <2>2. Attach(P, pinned, Rebuilt(F), {}, b2joint \ P)
    BY <1>9 DEF Reset
  <2>3. P \in SUBSET Pins /\ {} \in SUBSET Joints /\ b2joint \ P \in SUBSET Pins
    OBVIOUS
  <2> HIDE DEF P
  <2>4. joints' \subseteq Joints /\ b2joint' \subseteq Pins /\ orphaned' \in BOOLEAN
    BY <2>1, <2>2, <2>3, AttachType
  <2>5. fault' \in Faults
    BY <1>9 DEF Reset, Faults
  <2>6. QED BY <1>9, <2>4, <2>5 DEF Reset, array
<1>10. ASSUME NEW P \in SUBSET Pins, Repin(P) PROVE WTypeOK'
  <2> DEFINE phys == [p \in Pins |-> b2body]
  <2>1. phys \in [Pins -> SUBSET Objects]
    OBVIOUS
  <2>2. Attach(P, pinned, phys, JointsWithout(P), PointersWithout(P))
    BY <1>10 DEF Repin
  <2> HIDE DEF phys
  <2>3. JointsWithout(P) \subseteq Joints /\ PointersWithout(P) \subseteq Pins
    BY DEF JointsWithout, PointersWithout
  <2>4. joints' \subseteq Joints /\ b2joint' \subseteq Pins /\ orphaned' \in BOOLEAN
    BY <2>1, <2>2, <2>3, AttachType
  <2>5. fault' \in Faults
    BY <1>10 DEF Repin, Faults
  <2>6. QED BY <1>10, <2>4, <2>5 DEF Repin, array
<1>11. ASSUME NEW t \in Things, Discard(t) PROVE WTypeOK'
  <2>1. /\ type' \in [Objects -> Types]
        /\ pinned' \in [Pins -> (Objects \cup {NULL}) \X (Objects \cup {NULL})]
    BY <1>11 DEF Discard, Forget, Unpinned, Types
  <2>2. joints' \subseteq Joints /\ b2joint' \subseteq Pins /\ fault' \in Faults
    BY <1>11 DEF Discard, JointsWithout, PointersWithout, Goodbye, Faults
  <2>3. heap' \subseteq Things /\ things' \subseteq heap'
    BY <1>11 DEF Discard
  <2>4. QED BY <1>11, <2>1, <2>2, <2>3 DEF Discard
<1>12. CASE Zap
  BY <1>12 DEF Zap, HeapAfterClear, Forget, Unpinned, Types
<1>13. ASSUME NEW f \in Sketches, NEW a \in [1..Len(f.elements) -> Things], Load(f, a)
       PROVE  WTypeOK'
  <2> DEFINE New == Loaded(f, a)
             phys == [p \in Pins |-> New \cap Objects]
  <2>1. phys \in [Pins -> SUBSET Objects] /\ New \cap Pins \in SUBSET Pins
    OBVIOUS
  <2>2. JointsWithout(things) \subseteq Joints /\ PointersWithout(things) \subseteq Pins
    BY DEF JointsWithout, PointersWithout
  <2>3. Attach(New \cap Pins, pinned', phys, JointsWithout(things), PointersWithout(things))
    BY <1>13 DEF Load, Loaded
  <2> HIDE DEF phys
  <2>4. joints' \subseteq Joints /\ b2joint' \subseteq Pins /\ orphaned' \in BOOLEAN
    BY <2>1, <2>2, <2>3, AttachType
  <2>5. /\ heap' = HeapAfterClear \cup New /\ things' = New
        /\ b2body' = (b2body \ things) \cup (New \cap Objects)
        /\ bodies' = (bodies \ things) \cup (New \cap Objects)
        /\ invisible' \subseteq invisible \cup New /\ mouse_joint' = mouse_joint
    BY <1>13 DEF Load, Loaded
  <2>6. fault' \in Faults
    BY <1>13 DEF Load, Faults
  <2>7. heap' \subseteq Things
    BY <2>5, <1>13, LoadedScene DEF HeapAfterClear
  <2>8. QED BY <1>13, <2>4, <2>5, <2>6, <2>7, LoadedScene
<1>14. CASE Halted
  BY <1>14 DEF Halted, wvars
<1>15. CASE UNCHANGED wvars
  BY <1>15 DEF wvars
<1>16. QED
  BY <1>1, <1>2, <1>3, <1>4, <1>5, <1>6, <1>7, <1>8, <1>9, <1>10, <1>11, <1>12,
     <1>13, <1>14, <1>15 DEF WNext

\* The pointers, tables and joints of the scene always have the types above.
THEOREM WorldTypeCorrect == WSpec => []WTypeOK
<1>1. QED BY TypeInit, TypeStep, PTL DEF WSpec

-----------------------------------------------------------------------------
(***************************************************************************)
(* The invariant.                                                          *)
(***************************************************************************)
\* The joints of a body or pin that is made unphysical go, all others stay
\* together with the pointers to them.
LEMMA UnphysicalJoints ==
  ASSUME WTypeOK, JointOwner, BodyOwner, NEW S
  PROVE  /\ \A j \in JointsWithout(S) :
              /\ j \in joints
              /\ j.body1 \notin S \cap b2body /\ j.body2 \notin S \cap b2body
              /\ j.user # NULL => j.user \in PointersWithout(S)
         /\ \A p \in PointersWithout(S) :
              /\ p \in b2joint /\ p \notin S
              /\ RevoluteJoint(p, pinned[p]) \in JointsWithout(S)
         /\ \A p \in b2joint \ S :
              pinned[p][1] \notin S /\ pinned[p][2] \notin S => p \in PointersWithout(S)
<1>1. \A p \in b2joint : RevoluteJoint(p, pinned[p]) \in joints /\ p # NULL
  BY ThingKinds DEF JointOwner, WTypeOK, Things
<1>2. \A j \in joints : j.user # NULL => j.user \in b2joint /\ j = RevoluteJoint(j.user, pinned[j.user])
  BY DEF JointOwner
<1>3. \A p \in b2joint : RevoluteJoint(p, pinned[p]).user = p
  BY DEF RevoluteJoint
<1>4. ASSUME NEW p \in b2joint
      PROVE  p \in PointersWithout(S) <=> p \notin S /\ RevoluteJoint(p, pinned[p]) \notin Gone(S)
  <2>1. \A j \in Gone(S) : j \in joints
    BY DEF Gone
  <2>2. (\E j \in Gone(S) : j.user = p) <=> RevoluteJoint(p, pinned[p]) \in Gone(S)
    BY <1>1, <1>2, <1>3, <2>1
  <2>3. QED BY <2>2 DEF PointersWithout
<1>5. ASSUME NEW p \in b2joint \ S, pinned[p][1] \notin S, pinned[p][2] \notin S
      PROVE  RevoluteJoint(p, pinned[p]) \notin Gone(S)
  <2>1. BG \notin b2body
    BY ThingKinds DEF WTypeOK, Things
  <2>2. QED BY <1>5, <2>1 DEF Gone, RevoluteJoint
<1>6. ASSUME NEW j \in JointsWithout(S), j.user # NULL
      PROVE  j.user \in PointersWithout(S)
  <2>1. j \in joints /\ j \notin Gone(S)
    BY DEF JointsWithout
  <2>2. j.user \in b2joint /\ j.user \notin S /\ j = RevoluteJoint(j.user, pinned[j.user])
    BY <2>1, <1>2, <1>6 DEF Gone
  <2>3. QED BY <2>1, <2>2, <1>4
<1>7. \A p \in PointersWithout(S) : p \in b2joint
  BY DEF PointersWithout
<1>8. QED BY <1>1, <1>4, <1>5, <1>6, <1>7 DEF JointsWithout, Gone

\* What the invariant says of the pins, attached or not.
LEMMA PinFacts ==
  ASSUME WTypeOK, PinnedPrecede, JointOwner, BodyOwner
  PROVE  /\ NULL \notin b2body /\ BG \notin b2body
         /\ \A p \in Pins \ things : pinned[p] = Unpinned
         /\ \A p \in b2joint : /\ p \in things \cap Pins /\ p # NULL
                              /\ pinned[p][1] \in b2body
<1>1. NULL \notin b2body /\ BG \notin b2body
  BY ThingKinds DEF WTypeOK, Things
<1>2. ASSUME NEW p \in Pins \ things PROVE pinned[p] = Unpinned
  <2>1. pinned[p][1] = NULL /\ pinned[p][2] = NULL
    BY DEF PinnedPrecede
  <2>2. pinned[p] \in (Objects \cup {NULL}) \X (Objects \cup {NULL})
    BY DEF WTypeOK
  <2>3. QED BY <2>1, <2>2 DEF Unpinned
<1>3. ASSUME NEW p \in b2joint
      PROVE  p \in things \cap Pins /\ p # NULL /\ pinned[p][1] \in b2body
  <2> DEFINE r == RevoluteJoint(p, pinned[p])
  <2>1. r.user = p /\ r.body1 = pinned[p][1]
    BY DEF RevoluteJoint
  <2>2. p \in Pins /\ p # NULL /\ r \in joints
    BY ThingKinds DEF WTypeOK, JointOwner, Things
  <2>3. pinned[p][1] # BG
    BY <2>2, ThingKinds DEF WTypeOK, Things
  <2> HIDE DEF r
  <2>4. p \in things /\ pinned[p][1] \in bodies \cup {BG}
    BY <2>1, <2>2 DEF JointOwner
  <2>5. QED BY <2>2, <2>3, <2>4 DEF BodyOwner
<1>4. QED BY <1>1, <1>2, <1>3

\* Without a drag joint nothing is left once every thing was made unphysical.
LEMMA NoJointsLeft ==
  ASSUME WTypeOK, PinnedPrecede, JointOwner, BodyOwner, OneMouseJoint, mouse_joint = NULL
  PROVE  JointsWithout(things) = {} /\ PointersWithout(things) = {} /\ b2joint \ things = {}
<1>1. b2joint \ things = {}
  BY PinFacts
<1>2. PointersWithout(things) = {}
  BY <1>1 DEF PointersWithout
<1>3. \A j \in joints : j # NULL
  BY ThingKinds DEF WTypeOK
<1>4. \A j \in joints : j.user \in things \cap b2joint
  BY <1>3 DEF OneMouseJoint, JointOwner
<1>5. QED BY <1>1, <1>2, <1>4 DEF JointsWithout, Gone

LEMMA InvInit == WInit => WInv
<1> SUFFICES ASSUME WInit PROVE WInv
  OBVIOUS
<1>1. Capacity
  BY FS_EmptySet, ConstantsAssumption DEF WInit, Capacity
<1>2. PinnedPrecede
  BY DEF WInit, PinnedPrecede, Unpinned
<1>3. QED
  BY <1>1, <1>2, TypeInit
     DEF WInit, WInv, BodyOwner, JointOwner, OneMouseJoint, PinHolds

LEMMA InvStep ==
  ASSUME WInv, [WNext]_wvars
  PROVE  WInv'
<1> USE DEF WInv
<1>0. WTypeOK'
  BY TypeStep
<1>1. ASSUME NEW t \in Things, NEW ty \in Types, Add(t, ty) PROVE WInv'
  <2>1. Capacity'
    <3>1. things' = things \cup {t} /\ IsFiniteSet(things) /\ Cardinality(things) # MAX_THINGS
      BY <1>1 DEF Add, Capacity
    <3>2. IsFiniteSet(things') /\ Cardinality(things') \in {Cardinality(things), Cardinality(things) + 1}
      BY <3>1, FS_AddElement
    <3>3. Cardinality(things) \in Nat
      BY <3>1, FS_CardinalityType
    <3>4. Cardinality(things) <= MAX_THINGS /\ MAX_THINGS \in Nat
      BY ConstantsAssumption DEF Capacity
    <3>5. QED BY <3>1, <3>2, <3>3, <3>4 DEF Capacity
  <2>2. PinnedPrecede'
    BY <1>1 DEF Add, PinnedPrecede
  <2>3. QED BY <1>0, <1>1, <2>1, <2>2 DEF Add, BodyOwner, JointOwner, OneMouseJoint, PinHolds, Running
<1>2. ASSUME NEW t \in Things, AddFull(t) PROVE WInv'
  BY <1>0, <1>2 DEF AddFull, Capacity, BodyOwner, PinnedPrecede, JointOwner, OneMouseJoint, PinHolds, Running
<1>3. ASSUME NEW o \in Objects, MakePhysical(o) PROVE WInv'
  <2>1. PinHolds'
    <3>1. \A p \in Pins : pinned[p][1] # o /\ pinned[p][2] # o
      <4>1. \A p \in Pins \ things : pinned[p][1] = NULL /\ pinned[p][2] = NULL
        BY PinFacts DEF Unpinned
      <4>2. QED BY <1>3, <4>1, ThingKinds DEF MakePhysical, PinsOn, Things
    <3>2. QED BY <1>3, <3>1 DEF MakePhysical, array, PinHolds, Running
  <2>2. QED BY <1>0, <1>3, <2>1
            DEF MakePhysical, array, Capacity, BodyOwner, PinnedPrecede, JointOwner, OneMouseJoint
<1>4. ASSUME NEW p \in Pins, NEW t1 \in Objects, NEW t2 \in Objects \cup {NULL}, Pin(p, t1, t2)
      PROVE  WInv'
  <2> DEFINE r == RevoluteJoint(p, pinned'[p])
  <2>1. /\ pinned' = [pinned EXCEPT ![p] = <<t1, t2>>]
        /\ pinned[p] = Unpinned /\ t1 \in b2body /\ t2 \in b2body \cup {NULL}
        /\ p \in things /\ \A t \in {t1, t2} \ {NULL} : <<t, p>> \in before
    BY <1>4 DEF Pin
  <2>2. pinned'[p] = <<t1, t2>> /\ \A q \in Pins \ {p} : pinned'[q] = pinned[q]
    BY <2>1 DEF WTypeOK
  <2>3. p \notin b2joint
    <3>1. pinned[p][1] = NULL
      BY <2>1 DEF Unpinned
    <3>2. QED BY <3>1, PinFacts
  <2>4. joints' = joints \cup {r} /\ b2joint' = b2joint \cup {p} /\ orphaned' = orphaned
    <3> DEFINE phys == [q \in Pins |-> b2body]
    <3>1. Attach({p}, pinned', phys, joints, b2joint)
      BY <1>4 DEF Pin
    <3>2. Attached({p}, pinned', phys) = {p}
      BY <2>1, <2>2 DEF Attached
    <3> HIDE DEF phys
    <3>3. {RevoluteJoint(q, pinned'[q]) : q \in {p}} = {r}
      OBVIOUS
    <3>4. joints' = joints \cup {r} /\ b2joint' = b2joint \cup {p}
      BY <3>1, <3>2, <3>3 DEF Attach
    <3>5. orphaned' = orphaned
      <4>1. b2joint \cap {p} = {} /\ orphaned \in BOOLEAN
        BY <2>3 DEF WTypeOK
      <4>2. orphaned' = (orphaned \/ b2joint \cap {p} # {})
        BY <3>1, <3>2 DEF Attach
      <4>3. QED BY <4>1, <4>2
    <3>6. QED BY <3>4, <3>5
  <2>5. PinnedPrecede'
    <3>1. things' = things /\ before' = before /\ b2body \subseteq things
      BY <1>4 DEF Pin, BodyOwner
    <3>2. \A u \in {t1, t2} \ {NULL} : u \in things' /\ <<u, p>> \in before'
      BY <2>1, <3>1
    <3>3. pinned'[p][1] = t1 /\ pinned'[p][2] = t2 /\ p \in things'
      BY <2>1, <2>2, <3>1
    <3>4. ASSUME NEW q \in Pins, NEW u \in {pinned'[q][1], pinned'[q][2]} \ {NULL}
          PROVE  q \in things' /\ u \in things' /\ <<u, q>> \in before'
      <4>1. CASE q = p
        BY <3>2, <3>3, <4>1
      <4>2. CASE q # p
        BY <2>2, <3>1, <4>2 DEF PinnedPrecede
      <4>3. QED BY <4>1, <4>2
    <3>5. \A q \in Pins : pinned'[q][1] = NULL => pinned'[q][2] = NULL
      BY <2>1, <2>2, <3>3, ThingKinds DEF PinnedPrecede, Things
    <3>6. QED BY <3>4, <3>5 DEF PinnedPrecede
  <2>6. JointOwner'
    BY <1>4, <2>1, <2>2, <2>3, <2>4, ThingKinds DEF Pin, JointOwner, RevoluteJoint, BodyOwner
  <2>7. OneMouseJoint'
    BY <1>4, <2>4, ThingKinds DEF Pin, OneMouseJoint, RevoluteJoint, Things
  <2>8. PinHolds'
    BY <1>4, <2>2, <2>4 DEF Pin, PinHolds, Running
  <2>9. QED BY <1>0, <1>4, <2>5, <2>6, <2>7, <2>8 DEF Pin, Capacity, BodyOwner
<1>5. ASSUME NEW o \in Objects, Grab(o) PROVE WInv'
  <2>1. JointOwner'
    BY <1>5, ThingKinds DEF Grab, array, JointOwner, MouseJoint, BodyOwner
  <2>2. OneMouseJoint'
    BY <1>5, ThingKinds DEF Grab, OneMouseJoint, WTypeOK
  <2>3. QED BY <1>0, <1>5, <2>1, <2>2
            DEF Grab, array, Capacity, BodyOwner, PinnedPrecede, PinHolds, Running
<1>6. CASE Drag
  BY <1>0, <1>6 DEF Drag, array, Capacity, BodyOwner, PinnedPrecede, JointOwner, OneMouseJoint, PinHolds, Running
<1>7. CASE LetGo
  <2>1. \A p \in Pins : RevoluteJoint(p, pinned[p]) # mouse_joint
    <3>1. mouse_joint \in {MouseJoint(o) : o \in Objects}
      BY <1>7 DEF LetGo, WTypeOK
    <3>2. mouse_joint.user = NULL
      BY <3>1 DEF MouseJoint
    <3>3. \A p \in Pins : RevoluteJoint(p, pinned[p]).user # NULL
      BY ThingKinds DEF RevoluteJoint, Things
    <3>4. QED BY <3>2, <3>3
  <2>2. JointOwner'
    BY <1>7, <2>1 DEF LetGo, array, JointOwner, WTypeOK
  <2>3. OneMouseJoint'
    BY <1>7 DEF LetGo, OneMouseJoint
  <2>4. QED BY <1>0, <1>7, <2>2, <2>3
            DEF LetGo, array, Capacity, BodyOwner, PinnedPrecede, PinHolds, Running
<1>8. ASSUME NEW M \in SUBSET Objects, Step(M) PROVE WInv'
  <2>1. JointOwner'
    BY <1>8, UnphysicalJoints DEF Step, array, JointOwner, BodyOwner
  <2>2. OneMouseJoint'
    BY <1>8, UnphysicalJoints DEF Step, OneMouseJoint
  <2>3. PinHolds'
    BY <1>8, UnphysicalJoints, ThingKinds DEF Step, array, PinHolds, Running, WTypeOK, Things
  <2>4. QED BY <1>0, <1>8, <2>1, <2>2, <2>3 DEF Step, array, Capacity, BodyOwner, PinnedPrecede
<1>9. ASSUME NEW F \in SUBSET Objects, Reset(F) PROVE WInv'
  <2> DEFINE P == things \cap Pins
             A == Attached(P, pinned, Rebuilt(F))
  <2>1. b2joint \ P = {}
    BY PinFacts
  <2>2. joints' = {RevoluteJoint(p, pinned[p]) : p \in A} /\ b2joint' = A /\ orphaned' = orphaned
    <3>1. Attach(P, pinned, Rebuilt(F), {}, b2joint \ P)
      BY <1>9 DEF Reset
    <3> HIDE DEF P
    <3>2. QED BY <2>1, <3>1 DEF Attach, WTypeOK
  <2>3. ASSUME NEW p \in A
        PROVE  /\ p \in P /\ pinned[p][1] \in bodies' /\ pinned[p][2] \in bodies' \cup {NULL}
               /\ RevoluteJoint(p, pinned[p]).user = p
               /\ RevoluteJoint(p, pinned[p]).body1 \in bodies'
               /\ RevoluteJoint(p, pinned[p]).body2 \in bodies' \cup {BG}
    BY <1>9 DEF Reset, Attached, Rebuilt, RevoluteJoint
  <2>4. JointOwner'
    <3> HIDE DEF A
    <3>1. ~ orphaned' /\ pinned' = pinned /\ things' = things
      BY <1>9, <2>2 DEF Reset, array, JointOwner
    <3>2. QED BY <2>2, <2>3, <3>1 DEF JointOwner
  <2>5. OneMouseJoint'
    <3>1. \A p \in A : p # NULL
      BY <2>3, ThingKinds DEF Things
    <3> HIDE DEF A
    <3>2. QED BY <2>2, <2>3, <3>1 DEF OneMouseJoint
  <2>6. PinHolds'
    <3>1. b2body' = (things \cap Objects) \ F /\ pinned' = pinned
      BY <1>9 DEF Reset, array
    <3>2. ASSUME NEW p \in Pins, pinned[p][1] \in b2body', pinned[p][2] \in b2body' \cup {NULL}
          PROVE  p \in A
      <4>1. pinned[p][1] # NULL
        BY <3>1, <3>2, ThingKinds DEF Things
      <4>2. p \in P /\ pinned[p][1] \in Rebuilt(F)[p] /\ pinned[p][2] \in Rebuilt(F)[p] \cup {NULL}
        BY <3>1, <3>2, <4>1 DEF PinnedPrecede, Rebuilt
      <4>3. QED BY <4>2 DEF Attached
    <3> HIDE DEF A
    <3>3. QED BY <2>2, <3>1, <3>2 DEF PinHolds
  <2>7. QED BY <1>0, <1>9, <2>4, <2>5, <2>6 DEF Reset, array, Capacity, BodyOwner, PinnedPrecede
<1>10. ASSUME NEW P \in SUBSET Pins, Repin(P) PROVE WInv'
  <2> DEFINE phys == [p \in Pins |-> b2body]
             A == Attached(P, pinned, phys)
  <2>1. P \cap b2body = {}
    BY ThingKinds DEF WTypeOK
  <2>2. PointersWithout(P) \cap P = {} /\ A \subseteq P /\ P \subseteq things
    BY <1>10 DEF PointersWithout, Attached, Repin
  <2>3. /\ joints' = JointsWithout(P) \cup {RevoluteJoint(p, pinned[p]) : p \in A}
        /\ b2joint' = PointersWithout(P) \cup A /\ orphaned' = orphaned
    <3>1. Attach(P, pinned, phys, JointsWithout(P), PointersWithout(P))
      BY <1>10 DEF Repin
    <3>2. PointersWithout(P) \cap A = {}
      BY <2>2
    <3> HIDE DEF phys
    <3>3. QED BY <3>1, <3>2 DEF Attach, WTypeOK
  <2>4. \A p \in P : p \in A <=> pinned[p][1] \in b2body /\ pinned[p][2] \in b2body \cup {NULL}
    BY DEF Attached
  <2>5. ASSUME NEW p \in A
        PROVE  /\ p \in things /\ p # NULL
               /\ RevoluteJoint(p, pinned[p]).user = p
               /\ RevoluteJoint(p, pinned[p]).body1 \in b2body
               /\ RevoluteJoint(p, pinned[p]).body2 \in b2body \cup {BG}
    BY <2>2, <2>4, ThingKinds DEF RevoluteJoint, Things
  <2> HIDE DEF A, phys
  <2>6. JointOwner'
    <3>1. /\ ~ orphaned' /\ pinned' = pinned /\ things' = things
          /\ bodies' = bodies /\ bodies = b2body
      BY <1>10, <2>3 DEF Repin, array, JointOwner, BodyOwner
    <3>2. QED BY <2>3, <2>5, <3>1, UnphysicalJoints DEF JointOwner
  <2>7. OneMouseJoint'
    <3>1. \A j \in JointsWithout(P) : j \in joints
      BY DEF JointsWithout
    <3>2. mouse_joint' = mouse_joint
      BY <1>10 DEF Repin
    <3>3. QED BY <2>3, <2>5, <3>1, <3>2 DEF OneMouseJoint
  <2>8. PinHolds'
    <3>1. \A p \in Pins : pinned[p][1] \notin P /\ pinned[p][2] \notin P
      BY ThingKinds DEF WTypeOK, Things
    <3>2. QED BY <1>10, <2>3, <2>4, <3>1, UnphysicalJoints DEF Repin, array, PinHolds, Running
  <2>9. QED BY <1>0, <1>10, <2>6, <2>7, <2>8 DEF Repin, array, Capacity, BodyOwner, PinnedPrecede
<1>11. ASSUME NEW t \in Things, Discard(t) PROVE WInv'
  <2> DEFINE D == {t} \cup PinsOn({t})
  <2>1. /\ things' = things \ D /\ b2body' = b2body \ D /\ bodies' = bodies \ D
        /\ joints' = JointsWithout(D) /\ b2joint' = PointersWithout(D)
        /\ before' = {e \in before : e[1] \notin D /\ e[2] \notin D}
        /\ pinned' = [p \in Pins |-> IF p \in D THEN Unpinned ELSE pinned[p]]
        /\ mouse_joint' = mouse_joint /\ orphaned' = orphaned /\ Running
    BY <1>11 DEF Discard, Forget
  <2>2. \A p \in Pins \ D : /\ pinned'[p] = pinned[p]
                            /\ pinned[p][1] \notin D /\ pinned[p][2] \notin D
    <3>1. ASSUME NEW p \in Pins \ D PROVE pinned[p][1] # t /\ pinned[p][2] # t
      <4>1. CASE p \in things
        BY <4>1 DEF PinsOn
      <4>2. CASE p \notin things
        BY <4>2, PinFacts, ThingKinds DEF Unpinned
      <4>3. QED BY <4>1, <4>2
    <3>2. PinsOn({t}) \subseteq Pins
      BY DEF PinsOn
    <3>3. \A p \in Pins \ D : pinned[p][1] \notin Pins /\ pinned[p][2] \notin Pins
      BY ThingKinds DEF WTypeOK, Things
    <3>4. QED BY <2>1, <3>1, <3>2, <3>3
  <2> HIDE DEF D
  <2>3. Capacity'
    BY <2>1, FS_Subset, FS_CardinalityType, ConstantsAssumption DEF Capacity
  <2>4. PinnedPrecede'
    <3>1. \A p \in Pins \cap D : pinned'[p][1] = NULL /\ pinned'[p][2] = NULL
      BY <2>1 DEF Unpinned
    <3>2. ASSUME NEW p \in Pins \ D, NEW u \in {pinned[p][1], pinned[p][2]} \ {NULL}
          PROVE  p \in things' /\ u \in things' /\ <<u, p>> \in before'
      <4>1. p \in things /\ u \in things /\ <<u, p>> \in before
        BY DEF PinnedPrecede
      <4>2. u \notin D /\ p \notin D
        BY <2>2
      <4>3. QED BY <2>1, <4>1, <4>2
    <3>3. QED BY <2>2, <3>1, <3>2 DEF PinnedPrecede
  <2>5. JointOwner'
    <3>1. \A j \in JointsWithout(D) : j.user # NULL => j.user \in Pins \ D
      BY UnphysicalJoints DEF WTypeOK
    <3>2. QED BY <2>1, <2>2, <3>1, UnphysicalJoints DEF JointOwner, BodyOwner, WTypeOK
  <2>6. OneMouseJoint'
    BY <2>1, UnphysicalJoints DEF OneMouseJoint
  <2>7. PinHolds'
    <3>1. \A p \in Pins \cap D : pinned'[p][1] = NULL
      BY <2>1 DEF Unpinned
    <3>2. QED BY <2>1, <2>2, <3>1, UnphysicalJoints, ThingKinds DEF PinHolds, WTypeOK, Things
  <2>8. QED BY <1>0, <2>1, <2>3, <2>4, <2>5, <2>6, <2>7 DEF BodyOwner
<1>12. CASE Zap
  <2>1. Capacity'
    BY <1>12, FS_EmptySet, ConstantsAssumption DEF Zap, Capacity
  <2>2. \A p \in Pins : pinned'[p] = Unpinned
    <3>1. \A p \in Pins \ things : pinned[p] = Unpinned
      BY PinFacts
    <3>2. QED BY <1>12, <3>1 DEF Zap, Forget
  <2>3. b2body' = {} /\ b2joint' = {}
    BY <1>12, PinFacts DEF Zap, BodyOwner
  <2>4. QED BY <1>0, <1>12, <2>1, <2>2, <2>3
            DEF Zap, BodyOwner, PinnedPrecede, JointOwner, OneMouseJoint, PinHolds, Unpinned
<1>13. ASSUME NEW f \in Sketches, NEW a \in [1..Len(f.elements) -> Things], Load(f, a)
       PROVE  WInv'
  <2> DEFINE New == Loaded(f, a)
             O == New \cap Objects
             phys == [p \in Pins |-> O]
             A == Attached(New \cap Pins, pinned', phys)
  <2>1. /\ things' = New /\ mouse_joint = NULL /\ mouse_joint' = NULL
        /\ b2body' = (b2body \ things) \cup O /\ bodies' = (bodies \ things) \cup O
        /\ Attach(New \cap Pins, pinned', phys, JointsWithout(things), PointersWithout(things))
    BY <1>13 DEF Load, Loaded
  <2>2. b2body' = O /\ bodies' = O
    BY <2>1 DEF BodyOwner
  <2>3. JointsWithout(things) = {} /\ PointersWithout(things) = {}
    BY <2>1, NoJointsLeft
  <2>4. joints' = {RevoluteJoint(p, pinned'[p]) : p \in A} /\ b2joint' = A /\ orphaned' = orphaned
    <3> HIDE DEF phys, New
    <3>1. QED BY <2>1, <2>3 DEF Attach, WTypeOK
  <2>5. /\ \A p \in Pins \ New : pinned'[p][1] = NULL /\ pinned'[p][2] = NULL
        /\ \A p \in Pins \cap New :
             /\ pinned'[p][1] \in O /\ <<pinned'[p][1], p>> \in before'
             /\ pinned'[p][2] # NULL => pinned'[p][2] \in O /\ <<pinned'[p][2], p>> \in before'
    <3>1. \A p \in Pins \ New : pinned'[p] = Unpinned
      BY <1>13, <2>1, LoadedScene, PinFacts
    <3>2. \A p \in Pins \ New : pinned'[p][1] = NULL /\ pinned'[p][2] = NULL
      BY <3>1 DEF Unpinned
    <3> HIDE DEF New
    <3>3. \A p \in Pins \cap New :
            /\ pinned'[p][1] \in New \cap Objects /\ <<pinned'[p][1], p>> \in before'
            /\ pinned'[p][2] # NULL => /\ pinned'[p][2] \in New \cap Objects
                                       /\ <<pinned'[p][2], p>> \in before'
      BY <1>13, <2>1, LoadedScene
    <3>4. QED BY <3>2, <3>3
  <2>6. A = New \cap Pins
    BY <2>5 DEF Attached
  <2>7. ASSUME NEW p \in A
        PROVE  /\ p \in New /\ p # NULL
               /\ RevoluteJoint(p, pinned'[p]).user = p
               /\ RevoluteJoint(p, pinned'[p]).body1 \in O
               /\ RevoluteJoint(p, pinned'[p]).body2 \in O \cup {BG}
    BY <2>5, <2>6, ThingKinds DEF RevoluteJoint, Things
  <2>8. Capacity'
    <3> DEFINE n == Len(f.elements)
    <3>1. n \in Nat /\ n <= MAX_THINGS
      BY <1>13, LoadedThings
    <3>2. IsFiniteSet(1..n) /\ Cardinality(1..n) = n
      BY <3>1, FS_Interval
    <3>3. a \in Surjection(1..n, New)
      BY DEF Surjection, Loaded
    <3>4. IsFiniteSet(New) /\ Cardinality(New) <= Cardinality(1..n)
      BY <3>2, <3>3, FS_Surjection
    <3>5. QED BY <2>1, <3>1, <3>2, <3>4, FS_CardinalityType, ConstantsAssumption DEF Capacity
  <2> HIDE DEF A, O, New, phys
  <2>9. PinnedPrecede'
    BY <2>1, <2>5, ThingKinds DEF PinnedPrecede, O, Things
  <2>10. JointOwner'
    BY <2>1, <2>2, <2>4, <2>7 DEF JointOwner
  <2>11. OneMouseJoint'
    BY <2>4, <2>7 DEF OneMouseJoint
  <2>12. PinHolds'
    BY <2>2, <2>4, <2>5, <2>6, ThingKinds DEF PinHolds, O, Things
  <2>13. QED BY <1>0, <2>1, <2>2, <2>8, <2>9, <2>10, <2>11, <2>12 DEF BodyOwner, O
<1>14. CASE Halted
  BY <1>0, <1>14 DEF Halted, wvars, Capacity, BodyOwner, PinnedPrecede, JointOwner, OneMouseJoint, PinHolds, Running
<1>15. CASE UNCHANGED wvars
  BY <1>0, <1>15 DEF wvars, Capacity, BodyOwner, PinnedPrecede, JointOwner, OneMouseJoint, PinHolds, Running
<1>16. QED
  BY <1>1, <1>2, <1>3, <1>4, <1>5, <1>6, <1>7, <1>8, <1>9, <1>10, <1>11, <1>12,
     <1>13, <1>14, <1>15 DEF WNext

(***************************************************************************)
(* Every call of class World keeps the conjunction of its invariants, for  *)
(* any number of things, any capacity and any sketches on the card.        *)
(***************************************************************************)
THEOREM WorldInvariant == WSpec => []WInv
<1>1. QED BY InvInit, InvStep, PTL DEF WSpec

\* add() and load() never write behind the array of things.
THEOREM ArrayNotOverrun == WSpec => []Capacity
<1>1. WInv => Capacity
  BY DEF WInv
<1>2. QED BY <1>1, WorldInvariant, PTL

\* makeUnphysical, reset and load leave no body without a thing, and no thing
\* with a pointer to a destroyed body.
THEOREM BodiesOwned == WSpec => []BodyOwner
<1>1. WInv => BodyOwner
  BY DEF WInv
<1>2. QED BY <1>1, WorldInvariant, PTL

\* remove() takes the pins of a thing along, so a pin never outlives its thing.
THEOREM PinsFollowThings == WSpec => []PinnedPrecede
<1>1. WInv => PinnedPrecede
  BY DEF WInv
<1>2. QED BY <1>1, WorldInvariant, PTL

\* The destruction listener keeps the pointers of the pins and the joints of
\* the Box2D world in step.
THEOREM JointsOwned == WSpec => []JointOwner
<1>1. WInv => JointOwner
  BY DEF WInv
<1>2. QED BY <1>1, WorldInvariant, PTL

\* A pin whose things have bodies has its joint.
THEOREM PinsHold == WSpec => []PinHolds
<1>1. WInv => PinHolds
  BY DEF WInv
<1>2. QED BY <1>1, WorldInvariant, PTL

-----------------------------------------------------------------------------
(***************************************************************************)
(* World implements Scene.  The invariant of World already says that the   *)
(* joints follow from the drawing and the bodies, so a step implements one *)
(* of Scene as soon as it changes drawing and bodies as that one does.     *)
(***************************************************************************)
Away == (things \cap Objects) \ bodies

\* Where the behaviour is defined, a pin has a joint iff all its things have bodies.
JointsFollow == WInv /\ Running => JointPins = Paper!Holding

LEMMA HoldingByDrawing == JointsFollow
<1> SUFFICES ASSUME WInv, Running PROVE JointPins = Paper!Holding
  BY DEF JointsFollow
<1> USE DEF WInv
<1>1. ASSUME NEW p \in Pins
      PROVE  p \in b2joint <=> p \in JointPins
  <2>1. RevoluteJoint(p, pinned[p]).user = p /\ p # NULL
    BY ThingKinds DEF RevoluteJoint, Things
  <2>2. p \in b2joint => p \in JointPins
    BY <2>1 DEF JointOwner, JointPins
  <2>3. p \in JointPins => p \in b2joint
    BY <2>1 DEF JointOwner, JointPins
  <2>4. QED BY <2>2, <2>3
<1>2. ASSUME NEW p \in b2joint
      PROVE  pinned[p][1] \in bodies /\ pinned[p][2] \in bodies \cup {NULL}
  <2> DEFINE r == RevoluteJoint(p, pinned[p])
  <2>1. r \in joints /\ p \in Pins
    BY DEF JointOwner, WTypeOK
  <2>2. r.body1 = pinned[p][1] /\ r.body2 = IF pinned[p][2] = NULL THEN BG ELSE pinned[p][2]
    BY DEF RevoluteJoint
  <2>3. pinned[p][1] # BG /\ pinned[p][2] # BG
    BY <2>1, ThingKinds DEF WTypeOK, Things
  <2> HIDE DEF r
  <2>4. r.body1 \in bodies \cup {BG} /\ r.body2 \in bodies \cup {BG}
    BY <2>1 DEF JointOwner
  <2>5. QED BY <2>2, <2>3, <2>4
<1>3. ASSUME NEW p \in Pins
      PROVE  /\ PinnedThings[p] = {pinned[p][1], pinned[p][2]} \ {NULL}
             /\ PinnedThings[p] \subseteq things \cap Objects
  <2>1. pinned[p] \in (Objects \cup {NULL}) \X (Objects \cup {NULL})
    BY DEF WTypeOK
  <2>2. \A t \in {pinned[p][1], pinned[p][2]} \ {NULL} : t \in things
    BY DEF PinnedPrecede
  <2>3. QED BY <2>1, <2>2 DEF PinnedThings
<1>4. NULL \notin bodies /\ bodies = b2body
  BY PinFacts DEF BodyOwner
<1>5. ASSUME NEW p \in Pins
      PROVE  p \in b2joint <=> PinnedThings[p] # {} /\ PinnedThings[p] \cap Away = {}
  <2>1. ASSUME p \in b2joint PROVE PinnedThings[p] # {} /\ PinnedThings[p] \cap Away = {}
    BY <1>2, <1>3, <1>4, <2>1 DEF Away
  <2>2. ASSUME PinnedThings[p] # {}, PinnedThings[p] \cap Away = {} PROVE p \in b2joint
    <3>1. PinnedThings[p] \subseteq bodies
      BY <1>3, <2>2 DEF Away
    <3>2. pinned[p][1] # NULL
      BY <1>3, <2>2 DEF PinnedPrecede
    <3>3. QED BY <1>3, <1>4, <3>1, <3>2 DEF PinHolds
  <2>3. QED BY <2>1, <2>2
<1>6. QED BY <1>1, <1>5 DEF Paper!Holding, JointPins, Away

LEMMA HoldingNext == JointsFollow'
BY HoldingByDrawing, PTL

\* A step that does not touch the drawing or the bodies is a stutter or a failure.
LEMMA SameDrawing ==
  ASSUME WInv, WInv', Running, UNCHANGED <<things, pinned, bodies>>
  PROVE  Paper!Fail \/ UNCHANGED Paper!svars
<1>1. CASE Running'
  <2>1. JointPins = Paper!Holding /\ JointPins' = Paper!Holding'
    BY <1>1, HoldingByDrawing, HoldingNext DEF JointsFollow
  <2>2. QED BY <1>1, <2>1 DEF Paper!svars, Paper!Holding, PinnedThings
<1>2. CASE ~ Running'
  BY <1>2 DEF Paper!Fail
<1>3. QED BY <1>1, <1>2

LEMMA SceneStep ==
  ASSUME WInv, WInv', [WNext]_wvars
  PROVE  [Paper!SNext]_(Paper!svars)
<1> SUFFICES ASSUME Running, Running', WNext
             PROVE  Paper!SNext \/ UNCHANGED Paper!svars
  <2>1. CASE UNCHANGED wvars \/ Halted
    BY <2>1 DEF Halted, wvars, Paper!svars, PinnedThings, JointPins, Running
  <2>2. CASE ~ Running
    <3>1. \A f, a : ~ Load(f, a)
      <4>1. ASSUME NEW f, NEW a, Load(f, a) PROVE Running
        BY <4>1 DEF Load
      <4>2. QED BY <2>2, <4>1
    <3>2. \A t, t1, t2 : /\ ~ Add(t, t1) /\ ~ AddFull(t) /\ ~ MakePhysical(t)
                         /\ ~ Pin(t, t1, t2) /\ ~ Grab(t) /\ ~ Discard(t)
      BY <2>2 DEF Add, AddFull, MakePhysical, Pin, Grab, Discard
    <3>3. ~ Drag /\ ~ LetGo /\ ~ Zap /\ \A S : ~ Step(S) /\ ~ Reset(S) /\ ~ Repin(S)
      BY <2>2 DEF Drag, LetGo, Zap, Step, Reset, Repin
    <3>4. QED BY <2>1, <3>1, <3>2, <3>3 DEF WNext
  <2>3. CASE Running /\ ~ Running'
    BY <2>3 DEF Paper!SNext, Paper!Fail
  <2>4. QED BY <2>1, <2>2, <2>3
<1>1. Paper!Follows
  BY HoldingNext DEF JointsFollow, Paper!Follows
<1>2. \A p \in Pins : PinnedThings[p] = {pinned[p][1], pinned[p][2]} \ {NULL}
  BY DEF PinnedThings
<1>3. ASSUME NEW t \in Things, NEW ty \in Types, Add(t, ty) PROVE Paper!SNext
  <2>1. t \notin things /\ t \notin bodies
    BY <1>3 DEF Add, WInv, WTypeOK, BodyOwner
  <2>2. Paper!Draw(t)
    BY <1>1, <1>3, <2>1 DEF Add, Paper!Draw, PinnedThings
  <2>3. QED BY <2>2 DEF Paper!SNext, Things
<1>4. ASSUME NEW t \in Things, AddFull(t) PROVE UNCHANGED <<things, pinned, bodies>>
  BY <1>4 DEF AddFull
<1>5. ASSUME NEW o \in Objects, MakePhysical(o) PROVE Paper!SNext
  <2>1. o \in Away
    BY <1>5 DEF MakePhysical, Away, WInv, BodyOwner
  <2>2. Paper!Finish(o)
    BY <1>1, <1>5, <2>1 DEF MakePhysical, array, Paper!Finish, PinnedThings, Away
  <2>3. QED BY <2>2 DEF Paper!SNext
<1>6. ASSUME NEW p \in Pins, NEW t1 \in Objects, NEW t2 \in Objects \cup {NULL}, Pin(p, t1, t2)
      PROVE  Paper!SNext
  <2> DEFINE ts == {t1, t2} \ {NULL}
  <2>1. /\ pinned' = [pinned EXCEPT ![p] = <<t1, t2>>] /\ pinned[p] = Unpinned
        /\ t1 \in bodies /\ t2 \in bodies \cup {NULL} /\ p \in things
        /\ things' = things /\ bodies' = bodies
    BY <1>6 DEF Pin, WInv, BodyOwner
  <2>2. PinnedThings[p] = {} /\ ts # {} /\ ts \subseteq things \ Away /\ ts \in SUBSET Objects
    <3>1. PinnedThings[p] = {}
      BY <1>2, <2>1 DEF Unpinned
    <3>2. NULL \notin Objects
      BY ThingKinds DEF Things
    <3>3. \A o \in bodies : o \in things \ Away
      BY DEF Away, WInv, BodyOwner
    <3>4. QED BY <2>1, <3>1, <3>2, <3>3
  <2>3. PinnedThings' = [PinnedThings EXCEPT ![p] = ts]
    <3>1. pinned'[p][1] = t1 /\ pinned'[p][2] = t2 /\ \A q \in Pins \ {p} : pinned'[q] = pinned[q]
      BY <2>1 DEF WInv, WTypeOK
    <3>2. QED BY <3>1 DEF PinnedThings
  <2> HIDE DEF ts
  <2>4. Paper!Tie(p, ts)
    BY <1>1, <2>1, <2>2, <2>3 DEF Paper!Tie, Away
  <2>5. QED BY <2>2, <2>4 DEF Paper!SNext
<1>7. ASSUME \/ \E o \in Objects : Grab(o)
             \/ Drag \/ LetGo
             \/ \E P \in SUBSET Pins : Repin(P)
      PROVE  UNCHANGED <<things, pinned, bodies>>
  BY <1>7 DEF Grab, Drag, LetGo, Repin, array
<1>8. ASSUME NEW M \in SUBSET Objects, Step(M) PROVE Paper!SNext
  <2>1. M \subseteq (things \cap Objects) \ Away /\ bodies \subseteq things
    BY <1>8 DEF Step, Away, WInv, BodyOwner
  <2>2. Paper!Leave(M)
    BY <1>1, <1>8, <2>1 DEF Step, array, Paper!Leave, PinnedThings, Away
  <2>3. QED BY <2>2 DEF Paper!SNext
<1>9. ASSUME NEW F \in SUBSET Objects, Reset(F) PROVE Paper!SNext
  <2>1. Paper!Restore(F)
    BY <1>1, <1>9 DEF Reset, array, Paper!Restore, PinnedThings
  <2>2. QED BY <2>1 DEF Paper!SNext
<1>10. ASSUME NEW t \in Things, Discard(t) PROVE Paper!SNext
  <2> DEFINE D == {t} \cup PinsOn({t})
  <2>1. t # NULL /\ t \in things
    BY <1>10, ThingKinds DEF Discard
  <2>2. D = {t} \cup {p \in Pins : t \in PinnedThings[p]}
    <3>1. ASSUME NEW p \in Pins, t \in PinnedThings[p] PROVE p \in things
      <4>1. t \in {pinned[p][1], pinned[p][2]} \ {NULL}
        BY <1>2, <3>1
      <4>2. PinnedPrecede
        BY DEF WInv
      <4>3. QED BY <4>1, <4>2 DEF PinnedPrecede
    <3>2. ASSUME NEW p \in Pins
          PROVE  t \in PinnedThings[p] <=> pinned[p][1] \in {t} \/ pinned[p][2] \in {t}
      BY <1>2, <2>1
    <3>3. QED BY <3>1, <3>2 DEF PinsOn
  <2>3. /\ things' = things \ D /\ bodies' = bodies \ D
        /\ pinned' = [p \in Pins |-> IF p \in D THEN Unpinned ELSE pinned[p]]
    BY <1>10 DEF Discard, Forget
  <2> HIDE DEF D
  <2>4. PinnedThings' = [p \in Pins |-> IF p \in D THEN {} ELSE PinnedThings[p]]
    BY <2>3 DEF PinnedThings, Unpinned
  <2>5. Paper!Erase(t)
    BY <1>1, <2>1, <2>2, <2>3, <2>4 DEF Paper!Erase
  <2>6. QED BY <2>5 DEF Paper!SNext, Things
<1>11. ASSUME Zap PROVE Paper!SNext
  <2>1. things' = {} /\ bodies' = {}
    BY <1>11 DEF Zap
  <2>2. \A p \in Pins : pinned'[p] = Unpinned
    BY <1>11, PinFacts DEF Zap, Forget, WInv
  <2>3. PinnedThings' = [p \in Pins |-> {}]
    BY <2>2 DEF PinnedThings, Unpinned
  <2>4. Paper!Open
    BY <1>1, <2>1, <2>3 DEF Paper!Open
  <2>5. QED BY <2>4 DEF Paper!SNext
<1>12. ASSUME NEW f \in Sketches, NEW a \in [1..Len(f.elements) -> Things], Load(f, a)
       PROVE  Paper!SNext
  <2>1. /\ things' \subseteq Things
        /\ \A p \in Pins \ things' : pinned'[p] = Unpinned
        /\ \A p \in Pins \cap things' :
             /\ pinned'[p][1] \in things' \cap Objects
             /\ pinned'[p][2] # NULL => pinned'[p][2] \in things' \cap Objects
    BY <1>12, LoadedScene, PinFacts DEF WInv
  <2>2. bodies' = things' \cap Objects
    BY <1>12 DEF Load, WInv, BodyOwner
  <2>3. \A p \in Pins : PinnedThings'[p] = {pinned'[p][1], pinned'[p][2]} \ {NULL}
    BY DEF PinnedThings
  <2>4. ASSUME NEW p \in Pins
        PROVE  /\ PinnedThings'[p] \subseteq things' \cap Objects
               /\ PinnedThings'[p] # {} <=> p \in things'
    <3>1. CASE p \in things'
      <4>1. NULL \notin Objects /\ p \in Pins \cap things'
        BY <3>1, ThingKinds DEF Things
      <4>2. pinned'[p][1] \in PinnedThings'[p]
        BY <2>1, <2>3, <4>1
      <4>3. \A t \in PinnedThings'[p] : t \in things' \cap Objects
        BY <2>1, <2>3, <4>1
      <4>4. QED BY <3>1, <4>2, <4>3
    <3>2. CASE p \notin things'
      BY <2>1, <2>3, <3>2 DEF Unpinned
    <3>3. QED BY <3>1, <3>2
  <2>5. PinnedThings' \in [Pins -> SUBSET (things' \cap Objects)]
    BY <2>4 DEF PinnedThings
  <2>6. Paper!Open
    BY <1>1, <2>1, <2>2, <2>4, <2>5 DEF Paper!Open, Things
  <2>7. QED BY <2>6 DEF Paper!SNext
<1>13. ASSUME UNCHANGED <<things, pinned, bodies>>
       PROVE  Paper!SNext \/ UNCHANGED Paper!svars
  BY <1>13, SameDrawing DEF Paper!SNext
<1>14. ~ Halted
  BY DEF Halted
<1>15. QED
  BY <1>3, <1>4, <1>5, <1>6, <1>7, <1>8, <1>9, <1>10, <1>11, <1>12, <1>13, <1>14 DEF WNext

LEMMA SceneInit == WInit => Paper!SInit
BY DEF WInit, Paper!SInit, PinnedThings, JointPins, Unpinned, Running

(***************************************************************************)
(* class World implements Scene: its pointers, its array and the Box2D     *)
(* world, with the joints that come and go there, act like a drawing in    *)
(* which a pin holds iff all its objects take part in the simulation.      *)
(***************************************************************************)
THEOREM WorldImplementsScene == WSpec => SceneSpec
<1>1. QED BY WorldInvariant, SceneInit, SceneStep, PTL DEF WSpec, SceneSpec, Paper!SSpec

-----------------------------------------------------------------------------
(***************************************************************************)
(* The program.                                                            *)
(***************************************************************************)
LEMMA WorldCalls ==
  /\ \A t \in Things, ty \in Types : Add(t, ty) => WNext
  /\ \A t \in Things : (AddFull(t) => WNext) /\ (Discard(t) => WNext)
  /\ \A o \in Objects : (MakePhysical(o) => WNext) /\ (Grab(o) => WNext)
  /\ \A p \in Pins, t1 \in Objects, t2 \in Objects \cup {NULL} : Pin(p, t1, t2) => WNext
  /\ (Drag => WNext) /\ (LetGo => WNext) /\ (Zap => WNext) /\ (Halted => WNext)
  /\ \A S \in SUBSET Objects : (Step(S) => WNext) /\ (Reset(S) => WNext)
  /\ \A P \in SUBSET Pins : Repin(P) => WNext
  /\ \A f \in Sketches : \A a \in [1..Len(f.elements) -> Things] : Load(f, a) => WNext
BY DEF WNext

LEMMA CanvasCalls ==
  ASSUME WTypeOK, Canvas
  PROVE  WNext \/ UNCHANGED wvars
<1>1. ASSUME NEW o \in Objects, NEW ty \in Types, PenDownShape(o, ty) PROVE WNext
  BY <1>1, WorldCalls DEF PenDownShape, Things
<1>2. ASSUME NEW p \in Pins, PenDownPin(p) PROVE WNext
  BY <1>2, WorldCalls DEF PenDownPin, Types, Things
<1>3. ASSUME NEW o \in Objects, PenDownMove(o) PROVE WNext \/ UNCHANGED wvars
  BY <1>3, WorldCalls DEF PenDownMove, Idle
<1>4. CASE PenDownDelete
  BY <1>4 DEF PenDownDelete, Idle
<1>5. CASE PenMove
  BY <1>5, WorldCalls DEF PenMove
<1>6. Discard(currentthing) => currentthing \in Things
  BY DEF Discard, WTypeOK
<1>7. MakePhysical(currentthing) => currentthing \in Objects
  BY DEF MakePhysical
<1>8. CASE PenUpPolygon
  BY <1>6, <1>7, <1>8, WorldCalls DEF PenUpPolygon
<1>9. CASE PenUpBoxOrCircle
  BY <1>6, <1>7, <1>9, WorldCalls DEF PenUpBoxOrCircle, Idle
<1>10. CASE PenUpPin
  <2>1. CASE Discard(currentthing)
    BY <1>6, <2>1, WorldCalls
  <2>2. ASSUME NEW t1, NEW t2, Pin(currentthing, t1, t2) PROVE WNext
    <3>1. currentthing \in Pins /\ t1 \in Objects /\ t2 \in Objects \cup {NULL}
      BY <2>2 DEF Pin, WTypeOK
    <3>2. QED BY <2>2, <3>1, WorldCalls
  <2>3. QED BY <1>10, <2>1, <2>2 DEF PenUpPin
<1>11. CASE PenUpMove
  <2>1. move_connected \cap Pins \in SUBSET Pins
    OBVIOUS
  <2>2. QED BY <1>11, <2>1, WorldCalls DEF PenUpMove
<1>12. CASE PenUpDelete
  <2>1. Deletable \subseteq Things
    BY DEF Deletable, WTypeOK, Things
  <2>2. QED BY <1>12, <2>1, WorldCalls DEF PenUpDelete, Idle
<1>13. QED
  BY <1>1, <1>2, <1>3, <1>4, <1>5, <1>8, <1>9, <1>10, <1>11, <1>12 DEF Canvas

LEMMA ProgramCalls ==
  ASSUME WTypeOK, [Next]_vars
  PROVE  [WNext]_wvars
<1>1. CASE Canvas
  BY <1>1, CanvasCalls
<1>2. CASE (\E m \in PenModes : SetPenMode(m)) \/ StartPlay \/ PausePlay
  BY <1>2 DEF SetPenMode, StartPlay, PausePlay, Idle
<1>3. CASE StopPlay
  BY <1>3, WorldCalls DEF StopPlay
<1>4. CASE ZapPushed
  BY <1>4, WorldCalls DEF ZapPushed
<1>5. ASSUME NEW f \in Sketches, NEW a \in [1..Len(f.elements) -> Things], LoadPushed(f, a)
      PROVE  WNext
  BY <1>5, WorldCalls DEF LoadPushed
<1>6. CASE ResetKeys
  <2>1. PICK F \in SUBSET ({currentthing} \cap Objects) : Reset(F)
    BY <1>6 DEF ResetKeys
  <2>2. F \in SUBSET Objects
    OBVIOUS
  <2>3. QED BY <2>1, <2>2, WorldCalls
<1>7. CASE SimulationStep
  <2>1. PICK M \in SUBSET bodies : Step(M)
    BY <1>7 DEF SimulationStep
  <2>2. M \in SUBSET Objects
    BY DEF WTypeOK
  <2>3. QED BY <2>1, <2>2, WorldCalls
<1>8. CASE Halted \/ UNCHANGED vars
  BY <1>8 DEF Halted, vars
<1>9. QED
  BY <1>1, <1>2, <1>3, <1>4, <1>5, <1>6, <1>7, <1>8 DEF Next

LEMMA ProgramInit == Init => WInit
BY DEF Init

LEMMA ProgramInvariant == Spec => []WInv
<1>1. WInv /\ [Next]_vars => [WNext]_wvars
  BY ProgramCalls DEF WInv
<1>2. WInv /\ [WNext]_wvars => WInv'
  BY InvStep
<1>3. QED BY <1>1, <1>2, ProgramInit, InvInit, PTL DEF Spec

(***************************************************************************)
(* Every run of the program is a legal use of class World, and so keeps    *)
(* the promises of Scene.                                                  *)
(***************************************************************************)
THEOREM ProgramUsesWorld == Spec => WSpec
<1>1. WInv /\ [Next]_vars => [WNext]_wvars
  BY ProgramCalls DEF WInv
<1>2. QED BY <1>1, ProgramInit, ProgramInvariant, PTL DEF Spec, WSpec

THEOREM ProgramKeepsScene == Spec => SceneSpec
<1>1. QED BY ProgramUsesWorld, WorldImplementsScene, PTL
-----------------------------------------------------------------------------
(***************************************************************************)
(* The program with its strokes: who owns the thing that is drawn, when a  *)
(* drag joint exists, what is physical, and what the stop button and a     *)
(* move bring back.                                                        *)
(***************************************************************************)
\* Between two strokes nothing is drawn, moved or dragged.
LEMMA Resting ==
  ASSUME PInv, ~ drawing
  PROVE  currentthing = NULL /\ move_connected = {} /\ mouse_joint = NULL
BY DEF PInv, StrokeOwns, DragEnds

\* The modes are different strings, so a stroke in one of them is in no other.
LEMMA ModeFacts ==
  /\ ShapeModes \subseteq PenModes /\ "Pin" \in PenModes \ ShapeModes
  /\ {"Move", "Delete", "Normal"} \cap (ShapeModes \cup {"Pin"}) = {}
  /\ "Polygon" \in ShapeModes /\ "Box" \in ShapeModes /\ "Circle" \in ShapeModes
BY DEF ShapeModes, PenModes

\* A thing that is new in the scene is known to no pin.
LEMMA NewThing ==
  ASSUME WInv, NEW t \in Things, t \notin things
  PROVE  /\ \A p \in Pins : pinned[p][1] # t /\ pinned[p][2] # t
         /\ t \notin b2body
         /\ t \in Pins => pinned[t] = Unpinned
<1>1. t # NULL
  BY ThingKinds
<1>2. \A p \in Pins : pinned[p][1] # t /\ pinned[p][2] # t
  BY <1>1 DEF WInv, PinnedPrecede
<1>3. QED BY <1>2, PinFacts DEF WInv, BodyOwner

(***************************************************************************)
(* Calls that leave the array as it is: what can be lost is that an object *)
(* is physical or hidden, and that a hidden one exists.  They come during  *)
(* a stroke, or from a button.                                             *)
(***************************************************************************)
LEMMA SceneKept ==
  ASSUME PInv, WInv', UNCHANGED <<things, before, pinned, mouse_joint>>, UNCHANGED stroke,
         \/ UNCHANGED cvars
         \/ ~ drawing /\ pen_mode' \in PenModes /\ simulating' \in BOOLEAN,
         VisibleIsPhysical', HiddenInScene'
  PROVE  PInv'
<1>1. TypeOK'
  BY DEF PInv, TypeOK, WInv, cvars, stroke
<1>2. PinsPinned' /\ MoveClosed'
  BY DEF PInv, PinsPinned, MoveClosed, Linked, stroke
<1>3. ASSUME UNCHANGED cvars PROVE StrokeOwns' /\ DragEnds'
  BY <1>3 DEF PInv, StrokeOwns, DragEnds, PinsOn, cvars
<1>4. ASSUME ~ drawing PROVE StrokeOwns' /\ DragEnds'
  BY <1>4, Resting DEF StrokeOwns, DragEnds, stroke
<1>5. StrokeOwns' /\ DragEnds'
  BY <1>3, <1>4
<1>6. QED BY <1>1, <1>2, <1>5 DEF PInv

LEMMA PInit == Init => PInv
<1> SUFFICES ASSUME Init PROVE PInv
  OBVIOUS
<1>1. WInv
  BY InvInit, ProgramInit
<1>2. TypeOK
  BY <1>1 DEF WInv, TypeOK, Init, CInit, PenModes
<1>3. StrokeOwns /\ DragEnds /\ VisibleIsPhysical /\ PinsPinned /\ HiddenInScene /\ MoveClosed
  BY DEF Init, CInit, WInit, StrokeOwns, DragEnds, VisibleIsPhysical, PinsPinned,
         HiddenInScene, MoveClosed
<1>4. QED BY <1>1, <1>2, <1>3 DEF PInv
-----------------------------------------------------------------------------
(***************************************************************************)
(* Strokes that draw.                                                      *)
(***************************************************************************)
\* A thing drawn or refused when the pen goes down.
LEMMA DownDraws ==
  ASSUME PInv, WInv', ~ drawing, NEW t \in Things, NEW ty,
         pen_mode \in ShapeModes \cup {"Pin"},
         \/ Add(t, ty) /\ StrokeBegins(t)
         \/ AddFull(t) /\ UNCHANGED <<drawing, currentthing>>,
         UNCHANGED <<pen_mode, move_connected, simulating>>
  PROVE  PInv'
<1>0. currentthing = NULL /\ move_connected = {} /\ mouse_joint = NULL
  BY Resting
<1>1. CASE AddFull(t) /\ UNCHANGED <<drawing, currentthing>>
  <2>1. UNCHANGED <<things, before, pinned, mouse_joint>> /\ UNCHANGED cvars
    BY <1>1 DEF AddFull, cvars
  <2>2. VisibleIsPhysical' /\ HiddenInScene'
    BY <1>1, <2>1 DEF AddFull, PInv, VisibleIsPhysical, HiddenInScene, cvars
  <2>3. QED BY <2>1, <2>2, SceneKept DEF cvars, stroke
<1>2. CASE Add(t, ty) /\ StrokeBegins(t)
  <2>1. /\ things' = things \cup {t} /\ before' = before \cup (things \X {t})
        /\ pinned' = pinned /\ b2body' = b2body /\ invisible' = invisible
        /\ mouse_joint' = mouse_joint /\ currentthing' = t /\ drawing'
        /\ t \notin things /\ t # NULL
    BY <1>2, ThingKinds DEF Add, StrokeBegins, PInv, WInv, WTypeOK
  <2>2. TypeOK'
    BY <1>0, <2>1 DEF PInv, TypeOK, WInv
  <2>3. StrokeOwns'
    <3>1. \A p \in Pins : pinned[p][1] # t /\ pinned[p][2] # t
      BY <2>1, NewThing DEF PInv
    <3>2. PinsOn({t})' = {} /\ (t \in Pins => pinned'[t] = Unpinned)
      BY <2>1, <3>1, NewThing DEF PInv, PinsOn
    <3>3. QED BY <1>0, <2>1, <3>2, ModeFacts DEF StrokeOwns
  <2>4. DragEnds'
    BY <1>0, <2>1, ModeFacts DEF DragEnds
  <2>5. VisibleIsPhysical' /\ HiddenInScene'
    BY <1>0, <2>1, ThingKinds DEF PInv, VisibleIsPhysical, HiddenInScene, Things
  <2>6. PinsPinned'
    BY <1>0, <2>1, ThingKinds DEF PInv, PinsPinned, Things
  <2>7. MoveClosed'
    BY <1>0 DEF MoveClosed
  <2>8. QED BY <2>2, <2>3, <2>4, <2>5, <2>6, <2>7 DEF PInv
<1>3. QED BY <1>1, <1>2

\* The thing of the stroke stays, physical unless it is a pin.
LEMMA UpKeeps ==
  ASSUME PInv, WInv', drawing, pen_mode \in ShapeModes \cup {"Pin"}, StrokeEnds,
         UNCHANGED <<pen_mode, move_connected, simulating>>,
         UNCHANGED <<things, before, mouse_joint, invisible>>,
         b2body \subseteq b2body', currentthing \in Objects => currentthing \in b2body',
         \A p \in Pins \ {currentthing} : pinned'[p] = pinned[p],
         currentthing \in Pins => pinned'[currentthing][1] # NULL
  PROVE  PInv'
<1>1. currentthing' = NULL /\ ~ drawing'
  BY DEF StrokeEnds
<1>2. move_connected = {} /\ mouse_joint = NULL
  BY ModeFacts DEF PInv, StrokeOwns, DragEnds
<1>3. TypeOK' /\ StrokeOwns' /\ DragEnds' /\ MoveClosed'
  BY <1>1, <1>2 DEF PInv, TypeOK, WInv, StrokeOwns, DragEnds, MoveClosed, StrokeEnds
<1>4. VisibleIsPhysical' /\ HiddenInScene'
  BY <1>1 DEF PInv, VisibleIsPhysical, HiddenInScene
<1>5. PinsPinned'
  BY <1>1 DEF PInv, PinsPinned
<1>6. QED BY <1>3, <1>4, <1>5 DEF PInv

\* A thing is discarded at the end of a stroke that moves nothing.
LEMMA UpDiscards ==
  ASSUME PInv, WInv', drawing, pen_mode # "Move", StrokeEnds, NEW t, Discard(t),
         currentthing # NULL => t = currentthing,
         UNCHANGED <<pen_mode, move_connected, simulating>>
  PROVE  PInv'
<1> DEFINE D == {t} \cup PinsOn({t})
<1>1. /\ things' = things \ D /\ invisible' = invisible \ D /\ b2body' = b2body \ D
      /\ mouse_joint' = mouse_joint
      /\ \A p \in Pins \ D : pinned'[p] = pinned[p]
  BY DEF Discard, Forget
<1> HIDE DEF D
<1>2. currentthing' = NULL /\ drawing' = FALSE
  BY DEF StrokeEnds
<1>3. move_connected = {} /\ mouse_joint = NULL
  BY DEF PInv, StrokeOwns, DragEnds
<1>4. currentthing \notin things'
  <2>1. CASE currentthing = NULL
    BY <1>1, <2>1, ThingKinds DEF PInv, WInv, WTypeOK
  <2>2. CASE currentthing # NULL
    BY <1>1, <2>2 DEF D
  <2>3. QED BY <2>1, <2>2
<1>5. TypeOK' /\ StrokeOwns' /\ DragEnds' /\ MoveClosed'
  BY <1>1, <1>2, <1>3 DEF PInv, TypeOK, WInv, StrokeOwns, DragEnds, MoveClosed
<1>6. VisibleIsPhysical' /\ HiddenInScene'
  BY <1>1, <1>4 DEF PInv, VisibleIsPhysical, HiddenInScene
<1>7. PinsPinned'
  BY <1>1, <1>4 DEF PInv, PinsPinned
<1>8. QED BY <1>5, <1>6, <1>7 DEF PInv
-----------------------------------------------------------------------------
(***************************************************************************)
(* Strokes that move and drag.                                             *)
(***************************************************************************)
\* What is connected to a thing is connected to one another.
LEMMA ConnectedClosed ==
  ASSUME NEW o \in things
  PROVE  \A t \in Connected(o), u \in things : Linked(t, u) => u \in Connected(o)
<1> SUFFICES ASSUME NEW t \in Connected(o), NEW u \in things, Linked(t, u),
                    NEW C \in SUBSET things, o \in C,
                    \A x \in C, y \in things : Linked(x, y) => y \in C
             PROVE  u \in C
  BY DEF Connected
<1>1. t \in C
  BY DEF Connected
<1>2. QED BY <1>1

LEMMA DownMoves ==
  ASSUME PInv, WInv', NEW o \in Objects, PenDownMove(o)
  PROVE  PInv'
<1>1. currentthing = NULL /\ move_connected = {} /\ mouse_joint = NULL
  BY Resting DEF PenDownMove
<1>2. /\ drawing' = TRUE /\ currentthing' = NULL /\ pen_mode = "Move"
      /\ UNCHANGED <<pen_mode, simulating, things, before, pinned, b2body, invisible>>
  BY DEF PenDownMove, StrokeBegins, Grab, array, Idle, wvars
<1>3. o \in things
  BY DEF PenDownMove, PInv, WInv, BodyOwner
<1>4. VisibleIsPhysical' /\ HiddenInScene' /\ PinsPinned'
  BY <1>1, <1>2 DEF PInv, VisibleIsPhysical, HiddenInScene, PinsPinned
<1>5. CASE simulating
  <2>1. mouse_joint' # NULL /\ move_connected' = {}
    BY <1>1, <1>5, MouseJointType DEF PenDownMove, Grab
  <2>2. TypeOK' /\ StrokeOwns' /\ DragEnds' /\ MoveClosed'
    BY <1>2, <1>5, <2>1, ModeFacts DEF PInv, TypeOK, WInv, StrokeOwns, DragEnds, MoveClosed
  <2>3. QED BY <1>4, <2>2 DEF PInv
<1>6. CASE ~ simulating
  <2>1. mouse_joint' = NULL /\ move_connected' = Connected(o)
    BY <1>1, <1>6 DEF PenDownMove, Idle, wvars
  <2>2. Connected(o) \subseteq things
    BY DEF Connected
  <2>3. MoveClosed'
    BY <1>2, <1>3, <2>1, ConnectedClosed DEF MoveClosed, Linked
  <2>4. TypeOK' /\ StrokeOwns' /\ DragEnds'
    BY <1>2, <1>6, <2>1, <2>2, ModeFacts DEF PInv, TypeOK, WInv, StrokeOwns, DragEnds
  <2>5. QED BY <1>4, <2>3, <2>4 DEF PInv
<1>7. QED BY <1>5, <1>6

LEMMA UpMoves ==
  ASSUME PInv, WInv', PenUpMove
  PROVE  PInv'
<1>1. currentthing = NULL
  BY ModeFacts DEF PInv, StrokeOwns, PenUpMove
<1>2. /\ drawing' = FALSE /\ currentthing' = NULL /\ move_connected' = {}
      /\ UNCHANGED <<pen_mode, simulating, things, before, pinned, b2body, invisible>>
  BY DEF PenUpMove, StrokeEnds, LetGo, Repin, array
<1>3. mouse_joint' = NULL
  BY DEF PenUpMove, LetGo, Repin, PInv, DragEnds
<1>4. VisibleIsPhysical' /\ HiddenInScene' /\ PinsPinned'
  BY <1>1, <1>2 DEF PInv, VisibleIsPhysical, HiddenInScene, PinsPinned
<1>5. TypeOK' /\ StrokeOwns' /\ DragEnds' /\ MoveClosed'
  BY <1>2, <1>3 DEF PInv, TypeOK, WInv, StrokeOwns, DragEnds, MoveClosed
<1>6. QED BY <1>4, <1>5 DEF PInv
-----------------------------------------------------------------------------
(***************************************************************************)
(* The buttons, the reset keys and the simulation.                         *)
(***************************************************************************)
LEMMA ResetSeen ==
  ASSUME PInv, NEW F, Reset(F), F \subseteq {currentthing}, UNCHANGED currentthing
  PROVE  /\ VisibleIsPhysical' /\ HiddenInScene' /\ invisible' = {}
         /\ UNCHANGED <<things, before, pinned, mouse_joint>>
<1>1. /\ b2body' = (things \cap Objects) \ F /\ invisible' = invisible \ things
      /\ UNCHANGED <<things, before, pinned, mouse_joint>>
  BY DEF Reset, array
<1>2. QED BY <1>1 DEF PInv, HiddenInScene, VisibleIsPhysical

LEMMA StepSeen ==
  ASSUME PInv, NEW M \in SUBSET bodies, Step(M), UNCHANGED currentthing
  PROVE  /\ VisibleIsPhysical' /\ HiddenInScene'
         /\ UNCHANGED <<things, before, pinned, mouse_joint>>
<1>1. /\ b2body' = b2body \ M /\ invisible' = invisible \cup M /\ M \subseteq things
      /\ UNCHANGED <<things, before, pinned, mouse_joint>>
  BY DEF Step, array, PInv, WInv, BodyOwner
<1>2. QED BY <1>1 DEF PInv, HiddenInScene, VisibleIsPhysical

LEMMA ZapSeen ==
  ASSUME PInv, WInv', ZapPushed
  PROVE  PInv'
<1>1. currentthing = NULL /\ move_connected = {} /\ mouse_joint = NULL
  BY Resting DEF ZapPushed, NoStroke
<1>2. /\ drawing' = FALSE /\ currentthing' = NULL /\ move_connected' = {}
      /\ pen_mode' = pen_mode /\ simulating' = FALSE
      /\ mouse_joint' = NULL /\ things' = {} /\ invisible' = invisible \ things
  BY <1>1 DEF ZapPushed, NoStroke, stroke, Zap
<1>3. TypeOK' /\ StrokeOwns' /\ DragEnds'
  BY <1>2 DEF PInv, TypeOK, WInv, StrokeOwns, DragEnds
<1>4. VisibleIsPhysical' /\ HiddenInScene' /\ PinsPinned' /\ MoveClosed'
  BY <1>2 DEF PInv, VisibleIsPhysical, HiddenInScene, PinsPinned, MoveClosed
<1>5. QED BY <1>3, <1>4 DEF PInv

LEMMA LoadSeen ==
  ASSUME PInv, WInv', NEW f, NEW a, LoadPushed(f, a)
  PROVE  PInv'
<1>1. currentthing = NULL /\ move_connected = {} /\ mouse_joint = NULL
  BY Resting DEF LoadPushed, NoStroke
<1>2. UNCHANGED cvars /\ mouse_joint' = NULL
  BY <1>1 DEF LoadPushed, NoStroke, stroke, cvars, Load
<1>3. Load(f, a)
  BY DEF LoadPushed
<1>4. things' = Loaded(f, a)
  BY <1>3 DEF Load, Loaded
<1>5. b2body' = (b2body \ things) \cup (Loaded(f, a) \cap Objects)
  BY <1>3 DEF Load, Loaded
<1>6. invisible' \subseteq Loaded(f, a)
  <2>1. invisible \subseteq things
    BY DEF PInv, HiddenInScene
  <2>2. QED BY <1>3, <2>1 DEF Load, Loaded
<1>7. PinsPinned'
  <2>1. \A p \in Pins \cap things' : pinned'[p][1] \in Objects
    BY <1>3, LoadedScene DEF PInv, WInv
  <2>2. QED BY <2>1, ThingKinds DEF PinsPinned, Things
<1>8. TypeOK' /\ StrokeOwns' /\ DragEnds' /\ MoveClosed'
  BY <1>1, <1>2 DEF PInv, TypeOK, WInv, StrokeOwns, DragEnds, MoveClosed, cvars
<1>9. VisibleIsPhysical' /\ HiddenInScene'
  BY <1>4, <1>5, <1>6 DEF VisibleIsPhysical, HiddenInScene
<1>10. QED BY <1>7, <1>8, <1>9 DEF PInv
-----------------------------------------------------------------------------
LEMMA PStep ==
  ASSUME PInv, [Next]_vars
  PROVE  PInv'
<1>0. WInv'
  BY ProgramCalls, InvStep DEF PInv, WInv
<1>1. ASSUME NEW o \in Objects, NEW ty \in Types, PenDownShape(o, ty) PROVE PInv'
  BY <1>0, <1>1, DownDraws DEF PenDownShape, Things
<1>2. ASSUME NEW p \in Pins, PenDownPin(p) PROVE PInv'
  BY <1>0, <1>2, DownDraws DEF PenDownPin, Things
<1>3. ASSUME NEW o \in Objects, PenDownMove(o) PROVE PInv'
  BY <1>0, <1>3, DownMoves
<1>4. CASE PenDownDelete
  <2>1. currentthing = NULL /\ move_connected = {} /\ mouse_joint = NULL
    BY <1>4, Resting DEF PenDownDelete
  <2>2. UNCHANGED wvars /\ pen_mode = "Delete" /\ currentthing' = NULL /\ drawing' = TRUE
        /\ UNCHANGED <<pen_mode, move_connected, simulating>>
    BY <1>4 DEF PenDownDelete, Idle, StrokeBegins
  <2>3. TypeOK' /\ StrokeOwns' /\ DragEnds'
    BY <1>0, <2>1, <2>2, ModeFacts DEF PInv, TypeOK, WInv, StrokeOwns, DragEnds, wvars
  <2>4. VisibleIsPhysical' /\ HiddenInScene' /\ PinsPinned' /\ MoveClosed'
    BY <2>1, <2>2 DEF PInv, VisibleIsPhysical, HiddenInScene, PinsPinned, MoveClosed, wvars
  <2>5. QED BY <1>0, <2>3, <2>4 DEF PInv
<1>5. CASE PenMove
  <2>1. UNCHANGED <<things, before, pinned, mouse_joint, b2body, invisible>> /\ UNCHANGED cvars
    BY <1>5 DEF PenMove, Drag, array
  <2>2. VisibleIsPhysical' /\ HiddenInScene'
    BY <2>1 DEF PInv, VisibleIsPhysical, HiddenInScene, cvars
  <2>3. QED BY <1>0, <2>1, <2>2, SceneKept DEF cvars, stroke
<1>6. CASE PenUpPolygon \/ PenUpBoxOrCircle
  <2>1. /\ drawing /\ pen_mode \in ShapeModes /\ pen_mode # "Move" /\ StrokeEnds
        /\ UNCHANGED <<pen_mode, move_connected, simulating>>
    BY <1>6 DEF PenUpPolygon, PenUpBoxOrCircle, ShapeModes
  <2>2. CASE Discard(currentthing)
    BY <1>0, <2>1, <2>2, UpDiscards
  <2>3. CASE MakePhysical(currentthing)
    <3>1. /\ currentthing \in Objects /\ currentthing \notin Pins
          /\ UNCHANGED <<things, before, mouse_joint, invisible, pinned>>
          /\ b2body' = b2body \cup {currentthing}
      BY <2>3, ThingKinds DEF MakePhysical, array
    <3>2. QED BY <1>0, <2>1, <3>1, UpKeeps
  <2>4. CASE currentthing \in b2body /\ Idle
    <3>1. /\ currentthing \in Objects /\ currentthing \notin Pins
          /\ UNCHANGED <<things, before, mouse_joint, invisible, pinned, b2body>>
      BY <2>4, ThingKinds DEF Idle, wvars, PInv, WInv, WTypeOK
    <3>2. QED BY <1>0, <2>1, <2>4, <3>1, UpKeeps
  <2>5. QED BY <1>6, <2>2, <2>3, <2>4 DEF PenUpPolygon, PenUpBoxOrCircle
<1>7. CASE PenUpPin
  <2>1. /\ drawing /\ pen_mode = "Pin" /\ StrokeEnds
        /\ UNCHANGED <<pen_mode, move_connected, simulating>>
    BY <1>7 DEF PenUpPin
  <2>2. CASE Discard(currentthing)
    BY <1>0, <2>1, <2>2, UpDiscards
  <2>3. ASSUME NEW t1, NEW t2, Pin(currentthing, t1, t2) PROVE PInv'
    <3>1. /\ currentthing \in Pins /\ currentthing \notin Objects
          /\ t1 # NULL /\ pinned' = [pinned EXCEPT ![currentthing] = <<t1, t2>>]
          /\ UNCHANGED <<things, before, mouse_joint, invisible, b2body>>
      BY <2>3, PinFacts, ThingKinds DEF Pin, PInv, WInv
    <3>2. pinned'[currentthing][1] # NULL /\ \A p \in Pins \ {currentthing} : pinned'[p] = pinned[p]
      BY <3>1 DEF PInv, WInv, WTypeOK
    <3>3. QED BY <1>0, <2>1, <3>1, <3>2, UpKeeps
  <2>4. QED BY <1>7, <2>2, <2>3 DEF PenUpPin
<1>8. CASE PenUpMove
  BY <1>0, <1>8, UpMoves
<1>9. CASE PenUpDelete
  <2>1. /\ drawing /\ pen_mode = "Delete" /\ StrokeEnds
        /\ UNCHANGED <<pen_mode, move_connected, simulating>>
    BY <1>9 DEF PenUpDelete
  <2>2. currentthing = NULL /\ move_connected = {} /\ mouse_joint = NULL
    BY <2>1, ModeFacts DEF PInv, StrokeOwns, DragEnds
  <2>3. ASSUME NEW t, Discard(t) PROVE PInv'
    BY <1>0, <2>1, <2>2, <2>3, UpDiscards
  <2>4. CASE Idle
    <3>1. UNCHANGED wvars /\ currentthing' = NULL /\ drawing' = FALSE
      BY <2>1, <2>4 DEF Idle, StrokeEnds
    <3>2. TypeOK' /\ StrokeOwns' /\ DragEnds'
      BY <1>0, <2>1, <2>2, <3>1 DEF PInv, TypeOK, WInv, StrokeOwns, DragEnds, wvars
    <3>3. VisibleIsPhysical' /\ HiddenInScene' /\ PinsPinned' /\ MoveClosed'
      BY <2>1, <2>2, <3>1 DEF PInv, VisibleIsPhysical, HiddenInScene, PinsPinned, MoveClosed, wvars
    <3>4. QED BY <1>0, <3>2, <3>3 DEF PInv
  <2>5. QED BY <1>9, <2>3, <2>4 DEF PenUpDelete
<1>10. CASE (\E m \in PenModes : SetPenMode(m)) \/ StartPlay \/ PausePlay
  <2>1. /\ UNCHANGED wvars /\ UNCHANGED stroke /\ ~ drawing
        /\ pen_mode' \in PenModes /\ simulating' \in BOOLEAN
    BY <1>10 DEF SetPenMode, StartPlay, PausePlay, Idle, NoStroke, PInv, TypeOK
  <2>2. VisibleIsPhysical' /\ HiddenInScene'
    BY <2>1 DEF PInv, VisibleIsPhysical, HiddenInScene, wvars, stroke
  <2>3. QED BY <1>0, <2>1, <2>2, SceneKept DEF wvars
<1>11. CASE StopPlay
  <2>1. /\ Reset({}) /\ UNCHANGED stroke /\ ~ drawing
        /\ pen_mode' \in PenModes /\ simulating' \in BOOLEAN
    BY <1>11 DEF StopPlay, NoStroke, PInv, TypeOK
  <2>2. UNCHANGED currentthing
    BY <2>1 DEF stroke
  <2>3. QED BY <1>0, <2>1, <2>2, ResetSeen, SceneKept
<1>12. CASE ZapPushed
  BY <1>0, <1>12, ZapSeen
<1>13. ASSUME NEW f \in Sketches, NEW a \in [1..Len(f.elements) -> Things], LoadPushed(f, a)
       PROVE  PInv'
  BY <1>0, <1>13, LoadSeen
<1>14. CASE ResetKeys
  <2>1. PICK F \in SUBSET ({currentthing} \cap Objects) : Reset(F)
    BY <1>14 DEF ResetKeys
  <2>2. UNCHANGED cvars /\ UNCHANGED stroke /\ UNCHANGED currentthing
    BY <1>14 DEF ResetKeys, cvars, stroke
  <2>3. F \subseteq {currentthing}
    OBVIOUS
  <2>4. QED BY <1>0, <2>1, <2>2, <2>3, ResetSeen, SceneKept
<1>15. CASE SimulationStep
  <2>1. PICK M \in SUBSET bodies : Step(M)
    BY <1>15 DEF SimulationStep
  <2>2. UNCHANGED cvars /\ UNCHANGED stroke /\ UNCHANGED currentthing
    BY <1>15 DEF SimulationStep, cvars, stroke
  <2>3. QED BY <1>0, <2>1, <2>2, StepSeen, SceneKept
<1>16. CASE (Halted /\ UNCHANGED cvars) \/ UNCHANGED vars
  <2>1. UNCHANGED wvars /\ UNCHANGED cvars
    BY <1>16 DEF Halted, vars
  <2>2. VisibleIsPhysical' /\ HiddenInScene'
    BY <2>1 DEF PInv, VisibleIsPhysical, HiddenInScene, wvars, cvars
  <2>3. QED BY <1>0, <2>1, <2>2, SceneKept DEF wvars, cvars, stroke
<1>17. QED
  BY <1>1, <1>2, <1>3, <1>4, <1>5, <1>6, <1>7, <1>8, <1>9, <1>10, <1>11, <1>12, <1>13,
     <1>14, <1>15, <1>16 DEF Next, Canvas

\* The invariant of the program, for every set of things and sketches.
THEOREM StrokeInvariant == Spec => []PInv
<1>1. QED BY PInit, PStep, PTL DEF Spec

\* The scene, the stroke and the modes always have the types of the code's variables.
THEOREM ProgramTypeCorrect == Spec => []TypeOK
<1>1. PInv => TypeOK
  BY DEF PInv
<1>2. QED BY <1>1, StrokeInvariant, PTL

\* currentthing is set exactly during a drawing stroke, comes last in the array,
\* and is held by no pin; move_connected_things is filled only by a move in pause.
THEOREM StrokesOwn == Spec => []StrokeOwns
<1>1. PInv => StrokeOwns
  BY DEF PInv
<1>2. QED BY <1>1, StrokeInvariant, PTL

\* World::mouse_joint is set exactly from penDown to penUp of a drag, whatever the
\* L and R keys do in between.
THEOREM DragsEnd == Spec => []DragEnds
<1>1. PInv => DragEnds
  BY DEF PInv
<1>2. QED BY <1>1, StrokeInvariant, PTL

\* Canvas and World leave no object that is seen but not simulated.
THEOREM VisiblePhysical == Spec => []VisibleIsPhysical
<1>1. PInv => VisibleIsPhysical
  BY DEF PInv
<1>2. QED BY <1>1, StrokeInvariant, PTL
-----------------------------------------------------------------------------
(***************************************************************************)
(* The stop button and the end of a move.                                  *)
(***************************************************************************)
\* Between strokes every pin of the scene is attached by a reset: its things have
\* bodies and come first.
LEMMA AllAttached ==
  ASSUME PInv, ~ drawing
  PROVE  /\ Attached(things \cap Pins, pinned, Rebuilt({})) = things \cap Pins
         /\ Botched(things \cap Pins, pinned, Rebuilt({})) = {}
<1>1. currentthing = NULL
  BY Resting
<1>2. ASSUME NEW p \in things \cap Pins
      PROVE  pinned[p][1] \in Rebuilt({})[p] /\ pinned[p][2] \in Rebuilt({})[p] \cup {NULL}
  <2>1. pinned[p][1] # NULL
    BY <1>1, ThingKinds DEF PInv, PinsPinned, Things
  <2>2. pinned[p][1] \in Objects \cup {NULL} /\ pinned[p][2] \in Objects \cup {NULL}
    BY DEF PInv, WInv, WTypeOK
  <2>3. \A t \in {pinned[p][1], pinned[p][2]} \ {NULL} : t \in things /\ <<t, p>> \in before
    BY DEF PInv, WInv, PinnedPrecede
  <2>4. QED BY <2>1, <2>2, <2>3 DEF Rebuilt
<1>3. QED BY <1>2 DEF Attached, Botched

LEMMA StopStep ==
  ASSUME PInv, StopPlay
  PROVE  /\ things' = things /\ things \cap Objects = b2body'
         /\ things \cap Pins = b2joint' /\ invisible' = {}
         /\ fault' = "none"
<1>1. ~ drawing /\ Reset({}) /\ UNCHANGED currentthing
  BY DEF StopPlay, NoStroke, stroke
<1>2. things' = things /\ b2body' = things \cap Objects
  BY <1>1 DEF Reset, array
<1>3. invisible' = {}
  BY <1>1, ResetSeen
<1>4. b2joint' = things \cap Pins
  <2>1. b2joint \ (things \cap Pins) = {}
    BY PinFacts DEF PInv, WInv
  <2>2. Attach(things \cap Pins, pinned, Rebuilt({}), {}, b2joint \ (things \cap Pins))
    BY <1>1 DEF Reset
  <2>3. QED BY <1>1, <2>1, <2>2, AllAttached DEF Attach
<1>5. fault' = "none"
  <2>1. \A j \in joints : j.user # NULL
    BY <1>1, Resting, ThingKinds DEF PInv, WInv, WTypeOK, OneMouseJoint
  <2>2. QED BY <1>1, <2>1, AllAttached DEF Reset, Running
<1>6. QED BY <1>2, <1>3, <1>4, <1>5

\* stopPlay of main.cpp shows every object again, physical, with all pins attached.
THEOREM StopBringsBack == Spec => StopRestores
<1>1. PInv /\ [Next]_vars =>
        [StopPlay => /\ things' = things /\ things \cap Objects = b2body'
                     /\ things \cap Pins = b2joint' /\ invisible' = {}
                     /\ fault' = "none"]_vars
  BY StopStep
<1>2. QED BY <1>1, StrokeInvariant, PTL DEF Spec, StopRestores

LEMMA MoveStep ==
  ASSUME PInv, PenUpMove, ~ simulating, move_connected \cap Objects \subseteq b2body
  PROVE  move_connected \cap Pins \subseteq b2joint' /\ fault' = "none"
<1> DEFINE P == move_connected \cap Pins
           phys == [p \in Pins |-> b2body]
<1>1. Repin(P)
  BY DEF PenUpMove
<1>2. currentthing = NULL
  BY ModeFacts DEF PInv, StrokeOwns, PenUpMove
<1>3. ASSUME NEW p \in P
      PROVE  pinned[p][1] \in phys[p] /\ pinned[p][2] \in phys[p] \cup {NULL}
  <2>1. p \in things
    BY DEF PInv, TypeOK
  <2>2. pinned[p][1] # NULL
    BY <1>2, <2>1, ThingKinds DEF PInv, PinsPinned, Things
  <2>3. pinned[p][1] \in Objects \cup {NULL} /\ pinned[p][2] \in Objects \cup {NULL}
    BY DEF PInv, WInv, WTypeOK
  <2>4. \A t \in {pinned[p][1], pinned[p][2]} \ {NULL} : t \in things
    BY DEF PInv, WInv, PinnedPrecede
  <2>5. \A t \in {pinned[p][1], pinned[p][2]} \ {NULL} : t \in move_connected
    BY <2>4 DEF PInv, MoveClosed, Linked
  <2>6. QED BY <2>2, <2>3, <2>5
<1>4. Attached(P, pinned, phys) = P /\ Botched(P, pinned, phys) = {}
  BY <1>3 DEF Attached, Botched
<1>5. Attach(P, pinned, phys, JointsWithout(P), PointersWithout(P)) /\ fault' = fault
  BY <1>1, <1>4 DEF Repin
<1> HIDE DEF phys
<1>6. P \subseteq b2joint'
  BY <1>4, <1>5 DEF Attach
<1>7. QED BY <1>1, <1>5, <1>6 DEF Repin, Running

\* Canvas::penUp after a move in pause attaches every pin that it detached.
THEOREM MovesKeepPins == Spec => MoveKeepsPins
<1>1. PInv /\ [Next]_vars =>
        [PenUpMove /\ ~ simulating /\ move_connected \cap Objects \subseteq b2body
           => move_connected \cap Pins \subseteq b2joint' /\ fault' = "none"]_vars
  BY MoveStep
<1>2. QED BY <1>1, StrokeInvariant, PTL DEF Spec, MoveKeepsPins
=============================================================================
