------------------------------- MODULE World -------------------------------
(***************************************************************************)
(* The scene of Pocket Physics: class World (src/source/world.cpp), the    *)
(* Thing and Pin records it keeps, the two Box2D listeners it installs,    *)
(* and what its calls make of the Box2D world (external: bodies, joints).  *)
(*                                                                         *)
(* A Thing is an address: an object (a Polygon or a Circle) or a Pin.      *)
(* An action is one call of a World method together with the `new' or      *)
(* `delete' its callers put around it.  The guard of an action states what *)
(* its callers promise; PocketPhysics.tla shows that they keep the promise.*)
(***************************************************************************)
EXTENDS Naturals, Sequences, FiniteSets

CONSTANTS
  Objects,      \* addresses of Polygon and Circle things
  Pins,         \* addresses of Pin things
  MAX_THINGS,   \* capacity of World::things
  NULL,         \* the null pointer
  BG,           \* bgbody, the static body that pins and drags attach to
  Sketches      \* the .pp files on the card: [elements, valid]

Things == Objects \cup Pins
Types  == {"Dynamic", "Solid"}
Joints == [user : Pins \cup {NULL}, body1 : Objects \cup {BG}, body2 : Objects \cup {BG}]

(***************************************************************************)
(* A sketch is what World::save writes: things in array order, a pin       *)
(* naming the positions of its things (0: none).  A file that is damaged   *)
(* (valid = FALSE) is only readable up to its first unknown element.       *)
(***************************************************************************)
IsElement(s, i) ==
  LET ids == s[i].pinned
  IN  /\ s[i].type \in Types
      /\ IF s[i].pin
         THEN /\ ids[1] \in 1..(i - 1) /\ ~ s[ids[1]].pin
              /\ ids[2] = 0 \/ (ids[2] \in 1..(i - 1) /\ ~ s[ids[2]].pin)
         ELSE ids = <<0, 0>>

Element == [pin : BOOLEAN, type : Types, pinned : Nat \X Nat]

ASSUME ConstantsAssumption ==
  /\ Objects \cap Pins = {}
  /\ {NULL, BG} \cap Things = {} /\ NULL \notin Joints \cup {BG}
  /\ MAX_THINGS \in Nat
  /\ \A f \in Sketches :
       /\ f.elements \in Seq(Element) /\ f.valid \in BOOLEAN
       /\ Len(f.elements) <= MAX_THINGS
       /\ \A i \in 1..Len(f.elements) : IsElement(f.elements, i)

VARIABLES
  heap,        \* things that are allocated and not yet deleted
  things,      \* World::things[0 .. n_things-1], as a set ...
  before,      \* ... and the order of the array: <<t, u>> if t has the smaller index
  type,        \* Thing::type of the objects
  pinned,      \* Pin::thing1 and Pin::thing2
  b2body,      \* objects whose pointer Thing::b2body is set
  b2joint,     \* pins whose pointer Pin::b2joint is set
  bodies,      \* owners of the bodies in the Box2D world (bgbody not counted)
  joints,      \* joints in the Box2D world
  mouse_joint, \* World::mouse_joint
  invisible,   \* Thing::invisible
  orphaned,    \* TRUE once a pointer to a joint in the Box2D world was overwritten
  fault        \* the undefined behaviour that has been executed, if any

array == <<heap, things, before, type, pinned>>
wvars == <<heap, things, before, type, pinned, b2body, b2joint, bodies,
           joints, mouse_joint, invisible, orphaned, fault>>

(***************************************************************************)
(* The ways in which the program's behaviour becomes undefined.  The model *)
(* stops there.                                                            *)
(***************************************************************************)
Faults == {"none",
           "mouse joint",  \* mouse_joint is used after Box2D freed it
           "pin body",     \* b2RevoluteJointDef::Initialize reads body2 = 0
           "goodbye",      \* SayGoodbye writes through the mouse joint's null userData
           "pin type",     \* Thing's constructor compares the type that a saved pin lacks
           "id table"}     \* World::load writes behind id_table

\* Seeded fault: pin() has no background body for a pin with one thing.
RevoluteJointNoBg(p, ts) == [user |-> p, body1 |-> ts[1], body2 |-> ts[2]]

RevoluteJoint(p, ts) == [user |-> p, body1 |-> ts[1],
                         body2 |-> IF ts[2] = NULL THEN BG ELSE ts[2]]
MouseJoint(t) == [user |-> NULL, body1 |-> BG, body2 |-> t]

Unpinned == <<NULL, NULL>>

Running == fault = "none"
Idle    == Running /\ UNCHANGED wvars

WInit ==
  /\ heap = {} /\ things = {} /\ before = {}
  /\ type = [o \in Objects |-> "Dynamic"]
  /\ pinned = [p \in Pins |-> Unpinned]
  /\ b2body = {} /\ b2joint = {} /\ bodies = {} /\ joints = {}
  /\ mouse_joint = NULL /\ invisible = {} /\ orphaned = FALSE
  /\ fault = "none"
-----------------------------------------------------------------------------
(***************************************************************************)
(* World::makeUnphysical on the things of S.  b2World::DestroyBody takes   *)
(* the joints of the body with it, after SayGoodbye cleared the pointer of *)
(* each joint's pin; it knows nothing of World::mouse_joint.               *)
(***************************************************************************)
\* Seeded fault: remove() looks at the first thing of a pin only.
PinsOnFirst(S) == {p \in things \cap Pins : pinned[p][1] \in S}

PinsOn(S) == {p \in things \cap Pins : pinned[p][1] \in S \/ pinned[p][2] \in S}

Gone(S) == {j \in joints : \/ j.body1 \in S \cap b2body
                           \/ j.body2 \in S \cap b2body
                           \/ j.user \in S \cap b2joint}

JointsWithout(S)   == joints \ Gone(S)
\* Seeded fault: no destruction listener is installed.
PointersUntold(S) == b2joint \ S

PointersWithout(S) == b2joint \ (S \cup {j.user : j \in Gone(S)})

\* Writing to 0x0 + offset is harmless or not, depending on what lies there.
Goodbye(S) ==
  fault' \in IF \E j \in Gone(S) : j.user = NULL THEN {fault, "goodbye"} ELSE {fault}

(***************************************************************************)
(* World::pin on the pins of P with the things e, when the objects that    *)
(* have a body by then are phys[p].  Without thing1's body nothing happens,*)
(* without thing2's body a null pointer is followed.                       *)
(***************************************************************************)
\* Seeded fault: a pin with one thing is not attached to the background.
AttachedPairs(P, e, phys) == {p \in P : e[p][1] \in phys[p] /\ e[p][2] \in phys[p]}

Attached(P, e, phys) ==
  {p \in P : e[p][1] \in phys[p] /\ e[p][2] \in phys[p] \cup {NULL}}
Botched(P, e, phys) ==
  {p \in P : e[p][1] \in phys[p] /\ e[p][2] \notin phys[p] \cup {NULL}}

Attach(P, e, phys, kept, pointers) ==
  /\ joints'   = kept \cup {RevoluteJoint(p, e[p]) : p \in Attached(P, e, phys)}
  /\ b2joint'  = pointers \cup Attached(P, e, phys)
  /\ orphaned' = (orphaned \/ pointers \cap Attached(P, e, phys) # {})

\* The memory of a thing that left the scene is not read again: it takes the
\* values of a constructor.
Forget(S) ==
  /\ type'   = [o \in Objects |-> IF o \in S THEN "Dynamic" ELSE type[o]]
  /\ pinned' = [p \in Pins |-> IF p \in S THEN Unpinned ELSE pinned[p]]
-----------------------------------------------------------------------------
\* Seeded fault: the capacity test of add() is off by one.
AddOneMore(t, ty) ==
  /\ Running
  /\ t \notin heap
  /\ Cardinality(things) <= MAX_THINGS
  /\ heap' = heap \cup {t}
  /\ things' = things \cup {t}
  /\ before' = before \cup (things \X {t})
  /\ type' = [o \in Objects |-> IF o = t THEN ty ELSE type[o]]
  /\ UNCHANGED <<pinned, b2body, b2joint, bodies, joints, mouse_joint, invisible,
                 orphaned, fault>>

\* new Polygon / Circle / Pin, then World::add
Add(t, ty) ==
  /\ Running
  /\ t \notin heap
  /\ Cardinality(things) # MAX_THINGS
  /\ heap' = heap \cup {t}
  /\ things' = things \cup {t}
  /\ before' = before \cup (things \X {t})
  /\ type' = [o \in Objects |-> IF o = t THEN ty ELSE type[o]]
  /\ UNCHANGED <<pinned, b2body, b2joint, bodies, joints, mouse_joint, invisible,
                 orphaned, fault>>

\* World::add refuses: the caller drops its pointer, the new thing stays allocated
AddFull(t) ==
  /\ Running
  /\ t \notin heap
  /\ Cardinality(things) = MAX_THINGS
  /\ heap' = heap \cup {t}
  /\ UNCHANGED <<things, before, type, pinned, b2body, b2joint, bodies, joints,
                 mouse_joint, invisible, orphaned, fault>>

\* Seeded fault: makePhysical() forgets to set the thing's pointer to its body.
MakePhysicalUnset(o) ==
  /\ Running
  /\ o \in things \cap Objects /\ o \notin b2body
  /\ PinsOn({o}) = {}
  /\ bodies' = bodies \cup {o}
  /\ UNCHANGED <<array, b2body, b2joint, joints, mouse_joint, invisible, orphaned, fault>>

\* World::makePhysical of an object that has no body (with one it returns false)
MakePhysical(o) ==
  /\ Running
  /\ o \in things \cap Objects /\ o \notin b2body
  /\ PinsOn({o}) = {}
  /\ b2body' = b2body \cup {o}
  /\ bodies' = bodies \cup {o}
  /\ UNCHANGED <<array, b2joint, joints, mouse_joint, invisible, orphaned, fault>>

\* World::pin of a pin that is not attached yet; t2 is NULL for the background
Pin(p, t1, t2) ==
  LET e == [pinned EXCEPT ![p] = <<t1, t2>>]
  IN  /\ Running
      /\ p \in things \cap Pins /\ pinned[p] = Unpinned
      /\ t1 \in b2body /\ t2 \in b2body \cup {NULL} /\ t1 # t2
      /\ \A t \in {t1, t2} \ {NULL} : <<t, p>> \in before
      /\ pinned' = e
      /\ Attach({p}, e, [q \in Pins |-> b2body], joints, b2joint)
      /\ UNCHANGED <<heap, things, before, type, b2body, bodies, mouse_joint,
                     invisible, fault>>

\* World::grab
Grab(o) ==
  /\ Running
  /\ o \in b2body
  /\ mouse_joint = NULL
  /\ mouse_joint' = MouseJoint(o)
  /\ joints' = joints \cup {MouseJoint(o)}
  /\ UNCHANGED <<array, b2body, b2joint, bodies, invisible, orphaned, fault>>

\* World::drag, of which only the use of a freed joint shows here
Drag ==
  /\ Running
  /\ mouse_joint \notin joints \cup {NULL}
  /\ fault' = "mouse joint"
  /\ UNCHANGED <<array, b2body, b2joint, bodies, joints, mouse_joint, invisible,
                 orphaned>>

\* Seeded fault: letGo() forgets the joint without destroying it.
LetGoKeepsJoint ==
  /\ Running
  /\ mouse_joint # NULL
  /\ mouse_joint' = NULL
  /\ UNCHANGED <<array, b2body, b2joint, bodies, joints, invisible, orphaned, fault>>

\* World::letGo
LetGo ==
  /\ Running
  /\ mouse_joint # NULL
  /\ mouse_joint' = NULL
  /\ joints' = joints \ {mouse_joint}
  /\ fault' = IF mouse_joint \in joints THEN fault ELSE "mouse joint"
  /\ UNCHANGED <<array, b2body, b2joint, bodies, invisible, orphaned>>

(***************************************************************************)
(* World::step: Box2D integrates and reports the dynamic bodies M that     *)
(* left the world (PPBoundaryListener marks their things); afterwards they *)
(* are made unphysical and hidden.                                         *)
(***************************************************************************)
Step(M) ==
  /\ Running
  /\ M \subseteq {o \in bodies : type[o] = "Dynamic"}
  /\ b2body' = b2body \ M
  /\ bodies' = bodies \ M
  /\ joints' = JointsWithout(M)
  /\ b2joint' = PointersWithout(M)
  /\ invisible' = invisible \cup M
  /\ Goodbye(M)
  /\ UNCHANGED <<array, mouse_joint, orphaned>>

(***************************************************************************)
(* World::reset: a new Box2D world in which the things become physical     *)
(* again in array order, so a pin finds only bodies of smaller index.  F   *)
(* are the objects whose convex decomposition fails.  mouse_joint keeps    *)
(* its value although bgbody and all joints die.                           *)
(***************************************************************************)
\* Seeded fault: reset() walks the array from its end.
RebuiltBackwards(F) ==
  [p \in Pins |-> {o \in (things \cap Objects) \ F : <<p, o>> \in before}]

Rebuilt(F) == [p \in Pins |-> {o \in (things \cap Objects) \ F : <<o, p>> \in before}]

Reset(F) ==
  LET P == things \cap Pins
  IN  /\ Running
      /\ F \subseteq things \cap Objects
      /\ b2body' = (things \cap Objects) \ F
      /\ bodies' = (things \cap Objects) \ F
      /\ Attach(P, pinned, Rebuilt(F), {}, b2joint \ P)
      /\ invisible' = invisible \ things
      /\ fault' \in IF Botched(P, pinned, Rebuilt(F)) # {} THEN {"pin body"}
                    ELSE IF \E j \in joints : j.user = NULL THEN {fault, "goodbye"}
                    ELSE {fault}
      /\ UNCHANGED <<array, mouse_joint>>

\* makeUnphysical, then makePhysical, on the pins of P (Canvas::penUp after a move)
Repin(P) ==
  LET phys == [p \in Pins |-> b2body]
  IN  /\ Running
      /\ P \subseteq things \cap Pins
      /\ Attach(P, pinned, phys, JointsWithout(P), PointersWithout(P))
      /\ fault' = IF Botched(P, pinned, phys) # {} THEN "pin body" ELSE fault
      /\ UNCHANGED <<array, b2body, bodies, mouse_joint, invisible>>

(***************************************************************************)
(* World::remove, which takes the attached pins with it, and `delete' of   *)
(* the one thing the caller knows of.                                      *)
(***************************************************************************)
Discard(t) ==
  LET D == {t} \cup PinsOn({t})
  IN  /\ Running
      /\ t \in things
      /\ heap' = heap \ {t}
      /\ things' = things \ D
      /\ before' = {e \in before : e[1] \notin D /\ e[2] \notin D}
      /\ Forget(D)
      /\ b2body' = b2body \ D
      /\ bodies' = bodies \ D
      /\ joints' = JointsWithout(D)
      /\ b2joint' = PointersWithout(D)
      /\ invisible' = invisible \ D
      /\ Goodbye(D)
      /\ UNCHANGED <<mouse_joint, orphaned>>

(***************************************************************************)
(* The loop that removes and deletes getThing(0) until nothing is left.    *)
(* A pin that comes after one of its things is removed together with it    *)
(* and never reaches the front of the array, so it is not deleted.         *)
(***************************************************************************)
HeapAfterClear ==
  heap \ {t \in things : t \in Pins => \A i \in 1..2 : <<pinned[t][i], t>> \notin before}

\* zap: stopPlay (World::reset), then the clearing loop
Zap ==
  /\ Running
  /\ mouse_joint = NULL
  /\ heap' = HeapAfterClear
  /\ things' = {} /\ before' = {} /\ Forget(things)
  /\ b2body' = b2body \ things /\ b2joint' = b2joint \ things
  /\ bodies' = {} /\ joints' = {}
  /\ invisible' = invisible \ things
  /\ UNCHANGED <<mouse_joint, orphaned, fault>>

(***************************************************************************)
(* World::load of the sketch f: the clearing loop, then one new thing per  *)
(* element (a[i] is the address `new' returns), each added and made        *)
(* physical, then reset.  id_table has MAX_THINGS entries and object i     *)
(* writes entry i.  save() gives a pin no type, and the constructor from   *)
(* XML passes the missing one to strcmp: at 0x0 this may go unnoticed.     *)
(* A damaged file is left without reset, and the same constructor does not *)
(* initialise invisible.                                                   *)
(***************************************************************************)
Load(f, a) ==
  LET s    == f.elements
      n    == Len(s)
      New  == {a[i] : i \in 1..n}
      At(i) == IF i = 0 THEN NULL ELSE a[i]
      Pos(t) == CHOOSE i \in 1..n : a[i] = t
      e    == [p \in Pins |->
                 IF p \in New THEN <<At(s[Pos(p)].pinned[1]), At(s[Pos(p)].pinned[2])>>
                 ELSE IF p \in things THEN Unpinned ELSE pinned[p]]
      objects == New \cap Objects
  IN  /\ Running
      /\ mouse_joint = NULL
      /\ f \in Sketches
      /\ a \in [1..n -> Things \ HeapAfterClear]
      /\ \A i, k \in 1..n : i # k => a[i] # a[k]
      /\ \A i \in 1..n : a[i] \in Pins <=> s[i].pin
      /\ heap' = HeapAfterClear \cup New
      /\ things' = New
      /\ before' = {tu \in New \X New : \E i, k \in 1..n : i < k /\ tu = <<a[i], a[k]>>}
      /\ type' = [o \in Objects |-> IF o \in New THEN s[Pos(o)].type
                                    ELSE IF o \in things THEN "Dynamic" ELSE type[o]]
      /\ pinned' = e
      /\ b2body' = (b2body \ things) \cup objects
      /\ bodies' = (bodies \ things) \cup objects
      /\ Attach(New \cap Pins, e, [p \in Pins |-> objects],
                JointsWithout(things), PointersWithout(things))
      /\ IF f.valid THEN invisible' = invisible \ (things \cup New)
                    ELSE \E h \in SUBSET New : invisible' = (invisible \ things) \cup h
      /\ fault' \in IF \E i \in 1..n : ~ s[i].pin /\ i >= MAX_THINGS THEN {"id table"}
                    ELSE IF \E i \in 1..n : s[i].pin THEN {fault, "pin type"}
                    ELSE {fault}
      /\ UNCHANGED <<mouse_joint, orphaned>>

\* Behaviour after a fault is undefined; the model takes no further step.
Halted == ~ Running /\ UNCHANGED wvars

WNext ==
  \/ \E t \in Things, ty \in Types : Add(t, ty)
  \/ \E t \in Things : AddFull(t)
  \/ \E o \in Objects : MakePhysical(o)
  \/ \E p \in Pins, t1 \in Objects, t2 \in Objects \cup {NULL} : Pin(p, t1, t2)
  \/ \E o \in Objects : Grab(o)
  \/ Drag
  \/ LetGo
  \/ \E M \in SUBSET Objects : Step(M)
  \/ \E F \in SUBSET Objects : Reset(F)
  \/ \E P \in SUBSET Pins : Repin(P)
  \/ \E t \in Things : Discard(t)
  \/ Zap
  \/ \E f \in Sketches : \E a \in [1..Len(f.elements) -> Things] : Load(f, a)
  \/ Halted

WSpec == WInit /\ [][WNext]_wvars
-----------------------------------------------------------------------------
(***************************************************************************)
(* Correctness.                                                            *)
(***************************************************************************)
WTypeOK ==
  /\ heap \subseteq Things /\ things \subseteq heap
  /\ before \subseteq things \X things
  /\ \A t, u \in things : t # u => (<<t, u>> \in before <=> <<u, t>> \notin before)
  /\ type \in [Objects -> Types]
  /\ pinned \in [Pins -> (Objects \cup {NULL}) \X (Objects \cup {NULL})]
  /\ b2body \subseteq Objects /\ bodies \subseteq Objects /\ b2joint \subseteq Pins
  /\ joints \subseteq Joints
  /\ mouse_joint \in {NULL} \cup {MouseJoint(o) : o \in Objects}
  /\ invisible \subseteq Things
  /\ orphaned \in BOOLEAN /\ fault \in Faults

\* Adding and loading never overrun the array World::things.
Capacity == IsFiniteSet(things) /\ Cardinality(things) <= MAX_THINGS

(***************************************************************************)
(* The Box2D world and the scene agree on the bodies: each body belongs to *)
(* a thing of the scene that points to it, and no thing points to a        *)
(* destroyed body (getPosition and draw follow Thing::b2body).             *)
(***************************************************************************)
BodyOwner == bodies = b2body /\ b2body \subseteq things

(***************************************************************************)
(* A pin's things are in the scene and have smaller indices than the pin:  *)
(* no pin outlives its thing, save finds the ids it writes, and reset      *)
(* rebuilds the bodies before the pins that need them.                     *)
(***************************************************************************)
PinnedPrecede ==
  \A p \in Pins :
    /\ \A t \in {pinned[p][1], pinned[p][2]} \ {NULL} :
         p \in things /\ t \in things /\ <<t, p>> \in before
    /\ pinned[p][1] = NULL => pinned[p][2] = NULL

(***************************************************************************)
(* Pin::b2joint is set exactly for the pins with a joint in the Box2D      *)
(* world, that joint holds the two things the pin names, both have a body, *)
(* and no joint was lost by overwriting the pointer to it.                 *)
(***************************************************************************)
JointOwner ==
  /\ ~ orphaned
  /\ \A p \in b2joint : RevoluteJoint(p, pinned[p]) \in joints
  /\ \A j \in joints :
       /\ j.body1 \in bodies \cup {BG} /\ j.body2 \in bodies \cup {BG}
       /\ j.user # NULL => /\ j.user \in b2joint \cap things
                           /\ j = RevoluteJoint(j.user, pinned[j.user])

\* Every drag joint in the Box2D world is the one World::letGo will destroy.
OneMouseJoint == \A j \in joints : j.user = NULL => j = mouse_joint

(***************************************************************************)
(* A pin holds whenever it can: as long as all its things have bodies it   *)
(* has its joint, through steps, moves, resets and loads.                  *)
(***************************************************************************)
PinHolds ==
  Running =>
    \A p \in Pins :
      (pinned[p][1] \in b2body /\ pinned[p][2] \in b2body \cup {NULL}) => p \in b2joint

(***************************************************************************)
(* The world keeps the promises of Scene: whatever sequence of calls, a    *)
(* joint is in the Box2D world exactly for the pins all of whose objects   *)
(* are, and each call changes just its part of the drawing.                *)
(***************************************************************************)
PinnedThings == [p \in Pins |-> {pinned[p][1], pinned[p][2]} \ {NULL}]
JointPins    == {p \in Pins : \E j \in joints : j.user = p}

Paper == INSTANCE Scene WITH
           drawn <- things, tied <- PinnedThings, away <- (things \cap Objects) \ bodies,
           holding <- JointPins, defined <- Running

SceneSpec == Paper!SSpec

WInv == /\ WTypeOK /\ Capacity /\ BodyOwner /\ PinnedPrecede
        /\ JointOwner /\ OneMouseJoint /\ PinHolds
=============================================================================
