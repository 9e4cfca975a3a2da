----------------------------- MODULE VBlankDraw -----------------------------
(***************************************************************************)
(* The calls of class World statement by statement, under the VBlank       *)
(* interrupt.  VBlankHandler (src/source/main.cpp) runs to its end between *)
(* two statements of the main loop, walks the array and follows the        *)
(* pointers it finds; it changes nothing here.  What it would meet is      *)
(* therefore a predicate on states: DrawSafe.                              *)
(*                                                                         *)
(* todo is what is left of the call that the main loop is in: a statement  *)
(* that calls a method is replaced by the statements of that method.       *)
(* Things, joints and addresses are those of World.tla; a joint is named   *)
(* by its pin.  An address that the array does not hold may be returned by *)
(* `new': what leaked there is not read again.                             *)
(***************************************************************************)
EXTENDS Naturals, Sequences, FiniteSets

CONSTANTS
  Objects, Pins, MAX_THINGS, NULL,
  BG,         \* bgbody
  JUNK,       \* what lies in memory behind the things of the array
  Sketches    \* [elements, valid] as in World.tla

Things == Objects \cup Pins

\* What World::save writes: a pin names the places of things in front of it.
IsElement(s, i) ==
  LET ids == s[i].pinned
  IN  s[i].pin => /\ ids[1] \in 1..(i - 1) /\ ~ s[ids[1]].pin
                  /\ ids[2] = 0 \/ (ids[2] \in 1..(i - 1) /\ ~ s[ids[2]].pin)

ASSUME DrawAssumption ==
  /\ Objects \cap Pins = {} /\ {NULL, BG, JUNK} \cap Things = {}
  /\ MAX_THINGS \in Nat /\ IsFiniteSet(Things)
  /\ \A f \in Sketches :
       /\ f.elements \in Seq([pin : BOOLEAN, pinned : Nat \X Nat])
       /\ f.valid \in BOOLEAN /\ Len(f.elements) <= MAX_THINGS
       /\ \A i \in 1..Len(f.elements) : IsElement(f.elements, i)

VARIABLES
  slots,            \* World::things and the word behind it
  n_things,
  allocated,        \* things that are not deleted
  pinned,           \* Pin::thing1 and thing2
  b2body, b2joint,  \* things whose pointer is set
  bodies, joints,   \* what is alive in the Box2D world, bgbody included
  invisible,
  simulation_mode, dont_draw_things,
  call,             \* the callback that main is in, or "none"
  todo,             \* the statements it still has to execute
  was,              \* the scene when it began, as Scene.tla sees it
  fault             \* a null body was followed

scene == <<slots, n_things, allocated, pinned, invisible>>
box2d == <<b2body, b2joint, bodies, joints>>
flags == <<simulation_mode, dont_draw_things, fault>>
vars  == <<scene, box2d, flags, call, todo, was>>

Unpinned == <<NULL, NULL>>
Array    == {slots[i] : i \in 0..n_things - 1}
Now      == [drawn   |-> Array,
             tied    |-> [p \in Pins |-> IF p \in Array
                                         THEN {pinned[p][1], pinned[p][2]} \ {NULL}
                                         ELSE {}],
             away    |-> (Array \cap Objects) \ bodies,
             holding |-> joints]

Init ==
  /\ slots = [i \in 0..MAX_THINGS |-> JUNK] /\ n_things = 0
  /\ allocated = {} /\ pinned = [p \in Pins |-> Unpinned] /\ invisible = {}
  /\ b2body = {} /\ b2joint = {} /\ bodies = {BG} /\ joints = {}
  /\ simulation_mode = FALSE /\ dont_draw_things = FALSE /\ fault = FALSE
  /\ call = "none" /\ todo = <<>> /\ was = <<>>
-----------------------------------------------------------------------------
(***************************************************************************)
(* Statements.                                                             *)
(***************************************************************************)
Do(op, t) == [op |-> op, t |-> t]

\* A call of each method op for the whole array, as in `for(i<n_things)'.
ForAll(op) == [i \in 1..n_things |-> Do(op, slots[i - 1])]

Executes(op) == todo # <<>> /\ ~ fault /\ Head(todo).op = op
This         == Head(todo).t

\* The statements s come next, then the rest of the call.
Then(s) ==
  /\ todo' = s \o Tail(todo)
  /\ IF todo' = <<>> THEN call' = "none" /\ was' = <<>> ELSE UNCHANGED <<call, was>>

\* Seeded fault: the capacity test of add() is off by one.
AddOneMore ==
  /\ Executes("add")
  /\ IF n_things = MAX_THINGS + 1
     THEN Then(<<>>) /\ UNCHANGED slots
     ELSE Then(<<Do("n_things++", This)>>) /\ slots' = [slots EXCEPT ![n_things] = This]
  /\ UNCHANGED <<n_things, allocated, pinned, invisible, box2d, flags>>

\* World::add: the slot first, then the length; nothing if the array is full
AddThing ==
  /\ Executes("add")
  /\ IF n_things = MAX_THINGS
     THEN Then(<<>>) /\ UNCHANGED slots
     ELSE Then(<<Do("n_things++", This)>>) /\ slots' = [slots EXCEPT ![n_things] = This]
  /\ UNCHANGED <<n_things, allocated, pinned, invisible, box2d, flags>>

Longer ==
  /\ Executes("n_things++")
  /\ n_things' = n_things + 1
  /\ Then(<<>>)
  /\ UNCHANGED <<slots, allocated, pinned, invisible, box2d, flags>>

\* Seeded fault: the joint of a pin is destroyed before its pointer is cleared.
MakeUnphysicalJointFirst ==
  /\ Executes("makeUnphysical")
  /\ Then(IF This \in b2joint THEN <<Do("DestroyJoint", This), Do("setb2Joint(0)", This)>>
          ELSE IF This \in b2body THEN <<Do("DestroyBody", This), Do("setb2Body(0)", This)>>
          ELSE <<>>)
  /\ UNCHANGED <<scene, box2d, flags>>

\* World::makeUnphysical: the joint after its pointer, but the body before
MakeUnphysical ==
  /\ Executes("makeUnphysical")
  /\ Then(IF This \in b2joint THEN <<Do("setb2Joint(0)", This), Do("DestroyJoint", This)>>
          ELSE IF This \in b2body THEN <<Do("DestroyBody", This), Do("setb2Body(0)", This)>>
          ELSE <<>>)
  /\ UNCHANGED <<scene, box2d, flags>>

\* setb2Joint(0), also called by PPDestructionListener::SayGoodbye
ClearJoint ==
  /\ Executes("setb2Joint(0)")
  /\ b2joint' = b2joint \ {This}
  /\ Then(<<>>)
  /\ UNCHANGED <<scene, b2body, bodies, joints, flags>>

DestroyJoint ==
  /\ Executes("DestroyJoint")
  /\ joints' = joints \ {This}
  /\ Then(<<>>)
  /\ UNCHANGED <<scene, b2body, b2joint, bodies, flags>>

ClearBody ==
  /\ Executes("setb2Body(0)")
  /\ b2body' = b2body \ {This}
  /\ Then(<<>>)
  /\ UNCHANGED <<scene, b2joint, bodies, joints, flags>>

\* b2World::DestroyBody: goodbye to each joint of the body, then the body
JointsOf(b) ==
  {p \in joints : \/ b \in {pinned[p][1], pinned[p][2]}
                  \/ b = BG /\ pinned[p][2] = NULL}

DestroyBody ==
  /\ Executes("DestroyBody")
  /\ IF JointsOf(This) = {}
     THEN bodies' = bodies \ {This} /\ Then(<<>>)
     ELSE /\ \E p \in JointsOf(This) :
               Then(<<Do("setb2Joint(0)", p), Do("DestroyJoint", p), Head(todo)>>)
          /\ UNCHANGED bodies
  /\ UNCHANGED <<scene, b2body, b2joint, joints, flags>>

\* World::makePhysical and World::pin
MakePhysical ==
  /\ Executes("makePhysical")
  /\ Then(IF This \in Pins
          THEN IF pinned[This][1] = NULL THEN <<>> ELSE <<Do("pin", This)>>
          ELSE IF This \in b2body THEN <<>>
          ELSE <<Do("CreateBody", This), Do("setb2Body", This)>>)
  /\ UNCHANGED <<scene, box2d, flags>>

CreateBody ==
  /\ Executes("CreateBody")
  /\ bodies' = bodies \cup {This}
  /\ Then(<<>>)
  /\ UNCHANGED <<scene, b2body, b2joint, joints, flags>>

SetBody ==
  /\ Executes("setb2Body")
  /\ b2body' = b2body \cup {This}
  /\ Then(<<>>)
  /\ UNCHANGED <<scene, b2joint, bodies, joints, flags>>

Attach ==
  /\ Executes("pin")
  /\ IF pinned[This][1] \notin b2body THEN Then(<<>>) /\ UNCHANGED fault
     ELSE /\ Then(<<Do("CreateJoint", This), Do("setb2Joint", This)>>)
          /\ fault' = (pinned[This][2] \notin b2body \cup {NULL})
  /\ UNCHANGED <<scene, box2d, simulation_mode, dont_draw_things>>

CreateJoint ==
  /\ Executes("CreateJoint")
  /\ joints' = joints \cup {This}
  /\ Then(<<>>)
  /\ UNCHANGED <<scene, b2body, b2joint, bodies, flags>>

SetJoint ==
  /\ Executes("setb2Joint")
  /\ b2joint' = b2joint \cup {This}
  /\ Then(<<>>)
  /\ UNCHANGED <<scene, b2body, bodies, joints, flags>>
-----------------------------------------------------------------------------
(***************************************************************************)
(* World::remove: each following thing moves up, the last one being what   *)
(* lies behind the array; then the length; then the pins of the thing, one *)
(* by one, each by a call of remove.                                       *)
(***************************************************************************)
IndexOf(t) == CHOOSE i \in 0..n_things - 1 : slots[i] = t

Remove ==
  /\ Executes("remove")
  /\ Then(<<Do("makeUnphysical", This)>>
          \o [i \in 1..n_things - IndexOf(This) |-> Do("moveUp", IndexOf(This) + i - 1)]
          \o <<Do("n_things--", This), Do("removePins", This)>>)
  /\ UNCHANGED <<scene, box2d, flags>>

MoveUp ==
  /\ Executes("moveUp")
  /\ slots' = [slots EXCEPT ![This] = slots[This + 1]]
  /\ Then(<<>>)
  /\ UNCHANGED <<n_things, allocated, pinned, invisible, box2d, flags>>

\* Seeded fault: remove() does not shorten the array.
ShorterNever ==
  /\ Executes("n_things--")
  /\ n_things' = n_things
  /\ pinned' = [p \in Pins |-> IF p = This THEN Unpinned ELSE pinned[p]]
  /\ invisible' = invisible \ {This}
  /\ Then(<<>>)
  /\ UNCHANGED <<slots, allocated, box2d, flags>>

\* From now on nobody reads what the thing was: the model forgets it.
Shorter ==
  /\ Executes("n_things--")
  /\ n_things' = n_things - 1
  /\ pinned' = [p \in Pins |-> IF p = This THEN Unpinned ELSE pinned[p]]
  /\ invisible' = invisible \ {This}
  /\ Then(<<>>)
  /\ UNCHANGED <<slots, allocated, box2d, flags>>

\* Seeded fault: the loop ends after the first pin.
RemoveOnePin ==
  /\ Executes("removePins")
  /\ LET found == {i \in 0..n_things - 1 :
                     slots[i] \in Pins /\ This \in {pinned[slots[i]][1], pinned[slots[i]][2]}}
     IN  IF found = {} THEN Then(<<>>)
         ELSE \E i \in found :
                /\ \A k \in found : i <= k
                /\ Then(<<Do("remove", slots[i])>>)
  /\ UNCHANGED <<scene, box2d, flags>>

\* The search goes on where it found a pin; in front of it are none.
RemovePins ==
  /\ Executes("removePins")
  /\ LET found == {i \in 0..n_things - 1 :
                     slots[i] \in Pins /\ This \in {pinned[slots[i]][1], pinned[slots[i]][2]}}
     IN  IF found = {} THEN Then(<<>>)
         ELSE \E i \in found :
                /\ \A k \in found : i <= k
                /\ Then(<<Do("remove", slots[i]), Head(todo)>>)
  /\ UNCHANGED <<scene, box2d, flags>>

Delete ==
  /\ Executes("delete")
  /\ allocated' = allocated \ {This}
  /\ Then(<<>>)
  /\ UNCHANGED <<slots, n_things, pinned, invisible, box2d, flags>>

\* Seeded fault: the things are deleted without being removed.
ClearByDelete ==
  /\ Executes("clear")
  /\ Then(IF n_things = 0 THEN <<>> ELSE <<Do("delete", slots[0]), Head(todo)>>)
  /\ UNCHANGED <<scene, box2d, flags>>

\* while(n_things > 0): remove and delete the first thing
Clear ==
  /\ Executes("clear")
  /\ Then(IF n_things = 0 THEN <<>>
          ELSE <<Do("remove", slots[0]), Do("delete", slots[0]), Head(todo)>>)
  /\ UNCHANGED <<scene, box2d, flags>>
-----------------------------------------------------------------------------
\* World::reset
ResetCalls ==
  <<Do("DestroyBody", BG)>> \o ForAll("makeUnphysical") \o <<Do("initPhysics", NULL)>>
    \o ForAll("reset") \o ForAll("makePhysical")

Reset ==
  /\ Executes("World::reset")
  /\ Then(ResetCalls)
  /\ UNCHANGED <<scene, box2d, flags>>

\* delete b2world; initPhysics; makeJointDummy
NewWorld ==
  /\ Executes("initPhysics")
  /\ bodies' = {BG} /\ joints' = {}
  /\ Then(<<>>)
  /\ UNCHANGED <<scene, b2body, b2joint, flags>>

\* Thing::reset, refused by a thing with a body, and Thing::hide
Unhide ==
  /\ Executes("reset")
  /\ invisible' = IF This \in b2body THEN invisible ELSE invisible \ {This}
  /\ Then(<<>>)
  /\ UNCHANGED <<slots, n_things, allocated, pinned, box2d, flags>>

Hide ==
  /\ Executes("hide")
  /\ invisible' = invisible \cup {This}
  /\ Then(<<>>)
  /\ UNCHANGED <<slots, n_things, allocated, pinned, box2d, flags>>

SetDrawing ==
  /\ \/ Executes("disableDrawing") /\ dont_draw_things' = TRUE
     \/ Executes("enableDrawing") /\ dont_draw_things' = FALSE
  /\ Then(<<>>)
  /\ UNCHANGED <<scene, box2d, simulation_mode, fault>>

StopSimulationMode ==
  /\ Executes("stopSimulationMode")
  /\ simulation_mode' = FALSE
  /\ Then(<<>>)
  /\ UNCHANGED <<scene, box2d, dont_draw_things, fault>>

(***************************************************************************)
(* World::load behind its clearing loop: the element i of the sketch f     *)
(* becomes a new thing; ids is id_table.  A damaged file ends without the  *)
(* reset, and no constructor from XML initialises invisible.               *)
(***************************************************************************)
LoadElement ==
  /\ Executes("load")
  /\ LET f  == This.f
         i  == Len(This.ids) + 1
         At(k) == IF k = 0 THEN NULL ELSE This.ids[k]
     IN  IF i > Len(f.elements)
         THEN /\ Then(IF f.valid THEN <<Do("World::reset", NULL)>> ELSE <<>>)
              /\ UNCHANGED <<allocated, pinned, invisible>>
         ELSE \E t \in Things \ Array :
                LET e == f.elements[i]
                IN  /\ t \in Pins <=> e.pin
                    /\ allocated' = allocated \cup {t}
                    /\ pinned' = [p \in Pins |-> IF p = t THEN <<At(e.pinned[1]), At(e.pinned[2])>>
                                                 ELSE pinned[p]]
                    /\ invisible' \in {invisible \ {t}, invisible \cup {t}}
                    /\ Then(<<Do("add", t), Do("makePhysical", t),
                              Do("load", [f |-> f, ids |-> Append(This.ids, t)])>>)
  /\ UNCHANGED <<slots, n_things, box2d, flags>>

Statement ==
  \/ AddThing \/ Longer \/ Remove \/ MoveUp \/ Shorter \/ RemovePins \/ Delete \/ Clear
  \/ MakeUnphysical \/ ClearJoint \/ DestroyJoint \/ ClearBody \/ DestroyBody
  \/ MakePhysical \/ CreateBody \/ SetBody \/ Attach \/ CreateJoint \/ SetJoint
  \/ Reset \/ NewWorld \/ Unhide \/ Hide \/ SetDrawing \/ StopSimulationMode \/ LoadElement
-----------------------------------------------------------------------------
(***************************************************************************)
(* The callbacks and handlers that the main loop calls.                    *)
(***************************************************************************)
Call(c, s) ==
  /\ call = "none"
  /\ call' = c /\ todo' = s /\ was' = Now

\* Canvas::penDown with a new thing
PenDown(t) ==
  /\ t \notin Array
  /\ Call("penDown", <<Do("add", t)>>)
  /\ allocated' = allocated \cup {t}
  /\ UNCHANGED <<slots, n_things, pinned, invisible, box2d, flags>>

\* Canvas::penUp: an object is finished, a pin is put through its things
PenUpObject(o) ==
  /\ o \in Array \ (b2body \cup invisible)
  /\ Call("penUp", <<Do("makePhysical", o)>>)
  /\ UNCHANGED <<scene, box2d, flags>>

PenUpPin(p, t1, t2) ==
  /\ p \in Array /\ pinned[p] = Unpinned
  /\ t1 \in b2body /\ t2 \in b2body \cup {NULL} /\ t1 # t2
  /\ \A t \in {t1, t2} \ {NULL} : IndexOf(t) < IndexOf(p)
  /\ Call("penUp", <<Do("pin", p)>>)
  /\ pinned' = [pinned EXCEPT ![p] = <<t1, t2>>]
  /\ UNCHANGED <<slots, n_things, allocated, invisible, box2d, flags>>

\* Canvas::penUp after a move: the connected pins moved[1], moved[2], ... are
\* detached and attached anew, in the order in which they were found
PenUpMove(moved) ==
  /\ ~ simulation_mode /\ moved # <<>>
  /\ \A i, k \in DOMAIN moved : moved[i] \in Array /\ (i # k => moved[i] # moved[k])
  /\ Call("penUp", [i \in 1..Len(moved) |-> Do("makeUnphysical", moved[i])]
                     \o [i \in 1..Len(moved) |-> Do("makePhysical", moved[i])])
  /\ UNCHANGED <<scene, box2d, flags>>

\* Canvas::penUp in delete mode, or of a stroke that failed
PenUpDelete(t) ==
  /\ t \in Array
  /\ Call("delete", <<Do("remove", t), Do("delete", t)>>)
  /\ UNCHANGED <<scene, box2d, flags>>

\* World::step: Box2D reported the bodies left[1], left[2], ... out of the world
Step(left) ==
  /\ simulation_mode /\ left # <<>>
  /\ \A i, k \in DOMAIN left : left[i] \in bodies /\ (i # k => left[i] # left[k])
  /\ Call("step", [i \in 1..2 * Len(left) |->
                     IF i % 2 = 1 THEN Do("makeUnphysical", left[(i + 1) \div 2])
                                  ELSE Do("hide", left[i \div 2])])
  /\ UNCHANGED <<scene, box2d, flags>>

\* startPlay and pausePlay
Play ==
  /\ call = "none"
  /\ simulation_mode' = ~ simulation_mode
  /\ UNCHANGED <<scene, box2d, dont_draw_things, fault, call, todo, was>>

\* Seeded fault: stopPlay() does not disable drawing.
StopCallsDrawing ==
  <<Do("World::reset", NULL), Do("stopSimulationMode", NULL), Do("enableDrawing", NULL)>>

\* stopPlay, and zap, which begins with it
StopCalls ==
  <<Do("disableDrawing", NULL), Do("World::reset", NULL), Do("stopSimulationMode", NULL),
    Do("enableDrawing", NULL)>>

StopPlay ==
  /\ Call("stopPlay", StopCalls)
  /\ UNCHANGED <<scene, box2d, flags>>

Zap ==
  /\ Call("zap", StopCalls \o <<Do("disableDrawing", NULL), Do("clear", NULL),
                                Do("enableDrawing", NULL)>>)
  /\ UNCHANGED <<scene, box2d, flags>>

\* handleInput: L and R held together
ResetKeys ==
  /\ Call("handleInput", <<Do("World::reset", NULL)>>)
  /\ UNCHANGED <<scene, box2d, flags>>

\* handleLoadDialogOk
Load(f) ==
  /\ Call("load", <<Do("clear", NULL), Do("load", [f |-> f, ids |-> <<>>])>>)
  /\ UNCHANGED <<scene, box2d, flags>>

Callback ==
  \/ \E t \in Things : PenDown(t) \/ PenUpDelete(t)
  \/ \E o \in Objects : PenUpObject(o)
  \/ \E p \in Pins, t1 \in Objects, t2 \in Objects \cup {NULL} : PenUpPin(p, t1, t2)
  \/ \E n \in 1..Cardinality(Pins) : \E moved \in [1..n -> Pins] : PenUpMove(moved)
  \/ \E n \in 1..Cardinality(Objects) : \E left \in [1..n -> Objects] : Step(left)
  \/ Play \/ StopPlay \/ Zap \/ ResetKeys
  \/ \E f \in Sketches : Load(f)

\* Behaviour after a fault is undefined; the model takes no further step.
Halted == fault /\ UNCHANGED vars

Next == Statement \/ Callback \/ Halted

\* The main loop goes on executing; what the player asks of it is not fair.
Spec == Init /\ [][Next]_vars /\ WF_vars(Statement)
-----------------------------------------------------------------------------
TypeOK ==
  /\ n_things \in 0..MAX_THINGS
  /\ slots \in [0..MAX_THINGS -> Things \cup {JUNK}]
  /\ allocated \subseteq Things /\ invisible \subseteq Things
  /\ pinned \in [Pins -> (Objects \cup {NULL}) \X (Objects \cup {NULL})]
  /\ b2body \subseteq Objects /\ b2joint \subseteq Pins
  /\ bodies \subseteq Objects \cup {BG} /\ joints \subseteq Pins
  /\ {simulation_mode, dont_draw_things, fault} \subseteq BOOLEAN
  /\ todo = <<>> <=> call = "none"

(***************************************************************************)
(* What drawThings follows: the slots below n_things and, unless the thing *)
(* is invisible, its pointer into Box2D; pins are not drawn while the      *)
(* simulation runs.                                                        *)
(***************************************************************************)
SlotsSafe  == Array \subseteq allocated
BodiesSafe == Array \cap b2body \subseteq bodies \cup invisible
JointsSafe == Array \cap b2joint \subseteq joints

DrawSafe == dont_draw_things \/ (SlotsSafe /\ BodiesSafe /\ JointsSafe)

(***************************************************************************)
(* The interrupt may come at any statement of drawing, pinning and moving, *)
(* of the stop button and of zap: these either disable drawing or publish  *)
(* each thing, body and joint only when it is complete.                    *)
(***************************************************************************)
CarefulCalls == {"none", "penDown", "penUp", "stopPlay", "zap"}
CarefulCallsDrawSafe == call \in CarefulCalls => DrawSafe

(***************************************************************************)
(* Whatever the call, a pin never points to a joint that Box2D freed: its  *)
(* pointer is cleared first, also when the joint dies with a body or with  *)
(* the whole Box2D world.                                                  *)
(***************************************************************************)
PinsThreadSafe == b2joint \subseteq joints

(***************************************************************************)
(* The loops over the array keep it an array: when no call is at work no   *)
(* thing is in it twice and nothing that lies behind it got into it, the   *)
(* bodies are those that things point to, and drawing is enabled.          *)
(***************************************************************************)
ArrayIntact ==
  call = "none" =>
    /\ Cardinality(Array) = n_things /\ JUNK \notin Array
    /\ b2body = bodies \ {BG} /\ ~ dont_draw_things

(***************************************************************************)
(* Statement by statement or not, each call changes the scene as Scene     *)
(* says: the loops of remove, reset and load take effect as a whole.       *)
(***************************************************************************)
Seen  == IF call = "none" THEN Now ELSE was
Paper == INSTANCE Scene WITH
           drawn <- Seen.drawn, tied <- Seen.tied, away <- Seen.away,
           holding <- Seen.holding, defined <- ~ fault

SceneSpec == Paper!SSpec

\* Every call returns to the main loop: the loops that remove while they
\* iterate come to an end.
CallsReturn == call # "none" ~> (call = "none" \/ fault)
-----------------------------------------------------------------------------
(***************************************************************************)
(* What the program does not live up to: the interrupt finds live things   *)
(* in the array, and live bodies under them, whatever the main loop does.  *)
(***************************************************************************)
SlotsThreadSafe  == dont_draw_things \/ SlotsSafe
BodiesThreadSafe == dont_draw_things \/ BodiesSafe
=============================================================================
