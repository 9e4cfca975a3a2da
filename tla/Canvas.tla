------------------------------- MODULE Canvas -------------------------------
(***************************************************************************)
(* The drawing area (src/source/canvas.cpp): what the stylus does to the   *)
(* scene.  A stroke is penDown, any number of penMove and penUp; its mode  *)
(* cannot change in between, because the mode buttons need the stylus too  *)
(* (TobKit sends a stroke to the widget it began on).                      *)
(*                                                                         *)
(* Geometry is abstracted: where a stroke ends decides which things it     *)
(* hits and whether a shape is too small, and both are free choices here.  *)
(***************************************************************************)
EXTENDS World

VARIABLES
  pen_mode,
  drawing,         \* a stroke is in progress
  currentthing,    \* the thing being drawn by the stroke, or NULL
  move_connected,  \* move_connected_things of a stroke that moves things
  simulating       \* simulation_mode, which main.cpp keeps equal to state.simulating

stroke == <<drawing, currentthing, move_connected>>
cvars  == <<pen_mode, drawing, currentthing, move_connected, simulating>>

PenModes == {"Normal", "Polygon", "Box", "Circle", "Pin", "Move", "Delete"}
ShapeModes == {"Polygon", "Box", "Circle"}

CInit ==
  /\ pen_mode = "Polygon"
  /\ drawing = FALSE /\ currentthing = NULL /\ move_connected = {}
  /\ simulating = FALSE

StrokeBegins(t) == drawing' = TRUE  /\ currentthing' = t
\* Seeded fault: penUp does not reset currentthing.
StrokeEndsHolding == drawing' = FALSE /\ UNCHANGED currentthing

StrokeEnds      == drawing' = FALSE /\ currentthing' = NULL
\* Seeded fault: the buttons react during a stroke.
NoStrokeNeeded == UNCHANGED stroke

NoStroke        == ~ drawing /\ UNCHANGED stroke
-----------------------------------------------------------------------------
(***************************************************************************)
(* World::getConnectedThings: the things reachable from t through pins.    *)
(***************************************************************************)
Linked(t, u) == \/ t \in Pins /\ u \in {pinned[t][1], pinned[t][2]}
                \/ u \in Pins /\ t \in {pinned[u][1], pinned[u][2]}

Connected(t) ==
  {u \in things : \A C \in SUBSET things :
     (t \in C /\ \A x \in C, y \in things : Linked(x, y) => y \in C) => u \in C}

(***************************************************************************)
(* World::getThingsAt with at most n results: some things lie under the    *)
(* stylus.  An object is found through its body, a pin (only if asked for) *)
(* through its position.                                                   *)
(***************************************************************************)
Hits(n) == {h \in UNION {[1..k -> bodies] : k \in 0..n} :
              \A i, k \in DOMAIN h : i # k => h[i] # h[k]}

Deletable == bodies \cup (things \cap Pins)
-----------------------------------------------------------------------------
(***************************************************************************)
(* penDown.  The object mode set by the side bar is the type ty.           *)
(***************************************************************************)
\* Seeded fault: when the array is full the stroke goes on without a thing.
PenDownShapeFull(o, ty) ==
  /\ ~ drawing /\ pen_mode \in ShapeModes
  /\ \/ Add(o, ty) /\ StrokeBegins(o)
     \/ AddFull(o) /\ StrokeBegins(NULL)
  /\ UNCHANGED <<pen_mode, move_connected, simulating>>

PenDownShape(o, ty) ==
  /\ ~ drawing /\ pen_mode \in ShapeModes
  /\ \/ Add(o, ty) /\ StrokeBegins(o)
     \/ AddFull(o) /\ UNCHANGED <<drawing, currentthing>>
  /\ UNCHANGED <<pen_mode, move_connected, simulating>>

PenDownPin(p) ==
  /\ ~ drawing /\ pen_mode = "Pin"
  /\ \/ Add(p, "Solid") /\ StrokeBegins(p)
     \/ AddFull(p) /\ UNCHANGED <<drawing, currentthing>>
  /\ UNCHANGED <<pen_mode, move_connected, simulating>>

\* While the simulation runs the thing o is grabbed, otherwise it is moved
\* together with everything it is pinned to.
PenDownMove(o) ==
  /\ ~ drawing /\ pen_mode = "Move" /\ o \in bodies
  /\ StrokeBegins(NULL)
  /\ IF simulating THEN Grab(o) /\ UNCHANGED move_connected
                   ELSE move_connected' = Connected(o) /\ Idle
  /\ UNCHANGED <<pen_mode, simulating>>

PenDownDelete ==
  /\ ~ drawing /\ pen_mode = "Delete"
  /\ StrokeBegins(NULL)
  /\ Idle
  /\ UNCHANGED <<pen_mode, move_connected, simulating>>

\* penMove changes only geometry, except that it uses the mouse joint.
PenMove ==
  /\ drawing /\ pen_mode = "Move" /\ simulating
  /\ Drag
  /\ UNCHANGED cvars

(***************************************************************************)
(* penUp.  A polygon is dropped when it is too small or makePhysical       *)
(* returns false: its decomposition failed or it has a body already.       *)
(***************************************************************************)
\* Seeded fault: a polygon stays when makePhysical returns false.
PenUpPolygonStays ==
  /\ drawing /\ pen_mode = "Polygon"
  /\ Discard(currentthing) \/ MakePhysical(currentthing) \/ Idle
  /\ StrokeEnds
  /\ UNCHANGED <<pen_mode, move_connected, simulating>>

PenUpPolygon ==
  /\ drawing /\ pen_mode = "Polygon"
  /\ Discard(currentthing) \/ MakePhysical(currentthing)
  /\ StrokeEnds
  /\ UNCHANGED <<pen_mode, move_connected, simulating>>

\* A box or circle that is large enough stays, whatever makePhysical returns.
PenUpBoxOrCircle ==
  /\ drawing /\ pen_mode \in {"Box", "Circle"}
  /\ \/ Discard(currentthing)
     \/ MakePhysical(currentthing)
     \/ currentthing \in b2body /\ Idle
  /\ StrokeEnds
  /\ UNCHANGED <<pen_mode, move_connected, simulating>>

PenUpPin ==
  /\ drawing /\ pen_mode = "Pin"
  /\ \E hits \in Hits(2) :
       IF hits # <<>> /\ hits[1] \in b2body /\ \E i \in DOMAIN hits : type[hits[i]] = "Dynamic"
       THEN Pin(currentthing, hits[1], IF Len(hits) = 2 THEN hits[2] ELSE NULL)
       ELSE Discard(currentthing)
  /\ StrokeEnds
  /\ UNCHANGED <<pen_mode, move_connected, simulating>>

PenUpMove ==
  /\ drawing /\ pen_mode = "Move"
  /\ IF simulating THEN LetGo ELSE Repin(move_connected \cap Pins)
  /\ StrokeEnds
  /\ move_connected' = {}
  /\ UNCHANGED <<pen_mode, simulating>>

PenUpDelete ==
  /\ drawing /\ pen_mode = "Delete"
  /\ Idle \/ \E t \in Deletable : Discard(t)
  /\ StrokeEnds
  /\ UNCHANGED <<pen_mode, move_connected, simulating>>

Canvas ==
  \/ \E o \in Objects, ty \in Types : PenDownShape(o, ty)
  \/ \E p \in Pins : PenDownPin(p)
  \/ \E o \in Objects : PenDownMove(o)
  \/ PenDownDelete
  \/ PenMove
  \/ PenUpPolygon
  \/ PenUpBoxOrCircle
  \/ PenUpPin
  \/ PenUpMove
  \/ PenUpDelete
=============================================================================
