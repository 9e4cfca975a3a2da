--------------------------- MODULE PocketPhysics ---------------------------
(***************************************************************************)
(* The program (src/source/main.cpp): the buttons around the canvas and    *)
(* the main loop, which alternates one simulation step, if the simulation  *)
(* runs, with the handling of input.  A step in which nothing leaves the   *)
(* world changes nothing here, so steps and input may come in any order.   *)
(***************************************************************************)
EXTENDS Canvas

vars == <<wvars, cvars>>

Init == WInit /\ CInit
-----------------------------------------------------------------------------
\* penModeChanged
SetPenMode(m) ==
  /\ NoStroke
  /\ pen_mode' = m
  /\ Idle
  /\ UNCHANGED simulating

\* startPlay and pausePlay; only one of their two buttons is shown
StartPlay ==
  /\ NoStroke /\ ~ simulating /\ simulating' = TRUE
  /\ Idle
  /\ UNCHANGED pen_mode

PausePlay ==
  /\ NoStroke /\ simulating /\ simulating' = FALSE
  /\ Idle
  /\ UNCHANGED pen_mode

StopPlay ==
  /\ NoStroke /\ simulating' = FALSE
  /\ Reset({})
  /\ UNCHANGED pen_mode

\* zap, once the message box of askZap is answered with yes
ZapPushed ==
  /\ NoStroke /\ simulating' = FALSE
  /\ Zap
  /\ UNCHANGED pen_mode

\* handleLoadDialogOk
LoadPushed(f, a) ==
  /\ NoStroke
  /\ Load(f, a)
  /\ UNCHANGED <<pen_mode, simulating>>

(***************************************************************************)
(* handleInput: L and R held together reset the world, also in the middle  *)
(* of a stroke.  Only an unfinished box may be too degenerate for the      *)
(* decomposition.                                                          *)
(***************************************************************************)
ResetKeys ==
  /\ \E F \in SUBSET ({currentthing} \cap Objects) :
       (F # {} => pen_mode = "Box") /\ Reset(F)
  /\ UNCHANGED cvars

\* World::step from the main loop
SimulationStep ==
  /\ simulating
  /\ \E M \in SUBSET bodies : Step(M)
  /\ UNCHANGED cvars

Next ==
  \/ Canvas
  \/ \E m \in PenModes : SetPenMode(m)
  \/ StartPlay
  \/ PausePlay
  \/ StopPlay
  \/ ZapPushed
  \/ \E f \in Sketches : \E a \in [1..Len(f.elements) -> Things] : LoadPushed(f, a)
  \/ ResetKeys
  \/ SimulationStep
  \/ Halted /\ UNCHANGED cvars

Spec == Init /\ [][Next]_vars
-----------------------------------------------------------------------------
TypeOK ==
  /\ WTypeOK
  /\ pen_mode \in PenModes /\ drawing \in BOOLEAN /\ simulating \in BOOLEAN
  /\ currentthing \in things \cup {NULL}
  /\ move_connected \subseteq things

(***************************************************************************)
(* The stroke owns what it works on: a thing is being drawn exactly during *)
(* a stroke of a drawing mode, it is the last of the array (the things the *)
(* stroke may pin it to come first) and no pin holds on to it; a list of   *)
(* moved things exists only while a stroke moves them.                     *)
(***************************************************************************)
StrokeOwns ==
  /\ currentthing # NULL <=> drawing /\ pen_mode \in ShapeModes \cup {"Pin"}
  /\ currentthing # NULL => /\ \A t \in things \ {currentthing} : <<t, currentthing>> \in before
                            /\ PinsOn({currentthing}) = {}
                            /\ currentthing \in Pins => pinned[currentthing] = Unpinned
  /\ move_connected # {} => drawing /\ pen_mode = "Move" /\ ~ simulating

\* World::mouse_joint is set exactly during a drag: the pen up lets go.
DragEnds == mouse_joint # NULL <=> drawing /\ pen_mode = "Move" /\ simulating

(***************************************************************************)
(* What the player sees is what Box2D simulates: an object without a body  *)
(* is either being drawn or hidden because it left the world.              *)
(***************************************************************************)
VisibleIsPhysical ==
  \A o \in things \cap Objects : o \in b2body \cup invisible \cup {currentthing}

-----------------------------------------------------------------------------
(***************************************************************************)
(* What makes these invariants inductive: only the pin being drawn is not  *)
(* pinned yet, only things of the scene are hidden, and a stroke moves     *)
(* with a thing all that it is pinned to.                                  *)
(***************************************************************************)
PinsPinned    == \A p \in (things \cap Pins) \ {currentthing} : pinned[p][1] # NULL
HiddenInScene == invisible \subseteq things
MoveClosed    == \A t \in move_connected, u \in things : Linked(t, u) => u \in move_connected

PInv == /\ WInv /\ TypeOK /\ StrokeOwns /\ DragEnds /\ VisibleIsPhysical
        /\ PinsPinned /\ HiddenInScene /\ MoveClosed

(***************************************************************************)
(* The stop button brings the drawing back as it was made: every object is *)
(* shown and physical and every pin holds, whatever left the world since.  *)
(***************************************************************************)
StopRestores ==
  [][StopPlay => /\ things' = things /\ things \cap Objects = b2body'
                 /\ things \cap Pins = b2joint' /\ invisible' = {}
                 /\ fault' = "none"]_vars

(***************************************************************************)
(* Moving things in pause keeps their pins: an arrangement none of whose   *)
(* objects left the world has all its joints again when the pen goes up.   *)
(***************************************************************************)
MoveKeepsPins ==
  [][PenUpMove /\ ~ simulating /\ move_connected \cap Objects \subseteq b2body
       => move_connected \cap Pins \subseteq b2joint' /\ fault' = "none"]_vars

(***************************************************************************)
(* What the program does not live up to.                                   *)
(***************************************************************************)
\* A pointer to a joint is dropped when Box2D destroys the joint.
MouseJointAlive == mouse_joint # NULL => mouse_joint \in joints

\* World::pin finds the bodies of the things a pin is to fix.
PinFindsBodies == fault # "pin body"
=============================================================================
