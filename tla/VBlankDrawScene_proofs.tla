----------------------- MODULE VBlankDrawScene_proofs -----------------------
(***************************************************************************)
(* VBlankDraw implements Scene: what the calls of class World do statement *)
(* by statement takes effect as a whole, for any number of things, any     *)
(* capacity and any sketches.                                              *)
(*                                                                         *)
(* CallInv relates what is left of a call to the drawing that it began     *)
(* with.  For each statement there is a lemma on what it makes of that     *)
(* relation, and for each callback one on how the relation begins.         *)
(***************************************************************************)
EXTENDS VBlankDraw_proofs

(***************************************************************************)
(* What becomes of the scene in a call: that each call changes it as Scene *)
(* says.                                                                   *)
(***************************************************************************)
Tied(p)  == {pinned[p][1], pinned[p][2]} \ {NULL}
Holds(p) == Tied(p) # {} /\ Tied(p) \subseteq bodies
Away     == (Array \cap Objects) \ bodies

\* A statement about t comes behind the k-th.
Later(k, op, t) == \E j \in k + 1..Len(todo) : Is(j, op, t)
Due(op, t)      == Later(0, op, t)
AddNext(t)      == \E op \in Adding : Next1(op, t)

PinMaking == {"makePhysical", "pin", "CreateJoint"}

-----------------------------------------------------------------------------
\* Pins and what they are put through.
PinnedShape == \A p \in Pins : pinned[p] = Unpinned \/ pinned[p][1] \in Objects

PinsIn ==
  \A p \in Pins : pinned[p] = Unpinned \/ InArray(p) \/ AddNext(p) \/ Due("n_things--", p)

TiedIn == \A p \in Pins : \A o \in Tied(p) : InArray(o) \/ Due("removePins", o)

Precede ==
  \A i, j \in 0..n_things - 1 :
    slots[j] \in Pins /\ slots[i] \in Tied(slots[j]) => i < j

Shown ==
  \A p \in Pins : \A o \in Tied(p) :
    o \in bodies \cup invisible
      \/ \E op \in {"hide", "makePhysical", "CreateBody", "removePins"} : Due(op, o)

\* What a move overwrites is the thing that is removed, or is in the array once more.
Spare ==
  \A h \in 0..n_things - 1 :
    Next1("moveUp", h) =>
      \/ \E t \in Things : slots[h] = t /\ Due("n_things--", t)
      \/ h > 0 /\ slots[h] = slots[h - 1]

JointsPointedTo ==
  \A p \in joints : p \in b2joint \/ Next1("DestroyJoint", p) \/ Next1("setb2Joint", p)

\* A pin holds iff its objects have bodies, unless that is about to change.
Excused(k, p) == \/ \E op \in PinMaking \cup {"n_things--"} : Later(k, op, p)
                 \/ \E o \in Tied(p) : Later(k, "DestroyBody", o)
JointsHold == \A p \in Pins : (p \in joints <=> Holds(p)) \/ Excused(0, p)

Drawings == /\ PinnedShape /\ PinsIn /\ TiedIn /\ Precede /\ Shown /\ Spare
            /\ JointsPointedTo /\ JointsHold

-----------------------------------------------------------------------------
\* What a statement relies on to come later, or to have come before.
PinFreed(k) ==
  \A p \in Pins :
    todo[k].op \in {"makeUnphysical", "setb2Joint(0)", "DestroyJoint"} /\ todo[k].t = p =>
      Excused(k, p)

BodyFreed(k) ==
  \A o \in Objects :
    todo[k].op \in {"makeUnphysical", "DestroyBody"} /\ todo[k].t = o =>
      \E op \in {"hide", "makePhysical", "removePins"} : Later(k, op, o)

BodyMade(k) ==
  \A o \in Objects, p \in Pins :
    todo[k].op \in {"makePhysical", "CreateBody"} /\ todo[k].t = o /\ o \in Tied(p) =>
      Later(k, "makePhysical", p)

JointMade(k) ==
  \A p \in Pins :
    todo[k].op \in PinMaking /\ todo[k].t = p =>
      /\ \/ p \notin joints
         \/ \E j \in 1..k - 1 : \/ todo[j].op = "initPhysics"
                                \/ Is(j, "makeUnphysical", p)
                                \/ Is(j, "DestroyJoint", p)
      /\ \A op \in PinMaking : ~ Later(k, op, p)
      /\ todo[k].op = "CreateJoint" => Holds(p)

Coupled(k) ==
  \A t \in Things : /\ Is(k, "setb2Joint(0)", t) => Is(k + 1, "DestroyJoint", t)
                    /\ Is(k, "CreateJoint", t) => Is(k + 1, "setb2Joint", t)
                    /\ Is(k, "n_things--", t) => Is(k + 1, "removePins", t)

Remade(k) ==
  \A t \in Things :
    \/ /\ todo[k].op = "initPhysics" \/ Is(k, "DestroyBody", BG)
       /\ InArray(t) \/ t \in joints
    \/ Is(k, "reset", t)
    => Later(k, "makePhysical", t)

NothingMade(k) ==
  todo[k].op = "World::reset" =>
    \A j \in k + 1..Len(todo) : todo[j].op \in OnNobody \ {"World::reset", "initPhysics"}

RemovedLast(k) ==
  todo[k].op \in Removing =>
    \A j \in k + 1..Len(todo) :
      todo[j].op \in Removing \cup {"delete", "load", "enableDrawing"}

Relies(k) == /\ PinFreed(k) /\ BodyFreed(k) /\ BodyMade(k) /\ JointMade(k) /\ Coupled(k)
             /\ Remade(k) /\ NothingMade(k) /\ RemovedLast(k)

Planned == \A k \in 1..Len(todo) : Relies(k)

Sound == Drawings /\ Planned

-----------------------------------------------------------------------------
\* What a call that found the scene w has changed so far, and is still to change.
OnlyOps(O)     == \A k \in 1..Len(todo) : todo[k].op \in O
OnlyAbout(T)   == \A k \in 1..Len(todo) : todo[k].t \in T
SameDrawing(w) == w.drawn = Array /\ \A p \in Pins : w.tied[p] = Tied(p)

ResetOps == Freeing \cup Making \cup {"World::reset", "initPhysics", "reset", "disableDrawing",
                                      "enableDrawing", "stopSimulationMode"}

DrawAim(w) ==
  /\ Len(todo) = 1 /\ todo[1].op \in Adding /\ SameDrawing(w) /\ w.away = Away
  /\ \A p \in Pins : AddNext(p) => pinned[p] = Unpinned

FinishAim(w, o) ==
  /\ OnlyOps(Making) /\ OnlyAbout({o})
  /\ SameDrawing(w) /\ o \in w.away /\ Away \ {o} = w.away \ {o}

TieAim(w, p) ==
  /\ OnlyOps(Making) /\ OnlyAbout({p})
  /\ w.drawn = Array /\ w.away = Away
  /\ p \in w.drawn /\ w.tied[p] = {} /\ Tied(p) # {} /\ Tied(p) \subseteq w.drawn \ w.away
  /\ \A q \in Pins \ {p} : w.tied[q] = Tied(q)

MoveAim(w) ==
  /\ OnlyOps(Freeing \cup Making) /\ OnlyAbout(Pins)
  /\ SameDrawing(w) /\ w.away = Away
  /\ w.holding = {p \in Pins : w.tied[p] # {} /\ w.tied[p] \cap w.away = {}}

LeaveAim(w) == OnlyOps(Freeing \cup {"hide"}) /\ SameDrawing(w) /\ w.away \subseteq Away

RestoreAim(w) == OnlyOps(ResetOps) /\ SameDrawing(w)

Taken(w, t) == {t} \cup {p \in Pins : t \in w.tied[p]}
EraseAim(w, t) ==
  /\ t \in w.drawn /\ w.away \subseteq w.drawn \cap Objects
  /\ Len(todo) # 0 /\ todo[Len(todo)].op = "delete" /\ todo[Len(todo)].t = t
  /\ OnlyOps(Freeing \cup (Removing \ {"clear"}) \cup {"delete"})
  /\ \A k \in 1..Len(todo) :
       /\ todo[k].op \in {"remove", "n_things--", "removePins"} => todo[k].t \in Taken(w, t)
       /\ todo[k].op \in Freeing => todo[k].t \in Taken(w, t) \cup Pins
  /\ \A u \in Things : /\ InArray(u) => u \in w.drawn
                       /\ u \in w.drawn \ Taken(w, t) => InArray(u)
  /\ \A p \in Pins : Tied(p) = w.tied[p] \/ (p \in Taken(w, t) /\ Tied(p) = {} /\ ~ InArray(p))
  /\ \A o \in (Objects \cap w.drawn) \ {t} : o \in bodies <=> o \notin w.away

ClearAim(op) ==
  Len(todo) > 1 /\ todo[Len(todo) - 1].op = "clear" /\ todo[Len(todo)].op = op

ZapAim == \/ ClearAim("enableDrawing")
          \/ n_things = 0 /\ Len(todo) = 1 /\ todo[1].op = "enableDrawing"

LoadAim ==
  /\ OnlyOps(Adding \cup ResetOps \cup {"load"})
  /\ Len(todo) = 1 => todo[1].op \notin Adding
  /\ \A o \in Objects : InArray(o) \/ AddNext(o) =>
       o \in bodies \/ Due("makePhysical", o) \/ Due("CreateBody", o)
  /\ \A p \in Pins : InArray(p) \/ AddNext(p) => Tied(p) # {}
  /\ \A k \in 1..Len(todo) : todo[k].op = "load" =>
       \A i \in 1..Len(todo[k].t.ids), t \in Things :
         todo[k].t.ids[i] = t => InArray(t) \/ AddNext(t)

Aim(c, w) ==
  /\ c = "penDown" => DrawAim(w)
  /\ c = "penUp" => \/ \E o \in Objects : FinishAim(w, o)
                    \/ \E p \in Pins : TieAim(w, p)
                    \/ MoveAim(w)
  /\ c = "step" => LeaveAim(w)
  /\ c \in {"stopPlay", "handleInput"} => RestoreAim(w)
  /\ c = "delete" => \E t \in Things : EraseAim(w, t)
  /\ c = "zap" => ZapAim
  /\ c = "load" => ClearAim("load") \/ LoadAim

Calls == {"penDown", "penUp", "step", "stopPlay", "handleInput", "delete", "zap", "load"}

\* The scenes that Scene.tla can be in.
HoldingOf(w) == {p \in Pins : w.tied[p] # {} /\ w.tied[p] \cap w.away = {}}
AScene(w) ==
  /\ w.drawn \subseteq Things /\ w.away \subseteq w.drawn \cap Objects
  /\ w.tied \in [Pins -> SUBSET (w.drawn \cap Objects)]
  /\ \A p \in Pins : w.tied[p] # {} => p \in w.drawn
  /\ w.holding = HoldingOf(w)

CallInv == /\ call \in Calls \cup {"none"}
           /\ fault \/ (Sound /\ \A c \in {call}, w \in {was} : Aim(c, w))
           /\ fault => call # "none"
           /\ call # "none" => AScene(was)

-----------------------------------------------------------------------------
\* What is still to come stays so, until it is next.
LEMMA LaterAfter ==
  ASSUME NEW s, Push(s), NEW k \in 1..Len(todo), NEW op, NEW t, Later(k, op, t)
  PROVE  \A i \in 0..k - 1 + Len(s) : Later(i, op, t)'
<1>1. PICK j \in k + 1..Len(todo) : Is(j, op, t)
  BY DEF Later
<1>2. Len(todo) \in Nat \ {0} /\ Len(s) \in Nat /\ Len(todo') = Len(s) + Len(todo) - 1
  BY DEF Push
<1>3. /\ j \in 2..Len(todo) /\ j - 1 + Len(s) \in 1..Len(todo')
      /\ \A i \in 0..k - 1 + Len(s) : j - 1 + Len(s) \in i + 1..Len(todo')
  BY <1>1, <1>2
<1>4. todo'[j - 1 + Len(s)] = todo[j]
  BY <1>3 DEF Push
<1>5. Is(j - 1 + Len(s), op, t)'
  BY <1>1, <1>3, <1>4 DEF Is
<1>6. QED BY <1>3, <1>5 DEF Later

LEMMA DueAfter ==
  ASSUME NEW s, Push(s), NEW op, NEW t, Due(op, t), ~ Next1(op, t)
  PROVE  Due(op, t)' /\ \A i \in 0..Len(s) : Later(i, op, t)'
<1>1. PICK j \in 1..Len(todo) : Is(j, op, t)
  BY DEF Due, Later
<1>2. Len(todo) \in Nat \ {0} /\ Len(s) \in Nat
  BY DEF Push
<1>3. 1 \in 1..Len(todo) /\ j \in 1 + 1..Len(todo)
  BY <1>1, <1>2 DEF Next1
<1>4. Later(1, op, t)
  BY <1>1, <1>3 DEF Later
<1>5. QED BY <1>2, <1>3, <1>4, LaterAfter DEF Due

\* What is called now comes as soon as it is behind the k-th.
LEMMA CalledLater ==
  ASSUME NEW s, Push(s), NEW j \in 1..Len(s), NEW op, NEW t, s[j].op = op, s[j].t = t
  PROVE  \A i \in 0..j - 1 : Later(i, op, t)'
<1>1. /\ j \in 1..Len(todo') /\ todo'[j] = s[j] /\ \A i \in 0..j - 1 : j \in i + 1..Len(todo')
  BY DEF Push
<1>2. Is(j, op, t)'
  BY <1>1 DEF Is
<1>3. QED BY <1>1, <1>2 DEF Later

\* Nothing else comes behind what came later before.
LEMMA LaterBefore ==
  ASSUME NEW s, Push(s), NEW k \in 1..Len(todo), NEW op, NEW t, Later(k - 1 + Len(s), op, t)'
  PROVE  Later(k, op, t)
<1>1. PICK j \in k - 1 + Len(s) + 1..Len(todo') : Is(j, op, t)'
  BY DEF Later
<1>2. Len(todo) \in Nat \ {0} /\ Len(s) \in Nat /\ Len(todo') = Len(s) + Len(todo) - 1
  BY DEF Push
<1>3. j \in 1..Len(todo') /\ j > Len(s) /\ j + 1 - Len(s) \in k + 1..Len(todo)
      /\ j + 1 - Len(s) \in 1..Len(todo)
  BY <1>1, <1>2
<1>4. todo'[j] = todo[j + 1 - Len(s)]
  BY <1>3, Behind
<1>5. Is(j + 1 - Len(s), op, t)
  BY <1>1, <1>3, <1>4 DEF Is
<1>6. QED BY <1>3, <1>5 DEF Later

LEMMA SameTied ==
  ASSUME UNCHANGED pinned
  PROVE  \A p \in Pins : Tied(p)' = Tied(p)
BY DEF Tied

LEMMA ExcusedAfter ==
  ASSUME NEW s, Push(s), NEW k \in 1..Len(todo), NEW p \in Pins, Tied(p)' = Tied(p),
         Excused(k, p)
  PROVE  \A i \in 0..k - 1 + Len(s) : Excused(i, p)'
<1>1. CASE \E op \in PinMaking \cup {"n_things--"} : Later(k, op, p)
  <2>1. PICK op \in PinMaking \cup {"n_things--"} : Later(k, op, p)
    BY <1>1
  <2>2. \A i \in 0..k - 1 + Len(s) : Later(i, op, p)'
    BY <2>1, LaterAfter
  <2>3. QED BY <2>2 DEF Excused
<1>2. CASE \E o \in Tied(p) : Later(k, "DestroyBody", o)
  <2>1. PICK o \in Tied(p) : Later(k, "DestroyBody", o)
    BY <1>2
  <2>2. \A i \in 0..k - 1 + Len(s) : Later(i, "DestroyBody", o)'
    BY <2>1, LaterAfter
  <2>3. QED BY <2>1, <2>2 DEF Excused
<1>3. QED BY <1>1, <1>2 DEF Excused

LEMMA IsAfter ==
  ASSUME NEW s, Push(s), NEW k \in 2..Len(todo), NEW op, NEW t, Is(k, op, t)
  PROVE  Is(k - 1 + Len(s), op, t)'
<1>1. k - 1 + Len(s) \in 1..Len(todo') /\ todo'[k - 1 + Len(s)] = todo[k]
  BY DEF Push
<1>2. QED BY <1>1 DEF Is

\* A world is replaced, and what hangs on its ground destroyed, only behind
\* statements that free something.
LEMMA FreedFirst ==
  ASSUME DInv, NEW k \in 2..Len(todo), todo[k].op \in {"initPhysics", "DestroyBody"}
  PROVE  todo[1].op \in Freeing
<1>1. FreedBefore(k) /\ PairKept(k) /\ 1 \in 1..k - 1
  BY DEF DInv, Order, InOrder, Pointers, PairsKept
<1>2. CASE todo[k].op = "initPhysics"
  BY <1>1, <1>2 DEF FreedBefore
<1>3. CASE todo[k].op = "DestroyBody"
  BY <1>1, <1>3 DEF PairKept, Freeing
<1>4. QED BY <1>2, <1>3

\* The plan of a call is kept by a statement that does what the ones behind
\* it rely on.
LEMMA PlanAfter ==
  ASSUME DInv, Planned, NEW s, Push(s), UNCHANGED pinned,
         \A p \in joints' : p \in joints \/ Next1("CreateJoint", p),
         todo[1].op \in Freeing => \A t \in Things : InArray(t)' => InArray(t),
         \A p \in Pins :
           Next1("makeUnphysical", p) \/ Next1("DestroyJoint", p) =>
             p \notin joints' \/ \E i \in 1..Len(s) : s[i].op = "DestroyJoint" /\ s[i].t = p,
         todo[1].op = "initPhysics" => joints' = {},
         \A k \in 1..Len(s) : Relies(k)'
  PROVE  Planned'
<1>1. SUFFICES ASSUME NEW k \in 1..Len(todo'), k > Len(s) PROVE Relies(k)'
  BY InFront DEF Planned
<1>2. Len(todo) \in Nat \ {0} /\ Len(s) \in Nat /\ Len(todo') = Len(s) + Len(todo) - 1
      /\ 1 \in 1..Len(todo)
  BY DEF Push
<1>3. PICK m \in 2..Len(todo) : m = k + 1 - Len(s) /\ todo'[k] = todo[m]
  BY <1>1, Behind
<1>4. k = m - 1 + Len(s) /\ m \in 1..Len(todo) /\ Relies(m) /\ Relies(1) /\ m \in 2..Len(todo)
  BY <1>1, <1>2, <1>3 DEF Planned
<1>5. \A op, t : Later(m, op, t) => Later(k, op, t)'
  BY <1>4, LaterAfter, <1>2
<1>6. \A p \in Pins : Tied(p)' = Tied(p)
  BY SameTied
<1>7. \A p \in Pins : Excused(m, p) => Excused(k, p)'
  BY <1>2, <1>4, <1>6, ExcusedAfter
<1>8. \A op, t : Is(m, op, t) <=> Is(k, op, t)'
  BY <1>1, <1>3, <1>4 DEF Is
<1>9. \A op, t : Is(m + 1, op, t) => Is(k + 1, op, t)'
  <2>1. SUFFICES ASSUME NEW op, NEW t, Is(m + 1, op, t) PROVE Is(k + 1, op, t)'
    OBVIOUS
  <2>2. m + 1 \in 2..Len(todo) /\ m + 1 - 1 + Len(s) = k + 1
    BY <1>2, <1>4, <2>1 DEF Is
  <2>3. Is(m + 1 - 1 + Len(s), op, t)'
    BY <2>1, <2>2, IsAfter
  <2>4. QED BY <2>2, <2>3
<1>10. \A j \in k + 1..Len(todo') : \E i \in m + 1..Len(todo) : todo'[j] = todo[i]
  <2>1. SUFFICES ASSUME NEW j \in k + 1..Len(todo')
                 PROVE  \E i \in m + 1..Len(todo) : todo'[j] = todo[i]
    OBVIOUS
  <2>2. j \in 1..Len(todo') /\ j > Len(s) /\ j + 1 - Len(s) \in m + 1..Len(todo)
    BY <1>1, <1>2, <1>4
  <2>3. todo'[j] = todo[j + 1 - Len(s)]
    BY <2>2, Behind
  <2>4. QED BY <2>2, <2>3
<1>11. PinFreed(k)'
  BY <1>3, <1>4, <1>7 DEF Relies, PinFreed
<1>12. BodyFreed(k)'
  BY <1>3, <1>4, <1>5 DEF Relies, BodyFreed
<1>13. BodyMade(k)'
  BY <1>3, <1>4, <1>5, <1>6 DEF Relies, BodyMade
<1>14. JointMade(k)'
  <2>1. SUFFICES ASSUME NEW p \in Pins, todo[m].op \in PinMaking, todo[m].t = p
                 PROVE  /\ \/ p \notin joints'
                           \/ \E j \in 1..k - 1 : \/ todo'[j].op = "initPhysics"
                                                  \/ Is(j, "makeUnphysical", p)'
                                                  \/ Is(j, "DestroyJoint", p)'
                        /\ \A op \in PinMaking : ~ Later(k, op, p)'
                        /\ todo[m].op # "CreateJoint"
    BY <1>3 DEF JointMade
  <2>2. /\ \/ p \notin joints
           \/ \E j \in 1..m - 1 : \/ todo[j].op = "initPhysics"
                                  \/ Is(j, "makeUnphysical", p)
                                  \/ Is(j, "DestroyJoint", p)
        /\ \A op \in PinMaking : ~ Later(m, op, p)
    BY <1>4, <2>1 DEF Relies, JointMade
  <2>3. todo[m].op # "CreateJoint"
    BY <1>4 DEF DInv, Pointers, PairsKept, PairKept, AtOnce
  <2>4. \A op \in PinMaking : ~ Later(k, op, p)'
    BY <1>4, <2>2, LaterBefore
  <2>5. ~ Next1("CreateJoint", p)
    <3>1. SUFFICES ASSUME Next1("CreateJoint", p) PROVE FALSE
      OBVIOUS
    <3>2. todo[1].op = "CreateJoint" /\ todo[1].t = p
      BY <3>1 DEF Next1, Is
    <3>3. PICK op \in PinMaking : op = todo[m].op
      BY <2>1
    <3>4. ~ Later(1, op, p)
      BY <1>4, <3>2 DEF Relies, JointMade, PinMaking
    <3>5. m \in 1 + 1..Len(todo) /\ Is(m, op, p)
      BY <1>4, <2>1, <3>3 DEF Is
    <3>6. QED BY <3>4, <3>5 DEF Later
  <2>6. \/ p \notin joints'
        \/ \E j \in 1..k - 1 : \/ todo'[j].op = "initPhysics"
                               \/ Is(j, "makeUnphysical", p)'
                               \/ Is(j, "DestroyJoint", p)'
    <3>1. CASE p \notin joints
      BY <2>5, <3>1
    <3>2. ASSUME NEW j \in 1..m - 1,
                 \/ todo[j].op = "initPhysics"
                 \/ Is(j, "makeUnphysical", p)
                 \/ Is(j, "DestroyJoint", p)
          PROVE  \/ p \notin joints'
                 \/ \E i \in 1..k - 1 : \/ todo'[i].op = "initPhysics"
                                        \/ Is(i, "makeUnphysical", p)'
                                        \/ Is(i, "DestroyJoint", p)'
      <4>1. CASE j = 1
        <5>1. \/ p \notin joints'
              \/ \E i \in 1..Len(s) : s[i].op = "DestroyJoint" /\ s[i].t = p
          BY <3>2, <4>1 DEF Next1
        <5>2. ASSUME NEW i \in 1..Len(s), s[i].op = "DestroyJoint", s[i].t = p
              PROVE  i \in 1..k - 1 /\ Is(i, "DestroyJoint", p)'
          <6>1. i \in 1..k - 1 /\ i \in 1..Len(todo') /\ todo'[i] = s[i]
            BY <1>1, <1>2 DEF Push
          <6>2. QED BY <5>2, <6>1 DEF Is
        <5>3. QED BY <5>1, <5>2
      <4>2. CASE j # 1
        <5>1. j \in 2..Len(todo) /\ j - 1 + Len(s) \in 1..k - 1
          BY <1>2, <1>4, <4>2
        <5>2. todo'[j - 1 + Len(s)] = todo[j]
          BY <5>1 DEF Push
        <5>3. \/ todo'[j - 1 + Len(s)].op = "initPhysics"
              \/ Is(j - 1 + Len(s), "makeUnphysical", p)'
              \/ Is(j - 1 + Len(s), "DestroyJoint", p)'
          BY <3>2, <5>1, <5>2, IsAfter
        <5>4. QED BY <5>1, <5>3
      <4>3. QED BY <4>1, <4>2
    <3>3. QED BY <2>2, <3>1, <3>2
  <2>7. QED BY <2>3, <2>4, <2>6
<1>15. Coupled(k)'
  BY <1>4, <1>8, <1>9 DEF Relies, Coupled
<1>16. Remade(k)'
  <2>1. SUFFICES ASSUME NEW t \in Things,
                        \/ /\ todo'[k].op = "initPhysics" \/ Is(k, "DestroyBody", BG)'
                           /\ InArray(t)' \/ t \in joints'
                        \/ Is(k, "reset", t)'
                 PROVE  Later(k, "makePhysical", t)'
    BY DEF Remade
  <2>2. CASE Is(k, "reset", t)'
    BY <1>4, <1>5, <1>8, <2>2 DEF Relies, Remade
  <2>3. CASE /\ todo'[k].op = "initPhysics" \/ Is(k, "DestroyBody", BG)'
             /\ InArray(t)' \/ t \in joints'
    <3>1. todo[m].op = "initPhysics" \/ Is(m, "DestroyBody", BG)
      BY <1>3, <1>8, <2>3
    <3>2. todo[1].op \in Freeing
      BY <1>4, <3>1, FreedFirst DEF Is
    <3>3. ~ Next1("CreateJoint", t)
      BY <3>2 DEF Next1, Is, Freeing
    <3>4. InArray(t) \/ t \in joints
      BY <2>3, <3>2, <3>3
    <3>5. Later(m, "makePhysical", t)
      BY <1>4, <3>1, <3>4 DEF Relies, Remade
    <3>6. QED BY <1>5, <3>5
  <2>4. QED BY <2>1, <2>2, <2>3
<1>17. NothingMade(k)'
  <2>1. SUFFICES ASSUME todo[m].op = "World::reset", NEW j \in k + 1..Len(todo')
                 PROVE  todo'[j].op \in OnNobody \ {"World::reset", "initPhysics"}
    BY <1>3 DEF NothingMade
  <2>2. PICK i \in m + 1..Len(todo) : todo'[j] = todo[i]
    BY <1>10
  <2>3. NothingMade(m)
    BY <1>4 DEF Relies
  <2>4. QED BY <2>1, <2>2, <2>3 DEF NothingMade
<1>18. RemovedLast(k)'
  <2>1. SUFFICES ASSUME todo[m].op \in Removing, NEW j \in k + 1..Len(todo')
                 PROVE  todo'[j].op \in Removing \cup {"delete", "load", "enableDrawing"}
    BY <1>3 DEF RemovedLast
  <2>2. PICK i \in m + 1..Len(todo) : todo'[j] = todo[i]
    BY <1>10
  <2>3. RemovedLast(m)
    BY <1>4 DEF Relies
  <2>4. QED BY <2>1, <2>2, <2>3 DEF RemovedLast
<1>19. QED BY <1>11, <1>12, <1>13, <1>14, <1>15, <1>16, <1>17, <1>18 DEF Relies

-----------------------------------------------------------------------------
LEMMA SpareAfter ==
  ASSUME DInv, NEW s, Push(s), todo[1].op \notin {"moveUp", "n_things--", "n_things++"},
         \A i \in 0..n_things' - 1 : slots'[i] = slots[i], n_things' = n_things,
         Len(s) > 0 => s[1].op # "moveUp"
  PROVE  Spare'
<1>1. SUFFICES ASSUME NEW h \in 0..n_things - 1, Next1("moveUp", h)'
               PROVE  \E t \in Things : slots[h] = t /\ Due("n_things--", t)'
  BY DEF Spare
<1>2. /\ TypeOK /\ ArrayShape /\ TodoTyped /\ todo \in Seq(Stmt) /\ n_things \in Nat
      /\ Len(todo) \in Nat \ {0} /\ Len(s) \in Nat /\ todo # <<>>
  BY DEF DInv, Order, TypeOK, TodoTyped, Push
<1>3. 1 \in 1..Len(todo') /\ todo'[1].op = "moveUp" /\ todo'[1].t = h
  BY <1>1 DEF Next1, Is
<1>4. Len(s) = 0
  BY <1>2, <1>3 DEF Push
<1>5. 2 \in 1..Len(todo) /\ todo[2] = todo'[1]
  BY <1>2, <1>3, <1>4, Behind
<1>6. todo[1].op \in Freeing
  BY <1>2, <1>3, <1>5, NotShifting
<1>7. PICK k \in 3..Len(todo) : todo[k].op = "n_things--"
  BY <1>2, <1>3, <1>5 DEF ArrayShape
<1>8. k \in 1..Len(todo) /\ k \in Nat /\ Shifting(k) /\ StatementTyped(todo[k])
  BY <1>2, <1>7 DEF ArrayShape, TodoTyped
<1>9. PICK g \in 0..n_things : Shift(k, g)
  BY <1>8 DEF Shifting
<1>10. PICK first \in Int : first = k - (n_things - g)
  BY <1>2, <1>8
<1>11. /\ first >= 1
       /\ \A j \in first..k - 1 : todo[j].op = "moveUp" /\ todo[j].t = n_things - (k - j)
       /\ \A j \in 1..first - 1 : todo[j].op \in Freeing
       /\ first > 1 => g < n_things /\ slots[g] = todo[k].t
  BY <1>9, <1>10 DEF Shift
<1>12. first = 2
  <2>1. first # 1
    BY <1>6, <1>7, <1>11 DEF Freeing
  <2>2. ~ (first > 2)
    BY <1>3, <1>5, <1>11 DEF Freeing
  <2>3. QED BY <1>11, <2>1, <2>2
<1>13. todo[2].t = n_things - (k - 2) /\ g = h
  <2>1. 2 \in first..k - 1
    BY <1>7, <1>12
  <2>2. todo[2].t = n_things - (k - 2)
    BY <1>11, <2>1
  <2>3. QED BY <1>2, <1>3, <1>5, <1>7, <1>9, <1>10, <1>12, <2>2
<1>14. PICK t \in Things : t = todo[k].t
  BY <1>7, <1>8 DEF StatementTyped, OnThing
<1>15. Due("n_things--", t) /\ ~ Next1("n_things--", t)
  BY <1>7, <1>8, <1>14 DEF Due, Later, Is, Next1
<1>16. QED BY <1>11, <1>12, <1>13, <1>14, <1>15, DueAfter

\* A statement that changes neither the array nor Box2D takes away only what
\* it was about to do itself.
LEMMA DrawingsStay ==
  ASSUME DInv, Drawings, NEW s, Push(s),
         UNCHANGED <<slots, n_things, pinned, bodies, joints, b2joint>>,
         todo[1].op \notin Adding \cup {"n_things--", "DestroyJoint", "setb2Joint", "CreateBody",
                                       "CreateJoint"},
         Spare',
         \A o \in Objects : Next1("removePins", o) =>
           Due("removePins", o)' \/ \A p \in Pins : o \notin Tied(p),
         \A o \in Objects :
           \/ o \in invisible \ invisible'
           \/ Next1("hide", o) \/ Next1("makePhysical", o)
           => \/ o \in bodies \cup invisible'
              \/ \E op \in {"hide", "makePhysical", "CreateBody", "removePins"} : Due(op, o)',
         \A p \in Pins : Next1("makePhysical", p) \/ Next1("pin", p) =>
           Excused(0, p)' \/ (p \notin joints /\ ~ Holds(p)),
         \A o \in Objects : Next1("DestroyBody", o) => Due("DestroyBody", o)'
  PROVE  Drawings'
<1>1. \A p \in Pins : Tied(p)' = Tied(p) /\ (Holds(p)' <=> Holds(p))
  BY DEF Tied, Holds
<1>2. \A t : InArray(t)' <=> InArray(t)
  BY DEF InArray
<1>3. \A op, t : Due(op, t) /\ ~ Next1(op, t) => Due(op, t)'
  BY DueAfter
<1>4. \A p \in Pins : \A o \in Tied(p) : o \in Objects
  BY DEF DInv, TypeOK, Tied
<1>5. PinnedShape'
  BY DEF Drawings, PinnedShape, Unpinned
<1>6. PinsIn'
  <2>1. SUFFICES ASSUME NEW p \in Pins, pinned[p] # Unpinned
                 PROVE  InArray(p)' \/ Due("n_things--", p)'
    BY DEF PinsIn, Unpinned
  <2>2. InArray(p) \/ AddNext(p) \/ Due("n_things--", p)
    BY <2>1 DEF Drawings, PinsIn
  <2>3. ~ AddNext(p) /\ ~ Next1("n_things--", p)
    BY DEF AddNext, Next1, Is, Adding
  <2>4. QED BY <1>2, <1>3, <2>2, <2>3
<1>7. TiedIn'
  <2>1. SUFFICES ASSUME NEW p \in Pins, NEW o \in Tied(p)
                 PROVE  InArray(o)' \/ Due("removePins", o)'
    BY <1>1 DEF TiedIn
  <2>2. InArray(o) \/ Due("removePins", o)
    BY <2>1 DEF Drawings, TiedIn
  <2>3. QED BY <1>2, <1>3, <1>4, <2>1, <2>2
<1>8. Precede'
  <2>1. \A i \in 0..n_things - 1 : slots[i] \in Pins => Tied(slots[i])' = Tied(slots[i])
    BY DEF Tied
  <2>2. QED BY <2>1 DEF Drawings, Precede, Tied
<1>9. Shown'
  <2>1. SUFFICES ASSUME NEW p \in Pins, NEW o \in Tied(p)
                 PROVE  \/ o \in bodies \cup invisible'
                        \/ \E op \in {"hide", "makePhysical", "CreateBody", "removePins"} : Due(op, o)'
    BY <1>1 DEF Shown
  <2>2. o \in Objects
    BY <1>4, <2>1
  <2>3. CASE o \in bodies \cup invisible
    BY <2>2, <2>3
  <2>4. ASSUME NEW op \in {"hide", "makePhysical", "CreateBody", "removePins"}, Due(op, o)
        PROVE  \/ o \in bodies \cup invisible'
               \/ \E oq \in {"hide", "makePhysical", "CreateBody", "removePins"} : Due(oq, o)'
    <3>1. CASE ~ Next1(op, o)
      BY <1>3, <2>4, <3>1
    <3>2. CASE Next1(op, o)
      <4>1. op # "CreateBody"
        BY <3>2 DEF Next1, Is
      <4>2. CASE op = "removePins"
        BY <2>1, <2>2, <3>2, <4>2
      <4>3. CASE op \in {"hide", "makePhysical"}
        BY <2>2, <3>2, <4>3
      <4>4. QED BY <4>1, <4>2, <4>3
    <3>3. QED BY <3>1, <3>2
  <2>5. o \in bodies \cup invisible
          \/ \E op \in {"hide", "makePhysical", "CreateBody", "removePins"} : Due(op, o)
    BY <2>1 DEF Drawings, Shown
  <2>6. QED BY <2>3, <2>4, <2>5
<1>10. Spare'
  OBVIOUS
<1>11. JointsPointedTo'
  <2>1. SUFFICES ASSUME NEW p \in joints PROVE p \in b2joint
    BY DEF JointsPointedTo
  <2>2. ~ Next1("DestroyJoint", p) /\ ~ Next1("setb2Joint", p)
    BY DEF Next1, Is
  <2>3. QED BY <2>2 DEF Drawings, JointsPointedTo
<1>12. JointsHold'
  <2>1. SUFFICES ASSUME NEW p \in Pins, ~ (p \in joints <=> Holds(p)) PROVE Excused(0, p)'
    BY <1>1 DEF JointsHold
  <2>2. Excused(0, p)
    BY <2>1 DEF Drawings, JointsHold
  <2>3. ASSUME NEW op \in PinMaking \cup {"n_things--"}, Later(0, op, p)
        PROVE  Excused(0, p)'
    <3>1. CASE ~ Next1(op, p)
      BY <1>3, <2>3, <3>1 DEF Excused, Due
    <3>2. CASE Next1(op, p)
      <4>1. op \in {"makePhysical", "pin"}
        BY <2>3, <3>2 DEF Next1, Is, PinMaking
      <4>2. QED BY <2>1, <3>2, <4>1 DEF Holds
    <3>3. QED BY <3>1, <3>2
  <2>4. ASSUME NEW o \in Tied(p), Later(0, "DestroyBody", o)
        PROVE  Excused(0, p)'
    <3>1. Due("DestroyBody", o)'
      BY <1>3, <1>4, <2>4 DEF Due
    <3>2. QED BY <1>1, <3>1 DEF Excused, Due
  <2>5. QED BY <2>2, <2>3, <2>4 DEF Excused
<1>13. QED BY <1>5, <1>6, <1>7, <1>8, <1>9, <1>10, <1>11, <1>12 DEF Drawings

-----------------------------------------------------------------------------
(***************************************************************************)
(* What a statement may be replaced by, and what it may change.            *)
(***************************************************************************)
Calling(s) ==
  /\ todo[1].op \in Freeing =>
       \A k \in 1..Len(s) : s[k].op \in Freeing /\ (s[k].t = todo[1].t \/ s[k].t \in Pins)
  /\ todo[1].op \in Making =>
       \A k \in 1..Len(s) : s[k].op \in Making /\ s[k].t = todo[1].t
  /\ todo[1].op = "World::reset" => \A k \in 1..Len(s) : s[k].op \in ResetOps
  /\ todo[1].op = "remove" =>
       \A k \in 1..Len(s) :
         \/ s[k].op = "moveUp"
         \/ s[k].op \in {"makeUnphysical", "n_things--", "removePins"} /\ s[k].t = todo[1].t
  /\ todo[1].op = "removePins" =>
       \A k \in 1..Len(s) :
         \/ s[k].op = "removePins" /\ s[k].t = todo[1].t
         \/ s[k].op = "remove" /\ \E p \in Pins : s[k].t = p /\ todo[1].t \in Tied(p)
  /\ todo[1].op = "clear" =>
       (Len(s) = 0 /\ n_things = 0) \/ (Len(s) > 0 /\ s[Len(s)].op = "clear")
  /\ todo[1].op = "add" =>
       \/ Len(s) = 0 /\ n_things = MAX_THINGS
       \/ Len(s) = 1 /\ s[1].op = "n_things++" /\ s[1].t = todo[1].t
  /\ Len(s) = 0 \/ todo[1].op \in Freeing \cup Making \cup {"World::reset", "remove", "removePins",
                                                           "clear", "add", "load"}

Changing ==
  /\ todo[1].op \notin {"add", "n_things++", "moveUp", "n_things--"} => UNCHANGED <<slots, n_things>>
  /\ todo[1].op \notin {"n_things--", "load"} => UNCHANGED pinned
  /\ todo[1].op \notin {"CreateBody", "DestroyBody", "initPhysics"} => UNCHANGED bodies
  /\ todo[1].op = "CreateBody" => bodies' = bodies \cup {todo[1].t}
  /\ todo[1].op = "DestroyBody" => bodies' \in {bodies, bodies \ {todo[1].t}}
  /\ todo[1].op = "add" => Array' = Array
  /\ todo[1].op = "n_things++" => Array' = Array \cup {todo[1].t}
  /\ todo[1].op = "moveUp" =>
       \A t \in Things : (InArray(t)' => InArray(t)) /\ (InArray(t) => InArray(t)' \/ Due("n_things--", t))
  /\ todo[1].op = "n_things--" =>
       \A t \in Things : (InArray(t)' <=> InArray(t)) /\ (Next1("n_things--", t) => ~ InArray(t)')
  /\ todo[1].op = "n_things--" =>
       \A p \in Pins : Tied(p)' = IF p = todo[1].t THEN {} ELSE Tied(p)

Works == Sound' /\ \E s \in Seq(Stmt) : Then(s) /\ Calling(s) /\ Changing

LEMMA InTheArray == \A t : InArray(t) <=> t \in Array
BY DEF InArray, Array

LEMMA Empty == \A k \in 1..Len(<<>>) : FALSE
BY Seq0

LEMMA Called ==
  ASSUME DInv, NEW op, Executes(op), NEW s \in Seq(Stmt), Then(s)
  PROVE  /\ todo # <<>> /\ todo[1].op = op /\ todo[1] \in Stmt /\ StatementTyped(todo[1])
         /\ This = todo[1].t /\ 1 \in 1..Len(todo) /\ Push(s)
         /\ \A oq, t : Next1(oq, t) <=> oq = op /\ t = todo[1].t
<1>1. todo # <<>> /\ todo[1].op = op /\ 1 \in 1..Len(todo)
      /\ todo[1] \in Stmt /\ StatementTyped(todo[1]) /\ This = todo[1].t
  BY First
<1>2. QED BY <1>1, Pushed DEF Next1, Is

\* A statement op about t that changes neither the array nor Box2D, and is
\* replaced by s.
Stays(op, t, s) ==
  /\ UNCHANGED <<slots, n_things, pinned, bodies, joints, b2joint>>
  /\ op \notin Adding \cup {"moveUp", "n_things--", "DestroyJoint", "setb2Joint", "CreateBody",
                            "CreateJoint", "initPhysics"}
  /\ Len(s) > 0 => s[1].op # "moveUp"
  /\ op = "removePins" /\ t \in Objects =>
       Due("removePins", t)' \/ \A p \in Pins : t \notin Tied(p)
  /\ \A o \in Objects :
       o \in invisible \ invisible' \/ (op \in {"hide", "makePhysical"} /\ o = t) =>
         \/ o \in bodies \cup invisible'
         \/ \E oq \in {"hide", "makePhysical", "CreateBody", "removePins"} : Due(oq, o)'
  /\ op \in {"makePhysical", "pin"} /\ t \in Pins =>
       Excused(0, t)' \/ (t \notin joints /\ ~ Holds(t))
  /\ op = "DestroyBody" /\ t \in Objects => Due("DestroyBody", t)'
  /\ op = "makeUnphysical" /\ t \in Pins =>
       t \notin joints \/ \E i \in 1..Len(s) : s[i].op = "DestroyJoint" /\ s[i].t = t
  /\ \A k \in 1..Len(s) : Relies(k)'

LEMMA StayWorks ==
  ASSUME DInv, Sound, NEW op, Executes(op), NEW t, todo[1].t = t,
         NEW s \in Seq(Stmt), Then(s), Calling(s), Stays(op, t, s)
  PROVE  Works
<1>0. UNCHANGED <<slots, n_things, pinned, bodies, joints, b2joint>>
  BY DEF Stays
<1>1. /\ todo # <<>> /\ todo[1].op = op /\ Push(s)
      /\ \A oq, u : Next1(oq, u) <=> oq = op /\ u = t
  BY Called
<1>2. Spare'
  BY <1>0, <1>1, SpareAfter DEF Stays, Adding
<1>3. Drawings'
  <2>1. \A o \in Objects : Next1("removePins", o) =>
          Due("removePins", o)' \/ \A p \in Pins : o \notin Tied(p)
    BY <1>1 DEF Stays
  <2>2. \A o \in Objects :
          \/ o \in invisible \ invisible'
          \/ Next1("hide", o) \/ Next1("makePhysical", o)
          => \/ o \in bodies \cup invisible'
             \/ \E oq \in {"hide", "makePhysical", "CreateBody", "removePins"} : Due(oq, o)'
    BY <1>1 DEF Stays
  <2>3. \A p \in Pins : Next1("makePhysical", p) \/ Next1("pin", p) =>
          Excused(0, p)' \/ (p \notin joints /\ ~ Holds(p))
    BY <1>1 DEF Stays
  <2>4. \A o \in Objects : Next1("DestroyBody", o) => Due("DestroyBody", o)'
    BY <1>1 DEF Stays
  <2>5. todo[1].op \notin Adding \cup {"n_things--", "DestroyJoint", "setb2Joint", "CreateBody",
                                        "CreateJoint"}
    BY <1>1 DEF Stays
  <2>6. QED BY <1>0, <1>1, <1>2, <2>1, <2>2, <2>3, <2>4, <2>5, DrawingsStay DEF Sound
<1>4. Planned'
  <2>1. \A p \in Pins : ~ Next1("DestroyJoint", p)
    BY <1>1 DEF Stays
  <2>2. \A u \in Things : InArray(u)' => InArray(u)
    BY <1>0 DEF InArray
  <2>3. \A p \in Pins :
          Next1("makeUnphysical", p) \/ Next1("DestroyJoint", p) =>
            p \notin joints' \/ \E i \in 1..Len(s) : s[i].op = "DestroyJoint" /\ s[i].t = p
    BY <1>0, <1>1, <2>1 DEF Stays
  <2>4. /\ todo[1].op # "initPhysics" /\ \A k \in 1..Len(s) : Relies(k)'
        /\ \A p \in joints' : p \in joints
    BY <1>0, <1>1 DEF Stays
  <2>5. QED BY <1>0, <1>1, <2>2, <2>3, <2>4, PlanAfter DEF Sound
<1>5. Changing
  BY <1>0, <1>1 DEF Changing, Stays, Adding
<1>6. QED BY <1>3, <1>4, <1>5 DEF Works, Sound

\* The statement only sets something that has nothing to do with the scene.
LEMMA PlainWorks ==
  ASSUME DInv, Sound, NEW op, Executes(op), Then(<<>>),
         op \in {"setb2Body(0)", "setb2Body", "delete", "disableDrawing", "enableDrawing",
                 "stopSimulationMode"},
         UNCHANGED <<slots, n_things, pinned, bodies, joints, b2joint, invisible>>
  PROVE  Works
<1>1. <<>> \in Seq(Stmt) /\ Len(<<>>) = 0
  BY Seq0
<1>2. todo # <<>> /\ todo[1].op = op
  BY <1>1, Called
<1>3. Calling(<<>>)
  BY <1>1, <1>2, Empty DEF Calling
<1>4. PICK t : todo[1].t = t
  OBVIOUS
<1>5. Stays(op, t, <<>>)
  BY <1>1, Empty DEF Stays, Adding
<1>6. QED BY <1>1, <1>2, <1>3, <1>4, <1>5, StayWorks

LEMMA PlainStatementsWork ==
  ASSUME DInv, Sound, ClearBody \/ SetBody \/ Delete \/ SetDrawing \/ StopSimulationMode
  PROVE  Works
<1>1. CASE ClearBody
  BY <1>1, PlainWorks DEF ClearBody, scene
<1>2. CASE SetBody
  BY <1>2, PlainWorks DEF SetBody, scene
<1>3. CASE Delete
  BY <1>3, PlainWorks DEF Delete, box2d
<1>4. CASE SetDrawing
  BY <1>4, PlainWorks DEF SetDrawing, scene, box2d
<1>5. CASE StopSimulationMode
  BY <1>5, PlainWorks DEF StopSimulationMode, scene, box2d
<1>6. QED BY <1>1, <1>2, <1>3, <1>4, <1>5

\* Calls that are made of the thing itself.
LEMMA MakingCalls ==
  ASSUME todo[1].op \in Making, NEW s,
         \A k \in 1..Len(s) : s[k].op \in Making /\ s[k].t = todo[1].t
  PROVE  Calling(s)
BY DEF Calling, Making, Freeing

LEMMA FreeingCalls ==
  ASSUME todo[1].op \in Freeing, NEW s,
         \A k \in 1..Len(s) : s[k].op \in Freeing /\ (s[k].t = todo[1].t \/ s[k].t \in Pins)
  PROVE  Calling(s)
BY DEF Calling, Making, Freeing

\* A body is what its thing points to, but where one of them is about to follow.
LEMMA BodiesAgree ==
  ASSUME DInv, NEW o \in Objects, todo[1].op \notin {"setb2Body(0)", "setb2Body"}
  PROVE  o \in b2body <=> o \in bodies
BY DEF DInv, Pointers, BodiesPointedTo, Next1, Is

LEMMA MakePhysicalWorks ==
  ASSUME DInv, Sound, MakePhysical
  PROVE  Works
<1>0. Executes("makePhysical") /\ UNCHANGED <<slots, n_things, pinned, invisible, b2body, b2joint, bodies, joints>>
  BY DEF MakePhysical, scene, box2d
<1>1. todo # <<>> /\ todo[1].op = "makePhysical" /\ 1 \in 1..Len(todo) /\ StatementTyped(todo[1])
      /\ This = todo[1].t
  BY <1>0, First
<1>2. PICK t \in Things : t = todo[1].t
  BY <1>1 DEF StatementTyped, OnThing
<1>4. Relies(1)
  BY <1>1 DEF Sound, Planned
<1>5. <<>> \in Seq(Stmt) /\ Len(<<>>) = 0
  BY Seq0
<1>6. Objects \cap Pins = {}
  BY DrawAssumption
<1>7. t \in Pins => t \notin joints
  BY <1>1, <1>2, <1>4 DEF Relies, JointMade, PinMaking
<1>8. CASE t \in Pins /\ pinned[t][1] = NULL
  <2>1. Then(<<>>)
    BY <1>1, <1>2, <1>8 DEF MakePhysical
  <2>2. Tied(t) = {}
    <3>1. pinned[t] = Unpinned \/ pinned[t][1] \in Objects
      BY <1>8 DEF Sound, Drawings, PinnedShape
    <3>2. pinned[t] = Unpinned
      BY <1>8, <3>1, DrawAssumption DEF Things
    <3>3. QED BY <3>2 DEF Tied, Unpinned
  <2>3. t \notin joints /\ ~ Holds(t)
    BY <1>7, <1>8, <2>2 DEF Holds
  <2>4. Calling(<<>>)
    BY <1>1, <1>5, Empty, MakingCalls DEF Making
  <2>5. Stays("makePhysical", t, <<>>)
    BY <1>0, <1>5, <1>6, <1>8, <2>3, Empty DEF Stays, Adding
  <2>6. QED BY <1>0, <1>1, <1>2, <1>5, <2>1, <2>4, <2>5, StayWorks
<1>9. CASE t \in Pins /\ pinned[t][1] # NULL
  <2>0. Do("pin", t) \in Stmt /\ Do("pin", t).op = "pin" /\ Do("pin", t).t = t
    BY <1>9, DoOnPin DEF OnPin
  <2>1. PICK s \in Seq(Stmt) : s = <<Do("pin", t)>> /\ Len(s) = 1 /\ s[1].op = "pin" /\ s[1].t = t
    BY <2>0, Seq1
  <2>2. Then(s)
    BY <1>1, <1>2, <1>9, <2>1 DEF MakePhysical
  <2>3. Push(s)
    BY <1>0, <2>2, Called
  <2>4. Calling(s)
    BY <1>1, <1>2, <2>1, MakingCalls DEF Making
  <2>5. Later(0, "pin", t)'
    BY <2>1, <2>3, CalledLater
  <2>6. Excused(0, t)'
    BY <2>5 DEF Excused, PinMaking
  <2>7. Relies(1)'
    <3>1. todo'[1].op = "pin" /\ todo'[1].t = t
      BY <2>1, <2>3 DEF Push
    <3>2. \A op \in PinMaking : ~ Later(1, op, t)
      BY <1>1, <1>2, <1>4, <1>9 DEF Relies, JointMade, PinMaking
    <3>3. \A op \in PinMaking : ~ Later(1, op, t)'
      <4>1. 1 - 1 + Len(s) = 1
        BY <2>1
      <4>2. QED BY <1>1, <2>3, <3>2, <4>1, LaterBefore
    <3>4. JointMade(1)'
      BY <1>0, <1>7, <1>9, <3>1, <3>3 DEF JointMade
    <3>5. QED BY <3>1, <3>4 DEF Relies, PinFreed, BodyFreed, BodyMade, Coupled, Remade, NothingMade,
                              RemovedLast, Removing, Is
  <2>8. Stays("makePhysical", t, s)
    BY <1>0, <1>6, <1>9, <2>1, <2>6, <2>7 DEF Stays, Adding
  <2>9. QED BY <1>0, <1>1, <1>2, <2>2, <2>4, <2>8, StayWorks
<1>10. CASE t \notin Pins /\ t \in b2body
  <2>1. Then(<<>>)
    BY <1>1, <1>2, <1>10 DEF MakePhysical
  <2>2. t \in bodies
    BY <1>1, <1>10, <1>2, BodiesAgree DEF Things
  <2>3. Calling(<<>>)
    BY <1>1, <1>5, Empty, MakingCalls DEF Making
  <2>4. Stays("makePhysical", t, <<>>)
    BY <1>0, <1>5, <1>10, <2>2, Empty DEF Stays, Adding
  <2>5. QED BY <1>0, <1>1, <1>2, <1>5, <2>1, <2>3, <2>4, StayWorks
<1>11. CASE t \notin Pins /\ t \notin b2body
  <2>0. t \in Objects
    BY <1>2, <1>11 DEF Things
  <2>a. /\ Do("CreateBody", t) \in Stmt /\ Do("setb2Body", t) \in Stmt
        /\ Do("CreateBody", t).op = "CreateBody" /\ Do("CreateBody", t).t = t
        /\ Do("setb2Body", t).op = "setb2Body" /\ Do("setb2Body", t).t = t
    BY <2>0, DoOnObject DEF OnObject
  <2>1. PICK s \in Seq(Stmt) : /\ s = <<Do("CreateBody", t), Do("setb2Body", t)>> /\ Len(s) = 2
                               /\ s[1].op = "CreateBody" /\ s[1].t = t
                               /\ s[2].op = "setb2Body" /\ s[2].t = t
    <3>1. PICK a, b : a = Do("CreateBody", t) /\ b = Do("setb2Body", t)
      OBVIOUS
    <3>2. a \in Stmt /\ b \in Stmt
      BY <2>a, <3>1
    <3>3. a.op = "CreateBody" /\ a.t = t /\ b.op = "setb2Body" /\ b.t = t
      BY <2>a, <3>1
    <3>4. PICK r : r = <<a, b>>
      OBVIOUS
    <3>5. r \in Seq(Stmt) /\ Len(r) = 2 /\ r[1] = a /\ r[2] = b
      BY <3>2, <3>4, Seq2
    <3>6. QED BY <3>1, <3>3, <3>4, <3>5
  <2>2. Then(s)
    BY <1>1, <1>2, <1>11, <2>1 DEF MakePhysical
  <2>3. Push(s)
    BY <1>0, <2>2, Called
  <2>4. Calling(s)
    BY <1>1, <1>2, <2>1, MakingCalls DEF Making
  <2>5. Due("CreateBody", t)'
    BY <2>1, <2>3, CalledLater DEF Due
  <2>6. ASSUME NEW k \in 1..Len(s) PROVE Relies(k)'
    <3>1. k \in {1, 2}
      BY <2>1
    <3>2. CASE k = 1
      <4>1. todo'[1].op = "CreateBody" /\ todo'[1].t = t
        BY <2>1, <2>3 DEF Push
      <4>2. ASSUME NEW p \in Pins, t \in Tied(p)' PROVE Later(1, "makePhysical", p)'
        <5>1. t \in Tied(p)
          BY <1>0, <4>2 DEF Tied
        <5>2. Later(1, "makePhysical", p)
          BY <1>1, <1>2, <1>4, <2>0, <5>1 DEF Relies, BodyMade
        <5>3. 1 \in 0..1 - 1 + Len(s)
          BY <2>1
        <5>4. QED BY <1>1, <2>3, <5>2, <5>3, LaterAfter
      <4>3. QED BY <1>6, <2>0, <3>2, <4>1, <4>2
                DEF Relies, PinFreed, BodyFreed, BodyMade, JointMade, Coupled, Remade, NothingMade,
                    RemovedLast, Removing, Is
    <3>3. CASE k = 2
      <4>1. todo'[2].op = "setb2Body" /\ todo'[2].t = t
        BY <2>1, <2>3 DEF Push
      <4>2. QED BY <3>3, <4>1
                DEF Relies, PinFreed, BodyFreed, BodyMade, JointMade, Coupled, Remade, NothingMade,
                    RemovedLast, Removing, Is, PinMaking
    <3>4. QED BY <3>1, <3>2, <3>3
  <2>7. Stays("makePhysical", t, s)
    BY <1>0, <1>11, <2>1, <2>5, <2>6 DEF Stays, Adding
  <2>8. QED BY <1>0, <1>1, <1>2, <2>2, <2>4, <2>7, StayWorks
<1>12. QED BY <1>8, <1>9, <1>10, <1>11

\* These rely on nothing.
LEMMA NothingRelied ==
  ASSUME NEW k,
         todo'[k].op \in {"add", "n_things++", "setb2Body(0)", "setb2Body", "setb2Joint", "hide",
                          "delete", "load", "disableDrawing", "enableDrawing", "stopSimulationMode"}
  PROVE  Relies(k)'
BY DEF Relies, PinFreed, BodyFreed, BodyMade, JointMade, Coupled, Remade, NothingMade, RemovedLast,
       Removing, PinMaking, Is

LEMMA AttachWorks ==
  ASSUME DInv, Sound, Attach, ~ fault'
  PROVE  Works
<1>0. Executes("pin") /\ UNCHANGED <<slots, n_things, pinned, invisible, b2body, b2joint, bodies, joints>>
  BY DEF Attach, scene, box2d
<1>1. todo # <<>> /\ todo[1].op = "pin" /\ 1 \in 1..Len(todo) /\ StatementTyped(todo[1])
      /\ This = todo[1].t
  BY <1>0, First
<1>2. PICK p \in Pins : p = todo[1].t
  BY <1>1 DEF StatementTyped, OnPin
<1>3. p \notin joints /\ \A op \in PinMaking : ~ Later(1, op, p)
  BY <1>1, <1>2 DEF Sound, Planned, Relies, JointMade, PinMaking
<1>4. \A o \in Objects : o \in b2body <=> o \in bodies
  BY <1>1, BodiesAgree
<1>5. pinned[p] = Unpinned \/ pinned[p][1] \in Objects
  BY DEF Sound, Drawings, PinnedShape
<1>6. b2body \subseteq Objects /\ NULL \notin Objects /\ Objects \cap Pins = {}
  BY DrawAssumption DEF DInv, TypeOK, Things
<1>7. CASE pinned[p][1] \notin b2body
  <2>1. Then(<<>>) /\ <<>> \in Seq(Stmt) /\ Len(<<>>) = 0
    BY <1>1, <1>2, <1>7, Seq0 DEF Attach
  <2>2. ~ Holds(p)
    <3>1. CASE pinned[p] = Unpinned
      BY <3>1 DEF Holds, Tied, Unpinned
    <3>2. CASE pinned[p][1] \in Objects
      BY <1>4, <1>6, <1>7, <3>2 DEF Holds, Tied
    <3>3. QED BY <1>5, <3>1, <3>2
  <2>3. Calling(<<>>)
    BY <1>1, <2>1, Empty, MakingCalls DEF Making
  <2>4. Stays("pin", p, <<>>)
    BY <1>0, <1>3, <1>6, <2>1, <2>2, Empty DEF Stays, Adding
  <2>5. QED BY <1>0, <1>1, <1>2, <2>1, <2>3, <2>4, StayWorks
<1>8. CASE pinned[p][1] \in b2body
  <2>0. /\ Do("CreateJoint", p) \in Stmt /\ Do("setb2Joint", p) \in Stmt
        /\ Do("CreateJoint", p).op = "CreateJoint" /\ Do("CreateJoint", p).t = p
        /\ Do("setb2Joint", p).op = "setb2Joint" /\ Do("setb2Joint", p).t = p
    BY DoOnPin DEF OnPin
  <2>1. PICK s \in Seq(Stmt) : /\ s = <<Do("CreateJoint", p), Do("setb2Joint", p)>> /\ Len(s) = 2
                               /\ s[1].op = "CreateJoint" /\ s[1].t = p
                               /\ s[2].op = "setb2Joint" /\ s[2].t = p
    <3>1. PICK a, b : a = Do("CreateJoint", p) /\ b = Do("setb2Joint", p)
      OBVIOUS
    <3>2. a \in Stmt /\ b \in Stmt
      BY <2>0, <3>1
    <3>3. a.op = "CreateJoint" /\ a.t = p /\ b.op = "setb2Joint" /\ b.t = p
      BY <2>0, <3>1
    <3>4. PICK r : r = <<a, b>>
      OBVIOUS
    <3>5. r \in Seq(Stmt) /\ Len(r) = 2 /\ r[1] = a /\ r[2] = b
      BY <3>2, <3>4, Seq2
    <3>6. QED BY <3>1, <3>3, <3>4, <3>5
  <2>2. Then(s) /\ pinned[p][2] \in b2body \cup {NULL}
    BY <1>1, <1>2, <1>8, <2>1 DEF Attach
  <2>3. Push(s)
    BY <1>0, <2>2, Called
  <2>4. Holds(p)
    BY <1>4, <1>6, <1>8, <2>2 DEF Holds, Tied
  <2>5. Calling(s)
    <3>1. \A k \in 1..Len(s) : s[k].op \in Making /\ s[k].t = todo[1].t
      BY <1>2, <2>1 DEF Making
    <3>2. QED BY <1>1, <3>1, MakingCalls DEF Making
  <2>6. Later(0, "CreateJoint", p)'
    BY <2>1, <2>3, CalledLater
  <2>7. Excused(0, p)'
    BY <2>6 DEF Excused, PinMaking
  <2>8. ASSUME NEW k \in 1..Len(s) PROVE Relies(k)'
    <3>1. k \in {1, 2} /\ 1 \in 1..Len(todo') /\ 2 \in 1..Len(todo')
          /\ todo'[1].op = "CreateJoint" /\ todo'[1].t = p
          /\ todo'[2].op = "setb2Joint" /\ todo'[2].t = p
      BY <2>1, <2>3 DEF Push
    <3>2. CASE k = 1
      <4>1. \A op \in PinMaking : ~ Later(1, op, p)'
        <5>1. \A op \in PinMaking : ~ Later(1 - 1 + Len(s), op, p)'
          BY <1>1, <1>3, <2>3, LaterBefore
        <5>2. \A op \in PinMaking : ~ Later(2, op, p)'
          BY <2>1, <5>1
        <5>3. \A op \in PinMaking : ~ Is(2, op, p)'
          BY <3>1 DEF Is, PinMaking
        <5>4. \A op \in PinMaking : Later(1, op, p)' => Later(2, op, p)' \/ Is(2, op, p)'
          BY DEF Later, Is
        <5>5. QED BY <5>2, <5>3, <5>4
      <4>2. Holds(p)'
        BY <1>0, <2>4 DEF Holds, Tied
      <4>3. JointMade(1)'
        BY <1>0, <1>3, <3>1, <4>1, <4>2 DEF JointMade
      <4>4. Coupled(1)'
        BY <3>1 DEF Coupled, Is
      <4>5. QED BY <3>1, <3>2, <4>3, <4>4
                DEF Relies, PinFreed, BodyFreed, BodyMade, Remade, NothingMade, RemovedLast,
                    Removing, Is
    <3>3. CASE k = 2
      BY <3>1, <3>3, NothingRelied
    <3>4. QED BY <3>1, <3>2, <3>3
  <2>9. Stays("pin", p, s)
    BY <1>0, <1>6, <2>1, <2>7, <2>8 DEF Stays, Adding
  <2>10. QED BY <1>0, <1>1, <1>2, <2>2, <2>5, <2>9, StayWorks
<1>9. QED BY <1>7, <1>8

-----------------------------------------------------------------------------
\* Where a statement about Box2D leaves the array alone.
LEMMA PlacesStay ==
  ASSUME DInv, Drawings, NEW s, Push(s), UNCHANGED <<slots, n_things, pinned>>,
         todo[1].op \notin Adding \cup {"n_things--", "removePins", "moveUp"},
         Len(s) > 0 => s[1].op # "moveUp"
  PROVE  (PinnedShape /\ PinsIn /\ TiedIn /\ Precede /\ Spare)'
<1>1. \A p \in Pins : Tied(p)' = Tied(p)
  BY SameTied
<1>2. \A t : InArray(t)' <=> InArray(t)
  BY DEF InArray
<1>3. \A op, t : Due(op, t) /\ ~ Next1(op, t) => Due(op, t)'
  BY DueAfter
<1>4. PinnedShape'
  BY DEF Drawings, PinnedShape, Unpinned
<1>5. PinsIn'
  <2>1. SUFFICES ASSUME NEW p \in Pins, pinned[p] # Unpinned
                 PROVE  InArray(p)' \/ Due("n_things--", p)'
    BY DEF PinsIn, Unpinned
  <2>2. InArray(p) \/ AddNext(p) \/ Due("n_things--", p)
    BY <2>1 DEF Drawings, PinsIn
  <2>3. ~ AddNext(p) /\ ~ Next1("n_things--", p)
    BY DEF AddNext, Next1, Is, Adding
  <2>4. QED BY <1>2, <1>3, <2>2, <2>3
<1>6. TiedIn'
  <2>1. SUFFICES ASSUME NEW p \in Pins, NEW o \in Tied(p)
                 PROVE  InArray(o)' \/ Due("removePins", o)'
    BY <1>1 DEF TiedIn
  <2>2. InArray(o) \/ Due("removePins", o)
    BY <2>1 DEF Drawings, TiedIn
  <2>3. ~ Next1("removePins", o)
    BY DEF Next1, Is
  <2>4. QED BY <1>2, <1>3, <2>2, <2>3
<1>7. Precede'
  BY DEF Drawings, Precede, Tied
<1>8. Spare'
  <2>1. todo[1].op \notin {"moveUp", "n_things--", "n_things++"}
    BY DEF Adding
  <2>2. QED BY <2>1, SpareAfter
<1>9. QED BY <1>4, <1>5, <1>6, <1>7, <1>8

ShowOps == {"hide", "makePhysical", "CreateBody", "removePins"}

LEMMA ShownAfter ==
  ASSUME DInv, Drawings, NEW s, Push(s), UNCHANGED pinned,
         \A o \in Objects :
           o \in bodies \cup invisible \/ Next1("hide", o) \/ Next1("makePhysical", o)
             \/ Next1("CreateBody", o) \/ Next1("removePins", o) =>
           o \in bodies' \cup invisible' \/ (\E op \in ShowOps : Due(op, o)')
             \/ (\A p \in Pins : o \notin Tied(p))
  PROVE  Shown'
<1>1. \A p \in Pins : Tied(p)' = Tied(p)
  BY SameTied
<1>2. SUFFICES ASSUME NEW p \in Pins, NEW o \in Tied(p)
               PROVE  o \in bodies' \cup invisible' \/ \E op \in ShowOps : Due(op, o)'
  BY <1>1 DEF Shown, ShowOps
<1>3. o \in Objects
  BY DEF DInv, TypeOK, Tied
<1>4. o \in bodies \cup invisible \/ \E op \in ShowOps : Due(op, o)
  BY DEF Drawings, Shown, ShowOps
<1>5. ASSUME NEW op \in ShowOps, Due(op, o), ~ Next1(op, o)
      PROVE  Due(op, o)'
  BY <1>5, DueAfter
<1>6. CASE o \in bodies \cup invisible
  BY <1>2, <1>3, <1>6
<1>7. ASSUME NEW op \in ShowOps, Due(op, o), Next1(op, o)
      PROVE  o \in bodies' \cup invisible' \/ \E oq \in ShowOps : Due(oq, o)'
  <2>1. Next1("hide", o) \/ Next1("makePhysical", o) \/ Next1("CreateBody", o) \/ Next1("removePins", o)
    BY <1>7 DEF ShowOps
  <2>2. QED BY <1>2, <1>3, <2>1
<1>8. QED BY <1>4, <1>5, <1>6, <1>7

LEMMA JointsAfter ==
  ASSUME DInv, Drawings, NEW s, Push(s), UNCHANGED pinned,
         \A p \in Pins :
           \/ /\ p \in joints' <=> p \in joints
              /\ Holds(p)' <=> Holds(p)
              /\ \A op \in PinMaking \cup {"n_things--"} : ~ Next1(op, p)
              /\ \A o \in Tied(p) : ~ Next1("DestroyBody", o)
           \/ p \in joints' <=> Holds(p)'
           \/ Excused(0, p)'
  PROVE  JointsHold'
<1>1. \A p \in Pins : Tied(p)' = Tied(p)
  BY SameTied
<1>2. SUFFICES ASSUME NEW p \in Pins, ~ (p \in joints' <=> Holds(p)'), ~ Excused(0, p)'
               PROVE  FALSE
  BY DEF JointsHold
<1>3. /\ p \in joints' <=> p \in joints
      /\ Holds(p)' <=> Holds(p)
      /\ \A op \in PinMaking \cup {"n_things--"} : ~ Next1(op, p)
      /\ \A o \in Tied(p) : ~ Next1("DestroyBody", o)
  BY <1>2
<1>4. Excused(0, p)
  BY <1>2, <1>3 DEF Drawings, JointsHold
<1>5. ASSUME NEW op \in PinMaking \cup {"n_things--"}, Later(0, op, p) PROVE FALSE
  <2>1. Due(op, p)'
    BY <1>3, <1>5, DueAfter DEF Due
  <2>2. QED BY <1>2, <2>1 DEF Excused, Due
<1>6. ASSUME NEW o \in Tied(p), Later(0, "DestroyBody", o) PROVE FALSE
  <2>1. Due("DestroyBody", o)'
    BY <1>3, <1>6, DueAfter DEF Due
  <2>2. QED BY <1>1, <1>2, <2>1 DEF Excused, Due
<1>7. QED BY <1>4, <1>5, <1>6 DEF Excused

LEMMA CreateBodyWorks ==
  ASSUME DInv, Sound, CreateBody
  PROVE  Works
<1>0. /\ Executes("CreateBody") /\ UNCHANGED <<slots, n_things, pinned, invisible, b2body, b2joint, joints>>
      /\ Then(<<>>) /\ bodies' = bodies \cup {todo[1].t}
  BY First DEF CreateBody, scene
<1>1. <<>> \in Seq(Stmt) /\ Len(<<>>) = 0
  BY Seq0
<1>2. /\ todo # <<>> /\ todo[1].op = "CreateBody" /\ StatementTyped(todo[1]) /\ 1 \in 1..Len(todo)
      /\ Push(<<>>) /\ \A oq, u : Next1(oq, u) <=> oq = "CreateBody" /\ u = todo[1].t
  BY <1>0, <1>1, Called
<1>3. PICK o \in Objects : o = todo[1].t
  BY <1>2 DEF StatementTyped, OnObject
<1>4. \A p \in Pins : Tied(p)' = Tied(p)
  BY <1>0, SameTied
<1>5. Objects \cap Pins = {}
  BY DrawAssumption
<1>6. (PinnedShape /\ PinsIn /\ TiedIn /\ Precede /\ Spare)'
  BY <1>0, <1>1, <1>2, PlacesStay DEF Sound, Adding
<1>7. Shown'
  <2>1. \A u \in Objects :
          u \in bodies \cup invisible \/ Next1("hide", u) \/ Next1("makePhysical", u)
            \/ Next1("CreateBody", u) \/ Next1("removePins", u) =>
          u \in bodies' \cup invisible'
    BY <1>0, <1>2
  <2>2. QED BY <1>0, <1>2, <2>1, ShownAfter DEF Sound
<1>8. JointsPointedTo'
  <2>1. SUFFICES ASSUME NEW p \in joints PROVE p \in b2joint
    BY <1>0 DEF JointsPointedTo
  <2>2. ~ Next1("DestroyJoint", p) /\ ~ Next1("setb2Joint", p)
    BY <1>2
  <2>3. QED BY <2>2 DEF Sound, Drawings, JointsPointedTo
<1>9. JointsHold'
  <2>1. ASSUME NEW p \in Pins, o \in Tied(p) PROVE Excused(0, p)'
    <3>1. Later(1, "makePhysical", p)
      BY <1>2, <1>3, <2>1 DEF Sound, Planned, Relies, BodyMade
    <3>2. 0 \in 0..1 - 1 + Len(<<>>)
      BY <1>1
    <3>3. Later(0, "makePhysical", p)'
      BY <1>2, <3>1, <3>2, LaterAfter
    <3>4. QED BY <3>3 DEF Excused, PinMaking
  <2>2. ASSUME NEW p \in Pins, o \notin Tied(p)
        PROVE  /\ p \in joints' <=> p \in joints
               /\ Holds(p)' <=> Holds(p)
               /\ \A op \in PinMaking \cup {"n_things--"} : ~ Next1(op, p)
               /\ \A u \in Tied(p) : ~ Next1("DestroyBody", u)
    BY <1>0, <1>2, <1>3, <1>4, <1>5, <2>2 DEF Holds, PinMaking
  <2>3. QED BY <1>0, <1>2, <2>1, <2>2, JointsAfter DEF Sound
<1>10. Planned'
  BY <1>0, <1>1, <1>2, PlanAfter, Empty DEF Sound, InArray, Freeing
<1>11. Calling(<<>>)
  BY <1>1, <1>2, Empty, MakingCalls DEF Making
<1>12. Changing
  BY <1>0, <1>2 DEF Changing
<1>13. QED BY <1>0, <1>1, <1>6, <1>7, <1>8, <1>9, <1>10, <1>11, <1>12 DEF Works, Sound, Drawings

LEMMA CreateJointWorks ==
  ASSUME DInv, Sound, CreateJoint
  PROVE  Works
<1>0. /\ Executes("CreateJoint") /\ UNCHANGED <<slots, n_things, pinned, invisible, b2body, b2joint, bodies>>
      /\ Then(<<>>) /\ joints' = joints \cup {todo[1].t}
  BY First DEF CreateJoint, scene
<1>1. <<>> \in Seq(Stmt) /\ Len(<<>>) = 0
  BY Seq0
<1>2. /\ todo # <<>> /\ todo[1].op = "CreateJoint" /\ StatementTyped(todo[1]) /\ 1 \in 1..Len(todo)
      /\ Push(<<>>) /\ \A oq, u : Next1(oq, u) <=> oq = "CreateJoint" /\ u = todo[1].t
  BY <1>0, <1>1, Called
<1>3. PICK p \in Pins : p = todo[1].t
  BY <1>2 DEF StatementTyped, OnPin
<1>4. \A q \in Pins : Tied(q)' = Tied(q) /\ (Holds(q)' <=> Holds(q))
  BY <1>0 DEF Tied, Holds
<1>5. Relies(1) /\ p \in Things
  BY <1>2 DEF Sound, Planned, Things
<1>6. (PinnedShape /\ PinsIn /\ TiedIn /\ Precede /\ Spare)'
  BY <1>0, <1>1, <1>2, PlacesStay DEF Sound, Adding
<1>7. Shown'
  <2>1. \A u \in Objects :
          u \in bodies \cup invisible \/ Next1("hide", u) \/ Next1("makePhysical", u)
            \/ Next1("CreateBody", u) \/ Next1("removePins", u) =>
          u \in bodies' \cup invisible'
    BY <1>0, <1>2
  <2>2. QED BY <1>0, <1>2, <2>1, ShownAfter DEF Sound
<1>8. JointsPointedTo'
  <2>1. SUFFICES ASSUME NEW q \in joints \cup {p} PROVE q \in b2joint \/ Next1("setb2Joint", q)'
    BY <1>0, <1>3 DEF JointsPointedTo
  <2>2. CASE q = p
    <3>1. Is(2, "setb2Joint", p)
      BY <1>2, <1>3, <1>5 DEF Relies, Coupled, Is
    <3>2. 2 \in 2..Len(todo) /\ 2 - 1 + Len(<<>>) = 1
      BY <1>1, <3>1 DEF Is
    <3>3. Is(2 - 1 + Len(<<>>), "setb2Joint", p)'
      BY <1>2, <3>1, <3>2, IsAfter
    <3>4. QED BY <2>2, <3>2, <3>3 DEF Next1
  <2>3. CASE q # p
    <3>1. ~ Next1("DestroyJoint", q) /\ ~ Next1("setb2Joint", q)
      BY <1>2
    <3>2. QED BY <2>1, <2>3, <3>1 DEF Sound, Drawings, JointsPointedTo
  <2>4. QED BY <2>2, <2>3
<1>9. JointsHold'
  <2>1. p \in joints' /\ Holds(p)'
    BY <1>0, <1>2, <1>3, <1>4, <1>5 DEF Relies, JointMade, PinMaking
  <2>2. ASSUME NEW q \in Pins, q # p
        PROVE  /\ q \in joints' <=> q \in joints
               /\ Holds(q)' <=> Holds(q)
               /\ \A op \in PinMaking \cup {"n_things--"} : ~ Next1(op, q)
               /\ \A u \in Tied(q) : ~ Next1("DestroyBody", u)
    BY <1>0, <1>2, <1>3, <1>4, <2>2
  <2>3. QED BY <1>0, <1>2, <2>1, <2>2, JointsAfter DEF Sound
<1>10. Planned'
  BY <1>0, <1>1, <1>2, PlanAfter, Empty DEF Sound, Freeing
<1>11. Calling(<<>>)
  BY <1>1, <1>2, Empty, MakingCalls DEF Making
<1>12. Changing
  BY <1>0, <1>2 DEF Changing
<1>13. QED BY <1>0, <1>1, <1>6, <1>7, <1>8, <1>9, <1>10, <1>11, <1>12 DEF Works, Sound, Drawings

LEMMA SetJointWorks ==
  ASSUME DInv, Sound, SetJoint
  PROVE  Works
<1>0. /\ Executes("setb2Joint") /\ UNCHANGED <<slots, n_things, pinned, invisible, b2body, bodies, joints>>
      /\ Then(<<>>) /\ b2joint' = b2joint \cup {todo[1].t}
  BY First DEF SetJoint, scene
<1>1. <<>> \in Seq(Stmt) /\ Len(<<>>) = 0
  BY Seq0
<1>2. /\ todo # <<>> /\ todo[1].op = "setb2Joint" /\ 1 \in 1..Len(todo)
      /\ Push(<<>>) /\ \A oq, u : Next1(oq, u) <=> oq = "setb2Joint" /\ u = todo[1].t
  BY <1>0, <1>1, Called
<1>4. \A q \in Pins : Tied(q)' = Tied(q) /\ (Holds(q)' <=> Holds(q))
  BY <1>0 DEF Tied, Holds
<1>6. (PinnedShape /\ PinsIn /\ TiedIn /\ Precede /\ Spare)'
  BY <1>0, <1>1, <1>2, PlacesStay DEF Sound, Adding
<1>7. Shown'
  <2>1. \A u \in Objects :
          u \in bodies \cup invisible \/ Next1("hide", u) \/ Next1("makePhysical", u)
            \/ Next1("CreateBody", u) \/ Next1("removePins", u) =>
          u \in bodies' \cup invisible'
    BY <1>0, <1>2
  <2>2. QED BY <1>0, <1>2, <2>1, ShownAfter DEF Sound
<1>8. JointsPointedTo'
  <2>1. SUFFICES ASSUME NEW q \in joints PROVE q \in b2joint \cup {todo[1].t}
    BY <1>0 DEF JointsPointedTo
  <2>2. ~ Next1("DestroyJoint", q) /\ (Next1("setb2Joint", q) => q = todo[1].t)
    BY <1>2
  <2>3. QED BY <2>1, <2>2 DEF Sound, Drawings, JointsPointedTo
<1>9. JointsHold'
  <2>1. ASSUME NEW q \in Pins
        PROVE  /\ q \in joints' <=> q \in joints
               /\ Holds(q)' <=> Holds(q)
               /\ \A op \in PinMaking \cup {"n_things--"} : ~ Next1(op, q)
               /\ \A u \in Tied(q) : ~ Next1("DestroyBody", u)
    BY <1>0, <1>2, <1>4 DEF PinMaking
  <2>2. QED BY <1>0, <1>2, <2>1, JointsAfter DEF Sound
<1>10. Planned'
  BY <1>0, <1>1, <1>2, PlanAfter, Empty DEF Sound, Freeing
<1>11. Calling(<<>>)
  BY <1>1, <1>2, Empty, MakingCalls DEF Making
<1>12. Changing
  BY <1>0, <1>2 DEF Changing
<1>13. QED BY <1>0, <1>1, <1>6, <1>7, <1>8, <1>9, <1>10, <1>11, <1>12 DEF Works, Sound, Drawings

LEMMA MakeUnphysicalWorks ==
  ASSUME DInv, Sound, MakeUnphysical
  PROVE  Works
<1>0. Executes("makeUnphysical") /\ UNCHANGED <<slots, n_things, pinned, invisible, b2body, b2joint, bodies, joints>>
  BY DEF MakeUnphysical, scene, box2d
<1>1. todo # <<>> /\ todo[1].op = "makeUnphysical" /\ 1 \in 1..Len(todo) /\ StatementTyped(todo[1])
      /\ This = todo[1].t
  BY <1>0, First
<1>2. PICK t \in Things : t = todo[1].t
  BY <1>1 DEF StatementTyped, OnThing
<1>3. Relies(1) /\ b2joint \subseteq Pins /\ b2body \subseteq Objects
  BY <1>1 DEF Sound, Planned, DInv, TypeOK
<1>4. Objects \cap Pins = {} /\ BG \notin Things
  BY DrawAssumption
<1>5. CASE t \in b2joint
  <2>0. /\ t \in Pins
        /\ Do("setb2Joint(0)", t) \in Stmt /\ Do("DestroyJoint", t) \in Stmt
        /\ Do("setb2Joint(0)", t).op = "setb2Joint(0)" /\ Do("setb2Joint(0)", t).t = t
        /\ Do("DestroyJoint", t).op = "DestroyJoint" /\ Do("DestroyJoint", t).t = t
    BY <1>3, <1>5, DoOnPin DEF OnPin
  <2>1. PICK s \in Seq(Stmt) : /\ s = <<Do("setb2Joint(0)", t), Do("DestroyJoint", t)>> /\ Len(s) = 2
                               /\ s[1].op = "setb2Joint(0)" /\ s[1].t = t
                               /\ s[2].op = "DestroyJoint" /\ s[2].t = t
    <3>1. PICK a, b : a = Do("setb2Joint(0)", t) /\ b = Do("DestroyJoint", t)
      OBVIOUS
    <3>2. a \in Stmt /\ b \in Stmt
      BY <2>0, <3>1
    <3>3. a.op = "setb2Joint(0)" /\ a.t = t /\ b.op = "DestroyJoint" /\ b.t = t
      BY <2>0, <3>1
    <3>4. PICK r : r = <<a, b>>
      OBVIOUS
    <3>5. r \in Seq(Stmt) /\ Len(r) = 2 /\ r[1] = a /\ r[2] = b
      BY <3>2, <3>4, Seq2
    <3>6. QED BY <3>1, <3>3, <3>4, <3>5
  <2>2. Then(s)
    BY <1>1, <1>2, <1>5, <2>1 DEF MakeUnphysical
  <2>3. Push(s)
    BY <1>0, <2>2, Called
  <2>4. Calling(s)
    <3>1. \A k \in 1..Len(s) : s[k].op \in Freeing /\ s[k].t = todo[1].t
      BY <1>2, <2>1 DEF Freeing
    <3>2. QED BY <1>1, <3>1, FreeingCalls DEF Freeing
  <2>5. Excused(1, t)' /\ Excused(2, t)'
    <3>1. Excused(1, t)
      BY <1>1, <1>2, <1>3, <2>0 DEF Relies, PinFreed
    <3>2. Tied(t)' = Tied(t) /\ 1 \in 0..1 - 1 + Len(s) /\ 2 \in 0..1 - 1 + Len(s)
      BY <1>0, <2>0, <2>1, SameTied
    <3>3. QED BY <1>1, <2>0, <2>3, <3>1, <3>2, ExcusedAfter
  <2>6. ASSUME NEW k \in 1..Len(s) PROVE Relies(k)'
    <3>1. k \in {1, 2} /\ 1 \in 1..Len(todo') /\ 2 \in 1..Len(todo')
          /\ todo'[1].op = "setb2Joint(0)" /\ todo'[1].t = t
          /\ todo'[2].op = "DestroyJoint" /\ todo'[2].t = t
      BY <2>1, <2>3 DEF Push
    <3>2. PinFreed(k)'
      BY <2>5, <3>1 DEF PinFreed
    <3>3. Coupled(k)'
      BY <3>1 DEF Coupled, Is
    <3>4. QED BY <3>1, <3>2, <3>3
              DEF Relies, BodyFreed, BodyMade, JointMade, Remade, NothingMade, RemovedLast,
                  Removing, PinMaking, Is
  <2>7. Stays("makeUnphysical", t, s)
    BY <1>0, <1>4, <2>0, <2>1, <2>6 DEF Stays, Adding
  <2>8. QED BY <1>0, <1>1, <1>2, <2>2, <2>4, <2>7, StayWorks
<1>6. CASE t \notin b2joint /\ t \in b2body
  <2>0. /\ t \in Objects
        /\ Do("DestroyBody", t) \in Stmt /\ Do("setb2Body(0)", t) \in Stmt
        /\ Do("DestroyBody", t).op = "DestroyBody" /\ Do("DestroyBody", t).t = t
        /\ Do("setb2Body(0)", t).op = "setb2Body(0)" /\ Do("setb2Body(0)", t).t = t
    BY <1>3, <1>6, DoDestroyBody, DoOnObject DEF OnObject
  <2>1. PICK s \in Seq(Stmt) : /\ s = <<Do("DestroyBody", t), Do("setb2Body(0)", t)>> /\ Len(s) = 2
                               /\ s[1].op = "DestroyBody" /\ s[1].t = t
                               /\ s[2].op = "setb2Body(0)" /\ s[2].t = t
    <3>1. PICK a, b : a = Do("DestroyBody", t) /\ b = Do("setb2Body(0)", t)
      OBVIOUS
    <3>2. a \in Stmt /\ b \in Stmt
      BY <2>0, <3>1
    <3>3. a.op = "DestroyBody" /\ a.t = t /\ b.op = "setb2Body(0)" /\ b.t = t
      BY <2>0, <3>1
    <3>4. PICK r : r = <<a, b>>
      OBVIOUS
    <3>5. r \in Seq(Stmt) /\ Len(r) = 2 /\ r[1] = a /\ r[2] = b
      BY <3>2, <3>4, Seq2
    <3>6. QED BY <3>1, <3>3, <3>4, <3>5
  <2>2. Then(s)
    BY <1>1, <1>2, <1>6, <2>1 DEF MakeUnphysical
  <2>3. Push(s)
    BY <1>0, <2>2, Called
  <2>4. Calling(s)
    <3>1. \A k \in 1..Len(s) : s[k].op \in Freeing /\ s[k].t = todo[1].t
      BY <1>2, <2>1 DEF Freeing
    <3>2. QED BY <1>1, <3>1, FreeingCalls DEF Freeing
  <2>5. \E op \in {"hide", "makePhysical", "removePins"} : Later(1, op, t)'
    <3>1. PICK op \in {"hide", "makePhysical", "removePins"} : Later(1, op, t)
      BY <1>1, <1>2, <1>3, <2>0 DEF Relies, BodyFreed
    <3>2. 1 \in 0..1 - 1 + Len(s)
      BY <2>1
    <3>3. QED BY <1>1, <2>3, <3>1, <3>2, LaterAfter
  <2>6. ASSUME NEW k \in 1..Len(s) PROVE Relies(k)'
    <3>1. k \in {1, 2} /\ todo'[1].op = "DestroyBody" /\ todo'[1].t = t
          /\ todo'[2].op = "setb2Body(0)"
      BY <2>1, <2>3 DEF Push
    <3>2. CASE k = 1
      <4>1. BodyFreed(1)'
        BY <2>5, <3>1 DEF BodyFreed
      <4>2. Remade(1)'
        BY <1>2, <1>4, <3>1 DEF Remade, Is
      <4>3. QED BY <3>1, <3>2, <4>1, <4>2
                DEF Relies, PinFreed, BodyMade, JointMade, Coupled, NothingMade, RemovedLast,
                    Removing, PinMaking, Is
    <3>3. CASE k = 2
      BY <3>1, <3>3, NothingRelied
    <3>4. QED BY <3>1, <3>2, <3>3
  <2>7. Stays("makeUnphysical", t, s)
    BY <1>0, <1>4, <2>0, <2>1, <2>6 DEF Stays, Adding
  <2>8. QED BY <1>0, <1>1, <1>2, <2>2, <2>4, <2>7, StayWorks
<1>7. CASE t \notin b2joint /\ t \notin b2body
  <2>1. Then(<<>>) /\ <<>> \in Seq(Stmt) /\ Len(<<>>) = 0
    BY <1>1, <1>2, <1>7, Seq0 DEF MakeUnphysical
  <2>2. t \notin joints
    BY <1>1, <1>7 DEF Sound, Drawings, JointsPointedTo, Next1, Is
  <2>3. Calling(<<>>)
    BY <1>1, <2>1, Empty, FreeingCalls DEF Freeing
  <2>4. Stays("makeUnphysical", t, <<>>)
    BY <1>0, <2>1, <2>2, Empty DEF Stays, Adding
  <2>5. QED BY <1>0, <1>1, <1>2, <2>1, <2>3, <2>4, StayWorks
<1>8. QED BY <1>5, <1>6, <1>7

LEMMA ClearJointWorks ==
  ASSUME DInv, Sound, ClearJoint
  PROVE  Works
<1>0. /\ Executes("setb2Joint(0)") /\ UNCHANGED <<slots, n_things, pinned, invisible, b2body, bodies, joints>>
      /\ Then(<<>>) /\ b2joint' = b2joint \ {todo[1].t}
  BY First DEF ClearJoint, scene
<1>1. <<>> \in Seq(Stmt) /\ Len(<<>>) = 0
  BY Seq0
<1>2. /\ todo # <<>> /\ todo[1].op = "setb2Joint(0)" /\ StatementTyped(todo[1]) /\ 1 \in 1..Len(todo)
      /\ Push(<<>>) /\ \A oq, u : Next1(oq, u) <=> oq = "setb2Joint(0)" /\ u = todo[1].t
  BY <1>0, <1>1, Called
<1>3. PICK p \in Pins : p = todo[1].t
  BY <1>2 DEF StatementTyped, OnPin
<1>4. \A q \in Pins : Tied(q)' = Tied(q) /\ (Holds(q)' <=> Holds(q))
  BY <1>0 DEF Tied, Holds
<1>5. Relies(1) /\ p \in Things
  BY <1>2 DEF Sound, Planned, Things
<1>6. (PinnedShape /\ PinsIn /\ TiedIn /\ Precede /\ Spare)'
  BY <1>0, <1>1, <1>2, PlacesStay DEF Sound, Adding
<1>7. Shown'
  <2>1. \A u \in Objects :
          u \in bodies \cup invisible \/ Next1("hide", u) \/ Next1("makePhysical", u)
            \/ Next1("CreateBody", u) \/ Next1("removePins", u) =>
          u \in bodies' \cup invisible'
    BY <1>0, <1>2
  <2>2. QED BY <1>0, <1>2, <2>1, ShownAfter DEF Sound
<1>8. JointsPointedTo'
  <2>1. SUFFICES ASSUME NEW q \in joints PROVE q \in b2joint' \/ Next1("DestroyJoint", q)'
    BY <1>0 DEF JointsPointedTo
  <2>2. CASE q = p
    <3>1. Is(2, "DestroyJoint", p)
      BY <1>2, <1>3, <1>5 DEF Relies, Coupled, Is
    <3>2. 2 \in 2..Len(todo) /\ 2 - 1 + Len(<<>>) = 1
      BY <1>1, <3>1 DEF Is
    <3>3. Is(2 - 1 + Len(<<>>), "DestroyJoint", p)'
      BY <1>2, <3>1, <3>2, IsAfter
    <3>4. QED BY <2>2, <3>2, <3>3 DEF Next1
  <2>3. CASE q # p
    <3>1. ~ Next1("DestroyJoint", q) /\ ~ Next1("setb2Joint", q)
      BY <1>2
    <3>2. QED BY <1>0, <1>3, <2>1, <2>3, <3>1 DEF Sound, Drawings, JointsPointedTo
  <2>4. QED BY <2>2, <2>3
<1>9. JointsHold'
  <2>1. ASSUME NEW q \in Pins
        PROVE  /\ q \in joints' <=> q \in joints
               /\ Holds(q)' <=> Holds(q)
               /\ \A op \in PinMaking \cup {"n_things--"} : ~ Next1(op, q)
               /\ \A u \in Tied(q) : ~ Next1("DestroyBody", u)
    BY <1>0, <1>2, <1>4 DEF PinMaking
  <2>2. QED BY <1>0, <1>2, <2>1, JointsAfter DEF Sound
<1>10. Planned'
  BY <1>0, <1>1, <1>2, PlanAfter, Empty DEF Sound, InArray
<1>11. Calling(<<>>)
  BY <1>1, <1>2, Empty, FreeingCalls DEF Freeing
<1>12. Changing
  BY <1>0, <1>2 DEF Changing
<1>13. QED BY <1>0, <1>1, <1>6, <1>7, <1>8, <1>9, <1>10, <1>11, <1>12 DEF Works, Sound, Drawings

LEMMA DestroyJointWorks ==
  ASSUME DInv, Sound, DestroyJoint
  PROVE  Works
<1>0. /\ Executes("DestroyJoint") /\ UNCHANGED <<slots, n_things, pinned, invisible, b2body, b2joint, bodies>>
      /\ Then(<<>>) /\ joints' = joints \ {todo[1].t}
  BY First DEF DestroyJoint, scene
<1>1. <<>> \in Seq(Stmt) /\ Len(<<>>) = 0
  BY Seq0
<1>2. /\ todo # <<>> /\ todo[1].op = "DestroyJoint" /\ StatementTyped(todo[1]) /\ 1 \in 1..Len(todo)
      /\ Push(<<>>) /\ \A oq, u : Next1(oq, u) <=> oq = "DestroyJoint" /\ u = todo[1].t
  BY <1>0, <1>1, Called
<1>3. PICK p \in Pins : p = todo[1].t
  BY <1>2 DEF StatementTyped, OnPin
<1>4. \A q \in Pins : Tied(q)' = Tied(q) /\ (Holds(q)' <=> Holds(q))
  BY <1>0 DEF Tied, Holds
<1>5. Relies(1)
  BY <1>2 DEF Sound, Planned
<1>6. (PinnedShape /\ PinsIn /\ TiedIn /\ Precede /\ Spare)'
  BY <1>0, <1>1, <1>2, PlacesStay DEF Sound, Adding
<1>7. Shown'
  <2>1. \A u \in Objects :
          u \in bodies \cup invisible \/ Next1("hide", u) \/ Next1("makePhysical", u)
            \/ Next1("CreateBody", u) \/ Next1("removePins", u) =>
          u \in bodies' \cup invisible'
    BY <1>0, <1>2
  <2>2. QED BY <1>0, <1>2, <2>1, ShownAfter DEF Sound
<1>8. JointsPointedTo'
  <2>1. SUFFICES ASSUME NEW q \in joints, q # p PROVE q \in b2joint
    BY <1>0, <1>3 DEF JointsPointedTo
  <2>2. ~ Next1("DestroyJoint", q) /\ ~ Next1("setb2Joint", q)
    BY <1>2, <1>3, <2>1
  <2>3. QED BY <2>1, <2>2 DEF Sound, Drawings, JointsPointedTo
<1>9. JointsHold'
  <2>1. Excused(0, p)'
    <3>1. Excused(1, p)
      BY <1>2, <1>3, <1>5 DEF Relies, PinFreed
    <3>2. 0 \in 0..1 - 1 + Len(<<>>)
      BY <1>1
    <3>3. QED BY <1>2, <1>4, <3>1, <3>2, ExcusedAfter
  <2>2. ASSUME NEW q \in Pins, q # p
        PROVE  /\ q \in joints' <=> q \in joints
               /\ Holds(q)' <=> Holds(q)
               /\ \A op \in PinMaking \cup {"n_things--"} : ~ Next1(op, q)
               /\ \A u \in Tied(q) : ~ Next1("DestroyBody", u)
    BY <1>0, <1>2, <1>3, <1>4, <2>2 DEF PinMaking
  <2>3. QED BY <1>0, <1>2, <2>1, <2>2, JointsAfter DEF Sound
<1>10. Planned'
  BY <1>0, <1>1, <1>2, PlanAfter, Empty DEF Sound, InArray
<1>11. Calling(<<>>)
  BY <1>1, <1>2, Empty, FreeingCalls DEF Freeing
<1>12. Changing
  BY <1>0, <1>2 DEF Changing
<1>13. QED BY <1>0, <1>1, <1>6, <1>7, <1>8, <1>9, <1>10, <1>11, <1>12 DEF Works, Sound, Drawings

\* The joints of the body are gone: it is destroyed.
LEMMA BodyDies ==
  ASSUME DInv, Sound, DestroyBody, JointsOf(todo[1].t) = {}
  PROVE  Works
<1>0. /\ Executes("DestroyBody") /\ UNCHANGED <<slots, n_things, pinned, invisible, b2body, b2joint, joints>>
      /\ Then(<<>>) /\ bodies' = bodies \ {todo[1].t}
  <2>1. Executes("DestroyBody") /\ UNCHANGED <<slots, n_things, pinned, invisible, b2body, b2joint, joints>>
    BY DEF DestroyBody, scene
  <2>2. This = todo[1].t
    BY <2>1, First
  <2>3. JointsOf(This) = {}
    BY <2>2
  <2>4. QED BY <2>1, <2>2, <2>3 DEF DestroyBody
<1>1. <<>> \in Seq(Stmt) /\ Len(<<>>) = 0
  BY Seq0
<1>2. /\ todo # <<>> /\ todo[1].op = "DestroyBody" /\ StatementTyped(todo[1]) /\ 1 \in 1..Len(todo)
      /\ Push(<<>>) /\ \A oq, u : Next1(oq, u) <=> oq = "DestroyBody" /\ u = todo[1].t
  BY <1>0, <1>1, Called
<1>3. PICK t \in Objects \cup {BG} : t = todo[1].t
  BY <1>2 DEF StatementTyped
<1>4. \A q \in Pins : Tied(q)' = Tied(q) /\ Tied(q) \subseteq Objects
  BY <1>0, SameTied DEF Tied, DInv, TypeOK
<1>5. Relies(1)
  BY <1>2 DEF Sound, Planned
<1>6. (PinnedShape /\ PinsIn /\ TiedIn /\ Precede /\ Spare)'
  BY <1>0, <1>1, <1>2, PlacesStay DEF Sound, Adding
<1>7. Shown'
  <2>1. ASSUME NEW u \in Objects, u = t PROVE \E op \in ShowOps : Due(op, u)'
    <3>1. PICK op \in {"hide", "makePhysical", "removePins"} : Later(1, op, u)
      BY <1>2, <1>3, <1>5, <2>1 DEF Relies, BodyFreed
    <3>2. 0 \in 0..1 - 1 + Len(<<>>)
      BY <1>1
    <3>3. Later(0, op, u)'
      BY <1>2, <3>1, <3>2, LaterAfter
    <3>4. QED BY <3>1, <3>3 DEF Due, ShowOps
  <2>2. \A u \in Objects :
          u \in bodies \cup invisible \/ Next1("hide", u) \/ Next1("makePhysical", u)
            \/ Next1("CreateBody", u) \/ Next1("removePins", u) =>
          u \in bodies' \cup invisible' \/ (\E op \in ShowOps : Due(op, u)')
    BY <1>0, <1>2, <1>3, <2>1
  <2>3. QED BY <1>0, <1>2, <2>2, ShownAfter DEF Sound
<1>8. JointsPointedTo'
  <2>1. SUFFICES ASSUME NEW q \in joints PROVE q \in b2joint
    BY <1>0 DEF JointsPointedTo
  <2>2. ~ Next1("DestroyJoint", q) /\ ~ Next1("setb2Joint", q)
    BY <1>2
  <2>3. QED BY <2>2 DEF Sound, Drawings, JointsPointedTo
<1>9. JointsHold'
  <2>1. ASSUME NEW q \in Pins, t \in Tied(q) PROVE q \notin joints' /\ ~ Holds(q)'
    <3>1. q \notin joints
      BY <1>3, <2>1 DEF JointsOf, Tied
    <3>2. QED BY <1>0, <1>3, <1>4, <2>1, <3>1 DEF Holds
  <2>2. ASSUME NEW q \in Pins, t \notin Tied(q)
        PROVE  /\ q \in joints' <=> q \in joints
               /\ Holds(q)' <=> Holds(q)
               /\ \A op \in PinMaking \cup {"n_things--"} : ~ Next1(op, q)
               /\ \A u \in Tied(q) : ~ Next1("DestroyBody", u)
    BY <1>0, <1>2, <1>3, <1>4, <2>2 DEF Holds, PinMaking
  <2>3. QED BY <1>0, <1>2, <2>1, <2>2, JointsAfter DEF Sound
<1>10. Planned'
  BY <1>0, <1>1, <1>2, PlanAfter, Empty DEF Sound, InArray
<1>11. Calling(<<>>)
  BY <1>1, <1>2, Empty, FreeingCalls DEF Freeing
<1>12. Changing
  BY <1>0, <1>2 DEF Changing
<1>13. QED BY <1>0, <1>1, <1>6, <1>7, <1>8, <1>9, <1>10, <1>11, <1>12 DEF Works, Sound, Drawings

LEMMA DestroyBodyWorks ==
  ASSUME DInv, Sound, DestroyBody
  PROVE  Works
<1>0. Executes("DestroyBody") /\ UNCHANGED <<slots, n_things, pinned, invisible, b2body, b2joint, joints>>
  BY DEF DestroyBody, scene
<1>1. todo # <<>> /\ todo[1].op = "DestroyBody" /\ 1 \in 1..Len(todo) /\ StatementTyped(todo[1])
      /\ This = todo[1].t /\ Head(todo) = todo[1] /\ todo[1] \in Stmt
  BY <1>0, First
<1>2. PICK t \in Objects \cup {BG} : t = todo[1].t
  BY <1>1 DEF StatementTyped
<1>3. CASE JointsOf(t) = {}
  BY <1>2, <1>3, BodyDies
<1>4. CASE JointsOf(t) # {}
  <2>1. UNCHANGED bodies
        /\ \E p \in JointsOf(t) : Then(<<Do("setb2Joint(0)", p), Do("DestroyJoint", p), Head(todo)>>)
    BY <1>1, <1>2, <1>4 DEF DestroyBody
  <2>2. PICK p \in JointsOf(t) : Then(<<Do("setb2Joint(0)", p), Do("DestroyJoint", p), Head(todo)>>)
    BY <2>1
  <2>3. p \in Pins /\ p \in joints /\ (t \in Objects => t \in Tied(p))
    BY <1>2, DrawAssumption DEF JointsOf, DInv, TypeOK, Things, Tied
  <2>4. /\ Do("setb2Joint(0)", p) \in Stmt /\ Do("DestroyJoint", p) \in Stmt
        /\ Do("setb2Joint(0)", p).op = "setb2Joint(0)" /\ Do("setb2Joint(0)", p).t = p
        /\ Do("DestroyJoint", p).op = "DestroyJoint" /\ Do("DestroyJoint", p).t = p
    BY <2>3, DoOnPin DEF OnPin
  <2>5b. PICK s \in Seq(Stmt) : /\ s = <<Do("setb2Joint(0)", p), Do("DestroyJoint", p), todo[1]>>
                                /\ Len(s) = 3 /\ s[1] = Do("setb2Joint(0)", p)
                                /\ s[2] = Do("DestroyJoint", p) /\ s[3] = todo[1]
    <3>1. PICK a \in Stmt : a = Do("setb2Joint(0)", p)
      BY <2>4
    <3>2. PICK b \in Stmt : b = Do("DestroyJoint", p)
      BY <2>4
    <3>3. PICK c \in Stmt : c = todo[1]
      BY <1>1
    <3>4. /\ <<a, b, c>> \in Seq(Stmt) /\ Len(<<a, b, c>>) = 3
          /\ <<a, b, c>>[1] = a /\ <<a, b, c>>[2] = b /\ <<a, b, c>>[3] = c
      BY Seq3
    <3>5. QED BY <3>1, <3>2, <3>3, <3>4
  <2>5. /\ Len(s) = 3 /\ s[1].op = "setb2Joint(0)" /\ s[1].t = p
        /\ s[2].op = "DestroyJoint" /\ s[2].t = p
        /\ s[3].op = "DestroyBody" /\ s[3].t = t
    BY <1>1, <1>2, <2>4, <2>5b
  <2>6. Then(s)
    BY <1>1, <2>2, <2>5b
  <2>7. Push(s)
    BY <1>0, <2>6, Called
  <2>8. Calling(s)
    <3>1. \A k \in 1..Len(s) : s[k].op \in Freeing /\ (s[k].t = todo[1].t \/ s[k].t \in Pins)
      BY <1>2, <2>3, <2>5 DEF Freeing
    <3>2. QED BY <1>1, <3>1, FreeingCalls DEF Freeing
  <2>9. \A i \in 0..2 : Later(i, "DestroyBody", t)'
    <3>1. 3 \in 1..Len(s) /\ 3 - 1 = 2
      BY <2>5
    <3>2. QED BY <2>5, <2>7, <3>1, CalledLater
  <2>10. Relies(1)
    BY <1>1 DEF Sound, Planned
  <2>11. \A op, u : Later(1, op, u) => \A i \in 0..3 : Later(i, op, u)'
    <3>1. 1 - 1 + Len(s) = 3
      BY <2>5
    <3>2. \A op, u : Later(1, op, u) => \A i \in 0..1 - 1 + Len(s) : Later(i, op, u)'
      BY <1>1, <2>7, LaterAfter
    <3>3. QED BY <3>1, <3>2
  <2>12. \A i \in 0..2 : Excused(i, p)'
    <3>1. CASE t \in Objects
      <4>1. t \in Tied(p)'
        BY <1>0, <2>3, <3>1, SameTied
      <4>2. QED BY <2>9, <4>1 DEF Excused
    <3>2. CASE t = BG
      <4>1. Later(1, "makePhysical", p)
        BY <1>1, <1>2, <2>3, <2>10, <3>2 DEF Relies, Remade, Is, Things
      <4>2. QED BY <2>11, <4>1 DEF Excused, PinMaking
    <3>3. QED BY <3>1, <3>2
  <2>13. ASSUME NEW k \in 1..Len(s) PROVE Relies(k)'
    <3>1. k \in {1, 2, 3} /\ 1 \in 1..Len(todo') /\ 2 \in 1..Len(todo') /\ 3 \in 1..Len(todo')
          /\ todo'[1].op = "setb2Joint(0)" /\ todo'[1].t = p
          /\ todo'[2].op = "DestroyJoint" /\ todo'[2].t = p
          /\ todo'[3].op = "DestroyBody" /\ todo'[3].t = t
      <4>1. k \in {1, 2, 3} /\ 1 \in 1..Len(s) /\ 2 \in 1..Len(s) /\ 3 \in 1..Len(s)
        BY <2>5
      <4>2. Len(todo') >= 3 /\ todo'[1] = s[1] /\ todo'[2] = s[2] /\ todo'[3] = s[3]
            /\ Len(todo') \in Nat
        BY <2>5, <2>7, <4>1 DEF Push
      <4>3. QED BY <2>5, <4>1, <4>2
    <3>2. CASE k \in {1, 2}
      <4>1. Excused(k, p)'
        BY <2>12, <3>2
      <4>2. PinFreed(k)'
        BY <3>1, <3>2, <4>1 DEF PinFreed
      <4>3. Coupled(k)'
        BY <3>1, <3>2 DEF Coupled, Is
      <4>4. QED BY <3>1, <3>2, <4>2, <4>3
                DEF Relies, BodyFreed, BodyMade, JointMade, Remade, NothingMade, RemovedLast,
                    Removing, PinMaking, Is
    <3>3. CASE k = 3
      <4>1. BodyFreed(3)'
        <5>1. SUFFICES ASSUME t \in Objects
                       PROVE  \E op \in {"hide", "makePhysical", "removePins"} : Later(3, op, t)'
          BY <3>1 DEF BodyFreed
        <5>2. PICK op \in {"hide", "makePhysical", "removePins"} : Later(1, op, t)
          BY <1>1, <1>2, <2>10, <5>1 DEF Relies, BodyFreed
        <5>3. QED BY <2>11, <5>2
      <4>2. Remade(3)'
        <5>1. SUFFICES ASSUME NEW u \in Things, t = BG, InArray(u)' \/ u \in joints
                       PROVE  Later(3, "makePhysical", u)'
          BY <1>0, <3>1 DEF Remade, Is
        <5>2. InArray(u) \/ u \in joints
          BY <1>0, <5>1 DEF InArray
        <5>3. Is(1, "DestroyBody", BG)
          BY <1>1, <1>2, <5>1 DEF Is
        <5>4. Later(1, "makePhysical", u)
          BY <2>10, <5>2, <5>3 DEF Relies, Remade
        <5>5. QED BY <2>11, <5>4
      <4>3. QED BY <3>1, <3>3, <4>1, <4>2
                DEF Relies, PinFreed, BodyMade, JointMade, Coupled, NothingMade, RemovedLast,
                    Removing, PinMaking, Is
    <3>4. QED BY <3>1, <3>2, <3>3
  <2>14. Stays("DestroyBody", t, s)
    <3>1. Due("DestroyBody", t)'
      BY <2>9 DEF Due
    <3>2. QED BY <1>0, <2>1, <2>5, <2>13, <3>1 DEF Stays, Adding
  <2>15. QED BY <1>0, <1>1, <1>2, <2>6, <2>8, <2>14, StayWorks
<1>5. QED BY <1>3, <1>4

LEMMA NewWorldWorks ==
  ASSUME DInv, Sound, NewWorld
  PROVE  Works
<1>0. /\ Executes("initPhysics") /\ UNCHANGED <<slots, n_things, pinned, invisible, b2body, b2joint>>
      /\ Then(<<>>) /\ bodies' = {BG} /\ joints' = {}
  BY DEF NewWorld, scene
<1>1. <<>> \in Seq(Stmt) /\ Len(<<>>) = 0
  BY Seq0
<1>2. /\ todo # <<>> /\ todo[1].op = "initPhysics" /\ 1 \in 1..Len(todo)
      /\ Push(<<>>) /\ \A oq, u : Next1(oq, u) <=> oq = "initPhysics" /\ u = todo[1].t
  BY <1>0, <1>1, Called
<1>3. Objects \cap Pins = {} /\ BG \notin Objects
  BY DrawAssumption DEF Things
<1>4. \A q \in Pins : Tied(q)' = Tied(q) /\ Tied(q) \subseteq Objects
  BY <1>0, SameTied DEF Tied, DInv, TypeOK
<1>5. Relies(1)
  BY <1>2 DEF Sound, Planned
<1>6. (PinnedShape /\ PinsIn /\ TiedIn /\ Precede /\ Spare)'
  BY <1>0, <1>1, <1>2, PlacesStay DEF Sound, Adding
<1>7. Shown'
  <2>1. ASSUME NEW o \in Objects, NEW p \in Pins, o \in Tied(p)
        PROVE  \E op \in ShowOps : Due(op, o)'
    <3>1. InArray(o) \/ Due("removePins", o)
      BY <2>1 DEF Sound, Drawings, TiedIn
    <3>2. CASE InArray(o)
      <4>1. Later(1, "makePhysical", o)
        BY <1>2, <1>5, <3>2 DEF Relies, Remade, Things
      <4>2. 0 \in 0..1 - 1 + Len(<<>>)
        BY <1>1
      <4>3. Later(0, "makePhysical", o)'
        BY <1>2, <4>1, <4>2, LaterAfter
      <4>4. QED BY <4>3 DEF Due, ShowOps
    <3>3. CASE Due("removePins", o)
      <4>1. Due("removePins", o)'
        BY <1>2, <3>3, DueAfter
      <4>2. QED BY <4>1 DEF ShowOps
    <3>4. QED BY <3>1, <3>2, <3>3
  <2>2. \A o \in Objects :
          (\E op \in ShowOps : Due(op, o)') \/ (\A p \in Pins : o \notin Tied(p))
    BY <2>1
  <2>3. QED BY <1>0, <1>2, <2>2, ShownAfter DEF Sound
<1>8. JointsPointedTo'
  BY <1>0 DEF JointsPointedTo
<1>9. JointsHold'
  <2>1. ASSUME NEW q \in Pins PROVE q \notin joints' /\ ~ Holds(q)'
    BY <1>0, <1>3, <1>4 DEF Holds
  <2>2. QED BY <1>0, <1>2, <2>1, JointsAfter DEF Sound
<1>10. Planned'
  BY <1>0, <1>1, <1>2, PlanAfter, Empty DEF Sound, Freeing
<1>11. Calling(<<>>)
  BY <1>1, <1>2, Empty DEF Calling
<1>12. Changing
  BY <1>0, <1>2 DEF Changing
<1>13. QED BY <1>0, <1>1, <1>6, <1>7, <1>8, <1>9, <1>10, <1>11, <1>12 DEF Works, Sound, Drawings

\* An object that appears again gets its body next.
LEMMA UnhideWorks ==
  ASSUME DInv, Sound, Unhide
  PROVE  Works
<1>0. /\ Executes("reset") /\ UNCHANGED <<slots, n_things, pinned, b2body, b2joint, bodies, joints>>
      /\ Then(<<>>) /\ invisible \ {todo[1].t} \subseteq invisible'
  BY First DEF Unhide, box2d
<1>1. <<>> \in Seq(Stmt) /\ Len(<<>>) = 0
  BY Seq0
<1>2. /\ todo # <<>> /\ todo[1].op = "reset" /\ 1 \in 1..Len(todo) /\ StatementTyped(todo[1])
      /\ Push(<<>>)
  BY <1>0, <1>1, Called
<1>3. PICK t \in Things : t = todo[1].t
  BY <1>2 DEF StatementTyped, OnThing
<1>4. Due("makePhysical", t)'
  <2>1. Later(1, "makePhysical", t)
    BY <1>2, <1>3 DEF Sound, Planned, Relies, Remade, Is
  <2>2. 0 \in 0..1 - 1 + Len(<<>>)
    BY <1>1
  <2>3. QED BY <1>2, <2>1, <2>2, LaterAfter DEF Due
<1>5. Calling(<<>>)
  BY <1>1, <1>2, Empty DEF Calling
<1>6. Stays("reset", t, <<>>)
  BY <1>0, <1>1, <1>3, <1>4, Empty DEF Stays, Adding
<1>7. QED BY <1>0, <1>1, <1>3, <1>5, <1>6, StayWorks

LEMMA HideWorks ==
  ASSUME DInv, Sound, Hide
  PROVE  Works
<1>0. /\ Executes("hide") /\ UNCHANGED <<slots, n_things, pinned, b2body, b2joint, bodies, joints>>
      /\ Then(<<>>) /\ invisible' = invisible \cup {todo[1].t}
  BY First DEF Hide, box2d
<1>1. <<>> \in Seq(Stmt) /\ Len(<<>>) = 0
  BY Seq0
<1>2. todo # <<>> /\ todo[1].op = "hide"
  BY <1>0, <1>1, Called
<1>3. PICK t : todo[1].t = t
  OBVIOUS
<1>4. Calling(<<>>)
  BY <1>1, <1>2, Empty DEF Calling
<1>5. Stays("hide", t, <<>>)
  BY <1>0, <1>1, <1>3, Empty DEF Stays, Adding
<1>6. QED BY <1>0, <1>1, <1>3, <1>4, <1>5, StayWorks

-----------------------------------------------------------------------------
\* What a removal calls is followed by what followed the removal.
LEMMA RestRemoves ==
  ASSUME NEW s, Push(s), RemovedLast(1), todo[1].op \in Removing, NEW k \in 1..Len(s),
         \A j \in k + 1..Len(s) : s[j].op \in Removing \cup {"delete", "load", "enableDrawing"}
  PROVE  RemovedLast(k)'
<1>1. SUFFICES ASSUME NEW j \in k + 1..Len(todo')
               PROVE  todo'[j].op \in Removing \cup {"delete", "load", "enableDrawing"}
  BY DEF RemovedLast
<1>2. /\ Len(todo) \in Nat \ {0} /\ Len(s) \in Nat /\ j \in 1..Len(todo')
      /\ Len(todo') = Len(s) + Len(todo) - 1
  BY DEF Push
<1>3. CASE j <= Len(s)
  BY <1>2, <1>3 DEF Push
<1>4. CASE j > Len(s)
  <2>1. j + 1 - Len(s) \in 2..Len(todo) /\ todo'[j] = todo[j + 1 - Len(s)]
    BY <1>2, <1>4, Behind
  <2>2. j + 1 - Len(s) \in 1 + 1..Len(todo)
    BY <2>1
  <2>3. QED BY <2>1, <2>2 DEF RemovedLast
<1>5. QED BY <1>2, <1>3, <1>4

LEMMA RemovePinsWorks ==
  ASSUME DInv, Sound, RemovePins
  PROVE  Works
<1>0. Executes("removePins") /\ UNCHANGED <<slots, n_things, pinned, invisible, b2body, b2joint, bodies, joints>>
  BY DEF RemovePins, scene, box2d
<1>1. /\ todo # <<>> /\ todo[1].op = "removePins" /\ 1 \in 1..Len(todo) /\ StatementTyped(todo[1])
      /\ This = todo[1].t /\ Head(todo) = todo[1] /\ todo[1] \in Stmt /\ todo \in Seq(Stmt)
      /\ n_things \in Nat
  BY <1>0, First
<1>2. PICK o \in Things : o = todo[1].t
  BY <1>1 DEF StatementTyped, OnThing
<1>3. PICK found \in SUBSET (0..n_things - 1) :
        found = {i \in 0..n_things - 1 :
                   slots[i] \in Pins /\ o \in {pinned[slots[i]][1], pinned[slots[i]][2]}}
  OBVIOUS
<1>4. o # NULL /\ Objects \cap Pins = {}
  BY DrawAssumption
<1>5. CASE found = {}
  <2>1. Then(<<>>) /\ <<>> \in Seq(Stmt) /\ Len(<<>>) = 0
    BY <1>1, <1>2, <1>3, <1>5, Seq0 DEF RemovePins
  <2>2. ASSUME NEW p \in Pins, o \in Tied(p) PROVE FALSE
    <3>1. pinned[p] # Unpinned
      BY <2>2 DEF Tied, Unpinned
    <3>2. InArray(p) \/ AddNext(p) \/ Due("n_things--", p)
      BY <3>1 DEF Sound, Drawings, PinsIn
    <3>3. ~ AddNext(p)
      BY <1>1 DEF AddNext, Next1, Is, Adding
    <3>4. ~ Due("n_things--", p)
      <4>1. \A k \in 1..Len(todo) : todo[k].op # "n_things--"
        BY <1>1, NotShifting DEF DInv, Order, Freeing
      <4>2. QED BY <4>1 DEF Due, Later, Is
    <3>5. PICK i \in 0..n_things - 1 : slots[i] = p
      BY <3>2, <3>3, <3>4 DEF InArray
    <3>6. i \in found
      BY <1>3, <2>2, <3>5 DEF Tied
    <3>7. QED BY <1>5, <3>6
  <2>3. Calling(<<>>)
    BY <1>1, <2>1, Empty DEF Calling
  <2>4. Stays("removePins", o, <<>>)
    BY <1>0, <2>1, <2>2, Empty DEF Stays, Adding
  <2>5. QED BY <1>0, <1>1, <1>2, <2>1, <2>3, <2>4, StayWorks
<1>6. CASE found # {}
  <2>1. \E i \in found : Then(<<Do("remove", slots[i]), Head(todo)>>)
    BY <1>1, <1>2, <1>3, <1>6 DEF RemovePins
  <2>2. PICK i \in found : Then(<<Do("remove", slots[i]), Head(todo)>>)
    BY <2>1
  <2>3. PICK p \in Pins : p = slots[i] /\ o \in Tied(p)
    BY <1>3, <1>4, <2>2 DEF Tied
  <2>4. Do("remove", p) \in Stmt /\ Do("remove", p).op = "remove" /\ Do("remove", p).t = p
    BY <2>3, DoOnThing DEF OnThing, Things
  <2>5. PICK a \in Stmt : a = todo[1]
    BY <1>1
  <2>6. /\ <<Do("remove", p), a>> \in Seq(Stmt) /\ Len(<<Do("remove", p), a>>) = 2
        /\ <<Do("remove", p), a>>[1] = Do("remove", p) /\ <<Do("remove", p), a>>[2] = a
    BY <2>4, Seq2
  <2>7. PICK s \in Seq(Stmt) : /\ Len(s) = 2 /\ Then(s)
                               /\ s[1].op = "remove" /\ s[1].t = p
                               /\ s[2].op = "removePins" /\ s[2].t = o
    BY <1>1, <1>2, <2>2, <2>3, <2>4, <2>5, <2>6
  <2>8. Push(s)
    BY <1>0, <2>7, Called
  <2>9. Calling(s)
    <3>1. \A k \in 1..Len(s) :
            \/ s[k].op = "removePins" /\ s[k].t = todo[1].t
            \/ s[k].op = "remove" /\ \E q \in Pins : s[k].t = q /\ todo[1].t \in Tied(q)
      BY <1>2, <2>3, <2>7
    <3>2. QED BY <1>1, <3>1 DEF Calling, Freeing, Making
  <2>10. ASSUME NEW k \in 1..Len(s) PROVE Relies(k)'
    <3>1. k \in {1, 2} /\ todo'[k] = s[k]
      BY <2>7, <2>8 DEF Push
    <3>2. todo'[k].op \in {"remove", "removePins"}
      BY <2>7, <3>1
    <3>3. RemovedLast(1)
      BY <1>1 DEF Sound, Planned, Relies
    <3>4. \A j \in k + 1..Len(s) : s[j].op \in Removing
      BY <2>7 DEF Removing
    <3>5. RemovedLast(k)'
      BY <1>1, <2>8, <3>3, <3>4, RestRemoves DEF Removing
    <3>6. QED BY <3>2, <3>5
              DEF Relies, PinFreed, BodyFreed, BodyMade, JointMade, Coupled, Remade, NothingMade,
                  PinMaking, Is
  <2>11. Due("removePins", o)'
    BY <2>7, <2>8, CalledLater DEF Due
  <2>12. Stays("removePins", o, s)
    BY <1>0, <2>7, <2>10, <2>11 DEF Stays, Adding
  <2>13. QED BY <1>0, <1>1, <1>2, <2>7, <2>9, <2>12, StayWorks
<1>7. QED BY <1>5, <1>6

LEMMA ClearWorks ==
  ASSUME DInv, Sound, Clear
  PROVE  Works
<1>0. Executes("clear") /\ UNCHANGED <<slots, n_things, pinned, invisible, b2body, b2joint, bodies, joints>>
  BY DEF Clear, scene, box2d
<1>1. /\ todo # <<>> /\ todo[1].op = "clear" /\ 1 \in 1..Len(todo)
      /\ Head(todo) = todo[1] /\ todo[1] \in Stmt /\ todo \in Seq(Stmt) /\ n_things \in Nat
  BY <1>0, First
<1>2. PICK a \in Stmt : a = todo[1]
  BY <1>1
<1>3. CASE n_things = 0
  <2>1. Then(<<>>) /\ <<>> \in Seq(Stmt) /\ Len(<<>>) = 0
    BY <1>3, Seq0 DEF Clear
  <2>2. Calling(<<>>)
    BY <1>1, <1>3, <2>1, Empty DEF Calling
  <2>3. PICK t : todo[1].t = t
    OBVIOUS
  <2>4. Stays("clear", t, <<>>)
    BY <1>0, <2>1, Empty DEF Stays, Adding
  <2>5. QED BY <1>0, <2>1, <2>2, <2>3, <2>4, StayWorks
<1>4. CASE n_things # 0
  <2>1. PICK t \in Things : t = slots[0]
    <3>1. Whole
      BY <1>1, NotShifting DEF DInv, Order, Freeing
    <3>2. 0 \in 0..n_things - 1
      BY <1>1, <1>4
    <3>3. QED BY <3>1, <3>2 DEF Whole
  <2>2. /\ Do("remove", t) \in Stmt /\ Do("remove", t).op = "remove" /\ Do("remove", t).t = t
        /\ Do("delete", t) \in Stmt /\ Do("delete", t).op = "delete"
    BY DoOnThing DEF OnThing
  <2>3. PICK b \in Stmt : b = Do("remove", t)
    BY <2>2
  <2>4. PICK c \in Stmt : c = Do("delete", t)
    BY <2>2
  <2>5. Then(<<b, c, a>>)
    BY <1>1, <1>2, <1>4, <2>1, <2>3, <2>4 DEF Clear
  <2>6. /\ <<b, c, a>> \in Seq(Stmt) /\ Len(<<b, c, a>>) = 3
        /\ <<b, c, a>>[1] = b /\ <<b, c, a>>[2] = c /\ <<b, c, a>>[3] = a
    BY Seq3
  <2>7. PICK s \in Seq(Stmt) : /\ Len(s) = 3 /\ Then(s)
                               /\ s[1].op = "remove" /\ s[1].t = t
                               /\ s[2].op = "delete" /\ s[3].op = "clear"
    BY <1>1, <1>2, <2>2, <2>3, <2>4, <2>5, <2>6
  <2>8. Push(s)
    BY <1>0, <2>7, Called
  <2>9. Calling(s)
    BY <1>1, <2>7 DEF Calling, Freeing, Making
  <2>10. ASSUME NEW k \in 1..Len(s) PROVE Relies(k)'
    <3>1. k \in {1, 2, 3} /\ todo'[k] = s[k]
      BY <2>7, <2>8 DEF Push
    <3>2. todo'[k].op \in {"remove", "delete", "clear"}
      BY <2>7, <3>1
    <3>3. RemovedLast(1)
      BY <1>1 DEF Sound, Planned, Relies
    <3>4. \A j \in k + 1..Len(s) : s[j].op \in Removing \cup {"delete"}
      BY <2>7 DEF Removing
    <3>5. RemovedLast(k)'
      BY <1>1, <2>8, <3>3, <3>4, RestRemoves DEF Removing
    <3>6. QED BY <3>2, <3>5
              DEF Relies, PinFreed, BodyFreed, BodyMade, JointMade, Coupled, Remade, NothingMade,
                  PinMaking, Is
  <2>11. PICK u : todo[1].t = u
    OBVIOUS
  <2>12. Stays("clear", u, s)
    BY <1>0, <2>7, <2>10 DEF Stays, Adding
  <2>13. QED BY <1>0, <2>7, <2>9, <2>11, <2>12, StayWorks
<1>5. QED BY <1>3, <1>4

LEMMA RemoveWorks ==
  ASSUME DInv, Sound, Remove
  PROVE  Works
<1>0. Executes("remove") /\ UNCHANGED <<slots, n_things, pinned, invisible, b2body, b2joint, bodies, joints>>
  BY DEF Remove, scene, box2d
<1>1. /\ todo # <<>> /\ todo[1].op = "remove" /\ 1 \in 1..Len(todo) /\ StatementTyped(todo[1])
      /\ This = todo[1].t /\ n_things \in Nat
  BY <1>0, First
<1>2. PICK t, h : t = This /\ h = IndexOf(This)
  OBVIOUS
<1>3. h \in 0..n_things - 1 /\ t \in Things
  <2>1. Found(1)
    BY <1>1 DEF DInv, Order, InOrder
  <2>2. InArray(This)
    BY <1>1, <2>1 DEF Found
  <2>3. QED BY <1>1, <1>2, <2>2 DEF InArray, IndexOf, StatementTyped, OnThing
<1>4. PICK s : s = RemoveCalls(t, h)
  OBVIOUS
<1>5. Then(s)
  BY <1>2, <1>4 DEF Remove, RemoveCalls
<1>6. PICK n : n = n_things - h
  OBVIOUS
<1>7. n \in Nat /\ n > 0
  BY <1>1, <1>3, <1>6
<1>8. /\ s \in Seq(Stmt) /\ Len(s) = n + 3
      /\ \A k \in 1..n + 3 :
           \/ k = 1 /\ s[k].op = "makeUnphysical" /\ s[k].t = t
           \/ k \in 2..n + 1 /\ s[k].op = "moveUp"
           \/ k = n + 2 /\ s[k].op = "n_things--" /\ s[k].t = t
           \/ k = n + 3 /\ s[k].op = "removePins" /\ s[k].t = t
  <2>1. RemoveOrder(s, t, h, n_things - h)
    BY <1>1, <1>3, <1>4, RemoveInOrder
  <2>2. RemoveOrder(s, t, h, n)
    BY <1>6, <2>1
  <2>3. QED BY <2>2 DEF RemoveOrder
<1>9. Push(s)
  BY <1>0, <1>5, <1>8, Called
<1>10. Calling(s)
  BY <1>1, <1>2, <1>8 DEF Calling, Freeing, Making
<1>11. \A k \in 1..n + 3 : k \in 1..Len(s) /\ k \in 1..Len(todo') /\ todo'[k] = s[k]
  BY <1>8, <1>9 DEF Push
<1>12. /\ n + 2 \in 1..n + 3 /\ n + 3 \in 1..n + 3 /\ 1 \in 1..n + 3
       /\ s[1].op = "makeUnphysical" /\ s[n + 2].op = "n_things--" /\ s[n + 2].t = t
       /\ s[n + 3].op = "removePins" /\ s[n + 3].t = t
  <2>1. /\ n + 2 \in 1..n + 3 /\ n + 3 \in 1..n + 3 /\ 1 \in 1..n + 3
        /\ n + 2 # 1 /\ n + 2 \notin 2..n + 1 /\ n + 2 # n + 3 /\ n + 3 # 1 /\ n + 3 \notin 2..n + 1
        /\ 1 \notin 2..n + 1 /\ 1 # n + 2 /\ 1 # n + 3
    BY <1>7
  <2>2. QED BY <1>8, <2>1
<1>13. Later(1, "n_things--", t)' /\ Later(1, "removePins", t)'
  <2>1. PICK l \in 1..Len(s), m \in 1..Len(s) : l = n + 2 /\ m = n + 3
    BY <1>8, <1>12
  <2>2. 1 \in 0..l - 1 /\ 1 \in 0..m - 1
    BY <1>7, <2>1
  <2>3. s[l].op = "n_things--" /\ s[l].t = t /\ s[m].op = "removePins" /\ s[m].t = t
    BY <1>12, <2>1
  <2>4. \A i \in 0..l - 1 : Later(i, "n_things--", t)'
    BY <1>9, <2>3, CalledLater
  <2>5. \A i \in 0..m - 1 : Later(i, "removePins", t)'
    BY <1>9, <2>3, CalledLater
  <2>6. QED BY <2>2, <2>4, <2>5
<1>14. ASSUME NEW k \in 1..Len(s) PROVE Relies(k)'
  <2>1. k \in 1..n + 3 /\ todo'[k] = s[k] /\ RemovedLast(1)
    BY <1>1, <1>8, <1>11 DEF Sound, Planned, Relies
  <2>2. RemovedLast(k)'
    <3>1. \A j \in k + 1..Len(s) : j \in 1..n + 3 /\ j # 1
      BY <1>7, <1>8, <2>1
    <3>2. \A j \in k + 1..Len(s) : s[j].op \in Removing
      BY <1>8, <3>1 DEF Removing
    <3>3. QED BY <1>1, <1>9, <2>1, <3>2, RestRemoves DEF Removing
  <2>3. CASE k = 1
    <3>1. todo'[1].op = "makeUnphysical" /\ todo'[1].t = t
      BY <1>7, <1>8, <2>1, <2>3
    <3>2. Excused(1, t)'
      BY <1>13 DEF Excused
    <3>3. PinFreed(1)' /\ BodyFreed(1)'
      BY <1>13, <3>1, <3>2 DEF PinFreed, BodyFreed
    <3>4. QED BY <2>2, <2>3, <3>1, <3>3
              DEF Relies, BodyMade, JointMade, Coupled, Remade, NothingMade, PinMaking, Is
  <2>4. CASE k \in 2..n + 1 \/ k = n + 3
    <3>1. todo'[k].op \in {"moveUp", "removePins"}
      BY <1>7, <1>8, <2>1, <2>4
    <3>2. QED BY <2>2, <3>1
              DEF Relies, PinFreed, BodyFreed, BodyMade, JointMade, Coupled, Remade, NothingMade,
                  PinMaking, Is
  <2>5. CASE k = n + 2
    <3>1. todo'[n + 2].op = "n_things--" /\ todo'[n + 2].t = t
      BY <1>11, <1>12
    <3>2. n + 2 + 1 = n + 3 /\ Is(n + 3, "removePins", t)'
      BY <1>7, <1>11, <1>12 DEF Is
    <3>3. Coupled(n + 2)'
      BY <3>1, <3>2 DEF Coupled, Is
    <3>4. QED BY <2>2, <2>5, <3>1, <3>3
              DEF Relies, PinFreed, BodyFreed, BodyMade, JointMade, Remade, NothingMade,
                  PinMaking, Is
  <2>6. QED BY <1>7, <2>1, <2>3, <2>4, <2>5
<1>15. Stays("remove", t, s)
  BY <1>0, <1>12, <1>14 DEF Stays, Adding
<1>16. QED BY <1>0, <1>1, <1>2, <1>5, <1>8, <1>10, <1>15, StayWorks

\* The next place to be overwritten is the one that is free.
LEMMA Moving ==
  ASSUME DInv, todo # <<>>, todo[1].op = "moveUp"
  PROVE  \E h \in 0..n_things - 1, k \in 2..Len(todo), t \in Things :
           /\ n_things \in Nat /\ todo[1].t = h /\ Is(k, "n_things--", t) /\ Hole(t, h)
           /\ k > 2 => todo[2].op = "moveUp" /\ todo[2].t = h + 1
<1>1. /\ ArrayShape /\ TodoTyped /\ n_things \in Nat /\ Len(todo) \in Nat \ {0}
  BY EmptySeq DEF DInv, Order, TypeOK, TodoTyped
<1>2. 1 \in 1..Len(todo)
  BY <1>1
<1>3. PICK k \in 2..Len(todo) : todo[k].op = "n_things--"
  BY <1>1, <1>2 DEF ArrayShape
<1>4. k \in 1..Len(todo) /\ k \in Nat /\ k >= 2 /\ Shifting(k) /\ StatementTyped(todo[k])
  BY <1>1, <1>3 DEF ArrayShape, TodoTyped
<1>5. PICK g \in 0..n_things : Shift(k, g)
  BY <1>4 DEF Shifting
<1>6. PICK first \in Int : first = k - (n_things - g)
  BY <1>1, <1>4
<1>7. /\ Hole(todo[k].t, g) /\ first >= 1
      /\ \A j \in first..k - 1 : todo[j].op = "moveUp" /\ todo[j].t = n_things - (k - j)
      /\ \A j \in 1..first - 1 : todo[j].op \in Freeing
  BY <1>5, <1>6 DEF Shift
<1>8. first = 1
  <2>1. ~ (first > 1)
    BY <1>7 DEF Freeing
  <2>2. QED BY <1>6, <1>7, <2>1
<1>9. g = n_things - (k - 1) /\ g \in 0..n_things - 1
  BY <1>1, <1>4, <1>6, <1>8
<1>10. todo[1].t = g
  <2>1. 1 \in first..k - 1
    BY <1>4, <1>8
  <2>2. QED BY <1>7, <1>9, <2>1
<1>11. k > 2 => todo[2].op = "moveUp" /\ todo[2].t = g + 1
  <2>1. SUFFICES ASSUME k > 2 PROVE todo[2].op = "moveUp" /\ todo[2].t = g + 1
    OBVIOUS
  <2>2. 2 \in first..k - 1 /\ n_things - (k - 2) = g + 1
    BY <1>1, <1>4, <1>8, <1>9, <2>1
  <2>3. QED BY <1>7, <2>2
<1>12. PICK t \in Things : t = todo[k].t
  BY <1>3, <1>4 DEF StatementTyped, OnThing
<1>13. Is(k, "n_things--", t)
  BY <1>3, <1>4, <1>12 DEF Is
<1>14. QED BY <1>1, <1>3, <1>7, <1>9, <1>10, <1>11, <1>12, <1>13

LEMMA MoveUpWorks ==
  ASSUME DInv, Sound, MoveUp
  PROVE  Works
<1>0. /\ Executes("moveUp") /\ UNCHANGED <<n_things, pinned, invisible, b2body, b2joint, bodies, joints>>
      /\ Then(<<>>) /\ slots' = [slots EXCEPT ![todo[1].t] = slots[todo[1].t + 1]]
  BY First DEF MoveUp, box2d
<1>1. <<>> \in Seq(Stmt) /\ Len(<<>>) = 0
  BY Seq0
<1>2. /\ todo # <<>> /\ todo[1].op = "moveUp" /\ 1 \in 1..Len(todo)
      /\ Push(<<>>) /\ \A oq, u : Next1(oq, u) <=> oq = "moveUp" /\ u = todo[1].t
  BY <1>0, <1>1, Called
<1>3. PICK h \in 0..n_things - 1, k \in 2..Len(todo), t \in Things :
        /\ n_things \in Nat /\ todo[1].t = h /\ Is(k, "n_things--", t) /\ Hole(t, h)
        /\ k > 2 => todo[2].op = "moveUp" /\ todo[2].t = h + 1
  BY <1>2, Moving
<1>4. n_things \in Nat /\ n_things <= MAX_THINGS /\ slots \in [0..MAX_THINGS -> Things \cup {JUNK}]
      /\ MAX_THINGS \in Nat /\ JUNK \notin Things /\ Objects \cap Pins = {}
  BY DrawAssumption DEF DInv, TypeOK
<1>5. slots[n_things] = JUNK
  <2>1. Kept(h, n_things - 1) = JUNK
    BY <1>3 DEF Hole
  <2>2. n_things - 1 + 1 = n_things /\ ~ (n_things - 1 < h)
    BY <1>4
  <2>3. QED BY <2>1, <2>2 DEF Kept
<1>6. /\ slots'[h] = slots[h + 1] /\ h + 1 \in 1..n_things
      /\ \A i \in 0..n_things - 1 : i # h => slots'[i] = slots[i]
  BY <1>0, <1>3, <1>4
<1>7. ASSUME NEW u \in Things, InArray(u)' PROVE InArray(u)
  <2>1. PICK i \in 0..n_things - 1 : slots'[i] = u
    BY <1>0, <1>7 DEF InArray
  <2>2. CASE i # h
    BY <1>6, <2>1, <2>2 DEF InArray
  <2>3. CASE i = h
    <3>1. slots[h + 1] = u /\ h + 1 # n_things
      BY <1>4, <1>5, <1>6, <2>1, <2>3
    <3>2. h + 1 \in 0..n_things - 1
      BY <1>4, <1>6, <3>1
    <3>3. QED BY <3>1, <3>2 DEF InArray
  <2>4. QED BY <2>2, <2>3
<1>8. ASSUME NEW u \in Things, InArray(u) PROVE InArray(u)' \/ Due("n_things--", u)
  <2>1. PICK i \in 0..n_things - 1 : slots[i] = u
    BY <1>8 DEF InArray
  <2>2. CASE i # h
    BY <1>0, <1>6, <2>1, <2>2 DEF InArray
  <2>3. CASE i = h
    <3>1. \/ \E v \in Things : slots[h] = v /\ Due("n_things--", v)
          \/ h > 0 /\ slots[h] = slots[h - 1]
      BY <1>2, <1>3 DEF Sound, Drawings, Spare
    <3>2. CASE h > 0 /\ slots[h] = slots[h - 1]
      <4>1. h - 1 \in 0..n_things - 1 /\ h - 1 # h
        BY <1>4, <3>2
      <4>2. slots'[h - 1] = u
        BY <1>6, <2>1, <2>3, <3>2, <4>1
      <4>3. QED BY <1>0, <4>1, <4>2 DEF InArray
    <3>3. QED BY <2>1, <2>3, <3>1, <3>2
  <2>4. QED BY <2>2, <2>3
<1>9. \A op, u : Due(op, u) /\ op # "moveUp" => Due(op, u)'
  BY <1>2, DueAfter
<1>10. \A q \in Pins : Tied(q)' = Tied(q) /\ (Holds(q)' <=> Holds(q)) /\ Tied(q) \subseteq Objects
  BY <1>0 DEF Tied, Holds, DInv, TypeOK
<1>11. PinnedShape'
  BY <1>0 DEF Sound, Drawings, PinnedShape, Unpinned
<1>12. PinsIn'
  <2>1. SUFFICES ASSUME NEW p \in Pins, pinned[p] # Unpinned
                 PROVE  InArray(p)' \/ Due("n_things--", p)'
    BY <1>0 DEF PinsIn, Unpinned
  <2>2. InArray(p) \/ Due("n_things--", p)
    BY <1>2, <2>1 DEF Sound, Drawings, PinsIn, AddNext, Adding
  <2>3. QED BY <1>8, <1>9, <2>2 DEF Things
<1>13. TiedIn'
  <2>1. SUFFICES ASSUME NEW p \in Pins, NEW o \in Tied(p)
                 PROVE  InArray(o)' \/ Due("removePins", o)'
    BY <1>10 DEF TiedIn
  <2>2. o \in Things
    BY <1>10, <2>1 DEF Things
  <2>3. InArray(o) \/ Due("removePins", o)
    BY <2>1 DEF Sound, Drawings, TiedIn
  <2>4. ASSUME Due("n_things--", o) PROVE Due("removePins", o)
    <3>1. PICK j \in 1..Len(todo) : Is(j, "n_things--", o)
      BY <2>4 DEF Due, Later
    <3>2. Is(j + 1, "removePins", o)
      BY <2>2, <3>1 DEF Sound, Planned, Relies, Coupled
    <3>3. QED BY <3>2 DEF Due, Later, Is
  <2>5. QED BY <1>8, <1>9, <2>2, <2>3, <2>4
<1>14. Precede'
  <2>1. SUFFICES ASSUME NEW i \in 0..n_things - 1, NEW j \in 0..n_things - 1,
                        slots'[j] \in Pins, slots'[i] \in Tied(slots'[j])
                 PROVE  i < j
    BY <1>0 DEF Precede, Tied
  <2>2. \A a, b \in 0..n_things - 1 : slots[b] \in Pins /\ slots[a] \in Tied(slots[b]) => a < b
    BY DEF Sound, Drawings, Precede
  <2>3. \A a \in 0..n_things - 1 : a + 1 # n_things => a + 1 \in 0..n_things - 1
    BY <1>4
  <2>4. slots'[i] \in Things /\ slots'[j] \in Things /\ slots'[i] # slots'[j]
    BY <1>4, <1>10, <2>1 DEF Things
  <2>5. CASE i # h /\ j # h
    BY <1>6, <2>1, <2>2, <2>5
  <2>6. CASE i = h /\ j # h
    <3>1. h + 1 \in 0..n_things - 1
      BY <1>4, <1>5, <1>6, <2>3, <2>4, <2>6
    <3>2. h + 1 < j
      BY <1>6, <2>1, <2>2, <2>6, <3>1
    <3>3. QED BY <2>6, <3>2
  <2>7. CASE i # h /\ j = h
    <3>1. h + 1 \in 0..n_things - 1
      BY <1>4, <1>5, <1>6, <2>3, <2>4, <2>7
    <3>2. i < h + 1
      BY <1>6, <2>1, <2>2, <2>7, <3>1
    <3>3. QED BY <2>7, <3>2
  <2>8. QED BY <2>4, <2>5, <2>6, <2>7
<1>15. Spare'
  <2>1. SUFFICES ASSUME NEW g \in 0..n_things - 1, Next1("moveUp", g)'
                 PROVE  g > 0 /\ slots'[g] = slots'[g - 1]
    BY <1>0 DEF Spare
  <2>2. 1 \in 1..Len(todo') /\ todo'[1].op = "moveUp" /\ todo'[1].t = g
    BY <2>1 DEF Next1, Is
  <2>3. 2 \in 2..Len(todo) /\ todo'[1] = todo[2]
    BY <1>1, <1>2, <2>2, Behind
  <2>4. k # 2
    BY <1>3, <2>2, <2>3 DEF Is
  <2>5. g = h + 1
    BY <1>3, <2>2, <2>3, <2>4
  <2>6. QED BY <1>6, <2>5
<1>16. Shown'
  <2>1. \A u \in Objects :
          u \in bodies \cup invisible \/ Next1("hide", u) \/ Next1("makePhysical", u)
            \/ Next1("CreateBody", u) \/ Next1("removePins", u) =>
          u \in bodies' \cup invisible'
    BY <1>0, <1>2
  <2>2. QED BY <1>0, <1>2, <2>1, ShownAfter DEF Sound
<1>17. JointsPointedTo'
  <2>1. SUFFICES ASSUME NEW q \in joints PROVE q \in b2joint
    BY <1>0 DEF JointsPointedTo
  <2>2. ~ Next1("DestroyJoint", q) /\ ~ Next1("setb2Joint", q)
    BY <1>2
  <2>3. QED BY <2>2 DEF Sound, Drawings, JointsPointedTo
<1>18. JointsHold'
  <2>1. ASSUME NEW q \in Pins
        PROVE  /\ q \in joints' <=> q \in joints
               /\ Holds(q)' <=> Holds(q)
               /\ \A op \in PinMaking \cup {"n_things--"} : ~ Next1(op, q)
               /\ \A u \in Tied(q) : ~ Next1("DestroyBody", u)
    BY <1>0, <1>2, <1>10 DEF PinMaking
  <2>2. QED BY <1>0, <1>2, <2>1, JointsAfter DEF Sound
<1>19. Planned'
  BY <1>0, <1>1, <1>2, PlanAfter, Empty DEF Sound, Freeing
<1>20. Calling(<<>>)
  BY <1>1, <1>2, Empty DEF Calling
<1>21. Changing
  BY <1>0, <1>2, <1>7, <1>8 DEF Changing
<1>22. QED BY <1>0, <1>1, <1>11, <1>12, <1>13, <1>14, <1>15, <1>16, <1>17, <1>18, <1>19, <1>20, <1>21
           DEF Works, Sound, Drawings

\* When the length is shortened, only JUNK is cut off.
LEMMA Shortens ==
  ASSUME DInv, Shorter
  PROVE  \E t \in Things :
           /\ t = todo[1].t /\ t \notin Physical /\ ~ InArray(t)'
           /\ \A i \in 0..n_things' - 1 : i \in 0..n_things - 1
           /\ \A u \in Things : InArray(u)' <=> InArray(u)
<1>1. /\ todo # <<>> /\ todo[1].op = "n_things--" /\ This = todo[1].t /\ This \in Things
      /\ n_things' = n_things - 1 /\ slots' = slots /\ 1 \in 1..Len(todo)
      /\ TypeOK /\ ArrayShape
  BY First DEF Shorter, DInv, Order, StatementTyped, OnThing
<1>2. PICK n, t : n = n_things /\ t = This
  OBVIOUS
<1>3. n \in Nat /\ t \in Things /\ JUNK \notin Things
  BY <1>1, <1>2, DrawAssumption DEF TypeOK
<1>4. Hole(t, n) /\ t \notin Physical
  <2>1. PICK h \in 0..n : Shift(1, h)
    BY <1>1, <1>2 DEF ArrayShape, Shifting
  <2>2. PICK first : first = 1 - (n - h)
    OBVIOUS
  <2>3. first >= 1 /\ Hole(t, h) /\ (t \in Physical => \E j \in 1..first - 1 : Frees(j, t))
    BY <1>1, <1>2, <2>1, <2>2 DEF Shift
  <2>4. h = n /\ first = 1
    BY <1>3, <2>1, <2>2, <2>3
  <2>5. \A j \in 1..first - 1 : FALSE
    BY <2>4
  <2>6. QED BY <2>3, <2>4, <2>5
<1>5. n > 0 /\ slots[n - 1] = JUNK /\ \A i \in 0..n - 2 : slots[i] \in Things \ {t}
  <2>1. \A i \in 0..n - 1 : Kept(n, i) = slots[i]
    BY <1>3 DEF Kept
  <2>2. (\A i \in 0..n - 2 : i \in 0..n - 1) /\ n > 0 /\ n - 1 \in 0..n - 1
    BY <1>2, <1>3, <1>4 DEF Hole
  <2>3. Kept(n, n - 1) = JUNK /\ \A i \in 0..n - 2 : Kept(n, i) \in Things \ {t}
    BY <1>2, <1>4 DEF Hole
  <2>4. QED BY <2>1, <2>2, <2>3
<1>6. n_things' - 1 = n - 2 /\ \A i \in 0..n - 1 : i = n - 1 \/ i \in 0..n - 2
  BY <1>1, <1>2, <1>3
<1>7. \A i \in 0..n - 2 : i \in 0..n - 1
  BY <1>3
<1>8. \A u \in Things : InArray(u)' <=> InArray(u)
  BY <1>1, <1>2, <1>3, <1>5, <1>6, <1>7 DEF InArray
<1>9. ~ InArray(t)'
  BY <1>1, <1>5, <1>6 DEF InArray
<1>10. QED BY <1>1, <1>2, <1>3, <1>4, <1>6, <1>7, <1>8, <1>9

LEMMA ShorterWorks ==
  ASSUME DInv, Sound, Shorter
  PROVE  Works
<1>0. /\ Executes("n_things--") /\ UNCHANGED <<slots, b2body, b2joint, bodies, joints>>
      /\ Then(<<>>) /\ invisible' = invisible \ {todo[1].t}
      /\ pinned' = [p \in Pins |-> IF p = todo[1].t THEN Unpinned ELSE pinned[p]]
  BY First DEF Shorter, box2d
<1>1. <<>> \in Seq(Stmt) /\ Len(<<>>) = 0
  BY Seq0
<1>2. /\ todo # <<>> /\ todo[1].op = "n_things--" /\ 1 \in 1..Len(todo)
      /\ Push(<<>>) /\ \A oq, u : Next1(oq, u) <=> oq = "n_things--" /\ u = todo[1].t
  BY <1>0, <1>1, Called
<1>3. PICK t \in Things : /\ t = todo[1].t /\ t \notin Physical /\ ~ InArray(t)'
                          /\ \A i \in 0..n_things' - 1 : i \in 0..n_things - 1
                          /\ \A u \in Things : InArray(u)' <=> InArray(u)
  BY Shortens
<1>4. Relies(1)
  BY <1>2 DEF Sound, Planned
<1>5. /\ \A p \in Pins : Tied(p) \subseteq Objects
      /\ \A p \in Pins : pinned'[p] = IF p = t THEN Unpinned ELSE pinned[p]
      /\ \A p \in Pins : Tied(p)' = IF p = t THEN {} ELSE Tied(p)
      /\ joints \subseteq Pins /\ Objects \cap Pins = {}
  BY <1>0, <1>3, DrawAssumption DEF DInv, TypeOK, Tied, Unpinned
<1>6. t \notin joints
  <2>1. ~ Next1("DestroyJoint", t) /\ ~ Next1("setb2Joint", t) /\ t \notin b2joint
    BY <1>2, <1>3 DEF Physical
  <2>2. QED BY <2>1 DEF Sound, Drawings, JointsPointedTo
<1>7. Is(2, "removePins", t)
  <2>1. Is(1 + 1, "removePins", t)
    BY <1>2, <1>3, <1>4 DEF Relies, Coupled, Is
  <2>2. QED BY <2>1
<1>8. Is(1, "removePins", t)' /\ Due("removePins", t)'
  <2>1. 2 \in 2..Len(todo) /\ 2 - 1 + Len(<<>>) = 1
    BY <1>1, <1>7 DEF Is
  <2>2. Is(2 - 1 + Len(<<>>), "removePins", t)'
    BY <1>2, <1>7, <2>1, IsAfter
  <2>3. Is(1, "removePins", t)'
    BY <2>1, <2>2
  <2>4. QED BY <2>3 DEF Due, Later, Is
<1>9. \A op, u : Due(op, u) /\ ~ (op = "n_things--" /\ u = t) => Due(op, u)'
  BY <1>2, <1>3, DueAfter
<1>10. PinnedShape'
  BY <1>5 DEF Sound, Drawings, PinnedShape
<1>11. PinsIn'
  <2>1. SUFFICES ASSUME NEW p \in Pins, p # t, pinned[p] # Unpinned
                 PROVE  InArray(p)' \/ Due("n_things--", p)'
    BY <1>5 DEF PinsIn
  <2>2. InArray(p) \/ Due("n_things--", p)
    BY <1>2, <2>1 DEF Sound, Drawings, PinsIn, AddNext, Adding
  <2>3. QED BY <1>3, <1>9, <2>1, <2>2 DEF Things
<1>12. TiedIn'
  <2>1. SUFFICES ASSUME NEW p \in Pins, NEW o \in Tied(p)
                 PROVE  InArray(o)' \/ Due("removePins", o)'
    BY <1>5 DEF TiedIn
  <2>2. InArray(o) \/ Due("removePins", o)
    BY <2>1 DEF Sound, Drawings, TiedIn
  <2>3. QED BY <1>3, <1>5, <1>9, <2>1, <2>2 DEF Things
<1>13. Precede'
  <2>1. SUFFICES ASSUME NEW i \in 0..n_things' - 1, NEW j \in 0..n_things' - 1,
                        NEW q \in Pins, q = slots[j], slots[i] \in Tied(q)'
                 PROVE  i < j
    BY <1>0 DEF Precede, Tied
  <2>2. slots[i] \in Tied(q)
    BY <1>5, <2>1
  <2>3. QED BY <1>3, <2>1, <2>2 DEF Sound, Drawings, Precede
<1>14. Shown'
  <2>1. SUFFICES ASSUME NEW p \in Pins, NEW o \in Tied(p)
                 PROVE  o \in bodies' \cup invisible' \/ \E op \in ShowOps : Due(op, o)'
    BY <1>5 DEF Shown, ShowOps
  <2>2. o \in bodies \cup invisible \/ \E op \in ShowOps : Due(op, o)
    BY <2>1 DEF Sound, Drawings, Shown, ShowOps
  <2>3. \A op \in ShowOps : op # "n_things--"
    BY DEF ShowOps
  <2>4. CASE o = t
    BY <1>8, <2>4 DEF ShowOps
  <2>5. CASE o # t
    BY <1>0, <1>3, <1>9, <2>2, <2>3, <2>5
  <2>6. QED BY <2>4, <2>5
<1>15. Spare'
  BY <1>8 DEF Spare, Next1, Is
<1>16. JointsPointedTo'
  <2>1. SUFFICES ASSUME NEW q \in joints PROVE q \in b2joint
    BY <1>0 DEF JointsPointedTo
  <2>2. ~ Next1("DestroyJoint", q) /\ ~ Next1("setb2Joint", q)
    BY <1>2
  <2>3. QED BY <2>2 DEF Sound, Drawings, JointsPointedTo
<1>17. JointsHold'
  <2>1. SUFFICES ASSUME NEW q \in Pins, ~ (q \in joints <=> Holds(q)') PROVE Excused(0, q)'
    BY <1>0 DEF JointsHold
  <2>2. q # t
    BY <1>5, <1>6, <2>1 DEF Holds
  <2>3. Tied(q)' = Tied(q) /\ (Holds(q)' <=> Holds(q))
    BY <1>0, <1>5, <2>2 DEF Holds
  <2>4. Excused(0, q)
    BY <2>1, <2>3 DEF Sound, Drawings, JointsHold
  <2>5. \A op \in PinMaking \cup {"n_things--"} : Later(0, op, q) => Later(0, op, q)'
    BY <1>9, <2>2 DEF Due
  <2>6. \A o \in Tied(q) : Later(0, "DestroyBody", o) => Later(0, "DestroyBody", o)'
    BY <1>9 DEF Due
  <2>7. QED BY <2>3, <2>4, <2>5, <2>6 DEF Excused
<1>18. Planned'
  <2>1. SUFFICES ASSUME NEW k \in 1..Len(todo') PROVE Relies(k)'
    BY DEF Planned
  <2>2. Len(todo) \in Nat \ {0} /\ Len(todo') = Len(todo) - 1
    BY <1>1, <1>2 DEF Push
  <2>3. PICK m \in 2..Len(todo) : m = k + 1 /\ todo'[k] = todo[m]
    BY <1>1, <1>2, <2>2, Behind
  <2>4. RemovedLast(1) /\ Relies(m) /\ m \in 1..Len(todo)
    BY <1>4, <2>2, <2>3 DEF Sound, Planned, Relies
  <2>5. \A j \in k + 1..Len(todo') : j + 1 \in m + 1..Len(todo) /\ todo'[j] = todo[j + 1]
    <3>1. \A j \in k + 1..Len(todo') : j \in 1..Len(todo') /\ j + 1 \in 2..Len(todo) /\ j > 0
                                       /\ j + 1 - 0 = j + 1 /\ j + 1 \in m + 1..Len(todo)
      BY <2>1, <2>2, <2>3
    <3>2. QED BY <1>1, <1>2, <3>1, Behind
  <2>6. todo[m].op \in Removing \cup {"delete", "load", "enableDrawing"}
    BY <1>2, <2>3, <2>4 DEF RemovedLast, Removing
  <2>7. RemovedLast(k)'
    BY <2>3, <2>4, <2>5 DEF RemovedLast, Relies
  <2>8. Coupled(k)'
    <3>1. SUFFICES ASSUME NEW u \in Things, Is(k, "n_things--", u)' PROVE Is(k + 1, "removePins", u)'
      BY <2>3, <2>6 DEF Coupled, Removing, Is
    <3>2. Is(m, "n_things--", u)
      BY <2>3, <2>4, <3>1 DEF Is
    <3>3. Is(m + 1, "removePins", u)
      BY <2>4, <3>2 DEF Relies, Coupled
    <3>4. m + 1 \in 2..Len(todo) /\ m + 1 - 1 + Len(<<>>) = k + 1
      BY <1>1, <2>2, <2>3, <3>3 DEF Is
    <3>5. Is(m + 1 - 1 + Len(<<>>), "removePins", u)'
      BY <1>2, <3>3, <3>4, IsAfter
    <3>6. QED BY <3>4, <3>5
  <2>9. QED BY <2>3, <2>6, <2>7, <2>8
            DEF Relies, PinFreed, BodyFreed, BodyMade, JointMade, Remade, NothingMade,
                PinMaking, Removing, Is
<1>19. Calling(<<>>)
  BY <1>1, <1>2, Empty DEF Calling, Freeing, Making
<1>20. Changing
  <2>1. \A u \in Things : Next1("n_things--", u) => ~ InArray(u)'
    BY <1>2, <1>3
  <2>2. QED BY <1>0, <1>2, <1>3, <1>5, <2>1 DEF Changing
<1>21. QED BY <1>0, <1>1, <1>10, <1>11, <1>12, <1>13, <1>14, <1>15, <1>16, <1>17, <1>18, <1>19, <1>20
           DEF Works, Sound, Drawings

-----------------------------------------------------------------------------
LEMMA ResetWorks ==
  ASSUME DInv, Sound, Reset
  PROVE  Works
<1>0. /\ Executes("World::reset") /\ Then(ResetCalls)
      /\ UNCHANGED <<slots, n_things, pinned, invisible, b2body, b2joint, bodies, joints>>
  BY DEF Reset, scene, box2d
<1>1. /\ todo # <<>> /\ todo[1].op = "World::reset" /\ 1 \in 1..Len(todo) /\ todo \in Seq(Stmt)
      /\ n_things \in Nat /\ TypeOK
  BY <1>0, First DEF DInv, Order, TodoTyped
<1>2. Whole /\ \A k \in 1..Len(todo) : todo[k].op \notin {"n_things--", "moveUp"}
  BY <1>1, NotShifting DEF DInv, Order, Freeing
<1>3. PICK n, s : n = n_things /\ s = ResetCalls
  OBVIOUS
<1>4. /\ s \in Seq(Stmt) /\ Len(s) = 3 * n + 2 /\ Then(s) /\ n \in Nat
      /\ \A k \in 1..3 * n + 2 :
           \/ k = 1 /\ s[k] = Do("DestroyBody", BG)
           \/ k \in 2..n + 1 /\ slots[k - 2] \in Things /\ s[k] = Do("makeUnphysical", slots[k - 2])
           \/ k = n + 2 /\ s[k] = Do("initPhysics", NULL)
           \/ /\ k \in n + 3..2 * n + 2 /\ slots[k - n - 3] \in Things
              /\ s[k] = Do("reset", slots[k - n - 3])
           \/ /\ k \in 2 * n + 3..3 * n + 2 /\ slots[k - 2 * n - 3] \in Things
              /\ s[k] = Do("makePhysical", slots[k - 2 * n - 3])
  BY <1>0, <1>1, <1>2, <1>3, ResetInOrder DEF Whole
<1>5. \A k \in 1..3 * n + 2 :
        \/ k = 1 /\ s[k].op = "DestroyBody" /\ s[k].t = BG
        \/ k \in 2..n + 1 /\ s[k].op = "makeUnphysical" /\ s[k].t = slots[k - 2]
        \/ k = n + 2 /\ s[k].op = "initPhysics"
        \/ k \in n + 3..2 * n + 2 /\ s[k].op = "reset" /\ s[k].t = slots[k - n - 3]
        \/ k \in 2 * n + 3..3 * n + 2 /\ s[k].op = "makePhysical" /\ s[k].t = slots[k - 2 * n - 3]
  <2>1. TAKE k \in 1..3 * n + 2
  <2>2. \A op, u : Do(op, u).op = op /\ Do(op, u).t = u
    BY DEF Do
  <2>3. CASE k = 1 /\ s[k] = Do("DestroyBody", BG)
    BY <2>2, <2>3
  <2>4. CASE k \in 2..n + 1 /\ s[k] = Do("makeUnphysical", slots[k - 2])
    BY <2>2, <2>4
  <2>5. CASE k = n + 2 /\ s[k] = Do("initPhysics", NULL)
    BY <2>2, <2>5
  <2>6. CASE k \in n + 3..2 * n + 2 /\ s[k] = Do("reset", slots[k - n - 3])
    BY <2>2, <2>6
  <2>7. CASE k \in 2 * n + 3..3 * n + 2 /\ s[k] = Do("makePhysical", slots[k - 2 * n - 3])
    BY <2>2, <2>7
  <2>8. QED BY <1>4, <2>3, <2>4, <2>5, <2>6, <2>7
<1>6. /\ Push(s) /\ \A k \in 1..3 * n + 2 : k \in 1..Len(s) /\ k \in 1..Len(todo') /\ todo'[k] = s[k]
  <2>1. Push(s)
    BY <1>0, <1>4, Called
  <2>2. /\ \A k \in 1..Len(s) : todo'[k] = s[k]
        /\ Len(todo') = Len(s) + Len(todo) - 1 /\ Len(todo) \in Nat \ {0}
    BY <2>1 DEF Push
  <2>3. QED BY <1>4, <2>1, <2>2
<1>7. \A k \in 1..3 * n + 2 :
        s[k].op \in {"DestroyBody", "makeUnphysical", "initPhysics", "reset", "makePhysical"}
  BY <1>5
\* each thing is made physical again, in the order of the array
<1>8. ASSUME NEW i \in 0..n - 1, NEW t, t = slots[i]
      PROVE  \A k \in 0..2 * n + 2 + i : Later(k, "makePhysical", t)'
  <2>1. PICK j : j = 2 * n + 3 + i
    OBVIOUS
  <2>2. j \in 1..3 * n + 2 /\ j # 1 /\ j \notin 2..n + 1 /\ j # n + 2 /\ j \notin n + 3..2 * n + 2
        /\ j - 2 * n - 3 = i
    BY <1>4, <2>1
  <2>3. s[j].op = "makePhysical" /\ s[j].t = t
    BY <1>5, <1>8, <2>2
  <2>4. \A k \in 0..j - 1 : Later(k, "makePhysical", t)'
    BY <1>6, <2>2, <2>3, CalledLater
  <2>5. \A k \in 0..2 * n + 2 + i : k \in 0..j - 1
    BY <1>4, <2>1
  <2>6. QED BY <2>4, <2>5
<1>9. ASSUME NEW t, InArray(t) PROVE \A k \in 0..2 * n + 2 : Later(k, "makePhysical", t)'
  <2>1. PICK i \in 0..n - 1 : slots[i] = t
    BY <1>3, <1>9 DEF InArray
  <2>2. \A k \in 0..2 * n + 2 : k \in 0..2 * n + 2 + i
    BY <1>4
  <2>3. QED BY <1>8, <2>1, <2>2
<1>10. \A i \in 0..n - 1 : InArray(slots[i])
  BY <1>3 DEF InArray
<1>11. \A p \in joints : InArray(p)
  <2>1. SUFFICES ASSUME NEW p \in joints PROVE InArray(p)
    OBVIOUS
  <2>2. p \in b2joint
    BY <1>1 DEF Sound, Drawings, JointsPointedTo, Next1, Is
  <2>3. QED BY <1>2, <2>2 DEF Whole, Physical
<1>12. \A t : (InArray(t)' <=> InArray(t)) /\ (t \in joints' <=> t \in joints)
  BY <1>0 DEF InArray
<1>13. ASSUME NEW k \in 1..Len(s) PROVE Relies(k)'
  <2>0. k \in 1..3 * n + 2 /\ todo'[k] = s[k]
    BY <1>4, <1>6
  <2>1. CASE k = 1 \/ k = n + 2
    <3>1. /\ todo'[k].op = "DestroyBody" /\ todo'[k].t = BG
          \/ todo'[k].op = "initPhysics"
      <4>1. k \notin 2..n + 1 /\ k \notin n + 3..2 * n + 2 /\ k \notin 2 * n + 3..3 * n + 2
        BY <1>4, <2>1
      <4>2. QED BY <1>5, <2>0, <4>1
    <3>2. k \in 0..2 * n + 2
      BY <1>4, <2>1
    <3>3. Remade(k)'
      BY <1>9, <1>11, <1>12, <3>1, <3>2 DEF Remade, Is
    <3>4. BG \notin Objects
      BY DrawAssumption DEF Things
    <3>5. QED BY <3>1, <3>3, <3>4
              DEF Relies, PinFreed, BodyFreed, BodyMade, JointMade, Coupled, NothingMade,
                  RemovedLast, PinMaking, Removing, Is
  <2>2. CASE k \in 2..n + 1
    <3>1. PICK t : t = slots[k - 2]
      OBVIOUS
    <3>2. todo'[k].op = "makeUnphysical" /\ todo'[k].t = t
      <4>1. k # 1 /\ k # n + 2 /\ k \notin n + 3..2 * n + 2 /\ k \notin 2 * n + 3..3 * n + 2
        BY <1>4, <2>2
      <4>2. QED BY <1>5, <2>0, <3>1, <4>1
    <3>3. k - 2 \in 0..n - 1 /\ k \in 0..2 * n + 2
      BY <1>4, <2>2
    <3>4. Later(k, "makePhysical", t)'
      BY <1>9, <1>10, <3>1, <3>3
    <3>5. Excused(k, t)'
      BY <3>4 DEF Excused, PinMaking
    <3>6. PinFreed(k)' /\ BodyFreed(k)'
      BY <3>2, <3>4, <3>5 DEF PinFreed, BodyFreed
    <3>7. QED BY <3>2, <3>6
              DEF Relies, BodyMade, JointMade, Coupled, Remade, NothingMade, RemovedLast,
                  PinMaking, Removing, Is
  <2>3. CASE k \in n + 3..2 * n + 2
    <3>1. PICK t : t = slots[k - n - 3]
      OBVIOUS
    <3>2. todo'[k].op = "reset" /\ todo'[k].t = t
      <4>1. k # 1 /\ k # n + 2 /\ k \notin 2..n + 1 /\ k \notin 2 * n + 3..3 * n + 2
        BY <1>4, <2>3
      <4>2. QED BY <1>5, <2>0, <3>1, <4>1
    <3>3. k - n - 3 \in 0..n - 1 /\ k \in 0..2 * n + 2
      BY <1>4, <2>3
    <3>4. Later(k, "makePhysical", t)'
      BY <1>9, <1>10, <3>1, <3>3
    <3>5. Remade(k)'
      BY <3>2, <3>4 DEF Remade, Is
    <3>6. QED BY <3>2, <3>5
              DEF Relies, PinFreed, BodyFreed, BodyMade, JointMade, Coupled, NothingMade, RemovedLast,
                  PinMaking, Removing, Is
  <2>4. CASE k \in 2 * n + 3..3 * n + 2
    <3>1. PICK i, t : i = k - 2 * n - 3 /\ t = slots[i]
      OBVIOUS
    <3>2. todo'[k].op = "makePhysical" /\ todo'[k].t = t
      <4>1. k # 1 /\ k # n + 2 /\ k \notin 2..n + 1 /\ k \notin n + 3..2 * n + 2
        BY <1>4, <2>4
      <4>2. QED BY <1>5, <2>0, <3>1, <4>1
    <3>3. i \in 0..n - 1 /\ k = 2 * n + 3 + i /\ n + 2 \in 1..k - 1 /\ n + 2 \in 1..3 * n + 2
      BY <1>4, <2>4, <3>1
    <3>4. BodyMade(k)'
      <4>1. SUFFICES ASSUME NEW p \in Pins, t \in Tied(p), t \in Objects
                     PROVE  Later(k, "makePhysical", p)'
        BY <1>0, <3>2 DEF BodyMade, Tied
      <4>2. pinned[p] # Unpinned
        BY <4>1 DEF Tied, Unpinned
      <4>3. ~ AddNext(p) /\ ~ Due("n_things--", p)
        BY <1>1, <1>2 DEF AddNext, Adding, Next1, Is, Due, Later
      <4>4. PICK j \in 0..n - 1 : slots[j] = p
        BY <1>3, <4>2, <4>3 DEF Sound, Drawings, PinsIn, InArray
      <4>5. i < j
        BY <1>3, <3>1, <3>3, <4>1, <4>4 DEF Sound, Drawings, Precede
      <4>6. k \in 0..2 * n + 2 + j
        BY <1>4, <3>3, <4>5
      <4>7. QED BY <1>8, <4>4, <4>6
    <3>5. JointMade(k)'
      <4>1. SUFFICES ASSUME NEW p \in Pins, t = p
                     PROVE  /\ \E j \in 1..k - 1 : todo'[j].op = "initPhysics"
                            /\ \A op \in PinMaking : ~ Later(k, op, p)'
        BY <3>2 DEF JointMade
      <4>2. todo'[n + 2].op = "initPhysics"
        <5>1. n + 2 # 1 /\ n + 2 \notin 2..n + 1 /\ n + 2 \notin n + 3..2 * n + 2
              /\ n + 2 \notin 2 * n + 3..3 * n + 2
          BY <1>4
        <5>2. QED BY <1>5, <1>6, <3>3, <5>1
      <4>3. ASSUME NEW op \in PinMaking, Later(k, op, p)' PROVE FALSE
        <5>1. PICK j \in k + 1..Len(todo') : Is(j, op, p)'
          BY <4>3 DEF Later
        <5>2. CASE j <= Len(s)
          <6>1. /\ j \in 1..3 * n + 2 /\ j # 1 /\ j \notin 2..n + 1 /\ j # n + 2
                /\ j \notin n + 3..2 * n + 2 /\ j - 2 * n - 3 \in 0..n - 1 /\ j - 2 * n - 3 # i
            BY <1>4, <1>6, <3>3, <5>1, <5>2 DEF Push
          <6>2. s[j].t = slots[j - 2 * n - 3]
            BY <1>5, <6>1
          <6>3. slots[j - 2 * n - 3] = slots[i]
            BY <1>6, <3>1, <4>1, <5>1, <6>1, <6>2 DEF Is
          <6>4. QED BY <1>2, <1>3, <3>3, <6>1, <6>3 DEF Whole
        <5>3. CASE j > Len(s)
          <6>1. j \in 1..Len(todo')
            BY <5>1 DEF Is
          <6>2. j + 1 - Len(s) \in 2..Len(todo) /\ todo'[j] = todo[j + 1 - Len(s)]
            BY <1>6, <5>3, <6>1, Behind
          <6>3. j + 1 - Len(s) \in 1 + 1..Len(todo)
            BY <6>2
          <6>4. todo[j + 1 - Len(s)].op \in OnNobody
            BY <1>1, <6>3 DEF Sound, Planned, Relies, NothingMade
          <6>5. QED BY <4>3, <5>1, <6>2, <6>4 DEF Is, OnNobody, PinMaking
        <5>4. j \in Int /\ Len(s) \in Int
          BY <1>4, <5>1 DEF Is
        <5>5. QED BY <5>2, <5>3, <5>4
      <4>4. QED BY <3>3, <4>2, <4>3
    <3>6. QED BY <3>2, <3>4, <3>5
              DEF Relies, PinFreed, BodyFreed, Coupled, Remade, NothingMade, RemovedLast, Removing, Is
  <2>5. QED BY <1>4, <2>0, <2>1, <2>2, <2>3, <2>4
<1>14. Calling(s)
  <2>1. \A k \in 1..Len(s) : s[k].op \in ResetOps
    BY <1>4, <1>7 DEF ResetOps, Freeing, Making
  <2>2. QED BY <1>1, <2>1 DEF Calling, Freeing, Making
<1>15. PICK u : u = todo[1].t
  OBVIOUS
<1>16. Stays("World::reset", u, s)
  <2>1. 1 \in 1..3 * n + 2
    BY <1>4
  <2>2. s[1].op # "moveUp"
    BY <1>7, <2>1
  <2>3. QED BY <1>0, <1>13, <2>2 DEF Stays, Adding
<1>17. QED BY <1>0, <1>4, <1>14, <1>15, <1>16, StayWorks

-----------------------------------------------------------------------------
\* What penDown adds is not pinned yet.
LEMMA AddsUnpinned ==
  ASSUME call \in Calls \cup {"none"}, TypeOK, Aim(call, was), todo # <<>>, Len(todo) = 1,
         todo[1].op \in Adding, NEW p \in Pins, AddNext(p)
  PROVE  pinned[p] = Unpinned
<1>1. PICK c, w : c = call /\ w = was
  OBVIOUS
<1>2. 1 \in 1..Len(todo) /\ Aim(c, w) /\ c \in Calls
  BY <1>1 DEF TypeOK
<1>3. c = "penDown"
  <2>1. c \notin {"penUp", "step", "stopPlay", "handleInput"}
    BY <1>2 DEF Aim, FinishAim, TieAim, MoveAim, LeaveAim, RestoreAim, OnlyOps, ResetOps, Adding,
                Freeing, Making
  <2>2. c # "delete"
    BY <1>2 DEF Aim, EraseAim, OnlyOps, Adding, Freeing, Removing
  <2>3. c \notin {"zap", "load"}
    BY <1>2 DEF Aim, ZapAim, ClearAim, LoadAim, Adding
  <2>4. QED BY <1>2, <2>1, <2>2, <2>3 DEF Calls
<1>4. QED BY <1>2, <1>3 DEF Aim, DrawAim

LEMMA AddThingWorks ==
  ASSUME DInv, Sound, call \in Calls \cup {"none"}, Aim(call, was), AddThing
  PROVE  Works
<1>0. /\ Executes("add") /\ UNCHANGED <<n_things, pinned, invisible, b2body, b2joint, bodies, joints>>
      /\ IF n_things = MAX_THINGS
         THEN Then(<<>>) /\ UNCHANGED slots
         ELSE Then(<<Do("n_things++", This)>>) /\ slots' = [slots EXCEPT ![n_things] = This]
  BY DEF AddThing, box2d
<1>1. /\ todo # <<>> /\ todo[1].op = "add" /\ 1 \in 1..Len(todo) /\ This = todo[1].t
      /\ n_things \in Nat /\ n_things <= MAX_THINGS /\ MAX_THINGS \in Nat
      /\ slots \in [0..MAX_THINGS -> Things \cup {JUNK}]
  BY <1>0, First, DrawAssumption DEF DInv, TypeOK
<1>2. PICK t \in Things : t = todo[1].t
  BY <1>1, WhileAdding DEF Adding
<1>3. PICK s \in Seq(Stmt) :
        /\ Then(s) /\ \A i \in 0..n_things - 1 : slots'[i] = slots[i]
        /\ \/ Len(s) = 0 /\ n_things = MAX_THINGS /\ \A p \in Pins : AddNext(p) => pinned[p] = Unpinned
           \/ Len(s) = 1 /\ s[1].op = "n_things++" /\ s[1].t = t
  <2>1. CASE n_things = MAX_THINGS
    <3>1. Then(<<>>) /\ slots' = slots /\ <<>> \in Seq(Stmt) /\ Len(<<>>) = 0
      BY <1>0, <2>1, Seq0
    <3>2. Len(todo) = 1
      BY <1>1, <2>1, WhileAdding DEF Adding
    <3>3. \A p \in Pins : AddNext(p) => pinned[p] = Unpinned
      BY <1>1, <3>2, AddsUnpinned DEF DInv, Adding
    <3>4. QED BY <2>1, <3>1, <3>3
  <2>2. CASE n_things # MAX_THINGS
    <3>1. Then(<<Do("n_things++", t)>>) /\ slots' = [slots EXCEPT ![n_things] = t]
      BY <1>0, <1>1, <1>2, <2>2
    <3>2. \A i \in 0..n_things - 1 : slots'[i] = slots[i]
      BY <1>1, <3>1
    <3>3. Do("n_things++", t) \in Stmt /\ Do("n_things++", t).op = "n_things++" /\ Do("n_things++", t).t = t
      BY DoOnThing DEF OnThing
    <3>4. PICK a \in Stmt : a = Do("n_things++", t)
      BY <3>3
    <3>5. <<a>> \in Seq(Stmt) /\ Len(<<a>>) = 1 /\ <<a>>[1] = a
      BY Seq1
    <3>6. QED BY <3>1, <3>2, <3>3, <3>4, <3>5
  <2>3. QED BY <2>1, <2>2
<1>4. Push(s) /\ \A oq, u : Next1(oq, u) <=> oq = "add" /\ u = t
  BY <1>0, <1>2, <1>3, Called
<1>5. (\A u : InArray(u)' <=> InArray(u)) /\ Array' = Array
  BY <1>0, <1>3 DEF InArray, Array
<1>6. \A op, u : Due(op, u) /\ op # "add" => Due(op, u)'
  BY <1>4, DueAfter
<1>7. \A q \in Pins : Tied(q)' = Tied(q) /\ (Holds(q)' <=> Holds(q))
  BY <1>0 DEF Tied, Holds
<1>8. PinnedShape'
  BY <1>0 DEF Sound, Drawings, PinnedShape, Unpinned
<1>9. PinsIn'
  <2>1. SUFFICES ASSUME NEW p \in Pins, pinned[p] # Unpinned
                 PROVE  InArray(p)' \/ AddNext(p)' \/ Due("n_things--", p)'
    BY <1>0 DEF PinsIn, Unpinned
  <2>2. InArray(p) \/ AddNext(p) \/ Due("n_things--", p)
    BY <2>1 DEF Sound, Drawings, PinsIn
  <2>3. ASSUME AddNext(p) PROVE AddNext(p)'
    <3>1. t = p /\ Len(s) = 1 /\ s[1].op = "n_things++" /\ s[1].t = t
      BY <1>3, <1>4, <2>1, <2>3 DEF AddNext
    <3>2. 1 \in 1..Len(todo') /\ todo'[1] = s[1]
      BY <1>4, <3>1 DEF Push
    <3>3. Next1("n_things++", p)'
      BY <3>1, <3>2 DEF Next1, Is
    <3>4. QED BY <3>3 DEF AddNext, Adding
  <2>4. QED BY <1>5, <1>6, <2>2, <2>3
<1>10. TiedIn'
  BY <1>5, <1>6, <1>7 DEF Sound, Drawings, TiedIn
<1>11. Precede'
  <2>1. SUFFICES ASSUME NEW i \in 0..n_things - 1, NEW j \in 0..n_things - 1,
                        slots'[j] \in Pins, slots'[i] \in Tied(slots'[j])
                 PROVE  i < j
    BY <1>0 DEF Precede, Tied
  <2>2. QED BY <1>3, <2>1 DEF Sound, Drawings, Precede
<1>12. Shown'
  <2>1. \A u \in Objects :
          u \in bodies \cup invisible \/ Next1("hide", u) \/ Next1("makePhysical", u)
            \/ Next1("CreateBody", u) \/ Next1("removePins", u) =>
          u \in bodies' \cup invisible'
    BY <1>0, <1>4
  <2>2. QED BY <1>0, <1>4, <2>1, ShownAfter DEF Sound
<1>13. Spare'
  BY <1>0, <1>1, <1>3, <1>4, SpareAfter
<1>14. JointsPointedTo'
  <2>1. SUFFICES ASSUME NEW q \in joints PROVE q \in b2joint
    BY <1>0 DEF JointsPointedTo
  <2>2. ~ Next1("DestroyJoint", q) /\ ~ Next1("setb2Joint", q)
    BY <1>4
  <2>3. QED BY <2>2 DEF Sound, Drawings, JointsPointedTo
<1>15. JointsHold'
  <2>1. ASSUME NEW q \in Pins
        PROVE  /\ q \in joints' <=> q \in joints
               /\ Holds(q)' <=> Holds(q)
               /\ \A op \in PinMaking \cup {"n_things--"} : ~ Next1(op, q)
               /\ \A u \in Tied(q) : ~ Next1("DestroyBody", u)
    BY <1>0, <1>4, <1>7 DEF PinMaking
  <2>2. QED BY <1>0, <1>4, <2>1, JointsAfter DEF Sound
<1>16. Planned'
  <2>1. ASSUME NEW k \in 1..Len(s) PROVE Relies(k)'
    <3>1. k = 1 /\ s[1].op = "n_things++" /\ todo'[k] = s[k]
      BY <1>3, <1>4 DEF Push
    <3>2. QED BY <3>1, NothingRelied
  <2>2. QED BY <1>0, <1>1, <1>4, <2>1, PlanAfter DEF Sound, Freeing
<1>17. Calling(s)
  BY <1>1, <1>2, <1>3 DEF Calling, Freeing, Making
<1>18. Changing
  BY <1>0, <1>1, <1>5 DEF Changing
<1>19. QED BY <1>3, <1>8, <1>9, <1>10, <1>11, <1>12, <1>13, <1>14, <1>15, <1>16, <1>17, <1>18
           DEF Works, Sound, Drawings

LEMMA LongerWorks ==
  ASSUME DInv, Sound, Longer
  PROVE  Works
<1>0. /\ Executes("n_things++") /\ UNCHANGED <<slots, pinned, invisible, b2body, b2joint, bodies, joints>>
      /\ n_things' = n_things + 1 /\ Then(<<>>)
  BY DEF Longer, box2d
<1>1. <<>> \in Seq(Stmt) /\ Len(<<>>) = 0
  BY Seq0
<1>2. /\ todo # <<>> /\ todo[1].op = "n_things++" /\ 1 \in 1..Len(todo) /\ Push(<<>>)
      /\ \A oq, u : Next1(oq, u) <=> oq = "n_things++" /\ u = todo[1].t
  BY <1>0, <1>1, Called
<1>3. PICK t \in Things : t = todo[1].t /\ ~ InArray(t) /\ slots[n_things] = t
  BY <1>2, WhileAdding DEF Adding, DInv, Order, AddGoesOn
<1>4. Whole /\ \A k \in 1..Len(todo) : todo[k].op \notin {"n_things--", "moveUp"}
  BY <1>2, WhileAdding DEF Adding
<1>5. n_things \in Nat /\ \A i \in 0..n_things' - 1 : i \in 0..n_things - 1 \/ i = n_things
  BY <1>0, DrawAssumption DEF DInv, TypeOK
<1>6. \A u : InArray(u)' <=> InArray(u) \/ u = t
  <2>1. TAKE u
  <2>2. n_things \in 0..n_things' - 1 /\ \A i \in 0..n_things - 1 : i \in 0..n_things' - 1
    BY <1>0, <1>5
  <2>3. QED BY <1>0, <1>3, <1>5, <2>2 DEF InArray
<1>7. \A op, u : Due(op, u) /\ op # "n_things++" => Due(op, u)'
  BY <1>2, DueAfter
<1>8. \A q \in Pins : Tied(q)' = Tied(q) /\ (Holds(q)' <=> Holds(q))
  BY <1>0 DEF Tied, Holds
<1>9. PinnedShape'
  BY <1>0 DEF Sound, Drawings, PinnedShape, Unpinned
<1>10. PinsIn'
  <2>1. SUFFICES ASSUME NEW p \in Pins, pinned[p] # Unpinned
                 PROVE  InArray(p)' \/ AddNext(p)' \/ Due("n_things--", p)'
    BY <1>0 DEF PinsIn, Unpinned
  <2>2. InArray(p) \/ AddNext(p) \/ Due("n_things--", p)
    BY <2>1 DEF Sound, Drawings, PinsIn
  <2>3. QED BY <1>2, <1>3, <1>6, <1>7, <2>2 DEF AddNext
<1>11. TiedIn'
  BY <1>6, <1>7, <1>8 DEF Sound, Drawings, TiedIn
<1>12. Precede'
  <2>1. SUFFICES ASSUME NEW i \in 0..n_things' - 1, NEW j \in 0..n_things' - 1,
                        NEW q \in Pins, q = slots[j], slots[i] \in Tied(q)
                 PROVE  i < j
    BY <1>0 DEF Precede, Tied
\* what comes last is not pinned by those in front of it
  <2>2. ~ (slots[i] = t)
    <3>1. InArray(slots[i]) \/ Due("removePins", slots[i])
      BY <2>1 DEF Sound, Drawings, TiedIn
    <3>2. ~ Due("removePins", t)
      BY <1>2, WhileAdding DEF Due, Later, Is, Adding
    <3>3. QED BY <1>3, <3>1, <3>2
  <2>3. i \in 0..n_things - 1
    BY <1>3, <1>5, <2>2
  <2>4. CASE j \in 0..n_things - 1
    BY <2>1, <2>3, <2>4 DEF Sound, Drawings, Precede
  <2>5. CASE j = n_things
    BY <1>5, <2>3, <2>5
  <2>6. QED BY <1>5, <2>4, <2>5
<1>13. Shown'
  <2>1. \A u \in Objects :
          u \in bodies \cup invisible \/ Next1("hide", u) \/ Next1("makePhysical", u)
            \/ Next1("CreateBody", u) \/ Next1("removePins", u) =>
          u \in bodies' \cup invisible'
    BY <1>0, <1>2
  <2>2. QED BY <1>0, <1>2, <2>1, ShownAfter DEF Sound
<1>14. Spare'
  <2>1. SUFFICES ASSUME NEW h, Next1("moveUp", h)' PROVE FALSE
    BY DEF Spare
  <2>2. 1 \in 1..Len(todo') /\ todo'[1].op = "moveUp"
    BY <2>1 DEF Next1, Is
  <2>3. 2 \in 1..Len(todo) /\ todo'[1] = todo[2]
    BY <1>1, <1>2, <2>2, Behind
  <2>4. QED BY <1>4, <2>2, <2>3
<1>15. JointsPointedTo'
  <2>1. SUFFICES ASSUME NEW q \in joints PROVE q \in b2joint
    BY <1>0 DEF JointsPointedTo
  <2>2. ~ Next1("DestroyJoint", q) /\ ~ Next1("setb2Joint", q)
    BY <1>2
  <2>3. QED BY <2>2 DEF Sound, Drawings, JointsPointedTo
<1>16. JointsHold'
  <2>1. ASSUME NEW q \in Pins
        PROVE  /\ q \in joints' <=> q \in joints
               /\ Holds(q)' <=> Holds(q)
               /\ \A op \in PinMaking \cup {"n_things--"} : ~ Next1(op, q)
               /\ \A u \in Tied(q) : ~ Next1("DestroyBody", u)
    BY <1>0, <1>2, <1>8 DEF PinMaking
  <2>2. QED BY <1>0, <1>2, <2>1, JointsAfter DEF Sound
<1>17. Planned'
  BY <1>0, <1>1, <1>2, PlanAfter, Empty DEF Sound, Freeing
<1>18. Calling(<<>>)
  BY <1>1, <1>2, Empty DEF Calling, Freeing, Making
<1>19. Changing
  <2>1. Array' = Array \cup {todo[1].t}
    <3>1. n_things \in 0..n_things' - 1 /\ \A i \in 0..n_things - 1 : i \in 0..n_things' - 1
      BY <1>0, <1>5
    <3>2. QED BY <1>0, <1>3, <1>5, <3>1 DEF Array
  <2>2. QED BY <1>0, <1>2, <2>1 DEF Changing
<1>20. QED BY <1>0, <1>1, <1>9, <1>10, <1>11, <1>12, <1>13, <1>14, <1>15, <1>16, <1>17, <1>18, <1>19
           DEF Works, Sound, Drawings

-----------------------------------------------------------------------------
\* load comes last, and is the next only in a load that has cleared the array.
LEMMA NowLoading ==
  ASSUME DInv, call \in Calls \cup {"none"}, Aim(call, was), todo # <<>>, todo[1].op = "load"
  PROVE  /\ call = "load" /\ LoadAim /\ Len(todo) = 1
         /\ \A op, u : Due(op, u) => op = "load"
<1>1. 1 \in 1..Len(todo) /\ Len(todo) \in Nat /\ call # "none"
  BY EmptySeq DEF DInv, Order, TodoTyped, TypeOK
<1>2. Len(todo) = 1
  BY <1>1 DEF DInv, Order, InOrder, LoadsNext
<1>3. PICK c, w : c = call /\ w = was
  OBVIOUS
<1>4. c \notin {"penDown", "penUp", "step", "stopPlay", "handleInput"}
  BY <1>1, <1>3 DEF Aim, DrawAim, FinishAim, TieAim, MoveAim, LeaveAim, RestoreAim, OnlyOps, ResetOps,
                   Adding, Freeing, Making
<1>5. c # "delete"
  BY <1>1, <1>2, <1>3 DEF Aim, EraseAim, Is
<1>6. c # "zap"
  BY <1>1, <1>2, <1>3 DEF Aim, ZapAim, ClearAim
<1>7. call = "load"
  BY <1>1, <1>3, <1>4, <1>5, <1>6 DEF Calls
<1>8. LoadAim
  BY <1>1, <1>2, <1>7 DEF Aim, ClearAim
<1>9. \A op, u : Due(op, u) => op = "load"
  BY <1>1, <1>2 DEF Due, Later, Is
<1>10. QED BY <1>2, <1>7, <1>8, <1>9

\* What an element becomes: a thing that is new, put through things in the array.
LEMMA Loads ==
  ASSUME DInv, call \in Calls \cup {"none"}, Aim(call, was), LoadElement
  PROVE  \/ /\ UNCHANGED <<pinned, invisible>>
            /\ \E s \in Seq(Stmt) : Then(s) /\ (Len(s) = 0 \/ (Len(s) = 1 /\ s[1].op = "World::reset"))
         \/ \E t \in Things, s \in Seq(Stmt), new \in Seq(Things) :
              /\ ~ InArray(t) /\ invisible \ {t} \subseteq invisible'
              /\ Then(s) /\ Len(s) = 3
              /\ s[1].op = "add" /\ s[1].t = t /\ s[2].op = "makePhysical" /\ s[2].t = t
              /\ s[3].op = "load" /\ s[3].t.ids = new
              /\ \A i \in 1..Len(new) : new[i] = t \/ InArray(new[i])
              /\ \A p \in Pins : p # t => pinned'[p] = pinned[p]
              /\ t \in Pins => /\ pinned'[t][1] \in Objects
                               /\ \A o \in Objects : o \in Tied(t)' => o \in bodies /\ InArray(o)
<1>1. /\ todo # <<>> /\ todo[1].op = "load" /\ This = todo[1].t /\ This \in LoadState
      /\ 1 \in 1..Len(todo) /\ TypeOK /\ InOrder
  BY First DEF LoadElement, DInv, Order, StatementTyped
<1>2. PICK f, ids : f = This.f /\ ids = This.ids
  OBVIOUS
<1>3. /\ Len(ids) <= Len(f.elements) /\ \A k \in 1..Len(ids) : ids[k] \in Pins <=> f.elements[k].pin
  <2>1. LoadsNext(1)
    BY <1>1 DEF InOrder
  <2>2. QED BY <1>1, <1>2, <2>1 DEF LoadsNext
<1>4. /\ f \in Sketches /\ ids \in Seq(Things) /\ Len(ids) \in Nat /\ Len(f.elements) \in Nat
  BY <1>1, <1>2, DrawAssumption, LenProperties DEF LoadState
<1>5. LoadAim /\ \A op, u : Due(op, u) => op = "load"
  BY <1>1, NowLoading
<1>6. \A i \in 1..Len(ids) : InArray(ids[i])
  <2>1. ASSUME NEW i \in 1..Len(ids) PROVE InArray(ids[i])
    <3>1. PICK t \in Things : t = ids[i]
      BY <1>4
    <3>2. InArray(t) \/ AddNext(t)
      BY <1>1, <1>2, <1>5, <3>1 DEF LoadAim
    <3>3. QED BY <1>1, <3>1, <3>2 DEF AddNext, Adding, Next1, Is
  <2>2. QED BY <2>1
<1>7. \A o \in Objects : InArray(o) => o \in bodies
  BY <1>5 DEF LoadAim
<1>8. CASE Len(ids) + 1 > Len(f.elements)
  <2>1. PICK s : s = IF f.valid THEN <<Do("World::reset", NULL)>> ELSE <<>>
    OBVIOUS
  <2>2. Then(s) /\ UNCHANGED <<pinned, invisible>>
    BY <1>2, <1>8, <2>1 DEF LoadElement
  <2>3. s \in Seq(Stmt) /\ (Len(s) = 0 \/ (Len(s) = 1 /\ s[1].op = "World::reset"))
    <3>1. CASE s = <<>>
      BY <3>1, Seq0
    <3>2. CASE s = <<Do("World::reset", NULL)>>
      <4>1. "World::reset" \in OnNobody
        BY DEF OnNobody
      <4>2. QED BY <3>2, <4>1, DoOnNobody, Seq1
    <3>3. QED BY <2>1, <3>1, <3>2
  <2>4. QED BY <2>2, <2>3
<1>9. CASE ~ (Len(ids) + 1 > Len(f.elements))
  <2>0. PICK e : e = f.elements[Len(ids) + 1]
    OBVIOUS
  <2>1. PICK t \in Things \ Array :
          /\ t \in Pins <=> e.pin
          /\ pinned' = [p \in Pins |->
                          IF p = t
                          THEN <<IF e.pinned[1] = 0 THEN NULL ELSE ids[e.pinned[1]],
                                 IF e.pinned[2] = 0 THEN NULL ELSE ids[e.pinned[2]]>>
                          ELSE pinned[p]]
          /\ invisible' \in {invisible \ {t}, invisible \cup {t}}
          /\ Then(<<Do("add", t), Do("makePhysical", t),
                    Do("load", [f |-> f, ids |-> Append(ids, t)])>>)
    BY <1>2, <1>9, <2>0 DEF LoadElement
  <2>2. PICK next, new : next = [f |-> f, ids |-> Append(ids, t)] /\ new = Append(ids, t)
    OBVIOUS
  <2>3. /\ next \in LoadState /\ next.ids = new /\ new \in Seq(Things)
        /\ Len(new) = Len(ids) + 1 /\ new[Len(ids) + 1] = t
        /\ \A k \in 1..Len(ids) : new[k] = ids[k]
    BY <1>4, <2>1, <2>2, AppendProperties DEF LoadState
  <2>4. \A i \in 1..Len(new) : new[i] = t \/ InArray(new[i])
    <3>1. \A i \in 1..Len(new) : i = Len(ids) + 1 \/ i \in 1..Len(ids)
      BY <1>4, <2>3
    <3>2. QED BY <1>6, <2>3, <3>1
  <2>5. PICK s \in Seq(Stmt) :
          /\ Then(s) /\ Len(s) = 3
          /\ s[1].op = "add" /\ s[1].t = t /\ s[2].op = "makePhysical" /\ s[2].t = t
          /\ s[3].op = "load" /\ s[3].t = next
    <3>1. "add" \in OnThing /\ "makePhysical" \in OnThing /\ "load" \in Ops /\ next \in Args
      BY <2>3 DEF OnThing, Ops, Args
    <3>2. PICK a, b, c : a = Do("add", t) /\ b = Do("makePhysical", t) /\ c = Do("load", next)
      OBVIOUS
    <3>3. /\ a \in Stmt /\ a.op = "add" /\ a.t = t /\ b \in Stmt /\ b.op = "makePhysical" /\ b.t = t
      BY <2>1, <3>1, <3>2, DoOnThing
    <3>4. c \in Stmt /\ c.op = "load" /\ c.t = next
      BY <3>1, <3>2, DoStmt
    <3>5. PICK s : s = <<a, b, c>>
      OBVIOUS
    <3>6. s \in Seq(Stmt) /\ Len(s) = 3 /\ s[1] = a /\ s[2] = b /\ s[3] = c
      BY <3>3, <3>4, <3>5, Seq3
    <3>7. Then(s)
      BY <2>1, <2>2, <3>2, <3>5
    <3>8. QED BY <3>3, <3>4, <3>6, <3>7
  <2>6. \A p \in Pins : p # t => pinned'[p] = pinned[p]
    BY <2>1
  <2>7. ASSUME t \in Pins
        PROVE  /\ pinned'[t][1] \in Objects
               /\ \A o \in Objects : o \in Tied(t)' => o \in bodies /\ InArray(o)
    <3>1. e.pin /\ Len(ids) < Len(f.elements)
      BY <1>4, <1>9, <2>1, <2>7
    <3>2. ASSUME NEW l \in {1, 2}, NEW k, k = e.pinned[l], k # 0
          PROVE  ids[k] \in Objects
      BY <1>3, <1>4, <2>0, <3>1, <3>2, PinnedBehind
    <3>3. e.pinned[1] # 0 /\ \A l \in {1, 2} : e.pinned[l] # 0 => e.pinned[l] \in 1..Len(ids)
      <4>1. PICK i : i = Len(ids) + 1
        OBVIOUS
      <4>2. i \in 1..Len(f.elements) /\ i - 1 = Len(ids) /\ e = f.elements[i]
        BY <1>4, <2>0, <3>1, <4>1
      <4>3. IsElement(f.elements, i)
        BY <1>4, <4>2, DrawAssumption
      <4>4. e.pinned[1] \in 1..i - 1 /\ (e.pinned[2] = 0 \/ e.pinned[2] \in 1..i - 1)
        BY <3>1, <4>2, <4>3 DEF IsElement
      <4>5. 0 \notin 1..i - 1
        BY <1>4, <4>1
      <4>6. QED BY <4>2, <4>4, <4>5
    <3>4. PICK x, y : /\ x = IF e.pinned[1] = 0 THEN NULL ELSE ids[e.pinned[1]]
                      /\ y = IF e.pinned[2] = 0 THEN NULL ELSE ids[e.pinned[2]]
      OBVIOUS
    <3>5. x \in Objects /\ InArray(x) /\ (y = NULL \/ (y \in Objects /\ InArray(y)))
      BY <1>6, <3>2, <3>3, <3>4
    <3>6. pinned'[t] = <<x, y>>
      BY <2>1, <2>7, <3>4
    <3>7. QED BY <1>7, <3>5, <3>6 DEF Tied
  <2>8. ~ InArray(t) /\ invisible \ {t} \subseteq invisible'
    BY <2>1 DEF InArray, Array
  <2>9. QED BY <2>1, <2>3, <2>4, <2>5, <2>6, <2>7, <2>8
<1>10. QED BY <1>8, <1>9

LEMMA LoadElementWorks ==
  ASSUME DInv, Sound, call \in Calls \cup {"none"}, Aim(call, was), LoadElement
  PROVE  Works
<1>0. Executes("load") /\ UNCHANGED <<slots, n_things, b2body, b2joint, bodies, joints>>
  BY DEF LoadElement, box2d
<1>1. /\ todo # <<>> /\ todo[1].op = "load" /\ 1 \in 1..Len(todo) /\ Len(todo) = 1
      /\ TypeOK /\ todo \in Seq(Stmt) /\ \A op, u : Due(op, u) => op = "load"
  BY <1>0, First, NowLoading DEF DInv, Order, TodoTyped
<1>2. Whole
  BY <1>1, NotShifting DEF DInv, Order, Freeing
<1>3. PICK u : u = todo[1].t
  OBVIOUS
<1>4. ASSUME UNCHANGED <<pinned, invisible>>, NEW s \in Seq(Stmt), Then(s),
             Len(s) = 0 \/ (Len(s) = 1 /\ s[1].op = "World::reset")
      PROVE  Works
  <2>1. Push(s)
    BY <1>0, <1>4, Called
  <2>2. Calling(s)
    BY <1>1 DEF Calling, Freeing, Making
  <2>3. ASSUME NEW k \in 1..Len(s) PROVE Relies(k)'
    <3>1. k = 1 /\ todo'[k].op = "World::reset" /\ Len(todo') = 1
      BY <1>1, <1>4, <2>1 DEF Push
    <3>2. NothingMade(k)'
      BY <3>1 DEF NothingMade
    <3>3. QED BY <3>1, <3>2
              DEF Relies, PinFreed, BodyFreed, BodyMade, JointMade, Coupled, Remade, RemovedLast,
                  PinMaking, Removing, Is
  <2>4. Stays("load", u, s)
    BY <1>0, <1>4, <2>3 DEF Stays, Adding
  <2>5. QED BY <1>0, <1>3, <1>4, <2>2, <2>4, StayWorks
<1>5. ASSUME NEW t \in Things, NEW s \in Seq(Stmt), NEW new,
             ~ InArray(t), invisible \ {t} \subseteq invisible', Then(s), Len(s) = 3,
             s[1].op = "add", s[1].t = t, s[2].op = "makePhysical", s[2].t = t, s[3].op = "load",
             \A p \in Pins : p # t => pinned'[p] = pinned[p],
             t \in Pins => /\ pinned'[t][1] \in Objects
                           /\ \A o \in Objects : o \in Tied(t)' => o \in bodies /\ InArray(o)
      PROVE  Works
  <2>0. t \notin joints /\ Objects \cap Pins = {}
    <3>1. t \notin Physical
      BY <1>2, <1>5 DEF Whole
    <3>2. ~ Next1("DestroyJoint", t) /\ ~ Next1("setb2Joint", t)
      BY <1>1 DEF Next1, Is
    <3>3. QED BY <3>1, <3>2, DrawAssumption DEF Physical, Sound, Drawings, JointsPointedTo
  <2>1. /\ Push(s) /\ Len(todo') = 3 /\ todo'[1] = s[1] /\ todo'[2] = s[2] /\ todo'[3] = s[3]
    BY <1>0, <1>1, <1>5, Called DEF Push
  <2>2. \A v : InArray(v)' <=> InArray(v)
    BY <1>0 DEF InArray
  <2>3. /\ \A p \in Pins : p # t => Tied(p)' = Tied(p) /\ (Holds(p)' <=> Holds(p))
        /\ \A p \in Pins : Tied(p) \subseteq Objects
    <3>1. \A p \in Pins : p # t => Tied(p)' = Tied(p)
      BY <1>5 DEF Tied
    <3>2. bodies' = bodies
      BY <1>0
    <3>3. \A p \in Pins : p # t => (Holds(p)' <=> Holds(p))
      BY <3>1, <3>2 DEF Holds
    <3>4. \A p \in Pins : pinned[p] \in (Objects \cup {NULL}) \X (Objects \cup {NULL})
      BY <1>1 DEF TypeOK
    <3>5. \A p \in Pins : Tied(p) \subseteq Objects
      BY <3>4 DEF Tied
    <3>6. QED BY <3>1, <3>3, <3>5
  <2>4. \A p \in Pins : \A o \in Tied(p) : InArray(o) /\ o # t
    BY <1>1, <1>5 DEF Sound, Drawings, TiedIn
  <2>5. TypeOK'
    BY LoadElementStep DEF DInv
  <2>6. \A p \in Pins : \A o \in Tied(p)' : o \in Objects /\ InArray(o)
    <3>1. \A p \in Pins : \A o \in Tied(p)' : o \in Objects
      BY <2>5 DEF TypeOK, Tied
    <3>2. QED BY <1>5, <2>3, <2>4, <3>1
  <2>7. PinnedShape'
    BY <1>5 DEF Sound, Drawings, PinnedShape
  <2>8. PinsIn'
    <3>1. SUFFICES ASSUME NEW p \in Pins, pinned'[p] # Unpinned PROVE InArray(p)' \/ AddNext(p)'
      BY DEF PinsIn
    <3>2. CASE p = t
      <4>1. Next1("add", p)'
        BY <1>5, <2>1, <3>2 DEF Next1, Is
      <4>2. QED BY <4>1 DEF AddNext, Adding
    <3>3. CASE p # t
      <4>1. InArray(p) \/ AddNext(p) \/ Due("n_things--", p)
        BY <1>5, <3>1, <3>3 DEF Sound, Drawings, PinsIn
      <4>2. QED BY <1>1, <2>2, <4>1 DEF AddNext, Adding, Next1, Is
    <3>4. QED BY <3>2, <3>3
  <2>9. TiedIn'
    BY <2>2, <2>6 DEF TiedIn
  <2>10. Precede'
    <3>1. SUFFICES ASSUME NEW i \in 0..n_things - 1, NEW j \in 0..n_things - 1,
                          NEW q \in Pins, q = slots[j], slots[i] \in Tied(q)'
                   PROVE  i < j
      BY <1>0 DEF Precede, Tied
    <3>2. q # t
      BY <1>5, <3>1 DEF InArray
    <3>3. QED BY <2>3, <3>1, <3>2 DEF Sound, Drawings, Precede
  <2>11. Shown'
    <3>1. SUFFICES ASSUME NEW p \in Pins, NEW o \in Tied(p)' PROVE o \in bodies' \cup invisible'
      BY DEF Shown
    <3>2. CASE p = t
      BY <1>0, <1>5, <2>6, <3>1, <3>2
    <3>3. CASE p # t
      <4>1. o \in Tied(p) /\ o # t
        BY <2>3, <2>4, <3>1, <3>3
      <4>2. o \in bodies \cup invisible
        BY <1>1, <4>1 DEF Sound, Drawings, Shown
      <4>3. QED BY <1>0, <1>5, <4>1, <4>2
    <3>4. QED BY <3>2, <3>3
  <2>12. Spare'
    BY <1>5, <2>1 DEF Spare, Next1, Is
  <2>13. JointsPointedTo'
    <3>1. SUFFICES ASSUME NEW q \in joints PROVE q \in b2joint
      BY <1>0 DEF JointsPointedTo
    <3>2. ~ Next1("DestroyJoint", q) /\ ~ Next1("setb2Joint", q)
      BY <1>1 DEF Next1, Is
    <3>3. QED BY <3>2 DEF Sound, Drawings, JointsPointedTo
  <2>14. JointsHold'
    <3>1. SUFFICES ASSUME NEW q \in Pins, ~ (q \in joints <=> Holds(q)') PROVE Excused(0, q)'
      BY <1>0 DEF JointsHold
    <3>2. CASE q = t
      <4>1. 2 \in 0 + 1..Len(todo') /\ Is(2, "makePhysical", q)'
        BY <1>5, <2>1, <3>2 DEF Is
      <4>2. Later(0, "makePhysical", q)'
        BY <4>1 DEF Later
      <4>3. QED BY <4>2 DEF Excused, PinMaking
    <3>3. CASE q # t
      <4>1. Excused(0, q)
        BY <2>3, <3>1, <3>3 DEF Sound, Drawings, JointsHold
      <4>2. QED BY <1>1, <4>1 DEF Excused, Due, PinMaking
    <3>4. QED BY <3>2, <3>3
  <2>15. Planned'
    <3>1. SUFFICES ASSUME NEW k \in 1..Len(todo') PROVE Relies(k)'
      BY DEF Planned
    <3>2. CASE k = 1 \/ k = 3
      BY <1>5, <2>1, <3>2, NothingRelied
    <3>3. CASE k = 2
      <4>1. todo'[2].op = "makePhysical" /\ todo'[2].t = t
        BY <1>5, <2>1
      <4>2. BodyMade(2)'
        <5>1. \A p \in Pins : \A o \in Objects : o \in Tied(p)' => o # t
          BY <1>5, <2>6
        <5>2. QED BY <4>1, <5>1 DEF BodyMade
      <4>3. JointMade(2)'
        <5>1. \A op \in PinMaking : ~ Later(2, op, t)'
          <6>1. SUFFICES ASSUME NEW op \in PinMaking, Later(2, op, t)' PROVE FALSE
            OBVIOUS
          <6>2. Is(3, op, t)'
            BY <2>1, <6>1 DEF Later, Is
          <6>3. QED BY <1>5, <2>1, <6>1, <6>2 DEF Is, PinMaking
        <5>2. QED BY <1>0, <2>0, <4>1, <5>1 DEF JointMade
      <4>4. QED BY <3>3, <4>1, <4>2, <4>3
                DEF Relies, PinFreed, BodyFreed, Coupled, Remade, NothingMade, RemovedLast,
                    Removing, Is
    <3>4. QED BY <2>1, <3>2, <3>3
  <2>16. Calling(s)
    BY <1>1 DEF Calling, Freeing, Making
  <2>17. Changing
    BY <1>0, <1>1 DEF Changing
  <2>18. QED BY <1>5, <2>7, <2>8, <2>9, <2>10, <2>11, <2>12, <2>13, <2>14, <2>15, <2>16, <2>17
             DEF Works, Sound, Drawings
<1>6. QED BY <1>4, <1>5, Loads

\* Whatever the next statement is, it does what those behind it rely on.
LEMMA StatementWorks ==
  ASSUME DInv, Sound, call \in Calls \cup {"none"}, Aim(call, was), Statement, ~ fault'
  PROVE  Works
<1>1. CASE AddThing \/ Longer \/ LoadElement
  BY <1>1, AddThingWorks, LongerWorks, LoadElementWorks
<1>2. CASE Remove \/ MoveUp \/ Shorter \/ RemovePins \/ Clear
  BY <1>2, RemoveWorks, MoveUpWorks, ShorterWorks, RemovePinsWorks, ClearWorks
<1>3. CASE Delete \/ ClearBody \/ SetBody \/ SetDrawing \/ StopSimulationMode
  BY <1>3, PlainStatementsWork
<1>4. CASE MakeUnphysical \/ ClearJoint \/ DestroyJoint \/ DestroyBody
  BY <1>4, MakeUnphysicalWorks, ClearJointWorks, DestroyJointWorks, DestroyBodyWorks
<1>5. CASE MakePhysical \/ CreateBody \/ Attach \/ CreateJoint \/ SetJoint
  BY <1>5, MakePhysicalWorks, CreateBodyWorks, AttachWorks, CreateJointWorks, SetJointWorks
<1>6. CASE Reset \/ NewWorld \/ Unhide \/ Hide
  BY <1>6, ResetWorks, NewWorldWorks, UnhideWorks, HideWorks
<1>7. QED BY <1>1, <1>2, <1>3, <1>4, <1>5, <1>6 DEF Statement

-----------------------------------------------------------------------------
(***************************************************************************)
(* What a call has done when it returns, and on the way there.             *)
(***************************************************************************)
LEMMA OnlyAfter ==
  ASSUME NEW s, Push(s), NEW O, OnlyOps(O), \A k \in 1..Len(s) : s[k].op \in O
  PROVE  OnlyOps(O)'
<1>1. SUFFICES ASSUME NEW k \in 1..Len(todo') PROVE todo'[k].op \in O
  BY DEF OnlyOps
<1>2. CASE k <= Len(s)
  BY <1>2, InFront
<1>3. CASE k > Len(s)
  <2>1. k + 1 - Len(s) \in 2..Len(todo) /\ todo'[k] = todo[k + 1 - Len(s)]
    BY <1>3, Behind
  <2>2. k + 1 - Len(s) \in 1..Len(todo)
    BY <2>1
  <2>3. QED BY <2>1, <2>2 DEF OnlyOps
<1>4. QED BY <1>2, <1>3, InFront

LEMMA AboutAfter ==
  ASSUME NEW s, Push(s), NEW T, OnlyAbout(T), \A k \in 1..Len(s) : s[k].t \in T
  PROVE  OnlyAbout(T)'
<1>1. SUFFICES ASSUME NEW k \in 1..Len(todo') PROVE todo'[k].t \in T
  BY DEF OnlyAbout
<1>2. CASE k <= Len(s)
  BY <1>2, InFront
<1>3. CASE k > Len(s)
  <2>1. k + 1 - Len(s) \in 2..Len(todo) /\ todo'[k] = todo[k + 1 - Len(s)]
    BY <1>3, Behind
  <2>2. k + 1 - Len(s) \in 1..Len(todo)
    BY <2>1
  <2>3. QED BY <2>1, <2>2 DEF OnlyAbout
<1>4. QED BY <1>2, <1>3, InFront

\* Where nothing is added or removed.
LEMMA SameThings ==
  ASSUME Changing, todo[1].op \notin Adding \cup {"moveUp", "n_things--", "load"}
  PROVE  /\ UNCHANGED <<slots, n_things, pinned>> /\ Array' = Array
         /\ (\A u : InArray(u)' <=> InArray(u)) /\ \A p \in Pins : Tied(p)' = Tied(p)
<1>1. UNCHANGED <<slots, n_things, pinned>>
  BY DEF Changing, Adding
<1>2. QED BY <1>1 DEF Array, InArray, Tied

LEMMA SameDrawingStays ==
  ASSUME Changing, todo[1].op \notin Adding \cup {"moveUp", "n_things--", "load"},
         NEW w, SameDrawing(w)
  PROVE  SameDrawing(w)'
<1>1. Array' = Array /\ \A p \in Pins : Tied(p)' = Tied(p)
  BY SameThings
<1>2. QED BY <1>1 DEF SameDrawing

LEMMA FinishGoesOn ==
  ASSUME NEW s, Push(s), Calling(s), Changing, NEW w, NEW o \in Objects, FinishAim(w, o)
  PROVE  FinishAim(w, o)'
<1>1. 1 \in 1..Len(todo)
  BY DEF Push
<1>2. todo[1].op \in Making /\ todo[1].t = o
  BY <1>1 DEF FinishAim, OnlyOps, OnlyAbout
<1>3. \A k \in 1..Len(s) : s[k].op \in Making /\ s[k].t \in {o}
  BY <1>2 DEF Calling
<1>4. OnlyOps(Making)' /\ OnlyAbout({o})'
  BY <1>3, OnlyAfter, AboutAfter DEF FinishAim
<1>5. todo[1].op \notin Adding \cup {"moveUp", "n_things--", "load"}
  BY <1>2 DEF Making, Adding
<1>6. SameDrawing(w)' /\ Array' = Array
  BY <1>5, SameDrawingStays, SameThings DEF FinishAim
<1>7. bodies' = bodies \/ bodies' = bodies \cup {o}
  BY <1>2 DEF Changing, Making
<1>8. (Away \ {o})' = Away \ {o}
  BY <1>6, <1>7 DEF Away
<1>9. QED BY <1>4, <1>6, <1>8 DEF FinishAim

LEMMA TieGoesOn ==
  ASSUME NEW s, Push(s), Calling(s), Changing, NEW w, NEW p \in Pins, TieAim(w, p)
  PROVE  TieAim(w, p)'
<1>1. 1 \in 1..Len(todo)
  BY DEF Push
<1>2. todo[1].op \in Making /\ todo[1].t = p /\ p \notin Objects
  BY <1>1, DrawAssumption DEF TieAim, OnlyOps, OnlyAbout
<1>3. \A k \in 1..Len(s) : s[k].op \in Making /\ s[k].t \in {p}
  BY <1>2 DEF Calling
<1>4. OnlyOps(Making)' /\ OnlyAbout({p})'
  BY <1>3, OnlyAfter, AboutAfter DEF TieAim
<1>5. todo[1].op \notin Adding \cup {"moveUp", "n_things--", "load"}
  BY <1>2 DEF Making, Adding
<1>6. Array' = Array /\ \A q \in Pins : Tied(q)' = Tied(q)
  BY <1>5, SameThings
<1>7. bodies' = bodies \/ bodies' = bodies \cup {p}
  BY <1>2 DEF Changing, Making
<1>8. Away' = Away
  BY <1>2, <1>6, <1>7 DEF Away
<1>9. QED BY <1>4, <1>6, <1>8 DEF TieAim

LEMMA MoveGoesOn ==
  ASSUME NEW s, Push(s), Calling(s), Changing, NEW w, MoveAim(w)
  PROVE  MoveAim(w)'
<1>1. 1 \in 1..Len(todo)
  BY DEF Push
<1>2. todo[1].op \in Freeing \cup Making /\ todo[1].t \in Pins
  BY <1>1 DEF MoveAim, OnlyOps, OnlyAbout
<1>3. \A k \in 1..Len(s) : s[k].op \in Freeing \cup Making /\ s[k].t \in Pins
  BY <1>2 DEF Calling
<1>4. OnlyOps(Freeing \cup Making)' /\ OnlyAbout(Pins)'
  <2>1. OnlyOps(Freeing \cup Making) /\ OnlyAbout(Pins)
    BY DEF MoveAim
  <2>2. PICK O : O = Freeing \cup Making
    OBVIOUS
  <2>3. OnlyOps(O)' /\ OnlyAbout(Pins)'
    BY <1>3, <2>1, <2>2, OnlyAfter, AboutAfter
  <2>4. QED BY <2>2, <2>3 DEF OnlyOps
<1>5. todo[1].op \notin Adding \cup {"moveUp", "n_things--", "load", "initPhysics"}
  BY <1>2 DEF Making, Adding, Freeing
<1>6. SameDrawing(w)' /\ Array' = Array
  BY <1>5, SameDrawingStays, SameThings DEF MoveAim
<1>7. bodies' \in {bodies, bodies \cup {todo[1].t}, bodies \ {todo[1].t}}
  BY <1>5 DEF Changing
<1>8. Away' = Away
  BY <1>2, <1>6, <1>7, DrawAssumption DEF Away
<1>9. QED BY <1>4, <1>6, <1>8 DEF MoveAim

LEMMA LeaveGoesOn ==
  ASSUME NEW s, Push(s), Calling(s), Changing, NEW w, LeaveAim(w)
  PROVE  LeaveAim(w)'
<1>1. 1 \in 1..Len(todo)
  BY DEF Push
<1>2. todo[1].op \in Freeing \cup {"hide"}
  BY <1>1 DEF LeaveAim, OnlyOps
<1>3. \A k \in 1..Len(s) : s[k].op \in Freeing \cup {"hide"}
  <2>1. CASE todo[1].op \in Freeing
    BY <2>1 DEF Calling
  <2>2. CASE todo[1].op = "hide"
    BY <2>2 DEF Calling, Freeing, Making
  <2>3. QED BY <1>2, <2>1, <2>2
<1>4. OnlyOps(Freeing \cup {"hide"})'
  <2>1. OnlyOps(Freeing \cup {"hide"})
    BY DEF LeaveAim
  <2>2. PICK O : O = Freeing \cup {"hide"}
    OBVIOUS
  <2>3. OnlyOps(O)'
    BY <1>3, <2>1, <2>2, OnlyAfter
  <2>4. QED BY <2>2, <2>3 DEF OnlyOps
<1>5. todo[1].op \notin Adding \cup {"moveUp", "n_things--", "load", "initPhysics", "CreateBody"}
  BY <1>2 DEF Adding, Freeing
<1>6. SameDrawing(w)' /\ Array' = Array
  BY <1>5, SameDrawingStays, SameThings DEF LeaveAim
<1>7. bodies' \subseteq bodies
  BY <1>5 DEF Changing
<1>8. Away \subseteq Away'
  BY <1>6, <1>7 DEF Away
<1>9. QED BY <1>4, <1>6, <1>8 DEF LeaveAim

LEMMA ResetCalling ==
  ASSUME NEW s, Calling(s), todo[1].op \in ResetOps
  PROVE  \A k \in 1..Len(s) : s[k].op \in ResetOps
<1>1. CASE todo[1].op \in Freeing
  BY <1>1 DEF Calling, ResetOps
<1>2. CASE todo[1].op \in Making
  BY <1>2 DEF Calling, ResetOps
<1>3. CASE todo[1].op = "World::reset"
  BY <1>3 DEF Calling
<1>4. CASE todo[1].op \in {"initPhysics", "reset", "disableDrawing", "enableDrawing", "stopSimulationMode"}
  BY <1>4 DEF Calling, Freeing, Making
<1>5. QED BY <1>1, <1>2, <1>3, <1>4 DEF ResetOps

LEMMA RestoreGoesOn ==
  ASSUME NEW s, Push(s), Calling(s), Changing, NEW w, RestoreAim(w)
  PROVE  RestoreAim(w)'
<1>1. 1 \in 1..Len(todo)
  BY DEF Push
<1>2. todo[1].op \in ResetOps
  BY <1>1 DEF RestoreAim, OnlyOps
<1>3. OnlyOps(ResetOps)'
  BY <1>2, ResetCalling, OnlyAfter DEF RestoreAim
<1>4. todo[1].op \notin Adding \cup {"moveUp", "n_things--", "load"}
  BY <1>2 DEF Adding, ResetOps, Freeing, Making
<1>5. QED BY <1>3, <1>4, SameDrawingStays DEF RestoreAim

\* A drawing with the thing that was begun, or without it if there was no room.
Drawn(w) ==
  /\ \A p \in Pins : w.tied[p] = Tied(p)
  /\ \/ w.drawn = Array /\ w.away = Away
     \/ \E t \in Things : /\ t \notin w.drawn /\ Array = w.drawn \cup {t}
                          /\ Away = w.away \cup ({t} \cap Objects)

LEMMA DrawGoesOn ==
  ASSUME DInv, NEW s, Push(s), Calling(s), Changing, NEW w, DrawAim(w)
  PROVE  (Len(todo') # 0 => DrawAim(w)') /\ (Len(todo') = 0 => Drawn(w)')
<1>1. /\ 1 \in 1..Len(todo) /\ todo # <<>> /\ Len(todo) = 1 /\ todo[1].op \in Adding
      /\ Len(todo') = Len(s) /\ (\A k \in 1..Len(s) : todo'[k] = s[k]) /\ Len(s) \in Nat
  BY DEF DrawAim, Push
<1>2. PICK t \in Things : t = todo[1].t /\ ~ InArray(t)
  BY <1>1, WhileAdding
<1>3. /\ \A p \in Pins : Tied(p)' = Tied(p)
      /\ bodies' = bodies /\ pinned' = pinned
  BY <1>1 DEF Changing, Tied, Adding
<1>4. CASE todo[1].op = "add"
  <2>1. Array' = Array /\ Away' = Away /\ SameDrawing(w)'
    BY <1>3, <1>4 DEF Changing, Away, SameDrawing, DrawAim
  <2>2. CASE Len(s) = 0
    BY <1>1, <1>3, <2>1, <2>2 DEF Drawn, DrawAim, SameDrawing
  <2>3. CASE Len(s) # 0
    <3>1. Len(s) = 1 /\ s[1].op = "n_things++" /\ s[1].t = t
      BY <1>2, <1>4, <2>3 DEF Calling
    <3>2. Len(todo') = 1 /\ todo'[1].op = "n_things++" /\ todo'[1].t = t /\ 1 \in 1..Len(todo')
      BY <1>1, <3>1
    <3>3. \A p \in Pins : AddNext(p)' => AddNext(p)
      BY <1>1, <1>2, <1>4, <3>2 DEF AddNext, Next1, Is, Adding
    <3>4. DrawAim(w)'
      BY <1>3, <2>1, <3>2, <3>3 DEF DrawAim, Adding
    <3>5. QED BY <3>2, <3>4
  <2>4. QED BY <2>2, <2>3
<1>5. CASE todo[1].op = "n_things++"
  <2>1. Len(s) = 0
    BY <1>5 DEF Calling, Freeing, Making
  <2>2. Array' = Array \cup {t}
    BY <1>2, <1>5 DEF Changing
  <2>3. t \notin Array
    BY <1>2 DEF InArray, Array
  <2>4. t \notin Objects \/ t \notin bodies
    <3>1. t \notin Physical
      BY <1>1, <1>2, WhileAdding DEF Whole
    <3>2. t \in Objects => (t \in b2body <=> t \in bodies)
      BY <1>5, BodiesAgree
    <3>3. QED BY <3>1, <3>2 DEF Physical
  <2>5. Away' = Away \cup ({t} \cap Objects)
    BY <1>3, <2>2, <2>4 DEF Away
  <2>6. Drawn(w)'
    BY <1>2, <1>3, <2>2, <2>3, <2>5 DEF Drawn, DrawAim, SameDrawing
  <2>7. QED BY <1>1, <2>1, <2>6
<1>6. QED BY <1>1, <1>4, <1>5 DEF Adding

\* The thing is gone, and the pins through it.
Erased(w, t) ==
  /\ t \in w.drawn /\ Array = w.drawn \ Taken(w, t) /\ Away = w.away \ Taken(w, t)
  /\ \A p \in Pins : Tied(p) = IF p \in Taken(w, t) THEN {} ELSE w.tied[p]

LEMMA EraseCalls ==
  ASSUME DInv, NEW s, Push(s), Calling(s), NEW w, NEW t \in Things, EraseAim(w, t)
  PROVE  \A k \in 1..Len(s) :
           /\ s[k].op \in Freeing \cup (Removing \ {"clear"})
           /\ s[k].op \in {"remove", "n_things--", "removePins"} => s[k].t \in Taken(w, t)
           /\ s[k].op \in Freeing => s[k].t \in Taken(w, t) \cup Pins
<1>1. 1 \in 1..Len(todo)
  BY DEF Push
<1>2. /\ todo[1].op \in Freeing \cup (Removing \ {"clear"}) \cup {"delete"}
      /\ todo[1].op \in {"remove", "n_things--", "removePins"} => todo[1].t \in Taken(w, t)
      /\ todo[1].op \in Freeing => todo[1].t \in Taken(w, t) \cup Pins
  BY <1>1 DEF EraseAim, OnlyOps
<1>3. CASE todo[1].op \in Freeing
  <2>1. \A k \in 1..Len(s) : s[k].op \in Freeing /\ (s[k].t = todo[1].t \/ s[k].t \in Pins)
    BY <1>3 DEF Calling
  <2>2. QED BY <1>2, <1>3, <2>1 DEF Freeing
<1>4. CASE todo[1].op = "remove"
  <2>1. \A k \in 1..Len(s) :
          \/ s[k].op = "moveUp"
          \/ s[k].op \in {"makeUnphysical", "n_things--", "removePins"} /\ s[k].t = todo[1].t
    BY <1>4 DEF Calling
  <2>2. QED BY <1>2, <1>4, <2>1 DEF Freeing, Removing
<1>5. CASE todo[1].op = "removePins"
  <2>1. \A k \in 1..Len(s) :
          \/ s[k].op = "removePins" /\ s[k].t = todo[1].t
          \/ s[k].op = "remove" /\ \E p \in Pins : s[k].t = p /\ todo[1].t \in Tied(p)
    BY <1>5 DEF Calling
  <2>2. ASSUME NEW p \in Pins, todo[1].t \in Tied(p) PROVE p \in Taken(w, t)
    <3>1. Tied(p) = w.tied[p]
      BY <2>2 DEF EraseAim
    <3>2. todo[1].t \in Objects
      BY <2>2 DEF DInv, TypeOK, Tied
    <3>3. todo[1].t = t
      BY <1>2, <1>5, <3>2, DrawAssumption DEF Taken
    <3>4. QED BY <2>2, <3>1, <3>3 DEF Taken
  <2>3. QED BY <1>2, <1>5, <2>1, <2>2 DEF Freeing, Removing
<1>6. CASE todo[1].op \in {"moveUp", "n_things--", "delete"}
  <2>1. Len(s) = 0
    BY <1>6 DEF Calling, Freeing, Making
  <2>2. QED BY <2>1
<1>7. QED BY <1>2, <1>3, <1>4, <1>5, <1>6 DEF Removing

LEMMA EraseGoesOn ==
  ASSUME DInv, NEW s, Push(s), Calling(s), Changing, NEW w, NEW t \in Things, EraseAim(w, t),
         Len(todo') # 0
  PROVE  EraseAim(w, t)'
<1>1. 1 \in 1..Len(todo) /\ Len(todo) \in Nat \ {0} /\ Len(s) \in Nat
      /\ Len(todo') = Len(s) + Len(todo) - 1
  BY DEF Push
<1>2. /\ todo[1].op \in Freeing \cup (Removing \ {"clear"}) \cup {"delete"}
      /\ todo[1].op \in {"remove", "n_things--", "removePins"} => todo[1].t \in Taken(w, t)
      /\ todo[1].op \in Freeing => todo[1].t \in Taken(w, t) \cup Pins
      /\ todo[Len(todo)].op = "delete"
  BY <1>1 DEF EraseAim, OnlyOps
<1>3. \A k \in 1..Len(s) :
        /\ s[k].op \in Freeing \cup (Removing \ {"clear"})
        /\ s[k].op \in {"remove", "n_things--", "removePins"} => s[k].t \in Taken(w, t)
        /\ s[k].op \in Freeing => s[k].t \in Taken(w, t) \cup Pins
  BY EraseCalls
<1>4. Len(todo') # 0 /\ todo'[Len(todo')].op = "delete" /\ todo'[Len(todo')].t = t
  <2>1. Len(todo) # 1
    <3>1. SUFFICES ASSUME Len(todo) = 1 PROVE FALSE
      OBVIOUS
    <3>2. todo[1].op = "delete" /\ Len(s) # 0
      BY <1>1, <1>2, <3>1
    <3>3. QED BY <3>2 DEF Calling, Freeing, Making
  <2>2. Len(todo) \in 2..Len(todo) /\ Len(todo) - 1 + Len(s) = Len(todo')
    <3>1. PICK n, m, k : n = Len(todo) /\ m = Len(s) /\ k = Len(todo')
      OBVIOUS
    <3>2. n \in Nat /\ n # 0 /\ n # 1 /\ m \in Nat /\ k = m + n - 1
      BY <1>1, <2>1, <3>1
    <3>3. n \in 2..n /\ n - 1 + m = k
      BY <3>2
    <3>4. QED BY <3>1, <3>3
  <2>3. todo'[Len(todo')] = todo[Len(todo)]
    BY <2>2 DEF Push
  <2>4. QED BY <2>3 DEF EraseAim
<1>5. OnlyOps(Freeing \cup (Removing \ {"clear"}) \cup {"delete"})'
  <2>1. OnlyOps(Freeing \cup (Removing \ {"clear"}) \cup {"delete"})
    BY DEF EraseAim
  <2>2. PICK O : O = Freeing \cup (Removing \ {"clear"}) \cup {"delete"}
    OBVIOUS
  <2>3. OnlyOps(O)'
    BY <1>3, <2>1, <2>2, OnlyAfter
  <2>4. QED BY <2>2, <2>3 DEF OnlyOps
<1>6. ASSUME NEW k \in 1..Len(todo')
      PROVE  /\ todo'[k].op \in {"remove", "n_things--", "removePins"} => todo'[k].t \in Taken(w, t)
             /\ todo'[k].op \in Freeing => todo'[k].t \in Taken(w, t) \cup Pins
  <2>1. CASE k <= Len(s)
    BY <1>3, <2>1, InFront
  <2>2. CASE k > Len(s)
    <3>1. k + 1 - Len(s) \in 2..Len(todo) /\ todo'[k] = todo[k + 1 - Len(s)]
      BY <2>2, Behind
    <3>2. k + 1 - Len(s) \in 1..Len(todo)
      BY <3>1
    <3>3. QED BY <3>1, <3>2 DEF EraseAim
  <2>3. QED BY <2>1, <2>2, InFront
<1>7. ASSUME NEW u \in Things
      PROVE  /\ InArray(u)' => InArray(u)
             /\ u \in w.drawn \ Taken(w, t) => InArray(u)'
  <2>1. u \in w.drawn \ Taken(w, t) => InArray(u)
    BY DEF EraseAim
  <2>2. CASE todo[1].op = "moveUp"
    <3>1. Due("n_things--", u) => u \in Taken(w, t)
      BY DEF EraseAim, Due, Later, Is
    <3>2. QED BY <2>1, <2>2, <3>1 DEF Changing
  <2>3. CASE todo[1].op = "n_things--"
    BY <2>1, <2>3 DEF Changing
  <2>4. CASE todo[1].op \notin {"moveUp", "n_things--"}
    <3>1. todo[1].op \notin Adding \cup {"moveUp", "n_things--", "load"}
      BY <1>2, <2>4 DEF Adding, Freeing, Removing
    <3>2. InArray(u)' <=> InArray(u)
      BY <3>1, SameThings
    <3>3. QED BY <2>1, <3>2
  <2>5. QED BY <2>2, <2>3, <2>4
<1>8. ASSUME NEW p \in Pins
      PROVE  Tied(p)' = w.tied[p] \/ (p \in Taken(w, t) /\ Tied(p)' = {} /\ ~ InArray(p)')
  <2>0. p \in Things /\ (Tied(p) = w.tied[p] \/ (p \in Taken(w, t) /\ Tied(p) = {} /\ ~ InArray(p)))
    BY DEF EraseAim, Things
  <2>1. CASE todo[1].op = "n_things--"
    <3>1. Tied(p)' = IF p = todo[1].t THEN {} ELSE Tied(p)
      BY <2>1 DEF Changing
    <3>2. CASE p = todo[1].t
      <4>1. Next1("n_things--", p)
        BY <1>1, <2>1, <3>2 DEF Next1, Is
      <4>2. ~ InArray(p)'
        BY <2>0, <2>1, <4>1 DEF Changing
      <4>3. QED BY <1>2, <2>1, <3>1, <3>2, <4>2
    <3>3. QED BY <1>7, <2>0, <3>1, <3>2
  <2>2. CASE todo[1].op # "n_things--"
    <3>1. pinned' = pinned
      BY <1>2, <2>2 DEF Changing, Freeing, Removing
    <3>2. Tied(p)' = Tied(p)
      BY <3>1 DEF Tied
    <3>3. QED BY <1>7, <2>0, <3>2
  <2>3. QED BY <2>1, <2>2
<1>9. ASSUME NEW o \in (Objects \cap w.drawn) \ {t} PROVE o \in bodies' <=> o \notin w.away
  <2>1. o \in bodies <=> o \notin w.away
    BY DEF EraseAim
  <2>2. bodies' = bodies \/ (todo[1].op = "DestroyBody" /\ bodies' = bodies \ {todo[1].t})
    BY <1>2 DEF Changing, Freeing, Removing
  <2>3. todo[1].op = "DestroyBody" => todo[1].t # o
    BY <1>2, DrawAssumption DEF Freeing, Taken
  <2>4. QED BY <2>1, <2>2, <2>3
<1>10. QED BY <1>4, <1>5, <1>6, <1>7, <1>8, <1>9 DEF EraseAim

LEMMA EraseEnds ==
  ASSUME DInv, Drawings, NEW s, Push(s), Calling(s), Changing, NEW w, NEW t \in Things,
         EraseAim(w, t), Len(todo') = 0, w.drawn \subseteq Things
  PROVE  Erased(w, t)'
<1>1. Len(todo) = 1 /\ 1 \in 1..Len(todo) /\ todo[1].op = "delete" /\ todo[1].t = t
  <2>1. Len(todo) \in Nat \ {0} /\ Len(s) \in Nat /\ Len(todo') = Len(s) + Len(todo) - 1
    BY DEF Push
  <2>2. PICK m \in Nat \ {0}, n \in Nat : m = Len(todo) /\ n = Len(s) /\ n + m - 1 = 0
    BY <2>1
  <2>3. m = 1
    BY <2>2
  <2>4. QED BY <2>2, <2>3 DEF EraseAim
<1>2. \A op, u : Due(op, u) => op = "delete"
  BY <1>1 DEF Due, Later, Is
<1>3. ~ InArray(t)
  BY <1>1 DEF DInv, Order, InOrder, GoneBefore, Is
<1>4. /\ Array' = Array /\ bodies' = bodies
      /\ (\A u : InArray(u)' <=> InArray(u)) /\ \A p \in Pins : Tied(p)' = Tied(p)
  <2>1. todo[1].op \notin Adding \cup {"moveUp", "n_things--", "load"}
    BY <1>1 DEF Adding
  <2>2. QED BY <1>1, <2>1, SameThings DEF Changing
<1>5. ASSUME NEW p \in Pins
      PROVE  /\ Tied(p) = IF p \in Taken(w, t) THEN {} ELSE w.tied[p]
             /\ p \in Taken(w, t) => ~ InArray(p)
  <2>1. Tied(p) = w.tied[p] \/ (p \in Taken(w, t) /\ Tied(p) = {} /\ ~ InArray(p))
    BY DEF EraseAim
  <2>2. CASE p = t
    <3>1. pinned[p] = Unpinned
      BY <1>1, <1>2, <1>3, <2>2 DEF Drawings, PinsIn, AddNext, Adding, Next1, Is
    <3>2. Tied(p) = {}
      BY <3>1 DEF Tied, Unpinned
    <3>3. QED BY <1>3, <2>2, <3>2 DEF Taken
  <2>3. CASE t \in w.tied[p]
    <3>1. t \notin Tied(p)
      BY <1>2, <1>3 DEF Drawings, TiedIn
    <3>2. QED BY <2>1, <2>3, <3>1 DEF Taken
  <2>4. CASE p # t /\ t \notin w.tied[p]
    BY <2>1, <2>4 DEF Taken
  <2>5. QED BY <2>2, <2>3, <2>4
<1>6. Array = w.drawn \ Taken(w, t)
  <2>1. \A u : u \in Array => u \in w.drawn \ Taken(w, t)
    <3>1. TAKE u
    <3>2. HAVE u \in Array
    <3>3. Whole
      <4>1. todo # <<>> /\ todo \in Seq(Stmt)
        BY <1>1 DEF DInv, Order, TodoTyped, Push
      <4>2. QED BY <1>1, <4>1, NotShifting DEF DInv, Order, Freeing
    <3>4. u \in Things /\ InArray(u)
      BY <3>2, <3>3 DEF Whole, Array, InArray
    <3>5. u \in w.drawn
      BY <3>4 DEF EraseAim
    <3>6. u \notin Taken(w, t)
      BY <1>3, <1>5, <3>4 DEF Taken
    <3>7. QED BY <3>5, <3>6
  <2>2. \A u : u \in w.drawn \ Taken(w, t) => u \in Array
    BY InTheArray DEF EraseAim
  <2>3. QED BY <2>1, <2>2
<1>7. Away = w.away \ Taken(w, t)
  <2>1. \A o \in (Objects \cap w.drawn) \ {t} : o \in bodies <=> o \notin w.away
    BY DEF EraseAim
  <2>2. t \in Taken(w, t) /\ w.away \subseteq w.drawn \cap Objects
    BY DEF Taken, EraseAim
  <2>3. QED BY <1>6, <2>1, <2>2 DEF Away
<1>8. Away' = Away
  BY <1>4 DEF Away
<1>9. QED BY <1>4, <1>5, <1>6, <1>7, <1>8 DEF Erased, EraseAim

LEMMA ClearGoesOn ==
  ASSUME NEW s, Push(s), Calling(s), Changing, NEW op, ClearAim(op)
  PROVE  \/ ClearAim(op)'
         \/ /\ Len(todo) = 2 /\ todo[1].op = "clear" /\ todo[2].op = op
            /\ n_things = 0 /\ n_things' = 0
            /\ Len(todo') = 1 /\ todo'[1] = todo[2]
<1>1. PICK m \in Nat \ {0}, n \in Nat : m = Len(todo) /\ n = Len(s)
  BY DEF Push
<1>2. m > 1 /\ Len(todo') = n + m - 1 /\ todo[m - 1].op = "clear" /\ todo[m].op = op
  BY <1>1 DEF ClearAim, Push
<1>3. CASE m > 2
  <2>1. m \in 2..m /\ m - 1 \in 2..m /\ m - 1 + n = n + m - 1 /\ m - 1 - 1 + n = n + m - 1 - 1
    BY <1>3
  <2>2. todo'[m - 1 + n] = todo[m] /\ todo'[m - 1 - 1 + n] = todo[m - 1]
    BY <1>1, <2>1 DEF Push
  <2>3. todo'[n + m - 1] = todo[m] /\ todo'[n + m - 1 - 1] = todo[m - 1] /\ n + m - 1 > 1
    BY <1>3, <2>1, <2>2
  <2>4. QED BY <1>2, <2>3 DEF ClearAim
<1>4. CASE m = 2
  <2>1. todo[1].op = "clear" /\ todo[2].op = op /\ n_things' = n_things /\ Len(todo') = n + 1
    BY <1>2, <1>4 DEF Changing
  <2>2. todo'[n + 1] = todo[2]
    <3>1. 2 \in 2..m /\ 2 - 1 + n = n + 1
      BY <1>4
    <3>2. todo'[2 - 1 + n] = todo[2]
      BY <1>1, <3>1 DEF Push
    <3>3. QED BY <3>1, <3>2
  <2>3. CASE n = 0
    <3>1. n_things = 0
      BY <1>1, <2>1, <2>3 DEF Calling
    <3>2. QED BY <1>1, <1>4, <2>1, <2>2, <2>3, <3>1
  <2>4. CASE n # 0
    <3>1. n \in 1..n /\ s[n].op = "clear" /\ n + 1 - 1 = n /\ n + 1 > 1
      BY <1>1, <2>1, <2>4 DEF Calling
    <3>2. todo'[n] = s[n]
      BY <1>1, <3>1 DEF Push
    <3>3. QED BY <2>1, <2>2, <3>1, <3>2 DEF ClearAim
  <2>5. QED BY <2>3, <2>4
<1>5. QED BY <1>2, <1>3, <1>4

LEMMA ZapGoesOn ==
  ASSUME NEW s, Push(s), Calling(s), Changing, ZapAim
  PROVE  (Len(todo') # 0 => ZapAim') /\ (Len(todo') = 0 => n_things' = 0)
<1>1. PICK op : op = "enableDrawing"
  OBVIOUS
<1>2. CASE ClearAim(op)
  <2>1. CASE ClearAim(op)'
    <3>1. Len(todo') # 0
      BY <2>1 DEF ClearAim
    <3>2. QED BY <1>1, <2>1, <3>1 DEF ZapAim
  <2>2. CASE n_things' = 0 /\ Len(todo') = 1 /\ todo'[1] = todo[2] /\ todo[2].op = op
    BY <1>1, <2>2 DEF ZapAim
  <2>3. QED BY <1>2, <2>1, <2>2, ClearGoesOn
<1>3. CASE n_things = 0 /\ Len(todo) = 1 /\ todo[1].op = "enableDrawing"
  <2>1. Len(s) = 0
    BY <1>3 DEF Calling, Freeing, Making
  <2>2. n_things' = 0 /\ Len(todo') = 0
    BY <1>3, <2>1 DEF Changing, Push
  <2>3. QED BY <2>2
<1>4. QED BY <1>1, <1>2, <1>3 DEF ZapAim

\* The clearing loop of load is done.
LEMMA LoadBegins ==
  ASSUME DInv, Len(todo) = 2, todo[1].op = "clear", todo[2].op = "load", n_things = 0,
         n_things' = 0, Len(todo') = 1, todo'[1] = todo[2]
  PROVE  LoadAim'
<1>1. 2 \in 1..Len(todo) /\ 1 \in 1..Len(todo)
  OBVIOUS
<1>2. Len(todo[2].t.ids) = 0
  <2>1. LoadsNext(2)
    BY <1>1 DEF DInv, Order, InOrder
  <2>2. CASE todo[2].t.ids = <<>>
    BY <2>2
  <2>3. QED BY <2>1, <2>2 DEF LoadsNext, Adding
<1>3. \A t : ~ InArray(t)' /\ ~ AddNext(t)'
  BY DEF InArray, AddNext, Adding, Next1, Is
<1>4. \A i : i \notin 1..Len(todo[2].t.ids)
  BY <1>2
<1>5. OnlyOps(Adding \cup ResetOps \cup {"load"})'
  BY DEF OnlyOps
<1>6. \A k \in 1..Len(todo') : todo'[k] = todo[2]
  OBVIOUS
<1>7. QED BY <1>3, <1>4, <1>5, <1>6 DEF LoadAim, Adding

\* What a load makes of an element is going to have a body, or to be put through things.
LEMMA LoadElementGoesOn ==
  ASSUME DInv, call \in Calls \cup {"none"}, Aim(call, was), LoadElement
  PROVE  LoadAim'
<1>1. /\ todo # <<>> /\ todo[1].op = "load" /\ 1 \in 1..Len(todo)
      /\ UNCHANGED <<slots, n_things, bodies>>
  BY First DEF LoadElement, box2d
<1>2. LoadAim /\ Len(todo) = 1 /\ \A op, u : Due(op, u) => op = "load"
  BY <1>1, NowLoading
<1>3. \A t : (InArray(t)' <=> InArray(t)) /\ ~ AddNext(t)
  BY <1>1 DEF InArray, AddNext, Adding, Next1, Is
<1>4. /\ \A o \in Objects : InArray(o) => o \in bodies
      /\ \A p \in Pins : InArray(p) => Tied(p) # {}
  BY <1>2 DEF LoadAim
<1>5. CASE /\ UNCHANGED <<pinned, invisible>>
           /\ \E s \in Seq(Stmt) :
                Then(s) /\ (Len(s) = 0 \/ (Len(s) = 1 /\ s[1].op = "World::reset"))
  <2>1. PICK s \in Seq(Stmt) : Then(s) /\ (Len(s) = 0 \/ (Len(s) = 1 /\ s[1].op = "World::reset"))
    BY <1>5
  <2>2. Push(s)
    BY <1>1, <2>1, Pushed
  <2>3. \A k \in 1..Len(todo') : k = 1 /\ todo'[k].op = "World::reset"
    BY <1>2, <2>1, <2>2 DEF Push
  <2>4. OnlyOps(Adding \cup ResetOps \cup {"load"})' /\ \A t : ~ AddNext(t)'
    BY <2>3 DEF OnlyOps, ResetOps, AddNext, Adding, Next1, Is
  <2>5. \A p \in Pins : Tied(p)' = Tied(p)
    BY <1>5, SameTied
  <2>6. Len(todo') = 1 => todo'[1].op \notin Adding
    BY <2>3 DEF Adding
  <2>7. QED BY <1>1, <1>3, <1>4, <2>3, <2>4, <2>5, <2>6 DEF LoadAim
<1>6. CASE \E t \in Things, s \in Seq(Stmt), new \in Seq(Things) :
             /\ ~ InArray(t) /\ invisible \ {t} \subseteq invisible'
             /\ Then(s) /\ Len(s) = 3
             /\ s[1].op = "add" /\ s[1].t = t /\ s[2].op = "makePhysical" /\ s[2].t = t
             /\ s[3].op = "load" /\ s[3].t.ids = new
             /\ \A i \in 1..Len(new) : new[i] = t \/ InArray(new[i])
             /\ \A p \in Pins : p # t => pinned'[p] = pinned[p]
             /\ t \in Pins => /\ pinned'[t][1] \in Objects
                              /\ \A o \in Objects : o \in Tied(t)' => o \in bodies /\ InArray(o)
  <2>1. PICK t \in Things, s \in Seq(Stmt), new \in Seq(Things) :
             /\ ~ InArray(t) /\ Then(s) /\ Len(s) = 3
             /\ s[1].op = "add" /\ s[1].t = t /\ s[2].op = "makePhysical" /\ s[2].t = t
             /\ s[3].op = "load" /\ s[3].t.ids = new
             /\ \A i \in 1..Len(new) : new[i] = t \/ InArray(new[i])
             /\ \A p \in Pins : p # t => pinned'[p] = pinned[p]
             /\ t \in Pins => pinned'[t][1] \in Objects
    BY <1>6
  <2>2. Push(s)
    BY <1>1, <2>1, Pushed
  <2>3. Len(todo') = 3 /\ todo'[1] = s[1] /\ todo'[2] = s[2] /\ todo'[3] = s[3]
    BY <1>2, <2>1, <2>2 DEF Push
  <2>4. \A k \in 1..Len(todo') : k = 1 \/ k = 2 \/ k = 3
    BY <2>3
  <2>5. \A u : AddNext(u)' <=> u = t
    BY <2>1, <2>3 DEF AddNext, Adding, Next1, Is
  <2>6. Due("makePhysical", t)'
    BY <2>1, <2>3 DEF Due, Later, Is
  <2>7. OnlyOps(Adding \cup ResetOps \cup {"load"})'
    BY <2>1, <2>3, <2>4 DEF OnlyOps, ResetOps, Making, Adding
  <2>8. ASSUME NEW p \in Pins, InArray(p)' \/ AddNext(p)' PROVE Tied(p)' # {}
    <3>1. CASE p = t
      BY <2>1, <3>1, DrawAssumption DEF Tied, Things
    <3>2. CASE p # t
      <4>1. pinned'[p] = pinned[p] /\ Tied(p) # {}
        BY <1>3, <1>4, <2>1, <2>5, <2>8, <3>2
      <4>2. QED BY <4>1 DEF Tied
    <3>3. QED BY <3>1, <3>2
  <2>9. ASSUME NEW k \in 1..Len(todo'), todo'[k].op = "load", NEW i \in 1..Len(todo'[k].t.ids),
               NEW u \in Things, todo'[k].t.ids[i] = u
        PROVE  InArray(u)' \/ AddNext(u)'
    <3>1. todo'[k].t.ids = new
      BY <2>1, <2>3, <2>4, <2>9
    <3>2. u = t \/ InArray(u)
      BY <2>1, <2>9, <3>1
    <3>3. QED BY <1>3, <2>5, <3>2
  <2>10. QED BY <1>1, <1>3, <1>4, <2>3, <2>5, <2>6, <2>7, <2>8, <2>9 DEF LoadAim
<1>7. QED BY <1>5, <1>6, Loads

\* What makePhysical does to an object, and that other statements do it not.
LEMMA MakesBodies ==
  ASSUME DInv, Statement, todo[1].op = "makePhysical", NEW o \in Objects, todo[1].t = o
  PROVE  o \in bodies' \/ Due("CreateBody", o)'
<1>1. MakePhysical
  <2>1. \A op : Executes(op) => op = "makePhysical"
    BY First
  <2>2. ~ AddThing /\ ~ Longer /\ ~ Remove /\ ~ MoveUp /\ ~ Shorter /\ ~ RemovePins /\ ~ Delete
        /\ ~ Clear /\ ~ Reset /\ ~ NewWorld /\ ~ Unhide /\ ~ Hide /\ ~ SetDrawing
    BY <2>1 DEF AddThing, Longer, Remove, MoveUp, Shorter, RemovePins, Delete, Clear, Reset,
                NewWorld, Unhide, Hide, SetDrawing
  <2>3. ~ StopSimulationMode /\ ~ LoadElement /\ ~ MakeUnphysical /\ ~ ClearJoint
        /\ ~ DestroyJoint /\ ~ ClearBody /\ ~ DestroyBody /\ ~ CreateBody /\ ~ SetBody
        /\ ~ Attach /\ ~ CreateJoint /\ ~ SetJoint
    BY <2>1 DEF StopSimulationMode, LoadElement, MakeUnphysical, ClearJoint, DestroyJoint,
                ClearBody, DestroyBody, CreateBody, SetBody, Attach, CreateJoint, SetJoint
  <2>4. QED BY <2>2, <2>3 DEF Statement
<1>2. /\ todo # <<>> /\ This = o /\ o \notin Pins /\ bodies' = bodies
  BY <1>1, First, DrawAssumption DEF MakePhysical, box2d
<1>3. CASE o \in b2body
  <2>1. todo[1].op \notin {"setb2Body(0)", "setb2Body"}
    OBVIOUS
  <2>2. QED BY <1>2, <1>3, <2>1, BodiesAgree
<1>4. CASE o \notin b2body
  <2>1. PICK a, b : a = Do("CreateBody", o) /\ b = Do("setb2Body", o)
    OBVIOUS
  <2>2. a \in Stmt /\ a.op = "CreateBody" /\ a.t = o /\ b \in Stmt
    BY <2>1, DoOnObject DEF OnObject
  <2>3. PICK s : s = <<a, b>>
    OBVIOUS
  <2>4. s \in Seq(Stmt) /\ Len(s) = 2 /\ s[1] = a
    BY <2>2, <2>3, Seq2
  <2>5. Then(s)
    BY <1>1, <1>2, <1>4, <2>1, <2>3 DEF MakePhysical
  <2>6. Push(s)
    BY <1>2, <2>4, <2>5, Pushed
  <2>7. \E j \in 1..Len(s) : s[j].op = "CreateBody" /\ s[j].t = o
    BY <2>2, <2>4
  <2>8. QED BY <2>6, <2>7, CalledLater DEF Due
<1>5. QED BY <1>3, <1>4

LEMMA LoadsAlone ==
  ASSUME DInv, Statement, todo[1].op = "load"
  PROVE  LoadElement
<1>1. \A op : Executes(op) => op = "load"
  BY First
<1>2. ~ AddThing /\ ~ Longer /\ ~ Remove /\ ~ MoveUp /\ ~ Shorter /\ ~ RemovePins /\ ~ Delete
      /\ ~ Clear /\ ~ Reset /\ ~ NewWorld /\ ~ Unhide /\ ~ Hide /\ ~ SetDrawing
  BY <1>1 DEF AddThing, Longer, Remove, MoveUp, Shorter, RemovePins, Delete, Clear, Reset,
              NewWorld, Unhide, Hide, SetDrawing
<1>3. ~ StopSimulationMode /\ ~ MakePhysical /\ ~ MakeUnphysical /\ ~ ClearJoint
      /\ ~ DestroyJoint /\ ~ ClearBody /\ ~ DestroyBody /\ ~ CreateBody /\ ~ SetBody
      /\ ~ Attach /\ ~ CreateJoint /\ ~ SetJoint
  BY <1>1 DEF StopSimulationMode, MakePhysical, MakeUnphysical, ClearJoint, DestroyJoint,
              ClearBody, DestroyBody, CreateBody, SetBody, Attach, CreateJoint, SetJoint
<1>4. QED BY <1>2, <1>3 DEF Statement

\* Between two elements a load adds, makes physical, and at the end resets.
LEMMA LoadGoesOn ==
  ASSUME DInv, Sound, NEW s, Push(s), Calling(s), Changing, LoadAim, todo[1].op # "load",
         \A o \in Objects : Next1("makePhysical", o) => o \in bodies' \/ Due("CreateBody", o)'
  PROVE  LoadAim'
<1>1. 1 \in 1..Len(todo) /\ todo # <<>> /\ Len(todo) \in Nat \ {0} /\ Len(s) \in Nat
      /\ Len(todo') = Len(s) + Len(todo) - 1 /\ (\A k \in 1..Len(s) : todo'[k] = s[k])
  BY DEF Push
<1>2. todo[1].op \in Adding \cup ResetOps
  BY <1>1 DEF LoadAim, OnlyOps
<1>3. ASSUME todo[1].op = "add"
      PROVE  /\ Len(s) = 1 /\ s[1].op = "n_things++" /\ s[1].t = todo[1].t
             /\ Len(todo) = 3 /\ todo'[1] = s[1] /\ 1 \in 1..Len(todo') /\ Len(todo') # 1
             /\ \A k \in 1..Len(s) : k = 1
  <2>1. Len(todo) # 1
    BY <1>3 DEF LoadAim, Adding
  <2>2. Len(todo) = 3 /\ n_things < MAX_THINGS
    BY <1>1, <1>3, <2>1, WhileAdding DEF Adding
  <2>3. n_things # MAX_THINGS
    BY <2>2, DrawAssumption DEF DInv, TypeOK
  <2>4. Len(s) = 1 /\ s[1].op = "n_things++" /\ s[1].t = todo[1].t
    BY <1>3, <2>3 DEF Calling
  <2>5. Len(todo') = 3
    BY <1>1, <2>2, <2>4
  <2>6. QED BY <1>1, <2>2, <2>4, <2>5
<1>4. ASSUME todo[1].op = "n_things++"
      PROVE  Len(s) = 0 /\ Len(todo) = 3 /\ todo'[1] = todo[2] /\ todo[2].op = "makePhysical"
  <2>1. Len(todo) # 1
    BY <1>4 DEF LoadAim, Adding
  <2>2. Len(todo) = 3 /\ todo[2].op = "makePhysical"
    BY <1>1, <1>4, <2>1, WhileAdding DEF Adding
  <2>3. Len(s) = 0
    BY <1>4 DEF Calling, Freeing, Making
  <2>4. 2 \in 2..Len(todo) /\ 2 - 1 + Len(s) = 1
    BY <2>2, <2>3
  <2>5. todo'[2 - 1 + Len(s)] = todo[2]
    BY <2>4 DEF Push
  <2>6. QED BY <2>2, <2>3, <2>4, <2>5
<1>5. \A k \in 1..Len(s) : s[k].op \in Adding \cup ResetOps
  <2>1. CASE todo[1].op \in ResetOps
    BY <2>1, ResetCalling
  <2>2. CASE todo[1].op = "add"
    BY <1>3, <2>2 DEF Adding
  <2>3. CASE todo[1].op = "n_things++"
    BY <1>4, <2>3
  <2>4. QED BY <1>2, <2>1, <2>2, <2>3 DEF Adding
<1>6. ASSUME todo[1].op \in ResetOps PROVE \A k \in 1..Len(todo') : todo'[k].op \notin Adding
  <2>1. SUFFICES ASSUME NEW k \in 1..Len(todo') PROVE todo'[k].op \notin Adding
    OBVIOUS
  <2>2. \A i \in 1..Len(s) : s[i].op \in ResetOps
    BY <1>6, ResetCalling
  <2>3. CASE k <= Len(s)
    BY <2>2, <2>3, InFront DEF ResetOps, Adding, Freeing, Making
  <2>4. CASE k > Len(s)
    <3>1. PICK i \in 2..Len(todo) : todo'[k] = todo[i]
      BY <2>4, Behind
    <3>2. PairKept(i) /\ i # 1
      BY <3>1 DEF DInv, Pointers, PairsKept
    <3>3. todo[i].op \notin AtOnce
      BY <3>2 DEF PairKept
    <3>4. QED BY <3>1, <3>3 DEF AtOnce, Adding
  <2>5. QED BY <2>3, <2>4, InFront
<1>7. OnlyOps(Adding \cup ResetOps \cup {"load"})'
  <2>1. PICK O : O = Adding \cup ResetOps \cup {"load"}
    OBVIOUS
  <2>2. OnlyOps(O) /\ \A k \in 1..Len(s) : s[k].op \in O
    BY <1>5, <2>1 DEF LoadAim
  <2>3. OnlyOps(O)'
    BY <2>2, OnlyAfter
  <2>4. QED BY <2>1, <2>3 DEF OnlyOps
<1>8. Len(todo') = 1 => todo'[1].op \notin Adding
  <2>1. CASE todo[1].op \in ResetOps
    BY <1>6, <2>1
  <2>2. CASE todo[1].op = "add"
    BY <1>1, <1>3, <2>2
  <2>3. CASE todo[1].op = "n_things++"
    BY <1>4, <2>3 DEF Adding
  <2>4. QED BY <1>2, <2>1, <2>2, <2>3 DEF Adding
<1>9. \A t \in Things : InArray(t)' \/ AddNext(t)' <=> InArray(t) \/ AddNext(t)
  <2>1. SUFFICES ASSUME NEW t \in Things PROVE InArray(t)' \/ AddNext(t)' <=> InArray(t) \/ AddNext(t)
    OBVIOUS
  <2>2. (InArray(t)' <=> t \in Array') /\ (InArray(t) <=> t \in Array)
    BY DEF InArray, Array
  <2>3. CASE todo[1].op \in ResetOps
    <3>1. ~ AddNext(t)
      BY <2>3 DEF AddNext, Adding, Next1, Is, ResetOps, Freeing, Making
    <3>2. ~ AddNext(t)'
      BY <1>6, <2>3 DEF AddNext, Next1, Is
    <3>3. todo[1].op \notin Adding \cup {"moveUp", "n_things--", "load"}
      BY <2>3 DEF ResetOps, Freeing, Making, Adding
    <3>4. QED BY <3>1, <3>2, <3>3, SameThings
  <2>4. CASE todo[1].op = "add"
    <3>1. AddNext(t) <=> t = todo[1].t
      BY <1>1, <2>4 DEF AddNext, Adding, Next1, Is
    <3>2. AddNext(t)' <=> t = todo[1].t
      BY <1>3, <2>4 DEF AddNext, Adding, Next1, Is
    <3>3. Array' = Array
      BY <2>4 DEF Changing
    <3>4. QED BY <2>2, <3>1, <3>2, <3>3
  <2>5. CASE todo[1].op = "n_things++"
    <3>1. AddNext(t) <=> t = todo[1].t
      BY <1>1, <2>5 DEF AddNext, Adding, Next1, Is
    <3>2. ~ AddNext(t)'
      BY <1>4, <2>5 DEF AddNext, Adding, Next1, Is
    <3>3. Array' = Array \cup {todo[1].t}
      BY <2>5 DEF Changing
    <3>4. QED BY <2>2, <3>1, <3>2, <3>3
  <2>6. QED BY <1>2, <2>3, <2>4, <2>5 DEF Adding
<1>10. ASSUME NEW o \in Objects, InArray(o)' \/ AddNext(o)'
       PROVE  o \in bodies' \/ Due("makePhysical", o)' \/ Due("CreateBody", o)'
  <2>1. InArray(o) \/ AddNext(o)
    BY <1>9, <1>10 DEF Things
  <2>2. CASE Due("makePhysical", o) \/ Due("CreateBody", o)
    <3>1. CASE Next1("makePhysical", o)
      BY <3>1
    <3>2. CASE Next1("CreateBody", o)
      BY <3>2 DEF Changing, Next1, Is
    <3>3. CASE ~ Next1("makePhysical", o) /\ ~ Next1("CreateBody", o)
      BY <2>2, <3>3, DueAfter
    <3>4. QED BY <3>1, <3>2, <3>3
  <2>3. CASE o \in bodies
    <3>1. Relies(1)
      BY <1>1 DEF Sound, Planned
    <3>2. ASSUME Later(1, "makePhysical", o) PROVE Due("makePhysical", o)'
      <4>1. 0 \in 0..1 - 1 + Len(s)
        BY <1>1
      <4>2. QED BY <1>1, <3>2, <4>1, LaterAfter DEF Due
    <3>3. CASE todo[1].op = "initPhysics"
      <4>1. ~ AddNext(o)
        BY <3>3 DEF AddNext, Adding, Next1, Is
      <4>2. Later(1, "makePhysical", o)
        BY <2>1, <3>1, <3>3, <4>1 DEF Relies, Remade, Things
      <4>3. QED BY <3>2, <4>2
    <3>4. CASE todo[1].op = "DestroyBody" /\ todo[1].t = o
      <4>1. PICK op \in {"hide", "makePhysical", "removePins"} : Later(1, op, o)
        BY <3>1, <3>4 DEF Relies, BodyFreed
      <4>2. PICK k \in 1..Len(todo) : todo[k].op = op
        BY <1>1, <4>1 DEF Later, Is
      <4>3. op \in Adding \cup ResetOps \cup {"load"}
        BY <4>2 DEF LoadAim, OnlyOps
      <4>4. op = "makePhysical"
        BY <4>1, <4>3 DEF Adding, ResetOps, Freeing, Making
      <4>5. QED BY <3>2, <4>1, <4>4
    <3>5. CASE todo[1].op # "initPhysics" /\ ~ (todo[1].op = "DestroyBody" /\ todo[1].t = o)
      BY <2>3, <3>5 DEF Changing
    <3>6. QED BY <3>3, <3>4, <3>5
  <2>4. QED BY <2>1, <2>2, <2>3 DEF LoadAim
<1>11. ASSUME NEW p \in Pins, InArray(p)' \/ AddNext(p)' PROVE Tied(p)' # {}
  <2>1. Tied(p) # {}
    BY <1>9, <1>11 DEF LoadAim, Things
  <2>2. pinned' = pinned
    BY <1>2 DEF Changing, Adding, ResetOps, Freeing, Making
  <2>3. QED BY <2>1, <2>2 DEF Tied
<1>12. ASSUME NEW k \in 1..Len(todo'), todo'[k].op = "load",
              NEW i \in 1..Len(todo'[k].t.ids), NEW t \in Things, todo'[k].t.ids[i] = t
       PROVE  InArray(t)' \/ AddNext(t)'
  <2>1. "load" \notin Adding \cup ResetOps
    BY DEF Adding, ResetOps, Freeing, Making
  <2>2. ~ (k <= Len(s))
    BY <1>5, <1>12, <2>1, InFront
  <2>3. k + 1 - Len(s) \in 2..Len(todo) /\ todo'[k] = todo[k + 1 - Len(s)]
    BY <2>2, InFront, Behind
  <2>4. PICK j \in 1..Len(todo) : todo'[k] = todo[j]
    <3>1. k + 1 - Len(s) \in 1..Len(todo)
      BY <2>3
    <3>2. QED BY <2>3, <3>1
  <2>5. InArray(t) \/ AddNext(t)
    BY <1>12, <2>4 DEF LoadAim
  <2>6. QED BY <1>9, <2>5
<1>13. QED BY <1>7, <1>8, <1>10, <1>11, <1>12 DEF LoadAim

-----------------------------------------------------------------------------
\* What has become of the scene w when the call c returns.
Outcome(c, w) ==
  /\ c = "penDown" => Drawn(w)
  /\ c = "penUp" => \/ \E o \in Objects : FinishAim(w, o)
                    \/ \E p \in Pins : TieAim(w, p)
                    \/ MoveAim(w)
  /\ c = "step" => LeaveAim(w)
  /\ c \in {"stopPlay", "handleInput"} => RestoreAim(w)
  /\ c = "delete" => \E t \in Things : Erased(w, t)
  /\ c = "zap" => n_things = 0
  /\ c = "load" => LoadAim

LEMMA Running ==
  ASSUME Statement
  PROVE  todo # <<>> /\ ~ fault
<1>1. \A op : Executes(op) => todo # <<>> /\ ~ fault
  BY DEF Executes
<1>2. CASE \/ AddThing \/ Longer \/ Remove \/ MoveUp \/ Shorter \/ RemovePins \/ Delete
           \/ Clear \/ Reset \/ NewWorld \/ Unhide \/ Hide \/ SetDrawing
  BY <1>1, <1>2 DEF AddThing, Longer, Remove, MoveUp, Shorter, RemovePins, Delete, Clear, Reset,
              NewWorld, Unhide, Hide, SetDrawing
<1>3. CASE \/ StopSimulationMode \/ MakePhysical \/ MakeUnphysical \/ ClearJoint
           \/ DestroyJoint \/ ClearBody \/ DestroyBody \/ CreateBody \/ SetBody
           \/ Attach \/ CreateJoint \/ SetJoint \/ LoadElement
  BY <1>1, <1>3 DEF StopSimulationMode, MakePhysical, MakeUnphysical, ClearJoint, LoadElement,
              DestroyJoint, ClearBody, DestroyBody, CreateBody, SetBody, Attach, CreateJoint, SetJoint
<1>4. QED BY <1>2, <1>3 DEF Statement

LEMMA LoadCallGoesOn ==
  ASSUME DInv, Sound, call \in Calls \cup {"none"}, Aim(call, was), Statement,
         NEW s, Push(s), Calling(s), Changing, ClearAim("load") \/ LoadAim
  PROVE  (Len(todo') # 0 => ClearAim("load")' \/ LoadAim') /\ (Len(todo') = 0 => LoadAim')
<1>1. CASE LoadAim
  <2>1. CASE todo[1].op = "load"
    BY <2>1, LoadsAlone, LoadElementGoesOn
  <2>2. CASE todo[1].op # "load"
    <3>1. \A o \in Objects : Next1("makePhysical", o) => o \in bodies' \/ Due("CreateBody", o)'
      BY MakesBodies DEF Next1, Is
    <3>2. QED BY <1>1, <2>2, <3>1, LoadGoesOn
  <2>3. QED BY <2>1, <2>2
<1>2. CASE ClearAim("load")
  <2>1. PICK op : op = "load"
    OBVIOUS
  <2>2. ClearAim(op)
    BY <1>2, <2>1
  <2>3. CASE ClearAim(op)'
    <3>1. Len(todo') # 0
      BY <2>3 DEF ClearAim
    <3>2. QED BY <2>1, <2>3, <3>1
  <2>4. CASE /\ Len(todo) = 2 /\ todo[1].op = "clear" /\ todo[2].op = op
             /\ n_things = 0 /\ n_things' = 0
             /\ Len(todo') = 1 /\ todo'[1] = todo[2]
    BY <2>1, <2>4, LoadBegins
  <2>5. QED BY <2>2, <2>3, <2>4, ClearGoesOn
<1>3. QED BY <1>1, <1>2

LEMMA AimStep ==
  ASSUME DInv, Sound, NEW c, NEW w, c = call, w = was, c \in Calls \cup {"none"}, Aim(c, w),
         AScene(w), Statement, ~ fault'
  PROVE  /\ Sound'
         /\ call' # "none" => call' = call /\ was' = was /\ Aim(c, w)'
         /\ call' = "none" => todo' = <<>> /\ Outcome(c, w)'
<1>1. todo # <<>> /\ call \in Calls \cup {"none"} /\ Aim(call, was)
  BY Running
<1>2. Works
  BY <1>1, StatementWorks
<1>3. PICK s \in Seq(Stmt) : Then(s) /\ Calling(s) /\ Changing
  BY <1>2 DEF Works
<1>4. /\ Push(s) /\ Len(todo') \in Nat
      /\ todo' = <<>> <=> Len(todo') = 0
      /\ todo' = <<>> <=> call' = "none"
      /\ call' # "none" => call' = call /\ was' = was
  <2>1. Push(s) /\ (todo' = <<>> <=> Len(todo') = 0) /\ (todo' = <<>> <=> call' = "none")
        /\ todo' \in Seq(Stmt)
    BY <1>1, <1>3, Pushed
  <2>2. QED BY <1>3, <2>1 DEF Then
<1>5. c \in Calls
  BY <1>1 DEF DInv, TypeOK
<1>6. CASE c = "penDown"
  <2>1. DrawAim(w)
    BY <1>6 DEF Aim
  <2>2. (Len(todo') # 0 => DrawAim(w)') /\ (Len(todo') = 0 => Drawn(w)')
    BY <1>3, <1>4, <2>1, DrawGoesOn
  <2>3. QED BY <1>2, <1>4, <1>6, <2>2 DEF Aim, Outcome, Works
<1>7. CASE c = "penUp"
  <2>1. (\E o \in Objects : FinishAim(w, o)) => (\E o \in Objects : FinishAim(w, o)')
    BY <1>3, <1>4, FinishGoesOn
  <2>2. (\E p \in Pins : TieAim(w, p)) => (\E p \in Pins : TieAim(w, p)')
    BY <1>3, <1>4, TieGoesOn
  <2>3. MoveAim(w) => MoveAim(w)'
    BY <1>3, <1>4, MoveGoesOn
  <2>4. QED BY <1>2, <1>4, <1>7, <2>1, <2>2, <2>3 DEF Aim, Outcome, Works
<1>8. CASE c = "step"
  BY <1>2, <1>3, <1>4, <1>8, LeaveGoesOn DEF Aim, Outcome, Works
<1>9. CASE c \in {"stopPlay", "handleInput"}
  BY <1>2, <1>3, <1>4, <1>9, RestoreGoesOn DEF Aim, Outcome, Works
<1>10. CASE c = "delete"
  <2>1. PICK t \in Things : EraseAim(w, t)
    BY <1>10 DEF Aim
  <2>2. Drawings /\ w.drawn \subseteq Things
    BY DEF Sound, AScene
  <2>3. Len(todo') # 0 => EraseAim(w, t)'
    BY <1>3, <1>4, <2>1, EraseGoesOn
  <2>4. Len(todo') = 0 => Erased(w, t)'
    BY <1>3, <1>4, <2>1, <2>2, EraseEnds
  <2>5. QED BY <1>2, <1>4, <1>10, <2>3, <2>4 DEF Aim, Outcome, Works
<1>11. CASE c = "zap"
  <2>1. ZapAim
    BY <1>11 DEF Aim
  <2>2. QED BY <1>2, <1>3, <1>4, <1>11, <2>1, ZapGoesOn DEF Aim, Outcome, Works
<1>12. CASE c = "load"
  <2>1. ClearAim("load") \/ LoadAim
    BY <1>12 DEF Aim
  <2>2. (Len(todo') # 0 => ClearAim("load")' \/ LoadAim') /\ (Len(todo') = 0 => LoadAim')
    BY <1>1, <1>3, <1>4, <2>1, LoadCallGoesOn
  <2>3. QED BY <1>2, <1>4, <1>12, <2>2 DEF Aim, Outcome, Works
<1>13. QED BY <1>5, <1>6, <1>7, <1>8, <1>9, <1>10, <1>11, <1>12 DEF Calls

-----------------------------------------------------------------------------
(***************************************************************************)
(* Between two calls nothing is excused, and the scene is one of Scene.tla.*)
(***************************************************************************)
AtRest ==
  /\ ~ fault /\ Whole /\ PinnedShape /\ Precede
  /\ \A p \in Pins : pinned[p] = Unpinned \/ InArray(p)
  /\ \A p \in Pins : \A o \in Tied(p) : o \in Objects /\ InArray(o) /\ o \in bodies \cup invisible
  /\ joints \subseteq b2joint /\ \A p \in Pins : p \in joints <=> Holds(p)
  /\ AScene(Now) /\ SameDrawing(Now) /\ Now.away = Away /\ Now.holding = joints

LEMMA Resting ==
  ASSUME DInv, CallInv, call = "none"
  PROVE  AtRest
<1>1. todo = <<>> /\ Len(todo) = 0 /\ Whole /\ n_things \in Nat /\ ~ fault /\ Drawings
  BY Idle DEF CallInv, Sound
<1>2. \A k, op, t : ~ Later(k, op, t) /\ ~ Next1(op, t)
  <2>1. \A k : k \notin 1..Len(todo)
    BY <1>1
  <2>2. QED BY <2>1 DEF Later, Next1, Is
<1>3. \A p \in Pins : ~ Excused(0, p)
  BY <1>2 DEF Excused
<1>4. \A p \in Pins : pinned[p] = Unpinned \/ InArray(p)
  BY <1>1, <1>2 DEF Drawings, PinsIn, AddNext, Due
<1>5. ASSUME NEW p \in Pins, NEW o \in Tied(p)
      PROVE  o \in Objects /\ InArray(o) /\ o \in bodies \cup invisible
  <2>1. o \in Objects
    BY DEF DInv, TypeOK, Tied
  <2>2. QED BY <1>1, <1>2, <2>1 DEF Drawings, TiedIn, Shown, Due
<1>6. joints \subseteq b2joint
  BY <1>1, <1>2 DEF Drawings, JointsPointedTo
<1>7. \A p \in Pins : p \in joints <=> Holds(p)
  BY <1>1, <1>3 DEF Drawings, JointsHold
<1>8. \A p \in Pins : p \notin Array => Tied(p) = {}
  BY <1>4, InTheArray DEF Tied, Unpinned
<1>9. \A p \in Pins : Now.tied[p] = Tied(p)
  BY <1>8 DEF Now, Tied
<1>10. Now.drawn = Array /\ Now.away = Away /\ Now.holding = joints
  BY DEF Now, Away
<1>11. AScene(Now)
  <2>1. Array \subseteq Things
    BY <1>1 DEF Whole, Array
  <2>2. \A p \in Pins : Tied(p) \subseteq Array \cap Objects
    BY <1>5, InTheArray
  <2>3. Now.tied \in [Pins -> SUBSET (Now.drawn \cap Objects)]
    <3>1. \A p \in Pins : Now.tied[p] \in SUBSET (Now.drawn \cap Objects)
      BY <1>9, <1>10, <2>2
    <3>2. QED BY <3>1 DEF Now
  <2>4. Now.away \subseteq Now.drawn \cap Objects
    BY <1>10 DEF Away
  <2>5. \A p \in Pins : Now.tied[p] # {} => p \in Now.drawn
    BY <1>8, <1>9, <1>10
  <2>6. Now.holding = HoldingOf(Now)
    <3>1. \A p \in Pins : Holds(p) <=> Now.tied[p] # {} /\ Now.tied[p] \cap Now.away = {}
      <4>1. TAKE p \in Pins
      <4>2. Tied(p) \subseteq bodies <=> Tied(p) \cap Away = {}
        BY <2>2 DEF Away
      <4>3. QED BY <1>9, <1>10, <4>2 DEF Holds
    <3>2. joints \subseteq Pins
      BY DEF DInv, TypeOK
    <3>3. QED BY <1>7, <1>10, <3>1, <3>2 DEF HoldingOf
  <2>7. QED BY <1>10, <2>1, <2>3, <2>4, <2>5, <2>6 DEF AScene
<1>12. QED BY <1>1, <1>4, <1>5, <1>6, <1>7, <1>9, <1>10, <1>11 DEF AtRest, Drawings, SameDrawing

\* A callback that leaves its statements to be executed.
LEMMA StartsSound ==
  ASSUME DInv, AtRest, NEW s, todo' = s, Len(s) > 0 => s[1].op # "moveUp",
         UNCHANGED <<slots, n_things, pinned, invisible, box2d>>, \A k \in 1..Len(s) : Relies(k)'
  PROVE  Sound'
<1>1. \A p \in Pins : Tied(p)' = Tied(p) /\ (Holds(p)' <=> Holds(p))
  BY DEF Tied, Holds, box2d
<1>2. \A t : InArray(t)' <=> InArray(t)
  BY DEF InArray
<1>3. PinnedShape'
  BY DEF AtRest, PinnedShape, Unpinned
<1>4. PinsIn' /\ TiedIn'
  BY <1>1, <1>2 DEF AtRest, PinsIn, TiedIn, Unpinned
<1>5. Precede'
  BY DEF AtRest, Precede, Tied
<1>6. Shown'
  BY <1>1 DEF AtRest, Shown, box2d
<1>7. Spare'
  BY DEF Spare, Next1, Is
<1>8. JointsPointedTo'
  BY DEF AtRest, JointsPointedTo, box2d
<1>9. JointsHold'
  BY <1>1 DEF AtRest, JointsHold, box2d
<1>10. Planned'
  BY DEF Planned
<1>11. QED BY <1>3, <1>4, <1>5, <1>6, <1>7, <1>8, <1>9, <1>10 DEF Sound, Drawings

LEMMA Begins ==
  ASSUME DInv, AtRest, NEW c \in Calls, NEW s, Call(c, s), UNCHANGED fault, Sound',
         NEW w, w = Now, Aim(c, w)'
  PROVE  CallInv'
<1>1. call' = c /\ was' = w /\ ~ fault' /\ c # "none" /\ AScene(w)
  BY DEF Call, AtRest, Calls
<1>2. AScene(was)'
  BY <1>1 DEF AScene, HoldingOf
<1>3. (\A d \in {call}, v \in {was} : Aim(d, v))'
  BY <1>1
<1>4. QED BY <1>1, <1>2, <1>3 DEF CallInv

LEMMA PenDownBegins ==
  ASSUME DInv, AtRest, NEW t \in Things, PenDown(t)
  PROVE  CallInv'
<1>1. /\ t \notin Array /\ Call("penDown", <<Do("add", t)>>)
      /\ UNCHANGED <<slots, n_things, pinned, invisible, box2d, flags>>
  BY DEF PenDown
<1>2. PICK a : a = Do("add", t)
  OBVIOUS
<1>3. a \in Stmt /\ a.op = "add" /\ a.t = t
  BY <1>2, DoOnThing DEF OnThing
<1>4. PICK s : s = <<a>>
  OBVIOUS
<1>5. s \in Seq(Stmt) /\ Len(s) = 1 /\ s[1] = a /\ Call("penDown", s) /\ todo' = s
  BY <1>1, <1>2, <1>3, <1>4, Seq1 DEF Call
<1>6. \A k \in 1..Len(s) : Relies(k)'
  <2>1. \A k \in 1..Len(s) : todo'[k].op = "add"
    BY <1>3, <1>5
  <2>2. QED BY <2>1, NothingRelied
<1>7. Sound'
  BY <1>1, <1>3, <1>5, <1>6, StartsSound
<1>8. PICK w : w = Now
  OBVIOUS
<1>9. Array' = Array /\ Away' = Away /\ \A p \in Pins : Tied(p)' = Tied(p)
  BY <1>1 DEF Array, Away, Tied, box2d
<1>10. \A p \in Pins : AddNext(p)' => pinned'[p] = Unpinned
  <2>1. \A p : AddNext(p)' => p = t
    BY <1>3, <1>5 DEF AddNext, Next1, Is
  <2>2. ~ InArray(t)
    BY <1>1, InTheArray
  <2>3. QED BY <1>1, <2>1, <2>2 DEF AtRest
<1>11. DrawAim(w)'
  BY <1>3, <1>5, <1>8, <1>9, <1>10 DEF DrawAim, Adding, SameDrawing, AtRest, Unpinned
<1>12. PICK c : c = "penDown"
  OBVIOUS
<1>13. Aim(c, w)'
  BY <1>11, <1>12 DEF Aim
<1>14. UNCHANGED fault
  BY <1>1 DEF flags
<1>15. c \in Calls /\ Call(c, s)
  BY <1>5, <1>12 DEF Calls
<1>16. QED BY <1>7, <1>8, <1>13, <1>14, <1>15, Begins

\* An object without a body that is not hidden is one that nothing is pinned to.
LEMMA PenUpObjectBegins ==
  ASSUME DInv, AtRest, call = "none", NEW o \in Objects, PenUpObject(o)
  PROVE  CallInv'
<1>1. /\ o \in Array /\ o \notin b2body /\ o \notin invisible
      /\ Call("penUp", <<Do("makePhysical", o)>>) /\ UNCHANGED <<scene, box2d, flags>>
  BY DEF PenUpObject
<1>2. PICK a : a = Do("makePhysical", o)
  OBVIOUS
<1>3. a \in Stmt /\ a.op = "makePhysical" /\ a.t = o
  BY <1>2, DoOnThing DEF OnThing, Things
<1>4. PICK s : s = <<a>>
  OBVIOUS
<1>5. s \in Seq(Stmt) /\ Len(s) = 1 /\ s[1] = a /\ Call("penUp", s) /\ todo' = s
  BY <1>1, <1>2, <1>3, <1>4, Seq1 DEF Call
<1>6. o \notin bodies /\ \A p \in Pins : o \notin Tied(p)
  <2>1. o \notin bodies
    BY <1>1, Idle
  <2>2. QED BY <1>1, <2>1 DEF AtRest
<1>7. \A p \in Pins : Tied(p)' = Tied(p)
  BY <1>1 DEF Tied, scene
<1>8. \A k \in 1..Len(s) : Relies(k)'
  <2>1. SUFFICES ASSUME NEW k \in 1..Len(s) PROVE Relies(k)'
    OBVIOUS
  <2>2. k = 1 /\ todo'[k].op = "makePhysical" /\ todo'[k].t = o /\ o \notin Pins
    BY <1>3, <1>5, DrawAssumption
  <2>3. (PinFreed(k) /\ BodyFreed(k) /\ JointMade(k) /\ NothingMade(k) /\ RemovedLast(k))'
    BY <2>2 DEF PinFreed, BodyFreed, JointMade, NothingMade, RemovedLast, Removing
  <2>4. BodyMade(k)'
    BY <1>6, <1>7, <2>2 DEF BodyMade
  <2>5. (Coupled(k) /\ Remade(k))'
    BY <2>2 DEF Coupled, Remade, Is
  <2>6. QED BY <2>3, <2>4, <2>5 DEF Relies
<1>9. Sound'
  BY <1>1, <1>3, <1>5, <1>8, StartsSound DEF scene
<1>10. PICK w, c : w = Now /\ c = "penUp"
  OBVIOUS
<1>11. Array' = Array /\ Away' = Away
  BY <1>1 DEF Array, Away, scene, box2d
<1>12. FinishAim(w, o)'
  <2>0. \A k \in 1..Len(todo') : todo'[k].op = "makePhysical" /\ todo'[k].t = o
    <3>1. Len(todo') = 1 /\ todo'[1] = a
      BY <1>5
    <3>2. QED BY <1>3, <3>1
  <2>1. OnlyOps(Making)' /\ OnlyAbout({o})'
    BY <2>0 DEF OnlyOps, OnlyAbout, Making
  <2>2. o \in Away
    BY <1>1, <1>6 DEF Away
  <2>3. SameDrawing(w)' /\ o \in w.away /\ Away' = w.away
    BY <1>7, <1>10, <1>11, <2>2 DEF SameDrawing, AtRest
  <2>4. QED BY <2>1, <2>3 DEF FinishAim
<1>13. Aim(c, w)'
  BY <1>10, <1>12 DEF Aim
<1>14. UNCHANGED fault /\ c \in Calls /\ Call(c, s)
  BY <1>1, <1>5, <1>10 DEF flags, Calls
<1>15. QED BY <1>9, <1>10, <1>13, <1>14, Begins

LEMMA PenUpPinBegins ==
  ASSUME DInv, AtRest, call = "none", NEW p \in Pins, NEW t1 \in Objects,
         NEW t2 \in Objects \cup {NULL}, PenUpPin(p, t1, t2)
  PROVE  CallInv'
<1>1. /\ p \in Array /\ pinned[p] = Unpinned
      /\ t1 \in b2body /\ t2 \in b2body \cup {NULL}
      /\ \A t \in {t1, t2} \ {NULL} : IndexOf(t) < IndexOf(p)
      /\ Call("penUp", <<Do("pin", p)>>)
      /\ pinned' = [pinned EXCEPT ![p] = <<t1, t2>>]
      /\ UNCHANGED <<slots, n_things, invisible, box2d, flags>>
  BY DEF PenUpPin
<1>2. PICK a : a = Do("pin", p)
  OBVIOUS
<1>3. a \in Stmt /\ a.op = "pin" /\ a.t = p
  BY <1>2, DoOnPin DEF OnPin
<1>4. PICK s : s = <<a>>
  OBVIOUS
<1>5. s \in Seq(Stmt) /\ Len(s) = 1 /\ s[1] = a /\ Call("penUp", s) /\ todo' = s
  BY <1>1, <1>2, <1>3, <1>4, Seq1 DEF Call
<1>6. /\ Len(todo') = 1 /\ todo'[1] = a
      /\ \A k \in 1..Len(todo') : k = 1 /\ todo'[k].op = "pin" /\ todo'[k].t = p
  <2>1. Len(todo') = 1 /\ todo'[1] = a
    BY <1>5
  <2>2. QED BY <1>3, <2>1
<1>7. n_things \in Nat /\ Whole /\ (\A o \in Objects : o \in b2body <=> o \in bodies) /\ TypeOK
  BY Idle DEF DInv
<1>8. /\ Tied(p) = {} /\ Tied(p)' = {t1, t2} \ {NULL} /\ t1 # NULL
      /\ \A q \in Pins : q # p => pinned'[q] = pinned[q] /\ Tied(q)' = Tied(q)
      /\ pinned'[p] = <<t1, t2>>
  BY <1>1, <1>7, DrawAssumption DEF Tied, Unpinned, TypeOK, Things
<1>9. \A o \in Tied(p)' : o \in Objects /\ o \in bodies /\ InArray(o)
  BY <1>1, <1>7, <1>8 DEF Whole, Physical
<1>10. p \notin joints
  BY <1>8 DEF AtRest, Holds
<1>11. \A t : InArray(t)' <=> InArray(t)
  BY <1>1 DEF InArray
<1>12. PinnedShape' /\ PinsIn' /\ TiedIn'
  <2>1. InArray(p)
    BY <1>1, InTheArray
  <2>2. PinnedShape'
    BY <1>8 DEF AtRest, PinnedShape, Unpinned
  <2>3. PinsIn'
    <3>1. \A q \in Pins : pinned'[q] = Unpinned \/ InArray(q)
      BY <1>8, <2>1 DEF AtRest
    <3>2. QED BY <1>11, <3>1 DEF PinsIn, Unpinned
  <2>4. TiedIn'
    <3>1. \A q \in Pins : \A o \in Tied(q)' : InArray(o)
      BY <1>8, <1>9 DEF AtRest
    <3>2. QED BY <1>11, <3>1 DEF TiedIn
  <2>5. QED BY <2>2, <2>3, <2>4
<1>13. Precede'
  <2>1. SUFFICES ASSUME NEW i \in 0..n_things - 1, NEW j \in 0..n_things - 1,
                        NEW q \in Pins, slots[j] = q, slots[i] \in Tied(q)'
                 PROVE  i < j
    BY <1>1 DEF Precede, Tied
  <2>2. CASE q # p
    BY <1>8, <2>1, <2>2 DEF AtRest, Precede
  <2>3. CASE q = p
    <3>1. PICK t \in {t1, t2} \ {NULL} : t = slots[i]
      BY <1>8, <2>1, <2>3
    <3>2. IndexOf(t) = i /\ IndexOf(p) = j
      BY <1>7, <2>1, <2>3, <3>1 DEF IndexOf, Whole
    <3>3. QED BY <1>1, <3>1, <3>2
  <2>4. QED BY <2>2, <2>3
<1>14. Shown'
  <2>1. \A q \in Pins : \A o \in Tied(q)' : o \in bodies \cup invisible
    BY <1>8, <1>9 DEF AtRest
  <2>2. QED BY <1>1, <2>1 DEF Shown, box2d
<1>15. Spare'
  BY <1>6 DEF Spare, Next1, Is
<1>16. JointsPointedTo'
  BY <1>1 DEF AtRest, JointsPointedTo, box2d
<1>17. JointsHold'
  <2>1. SUFFICES ASSUME NEW q \in Pins PROVE ((q \in joints <=> Holds(q)) \/ Excused(0, q))'
    BY DEF JointsHold
  <2>2. CASE q = p
    <3>1. 1 \in 0 + 1..Len(todo') /\ 1 \in 1..Len(todo') /\ todo'[1].op = "pin" /\ todo'[1].t = p
      BY <1>3, <1>6
    <3>2. Later(0, "pin", p)'
      BY <3>1 DEF Later, Is
    <3>3. QED BY <2>2, <3>2 DEF Excused, PinMaking
  <2>3. CASE q # p
    <3>1. Holds(q)' <=> Holds(q)
      BY <1>1, <1>8, <2>3 DEF Holds, box2d
    <3>2. QED BY <1>1, <3>1 DEF AtRest, box2d
  <2>4. QED BY <2>2, <2>3
<1>18. Planned'
  <2>1. SUFFICES ASSUME NEW k \in 1..Len(todo') PROVE Relies(k)'
    BY DEF Planned
  <2>2. k = 1 /\ todo'[k].op = "pin" /\ todo'[k].t = p
    BY <1>6
  <2>3. (PinFreed(k) /\ BodyFreed(k) /\ BodyMade(k) /\ NothingMade(k) /\ RemovedLast(k))'
    BY <2>2 DEF PinFreed, BodyFreed, BodyMade, NothingMade, RemovedLast, Removing
  <2>4. JointMade(k)'
    <3>1. \A i, op, t : ~ Later(k, op, t)'
      <4>1. \A j : j \in k + 1..Len(todo') => FALSE
        BY <1>6, <2>2
      <4>2. QED BY <4>1 DEF Later
    <3>2. QED BY <1>1, <1>10, <2>2, <3>1 DEF JointMade, box2d
  <2>5. (Coupled(k) /\ Remade(k))'
    BY <2>2 DEF Coupled, Remade, Is
  <2>6. QED BY <2>3, <2>4, <2>5 DEF Relies
<1>19. Sound'
  BY <1>12, <1>13, <1>14, <1>15, <1>16, <1>17, <1>18 DEF Sound, Drawings
<1>20. PICK w, c : w = Now /\ c = "penUp"
  OBVIOUS
<1>21. Array' = Array /\ Away' = Away
  BY <1>1 DEF Array, Away, box2d
<1>22. TieAim(w, p)'
  <2>1. OnlyOps(Making)' /\ OnlyAbout({p})'
    BY <1>6 DEF OnlyOps, OnlyAbout, Making
  <2>2. w.drawn = Array /\ w.away = Away /\ \A q \in Pins : w.tied[q] = Tied(q)
    BY <1>20 DEF AtRest, SameDrawing
  <2>3. Tied(p)' \subseteq Array \ Away
    BY <1>9, InTheArray DEF Away
  <2>4. Tied(p)' # {}
    BY <1>8
  <2>5. QED BY <1>1, <1>8, <1>21, <2>1, <2>2, <2>3, <2>4 DEF TieAim
<1>23. Aim(c, w)'
  BY <1>20, <1>22 DEF Aim
<1>24. UNCHANGED fault /\ c \in Calls /\ Call(c, s)
  BY <1>1, <1>5, <1>20 DEF flags, Calls
<1>25. QED BY <1>19, <1>20, <1>23, <1>24, Begins

LEMMA PenUpDeleteBegins ==
  ASSUME DInv, AtRest, NEW t \in Things, PenUpDelete(t)
  PROVE  CallInv'
<1>1. /\ t \in Array /\ Call("delete", <<Do("remove", t), Do("delete", t)>>)
      /\ UNCHANGED <<scene, box2d, flags>>
  BY DEF PenUpDelete
<1>2. PICK a, b : a = Do("remove", t) /\ b = Do("delete", t)
  OBVIOUS
<1>3. a \in Stmt /\ a.op = "remove" /\ a.t = t /\ b \in Stmt /\ b.op = "delete" /\ b.t = t
  BY <1>2, DoOnThing DEF OnThing
<1>4. PICK s : s = <<a, b>>
  OBVIOUS
<1>5. s \in Seq(Stmt) /\ Len(s) = 2 /\ s[1] = a /\ s[2] = b /\ Call("delete", s) /\ todo' = s
  BY <1>1, <1>2, <1>3, <1>4, Seq2 DEF Call
<1>6. /\ Len(todo') = 2 /\ todo'[1] = a /\ todo'[2] = b
      /\ \A k \in 1..Len(todo') : \/ k = 1 /\ todo'[k].op = "remove" /\ todo'[k].t = t
                                  \/ k = 2 /\ todo'[k].op = "delete" /\ todo'[k].t = t
  <2>1. Len(todo') = 2 /\ todo'[1] = a /\ todo'[2] = b
    BY <1>5
  <2>2. QED BY <1>3, <2>1
<1>7. \A k \in 1..Len(s) : Relies(k)'
  <2>1. SUFFICES ASSUME NEW k \in 1..Len(s) PROVE Relies(k)'
    OBVIOUS
  <2>2. CASE todo'[k].op = "delete"
    BY <2>2, NothingRelied
  <2>3. CASE k = 1 /\ todo'[k].op = "remove"
    <3>1. (PinFreed(k) /\ BodyFreed(k) /\ BodyMade(k) /\ JointMade(k) /\ NothingMade(k))'
      BY <2>3 DEF PinFreed, BodyFreed, BodyMade, JointMade, NothingMade, PinMaking
    <3>2. (Coupled(k) /\ Remade(k))'
      BY <2>3 DEF Coupled, Remade, Is
    <3>3. RemovedLast(k)'
      BY <1>5, <1>6, <2>3 DEF RemovedLast
    <3>4. QED BY <3>1, <3>2, <3>3 DEF Relies
  <2>4. QED BY <1>5, <1>6, <2>2, <2>3
<1>8. Sound'
  BY <1>1, <1>3, <1>5, <1>7, StartsSound DEF scene
<1>9. PICK w, c : w = Now /\ c = "delete"
  OBVIOUS
<1>10. /\ Array' = Array /\ bodies' = bodies /\ (\A u : InArray(u)' <=> InArray(u))
       /\ \A p \in Pins : Tied(p)' = Tied(p)
  BY <1>1 DEF Array, Tied, InArray, scene, box2d
<1>11. /\ w.drawn = Array /\ w.away = Away /\ (\A p \in Pins : w.tied[p] = Tied(p))
       /\ w.away \subseteq w.drawn \cap Objects
  BY <1>9 DEF AtRest, SameDrawing, Away
<1>12. EraseAim(w, t)'
  <2>1. Len(todo') # 0 /\ todo'[Len(todo')].op = "delete" /\ todo'[Len(todo')].t = t
    BY <1>3, <1>6
  <2>2. OnlyOps(Freeing \cup (Removing \ {"clear"}) \cup {"delete"})'
    BY <1>6 DEF OnlyOps, Removing
  <2>3. \A k \in 1..Len(todo') :
          /\ todo'[k].op \in {"remove", "n_things--", "removePins"} => todo'[k].t \in Taken(w, t)
          /\ todo'[k].op \in Freeing => todo'[k].t \in Taken(w, t) \cup Pins
    BY <1>6 DEF Taken, Freeing
  <2>4. \A u \in Things : InArray(u)' <=> u \in w.drawn
    BY <1>10, <1>11, InTheArray
  <2>5. \A o \in (Objects \cap w.drawn) \ {t} : o \in bodies' <=> o \notin w.away
    BY <1>10, <1>11 DEF Away
  <2>6. t \in w.drawn
    BY <1>1, <1>11
  <2>7. QED BY <1>10, <1>11, <2>1, <2>2, <2>3, <2>4, <2>5, <2>6 DEF EraseAim
<1>13. Aim(c, w)'
  BY <1>9, <1>12 DEF Aim
<1>14. UNCHANGED fault /\ c \in Calls /\ Call(c, s)
  BY <1>1, <1>5, <1>9 DEF flags, Calls
<1>15. QED BY <1>8, <1>9, <1>13, <1>14, Begins

\* Statements that only a reset and the clearing loop rely on what follows them.
LEMMA OnNobodyRelies ==
  ASSUME NEW k \in 1..Len(todo'),
         todo'[k].op \in {"World::reset", "clear", "load", "disableDrawing", "enableDrawing",
                          "stopSimulationMode"},
         todo'[k].op = "World::reset" =>
           \A j \in k + 1..Len(todo') : todo'[j].op \in OnNobody \ {"World::reset", "initPhysics"},
         todo'[k].op = "clear" =>
           \A j \in k + 1..Len(todo') : todo'[j].op \in {"load", "enableDrawing"}
  PROVE  Relies(k)'
<1>1. CASE todo'[k].op \notin {"World::reset", "clear"}
  BY <1>1, NothingRelied
<1>2. CASE todo'[k].op \in {"World::reset", "clear"}
  <2>1. (PinFreed(k) /\ BodyFreed(k) /\ BodyMade(k) /\ JointMade(k))'
    BY <1>2 DEF PinFreed, BodyFreed, BodyMade, JointMade, PinMaking
  <2>2. (Coupled(k) /\ Remade(k))'
    BY <1>2 DEF Coupled, Remade, Is
  <2>3. (NothingMade(k) /\ RemovedLast(k))'
    BY <1>2 DEF NothingMade, RemovedLast, Removing
  <2>4. QED BY <2>1, <2>2, <2>3 DEF Relies
<1>3. QED BY <1>1, <1>2

LEMMA ResetKeysBegins ==
  ASSUME DInv, AtRest, ResetKeys
  PROVE  CallInv'
<1>1. /\ Call("handleInput", <<Do("World::reset", NULL)>>)
      /\ UNCHANGED <<scene, box2d, flags>>
  BY DEF ResetKeys
<1>2. PICK a : a = Do("World::reset", NULL)
  OBVIOUS
<1>3. a \in Stmt /\ a.op = "World::reset"
  BY <1>2, DoOnNobody DEF OnNobody
<1>4. PICK s : s = <<a>>
  OBVIOUS
<1>5. Len(s) = 1 /\ s[1] = a /\ Call("handleInput", s) /\ todo' = s
  BY <1>1, <1>2, <1>3, <1>4, Seq1 DEF Call
<1>6. Len(todo') = 1 /\ todo'[1] = a
  BY <1>5
<1>7. \A k \in 1..Len(todo') : todo'[k].op = "World::reset" /\ \A j \in k + 1..Len(todo') : FALSE
  BY <1>3, <1>6
<1>8. \A k \in 1..Len(s) : Relies(k)'
  <2>1. \A k \in 1..Len(todo') : Relies(k)'
    BY <1>7, OnNobodyRelies
  <2>2. QED BY <1>5, <2>1
<1>9. Sound'
  BY <1>1, <1>3, <1>5, <1>8, StartsSound DEF scene
<1>10. PICK w, c : w = Now /\ c = "handleInput"
  OBVIOUS
<1>11. RestoreAim(w)'
  <2>1. OnlyOps(ResetOps)'
    BY <1>7 DEF OnlyOps, ResetOps
  <2>2. SameDrawing(w)'
    BY <1>1, <1>10 DEF SameDrawing, AtRest, Array, Tied, scene
  <2>3. QED BY <2>1, <2>2 DEF RestoreAim
<1>12. Aim(c, w)'
  BY <1>10, <1>11 DEF Aim
<1>13. UNCHANGED fault /\ c \in Calls /\ Call(c, s)
  BY <1>1, <1>5, <1>10 DEF flags, Calls
<1>14. QED BY <1>9, <1>10, <1>12, <1>13, Begins

LEMMA StopPlayBegins ==
  ASSUME DInv, AtRest, StopPlay
  PROVE  CallInv'
<1>1. PICK s : s = StopCalls
  OBVIOUS
<1>2. Call("stopPlay", s) /\ UNCHANGED <<scene, box2d, flags>> /\ todo' = s
  BY <1>1 DEF StopPlay, Call
<1>3. /\ Len(s) = 4
      /\ s[1].op = "disableDrawing" /\ s[2].op = "World::reset"
      /\ s[3].op = "stopSimulationMode" /\ s[4].op = "enableDrawing"
  BY <1>1, StopInOrder
<1>4. /\ Len(todo') = 4
      /\ todo'[1].op = "disableDrawing" /\ todo'[2].op = "World::reset"
      /\ todo'[3].op = "stopSimulationMode" /\ todo'[4].op = "enableDrawing"
  BY <1>2, <1>3
<1>5. \A k \in 1..Len(todo') : k = 1 \/ k = 2 \/ k = 3 \/ k = 4
  BY <1>4
<1>6. \A k \in 1..Len(s) : Relies(k)'
  <2>1. ASSUME NEW k \in 1..Len(todo') PROVE Relies(k)'
    <3>1. todo'[k].op \in {"World::reset", "disableDrawing", "enableDrawing", "stopSimulationMode"}
      BY <1>4, <1>5
    <3>2. todo'[k].op = "World::reset" =>
            \A j \in k + 1..Len(todo') : todo'[j].op \in OnNobody \ {"World::reset", "initPhysics"}
      <4>1. SUFFICES ASSUME todo'[k].op = "World::reset", NEW j \in k + 1..Len(todo')
                     PROVE  todo'[j].op \in OnNobody \ {"World::reset", "initPhysics"}
        OBVIOUS
      <4>2. k = 2
        BY <1>4, <1>5, <4>1
      <4>3. j = 3 \/ j = 4
        BY <1>4, <4>2
      <4>4. QED BY <1>4, <4>3 DEF OnNobody
    <3>3. QED BY <3>1, <3>2, OnNobodyRelies
  <2>2. QED BY <1>2, <2>1
<1>7. Sound'
  BY <1>2, <1>3, <1>6, StartsSound DEF scene
<1>8. PICK w, c : w = Now /\ c = "stopPlay"
  OBVIOUS
<1>9. RestoreAim(w)'
  <2>1. OnlyOps(ResetOps)'
    BY <1>4, <1>5 DEF OnlyOps, ResetOps
  <2>2. SameDrawing(w)'
    BY <1>2, <1>8 DEF SameDrawing, AtRest, Array, Tied, scene
  <2>3. QED BY <2>1, <2>2 DEF RestoreAim
<1>10. Aim(c, w)'
  BY <1>8, <1>9 DEF Aim
<1>11. UNCHANGED fault /\ c \in Calls /\ Call(c, s)
  BY <1>2, <1>8 DEF flags, Calls
<1>12. QED BY <1>7, <1>8, <1>10, <1>11, Begins

LEMMA LoadCallBegins ==
  ASSUME DInv, AtRest, NEW f \in Sketches, Load(f)
  PROVE  CallInv'
<1>1. /\ Call("load", <<Do("clear", NULL), Do("load", [f |-> f, ids |-> <<>>])>>)
      /\ UNCHANGED <<scene, box2d, flags>>
  BY DEF Load
<1>2. PICK a, r, b : a = Do("clear", NULL) /\ r = [f |-> f, ids |-> <<>>] /\ b = Do("load", r)
  OBVIOUS
<1>3. a \in Stmt /\ a.op = "clear"
  BY <1>2, DoOnNobody DEF OnNobody
<1>4. r \in LoadState
  BY <1>2 DEF LoadState
<1>5. b \in Stmt /\ b.op = "load"
  BY <1>2, <1>4, DoStmt DEF Ops, Args
<1>6. PICK s : s = <<a, b>>
  OBVIOUS
<1>7. Len(s) = 2 /\ s[1] = a /\ s[2] = b
  BY <1>3, <1>5, <1>6, Seq2
<1>8. Call("load", s) /\ todo' = s
  BY <1>1, <1>2, <1>6 DEF Call
<1>9. Len(todo') = 2 /\ todo'[1] = a /\ todo'[2] = b
  BY <1>7, <1>8
<1>10. \A k \in 1..Len(todo') : (k = 1 /\ todo'[k].op = "clear") \/ (k = 2 /\ todo'[k].op = "load")
  BY <1>3, <1>5, <1>9
<1>11. \A k \in 1..Len(s) : Relies(k)'
  <2>1. ASSUME NEW k \in 1..Len(todo') PROVE Relies(k)'
    <3>1. todo'[k].op = "clear" =>
            \A j \in k + 1..Len(todo') : todo'[j].op \in {"load", "enableDrawing"}
      BY <1>9, <1>10
    <3>2. QED BY <1>10, <3>1, OnNobodyRelies
  <2>2. QED BY <1>8, <2>1
<1>12. Sound'
  BY <1>1, <1>3, <1>7, <1>8, <1>11, StartsSound DEF scene
<1>13. PICK w, c : w = Now /\ c = "load"
  OBVIOUS
<1>14. ClearAim("load")'
  <2>1. Len(todo') > 1 /\ Len(todo') - 1 = 1
    BY <1>9
  <2>2. QED BY <1>3, <1>5, <1>9, <2>1 DEF ClearAim
<1>15. Aim(c, w)'
  BY <1>13, <1>14 DEF Aim
<1>16. UNCHANGED fault /\ c \in Calls /\ Call(c, s)
  BY <1>1, <1>8, <1>13 DEF flags, Calls
<1>17. QED BY <1>12, <1>13, <1>15, <1>16, Begins

LEMMA ZapBegins ==
  ASSUME DInv, AtRest, Zap
  PROVE  CallInv'
<1>1. PICK a, b, c : /\ a = Do("disableDrawing", NULL) /\ b = Do("clear", NULL)
                     /\ c = Do("enableDrawing", NULL)
  OBVIOUS
<1>2. /\ a \in Stmt /\ a.op = "disableDrawing"
      /\ b \in Stmt /\ b.op = "clear"
      /\ c \in Stmt /\ c.op = "enableDrawing"
  BY <1>1, DoOnNobody DEF OnNobody
<1>3. PICK r, q : r = <<a, b, c>> /\ q = StopCalls
  OBVIOUS
<1>4. PICK s : s = q \o r
  OBVIOUS
<1>5. r \in Seq(Stmt) /\ Len(r) = 3 /\ r[1] = a /\ r[2] = b /\ r[3] = c
  BY <1>2, <1>3, Seq3
<1>6. /\ q \in Seq(Stmt) /\ Len(q) = 4
      /\ q[1].op = "disableDrawing" /\ q[2].op = "World::reset"
      /\ q[3].op = "stopSimulationMode" /\ q[4].op = "enableDrawing"
  BY <1>3, StopInOrder
<1>7. /\ s \in Seq(Stmt) /\ Len(s) = Len(q) + Len(r)
      /\ \A k \in 1..Len(q) : s[k] = q[k]
      /\ \A k \in 1..Len(r) : s[Len(q) + k] = r[k]
  <2>1. r \in Seq(Stmt) /\ q \in Seq(Stmt)
    BY <1>5, <1>6
  <2>2. QED BY <1>4, <2>1, Joined
<1>8. Len(s) = 7
  BY <1>5, <1>6, <1>7
<1>9. s[1] = q[1] /\ s[2] = q[2] /\ s[3] = q[3] /\ s[4] = q[4]
  BY <1>6, <1>7
<1>10. s[5] = a /\ s[6] = b /\ s[7] = c
  <2>1. s[4 + 1] = r[1] /\ s[4 + 2] = r[2] /\ s[4 + 3] = r[3]
    BY <1>5, <1>6, <1>7
  <2>2. QED BY <1>5, <2>1
<1>11. Call("zap", s) /\ UNCHANGED <<scene, box2d, flags>> /\ todo' = s
  BY <1>1, <1>3, <1>4 DEF Zap, Call
<1>12. /\ Len(todo') = 7
       /\ todo'[1].op = "disableDrawing" /\ todo'[2].op = "World::reset"
       /\ todo'[3].op = "stopSimulationMode" /\ todo'[4].op = "enableDrawing"
       /\ todo'[5].op = "disableDrawing" /\ todo'[6].op = "clear" /\ todo'[7].op = "enableDrawing"
  BY <1>2, <1>6, <1>8, <1>9, <1>10, <1>11
<1>13. \A k \in 1..Len(todo') : k = 1 \/ k = 2 \/ k = 3 \/ k = 4 \/ k = 5 \/ k = 6 \/ k = 7
  BY <1>12
<1>14. \A k \in 1..Len(s) : Relies(k)'
  <2>1. ASSUME NEW k \in 1..Len(todo') PROVE Relies(k)'
    <3>1. /\ todo'[k].op \in {"World::reset", "clear", "disableDrawing", "enableDrawing",
                              "stopSimulationMode"}
          /\ todo'[k].op = "World::reset" => k = 2
          /\ todo'[k].op = "clear" => k = 6
      BY <1>12, <1>13
    <3>2. todo'[k].op = "World::reset" =>
            \A j \in k + 1..Len(todo') : todo'[j].op \in OnNobody \ {"World::reset", "initPhysics"}
      <4>1. SUFFICES ASSUME k = 2, NEW j \in k + 1..Len(todo')
                     PROVE  todo'[j].op \in OnNobody \ {"World::reset", "initPhysics"}
        BY <3>1
      <4>2. j \in 3..7
        BY <1>12, <4>1
      <4>3. j = 3 \/ j = 4 \/ j = 5 \/ j = 6 \/ j = 7
        BY <4>2
      <4>4. QED BY <1>12, <4>3 DEF OnNobody
    <3>3. todo'[k].op = "clear" =>
            \A j \in k + 1..Len(todo') : todo'[j].op \in {"load", "enableDrawing"}
      <4>1. SUFFICES ASSUME k = 6, NEW j \in k + 1..Len(todo')
                     PROVE  todo'[j].op \in {"load", "enableDrawing"}
        BY <3>1
      <4>2. j = 7
        BY <1>12, <4>1
      <4>3. QED BY <1>12, <4>2
    <3>4. QED BY <3>1, <3>2, <3>3, OnNobodyRelies
  <2>2. QED BY <1>11, <2>1
<1>15. Sound'
  BY <1>6, <1>9, <1>11, <1>14, StartsSound DEF scene
<1>16. PICK w, d : w = Now /\ d = "zap"
  OBVIOUS
<1>17. ClearAim("enableDrawing")'
  <2>1. Len(todo') > 1 /\ Len(todo') - 1 = 6
    BY <1>12
  <2>2. QED BY <1>12, <2>1 DEF ClearAim
<1>18. Aim(d, w)'
  BY <1>16, <1>17 DEF Aim, ZapAim
<1>19. UNCHANGED fault /\ d \in Calls /\ Call(d, s)
  BY <1>11, <1>16 DEF flags, Calls
<1>20. QED BY <1>15, <1>16, <1>18, <1>19, Begins

\* Each pin that is detached is attached again, and only once.
LEMMA PenUpMoveBegins ==
  ASSUME DInv, AtRest, NEW n \in Nat \ {0}, NEW moved \in [1..n -> Pins], PenUpMove(moved)
  PROVE  CallInv'
<1>0. Len(moved) = n /\ DOMAIN moved = 1..n /\ \A i \in 1..n : moved[i] \in Pins /\ moved[i] \in Things
  BY SeqDef, LenProperties DEF Things
<1>1. PICK a, b, s : /\ a = [i \in 1..n |-> Do("makeUnphysical", moved[i])]
                     /\ b = [i \in 1..n |-> Do("makePhysical", moved[i])]
                     /\ s = a \o b
  OBVIOUS
<1>2. /\ Call("penUp", s) /\ UNCHANGED <<scene, box2d, flags>> /\ todo' = s
      /\ \A i, k \in 1..n : i # k => moved[i] # moved[k]
  BY <1>0, <1>1 DEF PenUpMove, Call
<1>3. \A i \in 1..n :
        /\ a[i] \in Stmt /\ a[i].op = "makeUnphysical" /\ a[i].t = moved[i]
        /\ b[i] \in Stmt /\ b[i].op = "makePhysical" /\ b[i].t = moved[i]
  BY <1>0, <1>1, DoOnThing DEF OnThing
<1>4. a \in Seq(Stmt) /\ Len(a) = n /\ b \in Seq(Stmt) /\ Len(b) = n
  BY <1>1, <1>3, FunctionSeq
<1>5. /\ s \in Seq(Stmt) /\ Len(s) = n + n
      /\ \A k \in 1..n : s[k] = a[k]
      /\ \A k \in 1..n : s[n + k] = b[k]
  BY <1>1, <1>4, Joined
<1>6. /\ Len(todo') = n + n
      /\ \A k \in 1..n : todo'[k].op = "makeUnphysical" /\ todo'[k].t = moved[k]
      /\ \A k \in 1..n : todo'[n + k].op = "makePhysical" /\ todo'[n + k].t = moved[k]
  BY <1>2, <1>3, <1>5
<1>7. \A k \in 1..Len(todo') : k \in 1..n \/ \E i \in 1..n : k = n + i
  <2>1. SUFFICES ASSUME NEW k \in 1..n + n, k > n PROVE k - n \in 1..n /\ k = n + (k - n)
    BY <1>6
  <2>2. QED BY <2>1
<1>8. \A k \in 1..Len(todo') :
        todo'[k].op \in {"makeUnphysical", "makePhysical"} /\ todo'[k].t \in Pins
  BY <1>0, <1>6, <1>7
<1>9. \A k \in 1..Len(s) : Relies(k)'
  <2>1. ASSUME NEW k \in 1..Len(todo') PROVE Relies(k)'
    <3>1. \A o \in Objects : o # todo'[k].t
      BY <1>8, DrawAssumption
    <3>2. (BodyFreed(k) /\ BodyMade(k))'
      BY <3>1 DEF BodyFreed, BodyMade
    <3>3. (Coupled(k) /\ Remade(k) /\ NothingMade(k) /\ RemovedLast(k))'
      BY <1>8 DEF Coupled, Remade, NothingMade, RemovedLast, Removing, Is
    <3>4. CASE k \in 1..n
      <4>1. n + k \in k + 1..Len(todo') /\ n + k \in 1..Len(todo')
        BY <1>6, <3>4
      <4>2. Is(n + k, "makePhysical", moved[k])'
        BY <1>2, <1>6, <3>4, <4>1 DEF Is
      <4>3. PICK p \in Pins : p = moved[k]
        BY <1>0, <3>4
      <4>4. Is(n + k, "makePhysical", p)'
        BY <4>2, <4>3 DEF Is
      <4>5. Later(k, "makePhysical", p)'
        BY <4>1, <4>4 DEF Later
      <4>6. Excused(k, p)'
        BY <4>5 DEF Excused, PinMaking
      <4>7. PinFreed(k)'
        BY <1>6, <3>4, <4>3, <4>6 DEF PinFreed
      <4>8. JointMade(k)'
        BY <1>6, <3>4 DEF JointMade, PinMaking
      <4>9. QED BY <3>2, <3>3, <4>7, <4>8 DEF Relies
    <3>5. CASE \E i \in 1..n : k = n + i
      <4>1. PICK i \in 1..n : k = n + i
        BY <3>5
      <4>2. todo'[k].op = "makePhysical" /\ todo'[k].t = moved[i] /\ i \in 1..k - 1
            /\ i \in 1..Len(todo') /\ todo'[i].op = "makeUnphysical" /\ todo'[i].t = moved[i]
        BY <1>6, <4>1
      <4>3. PICK p \in Pins : p = moved[i]
        BY <1>0
      <4>4. Is(i, "makeUnphysical", p)'
        BY <4>2, <4>3 DEF Is
      <4>5. \A op \in PinMaking : ~ Later(k, op, p)'
        <5>1. SUFFICES ASSUME NEW j \in k + 1..Len(todo'), todo'[j].t = p PROVE FALSE
          BY DEF Later, Is
        <5>2. j \notin 1..n /\ j \in 1..Len(todo') /\ j > k
          BY <1>6, <4>1, <5>1
        <5>3. PICK l \in 1..n : j = n + l
          BY <1>7, <5>2
        <5>4. l # i /\ moved[l] = p
          BY <1>6, <4>1, <5>1, <5>2, <5>3
        <5>5. QED BY <1>2, <4>3, <5>4
      <4>6. \E j \in 1..k - 1 : \/ todo'[j].op = "initPhysics"
                                \/ Is(j, "makeUnphysical", p)'
                                \/ Is(j, "DestroyJoint", p)'
        BY <4>2, <4>4
      <4>7. JointMade(k)'
        BY <4>2, <4>3, <4>5, <4>6 DEF JointMade
      <4>8. PinFreed(k)'
        BY <4>2 DEF PinFreed
      <4>9. QED BY <3>2, <3>3, <4>7, <4>8 DEF Relies
    <3>6. QED BY <1>7, <3>4, <3>5
  <2>2. QED BY <1>2, <2>1
<1>10. Sound'
  <2>1. 1 \in 1..n
    OBVIOUS
  <2>2. s[1].op # "moveUp"
    BY <1>3, <1>5, <2>1
  <2>3. QED BY <1>2, <1>9, <2>2, StartsSound DEF scene
<1>11. PICK w, c : w = Now /\ c = "penUp"
  OBVIOUS
<1>12. MoveAim(w)'
  <2>1. OnlyOps(Freeing \cup Making)' /\ OnlyAbout(Pins)'
    BY <1>8 DEF OnlyOps, OnlyAbout, Freeing, Making
  <2>2. SameDrawing(w)' /\ Away' = w.away
    BY <1>2, <1>11 DEF SameDrawing, AtRest, Array, Tied, Away, scene, box2d
  <2>3. w.holding = {p \in Pins : w.tied[p] # {} /\ w.tied[p] \cap w.away = {}}
    BY <1>11 DEF AtRest, AScene, HoldingOf
  <2>4. QED BY <2>1, <2>2, <2>3 DEF MoveAim
<1>13. Aim(c, w)'
  BY <1>11, <1>12 DEF Aim
<1>14. UNCHANGED fault /\ c \in Calls /\ Call(c, s)
  BY <1>2, <1>11 DEF flags, Calls
<1>15. QED BY <1>10, <1>11, <1>13, <1>14, Begins

\* Each body that is taken out of the world is hidden by the next statement.
LEMMA StepBegins ==
  ASSUME DInv, AtRest, NEW n \in Nat \ {0}, NEW left \in [1..n -> Objects], Step(left)
  PROVE  CallInv'
<1>0. Len(left) = n /\ \A i \in 1..n : left[i] \in Objects /\ left[i] \in Things
  BY SeqDef, LenProperties DEF Things
<1>1. PICK s : s = [i \in 1..2 * n |-> IF i % 2 = 1 THEN Do("makeUnphysical", left[(i + 1) \div 2])
                                       ELSE Do("hide", left[i \div 2])]
  OBVIOUS
<1>2. Call("step", s) /\ UNCHANGED <<scene, box2d, flags>> /\ todo' = s
  BY <1>0, <1>1 DEF Step, Call
<1>3. 2 * n \in Nat /\ 1 \in 1..2 * n
  OBVIOUS
<1>4. ASSUME NEW i \in 1..2 * n
      PROVE  /\ s[i] \in Stmt /\ s[i].op \in {"makeUnphysical", "hide"}
             /\ s[i].t \in Objects
             /\ s[i].op = "makeUnphysical" =>
                  i + 1 \in 1..2 * n /\ s[i + 1].op = "hide" /\ s[i + 1].t = s[i].t
  <2>1. CASE i % 2 = 1
    <3>1. (i + 1) \div 2 \in 1..n /\ i + 1 \in 1..2 * n /\ (i + 1) % 2 # 1
      BY <2>1
    <3>2. PICK o \in Objects : o = left[(i + 1) \div 2]
      BY <1>0, <3>1
    <3>3. s[i] = Do("makeUnphysical", o) /\ s[i + 1] = Do("hide", o) /\ o \in Things
      BY <1>1, <2>1, <3>1, <3>2 DEF Things
    <3>4. Do("makeUnphysical", o) \in Stmt /\ Do("makeUnphysical", o).op = "makeUnphysical"
          /\ Do("makeUnphysical", o).t = o
      BY <3>3, DoOnThing DEF OnThing
    <3>5. Do("hide", o).op = "hide" /\ Do("hide", o).t = o
      BY DoOnObject DEF OnObject
    <3>6. QED BY <3>1, <3>3, <3>4, <3>5
  <2>2. CASE i % 2 # 1
    <3>1. i \div 2 \in 1..n
      BY <2>2
    <3>2. PICK o \in Objects : o = left[i \div 2]
      BY <1>0, <3>1
    <3>3. s[i] = Do("hide", o)
      BY <1>1, <2>2, <3>2
    <3>4. Do("hide", o) \in Stmt /\ Do("hide", o).op = "hide" /\ Do("hide", o).t = o
      BY DoOnObject DEF OnObject
    <3>5. QED BY <3>3, <3>4
  <2>3. QED BY <2>1, <2>2
<1>5. s \in Seq(Stmt) /\ Len(s) = 2 * n
  <2>1. s \in [1..2 * n -> Stmt]
    BY <1>1, <1>4
  <2>2. QED BY <1>3, <2>1, FunctionSeq
<1>6. \A i \in 1..Len(todo') :
        /\ todo'[i].op \in {"makeUnphysical", "hide"} /\ todo'[i].t \in Objects
        /\ todo'[i].op = "makeUnphysical" =>
             i + 1 \in 1..Len(todo') /\ todo'[i + 1].op = "hide" /\ todo'[i + 1].t = todo'[i].t
  BY <1>2, <1>4, <1>5
<1>7. \A k \in 1..Len(s) : Relies(k)'
  <2>1. ASSUME NEW k \in 1..Len(todo') PROVE Relies(k)'
    <3>1. CASE todo'[k].op = "hide"
      BY <3>1, NothingRelied
    <3>2. CASE todo'[k].op = "makeUnphysical"
      <4>1. PICK o \in Objects : o = todo'[k].t /\ o \notin Pins
        BY <1>6, DrawAssumption
      <4>2. k + 1 \in k + 1..Len(todo') /\ todo'[k + 1].op = "hide" /\ todo'[k + 1].t = o
            /\ k + 1 \in 1..Len(todo')
        BY <1>6, <3>2, <4>1
      <4>3. Is(k + 1, "hide", o)'
        BY <4>2 DEF Is
      <4>4. Later(k, "hide", o)'
        BY <4>2, <4>3 DEF Later
      <4>5. (PinFreed(k) /\ BodyFreed(k))'
        BY <4>1, <4>4 DEF PinFreed, BodyFreed
      <4>6. (BodyMade(k) /\ JointMade(k) /\ NothingMade(k) /\ RemovedLast(k))'
        BY <3>2 DEF BodyMade, JointMade, NothingMade, RemovedLast, Removing, PinMaking
      <4>7. (Coupled(k) /\ Remade(k))'
        BY <3>2 DEF Coupled, Remade, Is
      <4>8. QED BY <4>5, <4>6, <4>7 DEF Relies
    <3>3. QED BY <1>6, <3>1, <3>2
  <2>2. QED BY <1>2, <2>1
<1>8. Sound'
  BY <1>2, <1>3, <1>4, <1>7, StartsSound DEF scene
<1>9. PICK w, c : w = Now /\ c = "step"
  OBVIOUS
<1>10. LeaveAim(w)'
  <2>1. OnlyOps(Freeing \cup {"hide"})'
    BY <1>6 DEF OnlyOps, Freeing
  <2>2. SameDrawing(w)' /\ w.away = Away'
    BY <1>2, <1>9 DEF SameDrawing, AtRest, Array, Tied, Away, scene, box2d
  <2>3. QED BY <2>1, <2>2 DEF LeaveAim
<1>11. Aim(c, w)'
  BY <1>9, <1>10 DEF Aim
<1>12. UNCHANGED fault /\ c \in Calls /\ Call(c, s)
  BY <1>2, <1>9 DEF flags, Calls
<1>13. QED BY <1>8, <1>9, <1>11, <1>12, Begins

LEMMA PlayKeeps ==
  ASSUME DInv, CallInv, call = "none",
         UNCHANGED <<slots, n_things, pinned, invisible, box2d, fault, call, todo>>
  PROVE  CallInv'
<1>1. AtRest /\ Len(todo) = 0
  BY Resting, Idle
<1>2. PICK s : s = todo
  OBVIOUS
<1>3. Sound'
  <2>1. Len(s) = 0 /\ \A k \in 1..Len(s) : FALSE
    BY <1>1, <1>2
  <2>2. QED BY <1>1, <1>2, <2>1, StartsSound
<1>4. (\A c \in {call}, w \in {was} : Aim(c, w))'
  <2>1. PICK c, w : c = call /\ w = was'
    OBVIOUS
  <2>2. Aim(c, w)'
    BY <2>1 DEF Aim
  <2>3. QED BY <2>1, <2>2
<1>5. QED BY <1>1, <1>3, <1>4 DEF CallInv, AtRest

LEMMA CallbackKeeps ==
  ASSUME DInv, CallInv, Callback
  PROVE  CallInv' /\ fault' = fault /\ call = "none"
         /\ \/ call' = "none" /\ UNCHANGED <<scene, box2d>>
            \/ call' # "none" /\ was' = Now
<1>1. \A c, s : Call(c, s) => call = "none" /\ call' = c /\ was' = Now
  BY DEF Call
<1>2. call = "none" => AtRest
  BY Resting
<1>3. CASE \E t \in Things : PenDown(t)
  BY <1>1, <1>2, <1>3, PenDownBegins DEF PenDown, flags
<1>4. CASE \E t \in Things : PenUpDelete(t)
  BY <1>1, <1>2, <1>4, PenUpDeleteBegins DEF PenUpDelete, flags
<1>5. CASE \E o \in Objects : PenUpObject(o)
  BY <1>1, <1>2, <1>5, PenUpObjectBegins DEF PenUpObject, flags
<1>6. CASE \E p \in Pins, t1 \in Objects, t2 \in Objects \cup {NULL} : PenUpPin(p, t1, t2)
  <2>1. PICK p \in Pins, t1 \in Objects, t2 \in Objects \cup {NULL} : PenUpPin(p, t1, t2)
    BY <1>6
  <2>2. call = "none" /\ call' = "penUp" /\ was' = Now /\ fault' = fault
    BY <1>1, <2>1 DEF PenUpPin, flags
  <2>3. CallInv'
    BY <1>2, <2>1, <2>2, PenUpPinBegins
  <2>4. QED BY <2>2, <2>3
<1>7. CASE \E n \in 1..Cardinality(Pins) : \E moved \in [1..n -> Pins] : PenUpMove(moved)
  <2>1. IsFiniteSet(Pins)
    BY DrawAssumption, FS_Subset DEF Things
  <2>2. PICK n \in Nat \ {0} : \E moved \in [1..n -> Pins] : PenUpMove(moved)
    BY <1>7, <2>1, FS_CardinalityType
  <2>3. PICK moved \in [1..n -> Pins] : PenUpMove(moved)
    BY <2>2
  <2>4. call = "none" /\ call' = "penUp" /\ was' = Now /\ fault' = fault
    BY <1>1, <2>3 DEF PenUpMove, flags
  <2>5. QED BY <1>2, <2>3, <2>4, PenUpMoveBegins
<1>8. CASE \E n \in 1..Cardinality(Objects) : \E left \in [1..n -> Objects] : Step(left)
  <2>1. IsFiniteSet(Objects)
    BY DrawAssumption, FS_Subset DEF Things
  <2>2. PICK n \in Nat \ {0} : \E left \in [1..n -> Objects] : Step(left)
    BY <1>8, <2>1, FS_CardinalityType
  <2>3. PICK left \in [1..n -> Objects] : Step(left)
    BY <2>2
  <2>4. call = "none" /\ call' = "step" /\ was' = Now /\ fault' = fault
    BY <1>1, <2>3 DEF Step, flags
  <2>5. QED BY <1>2, <2>3, <2>4, StepBegins
<1>9. CASE Play
  <2>1. UNCHANGED <<slots, n_things, pinned, invisible, scene, box2d, fault, call, todo>> /\ call = "none"
    BY <1>9 DEF Play, scene
  <2>2. QED BY <2>1, PlayKeeps
<1>10. CASE StopPlay \/ Zap \/ ResetKeys
  BY <1>1, <1>2, <1>10, StopPlayBegins, ZapBegins, ResetKeysBegins
     DEF StopPlay, Zap, ResetKeys, flags
<1>11. CASE \E f \in Sketches : Load(f)
  BY <1>1, <1>2, <1>11, LoadCallBegins DEF Load, flags
<1>12. QED BY <1>3, <1>4, <1>5, <1>6, <1>7, <1>8, <1>9, <1>10, <1>11 DEF Callback

\* A null body is followed in the middle of a call.
LEMMA FaultStops ==
  ASSUME DInv, Statement, fault'
  PROVE  call # "none" /\ call' = call /\ was' = was
<1>1. todo # <<>> /\ ~ fault
  BY Running
<1>2. ~ UNCHANGED fault /\ ~ UNCHANGED flags
  BY <1>1 DEF flags
<1>3. Attach
  <2>1. ~ AddThing /\ ~ Longer /\ ~ Remove /\ ~ MoveUp /\ ~ Shorter /\ ~ RemovePins /\ ~ Delete
        /\ ~ Clear /\ ~ Reset /\ ~ NewWorld /\ ~ Unhide /\ ~ Hide /\ ~ SetDrawing
    BY <1>2 DEF AddThing, Longer, Remove, MoveUp, Shorter, RemovePins, Delete, Clear, Reset,
                NewWorld, Unhide, Hide, SetDrawing
  <2>2. ~ StopSimulationMode /\ ~ MakePhysical /\ ~ MakeUnphysical /\ ~ ClearJoint
        /\ ~ DestroyJoint /\ ~ ClearBody /\ ~ DestroyBody /\ ~ CreateBody /\ ~ SetBody
        /\ ~ LoadElement /\ ~ CreateJoint /\ ~ SetJoint
    BY <1>2 DEF StopSimulationMode, MakePhysical, MakeUnphysical, ClearJoint, LoadElement,
                DestroyJoint, ClearBody, DestroyBody, CreateBody, SetBody, CreateJoint, SetJoint
  <2>3. QED BY <2>1, <2>2 DEF Statement
<1>4. PICK p \in Pins : p = This
  BY <1>3, First DEF Attach, StatementTyped, OnPin
<1>5. PICK a, b : a = Do("CreateJoint", p) /\ b = Do("setb2Joint", p)
  OBVIOUS
<1>6. a \in Stmt /\ b \in Stmt
  BY <1>5, DoOnPin DEF OnPin
<1>7. PICK s : s = <<a, b>>
  OBVIOUS
<1>8. s \in Seq(Stmt) /\ Len(s) = 2
  BY <1>6, <1>7, Seq2
<1>9. Then(s)
  BY <1>2, <1>3, <1>4, <1>5, <1>7 DEF Attach
<1>10. Push(s) /\ (todo' = <<>> <=> Len(todo') = 0)
  BY <1>1, <1>8, <1>9, Pushed
<1>11. todo' # <<>>
  BY <1>8, <1>10 DEF Push
<1>12. QED BY <1>1, <1>9, <1>11 DEF Then, DInv, TypeOK

LEMMA StatementKeeps ==
  ASSUME DInv, CallInv, Statement
  PROVE  CallInv'
<1>1. todo # <<>> /\ ~ fault /\ call # "none" /\ call \in Calls \cup {"none"} /\ AScene(was)
  BY Running DEF CallInv, DInv, TypeOK
<1>2. PICK c, w : c = call /\ w = was
  OBVIOUS
<1>3. Sound /\ Aim(c, w) /\ AScene(w) /\ c \in Calls \cup {"none"}
  BY <1>1, <1>2 DEF CallInv
<1>4. CASE fault'
  <2>1. call' = call /\ was' = was
    BY <1>4, FaultStops
  <2>2. AScene(was)'
    BY <1>1, <2>1 DEF AScene, HoldingOf
  <2>3. QED BY <1>1, <1>4, <2>1, <2>2 DEF CallInv
<1>5. CASE ~ fault'
  <2>1. /\ Sound'
        /\ call' # "none" => call' = call /\ was' = was /\ Aim(c, w)'
    BY <1>2, <1>3, <1>5, AimStep
  <2>2. call' # "none" => AScene(was)'
    BY <1>1, <2>1 DEF AScene, HoldingOf
  <2>3. (\A d \in {call}, v \in {was} : Aim(d, v))'
    <3>1. CASE call' # "none"
      BY <1>2, <2>1, <3>1
    <3>2. CASE call' = "none"
      BY <3>2 DEF Aim
    <3>3. QED BY <3>1, <3>2
  <2>4. QED BY <1>1, <1>5, <2>1, <2>2, <2>3 DEF CallInv
<1>6. QED BY <1>4, <1>5

\* A step that changes nothing changes nothing of what these speak of.
LEMMA SameWords ==
  ASSUME UNCHANGED vars
  PROVE  /\ \A k, op, t : Is(k, op, t)' <=> Is(k, op, t)
         /\ \A k, op, t : Later(k, op, t)' <=> Later(k, op, t)
         /\ \A op, t : Due(op, t)' <=> Due(op, t)
         /\ \A op, t : Next1(op, t)' <=> Next1(op, t)
         /\ \A t : AddNext(t)' <=> AddNext(t)
         /\ \A t : InArray(t)' <=> InArray(t)
         /\ \A p \in Pins : Tied(p)' = Tied(p)
         /\ \A p \in Pins : Holds(p)' <=> Holds(p)
         /\ \A k : \A p \in Pins : Excused(k, p)' <=> Excused(k, p)
         /\ Array' = Array /\ Away' = Away
<1>1. UNCHANGED <<slots, n_things, pinned, bodies, todo>>
  BY DEF vars, scene, box2d
<1>2. \A k, op, t : Is(k, op, t)' <=> Is(k, op, t)
  BY <1>1 DEF Is
<1>3. \A k, op, t : Later(k, op, t)' <=> Later(k, op, t)
  BY <1>1, <1>2 DEF Later
<1>4. \A op, t : Due(op, t)' <=> Due(op, t)
  BY <1>3 DEF Due
<1>5. \A op, t : Next1(op, t)' <=> Next1(op, t)
  BY <1>1 DEF Next1, Is
<1>6. \A t : AddNext(t)' <=> AddNext(t)
  BY <1>5 DEF AddNext
<1>7. \A t : InArray(t)' <=> InArray(t)
  BY <1>1 DEF InArray
<1>8. \A p \in Pins : Tied(p)' = Tied(p)
  BY <1>1 DEF Tied
<1>9. \A p \in Pins : Holds(p)' <=> Holds(p)
  BY <1>1, <1>8 DEF Holds
<1>10. \A k : \A p \in Pins : Excused(k, p)' <=> Excused(k, p)
  BY <1>3, <1>8 DEF Excused
<1>11. Array' = Array /\ Away' = Away
  BY <1>1 DEF Array, Away
<1>12. QED BY <1>2, <1>3, <1>4, <1>5, <1>6, <1>7, <1>8, <1>9, <1>10, <1>11

LEMMA CallStutters ==
  ASSUME CallInv, UNCHANGED vars
  PROVE  CallInv'
<1>1. UNCHANGED <<slots, n_things, allocated, pinned, invisible, b2body, b2joint, bodies, joints,
                  fault, call, todo, was>>
  BY DEF vars, scene, box2d, flags
<1>2. ASSUME Drawings PROVE Drawings'
  <2>1. PinnedShape' /\ PinsIn'
    BY <1>1, <1>2, SameWords DEF Drawings, PinnedShape, PinsIn
  <2>2. TiedIn'
    BY <1>1, <1>2, SameWords DEF Drawings, TiedIn
  <2>3. Precede'
    BY <1>1, <1>2, SameWords DEF Drawings, Precede
  <2>4. Shown'
    BY <1>1, <1>2, SameWords DEF Drawings, Shown
  <2>5. Spare'
    BY <1>1, <1>2, SameWords DEF Drawings, Spare
  <2>6. JointsPointedTo'
    BY <1>1, <1>2, SameWords DEF Drawings, JointsPointedTo
  <2>7. JointsHold'
    BY <1>1, <1>2, SameWords DEF Drawings, JointsHold
  <2>8. QED BY <2>1, <2>2, <2>3, <2>4, <2>5, <2>6, <2>7 DEF Drawings
<1>3. ASSUME Planned PROVE Planned'
  <2>1. SUFFICES ASSUME NEW k \in 1..Len(todo) PROVE Relies(k)'
    BY <1>1 DEF Planned
  <2>2. Relies(k)
    BY <1>3 DEF Planned
  <2>3. PinFreed(k)'
    BY <1>1, <2>2, SameWords DEF Relies, PinFreed
  <2>4. BodyFreed(k)'
    BY <1>1, <2>2, SameWords DEF Relies, BodyFreed
  <2>5. BodyMade(k)'
    BY <1>1, <2>2, SameWords DEF Relies, BodyMade
  <2>6. JointMade(k)'
    BY <1>1, <2>2, SameWords DEF Relies, JointMade
  <2>7. Coupled(k)'
    BY <1>1, <2>2, SameWords DEF Relies, Coupled
  <2>8. Remade(k)'
    BY <1>1, <2>2, SameWords DEF Relies, Remade
  <2>9. NothingMade(k)' /\ RemovedLast(k)'
    BY <1>1, <2>2 DEF Relies, NothingMade, RemovedLast
  <2>10. QED BY <2>3, <2>4, <2>5, <2>6, <2>7, <2>8, <2>9 DEF Relies
<1>4. ASSUME NEW c, NEW w, Aim(c, w) PROVE Aim(c, w)'
  <2>1. /\ \A O : OnlyOps(O)' <=> OnlyOps(O)
        /\ \A T : OnlyAbout(T)' <=> OnlyAbout(T)
        /\ SameDrawing(w)' <=> SameDrawing(w)
    BY <1>1, SameWords DEF OnlyOps, OnlyAbout, SameDrawing
  <2>2. DrawAim(w) => DrawAim(w)'
    BY <1>1, <2>1, SameWords DEF DrawAim
  <2>3. \A o \in Objects : FinishAim(w, o) => FinishAim(w, o)'
    BY <1>1, <2>1, SameWords DEF FinishAim
  <2>4. \A p \in Pins : TieAim(w, p) => TieAim(w, p)'
    BY <1>1, <2>1, SameWords DEF TieAim
  <2>5. MoveAim(w) => MoveAim(w)'
    BY <1>1, <2>1, SameWords DEF MoveAim
  <2>6. (LeaveAim(w) => LeaveAim(w)') /\ (RestoreAim(w) => RestoreAim(w)')
    BY <1>1, <2>1, SameWords DEF LeaveAim, RestoreAim
  <2>7. \A t \in Things : EraseAim(w, t) => EraseAim(w, t)'
    BY <1>1, <2>1, SameWords DEF EraseAim
  <2>8. \A op : ClearAim(op) => ClearAim(op)'
    BY <1>1 DEF ClearAim
  <2>9. ZapAim => ZapAim'
    BY <1>1, <2>8 DEF ZapAim
  <2>10. LoadAim => LoadAim'
    BY <1>1, <2>1, SameWords DEF LoadAim
  <2>11. QED BY <1>4, <2>2, <2>3, <2>4, <2>5, <2>6, <2>7, <2>8, <2>9, <2>10 DEF Aim
<1>5. Sound => Sound'
  BY <1>2, <1>3 DEF Sound
<1>6. call # "none" => AScene(was)'
  BY <1>1 DEF CallInv, AScene, HoldingOf
<1>7. ASSUME ~ fault PROVE (\A c \in {call}, w \in {was} : Aim(c, w))'
  <2>1. PICK c, w : c = call /\ w = was
    OBVIOUS
  <2>2. Aim(c, w)'
    BY <1>4, <1>7, <2>1 DEF CallInv
  <2>3. QED BY <1>1, <2>1, <2>2
<1>8. QED BY <1>1, <1>5, <1>6, <1>7 DEF CallInv

LEMMA CallsAtFirst ==
  ASSUME Init
  PROVE  CallInv
<1>1. /\ todo = <<>> /\ Len(todo) = 0 /\ call = "none" /\ ~ fault /\ n_things = 0 /\ joints = {}
      /\ pinned = [p \in Pins |-> Unpinned]
  BY DEF Init
<1>2. /\ \A k \in 1..Len(todo) : FALSE
      /\ \A i \in 0..n_things - 1 : FALSE
      /\ \A op, t : ~ Next1(op, t)
      /\ \A p \in Pins : pinned[p] = Unpinned /\ Tied(p) = {} /\ ~ Holds(p)
  BY <1>1 DEF Next1, Is, Tied, Holds, Unpinned
<1>3. PinnedShape /\ PinsIn /\ TiedIn /\ Spare /\ Shown
  BY <1>2 DEF PinnedShape, PinsIn, TiedIn, Spare, Shown
<1>4. Precede /\ JointsPointedTo /\ JointsHold
  BY <1>1, <1>2 DEF Precede, JointsPointedTo, JointsHold
<1>5. Sound
  BY <1>2, <1>3, <1>4 DEF Sound, Drawings, Planned
<1>6. \A c \in {call}, w \in {was} : Aim(c, w)
  BY <1>1 DEF Aim
<1>7. QED BY <1>1, <1>5, <1>6 DEF CallInv

(***************************************************************************)
(* At any statement the rest of the call leads to what Scene.tla says that *)
(* the call does, and a pin that holds without all its objects, or does    *)
(* not hold with them, is about to be made, freed or removed.              *)
(***************************************************************************)
THEOREM CallsKeepTheirAim == Spec => []CallInv
<1>1. Init => CallInv
  BY CallsAtFirst
<1>2. DInv /\ CallInv /\ [Next]_vars => CallInv'
  <2>1. SUFFICES ASSUME DInv, CallInv, [Next]_vars PROVE CallInv'
    OBVIOUS
  <2>2. CASE Statement
    BY <2>1, <2>2, StatementKeeps
  <2>3. CASE Callback
    BY <2>1, <2>3, CallbackKeeps
  <2>4. CASE UNCHANGED vars
    BY <2>1, <2>4, CallStutters
  <2>5. QED BY <2>1, <2>2, <2>3, <2>4 DEF Next, Halted
<1>3. QED BY <1>1, <1>2, DrawInvariant, PTL DEF Spec

-----------------------------------------------------------------------------
(***************************************************************************)
(* What the paper shows: the scene that the call found until it ends, then *)
(* the scene that it left.                                                 *)
(***************************************************************************)
SceneInv == DInv /\ CallInv /\ (call = "none" => AtRest)

\* A call that is at its end has changed the scene by one step of Scene.
LEMMA CallEnds ==
  ASSUME SceneInv, SceneInv', Statement, ~ fault', call' = "none"
  PROVE  Paper!SNext \/ UNCHANGED Paper!svars
<1>1. DInv /\ CallInv /\ AtRest' /\ ~ fault /\ todo # <<>>
  BY Running DEF SceneInv
<1>2. call # "none" /\ call \in Calls /\ AScene(was)
  BY <1>1 DEF CallInv, DInv, TypeOK
<1>3. PICK c, w : c = call /\ w = was
  OBVIOUS
<1>4. Sound /\ Aim(c, w) /\ c \in Calls \cup {"none"} /\ AScene(w) /\ c # "none"
  BY <1>1, <1>2, <1>3 DEF CallInv
<1>5. todo' = <<>> /\ Outcome(c, w)'
  BY <1>1, <1>3, <1>4, AimStep
<1>6. PICK v : v = Now'
  OBVIOUS
<1>7. /\ v.drawn = Array' /\ v.away = Away'
      /\ v.tied \in [Pins -> SUBSET (v.drawn \cap Objects)]
      /\ \A p \in Pins : v.tied[p] = Tied(p)'
      /\ \A p \in Pins : v.tied[p] # {} => p \in v.drawn
      /\ v.drawn \subseteq Things /\ v.away \subseteq v.drawn \cap Objects
      /\ v.holding = {p \in Pins : v.tied[p] # {} /\ v.tied[p] \cap v.away = {}}
  BY <1>1, <1>6 DEF AtRest, AScene, SameDrawing, HoldingOf
<1>8. /\ w.drawn \subseteq Things /\ w.away \subseteq w.drawn \cap Objects
      /\ w.tied \in [Pins -> SUBSET (w.drawn \cap Objects)]
      /\ w.holding = {p \in Pins : w.tied[p] # {} /\ w.tied[p] \cap w.away = {}}
  BY <1>4 DEF AScene, HoldingOf
<1>9. Seen = w /\ Seen' = v
  BY <1>2, <1>3, <1>6 DEF Seen
<1>10. Paper!Follows
  BY <1>1, <1>7, <1>9 DEF Paper!Follows, Paper!Holding
<1>11. ASSUME v.drawn = w.drawn, v.away = w.away, v.tied = w.tied
       PROVE  UNCHANGED Paper!svars
  BY <1>1, <1>7, <1>8, <1>9, <1>11 DEF Paper!svars
<1>12. (\A p \in Pins : w.tied[p] = Tied(p)') => v.tied = w.tied
  BY <1>7, <1>8
<1>13. SameDrawing(w)' => v.drawn = w.drawn /\ v.tied = w.tied
  BY <1>7, <1>12 DEF SameDrawing
<1>14. CASE c = "penDown"
  <2>1. Drawn(w)'
    BY <1>5, <1>14 DEF Outcome
  <2>2. v.tied = w.tied
    BY <1>12, <2>1 DEF Drawn
  <2>3. CASE w.drawn = Array' /\ w.away = Away'
    BY <1>7, <1>11, <2>2, <2>3
  <2>4. CASE \E t \in Things : /\ t \notin w.drawn /\ Array' = w.drawn \cup {t}
                               /\ Away' = w.away \cup ({t} \cap Objects)
    <3>1. PICK t \in Things : /\ t \notin w.drawn /\ Array' = w.drawn \cup {t}
                              /\ Away' = w.away \cup ({t} \cap Objects)
      BY <2>4
    <3>2. Paper!Draw(t)
      BY <1>7, <1>9, <1>10, <2>2, <3>1 DEF Paper!Draw
    <3>3. QED BY <3>2 DEF Paper!SNext, Things
  <2>5. QED BY <2>1, <2>3, <2>4 DEF Drawn
<1>15. CASE c = "penUp"
  <2>1. \/ \E o \in Objects : FinishAim(w, o)'
        \/ \E p \in Pins : TieAim(w, p)'
        \/ MoveAim(w)'
    BY <1>5, <1>15 DEF Outcome
  <2>2. ASSUME NEW o \in Objects, FinishAim(w, o)'
        PROVE  Paper!SNext \/ UNCHANGED Paper!svars
    <3>1. v.drawn = w.drawn /\ v.tied = w.tied /\ o \in w.away /\ v.away \ {o} = w.away \ {o}
      BY <1>7, <1>13, <2>2 DEF FinishAim
    <3>2. CASE o \in v.away
      <4>1. v.away = w.away
        BY <3>1, <3>2
      <4>2. QED BY <1>11, <3>1, <4>1
    <3>3. CASE o \notin v.away
      <4>1. v.away = w.away \ {o}
        BY <3>1, <3>3
      <4>2. Paper!Finish(o)
        BY <1>9, <1>10, <3>1, <4>1 DEF Paper!Finish
      <4>3. QED BY <4>2 DEF Paper!SNext
    <3>4. QED BY <3>2, <3>3
  <2>3. ASSUME NEW p \in Pins, TieAim(w, p)'
        PROVE  Paper!SNext
    <3>1. /\ w.drawn = v.drawn /\ w.away = v.away /\ p \in w.drawn /\ w.tied[p] = {}
          /\ v.tied[p] # {} /\ v.tied[p] \subseteq w.drawn \ w.away
          /\ \A q \in Pins \ {p} : w.tied[q] = v.tied[q]
      BY <1>7, <2>3 DEF TieAim
    <3>2. PICK ts \in SUBSET Objects : ts = v.tied[p]
      BY <1>7
    <3>3. v.tied = [w.tied EXCEPT ![p] = ts]
      BY <1>7, <1>8, <3>1, <3>2
    <3>4. Paper!Tie(p, ts)
      BY <1>9, <1>10, <3>1, <3>2, <3>3 DEF Paper!Tie
    <3>5. QED BY <3>4 DEF Paper!SNext
  <2>4. ASSUME MoveAim(w)'
        PROVE  UNCHANGED Paper!svars
    <3>1. v.drawn = w.drawn /\ v.tied = w.tied /\ v.away = w.away
      BY <1>7, <1>13, <2>4 DEF MoveAim
    <3>2. QED BY <1>11, <3>1
  <2>5. QED BY <2>1, <2>2, <2>3, <2>4
<1>16. CASE c = "step"
  <2>1. v.drawn = w.drawn /\ v.tied = w.tied /\ w.away \subseteq v.away
    BY <1>5, <1>7, <1>13, <1>16 DEF Outcome, LeaveAim
  <2>2. PICK M \in SUBSET Objects : M = v.away \ w.away
    BY <1>7
  <2>3. Paper!Leave(M)
    BY <1>7, <1>9, <1>10, <2>1, <2>2 DEF Paper!Leave
  <2>4. QED BY <2>3 DEF Paper!SNext
<1>17. CASE c \in {"stopPlay", "handleInput"}
  <2>1. v.drawn = w.drawn /\ v.tied = w.tied
    BY <1>5, <1>13, <1>17 DEF Outcome, RestoreAim
  <2>2. PICK F \in SUBSET Objects : F = v.away
    BY <1>7
  <2>3. Paper!Restore(F)
    BY <1>7, <1>9, <1>10, <2>1, <2>2 DEF Paper!Restore
  <2>4. QED BY <2>3 DEF Paper!SNext
<1>18. CASE c = "delete"
  <2>1. PICK t \in Things : Erased(w, t)'
    BY <1>5, <1>18 DEF Outcome
  <2>2. /\ t \in w.drawn /\ v.drawn = w.drawn \ Taken(w, t) /\ v.away = w.away \ Taken(w, t)
        /\ \A p \in Pins : v.tied[p] = IF p \in Taken(w, t) THEN {} ELSE w.tied[p]
    BY <1>7, <2>1 DEF Erased, Taken
  <2>3. v.tied = [p \in Pins |-> IF p \in Taken(w, t) THEN {} ELSE w.tied[p]]
    BY <1>7, <2>2
  <2>4. Paper!Erase(t)
    BY <1>9, <1>10, <2>2, <2>3 DEF Paper!Erase, Taken
  <2>5. QED BY <2>4 DEF Paper!SNext, Things
<1>19. CASE c = "zap"
  <2>1. n_things' = 0
    BY <1>5, <1>19 DEF Outcome
  <2>2. Array' = {}
    <3>1. \A i \in 0..n_things' - 1 : FALSE
      BY <2>1
    <3>2. QED BY <3>1 DEF Array
  <2>3. v.drawn = {} /\ v.away = {} /\ \A p \in Pins : v.tied[p] = {}
    BY <1>7, <2>2
  <2>4. Paper!Open
    BY <1>7, <1>9, <1>10, <2>3 DEF Paper!Open
  <2>5. QED BY <2>4 DEF Paper!SNext
<1>20. CASE c = "load"
  <2>1. LoadAim'
    BY <1>5, <1>20 DEF Outcome
  <2>2. /\ \A k : k \notin 1..Len(todo')
        /\ 1 \notin 1..Len(todo')
    BY <1>5
  <2>3. /\ \A op, t : ~ Due(op, t)' /\ ~ Next1(op, t)'
        /\ \A t : ~ AddNext(t)'
    <3>1. \A k : k \notin 0 + 1..Len(todo')
      BY <1>5
    <3>2. QED BY <2>2, <3>1 DEF Due, Later, Next1, Is, AddNext
  <2>4. /\ \A o \in Objects : InArray(o)' => o \in bodies'
        /\ \A p \in Pins : InArray(p)' => Tied(p)' # {}
    BY <2>1, <2>3 DEF LoadAim
  <2>5. \A t : t \in Array' => InArray(t)'
    BY DEF Array, InArray
  <2>6. v.away = {}
    BY <1>7, <2>4, <2>5 DEF Away
  <2>7. \A p \in Pins : v.tied[p] # {} <=> p \in v.drawn
    BY <1>7, <2>4, <2>5
  <2>8. Paper!Open
    BY <1>7, <1>9, <1>10, <2>6, <2>7 DEF Paper!Open, Things
  <2>9. QED BY <2>8 DEF Paper!SNext
<1>21. QED BY <1>3, <1>2, <1>14, <1>15, <1>16, <1>17, <1>18, <1>19, <1>20 DEF Calls

\* Every other step leaves the paper as it is, or ends in undefined behaviour.
LEMMA SceneStep ==
  ASSUME SceneInv, SceneInv', [Next]_vars
  PROVE  [Paper!SNext]_(Paper!svars)
<1>1. DInv /\ CallInv
  BY DEF SceneInv
<1>2. CASE Statement
  <2>1. call # "none" /\ ~ fault
    BY <1>1, <1>2, Running DEF DInv, TypeOK
  <2>2. CASE fault'
    BY <2>1, <2>2 DEF Paper!SNext, Paper!Fail
  <2>3. CASE ~ fault' /\ call' = "none"
    BY <1>2, <2>3, CallEnds
  <2>4. CASE ~ fault' /\ call' # "none"
    <3>1. PICK c, w : c = call /\ w = was
      OBVIOUS
    <3>2. Sound /\ Aim(c, w) /\ c \in Calls \cup {"none"} /\ AScene(w)
      BY <1>1, <2>1, <3>1 DEF CallInv
    <3>3. was' = was
      BY <1>1, <1>2, <2>4, <3>1, <3>2, AimStep
    <3>4. Seen' = Seen
      BY <2>1, <2>4, <3>3 DEF Seen
    <3>5. QED BY <2>1, <2>4, <3>4 DEF Paper!svars
  <2>5. QED BY <2>2, <2>3, <2>4
<1>3. CASE Callback
  <2>1. /\ fault' = fault /\ call = "none"
        /\ \/ call' = "none" /\ UNCHANGED <<scene, box2d>>
           \/ call' # "none" /\ was' = Now
    BY <1>1, <1>3, CallbackKeeps
  <2>2. UNCHANGED <<scene, box2d>> => Now' = Now
    BY DEF scene, box2d, Now, Array
  <2>3. Seen' = Seen
    BY <2>1, <2>2 DEF Seen
  <2>4. QED BY <2>1, <2>3 DEF Paper!svars
<1>4. CASE UNCHANGED vars
  <2>1. UNCHANGED <<call, was, fault, scene, box2d>>
    BY <1>4 DEF vars, flags
  <2>2. Now' = Now
    BY <2>1 DEF scene, box2d, Now, Array
  <2>3. Seen' = Seen
    BY <2>1, <2>2 DEF Seen
  <2>4. QED BY <2>1, <2>3 DEF Paper!svars
<1>5. QED BY <1>2, <1>3, <1>4 DEF Next, Halted

LEMMA SceneInit ==
  ASSUME Init
  PROVE  Paper!SInit
<1>1. /\ call = "none" /\ n_things = 0 /\ ~ fault /\ joints = {}
      /\ \A i \in 0..n_things - 1 : FALSE
  BY DEF Init
<1>2. Array = {}
  BY <1>1 DEF Array
<1>3. /\ Seen.drawn = {} /\ Seen.tied = [p \in Pins |-> {}]
      /\ Seen.away = {} /\ Seen.holding = {}
  BY <1>1, <1>2 DEF Seen, Now
<1>4. QED BY <1>1, <1>3 DEF Paper!SInit

(***************************************************************************)
(* Statement by statement, with the interrupt between any two of them, the *)
(* calls of class World implement Scene: whatever order Box2D and the      *)
(* loops over the array take, a call that ends has drawn, finished, tied,  *)
(* erased, let go, restored or replaced what it was to, and nothing else,  *)
(* and the pins hold exactly where all their objects are simulated.        *)
(***************************************************************************)
THEOREM StatementsImplementScene == Spec => SceneSpec
<1>1. DInv /\ CallInv => SceneInv
  BY Resting DEF SceneInv
<1>2. Spec => []SceneInv
  BY <1>1, DrawInvariant, CallsKeepTheirAim, PTL
<1>3. QED BY <1>2, SceneInit, SceneStep, PTL DEF Spec, SceneSpec, Paper!SSpec
=============================================================================
