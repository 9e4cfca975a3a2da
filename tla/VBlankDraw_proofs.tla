-------------------------- MODULE VBlankDraw_proofs --------------------------
(***************************************************************************)
(* What the VBlank interrupt finds between any two statements, for any     *)
(* things, capacity and sketches.                                          *)
(*                                                                         *)
(* The invariant says of each statement in todo what the ones in front of  *)
(* it establish: how the statements of a method keep together, what must   *)
(* not come between them, and what holds when one of them is the next.     *)
(***************************************************************************)
EXTENDS VBlankDraw, TLAPS, FiniteSetTheorems, SequenceTheorems

OnPin    == {"setb2Joint(0)", "DestroyJoint", "pin", "CreateJoint", "setb2Joint"}
OnObject == {"setb2Body(0)", "CreateBody", "setb2Body", "hide"}
OnThing  == {"add", "n_things++", "makeUnphysical", "makePhysical", "remove", "n_things--",
             "removePins", "delete", "reset"}
OnNobody == {"clear", "World::reset", "initPhysics", "disableDrawing", "enableDrawing",
             "stopSimulationMode"}
Ops      == OnPin \cup OnObject \cup OnThing \cup OnNobody \cup {"DestroyBody", "moveUp", "load"}

\* What a statement may be about.
LoadState == [f : Sketches, ids : Seq(Things)]
Args      == Things \cup {NULL, BG} \cup Nat \cup LoadState
Stmt      == [op : Ops, t : Args]

\* The methods that a statement belongs to.
Freeing  == {"makeUnphysical", "setb2Joint(0)", "DestroyJoint", "DestroyBody", "setb2Body(0)"}
Making   == {"makePhysical", "pin", "CreateBody", "setb2Body", "CreateJoint", "setb2Joint"}
Adding   == {"add", "n_things++"}
Removing == {"remove", "moveUp", "n_things--", "removePins", "clear"}

\* These are executed as soon as they are called.
AtOnce   == {"remove", "add", "n_things++", "pin", "CreateBody", "CreateJoint", "setb2Joint(0)"}

Is(k, op, t)  == k \in 1..Len(todo) /\ todo[k].op = op /\ todo[k].t = t
Next1(op, t)  == Is(1, op, t)
Physical      == b2body \cup b2joint
Frees(k, t)   == \E op \in {"makeUnphysical", "setb2Joint(0)", "setb2Body(0)"} : Is(k, op, t)

-----------------------------------------------------------------------------
StatementTyped(s) ==
  /\ s.op \in OnPin => s.t \in Pins
  /\ s.op \in OnObject => s.t \in Objects
  /\ s.op \in OnThing => s.t \in Things
  /\ s.op = "DestroyBody" => s.t \in Objects \cup {BG}
  /\ s.op = "moveUp" => s.t \in Nat
  /\ s.op = "load" => s.t \in LoadState

TodoTyped == todo \in Seq(Stmt) /\ \A k \in 1..Len(todo) : StatementTyped(todo[k])

\* A pointer and what it points to change in two statements, one right after
\* the other.
PairKept(k) ==
  LET t == todo[k].t
  IN  /\ todo[k].op \in AtOnce => k = 1
      /\ todo[k].op = "DestroyJoint" =>
           (k = 1 /\ t \notin b2joint) \/ (k = 2 /\ Next1("setb2Joint(0)", t))
      /\ todo[k].op = "setb2Joint" =>
           (k = 1 /\ t \in joints) \/ (k = 2 /\ Next1("CreateJoint", t))
      /\ todo[k].op = "setb2Body" =>
           (k = 1 /\ t \in bodies) \/ (k = 2 /\ Next1("CreateBody", t))
      /\ todo[k].op = "CreateBody" => Is(k + 1, "setb2Body", t)
      /\ todo[k].op = "setb2Body(0)" =>
           (k = 1 /\ t \notin bodies) \/ (k > 1 /\ Is(k - 1, "DestroyBody", t))
      /\ todo[k].op = "DestroyBody" =>
           /\ \A j \in 1..k - 1 : todo[j].op \in {"setb2Joint(0)", "DestroyJoint"}
           /\ t # BG => Is(k + 1, "setb2Body(0)", t)

PairsKept == \A k \in 1..Len(todo) : PairKept(k)

BodiesPointedTo ==
  \A o \in Objects :
    (o \in b2body <=> o \in bodies) \/ Next1("setb2Body(0)", o) \/ Next1("setb2Body", o)

-----------------------------------------------------------------------------
\* The array, when no remove() is moving its things up.
InArray(t) == \E i \in 0..n_things - 1 : slots[i] = t

Whole ==
  /\ \A i \in 0..n_things - 1 : slots[i] \in Things
  /\ \A i, j \in 0..n_things - 1 : slots[i] = slots[j] => i = j
  /\ \A t \in Physical : InArray(t)

\* While it does, h is the place that is free to be overwritten: without it
\* the array is already the one without t, and JUNK comes last.
Kept(h, i) == slots[IF i < h THEN i ELSE i + 1]

Hole(t, h) ==
  /\ n_things > 0 /\ h \in 0..n_things
  /\ \A i \in 0..n_things - 2 : Kept(h, i) \in Things \ {t}
  /\ \A i, j \in 0..n_things - 2 : Kept(h, i) = Kept(h, j) => i = j
  /\ Kept(h, n_things - 1) = JUNK
  /\ \A u \in Physical \ {t} : \E i \in 0..n_things - 2 : Kept(h, i) = u

\* n_things-- at k: the calls in front of it are the moves from h on, and
\* before them what makes t unphysical.
Shift(k, h) ==
  LET t     == todo[k].t
      first == k - (n_things - h)
  IN  /\ Hole(t, h) /\ first >= 1
      /\ \A j \in first..k - 1 : todo[j].op = "moveUp" /\ todo[j].t = n_things - (k - j)
      /\ \A j \in 1..first - 1 : todo[j].op \in Freeing
      /\ first > 1 => h < n_things /\ slots[h] = t
      /\ t \in Physical => \E j \in 1..first - 1 : Frees(j, t)

Shifting(k) == \E h \in 0..n_things : Shift(k, h)

JunkBehind ==
  \A i \in n_things..MAX_THINGS :
    slots[i] = JUNK \/ (i = n_things /\ Next1("n_things++", slots[i]))

ArrayShape ==
  /\ JunkBehind
  /\ \A k \in 1..Len(todo) :
       /\ todo[k].op = "n_things--" => Shifting(k)
       /\ todo[k].op = "moveUp" => \E j \in k + 1..Len(todo) : todo[j].op = "n_things--"
  /\ (\A k \in 1..Len(todo) : todo[k].op # "n_things--") => Whole

Allocated == \A i \in 0..n_things - 1 : slots[i] \in allocated \cup {JUNK}

\* What is added is new, fits, and nothing is removed before the call ends.
AddGoesOn ==
  (todo # <<>> /\ todo[1].op \in Adding) =>
    /\ todo[1].t \in allocated /\ ~ InArray(todo[1].t)
    /\ todo[1].op = "n_things++" => n_things < MAX_THINGS /\ slots[n_things] = todo[1].t
    /\ \/ Len(todo) = 1
       \/ Len(todo) = 3 /\ Is(2, "makePhysical", todo[1].t) /\ todo[3].op = "load"

-----------------------------------------------------------------------------
\* Only things of the array get a body or a joint.
MadeInArray(k) ==
  todo[k].op \in Making =>
    /\ InArray(todo[k].t) \/ (\E op \in Adding : Next1(op, todo[k].t))
    /\ \A j \in 1..k - 1 : todo[j].op \notin Removing \cup {"load"}

\* A thing is not searched for, nor deleted, before it left the array.
GoneBefore(k) ==
  todo[k].op \in {"delete", "removePins"} =>
    \/ ~ InArray(todo[k].t)
    \/ \E j \in 1..k - 1 : Is(j, "remove", todo[k].t) \/ Is(j, "n_things--", todo[k].t)

\* What is removed is in the array.
Found(k) == todo[k].op = "remove" => k = 1 /\ InArray(todo[k].t)

\* The Box2D world is not replaced before everything has left it.
FreedBefore(k) ==
  todo[k].op = "initPhysics" =>
    /\ \A j \in 1..k - 1 : todo[j].op \in Freeing
    /\ \A t \in Physical : \E j \in 1..k - 1 : Frees(j, t)

\* Each element of a sketch finds the array as long as id_table.
LoadsNext(k) ==
  todo[k].op = "load" =>
    LET f == todo[k].t.f
        ids == todo[k].t.ids
    IN  /\ k = Len(todo) /\ Len(ids) <= Len(f.elements)
        /\ \A i \in 1..Len(ids) : ids[i] \in Pins <=> f.elements[i].pin
        /\ \/ k > 1 /\ todo[k - 1].op = "clear" /\ ids = <<>>
           \/ todo[1].op \in Adding /\ n_things + 1 = Len(ids)
           \/ n_things = Len(ids) /\ \A j \in 1..k - 1 : todo[j].op \in Making

InOrder ==
  \A k \in 1..Len(todo) :
    MadeInArray(k) /\ GoneBefore(k) /\ Found(k) /\ FreedBefore(k) /\ LoadsNext(k)

-----------------------------------------------------------------------------
\* The calls that disable drawing enable it at their end, and between the
\* two parts of zap only to disable it again.
DrawingOff ==
  /\ call \in {"stopPlay", "zap"} => /\ todo[Len(todo)].op = "enableDrawing"
                                     /\ dont_draw_things \/ todo[1].op = "disableDrawing"
  /\ dont_draw_things => call \in {"stopPlay", "zap"}
  /\ \A k \in 1..Len(todo) :
       /\ todo[k].op \in {"disableDrawing", "enableDrawing"} => call \in {"stopPlay", "zap"}
       /\ todo[k].op = "enableDrawing" =>
            k = Len(todo) \/ todo[k + 1].op = "disableDrawing"

\* A stroke frees no body and removes nothing.
StrokesCareful ==
  call \in {"penDown", "penUp"} =>
    \A k \in 1..Len(todo) :
      \/ todo[k].op \in Adding \cup Making \cup {"setb2Joint(0)", "DestroyJoint"}
      \/ todo[k].op = "makeUnphysical" /\ todo[k].t \in Pins

Pointers == PairsKept /\ BodiesPointedTo /\ PinsThreadSafe
Order    == /\ TodoTyped /\ ArrayShape /\ Allocated /\ AddGoesOn
            /\ InOrder /\ DrawingOff /\ StrokesCareful

DInv == TypeOK /\ Order /\ Pointers

-----------------------------------------------------------------------------
(***************************************************************************)
(* The statements s take the place of the first.                           *)
(***************************************************************************)
Push(s) ==
  /\ todo # <<>> /\ Len(todo) \in Nat \ {0} /\ Len(s) \in Nat
  /\ Len(todo') = Len(s) + Len(todo) - 1
  /\ \A k \in 1..Len(s) : todo'[k] = s[k]
  /\ \A k \in 2..Len(todo) : todo'[k - 1 + Len(s)] = todo[k]
  /\ \A k \in 1..Len(todo') : k <= Len(s) \/ todo'[k] = todo[k + 1 - Len(s)]

LEMMA DoStmt ==
  ASSUME NEW op \in Ops, NEW t \in Args
  PROVE  Do(op, t) \in Stmt /\ Do(op, t).op = op /\ Do(op, t).t = t
BY DEF Do, Stmt

\* A call that is written down in the source is typed.
LEMMA DoOnPin ==
  ASSUME NEW op \in OnPin, NEW t \in Pins
  PROVE  Do(op, t) \in Stmt /\ Do(op, t).op = op /\ Do(op, t).t = t /\ StatementTyped(Do(op, t))
<1>1. Do(op, t) \in Stmt /\ Do(op, t).op = op /\ Do(op, t).t = t
  BY DoStmt DEF Ops, Args, Things
<1>2. QED BY <1>1 DEF StatementTyped, OnPin, OnObject, OnThing

LEMMA DoOnObject ==
  ASSUME NEW op \in OnObject, NEW t \in Objects
  PROVE  Do(op, t) \in Stmt /\ Do(op, t).op = op /\ Do(op, t).t = t /\ StatementTyped(Do(op, t))
<1>1. Do(op, t) \in Stmt /\ Do(op, t).op = op /\ Do(op, t).t = t
  BY DoStmt DEF Ops, Args, Things
<1>2. QED BY <1>1 DEF StatementTyped, OnPin, OnObject, OnThing

LEMMA DoOnThing ==
  ASSUME NEW op \in OnThing, NEW t \in Things
  PROVE  Do(op, t) \in Stmt /\ Do(op, t).op = op /\ Do(op, t).t = t /\ StatementTyped(Do(op, t))
<1>1. Do(op, t) \in Stmt /\ Do(op, t).op = op /\ Do(op, t).t = t
  BY DoStmt DEF Ops, Args
<1>2. QED BY <1>1 DEF StatementTyped, OnPin, OnObject, OnThing

LEMMA DoOnNobody ==
  ASSUME NEW op \in OnNobody
  PROVE  /\ Do(op, NULL) \in Stmt /\ Do(op, NULL).op = op /\ Do(op, NULL).t = NULL
         /\ StatementTyped(Do(op, NULL))
<1>1. Do(op, NULL) \in Stmt /\ Do(op, NULL).op = op /\ Do(op, NULL).t = NULL
  BY DoStmt DEF Ops, Args
<1>2. QED BY <1>1 DEF StatementTyped, OnPin, OnObject, OnThing, OnNobody

LEMMA DoDestroyBody ==
  ASSUME NEW t \in Objects \cup {BG}
  PROVE  /\ Do("DestroyBody", t) \in Stmt /\ Do("DestroyBody", t).op = "DestroyBody"
         /\ Do("DestroyBody", t).t = t /\ StatementTyped(Do("DestroyBody", t))
<1>1. /\ Do("DestroyBody", t) \in Stmt /\ Do("DestroyBody", t).op = "DestroyBody"
      /\ Do("DestroyBody", t).t = t
  <2>1. "DestroyBody" \in Ops /\ t \in Args
    BY DEF Ops, Args, Things
  <2>2. QED BY <2>1, DoStmt
<1>2. QED BY <1>1 DEF StatementTyped, OnPin, OnObject, OnThing

LEMMA ThenPushes ==
  ASSUME TodoTyped, todo # <<>>, NEW s \in Seq(Stmt), Then(s)
  PROVE  /\ Push(s) /\ todo' \in Seq(Stmt)
         /\ todo' = <<>> => call' = "none"
         /\ todo' # <<>> => call' = call
         /\ todo' = <<>> <=> Len(todo') = 0
<1>1. todo \in Seq(Stmt) /\ Tail(todo) \in Seq(Stmt) /\ Len(Tail(todo)) = Len(todo) - 1
      /\ \A i \in 1..Len(Tail(todo)) : Tail(todo)[i] = todo[i + 1]
  BY HeadTailProperties DEF TodoTyped
<1>2. Len(todo) \in Nat \ {0} /\ Len(s) \in Nat
  BY <1>1, EmptySeq, LenProperties
<1>3. todo' = s \o Tail(todo)
  BY DEF Then
<1>4. /\ todo' \in Seq(Stmt) /\ Len(todo') = Len(s) + (Len(todo) - 1)
      /\ \A i \in 1..Len(s) + (Len(todo) - 1) :
            todo'[i] = IF i <= Len(s) THEN s[i] ELSE Tail(todo)[i - Len(s)]
  BY <1>1, <1>3, ConcatProperties
<1>5. \A k \in 1..Len(s) : todo'[k] = s[k]
  BY <1>2, <1>4
<1>6. \A k \in 2..Len(todo) : todo'[k - 1 + Len(s)] = todo[k]
  <2>1. TAKE k \in 2..Len(todo)
  <2>2. k - 1 + Len(s) \in 1..Len(s) + (Len(todo) - 1) /\ ~ (k - 1 + Len(s) <= Len(s))
    BY <1>2
  <2>3. todo'[k - 1 + Len(s)] = Tail(todo)[k - 1 + Len(s) - Len(s)]
    BY <1>4, <2>2
  <2>4. k - 1 + Len(s) - Len(s) = k - 1 /\ k - 1 \in 1..Len(Tail(todo)) /\ k - 1 + 1 = k
    BY <1>1, <1>2
  <2>5. QED BY <1>1, <2>3, <2>4
<1>7. \A k \in 1..Len(todo') : k <= Len(s) \/ todo'[k] = todo[k + 1 - Len(s)]
  <2>1. SUFFICES ASSUME NEW k \in 1..Len(todo'), ~ (k <= Len(s))
                 PROVE  todo'[k] = todo[k + 1 - Len(s)]
    OBVIOUS
  <2>2. k + 1 - Len(s) \in 2..Len(todo) /\ k + 1 - Len(s) - 1 + Len(s) = k
    BY <1>2, <1>4, <2>1
  <2>3. QED BY <1>6, <2>2
<1>8. todo' = <<>> <=> Len(todo') = 0
  BY <1>4, EmptySeq
<1>9. QED BY <1>2, <1>4, <1>5, <1>6, <1>7, <1>8 DEF Push, Then

\* The statements behind the first move by Len(s) - 1 places.
LEMMA Behind ==
  ASSUME NEW s, Push(s), NEW k \in 1..Len(todo'), k > Len(s)
  PROVE  /\ k + 1 - Len(s) \in 2..Len(todo) /\ todo'[k] = todo[k + 1 - Len(s)]
         /\ k - (k + 1 - Len(s)) = Len(s) - 1
BY DEF Push

LEMMA InFront ==
  ASSUME NEW s, Push(s), NEW k \in 1..Len(todo')
  PROVE  \/ k <= Len(s) /\ k \in 1..Len(s) /\ todo'[k] = s[k]
         \/ k > Len(s) /\ ~ (k <= Len(s))
BY DEF Push

LEMMA TypedAfter ==
  ASSUME TodoTyped, NEW s \in Seq(Stmt), Push(s), todo' \in Seq(Stmt),
         \A k \in 1..Len(s) : StatementTyped(s[k])
  PROVE  TodoTyped'
<1>1. ASSUME NEW k \in 1..Len(todo') PROVE StatementTyped(todo'[k])
  <2>1. CASE k <= Len(s)
    BY <2>1 DEF Push
  <2>2. CASE k > Len(s)
    BY <2>2, Behind DEF TodoTyped
  <2>3. QED BY <2>1, <2>2 DEF Push
<1>2. QED BY <1>1 DEF TodoTyped, StatementTyped
-----------------------------------------------------------------------------
(***************************************************************************)
(* What stays true of the statements behind the first.  In each lemma, s   *)
(* takes the place of the first statement, as in Push.                     *)
(***************************************************************************)
Pairs == {"setb2Joint(0)", "DestroyJoint", "CreateJoint", "CreateBody", "DestroyBody"}
Close == AtOnce \cup {"DestroyJoint", "setb2Joint", "setb2Body", "setb2Body(0)", "DestroyBody"}

LEMMA CloseOnlyInPairs ==
  ASSUME PairsKept, todo \in Seq(Stmt), todo # <<>>, todo[1].op \notin Pairs
  PROVE  \A k \in 2..Len(todo) : todo[k].op \notin Close
<1>0. Len(todo) \in Nat \ {0}
  BY EmptySeq
<1>1. \A k \in 2..Len(todo) : PairKept(k)
  BY <1>0 DEF PairsKept
<1>2. \A k \in 2..Len(todo) : todo[k].op # "DestroyBody"
  BY <1>0, <1>1 DEF PairKept, Pairs
<1>3. \A k \in 2..Len(todo) : todo[k].op \notin AtOnce \cup {"DestroyJoint", "setb2Joint", "setb2Body"}
  BY <1>0, <1>1 DEF PairKept, Pairs, Next1, Is
<1>4. \A k \in 2..Len(todo) : todo[k].op # "setb2Body(0)"
  <2>1. SUFFICES ASSUME NEW k \in 2..Len(todo), todo[k].op = "setb2Body(0)" PROVE FALSE
    OBVIOUS
  <2>2. k - 1 \in 1..Len(todo) /\ todo[k - 1].op = "DestroyBody"
    BY <1>0, <1>1, <2>1 DEF PairKept, Is
  <2>3. CASE k = 2
    BY <2>2, <2>3 DEF Pairs
  <2>4. CASE k > 2
    BY <1>0, <1>2, <2>2, <2>4
  <2>5. QED BY <2>3, <2>4
<1>5. QED BY <1>2, <1>3, <1>4 DEF Close

LEMMA PairsAfter ==
  ASSUME PairsKept, TodoTyped, NEW s, Push(s), todo[1].op \notin Pairs,
         \A k \in 1..Len(s) : PairKept(k)'
  PROVE  PairsKept'
<1>1. \A k \in 2..Len(todo) : todo[k].op \notin Close
  BY CloseOnlyInPairs DEF Push, TodoTyped
<1>2. ASSUME NEW k \in 1..Len(todo') PROVE PairKept(k)'
  <2>1. CASE k <= Len(s)
    BY <2>1 DEF Push
  <2>2. CASE k > Len(s)
    <3>1. todo'[k].op \notin Close
      BY <1>1, <2>2, Behind
    <3>2. QED BY <3>1 DEF PairKept, Close, AtOnce
  <2>3. QED BY <2>1, <2>2 DEF Push
<1>3. QED BY <1>2 DEF PairsKept

\* Nothing is moving up unless a removal is at work.
LEMMA NotShifting ==
  ASSUME ArrayShape, TypeOK, todo \in Seq(Stmt), todo # <<>>,
         todo[1].op \notin Freeing \cup {"moveUp", "n_things--"}
  PROVE  /\ \A k \in 1..Len(todo) : todo[k].op \notin {"n_things--", "moveUp"}
         /\ Whole
<1>0. Len(todo) \in Nat \ {0} /\ n_things \in Nat
  BY EmptySeq, DrawAssumption DEF TypeOK
<1>1. ASSUME NEW k \in 1..Len(todo), todo[k].op = "n_things--" PROVE FALSE
  <2>1. PICK h \in 0..n_things : Shift(k, h)
    BY <1>1 DEF ArrayShape, Shifting
  <2> DEFINE first == k - (n_things - h)
  <2>2. first \in 1..k
    BY <1>0, <2>1 DEF Shift
  <2>3. CASE first > 1
    <3>1. 1 \in 1..first - 1
      BY <2>2, <2>3
    <3>2. QED BY <2>1, <3>1 DEF Shift
  <2>4. CASE first = 1 /\ k > 1
    <3>1. 1 \in first..k - 1
      BY <2>4
    <3>2. QED BY <2>1, <3>1 DEF Shift
  <2>5. CASE k = 1
    BY <1>1, <2>5
  <2>6. QED BY <2>2, <2>3, <2>4, <2>5
<1>2. \A k \in 1..Len(todo) : todo[k].op # "moveUp"
  <2>1. SUFFICES ASSUME NEW k \in 1..Len(todo), todo[k].op = "moveUp" PROVE FALSE
    OBVIOUS
  <2>2. PICK j \in k + 1..Len(todo) : todo[j].op = "n_things--"
    BY <2>1 DEF ArrayShape
  <2>3. j \in 1..Len(todo)
    BY <1>0, <2>2
  <2>4. QED BY <1>1, <2>2, <2>3
<1>3. QED BY <1>1, <1>2 DEF ArrayShape

LEMMA ArrayAfter ==
  ASSUME ArrayShape, TypeOK, TodoTyped, NEW s, Push(s),
         todo[1].op \notin Freeing \cup {"moveUp", "n_things--", "n_things++"},
         UNCHANGED <<slots, n_things>>, \A t \in Physical' : InArray(t),
         \A k \in 1..Len(s) : s[k].op \notin {"n_things--", "moveUp"}
  PROVE  ArrayShape'
<1>1. /\ \A k \in 1..Len(todo) : todo[k].op \notin {"n_things--", "moveUp"}
      /\ Whole
  BY NotShifting DEF TodoTyped, Push
<1>2. ASSUME NEW k \in 1..Len(todo') PROVE todo'[k].op \notin {"n_things--", "moveUp"}
  <2>1. CASE k <= Len(s)
    BY <2>1 DEF Push
  <2>2. CASE k > Len(s)
    BY <1>1, <2>2, Behind
  <2>3. QED BY <2>1, <2>2 DEF Push
<1>3. JunkBehind'
  BY DEF ArrayShape, JunkBehind, Next1, Is
<1>4. Whole'
  BY <1>1 DEF Whole, InArray
<1>5. QED BY <1>2, <1>3, <1>4 DEF ArrayShape

\* The statements s go on freeing what the first one was about to free.
HandsOver(s) ==
  \A t \in Physical' : Frees(1, t) =>
    \E j \in 1..Len(s), op \in {"makeUnphysical", "setb2Joint(0)", "setb2Body(0)"} :
      s[j].op = op /\ s[j].t = t

LEMMA FreesAfter ==
  ASSUME NEW s, Push(s), HandsOver(s), NEW t \in Physical',
         NEW j \in 1..Len(todo), Frees(j, t)
  PROVE  \E i \in 1..j - 1 + Len(s) : Frees(i, t)'
<1>1. CASE j = 1
  <2>1. PICK i \in 1..Len(s), op \in {"makeUnphysical", "setb2Joint(0)", "setb2Body(0)"} :
           s[i].op = op /\ s[i].t = t
    BY <1>1 DEF HandsOver
  <2>2. i \in 1..Len(todo') /\ todo'[i] = s[i] /\ i \in 1..j - 1 + Len(s)
    BY <1>1 DEF Push
  <2>3. QED BY <2>1, <2>2 DEF Frees, Is
<1>2. CASE j > 1
  <2>1. j - 1 + Len(s) \in 1..Len(todo') /\ todo'[j - 1 + Len(s)] = todo[j]
    BY <1>2 DEF Push
  <2>2. j - 1 + Len(s) \in 1..j - 1 + Len(s)
    BY <1>2 DEF Push
  <2>3. QED BY <2>1, <2>2 DEF Frees, Is
<1>3. QED BY <1>1, <1>2

LEMMA ShiftAfter ==
  ASSUME TypeOK, NEW s, Push(s), HandsOver(s), todo[1].op \in Freeing,
         UNCHANGED <<slots, n_things>>, Physical' \subseteq Physical,
         \A k \in 1..Len(s) : s[k].op \in Freeing,
         NEW k \in 2..Len(todo), todo[k].op = "n_things--", Shifting(k)
  PROVE  Shifting(k - 1 + Len(s))'
<1>0. n_things \in Nat /\ Len(todo) \in Nat \ {0} /\ Len(s) \in Nat
  BY DrawAssumption DEF TypeOK, Push
<1>1. PICK h \in 0..n_things : Shift(k, h)
  BY DEF Shifting
<1>a. PICK t : t = todo[k].t
  OBVIOUS
<1>b. PICK l : l = k - 1 + Len(s)
  OBVIOUS
<1>c. PICK first : first = k - (n_things - h)
  OBVIOUS
<1>d. PICK later : later = l - (n_things - h)
  OBVIOUS
<1>2. /\ Hole(t, h) /\ first >= 1
      /\ \A j \in first..k - 1 : todo[j].op = "moveUp" /\ todo[j].t = n_things - (k - j)
      /\ \A j \in 1..first - 1 : todo[j].op \in Freeing
      /\ first > 1 => h < n_things /\ slots[h] = t
      /\ t \in Physical => \E j \in 1..first - 1 : Frees(j, t)
  BY <1>1, <1>a, <1>c DEF Shift
<1>3. /\ first \in 1..k /\ later = first - 1 + Len(s) /\ l = k - 1 + Len(s)
      /\ l \in 1..Len(todo') /\ todo'[l] = todo[k] /\ k \in 2..Len(todo)
      /\ later = l - (n_things - h) /\ todo'[l].t = t
  BY <1>0, <1>2, <1>a, <1>b, <1>c, <1>d DEF Push
<1>4. first > 1
  <2>1. SUFFICES ASSUME first = 1 PROVE FALSE
    BY <1>3
  <2>2. 1 \in first..k - 1
    BY <1>3, <2>1
  <2>3. QED BY <1>2, <2>2 DEF Freeing
<1>5. Hole(t, h)'
  <2>1. \A u \in Physical' \ {t} : u \in Physical \ {t}
    OBVIOUS
  <2>2. QED BY <1>2, <2>1 DEF Hole, Kept
<1>6. later >= 1 /\ slots[h] = t /\ h < n_things
  BY <1>0, <1>2, <1>3, <1>4
<1>7. \A j \in later..l - 1 : todo'[j].op = "moveUp" /\ todo'[j].t = n_things - (l - j)
  <2>1. TAKE j \in later..l - 1
  <2> DEFINE i == j + 1 - Len(s)
  <2>2. i \in first..k - 1 /\ j \in 1..Len(todo') /\ j > Len(s) /\ l - j = k - i
    BY <1>0, <1>3, <1>4
  <2>3. todo'[j] = todo[i]
    BY <2>2, Behind
  <2> HIDE DEF i
  <2>4. QED BY <1>2, <2>2, <2>3
<1>8. \A j \in 1..later - 1 : todo'[j].op \in Freeing
  <2>1. TAKE j \in 1..later - 1
  <2>2. j \in 1..Len(todo')
    BY <1>0, <1>3
  <2>3. CASE j <= Len(s)
    <3>1. j \in 1..Len(s) /\ todo'[j] = s[j]
      BY <1>0, <2>3 DEF Push
    <3>2. QED BY <3>1
  <2>4. CASE j > Len(s)
    <3>1. todo'[j] = todo[j + 1 - Len(s)] /\ j + 1 - Len(s) \in 1..first - 1
      BY <1>0, <1>3, <2>2, <2>4, Behind
    <3>2. QED BY <1>2, <3>1
  <2>5. QED BY <1>0, <2>3, <2>4
<1>9. ASSUME t \in Physical' PROVE \E j \in 1..later - 1 : Frees(j, t)'
  <2>2. PICK j \in 1..first - 1 : Frees(j, t)
    BY <1>2, <1>9
  <2>3. j \in 1..Len(todo)
    BY <1>0, <1>3, <2>2
  <2>4. PICK i \in 1..j - 1 + Len(s) : Frees(i, t)'
    BY <1>9, <2>2, <2>3, FreesAfter
  <2>5. i \in 1..later - 1
    BY <1>0, <1>3, <2>2, <2>4
  <2>6. QED BY <2>4, <2>5
<1>10. Shift(l, h)'
  <2>1. n_things' = n_things /\ slots' = slots /\ todo'[l].t = t /\ later = l - (n_things' - h)
    BY <1>3
  <2>2. QED BY <1>3, <1>5, <1>6, <1>7, <1>8, <1>9, <2>1 DEF Shift
<1>11. QED BY <1>10, <1>3 DEF Shifting

LEMMA ArrayFreeing ==
  ASSUME ArrayShape, TypeOK, TodoTyped, NEW s, Push(s), HandsOver(s), todo[1].op \in Freeing,
         UNCHANGED <<slots, n_things>>, Physical' \subseteq Physical,
         \A k \in 1..Len(s) : s[k].op \in Freeing
  PROVE  ArrayShape'
<1>0. Len(todo) \in Nat \ {0} /\ Len(s) \in Nat
  BY DEF Push
<1>1. ASSUME NEW k \in 1..Len(todo'), todo'[k].op \notin Freeing
      PROVE  /\ k > Len(s) /\ k + 1 - Len(s) \in 2..Len(todo)
             /\ todo'[k] = todo[k + 1 - Len(s)] /\ k + 1 - Len(s) - 1 + Len(s) = k
  <2>1. k > Len(s)
    BY <1>0, <1>1 DEF Push
  <2>2. QED BY <1>0, <2>1, Behind
<1>2. ASSUME NEW k \in 1..Len(todo'), todo'[k].op = "n_things--" PROVE Shifting(k)'
  <2> DEFINE j == k + 1 - Len(s)
  <2>1. j \in 2..Len(todo) /\ todo[j].op = "n_things--" /\ j - 1 + Len(s) = k
    BY <1>1, <1>2 DEF Freeing
  <2>2. Shifting(j)
    BY <2>1 DEF ArrayShape
  <2>3. Shifting(j - 1 + Len(s))'
    <3> HIDE DEF j
    <3> QED BY <2>1, <2>2, ShiftAfter
  <2>4. QED BY <2>1, <2>3
<1>3. ASSUME NEW k \in 1..Len(todo'), todo'[k].op = "moveUp"
      PROVE  \E i \in k + 1..Len(todo') : todo'[i].op = "n_things--"
  <2>1. k + 1 - Len(s) \in 2..Len(todo) /\ todo[k + 1 - Len(s)].op = "moveUp"
    BY <1>1, <1>3 DEF Freeing
  <2>2. PICK i \in k + 1 - Len(s) + 1..Len(todo) : todo[i].op = "n_things--"
    BY <2>1 DEF ArrayShape
  <2>3. i - 1 + Len(s) \in k + 1..Len(todo') /\ todo'[i - 1 + Len(s)] = todo[i]
    BY <1>0, <2>1, <2>2 DEF Push
  <2>4. QED BY <2>2, <2>3
<1>4. JunkBehind'
  BY DEF ArrayShape, JunkBehind, Next1, Is, Freeing
<1>5. (\A k \in 1..Len(todo') : todo'[k].op # "n_things--") => Whole'
  <2>1. SUFFICES ASSUME \A k \in 1..Len(todo') : todo'[k].op # "n_things--" PROVE Whole'
    OBVIOUS
  <2>2. \A k \in 1..Len(todo) : todo[k].op # "n_things--"
    <3>1. SUFFICES ASSUME NEW k \in 1..Len(todo), todo[k].op = "n_things--" PROVE FALSE
      OBVIOUS
    <3>2. k \in 2..Len(todo)
      BY <1>0, <3>1 DEF Freeing
    <3>3. k - 1 + Len(s) \in 1..Len(todo') /\ todo'[k - 1 + Len(s)] = todo[k]
      BY <1>0, <3>2 DEF Push
    <3>4. QED BY <2>1, <3>1, <3>3
  <2>3. Whole
    BY <2>2 DEF ArrayShape
  <2>4. QED BY <2>3 DEF Whole, InArray
<1>6. QED BY <1>2, <1>3, <1>4, <1>5 DEF ArrayShape

LEMMA AddAfter ==
  ASSUME TodoTyped, PairsKept, NEW s, Push(s), \A k \in 1..Len(s) : s[k].op \notin Adding
  PROVE  AddGoesOn'
<1>1. CASE Len(todo') = 0
  BY <1>1, EmptySeq DEF AddGoesOn, Push, TodoTyped
<1>2. CASE Len(todo') > 0
  <2>1. 1 \in 1..Len(todo')
    BY <1>2 DEF Push
  <2>2. todo'[1].op \notin Adding
    <3>1. CASE Len(s) > 0
      BY <3>1 DEF Push
    <3>2. CASE Len(s) = 0
      <4>1. todo'[1] = todo[2] /\ 2 \in 1..Len(todo)
        BY <2>1, <3>2 DEF Push
      <4>2. QED BY <4>1 DEF PairsKept, PairKept, AtOnce, Adding
    <3>3. QED BY <3>1, <3>2 DEF Push
  <2>3. QED BY <2>2 DEF AddGoesOn
<1>3. QED BY <1>1, <1>2 DEF Push

LEMMA MadeAfter ==
  ASSUME InOrder, NEW s, Push(s), \A k \in 1..Len(s) : MadeInArray(k)',
         \/ todo[1].op \in Removing \cup {"load"}
         \/ /\ todo[1].op \notin Adding /\ UNCHANGED <<slots, n_things>>
            /\ \A k \in 1..Len(s) : s[k].op \notin Removing \cup {"load"}
  PROVE  \A k \in 1..Len(todo') : MadeInArray(k)'
<1>1. ASSUME NEW k \in 1..Len(todo'), k > Len(s), todo'[k].op \in Making
      PROVE  MadeInArray(k)'
  <2>0. PICK j, t : j = k + 1 - Len(s) /\ t = todo'[k].t
    OBVIOUS
  <2>1. j \in 2..Len(todo) /\ todo'[k] = todo[j] /\ k = j - 1 + Len(s) /\ Len(s) \in Nat
    BY <1>1, <2>0, Behind DEF Push
  <2>2. /\ InArray(todo[j].t) \/ (\E op \in Adding : Next1(op, todo[j].t))
        /\ \A i \in 1..j - 1 : todo[i].op \notin Removing \cup {"load"}
    BY <1>1, <2>1 DEF InOrder, MadeInArray, Push
  <2>3. 1 \in 1..j - 1
    BY <2>1
  <2>4. /\ todo[1].op \notin Adding /\ UNCHANGED <<slots, n_things>>
        /\ \A i \in 1..Len(s) : s[i].op \notin Removing \cup {"load"}
    BY <2>2, <2>3
  <2>5. InArray(t)'
    <3>1. InArray(t)
      BY <2>0, <2>1, <2>2, <2>4 DEF Next1, Is
    <3>2. QED BY <3>1, <2>4 DEF InArray
  <2>6. ASSUME NEW i \in 1..k - 1 PROVE todo'[i].op \notin Removing \cup {"load"}
    <3>1. i \in 1..Len(todo')
      OBVIOUS
    <3>2. CASE i <= Len(s)
      <4>1. i \in 1..Len(s) /\ todo'[i] = s[i]
        BY <3>1, <3>2, InFront
      <4>2. QED BY <2>4, <4>1
    <3>3. CASE i > Len(s)
      <4>1. i + 1 - Len(s) \in 1..j - 1 /\ todo'[i] = todo[i + 1 - Len(s)]
        BY <2>1, <3>1, <3>3, Behind
      <4>2. QED BY <2>2, <4>1
    <3>4. QED BY <2>1, <3>2, <3>3
  <2>7. QED BY <2>0, <2>5, <2>6 DEF MadeInArray
<1>2. QED BY <1>1, InFront DEF MadeInArray

LEMMA GoneAfter ==
  ASSUME InOrder, TodoTyped, NEW s, Push(s), \A k \in 1..Len(s) : GoneBefore(k)',
         \A t \in Things : InArray(t)' => InArray(t),
         todo[1].op = "remove" =>
           \E i \in 1..Len(s) : s[i].op = "n_things--" /\ s[i].t = todo[1].t,
         \A t \in Things : Next1("n_things--", t) => ~ InArray(t)'
  PROVE  \A k \in 1..Len(todo') : GoneBefore(k)'
<1>1. ASSUME NEW k \in 1..Len(todo'), k > Len(s), todo'[k].op \in {"delete", "removePins"}
      PROVE  GoneBefore(k)'
  <2>0. PICK j, t : j = k + 1 - Len(s) /\ t = todo'[k].t
    OBVIOUS
  <2>1. j \in 2..Len(todo) /\ todo'[k] = todo[j] /\ k = j - 1 + Len(s) /\ Len(s) \in Nat
    BY <1>1, <2>0, Behind DEF Push
  <2>2. t \in Things
    BY <1>1, <2>0, <2>1 DEF TodoTyped, StatementTyped, OnThing
  <2>3. \/ ~ InArray(t)
        \/ \E i \in 1..j - 1 : Is(i, "remove", t) \/ Is(i, "n_things--", t)
    <3>1. GoneBefore(j)
      BY <2>1 DEF InOrder
    <3>2. QED BY <1>1, <2>0, <2>1, <3>1 DEF GoneBefore
  <2>4. CASE ~ InArray(t)
    BY <2>0, <2>2, <2>4 DEF GoneBefore
  <2>5. CASE \E i \in 2..j - 1 : Is(i, "remove", t) \/ Is(i, "n_things--", t)
    <3>1. PICK i \in 2..j - 1 : Is(i, "remove", t) \/ Is(i, "n_things--", t)
      BY <2>5
    <3>2. i \in 2..Len(todo) /\ i - 1 + Len(s) \in 1..k - 1
      BY <2>1, <3>1
    <3>3. todo'[i - 1 + Len(s)] = todo[i]
      BY <3>2 DEF Push
    <3>4. i - 1 + Len(s) \in 1..Len(todo')
      BY <2>1, <3>2 DEF Push
    <3>5. Is(i - 1 + Len(s), "remove", t)' \/ Is(i - 1 + Len(s), "n_things--", t)'
      BY <3>1, <3>3, <3>4 DEF Is
    <3>6. QED BY <2>0, <3>2, <3>5 DEF GoneBefore
  <2>6. CASE Is(1, "remove", t)
    <3>1. PICK i \in 1..Len(s) : s[i].op = "n_things--" /\ s[i].t = t
      BY <2>6 DEF Is
    <3>2. i \in 1..k - 1 /\ i \in 1..Len(todo') /\ todo'[i] = s[i]
      BY <1>1, <2>1, <3>1 DEF Push
    <3>3. QED BY <2>0, <3>1, <3>2 DEF GoneBefore, Is
  <2>7. CASE Is(1, "n_things--", t)
    <3>1. ~ InArray(t)'
      BY <2>2, <2>7 DEF Next1
    <3>2. QED BY <2>0, <3>1 DEF GoneBefore
  <2>8. QED BY <2>1, <2>3, <2>4, <2>5, <2>6, <2>7
<1>2. QED BY <1>1, InFront DEF GoneBefore

LEMMA FoundAfter ==
  ASSUME InOrder, NEW s, Push(s), \A k \in 1..Len(s) : Found(k)'
  PROVE  \A k \in 1..Len(todo') : Found(k)'
<1>1. ASSUME NEW k \in 1..Len(todo'), k > Len(s) PROVE todo'[k].op # "remove"
  <2>1. k + 1 - Len(s) \in 2..Len(todo) /\ todo'[k] = todo[k + 1 - Len(s)]
    BY <1>1, Behind
  <2>2. QED BY <2>1 DEF InOrder, Found
<1>2. QED BY <1>1, InFront DEF Found

LEMMA FreedAfter ==
  ASSUME InOrder, NEW s, Push(s), \A k \in 1..Len(s) : FreedBefore(k)',
         \/ todo[1].op \notin Freeing
         \/ /\ \A k \in 1..Len(s) : s[k].op \in Freeing
            /\ Physical' \subseteq Physical /\ HandsOver(s)
  PROVE  \A k \in 1..Len(todo') : FreedBefore(k)'
<1>1. ASSUME NEW k \in 1..Len(todo'), k > Len(s), todo'[k].op = "initPhysics"
      PROVE  FreedBefore(k)'
  <2>0. PICK j : j = k + 1 - Len(s)
    OBVIOUS
  <2>1. j \in 2..Len(todo) /\ todo'[k] = todo[j] /\ k = j - 1 + Len(s) /\ Len(s) \in Nat
    BY <1>1, <2>0, Behind DEF Push
  <2>2. /\ \A i \in 1..j - 1 : todo[i].op \in Freeing
        /\ \A t \in Physical : \E i \in 1..j - 1 : Frees(i, t)
    <3>1. FreedBefore(j)
      BY <2>1 DEF InOrder
    <3>2. QED BY <1>1, <2>1, <3>1 DEF FreedBefore
  <2>3. /\ \A i \in 1..Len(s) : s[i].op \in Freeing
        /\ Physical' \subseteq Physical /\ HandsOver(s)
    BY <2>1, <2>2
  <2>4. ASSUME NEW i \in 1..k - 1 PROVE todo'[i].op \in Freeing
    <3>1. i \in 1..Len(todo')
      OBVIOUS
    <3>2. CASE i <= Len(s)
      <4>1. i \in 1..Len(s) /\ todo'[i] = s[i]
        BY <3>1, <3>2, InFront
      <4>2. QED BY <2>3, <4>1
    <3>3. CASE i > Len(s)
      <4>1. i + 1 - Len(s) \in 1..j - 1 /\ todo'[i] = todo[i + 1 - Len(s)]
        BY <2>1, <3>1, <3>3, Behind
      <4>2. QED BY <2>2, <4>1
    <3>4. QED BY <2>1, <3>2, <3>3
  <2>5. ASSUME NEW t \in Physical' PROVE \E i \in 1..k - 1 : Frees(i, t)'
    <3>1. PICK i \in 1..j - 1 : Frees(i, t)
      BY <2>2, <2>3, <2>5
    <3>2. i \in 1..Len(todo)
      BY <2>1, <3>1
    <3>3. PICK m \in 1..i - 1 + Len(s) : Frees(m, t)'
      BY <2>3, <2>5, <3>1, <3>2, FreesAfter
    <3>4. m \in 1..k - 1
      BY <2>1, <3>1, <3>3
    <3>5. QED BY <3>3, <3>4
  <2>6. QED BY <2>4, <2>5 DEF FreedBefore
<1>2. QED BY <1>1, InFront DEF FreedBefore

LEMMA LoadsAfter ==
  ASSUME InOrder, TypeOK, NEW s, Push(s), \A k \in 1..Len(s) : s[k].op # "load",
         todo[1].op \notin Adding \cup {"load"},
         todo[1].op \in Making =>
           n_things' = n_things /\ \A k \in 1..Len(s) : s[k].op \in Making,
         todo[1].op = "clear" =>
           \/ Len(s) = 0 /\ n_things' = 0
           \/ Len(s) > 0 /\ s[Len(s)].op = "clear"
  PROVE  \A k \in 1..Len(todo') : LoadsNext(k)'
<1>1. ASSUME NEW k \in 1..Len(todo'), k > Len(s), todo'[k].op = "load"
      PROVE  LoadsNext(k)'
  <2>0. PICK j, f, ids : j = k + 1 - Len(s) /\ f = todo'[k].t.f /\ ids = todo'[k].t.ids
    OBVIOUS
  <2>c. k + 1 - Len(s) \in 2..Len(todo) /\ todo'[k] = todo[k + 1 - Len(s)]
    BY <1>1, Behind
  <2>1. j \in 2..Len(todo) /\ todo'[k] = todo[j] /\ k = j - 1 + Len(s) /\ Len(s) \in Nat
        /\ Len(todo') = Len(s) + Len(todo) - 1 /\ Len(todo) \in Nat
    BY <2>0, <2>c DEF Push
  <2>a. LoadsNext(j) /\ j \in 1..Len(todo) /\ j > 1 /\ todo[j].op = "load"
        /\ f = todo[j].t.f /\ ids = todo[j].t.ids
    BY <1>1, <2>0, <2>1 DEF InOrder
  <2>2. /\ j = Len(todo) /\ Len(ids) <= Len(f.elements)
        /\ \A i \in 1..Len(ids) : ids[i] \in Pins <=> f.elements[i].pin
        /\ \/ todo[j - 1].op = "clear" /\ ids = <<>>
           \/ n_things = Len(ids) /\ \A i \in 1..j - 1 : todo[i].op \in Making
    BY <2>a DEF LoadsNext
  <2>3. k = Len(todo')
    BY <2>1, <2>2
  <2>b. PICK a, b : a = Len(s) /\ b = Len(todo)
    OBVIOUS
  <2>d. a \in Nat /\ b \in Nat /\ j \in 2..b /\ j \in Int /\ k = j - 1 + a /\ k \in Int
    BY <2>1, <2>b
  <2>4. CASE j > 2 /\ todo[j - 1].op = "clear" /\ ids = <<>>
    <3>a. j - 1 \in 2..b /\ j - 1 - 1 + a = k - 1
      BY <2>d, <2>4
    <3>1. j - 1 \in 2..Len(todo) /\ j - 1 - 1 + Len(s) = k - 1
      BY <2>b, <3>a
    <3>2. todo'[k - 1] = todo[j - 1] /\ k > 1
      BY <2>1, <3>1 DEF Push
    <3>3. QED BY <2>0, <2>2, <2>3, <2>4, <3>2 DEF LoadsNext
  <2>5. CASE j = 2 /\ todo[1].op = "clear" /\ ids = <<>>
    <3>1. CASE Len(s) = 0 /\ n_things' = 0
      <4>1. Len(ids) = 0 /\ k = 1
        BY <2>1, <2>5, <3>1
      <4>2. QED BY <2>0, <2>2, <2>3, <3>1, <4>1 DEF LoadsNext
    <3>2. CASE Len(s) > 0 /\ s[Len(s)].op = "clear"
      <4>1. k > 1 /\ todo'[k - 1] = s[Len(s)]
        BY <2>1, <2>5, <3>2 DEF Push
      <4>2. QED BY <2>0, <2>2, <2>3, <2>5, <3>2, <4>1 DEF LoadsNext
    <3>3. QED BY <2>5, <3>1, <3>2
  <2>6. CASE n_things = Len(ids) /\ \A i \in 1..j - 1 : todo[i].op \in Making
    <3>1. n_things' = n_things /\ \A i \in 1..Len(s) : s[i].op \in Making
      BY <2>1, <2>6
    <3>2. ASSUME NEW i \in 1..k - 1 PROVE todo'[i].op \in Making
      <4>1. i \in 1..Len(todo')
        OBVIOUS
      <4>2. CASE i <= Len(s)
        <5>1. i \in 1..Len(s) /\ todo'[i] = s[i]
          BY <4>1, <4>2, InFront
        <5>2. QED BY <3>1, <5>1
      <4>3. CASE i > Len(s)
        <5>a. i + 1 - Len(s) \in 2..Len(todo) /\ todo'[i] = todo[i + 1 - Len(s)]
          BY <4>1, <4>3, Behind
        <5>b. i \in Int /\ i <= k - 1 /\ i > a
          BY <2>b, <2>d, <4>3
        <5>c. i + 1 - a <= j - 1 /\ i + 1 - a \in Int /\ i + 1 - a >= 1
          BY <2>d, <5>b
        <5>1. i + 1 - Len(s) \in 1..j - 1 /\ todo'[i] = todo[i + 1 - Len(s)]
          BY <2>b, <2>d, <5>a, <5>c
        <5>2. QED BY <2>6, <5>1
      <4>4. QED BY <2>1, <4>2, <4>3
    <3>3. QED BY <2>0, <2>2, <2>3, <2>6, <3>1, <3>2 DEF LoadsNext
  <2>7. QED BY <2>1, <2>2, <2>4, <2>5, <2>6
<1>2. ASSUME NEW k \in 1..Len(s) PROVE k \in 1..Len(todo') => LoadsNext(k)'
  BY <1>2 DEF LoadsNext, Push
<1>3. QED BY <1>1, <1>2, InFront DEF LoadsNext

LEMMA DrawingAfter ==
  ASSUME DrawingOff, TypeOK, NEW s, Push(s), todo' # <<>> => call' = call,
         todo' = <<>> => call' = "none", todo' = <<>> <=> Len(todo') = 0,
         dont_draw_things' = dont_draw_things,
         todo[1].op \notin {"disableDrawing", "enableDrawing"},
         \A k \in 1..Len(s) : s[k].op \notin {"disableDrawing", "enableDrawing"}
  PROVE  DrawingOff'
<1>0. Len(todo) \in Nat \ {0} /\ Len(s) \in Nat /\ Len(todo') = Len(s) + Len(todo) - 1
  BY DEF Push
<1>1. ASSUME call \in {"stopPlay", "zap"}
      PROVE  /\ call' = call /\ todo'[Len(todo')].op = "enableDrawing" /\ dont_draw_things
  <2>1. Len(todo) \in 2..Len(todo) /\ todo[Len(todo)].op = "enableDrawing" /\ dont_draw_things
    BY <1>0, <1>1 DEF DrawingOff
  <2>2. todo'[Len(todo) - 1 + Len(s)] = todo[Len(todo)] /\ Len(todo) - 1 + Len(s) = Len(todo')
    BY <1>0, <2>1 DEF Push
  <2>3. QED BY <1>0, <2>1, <2>2
<1>2. ASSUME NEW k \in 1..Len(todo'), todo'[k].op \in {"disableDrawing", "enableDrawing"}
      PROVE  /\ call \in {"stopPlay", "zap"}
             /\ todo'[k].op = "enableDrawing" =>
                  k = Len(todo') \/ todo'[k + 1].op = "disableDrawing"
  <2>0. PICK j : j = k + 1 - Len(s)
    OBVIOUS
  <2>1. k > Len(s)
    BY <1>0, <1>2 DEF Push
  <2>2. j \in 2..Len(todo) /\ todo'[k] = todo[j] /\ k = j - 1 + Len(s)
    BY <1>0, <2>0, <2>1, Behind
  <2>3. /\ call \in {"stopPlay", "zap"}
        /\ todo[j].op = "enableDrawing" => j = Len(todo) \/ todo[j + 1].op = "disableDrawing"
    BY <1>2, <2>2 DEF DrawingOff
  <2>4. CASE j = Len(todo)
    BY <1>0, <2>2, <2>3, <2>4
  <2>5. CASE j # Len(todo)
    <3>0. PICK i : i = j + 1
      OBVIOUS
    <3>1. i \in 2..Len(todo) /\ i - 1 + Len(s) = k + 1
      BY <1>0, <2>2, <2>5, <3>0
    <3>2. todo'[k + 1] = todo[j + 1]
      BY <3>0, <3>1 DEF Push
    <3>3. QED BY <2>2, <2>3, <2>5, <3>2
  <2>6. QED BY <2>4, <2>5
<1>3. \/ call' = call
      \/ call' = "none" /\ Len(todo') = 0 /\ call \notin {"stopPlay", "zap"}
  BY <1>1
<1>4. call' \in {"stopPlay", "zap"} => todo'[Len(todo')].op = "enableDrawing" /\ dont_draw_things'
  BY <1>1, <1>3
<1>5. dont_draw_things' => call' \in {"stopPlay", "zap"}
  BY <1>1 DEF DrawingOff
<1>6. \A k \in 1..Len(todo') :
        todo'[k].op \in {"disableDrawing", "enableDrawing"} => call' \in {"stopPlay", "zap"}
  BY <1>1, <1>2
<1>7. QED BY <1>2, <1>4, <1>5, <1>6 DEF DrawingOff

Careful(s) == \/ s.op \in Adding \cup Making \cup {"setb2Joint(0)", "DestroyJoint"}
              \/ s.op = "makeUnphysical" /\ s.t \in Pins

LEMMA CarefulAfter ==
  ASSUME StrokesCareful, NEW s, Push(s), call' \in {call, "none"},
         call \in {"penDown", "penUp"} => \A k \in 1..Len(s) : Careful(s[k])
  PROVE  StrokesCareful'
<1>1. SUFFICES ASSUME call' \in {"penDown", "penUp"}, NEW k \in 1..Len(todo')
               PROVE  Careful(todo'[k])
  BY DEF StrokesCareful, Careful
<1>2. call \in {"penDown", "penUp"} /\ \A j \in 1..Len(todo) : Careful(todo[j])
  BY <1>1 DEF StrokesCareful, Careful
<1>3. CASE k <= Len(s)
  BY <1>2, <1>3 DEF Push
<1>4. CASE k > Len(s)
  BY <1>2, <1>4, Behind
<1>5. QED BY <1>3, <1>4 DEF Push
-----------------------------------------------------------------------------
(***************************************************************************)
(* A statement that executes: what it is, and what its kind leaves alone.  *)
(***************************************************************************)
LEMMA First ==
  ASSUME DInv, NEW op, Executes(op)
  PROVE  /\ todo # <<>> /\ ~ fault /\ todo \in Seq(Stmt) /\ Len(todo) \in Nat \ {0}
         /\ 1 \in 1..Len(todo) /\ Head(todo) = todo[1] /\ This = todo[1].t
         /\ todo[1].op = op /\ todo[1] \in Stmt /\ StatementTyped(todo[1])
         /\ PairKept(1) /\ call # "none" /\ n_things \in Nat
<1>1. todo # <<>> /\ ~ fault /\ Head(todo).op = op /\ todo \in Seq(Stmt) /\ TypeOK
  BY DEF Executes, DInv, Order, TodoTyped
<1>2. Len(todo) \in Nat \ {0} /\ Head(todo) = todo[1] /\ todo[1] \in Stmt
  BY <1>1, EmptySeq
<1>3. call # "none" /\ n_things \in Nat
  BY <1>1, DrawAssumption DEF TypeOK
<1>4. QED BY <1>1, <1>2, <1>3 DEF DInv, Order, Pointers, PairsKept, TodoTyped, This

LEMMA Seq0 ==
  <<>> \in Seq(Stmt) /\ Len(<<>>) = 0 /\ \A k \in 1..Len(<<>>) : FALSE
OBVIOUS

LEMMA Seq1 ==
  ASSUME NEW a \in Stmt
  PROVE  <<a>> \in Seq(Stmt) /\ Len(<<a>>) = 1 /\ <<a>>[1] = a
OBVIOUS

LEMMA Seq2 ==
  ASSUME NEW a \in Stmt, NEW b \in Stmt
  PROVE  <<a, b>> \in Seq(Stmt) /\ Len(<<a, b>>) = 2 /\ <<a, b>>[1] = a /\ <<a, b>>[2] = b
OBVIOUS

LEMMA Seq3 ==
  ASSUME NEW a \in Stmt, NEW b \in Stmt, NEW c \in Stmt
  PROVE  /\ <<a, b, c>> \in Seq(Stmt) /\ Len(<<a, b, c>>) = 3
         /\ <<a, b, c>>[1] = a /\ <<a, b, c>>[2] = b /\ <<a, b, c>>[3] = c
OBVIOUS

LEMMA Pushed ==
  ASSUME DInv, todo # <<>>, NEW s \in Seq(Stmt), Then(s)
  PROVE  /\ Push(s) /\ todo' \in Seq(Stmt)
         /\ todo' = <<>> => call' = "none"
         /\ todo' # <<>> => call' = call
         /\ todo' = <<>> <=> Len(todo') = 0
         /\ todo' = <<>> <=> call' = "none"
BY ThenPushes DEF DInv, Order, TypeOK

Quiet == {"disableDrawing", "enableDrawing", "load"} \cup Adding \cup {"n_things--", "moveUp"}

\* The order of the statements after one that frees nothing and adds nothing.
LEMMA OrderAfter ==
  ASSUME DInv, todo # <<>>, NEW s \in Seq(Stmt), Then(s),
         todo[1].op \notin Freeing \cup Adding \cup {"load"},
         ArrayShape', Allocated', DrawingOff',
         \A t \in Things : InArray(t)' => InArray(t),
         \A k \in 1..Len(s) :
            /\ StatementTyped(s[k]) /\ s[k].op \notin Adding \cup {"load"}
            /\ MadeInArray(k)' /\ GoneBefore(k)' /\ Found(k)' /\ FreedBefore(k)',
         \/ todo[1].op \in Removing
         \/ UNCHANGED <<slots, n_things>> /\ (\A k \in 1..Len(s) : s[k].op \notin Removing),
         todo[1].op = "remove" =>
           \E i \in 1..Len(s) : s[i].op = "n_things--" /\ s[i].t = todo[1].t,
         \A t \in Things : Next1("n_things--", t) => ~ InArray(t)',
         todo[1].op \in Making => \A k \in 1..Len(s) : s[k].op \in Making,
         todo[1].op = "clear" =>
           \/ Len(s) = 0 /\ n_things' = 0
           \/ Len(s) > 0 /\ s[Len(s)].op = "clear"
  PROVE  Push(s) /\ Order'
<1>1. /\ Push(s) /\ todo' \in Seq(Stmt)
      /\ todo' = <<>> => call' = "none"
      /\ todo' # <<>> => call' = call
  BY Pushed
<1>2. /\ TypeOK /\ TodoTyped /\ InOrder /\ StrokesCareful /\ PairsKept
  BY DEF DInv, Order, Pointers
<1>3. TodoTyped'
  BY <1>1, <1>2, TypedAfter
<1>4. AddGoesOn'
  BY <1>1, <1>2, AddAfter
<1>5. InOrder'
  <2>1. \A k \in 1..Len(todo') : MadeInArray(k)'
    BY <1>1, <1>2, MadeAfter
  <2>2. \A k \in 1..Len(todo') : GoneBefore(k)'
    BY <1>1, <1>2, GoneAfter
  <2>3. \A k \in 1..Len(todo') : Found(k)'
    BY <1>1, <1>2, FoundAfter
  <2>4. \A k \in 1..Len(todo') : FreedBefore(k)'
    BY <1>1, <1>2, FreedAfter
  <2>5. \A k \in 1..Len(todo') : LoadsNext(k)'
    <3>1. todo[1].op \in Making => n_things' = n_things
      BY DEF Making, Removing
    <3>2. QED BY <1>1, <1>2, <3>1, LoadsAfter
  <2>6. QED BY <2>1, <2>2, <2>3, <2>4, <2>5 DEF InOrder
<1>6. StrokesCareful'
  <2>1. call \in {"penDown", "penUp"} => \A k \in 1..Len(s) : Careful(s[k])
    <3>1. SUFFICES ASSUME call \in {"penDown", "penUp"}, NEW k \in 1..Len(s)
                   PROVE  Careful(s[k])
      OBVIOUS
    <3>2. todo[1].op \in Adding \cup Making \cup Freeing
      BY <1>1, <1>2, <3>1 DEF StrokesCareful, Freeing, Push
    <3>3. QED BY <3>2 DEF Careful
  <2>2. QED BY <1>1, <1>2, <2>1, CarefulAfter
<1>7. QED BY <1>1, <1>3, <1>4, <1>5, <1>6 DEF Order

LEMMA PlainStep ==
  ASSUME DInv, todo # <<>>, NEW s \in Seq(Stmt), Then(s),
         todo[1].op \notin Freeing \cup Quiet,
         UNCHANGED <<slots, n_things, dont_draw_things>>, Allocated',
         \A t \in Physical' \ Physical : InArray(t),
         \A k \in 1..Len(s) :
            /\ StatementTyped(s[k]) /\ s[k].op \notin Quiet
            /\ MadeInArray(k)' /\ GoneBefore(k)' /\ Found(k)' /\ FreedBefore(k)',
         todo[1].op # "remove",
         todo[1].op \in Removing \/ (\A k \in 1..Len(s) : s[k].op \notin Removing),
         todo[1].op \in Making => \A k \in 1..Len(s) : s[k].op \in Making,
         todo[1].op = "clear" =>
           \/ Len(s) = 0 /\ n_things = 0
           \/ Len(s) > 0 /\ s[Len(s)].op = "clear"
  PROVE  Push(s) /\ Order'
<1>1. /\ Push(s) /\ todo' \in Seq(Stmt)
      /\ todo' = <<>> <=> Len(todo') = 0
      /\ todo' = <<>> => call' = "none"
      /\ todo' # <<>> => call' = call
  BY Pushed
<1>2. /\ TypeOK /\ TodoTyped /\ ArrayShape /\ DrawingOff
  BY DEF DInv, Order
<1>3. ArrayShape'
  <2>1. Whole
    BY <1>2, NotShifting DEF Quiet, Adding, TodoTyped
  <2>2. \A t \in Physical' : InArray(t)
    BY <2>1 DEF Whole
  <2>3. QED BY <1>1, <1>2, <2>2, ArrayAfter DEF Quiet, Adding
<1>4. DrawingOff'
  BY <1>1, <1>2, DrawingAfter DEF Quiet
<1>5. \A t \in Things : InArray(t)' => InArray(t)
  BY DEF InArray
<1>6. todo[1].op \notin Freeing \cup Adding \cup {"load", "remove", "n_things--"}
      /\ \A t : ~ Next1("n_things--", t)
  BY DEF Quiet, Next1, Is
<1>7. \A k \in 1..Len(s) : s[k].op \notin Adding \cup {"load"}
  BY DEF Quiet
<1>8. QED BY <1>3, <1>4, <1>5, <1>6, <1>7, OrderAfter

LEMMA MakingStep ==
  ASSUME DInv, todo # <<>>, NEW s \in Seq(Stmt), Then(s), todo[1].op \in Making,
         UNCHANGED <<slots, n_things, allocated, dont_draw_things>>,
         Physical' \subseteq Physical \cup {todo[1].t},
         \A k \in 1..Len(s) : StatementTyped(s[k]) /\ s[k].op \in Making /\ s[k].t = todo[1].t
  PROVE  Push(s) /\ Order'
<1>1. Push(s)
  BY Pushed
<1>2. InArray(todo[1].t)
  <2>1. MadeInArray(1)
    BY <1>1 DEF DInv, Order, InOrder, Push
  <2>2. QED BY <2>1 DEF MadeInArray, Next1, Is, Making, Adding
<1>3. Allocated'
  BY DEF DInv, Order, Allocated
<1>4. ASSUME NEW k \in 1..Len(s)
      PROVE  MadeInArray(k)' /\ GoneBefore(k)' /\ Found(k)' /\ FreedBefore(k)'
  <2>1. todo'[k].op \in Making /\ todo'[k].t = todo[1].t
    BY <1>1 DEF Push
  <2>2. PICK t : t = todo[1].t
    OBVIOUS
  <2>3. InArray(t)'
    BY <1>2, <2>2 DEF InArray
  <2>4. ASSUME NEW j \in 1..k - 1 PROVE todo'[j].op \in Making
    <3>1. j \in 1..Len(s)
      BY <1>1 DEF Push
    <3>2. QED BY <1>1, <3>1 DEF Push
  <2>5. MadeInArray(k)'
    BY <2>1, <2>2, <2>3, <2>4 DEF MadeInArray, Making, Removing
  <2>6. QED BY <2>1, <2>5 DEF GoneBefore, Found, FreedBefore, Making
<1>5. \A k \in 1..Len(s) : s[k].op \notin Quiet \cup Removing
  BY DEF Making, Quiet, Adding, Removing
<1>6. todo[1].op \notin Freeing \cup Quiet \cup {"remove", "clear"}
  BY DEF Making, Quiet, Adding, Freeing
<1>7. QED BY <1>2, <1>3, <1>4, <1>5, <1>6, PlainStep

LEMMA FreeStep ==
  ASSUME DInv, todo # <<>>, NEW s \in Seq(Stmt), Then(s), todo[1].op \in Freeing,
         UNCHANGED <<slots, n_things, allocated, dont_draw_things>>,
         Physical' \subseteq Physical, HandsOver(s),
         \A k \in 1..Len(s) :
            /\ StatementTyped(s[k]) /\ s[k].op \in Freeing
            /\ call \in {"penDown", "penUp"} => Careful(s[k])
  PROVE  Push(s) /\ Order'
<1>1. /\ Push(s) /\ todo' \in Seq(Stmt)
      /\ todo' = <<>> <=> Len(todo') = 0
      /\ todo' = <<>> => call' = "none"
      /\ todo' # <<>> => call' = call
  BY Pushed
<1>2. /\ TypeOK /\ TodoTyped /\ ArrayShape /\ InOrder /\ DrawingOff /\ StrokesCareful /\ PairsKept
  BY DEF DInv, Order, Pointers
<1>3. TodoTyped'
  BY <1>1, <1>2, TypedAfter
<1>4. ArrayShape'
  BY <1>1, <1>2, ArrayFreeing
<1>5. AddGoesOn'
  BY <1>1, <1>2, AddAfter DEF Freeing, Adding
<1>6. InOrder'
  <2>1. ASSUME NEW k \in 1..Len(s)
        PROVE  MadeInArray(k)' /\ GoneBefore(k)' /\ Found(k)' /\ FreedBefore(k)'
    <3>1. todo'[k].op \in Freeing
      BY <1>1 DEF Push
    <3>2. QED BY <3>1 DEF MadeInArray, GoneBefore, Found, FreedBefore, Freeing, Making
  <2>2. \A k \in 1..Len(todo') : MadeInArray(k)'
    BY <1>1, <1>2, <2>1, MadeAfter DEF Freeing, Adding, Removing
  <2>3. \A k \in 1..Len(todo') : GoneBefore(k)'
    <3>1. \A t \in Things : InArray(t)' => InArray(t)
      BY DEF InArray
    <3>2. QED BY <1>1, <1>2, <2>1, <3>1, GoneAfter DEF Freeing, Next1, Is
  <2>4. \A k \in 1..Len(todo') : FreedBefore(k)'
    BY <1>1, <1>2, <2>1, FreedAfter
  <2>5. \A k \in 1..Len(todo') : LoadsNext(k)'
    BY <1>1, <1>2, LoadsAfter DEF Freeing, Adding, Making
  <2>6. \A k \in 1..Len(todo') : Found(k)'
    BY <1>1, <1>2, <2>1, FoundAfter
  <2>7. QED BY <2>2, <2>3, <2>4, <2>5, <2>6 DEF InOrder
<1>7. DrawingOff'
  BY <1>1, <1>2, DrawingAfter DEF Freeing
<1>8. StrokesCareful'
  BY <1>1, <1>2, CarefulAfter
<1>9. Allocated'
  BY DEF DInv, Order, Allocated
<1>10. QED BY <1>1, <1>3, <1>4, <1>5, <1>6, <1>7, <1>8, <1>9 DEF Order
-----------------------------------------------------------------------------
(***************************************************************************)
(* Making physical.                                                        *)
(***************************************************************************)
LEMMA MakePhysicalStep ==
  ASSUME DInv, MakePhysical
  PROVE  DInv'
<1> DEFINE s == IF This \in Pins
                THEN IF pinned[This][1] = NULL THEN <<>> ELSE <<Do("pin", This)>>
                ELSE IF This \in b2body THEN <<>>
                ELSE <<Do("CreateBody", This), Do("setb2Body", This)>>
<1>1. /\ todo # <<>> /\ todo[1].op = "makePhysical" /\ This = todo[1].t /\ This \in Things
      /\ This \in Args /\ Then(s) /\ UNCHANGED <<scene, box2d, flags>>
  BY First DEF MakePhysical, StatementTyped, OnThing, Args, Things
<1>2. /\ s \in Seq(Stmt)
      /\ \A k \in 1..Len(s) : /\ StatementTyped(s[k]) /\ s[k].t = todo[1].t
                              /\ s[k].op \in {"pin", "CreateBody", "setb2Body"}
      /\ \A k \in 1..Len(s) : s[k].op \in {"pin", "CreateBody"} => k = 1
      /\ \A k \in 1..Len(s) : s[k].op = "setb2Body" => k = 2 /\ s[1].op = "CreateBody"
      /\ \A k \in 1..Len(s) : s[k].op = "CreateBody" => Len(s) = 2 /\ s[2].op = "setb2Body"
  <2>1. CASE s = <<>>
    BY <2>1, Seq0
  <2>2. CASE s = <<Do("pin", This)>> /\ This \in Pins
    <3>1. "pin" \in OnPin
      BY DEF OnPin
    <3> HIDE DEF s
    <3>2. QED BY <1>1, <2>2, <3>1, DoOnPin, Seq1
  <2>3. CASE s = <<Do("CreateBody", This), Do("setb2Body", This)>> /\ This \in Objects
    <3>1. "CreateBody" \in OnObject /\ "setb2Body" \in OnObject
      BY DEF OnObject
    <3>2. /\ Do("CreateBody", This) \in Stmt /\ Do("CreateBody", This).op = "CreateBody"
          /\ Do("CreateBody", This).t = This /\ StatementTyped(Do("CreateBody", This))
          /\ Do("setb2Body", This) \in Stmt /\ Do("setb2Body", This).op = "setb2Body"
          /\ Do("setb2Body", This).t = This /\ StatementTyped(Do("setb2Body", This))
      BY <2>3, <3>1, DoOnObject
    <3> HIDE DEF s
    <3>3. QED BY <1>1, <2>3, <3>2, Seq2
  <2>4. QED BY <1>1, <2>1, <2>2, <2>3 DEF Things
<1> HIDE DEF s
<1>3. Push(s) /\ Order'
  <2>1. UNCHANGED <<slots, n_things, allocated, dont_draw_things>> /\ Physical' = Physical
    BY <1>1 DEF scene, box2d, flags, Physical
  <2>2. QED BY <1>1, <1>2, <2>1, MakingStep DEF Making
<1>4. TypeOK'
  BY <1>1, <1>2, Pushed DEF DInv, TypeOK, scene, box2d, flags
<1>5. PairsKept'
  <2>1. ASSUME NEW k \in 1..Len(s) PROVE PairKept(k)'
    <3>1. todo'[k] = s[k] /\ Len(s) \in Nat /\ Len(todo') >= Len(s)
      BY <1>3 DEF Push
    <3>2. \A j \in 1..Len(s) : todo'[j] = s[j]
      BY <1>3 DEF Push
    <3>3. CASE s[k].op = "CreateBody"
      <4>1. k = 1 /\ Len(s) = 2 /\ s[2].op = "setb2Body" /\ s[2].t = s[1].t
        BY <1>2, <3>3
      <4>2. QED BY <3>1, <3>2, <3>3, <4>1 DEF PairKept, AtOnce, Is
    <3>4. CASE s[k].op = "setb2Body"
      <4>1. k = 2 /\ s[1].op = "CreateBody" /\ s[2].t = s[1].t
        BY <1>2, <3>4
      <4>2. QED BY <3>1, <3>2, <3>4, <4>1 DEF PairKept, AtOnce, Is, Next1
    <3>5. CASE s[k].op = "pin"
      BY <1>2, <3>1, <3>5 DEF PairKept, AtOnce
    <3>6. QED BY <1>2, <3>3, <3>4, <3>5
  <2>2. QED BY <1>1, <1>3, <2>1, PairsAfter DEF DInv, Order, Pointers, Pairs
<1>6. BodiesPointedTo' /\ PinsThreadSafe'
  BY <1>1 DEF DInv, Pointers, BodiesPointedTo, PinsThreadSafe, box2d, Next1, Is
<1>7. QED BY <1>3, <1>4, <1>5, <1>6 DEF DInv, Pointers

\* Behind a statement that creates, only its partner is close.
LEMMA OnlyPartner ==
  ASSUME PairsKept, todo \in Seq(Stmt), todo # <<>>,
         todo[1].op \in {"CreateBody", "CreateJoint"}
  PROVE  \A k \in 2..Len(todo) :
            todo[k].op \in Close =>
              /\ k = 2 /\ todo[k].t = todo[1].t
              /\ \/ todo[1].op = "CreateBody" /\ todo[k].op = "setb2Body"
                 \/ todo[1].op = "CreateJoint" /\ todo[k].op = "setb2Joint"
<1>0. Len(todo) \in Nat \ {0}
  BY EmptySeq
<1>1. SUFFICES ASSUME NEW k \in 2..Len(todo), todo[k].op \in Close
               PROVE  /\ k = 2 /\ todo[k].t = todo[1].t
                      /\ \/ todo[1].op = "CreateBody" /\ todo[k].op = "setb2Body"
                         \/ todo[1].op = "CreateJoint" /\ todo[k].op = "setb2Joint"
  OBVIOUS
<1>2. \A j \in 2..Len(todo) : PairKept(j) /\ todo[j].op # "DestroyBody"
  BY <1>0 DEF PairsKept, PairKept
<1>3. todo[k].op # "setb2Body(0)"
  <2>1. SUFFICES ASSUME todo[k].op = "setb2Body(0)" PROVE FALSE
    OBVIOUS
  <2>2. todo[k - 1].op = "DestroyBody" /\ k - 1 \in 1..Len(todo)
    BY <1>2, <2>1 DEF PairKept, Is
  <2>3. k - 1 = 1 \/ k - 1 \in 2..Len(todo)
    BY <1>0
  <2>4. QED BY <1>2, <2>2, <2>3
<1>4. todo[k].op \in {"setb2Body", "setb2Joint"}
  BY <1>1, <1>2, <1>3 DEF PairKept, Close, AtOnce, Next1, Is
<1>5. QED BY <1>2, <1>4 DEF PairKept, Next1, Is

LEMMA CreateBodyStep ==
  ASSUME DInv, CreateBody
  PROVE  DInv'
<1>1. /\ todo # <<>> /\ todo[1].op = "CreateBody" /\ This = todo[1].t /\ This \in Objects
      /\ Then(<<>>) /\ UNCHANGED <<scene, b2body, b2joint, joints, flags>>
      /\ bodies' = bodies \cup {This} /\ PairKept(1) /\ 1 \in 1..Len(todo)
  BY First DEF CreateBody, StatementTyped, OnObject
<1>2. Push(<<>>) /\ Order'
  <2>1. UNCHANGED <<slots, n_things, allocated, dont_draw_things>> /\ Physical' = Physical
    BY <1>1 DEF scene, flags, Physical
  <2>2. QED BY <1>1, <2>1, Seq0, MakingStep DEF Making
<1>3. TypeOK'
  BY <1>1, Seq0, Pushed DEF DInv, TypeOK, scene, flags
<1>4. PairsKept'
  <2>1. SUFFICES ASSUME NEW k \in 1..Len(todo') PROVE PairKept(k)'
    BY DEF PairsKept
  <2>2. k + 1 \in 2..Len(todo) /\ todo'[k] = todo[k + 1]
    BY <1>2, Seq0 DEF Push
  <2>3. CASE todo'[k].op \in Close
    <3>1. k = 1 /\ todo'[k].t = This /\ todo'[k].op = "setb2Body"
      BY <1>1, <2>2, <2>3, OnlyPartner DEF DInv, Order, TodoTyped, Pointers
    <3>2. QED BY <1>1, <3>1 DEF PairKept, AtOnce
  <2>4. CASE todo'[k].op \notin Close
    BY <2>4 DEF PairKept, Close, AtOnce
  <2>5. QED BY <2>3, <2>4
<1>5. BodiesPointedTo'
  <2>2. PICK t : t = todo[1].t
    OBVIOUS
  <2>3. Next1("setb2Body", t)'
    BY <1>1, <1>2, <2>2, Seq0 DEF PairKept, Is, Next1, Push
  <2>4. QED BY <1>1, <2>2, <2>3 DEF DInv, Pointers, BodiesPointedTo, Next1, Is
<1>6. PinsThreadSafe'
  BY <1>1 DEF DInv, Pointers, PinsThreadSafe
<1>7. QED BY <1>2, <1>3, <1>4, <1>5, <1>6 DEF DInv, Pointers

LEMMA SetBodyStep ==
  ASSUME DInv, SetBody
  PROVE  DInv'
<1>1. /\ todo # <<>> /\ todo[1].op = "setb2Body" /\ This = todo[1].t /\ This \in Objects
      /\ Then(<<>>) /\ UNCHANGED <<scene, b2joint, bodies, joints, flags>>
      /\ b2body' = b2body \cup {This} /\ PairKept(1) /\ 1 \in 1..Len(todo)
  BY First DEF SetBody, StatementTyped, OnObject
<1>2. Push(<<>>) /\ Order'
  <2>1. UNCHANGED <<slots, n_things, allocated, dont_draw_things>>
        /\ Physical' \subseteq Physical \cup {todo[1].t}
    BY <1>1 DEF scene, flags, Physical
  <2>2. QED BY <1>1, <2>1, Seq0, MakingStep DEF Making
<1>3. TypeOK'
  BY <1>1, Seq0, Pushed DEF DInv, TypeOK, scene, flags
<1>4. PairsKept'
  BY <1>1, <1>2, Seq0, PairsAfter DEF DInv, Order, Pointers, Pairs
<1>5. This \in bodies
  BY <1>1 DEF PairKept, Next1, Is
<1>6. BodiesPointedTo'
  BY <1>1, <1>5 DEF DInv, Pointers, BodiesPointedTo, Next1, Is
<1>7. PinsThreadSafe'
  BY <1>1 DEF DInv, Pointers, PinsThreadSafe
<1>8. QED BY <1>2, <1>3, <1>4, <1>6, <1>7 DEF DInv, Pointers

LEMMA AttachStep ==
  ASSUME DInv, Attach
  PROVE  DInv'
<1> DEFINE s == IF pinned[This][1] \notin b2body THEN <<>>
                ELSE <<Do("CreateJoint", This), Do("setb2Joint", This)>>
<1>1. /\ todo # <<>> /\ todo[1].op = "pin" /\ This = todo[1].t /\ This \in Pins
      /\ Then(s) /\ UNCHANGED <<scene, box2d, simulation_mode, dont_draw_things>>
      /\ fault' \in BOOLEAN
  BY First DEF Attach, StatementTyped, OnPin, DInv, TypeOK, flags
<1>2. /\ s \in Seq(Stmt)
      /\ \A k \in 1..Len(s) : /\ StatementTyped(s[k]) /\ s[k].t = todo[1].t
                              /\ s[k].op \in {"CreateJoint", "setb2Joint"}
      /\ \A k \in 1..Len(s) : s[k].op = "CreateJoint" => k = 1
      /\ \A k \in 1..Len(s) : s[k].op = "setb2Joint" => k = 2 /\ s[1].op = "CreateJoint"
  <2>1. CASE s = <<>>
    BY <2>1, Seq0
  <2>2. CASE s = <<Do("CreateJoint", This), Do("setb2Joint", This)>>
    <3>1. "CreateJoint" \in OnPin /\ "setb2Joint" \in OnPin
      BY DEF OnPin
    <3>2. /\ Do("CreateJoint", This) \in Stmt /\ Do("CreateJoint", This).op = "CreateJoint"
          /\ Do("CreateJoint", This).t = This /\ StatementTyped(Do("CreateJoint", This))
          /\ Do("setb2Joint", This) \in Stmt /\ Do("setb2Joint", This).op = "setb2Joint"
          /\ Do("setb2Joint", This).t = This /\ StatementTyped(Do("setb2Joint", This))
      BY <1>1, <3>1, DoOnPin
    <3> HIDE DEF s
    <3>3. QED BY <1>1, <2>2, <3>2, Seq2
  <2>3. QED BY <2>1, <2>2
<1> HIDE DEF s
<1>3. Push(s) /\ Order'
  <2>1. UNCHANGED <<slots, n_things, allocated, dont_draw_things>> /\ Physical' = Physical
    BY <1>1 DEF scene, box2d, Physical
  <2>2. QED BY <1>1, <1>2, <2>1, MakingStep DEF Making
<1>4. TypeOK'
  BY <1>1, <1>2, Pushed DEF DInv, TypeOK, scene, box2d
<1>5. PairsKept'
  <2>1. ASSUME NEW k \in 1..Len(s) PROVE PairKept(k)'
    <3>1. todo'[k] = s[k] /\ Len(s) \in Nat /\ Len(todo') >= Len(s)
      BY <1>3 DEF Push
    <3>2. \A j \in 1..Len(s) : todo'[j] = s[j]
      BY <1>3 DEF Push
    <3>3. CASE s[k].op = "CreateJoint"
      BY <1>2, <3>1, <3>3 DEF PairKept, AtOnce
    <3>4. CASE s[k].op = "setb2Joint"
      <4>1. k = 2 /\ s[1].op = "CreateJoint" /\ s[2].t = s[1].t
        BY <1>2, <3>4
      <4>2. QED BY <3>1, <3>2, <3>4, <4>1 DEF PairKept, AtOnce, Is, Next1
    <3>5. QED BY <1>2, <3>3, <3>4
  <2>2. QED BY <1>1, <1>3, <2>1, PairsAfter DEF DInv, Order, Pointers, Pairs
<1>6. BodiesPointedTo' /\ PinsThreadSafe'
  BY <1>1 DEF DInv, Pointers, BodiesPointedTo, PinsThreadSafe, box2d, Next1, Is
<1>7. QED BY <1>3, <1>4, <1>5, <1>6 DEF DInv, Pointers

LEMMA CreateJointStep ==
  ASSUME DInv, CreateJoint
  PROVE  DInv'
<1>1. /\ todo # <<>> /\ todo[1].op = "CreateJoint" /\ This = todo[1].t /\ This \in Pins
      /\ Then(<<>>) /\ UNCHANGED <<scene, b2body, b2joint, bodies, flags>>
      /\ joints' = joints \cup {This} /\ 1 \in 1..Len(todo)
  BY First DEF CreateJoint, StatementTyped, OnPin
<1>2. Push(<<>>) /\ Order'
  <2>1. UNCHANGED <<slots, n_things, allocated, dont_draw_things>> /\ Physical' = Physical
    BY <1>1 DEF scene, flags, Physical
  <2>2. QED BY <1>1, <2>1, Seq0, MakingStep DEF Making
<1>3. TypeOK'
  BY <1>1, Seq0, Pushed DEF DInv, TypeOK, scene, flags
<1>4. PairsKept'
  <2>1. SUFFICES ASSUME NEW k \in 1..Len(todo') PROVE PairKept(k)'
    BY DEF PairsKept
  <2>2. k + 1 \in 2..Len(todo) /\ todo'[k] = todo[k + 1]
    BY <1>2, Seq0 DEF Push
  <2>3. CASE todo'[k].op \in Close
    <3>1. k = 1 /\ todo'[k].t = This /\ todo'[k].op = "setb2Joint"
      BY <1>1, <2>2, <2>3, OnlyPartner DEF DInv, Order, TodoTyped, Pointers
    <3>2. QED BY <1>1, <3>1 DEF PairKept, AtOnce
  <2>4. CASE todo'[k].op \notin Close
    BY <2>4 DEF PairKept, Close, AtOnce
  <2>5. QED BY <2>3, <2>4
<1>5. BodiesPointedTo' /\ PinsThreadSafe'
  BY <1>1 DEF DInv, Pointers, BodiesPointedTo, PinsThreadSafe, Next1, Is
<1>6. QED BY <1>2, <1>3, <1>4, <1>5 DEF DInv, Pointers

LEMMA SetJointStep ==
  ASSUME DInv, SetJoint
  PROVE  DInv'
<1>1. /\ todo # <<>> /\ todo[1].op = "setb2Joint" /\ This = todo[1].t /\ This \in Pins
      /\ Then(<<>>) /\ UNCHANGED <<scene, b2body, bodies, joints, flags>>
      /\ b2joint' = b2joint \cup {This} /\ PairKept(1) /\ 1 \in 1..Len(todo)
  BY First DEF SetJoint, StatementTyped, OnPin
<1>2. Push(<<>>) /\ Order'
  <2>1. UNCHANGED <<slots, n_things, allocated, dont_draw_things>>
        /\ Physical' \subseteq Physical \cup {todo[1].t}
    BY <1>1 DEF scene, flags, Physical
  <2>2. QED BY <1>1, <2>1, Seq0, MakingStep DEF Making
<1>3. TypeOK'
  BY <1>1, Seq0, Pushed DEF DInv, TypeOK, scene, flags
<1>4. PairsKept'
  BY <1>1, <1>2, Seq0, PairsAfter DEF DInv, Order, Pointers, Pairs
<1>5. This \in joints
  BY <1>1 DEF PairKept, Next1, Is
<1>6. BodiesPointedTo' /\ PinsThreadSafe'
  BY <1>1, <1>5 DEF DInv, Pointers, BodiesPointedTo, PinsThreadSafe, Next1, Is
<1>7. QED BY <1>2, <1>3, <1>4, <1>6 DEF DInv, Pointers
-----------------------------------------------------------------------------
(***************************************************************************)
(* Making unphysical.                                                      *)
(***************************************************************************)
LEMMA MakeUnphysicalStep ==
  ASSUME DInv, MakeUnphysical
  PROVE  DInv'
<1> DEFINE s == IF This \in b2joint THEN <<Do("setb2Joint(0)", This), Do("DestroyJoint", This)>>
                ELSE IF This \in b2body THEN <<Do("DestroyBody", This), Do("setb2Body(0)", This)>>
                ELSE <<>>
<1>1. /\ todo # <<>> /\ todo[1].op = "makeUnphysical" /\ This = todo[1].t /\ This \in Things
      /\ Then(s) /\ UNCHANGED <<scene, box2d, flags>> /\ 1 \in 1..Len(todo)
  BY First DEF MakeUnphysical, StatementTyped, OnThing
<1>2. b2joint \subseteq Pins /\ b2body \subseteq Objects /\ Objects \cap Pins = {} /\ BG \notin Things
  BY DrawAssumption DEF DInv, TypeOK
<1>3. \/ Len(s) = 0 /\ s \in Seq(Stmt) /\ This \notin Physical
      \/ /\ This \in Pins /\ Len(s) = 2
         /\ s[1].op = "setb2Joint(0)" /\ s[2].op = "DestroyJoint"
         /\ \A k \in 1..2 : s[k].t = This /\ StatementTyped(s[k]) /\ s[k] \in Stmt
         /\ s \in Seq(Stmt)
      \/ /\ This \in Objects /\ Len(s) = 2
         /\ s[1].op = "DestroyBody" /\ s[2].op = "setb2Body(0)"
         /\ \A k \in 1..2 : s[k].t = This /\ StatementTyped(s[k]) /\ s[k] \in Stmt
         /\ s \in Seq(Stmt)
  <2>1. CASE This \in b2joint
    <3>1. "setb2Joint(0)" \in OnPin /\ "DestroyJoint" \in OnPin /\ This \in Pins
      BY <1>2, <2>1 DEF OnPin
    <3>2. /\ Do("setb2Joint(0)", This) \in Stmt /\ Do("setb2Joint(0)", This).op = "setb2Joint(0)"
          /\ Do("setb2Joint(0)", This).t = This /\ StatementTyped(Do("setb2Joint(0)", This))
          /\ Do("DestroyJoint", This) \in Stmt /\ Do("DestroyJoint", This).op = "DestroyJoint"
          /\ Do("DestroyJoint", This).t = This /\ StatementTyped(Do("DestroyJoint", This))
      BY <3>1, DoOnPin
    <3>3. s = <<Do("setb2Joint(0)", This), Do("DestroyJoint", This)>>
      BY <2>1
    <3> HIDE DEF s
    <3>4. QED BY <3>1, <3>2, <3>3, Seq2
  <2>2. CASE This \notin b2joint /\ This \in b2body
    <3>1. "setb2Body(0)" \in OnObject /\ This \in Objects
      BY <1>2, <2>2 DEF OnObject
    <3>2. /\ Do("DestroyBody", This) \in Stmt /\ Do("DestroyBody", This).op = "DestroyBody"
          /\ Do("DestroyBody", This).t = This /\ StatementTyped(Do("DestroyBody", This))
          /\ Do("setb2Body(0)", This) \in Stmt /\ Do("setb2Body(0)", This).op = "setb2Body(0)"
          /\ Do("setb2Body(0)", This).t = This /\ StatementTyped(Do("setb2Body(0)", This))
      BY <3>1, DoOnObject, DoDestroyBody
    <3>3. s = <<Do("DestroyBody", This), Do("setb2Body(0)", This)>>
      BY <2>2
    <3> HIDE DEF s
    <3>4. QED BY <3>1, <3>2, <3>3, Seq2
  <2>3. CASE This \notin b2joint /\ This \notin b2body
    BY <2>3, Seq0 DEF Physical
  <2>4. QED BY <2>1, <2>2, <2>3
<1> HIDE DEF s
<1>4. /\ s \in Seq(Stmt)
      /\ \A k \in 1..Len(s) : StatementTyped(s[k]) /\ s[k].op \in Freeing
  BY <1>3 DEF Freeing
<1>5. call \in {"penDown", "penUp"} => \A k \in 1..Len(s) : Careful(s[k])
  <2>1. SUFFICES ASSUME call \in {"penDown", "penUp"} PROVE \A k \in 1..Len(s) : Careful(s[k])
    OBVIOUS
  <2>2. This \in Pins
    BY <1>1, <2>1 DEF DInv, Order, StrokesCareful, Adding, Making
  <2>3. QED BY <1>2, <1>3, <2>2 DEF Careful
<1>6. Push(s) /\ Order'
  <2>1. UNCHANGED <<slots, n_things, allocated, dont_draw_things>> /\ Physical' = Physical
    BY <1>1 DEF scene, box2d, flags, Physical
  <2>2. HandsOver(s)
    <3>1. SUFFICES ASSUME NEW t \in Physical, Frees(1, t)
                   PROVE  \E j \in 1..Len(s), op \in {"makeUnphysical", "setb2Joint(0)", "setb2Body(0)"} :
                            s[j].op = op /\ s[j].t = t
      BY <2>1 DEF HandsOver
    <3>2. t = This
      BY <1>1, <3>1 DEF Frees, Is
    <3>3. QED BY <1>3, <3>1, <3>2
  <2>3. QED BY <1>1, <1>4, <1>5, <2>1, <2>2, FreeStep DEF Freeing
<1>7. TypeOK'
  BY <1>1, <1>4, Pushed DEF DInv, TypeOK, scene, box2d, flags
<1>8. PairsKept'
  <2>0. ASSUME NEW k \in 1..Len(s) PROVE Len(s) = 2 /\ 1 \in 1..Len(s) /\ 2 \in 1..Len(s) /\ k \in 1..2
    <3>1. Len(s) = 0 \/ Len(s) = 2
      BY <1>3
    <3>2. k \in 1..2 \/ k \in 1..0
      BY <3>1
    <3>3. Len(s) = 2
      BY <3>1, <3>2
    <3>4. QED BY <3>3
  <2>1. ASSUME NEW k \in 1..Len(s) PROVE PairKept(k)'
    <3>1. /\ Len(s) = 2 /\ k \in 1..2 /\ todo'[1] = s[1] /\ todo'[2] = s[2]
          /\ Len(todo') \in Nat /\ Len(todo') >= 2 /\ s[1].t = This /\ s[2].t = This
          /\ \/ This \in Pins /\ s[1].op = "setb2Joint(0)" /\ s[2].op = "DestroyJoint"
             \/ This \in Objects /\ s[1].op = "DestroyBody" /\ s[2].op = "setb2Body(0)"
      <4>1. Len(s) = 2 /\ 1 \in 1..Len(s) /\ 2 \in 1..Len(s) /\ k \in 1..2
        BY <2>0
      <4>2. todo'[1] = s[1] /\ todo'[2] = s[2] /\ Len(todo') \in Nat /\ Len(todo') >= 2
        BY <1>6, <4>1 DEF Push
      <4>3. QED BY <1>3, <4>1, <4>2
    <3>2. CASE k = 1
      BY <3>1, <3>2 DEF PairKept, AtOnce, Is, Next1
    <3>3. CASE k = 2
      BY <3>1, <3>3 DEF PairKept, AtOnce, Is, Next1
    <3>4. QED BY <3>1, <3>2, <3>3
  <2>2. QED BY <1>1, <1>6, <2>1, PairsAfter DEF DInv, Order, Pointers, Pairs
<1>9. BodiesPointedTo' /\ PinsThreadSafe'
  BY <1>1 DEF DInv, Pointers, BodiesPointedTo, PinsThreadSafe, box2d, Next1, Is
<1>10. QED BY <1>6, <1>7, <1>8, <1>9 DEF DInv, Pointers

\* Behind goodbye to a joint comes its end, then perhaps that of a body.
LEMMA OnlyGoodbye ==
  ASSUME PairsKept, todo \in Seq(Stmt), todo # <<>>,
         todo[1].op \in {"setb2Joint(0)", "DestroyJoint"}
  PROVE  \A k \in 2..Len(todo) :
           /\ todo[k].op \notin AtOnce \cup {"setb2Joint", "setb2Body"}
           /\ todo[k].op = "DestroyJoint" =>
                k = 2 /\ todo[1].op = "setb2Joint(0)" /\ todo[1].t = todo[k].t
           /\ todo[k].op = "setb2Body(0)" => k > 2 /\ Is(k - 1, "DestroyBody", todo[k].t)
<1>0. Len(todo) \in Nat \ {0}
  BY EmptySeq
<1>1. TAKE k \in 2..Len(todo)
<1>2. PairKept(k) /\ k \in 1..Len(todo) /\ k > 1
  BY <1>0 DEF PairsKept
<1>3. todo[k].op \notin AtOnce \cup {"setb2Joint", "setb2Body"}
  BY <1>2 DEF PairKept, Next1, Is
<1>4. todo[k].op = "DestroyJoint" =>
        k = 2 /\ todo[1].op = "setb2Joint(0)" /\ todo[1].t = todo[k].t
  BY <1>2 DEF PairKept, Next1, Is
<1>5. ASSUME todo[k].op = "setb2Body(0)" PROVE k > 2 /\ Is(k - 1, "DestroyBody", todo[k].t)
  <2>1. Is(k - 1, "DestroyBody", todo[k].t)
    BY <1>2, <1>5 DEF PairKept
  <2>2. k # 2
    BY <2>1 DEF Is
  <2>3. QED BY <1>2, <2>1, <2>2
<1>6. QED BY <1>3, <1>4, <1>5

LEMMA GoodbyePairs ==
  ASSUME DInv, Push(<<>>), todo[1].op \in {"setb2Joint(0)", "DestroyJoint"},
         \A t \in Pins : Next1("setb2Joint(0)", t) => t \notin b2joint'
  PROVE  PairsKept'
<1>0. todo \in Seq(Stmt) /\ todo # <<>> /\ PairsKept /\ Len(todo) \in Nat
      /\ \A k \in 1..Len(todo) : StatementTyped(todo[k])
  BY DEF DInv, Order, TodoTyped, Pointers, Push
<1>1. SUFFICES ASSUME NEW k \in 1..Len(todo') PROVE PairKept(k)'
  BY DEF PairsKept
<1>2. PICK j, t : j = k + 1 /\ t = todo'[k].t
  OBVIOUS
<1>3. j \in 2..Len(todo) /\ todo'[k] = todo[j] /\ k = j - 1 /\ Len(todo') = Len(todo) - 1
      /\ \A i \in 2..Len(todo) : todo'[i - 1] = todo[i]
  BY <1>2, Seq0 DEF Push
<1>4. PairKept(j) /\ StatementTyped(todo[j])
  BY <1>0, <1>3 DEF PairsKept
<1>5. /\ todo[j].op \notin AtOnce \cup {"setb2Joint", "setb2Body"}
      /\ todo[j].op = "DestroyJoint" =>
           j = 2 /\ todo[1].op = "setb2Joint(0)" /\ todo[1].t = todo[j].t
      /\ todo[j].op = "setb2Body(0)" => j > 2 /\ Is(j - 1, "DestroyBody", todo[j].t)
  BY <1>0, <1>3, OnlyGoodbye
<1>6. CASE todo[j].op = "DestroyJoint"
  <2>1. k = 1 /\ Next1("setb2Joint(0)", t) /\ t \in Pins
    BY <1>0, <1>2, <1>3, <1>4, <1>5, <1>6 DEF Next1, Is, StatementTyped, OnPin
  <2>2. t \notin b2joint'
    BY <2>1
  <2>3. QED BY <1>2, <1>3, <1>6, <2>1, <2>2 DEF PairKept, AtOnce
<1>7. CASE todo[j].op = "setb2Body(0)"
  <2>1. PICK i : i = j - 1
    OBVIOUS
  <2>2. i \in 2..Len(todo) /\ todo[i].op = "DestroyBody" /\ todo[i].t = t /\ i - 1 = k - 1
    BY <1>0, <1>2, <1>3, <1>5, <1>7, <2>1 DEF Is
  <2>3. todo'[k - 1] = todo[i] /\ k > 1 /\ k - 1 \in 1..Len(todo')
    BY <1>3, <2>2
  <2>4. Is(k - 1, "DestroyBody", t)'
    BY <2>2, <2>3 DEF Is
  <2>5. QED BY <1>2, <1>3, <1>7, <2>3, <2>4 DEF PairKept, AtOnce
<1>8. CASE todo[j].op = "DestroyBody"
  <2>1. /\ \A i \in 1..j - 1 : todo[i].op \in {"setb2Joint(0)", "DestroyJoint"}
        /\ t # BG => Is(j + 1, "setb2Body(0)", t)
    BY <1>2, <1>3, <1>4, <1>8 DEF PairKept
  <2>2. ASSUME NEW i \in 1..k - 1 PROVE todo'[i].op \in {"setb2Joint(0)", "DestroyJoint"}
    <3>1. PICK m : m = i + 1
      OBVIOUS
    <3>2. m \in 2..Len(todo) /\ m \in 1..j - 1 /\ m - 1 = i
      BY <1>0, <1>3, <3>1
    <3>3. todo'[i] = todo[m]
      BY <1>3, <3>2
    <3>4. QED BY <2>1, <3>2, <3>3
  <2>3. ASSUME t # BG PROVE Is(k + 1, "setb2Body(0)", t)'
    <3>1. PICK m : m = j + 1
      OBVIOUS
    <3>2. m \in 2..Len(todo) /\ todo[m].op = "setb2Body(0)" /\ todo[m].t = t /\ m - 1 = k + 1
      BY <1>0, <1>3, <2>1, <2>3, <3>1 DEF Is
    <3>3. todo'[k + 1] = todo[m] /\ k + 1 \in 1..Len(todo')
      BY <1>0, <1>3, <3>2
    <3>4. QED BY <3>2, <3>3 DEF Is
  <2>4. QED BY <1>2, <1>3, <1>8, <2>2, <2>3 DEF PairKept, AtOnce
<1>9. CASE todo[j].op \notin {"DestroyJoint", "setb2Body(0)", "DestroyBody"}
  BY <1>3, <1>5, <1>9 DEF PairKept, AtOnce
<1>10. QED BY <1>6, <1>7, <1>8, <1>9

LEMMA ClearJointStep ==
  ASSUME DInv, ClearJoint
  PROVE  DInv'
<1>1. /\ todo # <<>> /\ todo[1].op = "setb2Joint(0)" /\ This = todo[1].t /\ This \in Pins
      /\ Then(<<>>) /\ UNCHANGED <<scene, b2body, bodies, joints, flags>>
      /\ b2joint' = b2joint \ {This} /\ 1 \in 1..Len(todo)
  BY First DEF ClearJoint, StatementTyped, OnPin
<1>2. Push(<<>>) /\ Order'
  <2>1. UNCHANGED <<slots, n_things, allocated, dont_draw_things>> /\ Physical' \subseteq Physical
    BY <1>1 DEF scene, flags, Physical
  <2>2. HandsOver(<<>>)
    <3>1. SUFFICES ASSUME NEW t \in Physical', Frees(1, t) PROVE FALSE
      BY DEF HandsOver
    <3>2. t = This /\ t \in Pins
      BY <1>1, <3>1 DEF Frees, Is
    <3>3. t \notin b2joint' /\ t \notin b2body'
      BY <1>1, <3>2, DrawAssumption DEF DInv, TypeOK
    <3>4. QED BY <3>1, <3>3 DEF Physical
  <2>3. QED BY <1>1, <2>1, <2>2, Seq0, FreeStep DEF Freeing
<1>3. TypeOK'
  BY <1>1, Seq0, Pushed DEF DInv, TypeOK, scene, flags
<1>4. PairsKept'
  <2>1. \A t \in Pins : Next1("setb2Joint(0)", t) => t \notin b2joint'
    BY <1>1 DEF Next1, Is
  <2>2. QED BY <1>1, <1>2, <2>1, GoodbyePairs
<1>5. BodiesPointedTo' /\ PinsThreadSafe'
  BY <1>1 DEF DInv, Pointers, BodiesPointedTo, PinsThreadSafe, Next1, Is
<1>6. QED BY <1>2, <1>3, <1>4, <1>5 DEF DInv, Pointers

LEMMA DestroyJointStep ==
  ASSUME DInv, DestroyJoint
  PROVE  DInv'
<1>1. /\ todo # <<>> /\ todo[1].op = "DestroyJoint" /\ This = todo[1].t /\ This \in Pins
      /\ Then(<<>>) /\ UNCHANGED <<scene, b2body, b2joint, bodies, flags>>
      /\ joints' = joints \ {This} /\ PairKept(1) /\ 1 \in 1..Len(todo)
  BY First DEF DestroyJoint, StatementTyped, OnPin
<1>2. Push(<<>>) /\ Order'
  <2>1. UNCHANGED <<slots, n_things, allocated, dont_draw_things>> /\ Physical' = Physical
    BY <1>1 DEF scene, flags, Physical
  <2>2. HandsOver(<<>>)
    BY <1>1 DEF HandsOver, Frees, Is
  <2>3. QED BY <1>1, <2>1, <2>2, Seq0, FreeStep DEF Freeing
<1>3. TypeOK'
  BY <1>1, Seq0, Pushed DEF DInv, TypeOK, scene, flags
<1>4. PairsKept'
  <2>1. \A t \in Pins : Next1("setb2Joint(0)", t) => t \notin b2joint'
    BY <1>1 DEF Next1, Is
  <2>2. QED BY <1>1, <1>2, <2>1, GoodbyePairs
<1>5. This \notin b2joint
  BY <1>1 DEF PairKept, Next1, Is
<1>6. BodiesPointedTo' /\ PinsThreadSafe'
  BY <1>1, <1>5 DEF DInv, Pointers, BodiesPointedTo, PinsThreadSafe, Next1, Is
<1>7. QED BY <1>2, <1>3, <1>4, <1>6 DEF DInv, Pointers

LEMMA ClearBodyStep ==
  ASSUME DInv, ClearBody
  PROVE  DInv'
<1>1. /\ todo # <<>> /\ todo[1].op = "setb2Body(0)" /\ This = todo[1].t /\ This \in Objects
      /\ Then(<<>>) /\ UNCHANGED <<scene, b2joint, bodies, joints, flags>>
      /\ b2body' = b2body \ {This} /\ PairKept(1) /\ 1 \in 1..Len(todo)
  BY First DEF ClearBody, StatementTyped, OnObject
<1>2. Push(<<>>) /\ Order'
  <2>1. UNCHANGED <<slots, n_things, allocated, dont_draw_things>> /\ Physical' \subseteq Physical
    BY <1>1 DEF scene, flags, Physical
  <2>2. HandsOver(<<>>)
    <3>1. SUFFICES ASSUME NEW t \in Physical', Frees(1, t) PROVE FALSE
      BY DEF HandsOver
    <3>2. t = This /\ t \in Objects
      BY <1>1, <3>1 DEF Frees, Is
    <3>3. t \notin b2joint' /\ t \notin b2body'
      BY <1>1, <3>2, DrawAssumption DEF DInv, TypeOK
    <3>4. QED BY <3>1, <3>3 DEF Physical
  <2>3. QED BY <1>1, <2>1, <2>2, Seq0, FreeStep DEF Freeing
<1>3. TypeOK'
  BY <1>1, Seq0, Pushed DEF DInv, TypeOK, scene, flags
<1>4. PairsKept'
  BY <1>1, <1>2, Seq0, PairsAfter DEF DInv, Order, Pointers, Pairs
<1>5. This \notin bodies
  BY <1>1 DEF PairKept
<1>6. BodiesPointedTo' /\ PinsThreadSafe'
  BY <1>1, <1>5 DEF DInv, Pointers, BodiesPointedTo, PinsThreadSafe, Next1, Is
<1>7. QED BY <1>2, <1>3, <1>4, <1>6 DEF DInv, Pointers

LEMMA DestroyBodyStep ==
  ASSUME DInv, DestroyBody
  PROVE  DInv'
<1>1. /\ todo # <<>> /\ todo[1].op = "DestroyBody" /\ This = todo[1].t /\ This \in Objects \cup {BG}
      /\ Head(todo) = todo[1] /\ todo[1] \in Stmt /\ StatementTyped(todo[1])
      /\ UNCHANGED <<scene, b2body, b2joint, joints, flags>>
      /\ PairKept(1) /\ 1 \in 1..Len(todo) /\ todo \in Seq(Stmt)
  BY First DEF DestroyBody, StatementTyped
<1>2. /\ joints \subseteq Pins /\ UNCHANGED <<slots, n_things, allocated, dont_draw_things>>
      /\ Physical' = Physical
  BY <1>1 DEF DInv, TypeOK, scene, flags, Physical
<1>3. call \notin {"penDown", "penUp"}
  BY <1>1 DEF DInv, Order, StrokesCareful, Adding, Making
<1>4. \A s : HandsOver(s)
  BY <1>1 DEF HandsOver, Frees, Is
\* the only one, and behind it the pointer that it leaves
<1>5. \A j \in 2..Len(todo) :
        /\ todo[j].op \notin Close \ {"setb2Body(0)"}
        /\ todo[j].op = "setb2Body(0)" => j = 2 /\ todo[j].t = This
  <2>1. TAKE j \in 2..Len(todo)
  <2>2. PairKept(j)
    BY <1>1 DEF DInv, Pointers, PairsKept
  <2>3. todo[j].op \notin AtOnce \cup {"DestroyJoint", "setb2Joint", "setb2Body"}
    BY <1>1, <2>2 DEF PairKept, Next1, Is
  <2>4. \A i \in 2..Len(todo) : todo[i].op # "DestroyBody"
    BY <1>1 DEF DInv, Pointers, PairsKept, PairKept
  <2>5. ASSUME todo[j].op = "setb2Body(0)" PROVE j = 2 /\ todo[j].t = This
    <3>1. Is(j - 1, "DestroyBody", todo[j].t)
      BY <2>2, <2>5 DEF PairKept
    <3>2. j - 1 = 1
      BY <2>4, <3>1 DEF Is
    <3>3. QED BY <1>1, <3>1, <3>2 DEF Is
  <2>6. QED BY <2>3, <2>4, <2>5 DEF Close
<1>6. CASE JointsOf(This) = {}
  <2>1. bodies' = bodies \ {This} /\ Then(<<>>)
    BY <1>6 DEF DestroyBody
  <2>2. Push(<<>>) /\ Order'
    BY <1>1, <1>2, <1>4, <2>1, Seq0, FreeStep DEF Freeing
  <2>3. TypeOK'
    BY <1>1, <2>1, Seq0, Pushed DEF DInv, TypeOK, scene, flags
  <2>4. PairsKept'
    <3>1. SUFFICES ASSUME NEW k \in 1..Len(todo') PROVE PairKept(k)'
      BY DEF PairsKept
    <3>2. k + 1 \in 2..Len(todo) /\ todo'[k] = todo[k + 1]
      BY <2>2, Seq0 DEF Push
    <3>3. CASE todo'[k].op = "setb2Body(0)"
      <4>1. k = 1 /\ todo'[k].t = This
        BY <1>5, <3>2, <3>3
      <4>2. QED BY <2>1, <3>3, <4>1 DEF PairKept, AtOnce
    <3>4. CASE todo'[k].op # "setb2Body(0)"
      BY <1>5, <3>2, <3>4 DEF PairKept, Close, AtOnce
    <3>5. QED BY <3>3, <3>4
  <2>5. BodiesPointedTo'
    <3>1. SUFFICES ASSUME NEW o \in Objects
                   PROVE  (o \in b2body' <=> o \in bodies')
                            \/ Next1("setb2Body(0)", o)' \/ Next1("setb2Body", o)'
      BY DEF BodiesPointedTo
    <3>2. CASE o = This
      <4>1. Is(2, "setb2Body(0)", o)
        BY <1>1, <3>2, DrawAssumption DEF PairKept, Things
      <4>2. QED BY <2>2, <4>1, Seq0 DEF Push, Is, Next1
    <3>3. CASE o # This
      BY <1>1, <2>1, <3>3 DEF DInv, Pointers, BodiesPointedTo, Next1, Is
    <3>4. QED BY <3>2, <3>3
  <2>6. PinsThreadSafe'
    BY <1>1 DEF DInv, Pointers, PinsThreadSafe
  <2>7. QED BY <2>2, <2>3, <2>4, <2>5, <2>6 DEF DInv, Pointers
<1>7. CASE JointsOf(This) # {}
  <2>1. PICK p \in JointsOf(This) :
          Then(<<Do("setb2Joint(0)", p), Do("DestroyJoint", p), Head(todo)>>)
    BY <1>7 DEF DestroyBody
  <2>2. p \in Pins /\ bodies' = bodies
    BY <1>2, <1>7, <2>1 DEF JointsOf, DestroyBody
  <2>3. PICK s : s = <<Do("setb2Joint(0)", p), Do("DestroyJoint", p), todo[1]>>
    OBVIOUS
  <2>4. /\ s \in Seq(Stmt) /\ Len(s) = 3 /\ Then(s)
        /\ s[1].op = "setb2Joint(0)" /\ s[1].t = p /\ s[2].op = "DestroyJoint" /\ s[2].t = p
        /\ s[3] = todo[1] /\ \A k \in 1..3 : StatementTyped(s[k])
    <3>1. "setb2Joint(0)" \in OnPin /\ "DestroyJoint" \in OnPin
      BY DEF OnPin
    <3>2. /\ Do("setb2Joint(0)", p) \in Stmt /\ Do("setb2Joint(0)", p).op = "setb2Joint(0)"
          /\ Do("setb2Joint(0)", p).t = p /\ StatementTyped(Do("setb2Joint(0)", p))
          /\ Do("DestroyJoint", p) \in Stmt /\ Do("DestroyJoint", p).op = "DestroyJoint"
          /\ Do("DestroyJoint", p).t = p /\ StatementTyped(Do("DestroyJoint", p))
      BY <2>2, <3>1, DoOnPin
    <3>3. /\ s \in Seq(Stmt) /\ Len(s) = 3 /\ s[1] = Do("setb2Joint(0)", p)
          /\ s[2] = Do("DestroyJoint", p) /\ s[3] = todo[1]
      BY <1>1, <2>3, <3>2, Seq3
    <3>4. Then(s)
      BY <1>1, <2>1, <2>3
    <3>5. QED BY <1>1, <3>2, <3>3, <3>4
  <2>5. Push(s) /\ Order'
    <3>1. \A k \in 1..Len(s) :
            /\ StatementTyped(s[k]) /\ s[k].op \in Freeing
            /\ call \in {"penDown", "penUp"} => Careful(s[k])
      BY <1>1, <1>3, <2>4 DEF Freeing
    <3>2. QED BY <1>1, <1>2, <1>4, <2>4, <3>1, FreeStep DEF Freeing
  <2>6. TypeOK'
    BY <1>1, <2>2, <2>4, Pushed DEF DInv, TypeOK, scene, flags
  <2>7. /\ todo'[1] = s[1] /\ todo'[2] = s[2] /\ todo'[3] = todo[1]
        /\ Len(todo') = Len(todo) + 2 /\ Len(todo) \in Nat
        /\ \A k \in 2..Len(todo) : todo'[k + 2] = todo[k]
    BY <2>4, <2>5 DEF Push
  <2>8. PairsKept'
    <3>1. SUFFICES ASSUME NEW k \in 1..Len(todo') PROVE PairKept(k)'
      BY DEF PairsKept
    <3>2. CASE k = 1
      BY <2>4, <2>7, <3>2 DEF PairKept, AtOnce
    <3>3. CASE k = 2
      BY <2>4, <2>7, <3>3 DEF PairKept, AtOnce, Next1, Is
    <3>4. CASE k = 3
      <4>0. PICK t : t = todo[1].t
        OBVIOUS
      <4>1. \A i \in 1..k - 1 : todo'[i].op \in {"setb2Joint(0)", "DestroyJoint"}
        BY <2>4, <2>7, <3>4
      <4>2. ASSUME t # BG PROVE Is(4, "setb2Body(0)", t)'
        <5>1. Is(2, "setb2Body(0)", t)
          BY <1>1, <4>0, <4>2 DEF PairKept
        <5>2. 2 \in 2..Len(todo) /\ 4 \in 1..Len(todo') /\ todo'[4] = todo[2]
          BY <2>7, <5>1 DEF Is
        <5>3. QED BY <5>1, <5>2 DEF Is
      <4>3. QED BY <1>1, <2>7, <3>4, <4>0, <4>1, <4>2 DEF PairKept, AtOnce
    <3>5. CASE k > 3
      <4>1. PICK j : j = k - 2
        OBVIOUS
      <4>a. PICK m, n : m = Len(todo') /\ n = Len(todo)
        OBVIOUS
      <4>b. k \in 1..m /\ m = n + 2 /\ n \in Nat
        BY <2>7, <3>1, <4>a
      <4>c. j \in 2..n /\ k = j + 2
        BY <3>5, <4>1, <4>b
      <4>2. j \in 2..Len(todo) /\ todo'[k] = todo[j] /\ k = j + 2
        BY <2>7, <4>a, <4>c
      <4>3. CASE todo[j].op = "setb2Body(0)"
        <5>1. k = 4 /\ todo'[k].t = todo[1].t /\ 3 \in 1..Len(todo')
          BY <1>1, <1>5, <2>7, <4>2, <4>3
        <5>2. QED BY <1>1, <2>7, <4>2, <4>3, <5>1 DEF PairKept, AtOnce, Is
      <4>4. CASE todo[j].op # "setb2Body(0)"
        BY <1>5, <4>2, <4>4 DEF PairKept, Close, AtOnce
      <4>5. QED BY <4>3, <4>4
    <3>6. QED BY <3>1, <3>2, <3>3, <3>4, <3>5
  <2>9. BodiesPointedTo' /\ PinsThreadSafe'
    BY <1>1, <2>2 DEF DInv, Pointers, BodiesPointedTo, PinsThreadSafe, Next1, Is
  <2>10. QED BY <2>5, <2>6, <2>8, <2>9 DEF DInv, Pointers
<1>8. QED BY <1>6, <1>7
-----------------------------------------------------------------------------
(***************************************************************************)
(* The other statements that leave the array as it is.                     *)
(***************************************************************************)
LEMMA SamePointers ==
  ASSUME DInv, NEW s, Push(s), todo[1].op \notin Pairs \cup {"setb2Body(0)", "setb2Body"},
         UNCHANGED box2d, \A k \in 1..Len(s) : PairKept(k)'
  PROVE  Pointers'
<1>1. PairsKept'
  BY PairsAfter DEF DInv, Order, Pointers
<1>2. BodiesPointedTo' /\ PinsThreadSafe'
  BY DEF DInv, Pointers, BodiesPointedTo, PinsThreadSafe, box2d, Next1, Is
<1>3. QED BY <1>1, <1>2 DEF Pointers

\* A statement that calls nothing.
LEMMA PlainEnds ==
  ASSUME DInv, todo # <<>>, Then(<<>>), todo[1].op \notin Freeing \cup Quiet \cup {"remove"},
         UNCHANGED <<slots, n_things, dont_draw_things>>, Allocated',
         Physical' \subseteq Physical, todo[1].op = "clear" => n_things = 0
  PROVE  Push(<<>>) /\ Order'
BY Seq0, PlainStep

LEMMA DeleteStep ==
  ASSUME DInv, Delete
  PROVE  DInv'
<1>1. /\ todo # <<>> /\ todo[1].op = "delete" /\ This = todo[1].t /\ This \in Things
      /\ Then(<<>>) /\ UNCHANGED <<slots, n_things, pinned, invisible, box2d, flags>>
      /\ allocated' = allocated \ {This} /\ 1 \in 1..Len(todo)
  BY First DEF Delete, StatementTyped, OnThing
<1>2. ~ InArray(This)
  BY <1>1 DEF DInv, Order, InOrder, GoneBefore
<1>3. Allocated'
  BY <1>1, <1>2 DEF DInv, Order, Allocated, InArray
<1>4. Push(<<>>) /\ Order'
  <2>1. UNCHANGED <<slots, n_things, dont_draw_things>> /\ Physical' = Physical
    BY <1>1 DEF box2d, flags, Physical
  <2>2. QED BY <1>1, <1>3, <2>1, PlainEnds DEF Freeing, Quiet, Adding
<1>5. TypeOK'
  BY <1>1, Seq0, Pushed DEF DInv, TypeOK, box2d, flags
<1>6. Pointers'
  BY <1>1, <1>4, Seq0, SamePointers DEF Pairs
<1>7. QED BY <1>4, <1>5, <1>6 DEF DInv

LEMMA UnhideStep ==
  ASSUME DInv, Unhide
  PROVE  DInv'
<1>1. /\ todo # <<>> /\ todo[1].op = "reset" /\ This = todo[1].t /\ This \in Things
      /\ Then(<<>>) /\ UNCHANGED <<slots, n_things, allocated, pinned, box2d, flags>>
      /\ invisible' \subseteq invisible
  BY First DEF Unhide, StatementTyped, OnThing
<1>2. Push(<<>>) /\ Order'
  <2>1. UNCHANGED <<slots, n_things, dont_draw_things>> /\ Physical' = Physical /\ Allocated'
    BY <1>1 DEF box2d, flags, Physical, DInv, Order, Allocated
  <2>2. QED BY <1>1, <2>1, PlainEnds DEF Freeing, Quiet, Adding
<1>3. TypeOK'
  BY <1>1, Seq0, Pushed DEF DInv, TypeOK, box2d, flags
<1>4. Pointers'
  BY <1>1, <1>2, Seq0, SamePointers DEF Pairs
<1>5. QED BY <1>2, <1>3, <1>4 DEF DInv

LEMMA HideStep ==
  ASSUME DInv, Hide
  PROVE  DInv'
<1>1. /\ todo # <<>> /\ todo[1].op = "hide" /\ This = todo[1].t /\ This \in Objects
      /\ Then(<<>>) /\ UNCHANGED <<slots, n_things, allocated, pinned, box2d, flags>>
      /\ invisible' = invisible \cup {This}
  BY First DEF Hide, StatementTyped, OnObject
<1>2. Push(<<>>) /\ Order'
  <2>1. UNCHANGED <<slots, n_things, dont_draw_things>> /\ Physical' = Physical /\ Allocated'
    BY <1>1 DEF box2d, flags, Physical, DInv, Order, Allocated
  <2>2. QED BY <1>1, <2>1, PlainEnds DEF Freeing, Quiet, Adding
<1>3. TypeOK'
  BY <1>1, Seq0, Pushed DEF DInv, TypeOK, box2d, flags, Things
<1>4. Pointers'
  BY <1>1, <1>2, Seq0, SamePointers DEF Pairs
<1>5. QED BY <1>2, <1>3, <1>4 DEF DInv

LEMMA StopSimulationModeStep ==
  ASSUME DInv, StopSimulationMode
  PROVE  DInv'
<1>1. /\ todo # <<>> /\ todo[1].op = "stopSimulationMode" /\ simulation_mode' = FALSE
      /\ Then(<<>>) /\ UNCHANGED <<scene, box2d, dont_draw_things, fault>>
  BY First DEF StopSimulationMode
<1>2. Push(<<>>) /\ Order'
  <2>1. UNCHANGED <<slots, n_things, dont_draw_things>> /\ Physical' = Physical /\ Allocated'
    BY <1>1 DEF box2d, scene, Physical, DInv, Order, Allocated
  <2>2. QED BY <1>1, <2>1, PlainEnds DEF Freeing, Quiet, Adding
<1>3. TypeOK'
  BY <1>1, Seq0, Pushed DEF DInv, TypeOK, box2d, scene
<1>4. Pointers'
  BY <1>1, <1>2, Seq0, SamePointers DEF Pairs
<1>5. QED BY <1>2, <1>3, <1>4 DEF DInv

LEMMA NewWorldStep ==
  ASSUME DInv, NewWorld
  PROVE  DInv'
<1>1. /\ todo # <<>> /\ todo[1].op = "initPhysics" /\ bodies' = {BG} /\ joints' = {}
      /\ Then(<<>>) /\ UNCHANGED <<scene, b2body, b2joint, flags>>
      /\ 1 \in 1..Len(todo)
  BY First DEF NewWorld
<1>2. Physical = {}
  <2>1. FreedBefore(1)
    BY <1>1 DEF DInv, Order, InOrder
  <2>2. QED BY <1>1, <2>1 DEF FreedBefore
<1>3. Push(<<>>) /\ Order'
  <2>1. UNCHANGED <<slots, n_things, dont_draw_things>> /\ Physical' = Physical /\ Allocated'
    BY <1>1 DEF scene, flags, Physical, DInv, Order, Allocated
  <2>2. QED BY <1>1, <2>1, PlainEnds DEF Freeing, Quiet, Adding
<1>4. TypeOK'
  BY <1>1, Seq0, Pushed DEF DInv, TypeOK, scene, flags
<1>5. PairsKept'
  BY <1>1, <1>3, Seq0, PairsAfter DEF DInv, Order, Pointers, Pairs
<1>6. BodiesPointedTo' /\ PinsThreadSafe'
  BY <1>1, <1>2, DrawAssumption DEF Physical, BodiesPointedTo, PinsThreadSafe, Things
<1>7. QED BY <1>3, <1>4, <1>5, <1>6 DEF DInv, Pointers

LEMMA RemovePinsStep ==
  ASSUME DInv, RemovePins
  PROVE  DInv'
<1>1. /\ todo # <<>> /\ todo[1].op = "removePins" /\ This = todo[1].t /\ This \in Things
      /\ Head(todo) = todo[1] /\ todo[1] \in Stmt /\ StatementTyped(todo[1])
      /\ UNCHANGED <<scene, box2d, flags>> /\ 1 \in 1..Len(todo)
      /\ UNCHANGED <<slots, n_things, dont_draw_things>> /\ Physical' = Physical /\ Allocated'
  BY First DEF RemovePins, StatementTyped, OnThing, scene, flags, box2d, Physical,
               DInv, Order, Allocated
<1>2. PICK s : /\ s \in Seq(Stmt) /\ Then(s)
               /\ \/ Len(s) = 0
                  \/ /\ Len(s) = 2 /\ s[1].op = "remove" /\ StatementTyped(s[1]) /\ s[2] = todo[1]
                     /\ InArray(s[1].t)
  <2>1. CASE Then(<<>>)
    BY <2>1, Seq0
  <2>2. CASE \E i \in 0..n_things - 1 :
               slots[i] \in Pins /\ Then(<<Do("remove", slots[i]), Head(todo)>>)
    <3>1. PICK i \in 0..n_things - 1 :
            slots[i] \in Pins /\ Then(<<Do("remove", slots[i]), todo[1]>>)
      BY <1>1, <2>2
    <3>2. "remove" \in OnThing /\ slots[i] \in Things
      BY <3>1 DEF OnThing, Things
    <3>3. PICK a : a = Do("remove", slots[i])
      OBVIOUS
    <3>4. a \in Stmt /\ a.op = "remove" /\ StatementTyped(a) /\ InArray(a.t)
      BY <3>1, <3>2, <3>3, DoOnThing DEF InArray
    <3>5. Then(<<a, todo[1]>>)
      BY <3>1, <3>3
    <3>6. PICK s : s = <<a, todo[1]>>
      OBVIOUS
    <3>7. s \in Seq(Stmt) /\ Len(s) = 2 /\ s[1] = a /\ s[2] = todo[1] /\ Then(s)
      BY <1>1, <3>4, <3>5, <3>6, Seq2
    <3>8. QED BY <3>4, <3>7
  <2>3. QED BY <2>1, <2>2 DEF RemovePins
<1>3. Push(s)
  BY <1>1, <1>2, Pushed
<1>4. ASSUME NEW k \in 1..Len(s)
      PROVE  /\ StatementTyped(s[k]) /\ s[k].op \notin Quiet
             /\ MadeInArray(k)' /\ GoneBefore(k)' /\ Found(k)' /\ FreedBefore(k)' /\ PairKept(k)'
  <2>1. Len(s) = 2 /\ k \in 1..2 /\ todo'[k] = s[k]
    <3>1. Len(s) = 0 \/ Len(s) = 2
      BY <1>2
    <3>2. k \in 1..2 \/ k \in 1..0
      BY <3>1
    <3>3. Len(s) = 2
      BY <3>1, <3>2
    <3>4. QED BY <1>3, <3>3 DEF Push
  <2>2. CASE k = 1
    <3>1. s[k].op = "remove" /\ StatementTyped(s[k]) /\ InArray(s[k].t)
      BY <1>2, <2>1, <2>2
    <3>2. PICK t : t = s[k].t
      OBVIOUS
    <3>3. Found(k)'
      BY <1>1, <2>1, <2>2, <3>1, <3>2 DEF Found, InArray
    <3>4. QED BY <2>1, <2>2, <3>1, <3>3 DEF Quiet, Adding, MadeInArray, GoneBefore, FreedBefore,
                                      PairKept, Making
  <2>3. CASE k = 2
    <3>1. s[k] = todo[1]
      BY <1>2, <2>1, <2>3
    <3>2. PICK t : t = todo[1].t
      OBVIOUS
    <3>3. ~ InArray(t)'
      BY <1>1, <3>2 DEF DInv, Order, InOrder, GoneBefore, InArray
    <3>4. QED BY <1>1, <2>1, <3>1, <3>2, <3>3 DEF Quiet, Adding, MadeInArray, GoneBefore,
                                      Found, FreedBefore, PairKept, Making, AtOnce
  <2>4. QED BY <2>1, <2>2, <2>3
<1>5. Order'
  BY <1>1, <1>2, <1>4, PlainStep DEF Quiet, Freeing, Adding, Removing, Making
<1>6. TypeOK'
  BY <1>1, <1>2, Pushed DEF DInv, TypeOK, scene, box2d, flags
<1>7. Pointers'
  BY <1>1, <1>3, <1>4, SamePointers DEF Pairs
<1>8. QED BY <1>5, <1>6, <1>7 DEF DInv

LEMMA ClearStep ==
  ASSUME DInv, Clear
  PROVE  DInv'
<1>1. /\ todo # <<>> /\ todo[1].op = "clear" /\ This = todo[1].t
      /\ Head(todo) = todo[1] /\ todo[1] \in Stmt /\ StatementTyped(todo[1])
      /\ UNCHANGED <<scene, box2d, flags>> /\ 1 \in 1..Len(todo) /\ n_things \in Nat
      /\ UNCHANGED <<slots, n_things, dont_draw_things>> /\ Physical' = Physical /\ Allocated'
  BY First DEF Clear, scene, flags, box2d, Physical, DInv, Order, Allocated
<1>2. Whole
  BY <1>1, NotShifting DEF DInv, Order, TodoTyped, Freeing
<1>3. PICK s : /\ s \in Seq(Stmt) /\ Then(s)
               /\ \/ Len(s) = 0 /\ n_things = 0
                  \/ /\ Len(s) = 3 /\ s[1].op = "remove" /\ StatementTyped(s[1])
                     /\ s[2].op = "delete" /\ StatementTyped(s[2]) /\ s[2].t = s[1].t
                     /\ InArray(s[1].t)
                     /\ s[3] = todo[1]
  <2>1. CASE n_things = 0
    BY <2>1, Seq0 DEF Clear
  <2>2. CASE n_things # 0
    <3>1. "remove" \in OnThing /\ "delete" \in OnThing /\ slots[0] \in Things
      BY <1>1, <1>2, <2>2 DEF OnThing, Whole
    <3>2. PICK a, b : a = Do("remove", slots[0]) /\ b = Do("delete", slots[0])
      OBVIOUS
    <3>3. /\ a \in Stmt /\ a.op = "remove" /\ StatementTyped(a) /\ a.t = slots[0] /\ InArray(a.t)
          /\ b \in Stmt /\ b.op = "delete" /\ StatementTyped(b) /\ b.t = slots[0]
      BY <1>1, <2>2, <3>1, <3>2, DoOnThing DEF InArray
    <3>4. Then(<<a, b, todo[1]>>)
      BY <1>1, <2>2, <3>2 DEF Clear
    <3>5. PICK s : s = <<a, b, todo[1]>>
      OBVIOUS
    <3>6. /\ s \in Seq(Stmt) /\ Len(s) = 3 /\ s[1] = a /\ s[2] = b /\ s[3] = todo[1] /\ Then(s)
      BY <1>1, <3>3, <3>4, <3>5, Seq3
    <3>7. QED BY <3>3, <3>6
  <2>3. QED BY <2>1, <2>2
<1>4. Push(s)
  BY <1>1, <1>3, Pushed
<1>5. ASSUME NEW k \in 1..Len(s)
      PROVE  /\ StatementTyped(s[k]) /\ s[k].op \notin Quiet
             /\ MadeInArray(k)' /\ GoneBefore(k)' /\ Found(k)' /\ FreedBefore(k)' /\ PairKept(k)'
  <2>1. Len(s) = 3 /\ k \in 1..3 /\ todo'[k] = s[k] /\ todo'[1] = s[1] /\ 1 \in 1..Len(todo')
    <3>1. Len(s) = 0 \/ Len(s) = 3
      BY <1>3
    <3>2. k \in 1..3 \/ k \in 1..0
      BY <3>1
    <3>3. Len(s) = 3
      BY <3>1, <3>2
    <3>4. QED BY <1>4, <3>3 DEF Push
  <2>2. CASE k = 1
    <3>1. s[k].op = "remove" /\ StatementTyped(s[k]) /\ InArray(s[k].t)
      BY <1>3, <2>1, <2>2
    <3>2. PICK t : t = s[k].t
      OBVIOUS
    <3>3. Found(k)'
      BY <1>1, <2>1, <2>2, <3>1, <3>2 DEF Found, InArray
    <3>4. QED BY <2>1, <2>2, <3>1, <3>3 DEF Quiet, Adding, MadeInArray, GoneBefore, FreedBefore,
                                      PairKept, Making
  <2>3. CASE k = 2
    <3>1. s[k].op = "delete" /\ StatementTyped(s[k]) /\ s[k].t = s[1].t /\ s[1].op = "remove"
      BY <1>3, <2>1, <2>3
    <3>2. PICK t : t = s[1].t
      OBVIOUS
    <3>3. Is(1, "remove", t)' /\ 1 \in 1..k - 1
      BY <2>1, <2>3, <3>1, <3>2 DEF Is
    <3>4. GoneBefore(k)'
      BY <2>1, <3>1, <3>2, <3>3 DEF GoneBefore
    <3>5. QED BY <2>1, <3>1, <3>4 DEF Quiet, Adding, MadeInArray, Found, FreedBefore, PairKept,
                                      Making, AtOnce
  <2>4. CASE k = 3
    <3>1. s[k] = todo[1]
      BY <1>3, <2>1, <2>4
    <3>2. QED BY <1>1, <2>1, <3>1 DEF Quiet, Adding, MadeInArray, GoneBefore, Found, FreedBefore,
                                      PairKept, Making, AtOnce
  <2>5. QED BY <2>1, <2>2, <2>3, <2>4
<1>6. Order'
  <2>1. \/ Len(s) = 0 /\ n_things = 0
        \/ Len(s) > 0 /\ s[Len(s)].op = "clear"
    BY <1>1, <1>3
  <2>2. QED BY <1>1, <1>3, <1>5, <2>1, PlainStep DEF Quiet, Freeing, Adding, Removing, Making
<1>7. TypeOK'
  BY <1>1, <1>3, Pushed DEF DInv, TypeOK, scene, box2d, flags
<1>8. Pointers'
  BY <1>1, <1>4, <1>5, SamePointers DEF Pairs
<1>9. QED BY <1>6, <1>7, <1>8 DEF DInv

LEMMA FunctionSeq ==
  ASSUME NEW n \in Nat, NEW q \in [1..n -> Stmt]
  PROVE  q \in Seq(Stmt) /\ Len(q) = n
<1>1. q \in Seq(Stmt)
  BY SeqDef
<1>2. QED BY <1>1, LenProperties

LEMMA Joined ==
  ASSUME NEW a \in Seq(Stmt), NEW b \in Seq(Stmt), NEW q, q = a \o b
  PROVE  /\ q \in Seq(Stmt) /\ Len(q) = Len(a) + Len(b)
         /\ \A k \in 1..Len(a) : q[k] = a[k]
         /\ \A k \in 1..Len(b) : q[Len(a) + k] = b[k]
<1>1. /\ q \in Seq(Stmt) /\ Len(q) = Len(a) + Len(b)
      /\ \A k \in 1..Len(a) + Len(b) : q[k] = IF k <= Len(a) THEN a[k] ELSE b[k - Len(a)]
      /\ Len(a) \in Nat /\ Len(b) \in Nat
  BY ConcatProperties
<1>2. \A k \in 1..Len(a) : q[k] = a[k]
  BY <1>1
<1>3. \A k \in 1..Len(b) : q[Len(a) + k] = b[k]
  <2>1. TAKE k \in 1..Len(b)
  <2>2. Len(a) + k \in 1..Len(a) + Len(b) /\ ~ (Len(a) + k <= Len(a)) /\ Len(a) + k - Len(a) = k
    BY <1>1
  <2>3. q[Len(a) + k] = b[Len(a) + k - Len(a)]
    BY <1>1, <2>2
  <2>4. QED BY <2>2, <2>3
<1>4. QED BY <1>1, <1>2, <1>3

LEMMA ForAllCalls ==
  ASSUME n_things \in Nat, \A i \in 0..n_things - 1 : slots[i] \in Things,
         NEW op \in OnThing
  PROVE  /\ ForAll(op) \in Seq(Stmt) /\ Len(ForAll(op)) = n_things
         /\ \A k \in 1..n_things : /\ ForAll(op)[k] = Do(op, slots[k - 1])
                                   /\ slots[k - 1] \in Things
<1>1. \A k \in 1..n_things : slots[k - 1] \in Things
  <2>1. TAKE k \in 1..n_things
  <2>2. k - 1 \in 0..n_things - 1
    OBVIOUS
  <2>3. QED BY <2>2
<1>2. \A k \in 1..n_things : Do(op, slots[k - 1]) \in Stmt
  BY <1>1, DoOnThing
<1>3. ForAll(op) \in [1..n_things -> Stmt]
  BY <1>2 DEF ForAll
<1>4. QED BY <1>1, <1>3, FunctionSeq DEF ForAll

\* What World::reset does, statement by statement.
LEMMA ResetInOrder ==
  ASSUME n_things \in Nat, \A i \in 0..n_things - 1 : slots[i] \in Things
  PROVE  /\ ResetCalls \in Seq(Stmt) /\ Len(ResetCalls) = 3 * n_things + 2
         /\ \A k \in 1..3 * n_things + 2 :
              \/ k = 1 /\ ResetCalls[k] = Do("DestroyBody", BG)
              \/ /\ k \in 2..n_things + 1 /\ slots[k - 2] \in Things
                 /\ ResetCalls[k] = Do("makeUnphysical", slots[k - 2])
              \/ k = n_things + 2 /\ ResetCalls[k] = Do("initPhysics", NULL)
              \/ /\ k \in n_things + 3..2 * n_things + 2
                 /\ slots[k - n_things - 3] \in Things
                 /\ ResetCalls[k] = Do("reset", slots[k - n_things - 3])
              \/ /\ k \in 2 * n_things + 3..3 * n_things + 2
                 /\ slots[k - 2 * n_things - 3] \in Things
                 /\ ResetCalls[k] = Do("makePhysical", slots[k - 2 * n_things - 3])
<1>0. PICK n \in Nat : n = n_things
  OBVIOUS
<1>1. PICK a, b, c, d, e : /\ a = <<Do("DestroyBody", BG)>> /\ b = ForAll("makeUnphysical")
                           /\ c = <<Do("initPhysics", NULL)>> /\ d = ForAll("reset")
                           /\ e = ForAll("makePhysical")
  OBVIOUS
<1>2. PICK ab, abc, abcd, r : ab = a \o b /\ abc = ab \o c /\ abcd = abc \o d /\ r = abcd \o e
  OBVIOUS
<1>3. r = ResetCalls
  BY <1>1, <1>2 DEF ResetCalls
<1>4. a \in Seq(Stmt) /\ Len(a) = 1 /\ a[1] = Do("DestroyBody", BG)
  BY <1>1, DoDestroyBody, Seq1
<1>5. c \in Seq(Stmt) /\ Len(c) = 1 /\ c[1] = Do("initPhysics", NULL)
  <2>1. "initPhysics" \in OnNobody
    BY DEF OnNobody
  <2>2. QED BY <1>1, <2>1, DoOnNobody, Seq1
<1>6. b \in Seq(Stmt) /\ Len(b) = n
      /\ \A k \in 1..n : b[k] = Do("makeUnphysical", slots[k - 1]) /\ slots[k - 1] \in Things
  <2>1. "makeUnphysical" \in OnThing
    BY DEF OnThing
  <2>2. QED BY <1>0, <1>1, <2>1, ForAllCalls
<1>7. d \in Seq(Stmt) /\ Len(d) = n /\ \A k \in 1..n : d[k] = Do("reset", slots[k - 1])
  <2>1. "reset" \in OnThing
    BY DEF OnThing
  <2>2. QED BY <1>0, <1>1, <2>1, ForAllCalls
<1>8. e \in Seq(Stmt) /\ Len(e) = n /\ \A k \in 1..n : e[k] = Do("makePhysical", slots[k - 1])
  <2>1. "makePhysical" \in OnThing
    BY DEF OnThing
  <2>2. QED BY <1>0, <1>1, <2>1, ForAllCalls
<1>9. /\ ab \in Seq(Stmt) /\ Len(ab) = 1 + n
      /\ \A k \in 1..1 : ab[k] = a[k]
      /\ \A k \in 1..n : ab[1 + k] = b[k]
  <2>0. ab = a \o b /\ a \in Seq(Stmt) /\ b \in Seq(Stmt)
    BY <1>2, <1>4, <1>6
  <2>1. /\ ab \in Seq(Stmt) /\ Len(ab) = Len(a) + Len(b)
        /\ \A k \in 1..Len(a) : ab[k] = a[k]
        /\ \A k \in 1..Len(b) : ab[Len(a) + k] = b[k]
    BY <2>0, Joined
  <2>2. QED BY <1>4, <1>6, <2>1
<1>10. /\ abc \in Seq(Stmt) /\ Len(abc) = 1 + n + 1
       /\ \A k \in 1..1 + n : abc[k] = ab[k]
       /\ \A k \in 1..1 : abc[1 + n + k] = c[k]
  <2>0. abc = ab \o c /\ ab \in Seq(Stmt) /\ c \in Seq(Stmt)
    BY <1>2, <1>5, <1>9
  <2>1. /\ abc \in Seq(Stmt) /\ Len(abc) = Len(ab) + Len(c)
        /\ \A k \in 1..Len(ab) : abc[k] = ab[k]
        /\ \A k \in 1..Len(c) : abc[Len(ab) + k] = c[k]
    BY <2>0, Joined
  <2>2. QED BY <1>5, <1>9, <2>1
<1>11. /\ abcd \in Seq(Stmt) /\ Len(abcd) = 1 + n + 1 + n
       /\ \A k \in 1..1 + n + 1 : abcd[k] = abc[k]
       /\ \A k \in 1..n : abcd[1 + n + 1 + k] = d[k]
  <2>0. abcd = abc \o d /\ abc \in Seq(Stmt) /\ d \in Seq(Stmt)
    BY <1>2, <1>7, <1>10
  <2>1. /\ abcd \in Seq(Stmt) /\ Len(abcd) = Len(abc) + Len(d)
        /\ \A k \in 1..Len(abc) : abcd[k] = abc[k]
        /\ \A k \in 1..Len(d) : abcd[Len(abc) + k] = d[k]
    BY <2>0, Joined
  <2>2. QED BY <1>7, <1>10, <2>1
<1>12. /\ r \in Seq(Stmt) /\ Len(r) = 1 + n + 1 + n + n
       /\ \A k \in 1..1 + n + 1 + n : r[k] = abcd[k]
       /\ \A k \in 1..n : r[1 + n + 1 + n + k] = e[k]
  <2>0. r = abcd \o e /\ abcd \in Seq(Stmt) /\ e \in Seq(Stmt)
    BY <1>2, <1>8, <1>11
  <2>1. /\ r \in Seq(Stmt) /\ Len(r) = Len(abcd) + Len(e)
        /\ \A k \in 1..Len(abcd) : r[k] = abcd[k]
        /\ \A k \in 1..Len(e) : r[Len(abcd) + k] = e[k]
    BY <2>0, Joined
  <2>2. QED BY <1>8, <1>11, <2>1
<1>13. ASSUME NEW k \in 1..3 * n + 2
       PROVE  \/ k = 1 /\ r[k] = Do("DestroyBody", BG)
              \/ /\ k \in 2..n + 1 /\ slots[k - 2] \in Things
                 /\ r[k] = Do("makeUnphysical", slots[k - 2])
              \/ k = n + 2 /\ r[k] = Do("initPhysics", NULL)
              \/ /\ k \in n + 3..2 * n + 2 /\ slots[k - n - 3] \in Things
                 /\ r[k] = Do("reset", slots[k - n - 3])
              \/ /\ k \in 2 * n + 3..3 * n + 2 /\ slots[k - 2 * n - 3] \in Things
                 /\ r[k] = Do("makePhysical", slots[k - 2 * n - 3])
  <2>1. CASE k = 1
    <3>1. k \in 1..1 /\ k \in 1..1 + n /\ k \in 1..1 + n + 1 /\ k \in 1..1 + n + 1 + n
      BY <2>1
    <3>2. r[k] = a[k]
      BY <1>9, <1>10, <1>11, <1>12, <3>1
    <3>3. QED BY <1>4, <2>1, <3>2
  <2>2. CASE k \in 2..n + 1
    <3>1. PICK i : i = k - 1
      OBVIOUS
    <3>2. /\ i \in 1..n /\ i - 1 = k - 2 /\ k = 1 + i
          /\ k \in 1..1 + n /\ k \in 1..1 + n + 1 /\ k \in 1..1 + n + 1 + n
      BY <2>2, <3>1
    <3>3. r[k] = b[i]
      BY <1>9, <1>10, <1>11, <1>12, <3>2
    <3>4. QED BY <1>6, <2>2, <3>2, <3>3
  <2>3. CASE k = n + 2
    <3>1. 1 \in 1..1 /\ k = 1 + n + 1 /\ k \in 1..1 + n + 1 /\ k \in 1..1 + n + 1 + n
      BY <2>3
    <3>2. r[k] = c[1]
      BY <1>10, <1>11, <1>12, <3>1
    <3>3. QED BY <1>5, <2>3, <3>2
  <2>4. CASE k \in n + 3..2 * n + 2
    <3>1. PICK i : i = k - (n + 2)
      OBVIOUS
    <3>2. i \in 1..n /\ i - 1 = k - n - 3 /\ k = 1 + n + 1 + i /\ k \in 1..1 + n + 1 + n
      BY <2>4, <3>1
    <3>3. r[k] = d[i]
      BY <1>11, <1>12, <3>2
    <3>4. QED BY <1>6, <1>7, <2>4, <3>2, <3>3
  <2>5. CASE k \in 2 * n + 3..3 * n + 2
    <3>1. PICK i : i = k - (2 * n + 2)
      OBVIOUS
    <3>2. i \in 1..n /\ i - 1 = k - 2 * n - 3 /\ k = 1 + n + 1 + n + i
      BY <2>5, <3>1
    <3>3. r[k] = e[i]
      BY <1>12, <3>2
    <3>4. QED BY <1>6, <1>8, <2>5, <3>2, <3>3
  <2>6. QED BY <2>1, <2>2, <2>3, <2>4, <2>5
<1>14. Len(r) = 3 * n + 2 /\ r \in Seq(Stmt)
  BY <1>12
<1>15. QED BY <1>0, <1>3, <1>13, <1>14

LEMMA ResetStep ==
  ASSUME DInv, Reset
  PROVE  DInv'
<1>1. /\ todo # <<>> /\ todo[1].op = "World::reset" /\ Then(ResetCalls)
      /\ UNCHANGED <<scene, box2d, flags>> /\ n_things \in Nat
      /\ UNCHANGED <<slots, n_things, dont_draw_things>> /\ Physical' = Physical /\ Allocated'
  BY First DEF Reset, scene, flags, box2d, Physical, DInv, Order, Allocated
<1>2. Whole
  BY <1>1, NotShifting DEF DInv, Order, TodoTyped, Freeing
<1>3. PICK s : s = ResetCalls
  OBVIOUS
<1>4. PICK n : n = n_things
  OBVIOUS
<1>5. /\ s \in Seq(Stmt) /\ Len(s) = 3 * n + 2 /\ Then(s) /\ n \in Nat
      /\ \A k \in 1..3 * n + 2 :
           \/ k = 1 /\ s[k] = Do("DestroyBody", BG)
           \/ k \in 2..n + 1 /\ slots[k - 2] \in Things /\ s[k] = Do("makeUnphysical", slots[k - 2])
           \/ k = n + 2 /\ s[k] = Do("initPhysics", NULL)
           \/ /\ k \in n + 3..2 * n + 2 /\ slots[k - n - 3] \in Things
              /\ s[k] = Do("reset", slots[k - n - 3])
           \/ /\ k \in 2 * n + 3..3 * n + 2 /\ slots[k - 2 * n - 3] \in Things
              /\ s[k] = Do("makePhysical", slots[k - 2 * n - 3])
  BY <1>1, <1>2, <1>3, <1>4, ResetInOrder DEF Whole
<1>6. \A k \in 1..Len(s) :
        /\ StatementTyped(s[k])
        /\ \/ k = 1 /\ s[k].op = "DestroyBody" /\ s[k].t = BG
           \/ k \in 2..n + 1 /\ s[k].op = "makeUnphysical" /\ s[k].t = slots[k - 2]
           \/ k = n + 2 /\ s[k].op = "initPhysics"
           \/ k \in n + 3..2 * n + 2 /\ s[k].op = "reset"
           \/ /\ k \in 2 * n + 3..3 * n + 2 /\ s[k].op = "makePhysical"
              /\ s[k].t = slots[k - 2 * n - 3]
  <2>1. TAKE k \in 1..Len(s)
  <2>2. /\ "makeUnphysical" \in OnThing /\ "reset" \in OnThing /\ "makePhysical" \in OnThing
        /\ "initPhysics" \in OnNobody
    BY DEF OnThing, OnNobody
  <2>3. k \in 1..3 * n + 2
    BY <1>5
  <2>4. CASE k = 1 /\ s[k] = Do("DestroyBody", BG)
    BY <2>4, DoDestroyBody
  <2>5. CASE k \in 2..n + 1 /\ slots[k - 2] \in Things /\ s[k] = Do("makeUnphysical", slots[k - 2])
    BY <2>2, <2>5, DoOnThing
  <2>6. CASE k = n + 2 /\ s[k] = Do("initPhysics", NULL)
    BY <2>2, <2>6, DoOnNobody
  <2>7. CASE /\ k \in n + 3..2 * n + 2 /\ slots[k - n - 3] \in Things
             /\ s[k] = Do("reset", slots[k - n - 3])
    BY <2>2, <2>7, DoOnThing
  <2>8. CASE /\ k \in 2 * n + 3..3 * n + 2 /\ slots[k - 2 * n - 3] \in Things
             /\ s[k] = Do("makePhysical", slots[k - 2 * n - 3])
    BY <2>2, <2>8, DoOnThing
  <2>9. QED BY <1>5, <2>3, <2>4, <2>5, <2>6, <2>7, <2>8
<1>7. Push(s)
  BY <1>1, <1>5, Pushed
<1>8. /\ Len(s) = 3 * n + 2 /\ n \in Nat /\ \A k \in 1..Len(s) : todo'[k] = s[k]
      /\ Len(todo') >= Len(s) /\ Len(todo') \in Nat
  BY <1>5, <1>7 DEF Push
<1>9. ASSUME NEW k \in 1..Len(s) PROVE MadeInArray(k)'
  <2>1. SUFFICES ASSUME s[k].op \in Making PROVE MadeInArray(k)'
    BY <1>8 DEF MadeInArray
  <2>2. k \in 2 * n + 3..3 * n + 2 /\ s[k].t = slots[k - 2 * n - 3]
    BY <1>6, <2>1 DEF Making
  <2>3. PICK i, t : i = k - 2 * n - 3 /\ t = slots[i]
    OBVIOUS
  <2>4. i \in 0..n_things' - 1 /\ slots'[i] = t /\ todo'[k].t = t
    BY <1>1, <1>4, <1>8, <2>2, <2>3
  <2>5. InArray(t)'
    BY <2>4 DEF InArray
  <2>6. ASSUME NEW j \in 1..k - 1 PROVE todo'[j].op \notin Removing \cup {"load"}
    <3>1. j \in 1..Len(s)
      BY <1>8
    <3>2. s[j].op \in {"DestroyBody", "makeUnphysical", "initPhysics", "reset", "makePhysical"}
      BY <1>6, <3>1
    <3>3. QED BY <1>8, <3>1, <3>2 DEF Removing
  <2>7. QED BY <2>4, <2>5, <2>6 DEF MadeInArray
<1>10. ASSUME NEW k \in 1..Len(s) PROVE FreedBefore(k)'
  <2>1. SUFFICES ASSUME s[k].op = "initPhysics" PROVE FreedBefore(k)'
    BY <1>8 DEF FreedBefore
  <2>2. k = n + 2
    BY <1>6, <2>1
  <2>3. ASSUME NEW j \in 1..k - 1 PROVE todo'[j].op \in Freeing
    <3>1. j \in 1..Len(s) /\ j \in 1..n + 1
      BY <1>8, <2>2
    <3>2. s[j].op \in {"DestroyBody", "makeUnphysical"}
      BY <1>6, <1>8, <3>1
    <3>3. QED BY <1>8, <3>1, <3>2 DEF Freeing
  <2>4. ASSUME NEW t \in Physical' PROVE \E j \in 1..k - 1 : Frees(j, t)'
    <3>1. PICK i \in 0..n_things - 1 : slots[i] = t
      BY <1>1, <1>2, <2>4 DEF Whole, InArray
    <3>2. PICK j : j = i + 2
      OBVIOUS
    <3>3. j \in 1..Len(s) /\ j \in 2..n + 1 /\ j \in 1..k - 1 /\ j - 2 = i /\ j \in 1..Len(todo')
      BY <1>4, <1>8, <2>2, <3>1, <3>2
    <3>4. s[j].op = "makeUnphysical" /\ s[j].t = t
      <4>1. j # 1 /\ j # n + 2 /\ j \notin n + 3..2 * n + 2 /\ j \notin 2 * n + 3..3 * n + 2
        BY <1>8, <3>3
      <4>2. s[j].op = "makeUnphysical" /\ s[j].t = slots[j - 2]
        BY <1>6, <3>3, <4>1
      <4>3. QED BY <3>1, <3>3, <4>2
    <3>5. Is(j, "makeUnphysical", t)'
      BY <1>8, <3>3, <3>4 DEF Is
    <3>6. QED BY <3>3, <3>5 DEF Frees
  <2>5. QED BY <2>3, <2>4 DEF FreedBefore
<1>11. ASSUME NEW k \in 1..Len(s)
       PROVE  /\ StatementTyped(s[k]) /\ s[k].op \notin Quiet \cup Removing
              /\ GoneBefore(k)' /\ Found(k)' /\ PairKept(k)'
  <2>1. /\ StatementTyped(s[k]) /\ todo'[k] = s[k]
        /\ s[k].op \in {"DestroyBody", "makeUnphysical", "initPhysics", "reset", "makePhysical"}
        /\ s[k].op = "DestroyBody" => k = 1 /\ s[k].t = BG
    BY <1>6, <1>8
  <2>2. QED BY <2>1 DEF Quiet, Removing, Adding, GoneBefore, Found, PairKept, AtOnce
<1>12. Order'
  BY <1>1, <1>5, <1>9, <1>10, <1>11, PlainStep DEF Quiet, Freeing, Adding, Making
<1>13. TypeOK'
  BY <1>1, <1>5, Pushed DEF DInv, TypeOK, scene, box2d, flags
<1>14. Pointers'
  BY <1>1, <1>7, <1>11, SamePointers DEF Pairs
<1>15. QED BY <1>12, <1>13, <1>14 DEF DInv
LEMMA SetDrawingStep ==
  ASSUME DInv, SetDrawing
  PROVE  DInv'
<1>1. PICK op \in {"disableDrawing", "enableDrawing"} :
        /\ Executes(op)
        /\ \/ op = "disableDrawing" /\ dont_draw_things' = TRUE
           \/ op = "enableDrawing" /\ dont_draw_things' = FALSE
        /\ Then(<<>>) /\ UNCHANGED <<scene, box2d, simulation_mode, fault>>
  BY DEF SetDrawing
<1>2. /\ todo # <<>> /\ todo[1].op = op /\ 1 \in 1..Len(todo) /\ Len(todo) \in Nat
      /\ todo \in Seq(Stmt)
      /\ UNCHANGED <<slots, n_things>> /\ Physical' = Physical /\ Allocated'
  BY <1>1, First DEF scene, box2d, Physical, DInv, Order, Allocated
<1>3. /\ Push(<<>>)
      /\ todo' = <<>> => call' = "none"
      /\ todo' # <<>> => call' = call
      /\ todo' = <<>> <=> Len(todo') = 0
  BY <1>1, <1>2, Seq0, Pushed
<1>4. /\ Len(todo') = Len(todo) - 1
      /\ \A k \in 1..Len(todo') : k + 1 \in 2..Len(todo) /\ todo'[k] = todo[k + 1]
  BY <1>3, Seq0 DEF Push
<1>5. ArrayShape'
  <2>1. Whole
    BY <1>2, NotShifting DEF DInv, Order, Freeing
  <2>2. \A t \in Physical' : InArray(t)
    BY <1>2, <2>1 DEF Whole
  <2>3. QED BY <1>2, <1>3, <2>2, Seq0, ArrayAfter DEF DInv, Order, Freeing
<1>6. DrawingOff'
  <2>1. /\ call \in {"stopPlay", "zap"} /\ todo[Len(todo)].op = "enableDrawing"
        /\ op = "enableDrawing" => 1 = Len(todo) \/ todo[2].op = "disableDrawing"
        /\ \A k \in 1..Len(todo) :
             todo[k].op = "enableDrawing" => k = Len(todo) \/ todo[k + 1].op = "disableDrawing"
    <3>1. DrawingOff
      BY DEF DInv, Order
    <3>2. /\ call \in {"stopPlay", "zap"}
          /\ todo[1].op = "enableDrawing" => 1 = Len(todo) \/ todo[1 + 1].op = "disableDrawing"
      BY <1>1, <1>2, <3>1 DEF DrawingOff
    <3>3. QED BY <1>2, <3>1, <3>2 DEF DrawingOff
  <2>2. CASE Len(todo') = 0
    <3>1. op = "enableDrawing" /\ call' = "none" /\ dont_draw_things' = FALSE
      <4>1. Len(todo) = 1 /\ todo' = <<>>
        BY <1>2, <1>3, <1>4, <2>2
      <4>2. op = "enableDrawing"
        BY <1>2, <2>1, <4>1
      <4>3. QED BY <1>1, <1>3, <4>1, <4>2
    <3>2. QED BY <2>2, <3>1 DEF DrawingOff
  <2>3. CASE Len(todo') # 0
    <3>1. call' = call /\ Len(todo') \in 1..Len(todo') /\ 1 \in 1..Len(todo')
          /\ Len(todo') + 1 = Len(todo)
      BY <1>2, <1>3, <1>4, <2>3
    <3>2. todo'[Len(todo')].op = "enableDrawing"
      BY <1>4, <2>1, <3>1
    <3>3. dont_draw_things' \/ todo'[1].op = "disableDrawing"
      <4>1. todo'[1] = todo[2] /\ 1 # Len(todo)
        BY <1>2, <1>4, <3>1
      <4>2. QED BY <1>1, <2>1, <4>1
    <3>4. ASSUME NEW k \in 1..Len(todo'), todo'[k].op = "enableDrawing"
          PROVE  k = Len(todo') \/ todo'[k + 1].op = "disableDrawing"
      <4>1. PICK j : j = k + 1
        OBVIOUS
      <4>2. j \in 1..Len(todo) /\ todo[j].op = "enableDrawing"
        BY <1>4, <3>4, <4>1
      <4>3. j = Len(todo) \/ todo[j + 1].op = "disableDrawing"
        BY <2>1, <4>2
      <4>4. CASE j # Len(todo)
        <5>1. k + 1 \in 1..Len(todo') /\ k + 1 = j
          BY <1>2, <1>4, <4>1, <4>2, <4>4
        <5>2. todo'[k + 1] = todo[j + 1]
          BY <1>4, <5>1
        <5>3. QED BY <4>3, <4>4, <5>2
      <4>5. QED BY <1>2, <1>4, <4>1, <4>4
    <3>5. QED BY <2>1, <3>1, <3>2, <3>3, <3>4 DEF DrawingOff
  <2>4. QED BY <2>2, <2>3
<1>7. Order'
  <2>1. \A t \in Things : InArray(t)' => InArray(t)
    BY <1>2 DEF InArray
  <2>2. todo[1].op \notin Freeing \cup Adding \cup {"load", "remove", "n_things--", "clear"} \cup Making
        /\ \A t : ~ Next1("n_things--", t)
    BY <1>2 DEF Freeing, Adding, Making, Next1, Is
  <2>3. QED BY <1>1, <1>2, <1>5, <1>6, <2>1, <2>2, Seq0, OrderAfter
<1>8. TypeOK'
  BY <1>1, <1>2, Seq0, Pushed DEF DInv, TypeOK, scene, box2d
<1>9. Pointers'
  BY <1>1, <1>2, <1>3, Seq0, SamePointers DEF Pairs
<1>10. QED BY <1>7, <1>8, <1>9 DEF DInv
-----------------------------------------------------------------------------
(***************************************************************************)
(* The statements of remove() and add().                                   *)
(***************************************************************************)
RemoveCalls(t, h) ==
  <<Do("makeUnphysical", t)>> \o [i \in 1..n_things - h |-> Do("moveUp", h + i - 1)]
    \o <<Do("n_things--", t), Do("removePins", t)>>

\* n is the number of places from that of t to the end of the array.
RemoveOrder(s, t, h, n) ==
  /\ s \in Seq(Stmt) /\ Len(s) = n + 3
  /\ \A k \in 1..n + 3 :
       /\ StatementTyped(s[k])
       /\ \/ k = 1 /\ s[k].op = "makeUnphysical" /\ s[k].t = t
          \/ k \in 2..n + 1 /\ s[k].op = "moveUp" /\ s[k].t = h + k - 2
          \/ k = n + 2 /\ s[k].op = "n_things--" /\ s[k].t = t
          \/ k = n + 3 /\ s[k].op = "removePins" /\ s[k].t = t

LEMMA RemoveInOrder ==
  ASSUME n_things \in Nat, NEW t \in Things, NEW h \in 0..n_things - 1
  PROVE  RemoveOrder(RemoveCalls(t, h), t, h, n_things - h)
<1>0. PICK n : n = n_things - h
  OBVIOUS
<1>1. n \in Nat /\ n > 0
  BY <1>0
<1>2. PICK a, b, x, y, c : /\ a = <<Do("makeUnphysical", t)>>
                           /\ b = [i \in 1..n |-> Do("moveUp", h + i - 1)]
                           /\ x = Do("n_things--", t) /\ y = Do("removePins", t)
                           /\ c = <<x, y>>
  OBVIOUS
<1>3. PICK ab, r : ab = a \o b /\ r = ab \o c
  OBVIOUS
<1>4. RemoveCalls(t, h) = r
  BY <1>0, <1>2, <1>3 DEF RemoveCalls
<1>5. /\ Do("makeUnphysical", t) \in Stmt /\ Do("makeUnphysical", t).op = "makeUnphysical"
      /\ Do("makeUnphysical", t).t = t /\ StatementTyped(Do("makeUnphysical", t))
      /\ x \in Stmt /\ x.op = "n_things--" /\ x.t = t /\ StatementTyped(x)
      /\ y \in Stmt /\ y.op = "removePins" /\ y.t = t /\ StatementTyped(y)
  <2>1. "makeUnphysical" \in OnThing /\ "n_things--" \in OnThing /\ "removePins" \in OnThing
    BY DEF OnThing
  <2>2. QED BY <1>2, <2>1, DoOnThing
<1>6. a \in Seq(Stmt) /\ Len(a) = 1 /\ a[1] = Do("makeUnphysical", t)
  BY <1>2, <1>5, Seq1
<1>7. /\ b \in Seq(Stmt) /\ Len(b) = n
      /\ \A i \in 1..n : b[i].op = "moveUp" /\ b[i].t = h + i - 1 /\ StatementTyped(b[i])
  <2>1. ASSUME NEW i \in 1..n
        PROVE  /\ Do("moveUp", h + i - 1) \in Stmt /\ Do("moveUp", h + i - 1).op = "moveUp"
               /\ Do("moveUp", h + i - 1).t = h + i - 1 /\ StatementTyped(Do("moveUp", h + i - 1))
    <3>1. h + i - 1 \in Nat /\ "moveUp" \in Ops
      BY <1>1 DEF Ops
    <3>2. PICK m : m = h + i - 1
      OBVIOUS
    <3>3. Do("moveUp", m) \in Stmt /\ Do("moveUp", m).op = "moveUp" /\ Do("moveUp", m).t = m
      BY <3>1, <3>2, DoStmt DEF Args
    <3>4. StatementTyped(Do("moveUp", m))
      BY <3>1, <3>2, <3>3 DEF StatementTyped, OnPin, OnObject, OnThing
    <3>5. QED BY <3>2, <3>3, <3>4
  <2>2. b \in [1..n -> Stmt] /\ \A i \in 1..n : b[i] = Do("moveUp", h + i - 1)
    BY <1>2, <2>1
  <2>3. b \in Seq(Stmt) /\ Len(b) = n
    BY <1>1, <2>2, FunctionSeq
  <2>4. QED BY <2>1, <2>2, <2>3
<1>8. c \in Seq(Stmt) /\ Len(c) = 2 /\ c[1] = x /\ c[2] = y
  BY <1>2, <1>5, Seq2
<1>9. /\ ab \in Seq(Stmt) /\ Len(ab) = 1 + n /\ ab[1] = a[1]
      /\ \A k \in 1..n : ab[1 + k] = b[k]
  <2>1. /\ ab \in Seq(Stmt) /\ Len(ab) = Len(a) + Len(b)
        /\ \A k \in 1..Len(a) : ab[k] = a[k]
        /\ \A k \in 1..Len(b) : ab[Len(a) + k] = b[k]
    <3>1. ab = a \o b /\ a \in Seq(Stmt) /\ b \in Seq(Stmt)
      BY <1>3, <1>6, <1>7
    <3>2. QED BY <3>1, Joined
  <2>2. QED BY <1>6, <1>7, <2>1
<1>10. /\ r \in Seq(Stmt) /\ Len(r) = 1 + n + 2
       /\ \A k \in 1..1 + n : r[k] = ab[k]
       /\ \A k \in 1..2 : r[1 + n + k] = c[k]
  <2>1. /\ r \in Seq(Stmt) /\ Len(r) = Len(ab) + Len(c)
        /\ \A k \in 1..Len(ab) : r[k] = ab[k]
        /\ \A k \in 1..Len(c) : r[Len(ab) + k] = c[k]
    <3>1. r = ab \o c /\ ab \in Seq(Stmt) /\ c \in Seq(Stmt)
      BY <1>3, <1>8, <1>9
    <3>2. QED BY <3>1, Joined
  <2>2. QED BY <1>8, <1>9, <2>1
<1>11. ASSUME NEW k \in 1..n + 3
       PROVE  /\ StatementTyped(r[k])
              /\ \/ k = 1 /\ r[k].op = "makeUnphysical" /\ r[k].t = t
                 \/ k \in 2..n + 1 /\ r[k].op = "moveUp" /\ r[k].t = h + k - 2
                 \/ k = n + 2 /\ r[k].op = "n_things--" /\ r[k].t = t
                 \/ k = n + 3 /\ r[k].op = "removePins" /\ r[k].t = t
  <2>1. CASE k = 1
    BY <1>1, <1>5, <1>6, <1>9, <1>10, <2>1
  <2>2. CASE k \in 2..n + 1
    <3>1. PICK i : i = k - 1
      OBVIOUS
    <3>2. i \in 1..n /\ k = 1 + i /\ k \in 1..1 + n /\ h + i - 1 = h + k - 2
      BY <1>1, <2>2, <3>1
    <3>3. r[k] = b[i]
      BY <1>9, <1>10, <3>2
    <3>4. QED BY <1>7, <2>2, <3>2, <3>3
  <2>3. CASE k = n + 2
    <3>1. 1 \in 1..2 /\ k = 1 + n + 1
      BY <1>1, <2>3
    <3>2. r[k] = x
      BY <1>8, <1>10, <3>1
    <3>3. QED BY <1>5, <2>3, <3>2
  <2>4. CASE k = n + 3
    <3>1. 2 \in 1..2 /\ k = 1 + n + 2
      BY <1>1, <2>4
    <3>2. r[k] = y
      BY <1>8, <1>10, <3>1
    <3>3. QED BY <1>5, <2>4, <3>2
  <2>5. k = 1 \/ k \in 2..n + 1 \/ k = n + 2 \/ k = n + 3
    BY <1>1
  <2>6. QED BY <2>1, <2>2, <2>3, <2>4, <2>5
<1>12. r \in Seq(Stmt) /\ Len(r) = n + 3
  BY <1>1, <1>10
<1>13. RemoveOrder(r, t, h, n)
  BY <1>11, <1>12 DEF RemoveOrder
<1>14. QED BY <1>0, <1>4, <1>13

\* Without one of its things the array is still in order.
LEMMA HoleOpens ==
  ASSUME TypeOK, Whole, JunkBehind, todo[1].op # "n_things++",
         NEW t \in Things, NEW h \in 0..n_things - 1, slots[h] = t
  PROVE  Hole(t, h)
<1>0. n_things \in Nat /\ MAX_THINGS \in Nat /\ n_things <= MAX_THINGS /\ n_things > 0
  BY DrawAssumption DEF TypeOK
<1>1. ASSUME NEW i \in 0..n_things - 2
      PROVE  \E m \in 0..n_things - 1 : /\ m # h /\ Kept(h, i) = slots[m]
                                        /\ m = IF i < h THEN i ELSE i + 1
  <2>1. CASE i < h
    <3>1. i \in 0..n_things - 1 /\ i # h
      BY <1>0, <2>1
    <3>2. QED BY <2>1, <3>1 DEF Kept
  <2>2. CASE ~ (i < h)
    <3>1. i + 1 \in 0..n_things - 1 /\ i + 1 # h
      BY <1>0, <2>2
    <3>2. QED BY <2>2, <3>1 DEF Kept
  <2>3. QED BY <2>1, <2>2
<1>2. \A i \in 0..n_things - 2 : Kept(h, i) \in Things \ {t}
  BY <1>1 DEF Whole
<1>3. ASSUME NEW i \in 0..n_things - 2, NEW j \in 0..n_things - 2, Kept(h, i) = Kept(h, j)
      PROVE  i = j
  <2>1. PICK m \in 0..n_things - 1 : Kept(h, i) = slots[m] /\ m = IF i < h THEN i ELSE i + 1
    BY <1>1
  <2>2. PICK l \in 0..n_things - 1 : Kept(h, j) = slots[l] /\ l = IF j < h THEN j ELSE j + 1
    BY <1>1
  <2>3. m = l
    BY <1>3, <2>1, <2>2 DEF Whole
  <2>4. QED BY <1>0, <2>1, <2>2, <2>3
<1>4. Kept(h, n_things - 1) = JUNK
  <2>1. Kept(h, n_things - 1) = slots[n_things]
    BY <1>0 DEF Kept
  <2>2. n_things \in n_things..MAX_THINGS
    BY <1>0
  <2>3. QED BY <2>1, <2>2 DEF JunkBehind, Next1, Is
<1>5. ASSUME NEW u \in Physical \ {t} PROVE \E i \in 0..n_things - 2 : Kept(h, i) = u
  <2>1. PICK m \in 0..n_things - 1 : slots[m] = u
    BY DEF Whole, InArray
  <2>2. m # h
    BY <2>1
  <2>3. CASE m < h
    <3>1. m \in 0..n_things - 2 /\ Kept(h, m) = u
      BY <1>0, <2>1, <2>3 DEF Kept
    <3>2. QED BY <3>1
  <2>4. CASE m > h
    <3>1. PICK i : i = m - 1
      OBVIOUS
    <3>2. i \in 0..n_things - 2 /\ ~ (i < h) /\ i + 1 = m
      BY <1>0, <2>4, <3>1
    <3>3. Kept(h, i) = u
      BY <2>1, <3>2 DEF Kept
    <3>4. QED BY <3>2, <3>3
  <2>5. QED BY <2>2, <2>3, <2>4
<1>6. QED BY <1>0, <1>2, <1>3, <1>4, <1>5 DEF Hole

LEMMA RemoveStep ==
  ASSUME DInv, Remove
  PROVE  DInv'
<1>1. /\ todo # <<>> /\ todo[1].op = "remove" /\ This = todo[1].t /\ This \in Things
      /\ UNCHANGED <<scene, box2d, flags>> /\ 1 \in 1..Len(todo) /\ n_things \in Nat
      /\ UNCHANGED <<slots, n_things, dont_draw_things>> /\ Physical' = Physical /\ Allocated'
      /\ TypeOK /\ TodoTyped /\ ArrayShape /\ DrawingOff /\ todo \in Seq(Stmt)
  BY First DEF Remove, StatementTyped, OnThing, scene, flags, box2d, Physical,
               DInv, Order, Allocated
<1>2. Whole /\ \A k \in 1..Len(todo) : todo[k].op \notin {"n_things--", "moveUp"}
  BY <1>1, NotShifting DEF Freeing
<1>3. PICK t, h, n : t = This /\ h = IndexOf(This) /\ n = n_things
  OBVIOUS
<1>4. h \in 0..n_things - 1 /\ slots[h] = t /\ n \in Nat /\ t \in Things
  <2>1. Found(1)
    BY <1>1 DEF DInv, Order, InOrder
  <2>2. InArray(This)
    BY <1>1, <2>1 DEF Found
  <2>3. QED BY <1>1, <1>3, <2>2 DEF InArray, IndexOf
<1>5. PICK s : s = RemoveCalls(t, h)
  OBVIOUS
<1>6. Then(s)
  BY <1>3, <1>5 DEF Remove, RemoveCalls
<1>7. /\ s \in Seq(Stmt) /\ Len(s) = n - h + 3
      /\ \A k \in 1..n - h + 3 :
           /\ StatementTyped(s[k])
           /\ \/ k = 1 /\ s[k].op = "makeUnphysical" /\ s[k].t = t
              \/ k \in 2..n - h + 1 /\ s[k].op = "moveUp" /\ s[k].t = h + k - 2
              \/ k = n - h + 2 /\ s[k].op = "n_things--" /\ s[k].t = t
              \/ k = n - h + 3 /\ s[k].op = "removePins" /\ s[k].t = t
  <2>1. RemoveOrder(s, t, h, n_things - h)
    BY <1>1, <1>4, <1>5, RemoveInOrder
  <2>2. RemoveOrder(s, t, h, n - h)
    BY <1>3, <2>1
  <2>3. QED BY <2>2 DEF RemoveOrder
<1>8. /\ Push(s)
      /\ todo' = <<>> <=> Len(todo') = 0
      /\ todo' = <<>> => call' = "none"
      /\ todo' # <<>> => call' = call
  BY <1>1, <1>6, <1>7, Pushed
<1>a. n \in Nat /\ h \in Nat /\ h < n /\ n_things' = n
  BY <1>1, <1>3, <1>4
<1>10. PICK l : l = n - h + 2
  OBVIOUS
<1>b. l \in Nat /\ l = n - h + 2 /\ l >= 3
  BY <1>a, <1>10
<1>c. PICK m : m = Len(todo')
  OBVIOUS
<1>9. /\ Len(s) = l + 1 /\ m = Len(todo') /\ m \in Nat /\ m >= l + 1
      /\ n \in Nat /\ h \in Nat /\ h < n /\ l \in Nat /\ l = n - h + 2 /\ l >= 3
  BY <1>7, <1>8, <1>a, <1>b, <1>c DEF Push
<1>d. \A k \in 1..l + 1 : k \in 1..Len(s) /\ k \in 1..Len(todo') /\ todo'[k] = s[k]
  BY <1>8, <1>9 DEF Push
<1>11. l \in 2..Len(s) /\ l \in 1..Len(todo') /\ todo'[l].op = "n_things--" /\ todo'[l].t = t
  <2>1. l \in 2..Len(s) /\ l \in 1..l + 1 /\ l # 1 /\ l # n - h + 3 /\ l \notin 2..n - h + 1
    BY <1>9
  <2>2. s[l].op = "n_things--" /\ s[l].t = t
    BY <1>7, <1>d, <2>1
  <2>3. QED BY <1>d, <2>1, <2>2
<1>12. ASSUME NEW k \in 1..Len(todo'), todo'[k].op \in {"n_things--", "moveUp"}
       PROVE  k \in 1..Len(s) /\ todo'[k] = s[k]
  <2>1. CASE k > Len(s)
    <3>1. k + 1 - Len(s) \in 2..Len(todo) /\ todo'[k] = todo[k + 1 - Len(s)]
      BY <1>8, <2>1, Behind
    <3>2. k + 1 - Len(s) \in 1..Len(todo)
      BY <3>1
    <3>3. QED BY <1>2, <1>12, <3>1, <3>2
  <2>2. QED BY <1>8, <2>1, InFront
<1>13. Shift(l, h)'
  <2>1. Hole(t, h)'
    <3>1. Hole(t, h)
      BY <1>1, <1>2, <1>4, HoleOpens DEF ArrayShape
    <3>2. QED BY <1>1, <3>1 DEF Hole, Kept
  <2>2. l - (n_things' - h) = 2
    BY <1>a, <1>b
  <2>3. ASSUME NEW j \in 2..l - 1
        PROVE  todo'[j].op = "moveUp" /\ todo'[j].t = n_things' - (l - j)
    <3>1. j \in 1..l + 1 /\ j # 1 /\ j # n - h + 2 /\ j # n - h + 3
      BY <1>9
    <3>2. s[j].op = "moveUp" /\ s[j].t = h + j - 2
      BY <1>7, <1>d, <3>1
    <3>3. h + j - 2 = n - (l - j)
      BY <1>a, <1>b
    <3>4. QED BY <1>a, <1>d, <3>1, <3>2, <3>3
  <2>4. todo'[1].op = "makeUnphysical" /\ todo'[1].t = t /\ 1 \in 1..Len(todo')
    <3>1. 1 \in 1..l + 1 /\ 1 \notin 2..n - h + 1 /\ 1 # n - h + 2 /\ 1 # n - h + 3
      BY <1>9
    <3>2. s[1].op = "makeUnphysical" /\ s[1].t = t
      BY <1>7, <1>d, <3>1
    <3>3. QED BY <1>d, <3>1, <3>2
  <2>5. Frees(1, t)'
    BY <2>4 DEF Frees, Is
  <2>6. \A j \in 1..2 - 1 : todo'[j].op \in Freeing
    BY <2>4 DEF Freeing
  <2>7. \E j \in 1..2 - 1 : Frees(j, t)'
    BY <2>5
  <2>8. h < n_things' /\ slots'[h] = t
    BY <1>1, <1>4, <1>a
  <2>9. QED BY <1>11, <2>1, <2>2, <2>3, <2>6, <2>7, <2>8 DEF Shift
<1>14. ArrayShape'
  <2>1. JunkBehind'
    BY <1>1 DEF ArrayShape, JunkBehind, Next1, Is
  <2>2. ASSUME NEW k \in 1..Len(todo'), todo'[k].op = "n_things--" PROVE Shifting(k)'
    <3>1. k = l
      BY <1>7, <1>10, <1>12, <2>2
    <3>2. h \in 0..n_things'
      BY <1>a
    <3>3. QED BY <1>13, <3>1, <3>2 DEF Shifting
  <2>3. ASSUME NEW k \in 1..Len(todo'), todo'[k].op = "moveUp"
        PROVE  \E j \in k + 1..Len(todo') : todo'[j].op = "n_things--"
    <3>1. k \in 2..n - h + 1
      BY <1>7, <1>12, <2>3
    <3>2. l \in k + 1..Len(todo')
      BY <1>9, <3>1
    <3>3. QED BY <1>11, <3>2
  <2>4. QED BY <1>11, <2>1, <2>2, <2>3 DEF ArrayShape
<1>15. DrawingOff'
  BY <1>1, <1>7, <1>8, DrawingAfter
<1>16. ASSUME NEW k \in 1..Len(s)
       PROVE  /\ StatementTyped(s[k]) /\ s[k].op \notin Adding \cup {"load"}
              /\ MadeInArray(k)' /\ GoneBefore(k)' /\ Found(k)' /\ FreedBefore(k)' /\ PairKept(k)'
  <2>1. /\ StatementTyped(s[k]) /\ todo'[k] = s[k]
        /\ s[k].op \in {"makeUnphysical", "moveUp", "n_things--", "removePins"}
        /\ s[k].op = "removePins" => k = l + 1 /\ s[k].t = t
    <3>1. k \in 1..l + 1
      BY <1>9
    <3>2. QED BY <1>7, <1>9, <1>d, <3>1
  <2>2. GoneBefore(k)'
    <3>1. CASE s[k].op = "removePins"
      <4>1. l \in 1..k - 1 /\ Is(l, "n_things--", t)'
        BY <1>9, <1>11, <2>1, <3>1 DEF Is
      <4>2. QED BY <2>1, <3>1, <4>1 DEF GoneBefore
    <3>2. CASE s[k].op # "removePins"
      BY <2>1, <3>2 DEF GoneBefore
    <3>3. QED BY <3>1, <3>2
  <2>3. QED BY <2>1, <2>2 DEF Adding, Making, MadeInArray, Found, FreedBefore, PairKept, AtOnce
<1>17. Order'
  <2>1. \A u \in Things : InArray(u)' => InArray(u)
    BY <1>1 DEF InArray
  <2>2. \A u : ~ Next1("n_things--", u)
    BY <1>1 DEF Next1, Is
  <2>3. \E i \in 1..Len(s) : s[i].op = "n_things--" /\ s[i].t = todo[1].t
    BY <1>1, <1>3, <1>9, <1>11, <1>d
  <2>4. QED BY <1>1, <1>6, <1>7, <1>14, <1>15, <1>16, <2>1, <2>2, <2>3, OrderAfter
            DEF Freeing, Adding, Making, Removing
<1>18. TypeOK'
  BY <1>1, <1>6, <1>7, Pushed DEF DInv, TypeOK, scene, box2d, flags
<1>19. Pointers'
  BY <1>1, <1>8, <1>16, SamePointers DEF Pairs
<1>20. QED BY <1>17, <1>18, <1>19 DEF DInv

LEMMA MoveUpStep ==
  ASSUME DInv, MoveUp
  PROVE  DInv'
<1>1. /\ todo # <<>> /\ todo[1].op = "moveUp" /\ This = todo[1].t
      /\ Then(<<>>) /\ slots' = [slots EXCEPT ![This] = slots[This + 1]]
      /\ UNCHANGED <<n_things, allocated, pinned, invisible, box2d, flags>>
      /\ 1 \in 1..Len(todo) /\ Len(todo) \in Nat
      /\ TypeOK /\ TodoTyped /\ ArrayShape /\ DrawingOff /\ Allocated
  BY First DEF MoveUp, DInv, Order
<1>2. /\ Push(<<>>)
      /\ todo' = <<>> <=> Len(todo') = 0
      /\ todo' = <<>> => call' = "none"
      /\ todo' # <<>> => call' = call
  BY <1>1, Seq0, Pushed
<1>3. PICK n, m : n = n_things /\ m = Len(todo)
  OBVIOUS
<1>4. n \in Nat /\ n_things' = n /\ n <= MAX_THINGS /\ MAX_THINGS \in Nat /\ m \in Nat
  BY <1>1, <1>3, DrawAssumption DEF TypeOK
<1>5. /\ Len(todo') = m - 1
      /\ \A k \in 1..m - 1 : todo'[k] = todo[k + 1]
  BY <1>1, <1>2, <1>3, Seq0 DEF Push
\* the place that is overwritten is the free one
<1>6. ASSUME NEW k \in 1..m, todo[k].op = "n_things--"
      PROVE  \E h \in 0..n - 1 :
               /\ This = h /\ k = n - h + 1 /\ k >= 2 /\ Hole(todo[k].t, h)
               /\ todo[k].t \notin Physical
               /\ \A j \in 1..k - 1 : todo[j].op = "moveUp" /\ todo[j].t = n - (k - j)
  <2>1. PICK h \in 0..n : Shift(k, h)
    BY <1>1, <1>3, <1>6 DEF ArrayShape, Shifting
  <2>2. PICK first : first = k - (n - h)
    OBVIOUS
  <2>3. /\ Hole(todo[k].t, h) /\ first >= 1
        /\ \A j \in first..k - 1 : todo[j].op = "moveUp" /\ todo[j].t = n - (k - j)
        /\ \A j \in 1..first - 1 : todo[j].op \in Freeing
        /\ todo[k].t \in Physical => \E j \in 1..first - 1 : Frees(j, todo[k].t)
    BY <1>3, <2>1, <2>2 DEF Shift
  <2>4. first \in Nat /\ k >= 2 /\ first <= k
    <3>1. k # 1
      BY <1>1, <1>6
    <3>2. QED BY <1>4, <2>2, <2>3, <3>1
  <2>5. first = 1
    <3>1. SUFFICES ASSUME first > 1 PROVE FALSE
      BY <2>3, <2>4
    <3>2. 1 \in 1..first - 1
      BY <2>4, <3>1
    <3>3. QED BY <1>1, <2>3, <3>2 DEF Freeing
  <2>6. k = n - h + 1 /\ h \in 0..n - 1
    BY <1>4, <2>2, <2>4, <2>5
  <2>7. 1 \in first..k - 1 /\ n - (k - 1) = h
    BY <1>4, <2>4, <2>5, <2>6
  <2>8. This = h
    BY <1>1, <2>3, <2>7
  <2>9. todo[k].t \notin Physical
    BY <2>3, <2>5
  <2>10. QED BY <2>3, <2>4, <2>5, <2>6, <2>8, <2>9
<1>7. PICK c \in 2..m : todo[c].op = "n_things--"
  <2>1. PICK j \in 1 + 1..Len(todo) : todo[j].op = "n_things--"
    BY <1>1 DEF ArrayShape
  <2>2. QED BY <1>3, <1>4, <2>1
<1>8. PICK h \in 0..n - 1 : This = h /\ Hole(todo[c].t, h)
  <2>1. c \in 1..m
    BY <1>4, <1>7
  <2>2. QED BY <1>6, <1>7, <2>1
<1>9. h \in Nat /\ h + 1 \in 0..n /\ h + 1 \in 0..MAX_THINGS /\ h \in 0..MAX_THINGS
  BY <1>4, <1>8
<1>10. /\ slots' \in [0..MAX_THINGS -> Things \cup {JUNK}]
       /\ slots'[h] = slots[h + 1]
       /\ \A i \in 0..MAX_THINGS : i # h => slots'[i] = slots[i]
  BY <1>1, <1>8, <1>9 DEF TypeOK
<1>11. slots[n] = JUNK
  BY <1>3, <1>4, <1>8 DEF Hole, Kept
<1>12. \A i \in 0..n - 1 : Kept(h + 1, i)' = Kept(h, i)
  <2>1. TAKE i \in 0..n - 1
  <2>2. i \in 0..MAX_THINGS /\ i + 1 \in 0..MAX_THINGS
    BY <1>4
  <2>3. CASE i < h
    BY <1>9, <1>10, <2>2, <2>3 DEF Kept
  <2>4. CASE i = h
    BY <1>9, <1>10, <2>2, <2>4 DEF Kept
  <2>5. CASE i > h
    <3>1. ~ (i < h) /\ ~ (i < h + 1) /\ i + 1 # h
      BY <1>9, <2>5
    <3>2. QED BY <1>10, <2>2, <3>1 DEF Kept
  <2>6. QED BY <1>9, <2>3, <2>4, <2>5
<1>13. ASSUME NEW t, Hole(t, h) PROVE Hole(t, h + 1)'
  <2>1. /\ \A i \in 0..n - 2 : i \in 0..n - 1
        /\ n - 1 \in 0..n - 1
    BY <1>4, <1>8
  <2>2. Physical' = Physical
    BY <1>1 DEF Physical, box2d
  <2>3. /\ n > 0
        /\ \A i \in 0..n - 2 : Kept(h, i) \in Things \ {t}
        /\ \A i, j \in 0..n - 2 : Kept(h, i) = Kept(h, j) => i = j
        /\ Kept(h, n - 1) = JUNK
        /\ \A u \in Physical \ {t} : \E i \in 0..n - 2 : Kept(h, i) = u
    BY <1>3, <1>13 DEF Hole
  <2>4. /\ \A i \in 0..n - 2 : Kept(h + 1, i)' \in Things \ {t}
        /\ \A i, j \in 0..n - 2 : Kept(h + 1, i)' = Kept(h + 1, j)' => i = j
        /\ Kept(h + 1, n - 1)' = JUNK
        /\ \A u \in Physical' \ {t} : \E i \in 0..n - 2 : Kept(h + 1, i)' = u
    BY <1>12, <2>1, <2>2, <2>3
  <2>5. n_things' = n /\ h + 1 \in 0..n /\ n > 0
    BY <1>4, <1>9, <2>3
  <2>6. QED BY <2>4, <2>5 DEF Hole, Kept
<1>14. ArrayShape'
  <2>1. JunkBehind'
    <3>1. SUFFICES ASSUME NEW i \in n..MAX_THINGS PROVE slots'[i] = JUNK
      BY <1>4 DEF JunkBehind
    <3>2. i \in 0..MAX_THINGS /\ i # h
      BY <1>4, <1>8
    <3>3. slots[i] = JUNK
      BY <1>1, <1>3 DEF ArrayShape, JunkBehind, Next1, Is
    <3>4. QED BY <1>10, <3>2, <3>3
  <2>2. ASSUME NEW k \in 1..m - 1, todo'[k].op = "n_things--" PROVE Shifting(k)'
    <3>1. PICK j, t : j = k + 1 /\ t = todo[k + 1].t
      OBVIOUS
    <3>2. j \in 1..m /\ todo[j].op = "n_things--" /\ todo'[k].t = t /\ todo[j].t = t
      BY <1>4, <1>5, <2>2, <3>1
    <3>3. /\ j = n - h + 1 /\ j >= 2 /\ Hole(t, h) /\ t \notin Physical
          /\ \A i \in 1..j - 1 : todo[i].op = "moveUp" /\ todo[i].t = n - (j - i)
      BY <1>6, <1>8, <3>2
    <3>4. k - (n - (h + 1)) = 1
      BY <1>4, <1>9, <3>1, <3>3
    <3>5. ASSUME NEW i \in 1..k - 1
          PROVE  todo'[i].op = "moveUp" /\ todo'[i].t = n - (k - i)
      <4>1. i + 1 \in 1..j - 1 /\ i \in 1..m - 1 /\ n - (j - (i + 1)) = n - (k - i)
        BY <1>4, <3>1, <3>2
      <4>2. todo[i + 1].op = "moveUp" /\ todo[i + 1].t = n - (j - (i + 1))
        BY <3>3, <4>1
      <4>3. QED BY <1>5, <4>1, <4>2
    <3>6. Hole(t, h + 1)'
      BY <1>13, <3>3
    <3>7. Shift(k, h + 1)'
      <4>1. \A i \in 1..1 - 1 : FALSE
        OBVIOUS
      <4>2. t \notin Physical'
        BY <1>1, <3>3 DEF Physical, box2d
      <4>3. k - (n_things' - (h + 1)) = 1 /\ 1 >= 1 /\ ~ (1 > 1)
        BY <1>4, <3>4
      <4>4. \A i \in 1..k - 1 : todo'[i].op = "moveUp" /\ todo'[i].t = n_things' - (k - i)
        BY <1>4, <3>5
      <4>5. QED BY <3>2, <3>6, <4>1, <4>2, <4>3, <4>4 DEF Shift
    <3>8. QED BY <1>4, <1>9, <3>7 DEF Shifting
  <2>3. ASSUME NEW k \in 1..m - 1, todo'[k].op = "moveUp"
        PROVE  \E j \in k + 1..m - 1 : todo'[j].op = "n_things--"
    <3>1. k + 1 \in 1..Len(todo) /\ todo[k + 1].op = "moveUp"
      BY <1>3, <1>4, <1>5, <2>3
    <3>2. PICK i \in k + 1 + 1..Len(todo) : todo[i].op = "n_things--"
      BY <1>1, <3>1 DEF ArrayShape
    <3>3. PICK j : j = i - 1
      OBVIOUS
    <3>4. j \in k + 1..m - 1 /\ j \in 1..m - 1 /\ j + 1 = i
      BY <1>3, <1>4, <3>2, <3>3
    <3>5. QED BY <1>5, <3>2, <3>4
  <2>4. c - 1 \in 1..m - 1 /\ todo'[c - 1].op = "n_things--"
    <3>1. c - 1 \in 1..m - 1 /\ c - 1 + 1 = c
      BY <1>4, <1>7
    <3>2. QED BY <1>5, <1>7, <3>1
  <2>5. QED BY <1>5, <2>1, <2>2, <2>3, <2>4 DEF ArrayShape
<1>15. /\ Allocated'
       /\ \A t \in Things : InArray(t)' => InArray(t)
  <2>1. ASSUME NEW i \in 0..n - 1
        PROVE  slots'[i] = JUNK \/ \E j \in 0..n - 1 : slots'[i] = slots[j]
    <3>1. CASE i # h
      BY <1>4, <1>10, <3>1
    <3>2. CASE i = h /\ h + 1 = n
      BY <1>10, <1>11, <3>2
    <3>3. CASE i = h /\ h + 1 # n
      <4>1. h + 1 \in 0..n - 1
        BY <1>4, <1>9, <3>3
      <4>2. QED BY <1>10, <3>3, <4>1
    <3>4. QED BY <3>1, <3>2, <3>3
  <2>2. Allocated'
    <3>1. \A i \in 0..n - 1 : slots[i] \in allocated \cup {JUNK}
      BY <1>1, <1>3 DEF Allocated
    <3>2. \A i \in 0..n - 1 : slots'[i] \in allocated \cup {JUNK}
      BY <2>1, <3>1
    <3>3. QED BY <1>1, <1>4, <3>2 DEF Allocated
  <2>3. ASSUME NEW t \in Things, InArray(t)' PROVE InArray(t)
    <3>1. PICK i \in 0..n - 1 : slots'[i] = t
      BY <1>4, <2>3 DEF InArray
    <3>2. t # JUNK
      BY DrawAssumption DEF Things
    <3>3. QED BY <1>3, <2>1, <3>1, <3>2 DEF InArray
  <2>4. QED BY <2>2, <2>3
<1>16. DrawingOff'
  BY <1>1, <1>2, Seq0, DrawingAfter DEF flags
<1>17. Order'
  <2>1. \A t : ~ Next1("n_things--", t)
    BY <1>1 DEF Next1, Is
  <2>2. QED BY <1>1, <1>14, <1>15, <1>16, <2>1, Seq0, OrderAfter
            DEF Freeing, Adding, Making, Removing
<1>18. TypeOK'
  BY <1>1, <1>4, <1>10, Seq0, Pushed DEF DInv, TypeOK, box2d, flags
<1>19. Pointers'
  BY <1>1, <1>2, Seq0, SamePointers DEF Pairs
<1>20. QED BY <1>17, <1>18, <1>19 DEF DInv

LEMMA ShorterStep ==
  ASSUME DInv, Shorter
  PROVE  DInv'
<1>1. /\ todo # <<>> /\ todo[1].op = "n_things--" /\ This = todo[1].t /\ This \in Things
      /\ Then(<<>>) /\ n_things' = n_things - 1
      /\ pinned' = [p \in Pins |-> IF p = This THEN Unpinned ELSE pinned[p]]
      /\ invisible' = invisible \ {This}
      /\ UNCHANGED <<slots, allocated, box2d, flags>>
      /\ 1 \in 1..Len(todo) /\ Len(todo) \in Nat
      /\ TypeOK /\ TodoTyped /\ ArrayShape /\ DrawingOff /\ Allocated
  BY First DEF Shorter, DInv, Order, StatementTyped, OnThing
<1>2. /\ Push(<<>>)
      /\ todo' = <<>> <=> Len(todo') = 0
      /\ todo' = <<>> => call' = "none"
      /\ todo' # <<>> => call' = call
  BY <1>1, Seq0, Pushed
<1>3. PICK n, t : n = n_things /\ t = This
  OBVIOUS
<1>4. n \in Nat /\ n <= MAX_THINGS /\ MAX_THINGS \in Nat /\ t \in Things
  BY <1>1, <1>3, DrawAssumption DEF TypeOK
<1>5. \A k \in 1..Len(todo') : k + 1 \in 2..Len(todo) /\ todo'[k] = todo[k + 1]
  BY <1>2, Seq0 DEF Push
\* nothing is left to move: the free place is behind the array
<1>6. Hole(t, n) /\ t \notin Physical
  <2>1. PICK h \in 0..n : Shift(1, h)
    BY <1>1, <1>3 DEF ArrayShape, Shifting
  <2>2. PICK first : first = 1 - (n - h)
    OBVIOUS
  <2>3. first >= 1 /\ Hole(t, h) /\ (t \in Physical => \E j \in 1..first - 1 : Frees(j, t))
    BY <1>1, <1>3, <2>1, <2>2 DEF Shift
  <2>4. h = n /\ first = 1
    BY <1>4, <2>1, <2>2, <2>3
  <2>5. \A j \in 1..first - 1 : FALSE
    BY <2>4
  <2>6. QED BY <2>3, <2>4, <2>5
<1>7. /\ n > 0 /\ slots[n - 1] = JUNK
      /\ \A i \in 0..n - 2 : slots[i] \in Things \ {t}
      /\ \A i, j \in 0..n - 2 : slots[i] = slots[j] => i = j
      /\ \A u \in Physical \ {t} : \E i \in 0..n - 2 : slots[i] = u
  <2>1. \A i \in 0..n - 1 : Kept(n, i) = slots[i]
    BY <1>4 DEF Kept
  <2>2. (\A i \in 0..n - 2 : i \in 0..n - 1) /\ n > 0 /\ n - 1 \in 0..n - 1
    BY <1>3, <1>4, <1>6 DEF Hole
  <2>3. /\ \A i \in 0..n - 2 : Kept(n, i) \in Things \ {t}
        /\ \A i, j \in 0..n - 2 : Kept(n, i) = Kept(n, j) => i = j
        /\ Kept(n, n - 1) = JUNK
        /\ \A u \in Physical \ {t} : \E i \in 0..n - 2 : Kept(n, i) = u
    BY <1>3, <1>6 DEF Hole
  <2>4. QED BY <2>1, <2>2, <2>3
<1>8. n_things' = n - 1 /\ n - 1 - 1 = n - 2 /\ n_things' - 1 = n - 2
  BY <1>1, <1>3, <1>4
<1>9. \A k \in 2..Len(todo) : todo[k].op \notin {"n_things--", "moveUp"}
  <2>1. ASSUME NEW k \in 2..Len(todo), todo[k].op = "n_things--" PROVE FALSE
    <3>1. PICK h \in 0..n : Shift(k, h)
      BY <1>1, <1>3, <2>1 DEF ArrayShape, Shifting
    <3>2. PICK first : first = k - (n - h)
      OBVIOUS
    <3>3. /\ first >= 1
          /\ \A j \in first..k - 1 : todo[j].op = "moveUp"
          /\ \A j \in 1..first - 1 : todo[j].op \in Freeing
      BY <1>3, <3>1, <3>2 DEF Shift
    <3>4. 1 \in first..k - 1 \/ 1 \in 1..first - 1
      BY <1>4, <3>2, <3>3
    <3>5. QED BY <1>1, <3>3, <3>4 DEF Freeing
  <2>2. ASSUME NEW k \in 2..Len(todo), todo[k].op = "moveUp" PROVE FALSE
    <3>1. PICK j \in k + 1..Len(todo) : todo[j].op = "n_things--"
      BY <1>1, <2>2 DEF ArrayShape
    <3>2. j \in 2..Len(todo)
      BY <1>1, <3>1
    <3>3. QED BY <2>1, <3>1, <3>2
  <2>3. QED BY <2>1, <2>2
<1>10. ArrayShape'
  <2>1. JunkBehind'
    <3>1. SUFFICES ASSUME NEW i \in n - 1..MAX_THINGS PROVE slots[i] = JUNK
      BY <1>1, <1>8 DEF JunkBehind
    <3>2. CASE i = n - 1
      BY <1>7, <3>2
    <3>3. CASE i # n - 1
      <4>1. i \in n_things..MAX_THINGS
        BY <1>3, <1>4, <3>3
      <4>2. QED BY <1>1, <4>1 DEF ArrayShape, JunkBehind, Next1, Is
    <3>4. QED BY <3>2, <3>3
  <2>2. Whole'
    <3>1. ASSUME NEW u \in Physical' PROVE \E i \in 0..n - 2 : slots[i] = u
      <4>1. u \in Physical \ {t}
        BY <1>1, <1>6, <3>1 DEF Physical, box2d
      <4>2. QED BY <1>7, <4>1
    <3>2. QED BY <1>1, <1>7, <1>8, <3>1 DEF Whole, InArray
  <2>3. \A k \in 1..Len(todo') : todo'[k].op \notin {"n_things--", "moveUp"}
    BY <1>5, <1>9
  <2>4. QED BY <2>1, <2>2, <2>3 DEF ArrayShape
<1>11. /\ Allocated'
       /\ \A u \in Things : InArray(u)' => InArray(u)
       /\ ~ InArray(t)'
  <2>1. \A i \in 0..n - 2 : i \in 0..n - 1
    BY <1>4
  <2>2. Allocated'
    BY <1>1, <1>3, <1>8, <2>1 DEF Allocated
  <2>3. ASSUME NEW u \in Things, InArray(u)' PROVE InArray(u) /\ u # t
    <3>1. PICK i \in 0..n - 2 : slots[i] = u
      BY <1>1, <1>8, <2>3 DEF InArray
    <3>2. QED BY <1>3, <1>7, <2>1, <3>1 DEF InArray
  <2>4. QED BY <1>4, <2>2, <2>3
<1>12. DrawingOff'
  BY <1>1, <1>2, Seq0, DrawingAfter DEF flags
<1>13. Order'
  <2>1. \A u \in Things : Next1("n_things--", u) => ~ InArray(u)'
    <3>1. \A u : Next1("n_things--", u) => u = t
      BY <1>1, <1>3 DEF Next1, Is
    <3>2. QED BY <1>11, <3>1
  <2>2. QED BY <1>1, <1>10, <1>11, <1>12, <2>1, Seq0, OrderAfter
            DEF Freeing, Adding, Making, Removing
<1>14. TypeOK'
  <2>1. n_things' \in 0..MAX_THINGS
    BY <1>4, <1>7, <1>8
  <2>2. pinned' \in [Pins -> (Objects \cup {NULL}) \X (Objects \cup {NULL})]
    BY <1>1 DEF TypeOK, Unpinned
  <2>3. QED BY <1>1, <2>1, <2>2, Seq0, Pushed DEF DInv, TypeOK, box2d, flags
<1>15. Pointers'
  BY <1>1, <1>2, Seq0, SamePointers DEF Pairs
<1>16. QED BY <1>13, <1>14, <1>15 DEF DInv

\* The call that is adding something: behind it, at most the rest of a load.
LEMMA WhileAdding ==
  ASSUME DInv, todo # <<>>, todo[1].op \in Adding
  PROVE  /\ todo[1].t \in allocated /\ todo[1].t \in Things /\ ~ InArray(todo[1].t)
         /\ Whole /\ \A k \in 1..Len(todo) : todo[k].op \notin {"n_things--", "moveUp"}
         /\ \/ Len(todo) = 1
            \/ /\ Len(todo) = 3 /\ todo[2].op = "makePhysical" /\ todo[2].t = todo[1].t
               /\ todo[3].op = "load" /\ todo[3].t \in LoadState
               /\ n_things + 1 = Len(todo[3].t.ids)
               /\ Len(todo[3].t.ids) <= Len(todo[3].t.f.elements)
               /\ \A i \in 1..Len(todo[3].t.ids) :
                    todo[3].t.ids[i] \in Pins <=> todo[3].t.f.elements[i].pin
               /\ n_things < MAX_THINGS
<1>1. /\ TypeOK /\ TodoTyped /\ ArrayShape /\ AddGoesOn /\ InOrder
      /\ todo \in Seq(Stmt) /\ Len(todo) \in Nat \ {0}
  BY EmptySeq DEF DInv, Order, TodoTyped
<1>2. Whole /\ \A k \in 1..Len(todo) : todo[k].op \notin {"n_things--", "moveUp"}
  BY <1>1, NotShifting DEF Freeing, Adding
<1>3. /\ todo[1].t \in allocated /\ ~ InArray(todo[1].t)
      /\ \/ Len(todo) = 1
         \/ Len(todo) = 3 /\ Is(2, "makePhysical", todo[1].t) /\ todo[3].op = "load"
  BY <1>1 DEF AddGoesOn
<1>4. todo[1].t \in Things
  BY <1>1 DEF TodoTyped, StatementTyped, Adding, OnThing
<1>5. CASE Len(todo) = 3 /\ Is(2, "makePhysical", todo[1].t) /\ todo[3].op = "load"
  <2>1. 3 \in 1..Len(todo) /\ LoadsNext(3) /\ todo[3].t \in LoadState
    BY <1>1, <1>5 DEF InOrder, TodoTyped, StatementTyped
  <2>2. PICK f, ids : f = todo[3].t.f /\ ids = todo[3].t.ids
    OBVIOUS
  <2>3. /\ Len(ids) <= Len(f.elements)
        /\ \A i \in 1..Len(ids) : ids[i] \in Pins <=> f.elements[i].pin
        /\ \/ todo[3 - 1].op = "clear"
           \/ n_things + 1 = Len(ids)
           \/ \A j \in 1..3 - 1 : todo[j].op \in Making
    BY <1>5, <2>1, <2>2 DEF LoadsNext
  <2>4. todo[2].op = "makePhysical" /\ todo[1].op \notin Making /\ 1 \in 1..3 - 1
    BY <1>5 DEF Is, Adding, Making
  <2>5. n_things + 1 = Len(ids)
    BY <2>3, <2>4
  <2>6. Len(f.elements) <= MAX_THINGS
    BY <2>1, <2>2, DrawAssumption DEF LoadState
  <2>7. n_things \in Nat /\ MAX_THINGS \in Nat /\ Len(ids) \in Nat /\ Len(f.elements) \in Nat
    BY <1>1, <2>1, <2>2, DrawAssumption, LenProperties DEF TypeOK, LoadState
  <2>8. n_things < MAX_THINGS
    BY <2>3, <2>5, <2>6, <2>7
  <2>9. QED BY <1>2, <1>3, <1>4, <1>5, <2>1, <2>2, <2>3, <2>5, <2>8 DEF Is
<1>6. QED BY <1>2, <1>3, <1>4, <1>5

LEMMA AddThingStep ==
  ASSUME DInv, AddThing
  PROVE  DInv'
<1>1. /\ todo # <<>> /\ todo[1].op = "add" /\ This = todo[1].t
      /\ IF n_things = MAX_THINGS
         THEN Then(<<>>) /\ UNCHANGED slots
         ELSE Then(<<Do("n_things++", This)>>) /\ slots' = [slots EXCEPT ![n_things] = This]
      /\ UNCHANGED <<n_things, allocated, pinned, invisible, box2d, flags>>
      /\ 1 \in 1..Len(todo) /\ Len(todo) \in Nat
      /\ TypeOK /\ TodoTyped /\ ArrayShape /\ DrawingOff /\ Allocated /\ StrokesCareful /\ PairsKept
      /\ InOrder
  BY First DEF AddThing, DInv, Order, Pointers
<1>2. PICK n, t : n = n_things /\ t = This
  OBVIOUS
<1>3. n \in Nat /\ n <= MAX_THINGS /\ MAX_THINGS \in Nat /\ Physical' = Physical
  BY <1>1, <1>2, DrawAssumption DEF TypeOK, Physical, box2d
<1>4. /\ t \in allocated /\ t \in Things /\ ~ InArray(t)
      /\ Whole /\ \A k \in 1..Len(todo) : todo[k].op \notin {"n_things--", "moveUp"}
      /\ Len(todo) = 1 \/ (Len(todo) = 3 /\ todo[2].op = "makePhysical" /\ todo[2].t = t
                             /\ todo[3].op = "load" /\ n < MAX_THINGS)
  BY <1>1, <1>2, WhileAdding DEF Adding
<1>5. CASE n = MAX_THINGS
  <2>1. Then(<<>>) /\ UNCHANGED slots
    BY <1>1, <1>2, <1>5
  <2>2. /\ Push(<<>>)
        /\ todo' = <<>> <=> Len(todo') = 0
        /\ todo' = <<>> => call' = "none"
        /\ todo' # <<>> => call' = call /\ todo' \in Seq(Stmt)
    BY <1>1, <2>1, Seq0, Pushed
  <2>3. Len(todo') = 0 /\ todo' = <<>> /\ todo' \in Seq(Stmt)
    <3>1. Len(todo) = 1
      BY <1>3, <1>4, <1>5
    <3>2. Len(todo') = 0
      BY <2>2, <3>1, Seq0 DEF Push
    <3>3. QED BY <2>2, <3>2
  <2>4. ArrayShape'
    <3>1. \A u \in Physical' : InArray(u)
      BY <1>3, <1>4 DEF Whole
    <3>2. QED BY <1>1, <2>1, <2>2, <3>1, Seq0, ArrayAfter DEF Freeing
  <2>5. DrawingOff'
    BY <1>1, <2>2, Seq0, DrawingAfter DEF flags
  <2>6. Allocated'
    BY <1>1, <2>1 DEF Allocated
  <2>7. Order'
    <3>1. \A k \in 1..Len(todo') : FALSE
      BY <2>3
    <3>2. TodoTyped' /\ AddGoesOn' /\ InOrder' /\ StrokesCareful'
      BY <2>3, <3>1 DEF TodoTyped, AddGoesOn, InOrder, StrokesCareful
    <3>3. QED BY <2>4, <2>5, <2>6, <3>2 DEF Order
  <2>8. TypeOK'
    BY <1>1, <2>1, Seq0, Pushed DEF DInv, TypeOK, box2d, flags
  <2>9. Pointers'
    BY <1>1, <2>2, Seq0, SamePointers DEF Pairs
  <2>10. QED BY <2>7, <2>8, <2>9 DEF DInv
<1>6. CASE n # MAX_THINGS
  <2>1. PICK s : s = <<Do("n_things++", t)>>
    OBVIOUS
  <2>2. Then(s) /\ slots' = [slots EXCEPT ![n] = t]
    BY <1>1, <1>2, <1>6, <2>1
  <2>3. /\ s \in Seq(Stmt) /\ Len(s) = 1 /\ s[1].op = "n_things++" /\ s[1].t = t
        /\ StatementTyped(s[1])
    <3>1. "n_things++" \in OnThing
      BY DEF OnThing
    <3>2. QED BY <1>4, <2>1, <3>1, DoOnThing, Seq1
  <2>4. \A k \in 1..Len(s) : k = 1
    BY <2>3
  <2>5. /\ Push(s) /\ todo' \in Seq(Stmt)
        /\ todo' = <<>> <=> Len(todo') = 0
        /\ todo' = <<>> => call' = "none"
        /\ todo' # <<>> => call' = call
    BY <1>1, <2>2, <2>3, Pushed
  <2>6. /\ Len(todo') = Len(todo) /\ todo'[1].op = "n_things++" /\ todo'[1].t = t
        /\ \A k \in 2..Len(todo) : todo'[k] = todo[k]
        /\ 1 \in 1..Len(todo')
    BY <1>1, <2>3, <2>5 DEF Push
  <2>7. /\ n < MAX_THINGS /\ n \in 0..MAX_THINGS /\ slots'[n] = t /\ n_things' = n
        /\ slots' \in [0..MAX_THINGS -> Things \cup {JUNK}]
        /\ \A i \in 0..MAX_THINGS : i # n => slots'[i] = slots[i]
        /\ \A i \in 0..n - 1 : slots'[i] = slots[i]
    BY <1>1, <1>2, <1>3, <1>4, <1>6, <2>2 DEF TypeOK
  <2>8. ~ InArray(t)'
    BY <1>2, <1>4, <2>7 DEF InArray
  <2>9. ArrayShape'
    <3>1. JunkBehind'
      <4>1. SUFFICES ASSUME NEW i \in n..MAX_THINGS
                     PROVE  slots'[i] = JUNK \/ (i = n /\ slots'[i] = t)
        BY <2>6, <2>7 DEF JunkBehind, Next1, Is
      <4>2. CASE i # n
        <5>1. i \in 0..MAX_THINGS /\ slots[i] = JUNK
          BY <1>1, <1>2, <1>3 DEF ArrayShape, JunkBehind, Next1, Is
        <5>2. QED BY <2>7, <4>2, <5>1
      <4>3. QED BY <2>7, <4>2
    <3>2. Whole'
      BY <1>2, <1>3, <1>4, <2>7 DEF Whole, InArray
    <3>3. \A k \in 1..Len(todo') : k = 1 \/ k \in 2..Len(todo)
      BY <2>6
    <3>4. \A k \in 1..Len(todo') : todo'[k].op \notin {"n_things--", "moveUp"}
      BY <1>4, <2>6, <3>3
    <3>5. QED BY <3>1, <3>2, <3>4 DEF ArrayShape
  <2>10. Allocated'
    BY <1>1, <1>2, <2>7 DEF Allocated
  <2>11. AddGoesOn'
    <3>1. n_things' < MAX_THINGS /\ slots'[n_things'] = t
      BY <2>7
    <3>2. \/ Len(todo') = 1
          \/ Len(todo') = 3 /\ Is(2, "makePhysical", t)' /\ todo'[3].op = "load"
      BY <1>4, <2>6 DEF Is
    <3>3. ~ InArray(t)'
      BY <2>8
    <3>4. QED BY <1>1, <1>4, <2>6, <3>1, <3>2, <3>3 DEF AddGoesOn, InArray
  <2>12. InOrder'
    <3>1. SUFFICES ASSUME NEW k \in 1..Len(todo')
                   PROVE  (MadeInArray(k) /\ GoneBefore(k) /\ Found(k) /\ FreedBefore(k) /\ LoadsNext(k))'
      BY DEF InOrder
    <3>2. CASE k = 1
      BY <2>6, <3>2 DEF MadeInArray, GoneBefore, Found, FreedBefore, LoadsNext, Making
    <3>3. CASE k = 2
      <4>1. todo'[k].op = "makePhysical" /\ todo'[k].t = t
        BY <1>4, <2>6, <3>3
      <4>2. Next1("n_things++", t)'
        BY <2>6 DEF Next1, Is
      <4>3. \A j \in 1..k - 1 : todo'[j].op \notin Removing \cup {"load"}
        BY <2>6, <3>3 DEF Removing
      <4>4. MadeInArray(k)'
        BY <4>1, <4>2, <4>3 DEF MadeInArray, Adding
      <4>5. QED BY <4>1, <4>4 DEF GoneBefore, Found, FreedBefore, LoadsNext
    <3>4. CASE k = 3
      <4>1. todo'[k] = todo[3] /\ todo[3].op = "load" /\ Len(todo') = 3 /\ Len(todo) = 3
        BY <1>4, <2>6, <3>4
      <4>2. /\ n + 1 = Len(todo[3].t.ids)
            /\ Len(todo[3].t.ids) <= Len(todo[3].t.f.elements)
            /\ \A i \in 1..Len(todo[3].t.ids) :
                 todo[3].t.ids[i] \in Pins <=> todo[3].t.f.elements[i].pin
        BY <1>1, <1>2, <4>1, WhileAdding DEF Adding
      <4>3. PICK f, ids : f = todo[3].t.f /\ ids = todo[3].t.ids
        OBVIOUS
      <4>4. f = todo'[k].t.f /\ ids = todo'[k].t.ids /\ todo'[1].op \in Adding
        BY <2>6, <4>1, <4>3 DEF Adding
      <4>5. LoadsNext(k)'
        BY <2>7, <3>4, <4>1, <4>2, <4>3, <4>4 DEF LoadsNext
      <4>6. QED BY <4>1, <4>5 DEF MadeInArray, GoneBefore, Found, FreedBefore, Making
    <3>5. k = 1 \/ k = 2 \/ k = 3
      BY <1>4, <2>6
    <3>6. QED BY <3>2, <3>3, <3>4, <3>5
  <2>13. DrawingOff'
    BY <1>1, <2>3, <2>4, <2>5, DrawingAfter DEF flags
  <2>14. StrokesCareful'
    <3>1. \A k \in 1..Len(s) : Careful(s[k])
      BY <2>3, <2>4 DEF Careful, Adding
    <3>2. QED BY <1>1, <2>5, <3>1, CarefulAfter
  <2>15. TodoTyped'
    BY <1>1, <2>3, <2>4, <2>5, TypedAfter
  <2>16. TypeOK'
    BY <1>1, <2>2, <2>3, <2>7, Pushed DEF DInv, TypeOK, box2d, flags
  <2>17. Pointers'
    <3>1. PairKept(1)'
      BY <2>6 DEF PairKept, AtOnce
    <3>2. QED BY <1>1, <2>4, <2>5, <3>1, SamePointers DEF Pairs
  <2>18. QED BY <2>9, <2>10, <2>11, <2>12, <2>13, <2>14, <2>15, <2>16, <2>17 DEF DInv, Order
<1>7. QED BY <1>5, <1>6

LEMMA LongerStep ==
  ASSUME DInv, Longer
  PROVE  DInv'
<1>1. /\ todo # <<>> /\ todo[1].op = "n_things++" /\ This = todo[1].t
      /\ n_things' = n_things + 1 /\ Then(<<>>)
      /\ UNCHANGED <<slots, allocated, pinned, invisible, box2d, flags>>
      /\ 1 \in 1..Len(todo) /\ Len(todo) \in Nat
      /\ TypeOK /\ TodoTyped /\ ArrayShape /\ DrawingOff /\ Allocated /\ StrokesCareful /\ PairsKept
      /\ AddGoesOn
  BY First DEF Longer, DInv, Order, Pointers
<1>2. PICK n, t : n = n_things /\ t = This
  OBVIOUS
<1>3. n \in Nat /\ n_things' = n + 1 /\ n_things' - 1 = n /\ MAX_THINGS \in Nat /\ Physical' = Physical
  BY <1>1, <1>2, DrawAssumption DEF TypeOK, Physical, box2d
<1>4. /\ t \in allocated /\ t \in Things /\ ~ InArray(t)
      /\ Whole /\ (\A k \in 1..Len(todo) : todo[k].op \notin {"n_things--", "moveUp"})
      /\ \/ Len(todo) = 1
         \/ Len(todo) = 3 /\ todo[2].op = "makePhysical" /\ todo[2].t = t /\ todo[3].op = "load"
  BY <1>1, <1>2, WhileAdding DEF Adding
<1>5. n < MAX_THINGS /\ slots[n] = t
  BY <1>1, <1>2 DEF AddGoesOn, Adding
<1>6. /\ Push(<<>>) /\ todo' \in Seq(Stmt)
      /\ todo' = <<>> <=> Len(todo') = 0
      /\ todo' = <<>> => call' = "none"
      /\ todo' # <<>> => call' = call
  BY <1>1, Seq0, Pushed
<1>7. /\ Len(todo') = Len(todo) - 1
      /\ \A k \in 1..Len(todo') : k + 1 \in 2..Len(todo) /\ todo'[k] = todo[k + 1]
  BY <1>1, <1>6, Seq0 DEF Push
<1>8. \A i \in 0..n : i = n \/ i \in 0..n - 1
  BY <1>3
<1>9. InArray(t)'
  <2>1. n \in 0..n_things' - 1 /\ slots'[n] = t
    BY <1>1, <1>3, <1>5
  <2>2. QED BY <2>1 DEF InArray
<1>10. ArrayShape'
  <2>1. JunkBehind'
    <3>1. SUFFICES ASSUME NEW i \in n + 1..MAX_THINGS PROVE slots[i] = JUNK
      BY <1>1, <1>3 DEF JunkBehind
    <3>2. i \in n_things..MAX_THINGS /\ i # n_things
      BY <1>2, <1>3
    <3>3. QED BY <1>1, <3>2 DEF ArrayShape, JunkBehind
  <2>2. Whole'
    <3>1. \A i \in 0..n : slots[i] \in Things
      BY <1>2, <1>4, <1>5, <1>8 DEF Whole
    <3>2. ASSUME NEW i \in 0..n, NEW j \in 0..n, slots[i] = slots[j] PROVE i = j
      BY <1>2, <1>4, <1>5, <1>8, <3>2 DEF Whole, InArray
    <3>3. ASSUME NEW u \in Physical PROVE \E i \in 0..n : slots[i] = u
      <4>1. PICK i \in 0..n_things - 1 : slots[i] = u
        BY <1>4 DEF Whole, InArray
      <4>2. i \in 0..n
        BY <1>2, <1>3, <4>1
      <4>3. QED BY <4>1, <4>2
    <3>4. QED BY <1>1, <1>3, <3>1, <3>2, <3>3 DEF Whole, InArray
  <2>3. ASSUME NEW k \in 1..Len(todo') PROVE todo'[k].op \notin {"n_things--", "moveUp"}
    <3>1. k + 1 \in 1..Len(todo) /\ todo'[k] = todo[k + 1]
      BY <1>1, <1>7
    <3>2. QED BY <1>4, <3>1
  <2>4. QED BY <2>1, <2>2, <2>3 DEF ArrayShape
<1>11. Allocated'
  <2>1. \A i \in 0..n : slots[i] \in allocated \cup {JUNK}
    BY <1>1, <1>2, <1>4, <1>5, <1>8 DEF Allocated
  <2>2. QED BY <1>1, <1>3, <2>1 DEF Allocated
<1>12. AddGoesOn'
  BY <1>1, <1>6, Seq0, AddAfter
<1>13. InOrder'
  <2>1. SUFFICES ASSUME NEW k \in 1..Len(todo')
                 PROVE  (MadeInArray(k) /\ GoneBefore(k) /\ Found(k) /\ FreedBefore(k) /\ LoadsNext(k))'
    BY DEF InOrder
  <2>2. Len(todo) = 3 /\ Len(todo') = 2 /\ k \in 1..2
    <3>1. Len(todo) = 1 \/ Len(todo) = 3
      BY <1>4
    <3>2. Len(todo') \in Nat /\ Len(todo') >= 1
      BY <1>1, <1>7, <2>1
    <3>3. QED BY <1>7, <3>1, <3>2
  <2>3. /\ todo'[1] = todo[2] /\ todo'[2] = todo[3]
        /\ todo[2].op = "makePhysical" /\ todo[2].t = t /\ todo[3].op = "load"
    <3>1. 1 \in 1..Len(todo') /\ 2 \in 1..Len(todo') /\ 1 + 1 = 2 /\ 2 + 1 = 3
      BY <2>2
    <3>2. todo'[1] = todo[1 + 1] /\ todo'[2] = todo[2 + 1]
      BY <1>7, <3>1
    <3>3. QED BY <1>4, <2>2, <3>1, <3>2
  <2>4. CASE k = 1
    <3>1. \A j \in 1..k - 1 : FALSE
      BY <2>4
    <3>2. MadeInArray(k)'
      BY <1>9, <2>3, <2>4, <3>1 DEF MadeInArray
    <3>3. QED BY <2>3, <2>4, <3>2 DEF GoneBefore, Found, FreedBefore, LoadsNext
  <2>5. CASE k = 2
    <3>1. PICK f, ids : f = todo[3].t.f /\ ids = todo[3].t.ids
      OBVIOUS
    <3>2. /\ n + 1 = Len(ids) /\ Len(ids) <= Len(f.elements)
          /\ \A i \in 1..Len(ids) : ids[i] \in Pins <=> f.elements[i].pin
      BY <1>1, <1>2, <2>2, <3>1, WhileAdding DEF Adding
    <3>3. n_things' = Len(ids) /\ f = todo'[k].t.f /\ ids = todo'[k].t.ids
      BY <1>3, <2>3, <2>5, <3>1, <3>2
    <3>4. \A j \in 1..k - 1 : todo'[j].op \in Making
      BY <2>3, <2>5 DEF Making
    <3>5. LoadsNext(k)'
      BY <2>2, <2>5, <3>2, <3>3, <3>4 DEF LoadsNext
    <3>6. QED BY <2>3, <2>5, <3>5 DEF MadeInArray, GoneBefore, Found, FreedBefore, Making
  <2>6. QED BY <2>2, <2>4, <2>5
<1>14. DrawingOff'
  BY <1>1, <1>6, Seq0, DrawingAfter DEF flags
<1>15. StrokesCareful'
  BY <1>1, <1>6, Seq0, CarefulAfter
<1>16. TodoTyped'
  BY <1>1, <1>6, Seq0, TypedAfter
<1>17. TypeOK'
  <2>1. n_things' \in 0..MAX_THINGS
    BY <1>3, <1>5
  <2>2. QED BY <1>1, <2>1, Seq0, Pushed DEF DInv, TypeOK, box2d, flags
<1>18. Pointers'
  BY <1>1, <1>6, Seq0, SamePointers DEF Pairs
<1>19. QED BY <1>10, <1>11, <1>12, <1>13, <1>14, <1>15, <1>16, <1>17, <1>18 DEF DInv, Order

\* The element that is read next: its pin is put through things read before.
LEMMA PinnedBehind ==
  ASSUME NEW f \in Sketches, NEW ids \in Seq(Things), Len(ids) < Len(f.elements),
         \A k \in 1..Len(ids) : ids[k] \in Pins <=> f.elements[k].pin,
         f.elements[Len(ids) + 1].pin,
         NEW l \in {1, 2}, NEW k, k = f.elements[Len(ids) + 1].pinned[l], k # 0
  PROVE  ids[k] \in Objects
<1>1. f.elements \in Seq([pin : BOOLEAN, pinned : Nat \X Nat]) /\ Len(f.elements) \in Nat
      /\ Len(ids) \in Nat
  BY DrawAssumption, LenProperties
<1>2. PICK i : i = Len(ids) + 1
  OBVIOUS
<1>3. i \in 1..Len(f.elements) /\ i - 1 = Len(ids)
  BY <1>1, <1>2
<1>4. IsElement(f.elements, i)
  BY <1>3, DrawAssumption
<1>5. k \in 1..i - 1 /\ ~ f.elements[k].pin
  <2>1. /\ f.elements[i].pinned[1] \in 1..(i - 1)
        /\ ~ f.elements[f.elements[i].pinned[1]].pin
        /\ \/ f.elements[i].pinned[2] = 0
           \/ /\ f.elements[i].pinned[2] \in 1..(i - 1)
              /\ ~ f.elements[f.elements[i].pinned[2]].pin
    BY <1>2, <1>4 DEF IsElement
  <2>2. CASE l = 1
    BY <1>2, <2>1, <2>2
  <2>3. CASE l = 2
    BY <1>2, <2>1, <2>3
  <2>4. QED BY <2>2, <2>3
<1>6. ids[k] \notin Pins /\ ids[k] \in Things
  BY <1>3, <1>5
<1>7. QED BY <1>6 DEF Things

LEMMA LoadElementStep ==
  ASSUME DInv, LoadElement
  PROVE  DInv'
<1>1. /\ todo # <<>> /\ todo[1].op = "load" /\ This = todo[1].t /\ This \in LoadState
      /\ UNCHANGED <<slots, n_things, box2d, flags>>
      /\ 1 \in 1..Len(todo) /\ Len(todo) \in Nat
      /\ TypeOK /\ TodoTyped /\ ArrayShape /\ DrawingOff /\ Allocated /\ StrokesCareful /\ PairsKept
      /\ InOrder
  BY First DEF LoadElement, DInv, Order, Pointers, StatementTyped
<1>2. PICK f, ids, n : f = This.f /\ ids = This.ids /\ n = n_things
  OBVIOUS
<1>3. /\ Len(todo) = 1 /\ Len(ids) <= Len(f.elements) /\ n = Len(ids)
      /\ \A k \in 1..Len(ids) : ids[k] \in Pins <=> f.elements[k].pin
  <2>1. LoadsNext(1)
    BY <1>1 DEF InOrder
  <2>2. QED BY <1>1, <1>2, <2>1 DEF LoadsNext, Adding
<1>4. /\ f \in Sketches /\ ids \in Seq(Things) /\ Len(ids) \in Nat /\ Len(f.elements) \in Nat
      /\ f.valid \in BOOLEAN
  BY <1>1, <1>2, DrawAssumption, LenProperties DEF LoadState
<1>5. call \notin {"penDown", "penUp"}
  BY <1>1 DEF StrokesCareful, Adding, Making
<1>6. Physical' = Physical /\ \A u \in Physical' : InArray(u)
  <2>1. Whole
    BY <1>1, NotShifting DEF Freeing, TodoTyped
  <2>2. QED BY <1>1, <2>1 DEF Physical, box2d, Whole
\* what is the same whether the sketch goes on or not
<1>7. ASSUME NEW s \in Seq(Stmt), Then(s), allocated \subseteq allocated',
             \A k \in 1..Len(s) : StatementTyped(s[k]) /\ s[k].op \notin Freeing \cup
                                     {"n_things--", "moveUp", "disableDrawing", "enableDrawing"}
      PROVE  /\ Push(s) /\ Len(todo') = Len(s) /\ \A k \in 1..Len(s) : todo'[k] = s[k]
             /\ todo' \in Seq(Stmt) /\ (todo' = <<>> <=> call' = "none")
             /\ TodoTyped' /\ ArrayShape' /\ Allocated' /\ DrawingOff' /\ StrokesCareful'
  <2>1. /\ Push(s) /\ todo' \in Seq(Stmt)
        /\ todo' = <<>> <=> Len(todo') = 0
        /\ todo' = <<>> <=> call' = "none"
        /\ todo' = <<>> => call' = "none"
        /\ todo' # <<>> => call' = call
    BY <1>1, <1>7, Pushed
  <2>2. Len(todo') = Len(s) /\ \A k \in 1..Len(s) : todo'[k] = s[k]
    BY <1>3, <2>1 DEF Push
  <2>3. TodoTyped'
    BY <1>1, <1>7, <2>1, TypedAfter
  <2>4. ArrayShape'
    BY <1>1, <1>6, <1>7, <2>1, ArrayAfter DEF Freeing
  <2>5. Allocated'
    BY <1>1, <1>7 DEF Allocated
  <2>6. DrawingOff'
    BY <1>1, <1>7, <2>1, DrawingAfter DEF flags
  <2>7. StrokesCareful'
    BY <1>1, <1>5, <2>1, CarefulAfter
  <2>8. QED BY <2>1, <2>2, <2>3, <2>4, <2>5, <2>6, <2>7
<1>8. CASE Len(ids) + 1 > Len(f.elements)
  <2>1. PICK s : s = IF f.valid THEN <<Do("World::reset", NULL)>> ELSE <<>>
    OBVIOUS
  <2>2. Then(s) /\ UNCHANGED <<allocated, pinned, invisible>>
    BY <1>2, <1>8, <2>1 DEF LoadElement
  <2>3. /\ s \in Seq(Stmt) /\ Len(s) \in 0..1
        /\ \A k \in 1..Len(s) : k = 1 /\ StatementTyped(s[k]) /\ s[k].op = "World::reset"
    <3>1. CASE s = <<>>
      BY <3>1, Seq0
    <3>2. CASE s = <<Do("World::reset", NULL)>>
      <4>1. "World::reset" \in OnNobody
        BY DEF OnNobody
      <4>2. QED BY <3>2, <4>1, DoOnNobody, Seq1
    <3>3. QED BY <2>1, <3>1, <3>2
  <2>4. /\ Push(s) /\ Len(todo') = Len(s) /\ \A k \in 1..Len(s) : todo'[k] = s[k]
        /\ todo' \in Seq(Stmt) /\ (todo' = <<>> <=> call' = "none")
        /\ TodoTyped' /\ ArrayShape' /\ Allocated' /\ DrawingOff' /\ StrokesCareful'
    BY <1>7, <2>2, <2>3 DEF Freeing
  <2>5. AddGoesOn'
    BY <1>1, <2>3, <2>4, AddAfter DEF Adding
  <2>6. InOrder'
    BY <2>3, <2>4 DEF InOrder, MadeInArray, GoneBefore, Found, FreedBefore, LoadsNext, Making
  <2>7. TypeOK'
    BY <1>1, <2>2, <2>4 DEF TypeOK, box2d, flags
  <2>8. Pointers'
    <3>1. \A k \in 1..Len(s) : PairKept(k)'
      BY <2>3, <2>4 DEF PairKept, AtOnce
    <3>2. QED BY <1>1, <2>4, <3>1, SamePointers DEF Pairs
  <2>9. QED BY <2>4, <2>5, <2>6, <2>7, <2>8 DEF DInv, Order
<1>9. CASE ~ (Len(ids) + 1 > Len(f.elements))
  <2>0. PICK e : e = f.elements[Len(ids) + 1]
    OBVIOUS
  <2>1. PICK t \in Things \ Array :
          /\ t \in Pins <=> e.pin
          /\ allocated' = allocated \cup {t}
          /\ pinned' = [p \in Pins |->
                          IF p = t
                          THEN <<IF e.pinned[1] = 0 THEN NULL ELSE ids[e.pinned[1]],
                                 IF e.pinned[2] = 0 THEN NULL ELSE ids[e.pinned[2]]>>
                          ELSE pinned[p]]
          /\ invisible' \in {invisible \ {t}, invisible \cup {t}}
          /\ Then(<<Do("add", t), Do("makePhysical", t),
                    Do("load", [f |-> f, ids |-> Append(ids, t)])>>)
    BY <1>2, <1>9, <2>0 DEF LoadElement
  <2>2. PICK next : next = [f |-> f, ids |-> Append(ids, t)]
    OBVIOUS
  <2>3. /\ next \in LoadState /\ next.f = f /\ next.ids = Append(ids, t)
        /\ Len(next.ids) = n + 1 /\ next.ids[n + 1] = t
        /\ \A k \in 1..n : next.ids[k] = ids[k]
    BY <1>3, <1>4, <2>1, <2>2, AppendProperties DEF LoadState
  <2>4. PICK s : s = <<Do("add", t), Do("makePhysical", t), Do("load", next)>>
    OBVIOUS
  <2>5. /\ s \in Seq(Stmt) /\ Len(s) = 3 /\ Then(s)
        /\ s[1].op = "add" /\ s[1].t = t /\ StatementTyped(s[1])
        /\ s[2].op = "makePhysical" /\ s[2].t = t /\ StatementTyped(s[2])
        /\ s[3].op = "load" /\ s[3].t = next /\ StatementTyped(s[3])
    <3>1. "add" \in OnThing /\ "makePhysical" \in OnThing /\ "load" \in Ops /\ next \in Args
      BY <2>3 DEF OnThing, Ops, Args
    <3>2. PICK a, b, c : a = Do("add", t) /\ b = Do("makePhysical", t) /\ c = Do("load", next)
      OBVIOUS
    <3>3. /\ a \in Stmt /\ a.op = "add" /\ a.t = t /\ StatementTyped(a)
          /\ b \in Stmt /\ b.op = "makePhysical" /\ b.t = t /\ StatementTyped(b)
      BY <2>1, <3>1, <3>2, DoOnThing
    <3>4. c \in Stmt /\ c.op = "load" /\ c.t = next
      BY <3>1, <3>2, DoStmt
    <3>5. StatementTyped(c)
      BY <2>3, <3>4 DEF StatementTyped, OnPin, OnObject, OnThing
    <3>6. s = <<a, b, c>>
      BY <2>4, <3>2
    <3>7. s \in Seq(Stmt) /\ Len(s) = 3 /\ s[1] = a /\ s[2] = b /\ s[3] = c
      BY <3>3, <3>4, <3>6, Seq3
    <3>8. Then(s)
      BY <2>1, <2>2, <2>4
    <3>9. QED BY <3>3, <3>4, <3>5, <3>7, <3>8
  <2>6. \A k \in 1..Len(s) : (k = 1 \/ k = 2 \/ k = 3) /\ StatementTyped(s[k])
                             /\ s[k].op \in {"add", "makePhysical", "load"}
    BY <2>5
  <2>7. /\ Push(s) /\ Len(todo') = 3 /\ todo'[1] = s[1] /\ todo'[2] = s[2] /\ todo'[3] = s[3]
        /\ todo' \in Seq(Stmt) /\ (todo' = <<>> <=> call' = "none")
        /\ TodoTyped' /\ ArrayShape' /\ Allocated' /\ DrawingOff' /\ StrokesCareful'
    <3>1. allocated \subseteq allocated'
      BY <2>1
    <3>2. \A k \in 1..Len(s) : StatementTyped(s[k]) /\ s[k].op \notin Freeing \cup
                                  {"n_things--", "moveUp", "disableDrawing", "enableDrawing"}
      BY <2>6 DEF Freeing
    <3>3. /\ Push(s) /\ Len(todo') = Len(s) /\ \A k \in 1..Len(s) : todo'[k] = s[k]
          /\ todo' \in Seq(Stmt) /\ (todo' = <<>> <=> call' = "none")
          /\ TodoTyped' /\ ArrayShape' /\ Allocated' /\ DrawingOff' /\ StrokesCareful'
      BY <1>7, <2>5, <3>1, <3>2
    <3>4. QED BY <2>5, <3>3
  <2>8. ~ InArray(t)'
    <3>1. ~ InArray(t)
      BY <2>1 DEF InArray, Array
    <3>2. QED BY <1>1, <3>1 DEF InArray
  <2>9. Next1("add", t)' /\ Is(2, "makePhysical", t)' /\ t \in allocated'
    BY <2>1, <2>5, <2>7 DEF Next1, Is
  <2>10. AddGoesOn'
    <3>1. todo'[1].t = t /\ todo'[1].op = "add" /\ todo'[3].op = "load"
      BY <2>5, <2>7
    <3>2. QED BY <2>7, <2>8, <2>9, <3>1 DEF AddGoesOn, InArray
  <2>11. InOrder'
    <3>1. SUFFICES ASSUME NEW k \in 1..Len(todo')
                   PROVE  (MadeInArray(k) /\ GoneBefore(k) /\ Found(k) /\ FreedBefore(k) /\ LoadsNext(k))'
      BY DEF InOrder
    <3>2. CASE k = 1
      BY <2>5, <2>7, <3>2 DEF MadeInArray, GoneBefore, Found, FreedBefore, LoadsNext, Making
    <3>3. CASE k = 2
      <4>1. todo'[k].op = "makePhysical" /\ todo'[k].t = t
        BY <2>5, <2>7, <3>3
      <4>2. \A j \in 1..k - 1 : todo'[j].op \notin Removing \cup {"load"}
        BY <2>5, <2>7, <3>3 DEF Removing
      <4>3. MadeInArray(k)'
        BY <2>9, <4>1, <4>2 DEF MadeInArray, Adding
      <4>4. QED BY <4>1, <4>3 DEF GoneBefore, Found, FreedBefore, LoadsNext
    <3>4. CASE k = 3
      <4>1. todo'[k].op = "load" /\ todo'[k].t = next /\ todo'[1].op \in Adding /\ k = Len(todo')
        BY <2>5, <2>7, <3>4 DEF Adding
      <4>2. PICK new : new = next.ids
        OBVIOUS
      <4>3. Len(new) <= Len(f.elements) /\ n_things' + 1 = Len(new) /\ Len(new) = n + 1
        BY <1>1, <1>2, <1>3, <1>4, <1>9, <2>3, <4>2
      <4>4. ASSUME NEW i \in 1..Len(new) PROVE new[i] \in Pins <=> f.elements[i].pin
        <5>1. CASE i = n + 1
          BY <1>3, <2>0, <2>1, <2>3, <4>2, <5>1
        <5>2. CASE i # n + 1
          <6>1. i \in 1..n
            BY <1>3, <1>4, <4>3, <5>2
          <6>2. QED BY <1>3, <2>3, <4>2, <6>1
        <5>3. QED BY <5>1, <5>2
      <4>5. f = todo'[k].t.f /\ new = todo'[k].t.ids
        BY <2>3, <4>1, <4>2
      <4>6. LoadsNext(k)'
        BY <4>1, <4>3, <4>4, <4>5 DEF LoadsNext
      <4>7. QED BY <4>1, <4>6 DEF MadeInArray, GoneBefore, Found, FreedBefore, Making
    <3>5. QED BY <2>7, <3>2, <3>3, <3>4
  <2>12. TypeOK'
    <3>1. allocated' \subseteq Things /\ invisible' \subseteq Things
      BY <1>1, <2>1 DEF TypeOK
    <3>2. ASSUME NEW l \in {1, 2}, t \in Pins
          PROVE  (IF e.pinned[l] = 0 THEN NULL ELSE ids[e.pinned[l]]) \in Objects \cup {NULL}
      <4>1. e.pin /\ Len(ids) < Len(f.elements)
        BY <1>4, <1>9, <2>1, <3>2
      <4>2. PICK k : k = e.pinned[l]
        OBVIOUS
      <4>3. k # 0 => ids[k] \in Objects
        BY <1>3, <1>4, <2>0, <4>1, <4>2, PinnedBehind
      <4>4. QED BY <4>2, <4>3
    <3>3. pinned' \in [Pins -> (Objects \cup {NULL}) \X (Objects \cup {NULL})]
      <4>1. PICK x, y : /\ x = IF e.pinned[1] = 0 THEN NULL ELSE ids[e.pinned[1]]
                        /\ y = IF e.pinned[2] = 0 THEN NULL ELSE ids[e.pinned[2]]
        OBVIOUS
      <4>2. t \in Pins => <<x, y>> \in (Objects \cup {NULL}) \X (Objects \cup {NULL})
        BY <3>2, <4>1
      <4>3. pinned' = [p \in Pins |-> IF p = t THEN <<x, y>> ELSE pinned[p]]
        BY <2>1, <4>1
      <4>4. QED BY <1>1, <4>2, <4>3 DEF TypeOK
    <3>4. QED BY <1>1, <2>7, <3>1, <3>3 DEF TypeOK, box2d, flags
  <2>13. Pointers'
    <3>1. \A k \in 1..Len(s) : PairKept(k)'
      BY <2>5, <2>6, <2>7 DEF PairKept, AtOnce
    <3>2. QED BY <1>1, <2>7, <3>1, SamePointers DEF Pairs
  <2>14. QED BY <2>7, <2>10, <2>11, <2>12, <2>13 DEF DInv, Order
<1>10. QED BY <1>8, <1>9

-----------------------------------------------------------------------------
(***************************************************************************)
(* The callbacks: what the main loop starts to execute when it was idle.   *)
(***************************************************************************)
LEMMA Idle ==
  ASSUME DInv, call = "none"
  PROVE  /\ todo = <<>> /\ Len(todo) = 0 /\ Whole /\ Allocated /\ ~ dont_draw_things
         /\ \A i \in n_things..MAX_THINGS : slots[i] = JUNK
         /\ \A o \in Objects : o \in b2body <=> o \in bodies
         /\ b2joint \subseteq joints
         /\ n_things \in Nat
<1>1. TypeOK /\ ArrayShape /\ Allocated /\ DrawingOff /\ BodiesPointedTo /\ PinsThreadSafe
  BY DEF DInv, Order, Pointers
<1>2. todo = <<>> /\ Len(todo) = 0 /\ (\A k \in 1..Len(todo) : FALSE) /\ n_things \in Nat
  BY <1>1, DrawAssumption DEF TypeOK
<1>3. \A op, t : ~ Next1(op, t)
  BY <1>2 DEF Next1, Is
<1>4. Whole /\ \A i \in n_things..MAX_THINGS : slots[i] = JUNK
  BY <1>1, <1>2, <1>3 DEF ArrayShape, JunkBehind
<1>5. ~ dont_draw_things
  BY <1>1 DEF DrawingOff
<1>6. QED BY <1>1, <1>2, <1>3, <1>4, <1>5 DEF BodiesPointedTo, PinsThreadSafe

Starts == {"add", "makePhysical", "pin", "makeUnphysical", "remove", "delete", "hide",
           "World::reset", "stopSimulationMode", "clear", "load",
           "disableDrawing", "enableDrawing"}

\* A call that keeps to the order of the statements: c is its name.
Callable(c, s) ==
  /\ s \in Seq(Stmt) /\ Len(s) \in Nat \ {0} /\ c # "none"
  /\ \A k \in 1..Len(s) :
       /\ StatementTyped(s[k]) /\ s[k].op \in Starts
       /\ s[k].op \in {"add", "pin", "remove"} => k = 1
       /\ s[k].op \in {"makePhysical", "pin"} =>
            /\ InArray(s[k].t)
            /\ \A j \in 1..k - 1 : s[j].op \notin Removing \cup {"load"}
       /\ s[k].op = "remove" => InArray(s[k].t)
       /\ s[k].op = "delete" => \E j \in 1..k - 1 : s[j].op = "remove" /\ s[j].t = s[k].t
       /\ s[k].op = "load" =>
            k = Len(s) /\ k > 1 /\ s[k - 1].op = "clear" /\ s[k].t.ids = <<>>
       /\ c \in {"penDown", "penUp"} => Careful(s[k])
  /\ s[1].op = "add" => Len(s) = 1 /\ ~ InArray(s[1].t)
  /\ IF c \in {"stopPlay", "zap"}
     THEN /\ s[1].op = "disableDrawing" /\ s[Len(s)].op = "enableDrawing"
          /\ \A k \in 1..Len(s) :
               s[k].op = "enableDrawing" => k = Len(s) \/ s[k + 1].op = "disableDrawing"
     ELSE \A k \in 1..Len(s) : s[k].op \notin {"disableDrawing", "enableDrawing"}

LEMMA CallStarts ==
  ASSUME DInv, NEW c, NEW s, Callable(c, s), Call(c, s),
         UNCHANGED <<slots, n_things, box2d, flags>>,
         allocated \subseteq allocated', allocated' \subseteq Things, invisible' \subseteq Things,
         pinned' \in [Pins -> (Objects \cup {NULL}) \X (Objects \cup {NULL})],
         s[1].op = "add" => s[1].t \in allocated'
  PROVE  DInv'
<1>1. /\ call = "none" /\ call' = c /\ todo' = s /\ c # "none"
      /\ s \in Seq(Stmt) /\ Len(s) \in Nat \ {0} /\ 1 \in 1..Len(s)
  BY DEF Call, Callable
<1>2. /\ TypeOK /\ Whole /\ Allocated /\ ~ dont_draw_things
      /\ \A i \in n_things..MAX_THINGS : slots[i] = JUNK
      /\ \A o \in Objects : o \in b2body <=> o \in bodies
      /\ b2joint \subseteq joints /\ n_things \in Nat
  BY <1>1, Idle DEF DInv
<1>3. TypeOK'
  <2>1. s # <<>>
    BY <1>1
  <2>2. QED BY <1>1, <1>2, <2>1 DEF TypeOK, box2d, flags
<1>4. TodoTyped'
  BY <1>1 DEF TodoTyped, Callable
<1>5. \A k \in 1..Len(s) : todo'[k] = s[k] /\ s[k].op \in Starts
  BY <1>1 DEF Callable
<1>6. ArrayShape' /\ Allocated'
  <2>1. JunkBehind'
    BY <1>2 DEF JunkBehind
  <2>2. Whole'
    BY <1>2 DEF Whole, Physical, InArray, box2d
  <2>3. \A k \in 1..Len(todo') : todo'[k].op \notin {"n_things--", "moveUp"}
    BY <1>1, <1>5 DEF Starts
  <2>4. QED BY <1>2, <2>1, <2>2, <2>3 DEF ArrayShape, Allocated
<1>7. AddGoesOn'
  <2>1. SUFFICES ASSUME todo'[1].op \in Adding PROVE AddGoesOn'
    BY DEF AddGoesOn
  <2>2. s[1].op = "add"
    BY <1>1, <1>5, <2>1 DEF Starts, Adding
  <2>3. PICK t : t = s[1].t
    OBVIOUS
  <2>4. Len(s) = 1 /\ ~ InArray(t) /\ t \in allocated'
    BY <2>2, <2>3 DEF Callable
  <2>5. QED BY <1>1, <2>2, <2>3, <2>4 DEF AddGoesOn, InArray
<1>8. InOrder'
  <2>1. SUFFICES ASSUME NEW k \in 1..Len(s)
                 PROVE  (MadeInArray(k) /\ GoneBefore(k) /\ Found(k) /\ FreedBefore(k) /\ LoadsNext(k))'
    BY <1>1 DEF InOrder
  <2>2. PICK t : t = s[k].t
    OBVIOUS
  <2>3. InArray(t)' <=> InArray(t)
    BY DEF InArray
  <2>4. MadeInArray(k)'
    <3>1. SUFFICES ASSUME s[k].op \in Making PROVE MadeInArray(k)'
      BY <1>5 DEF MadeInArray
    <3>2. s[k].op \in {"makePhysical", "pin"}
      BY <1>5, <3>1 DEF Starts, Making
    <3>3. InArray(t) /\ \A j \in 1..k - 1 : s[j].op \notin Removing \cup {"load"}
      BY <2>2, <3>2 DEF Callable
    <3>4. \A j \in 1..k - 1 : j \in 1..Len(s)
      BY <1>1
    <3>5. QED BY <1>5, <2>2, <2>3, <3>3, <3>4 DEF MadeInArray
  <2>5. GoneBefore(k)'
    <3>1. SUFFICES ASSUME s[k].op = "delete" PROVE GoneBefore(k)'
      BY <1>5 DEF GoneBefore, Starts
    <3>2. PICK j \in 1..k - 1 : s[j].op = "remove" /\ s[j].t = t
      BY <2>2, <3>1 DEF Callable
    <3>3. Is(j, "remove", t)'
      BY <1>1, <3>2 DEF Is
    <3>4. QED BY <1>5, <2>2, <3>2, <3>3 DEF GoneBefore
  <2>6. Found(k)'
    <3>1. SUFFICES ASSUME s[k].op = "remove" PROVE Found(k)'
      BY <1>5 DEF Found
    <3>2. k = 1 /\ InArray(t)
      BY <2>2, <3>1 DEF Callable
    <3>3. QED BY <1>5, <2>2, <2>3, <3>2 DEF Found
  <2>7. FreedBefore(k)'
    BY <1>5 DEF FreedBefore, Starts
  <2>8. LoadsNext(k)'
    <3>1. SUFFICES ASSUME s[k].op = "load" PROVE LoadsNext(k)'
      BY <1>5 DEF LoadsNext
    <3>2. k = Len(s) /\ k > 1 /\ s[k - 1].op = "clear" /\ t.ids = <<>> /\ t \in LoadState
      BY <2>2, <3>1 DEF Callable, StatementTyped
    <3>3. PICK f, ids : f = t.f /\ ids = t.ids
      OBVIOUS
    <3>4. Len(ids) = 0 /\ Len(f.elements) \in Nat
      BY <3>2, <3>3, DrawAssumption, LenProperties DEF LoadState
    <3>5. Len(ids) <= Len(f.elements) /\ \A i \in 1..Len(ids) : FALSE
      BY <3>4
    <3>6. k - 1 \in 1..Len(s)
      BY <3>2
    <3>7. QED BY <1>1, <1>5, <2>2, <3>2, <3>3, <3>5, <3>6 DEF LoadsNext
  <2>9. QED BY <2>4, <2>5, <2>6, <2>7, <2>8
<1>9. DrawingOff'
  BY <1>1, <1>2 DEF DrawingOff, Callable, flags
<1>10. StrokesCareful'
  BY <1>1 DEF StrokesCareful, Callable, Careful
<1>11. PairsKept'
  <2>1. \A k \in 1..Len(s) : s[k].op \in AtOnce => k = 1
    BY <1>5 DEF Callable, Starts, AtOnce
  <2>2. QED BY <1>1, <1>5, <2>1 DEF PairsKept, PairKept, Starts
<1>12. BodiesPointedTo' /\ PinsThreadSafe'
  BY <1>2 DEF BodiesPointedTo, PinsThreadSafe, box2d
<1>13. QED BY <1>3, <1>4, <1>6, <1>7, <1>8, <1>9, <1>10, <1>11, <1>12 DEF DInv, Order, Pointers

\* A callback that changes nothing but what is left to execute.
LEMMA CallOnly ==
  ASSUME DInv, NEW c, NEW s, Callable(c, s), Call(c, s), s[1].op # "add",
         UNCHANGED <<scene, box2d, flags>>
  PROVE  DInv'
BY CallStarts DEF scene, DInv, TypeOK

\* A callback of one statement.
LEMMA OneCall ==
  ASSUME NEW c, c # "none", c \notin {"stopPlay", "zap"}, NEW a \in Stmt,
         NEW s, s = <<a>>, StatementTyped(a),
         a.op \in {"add", "makePhysical", "pin", "World::reset"},
         a.op = "add" => ~ InArray(a.t),
         a.op \in {"makePhysical", "pin"} => InArray(a.t),
         c \in {"penDown", "penUp"} => Careful(a)
  PROVE  Callable(c, s) /\ s[1] = a
<1>1. s \in Seq(Stmt) /\ Len(s) = 1 /\ s[1] = a
  BY Seq1
<1>2. \A k \in 1..Len(s) : k = 1 /\ s[k] = a /\ (\A j \in 1..k - 1 : FALSE)
  BY <1>1
<1>3. QED BY <1>1, <1>2 DEF Callable, Starts

LEMMA PenDownStep ==
  ASSUME DInv, NEW t \in Things, PenDown(t)
  PROVE  DInv'
<1>1. /\ t \notin Array /\ Call("penDown", <<Do("add", t)>>) /\ allocated' = allocated \cup {t}
      /\ UNCHANGED <<slots, n_things, pinned, invisible, box2d, flags>>
  BY DEF PenDown
<1>2. PICK a : a = Do("add", t)
  OBVIOUS
<1>3. a \in Stmt /\ a.op = "add" /\ a.t = t /\ StatementTyped(a)
  BY <1>2, DoOnThing DEF OnThing
<1>4. PICK s : s = <<a>>
  OBVIOUS
<1>5. ~ InArray(t)
  BY <1>1 DEF InArray, Array
<1>6. Callable("penDown", s) /\ s[1] = a
  BY <1>3, <1>4, <1>5, OneCall DEF Careful, Adding
<1>7. Call("penDown", s)
  BY <1>1, <1>2, <1>4
<1>8. TypeOK
  BY DEF DInv
<1>9. /\ allocated \subseteq allocated' /\ allocated' \subseteq Things /\ invisible' \subseteq Things
      /\ pinned' \in [Pins -> (Objects \cup {NULL}) \X (Objects \cup {NULL})]
      /\ s[1].t \in allocated'
  BY <1>1, <1>3, <1>6, <1>8 DEF TypeOK
<1>10. UNCHANGED <<slots, n_things, box2d, flags>>
  BY <1>1
<1>11. QED BY <1>6, <1>7, <1>9, <1>10, CallStarts

LEMMA PenUpObjectStep ==
  ASSUME DInv, NEW o \in Objects, PenUpObject(o)
  PROVE  DInv'
<1>1. /\ o \in Array /\ Call("penUp", <<Do("makePhysical", o)>>)
      /\ UNCHANGED <<scene, box2d, flags>>
  BY DEF PenUpObject
<1>2. PICK a : a = Do("makePhysical", o)
  OBVIOUS
<1>3. a \in Stmt /\ a.op = "makePhysical" /\ a.t = o /\ StatementTyped(a)
  BY <1>2, DoOnThing DEF OnThing, Things
<1>4. PICK s : s = <<a>>
  OBVIOUS
<1>5. InArray(o)
  BY <1>1 DEF InArray, Array
<1>6. Callable("penUp", s) /\ s[1] = a
  BY <1>3, <1>4, <1>5, OneCall DEF Careful, Making
<1>7. Call("penUp", s)
  BY <1>1, <1>2, <1>4
<1>8. QED BY <1>1, <1>3, <1>6, <1>7, CallOnly

LEMMA PenUpPinStep ==
  ASSUME DInv, NEW p \in Pins, NEW t1 \in Objects, NEW t2 \in Objects \cup {NULL},
         PenUpPin(p, t1, t2)
  PROVE  DInv'
<1>1. /\ p \in Array /\ Call("penUp", <<Do("pin", p)>>)
      /\ pinned' = [pinned EXCEPT ![p] = <<t1, t2>>]
      /\ UNCHANGED <<slots, n_things, allocated, invisible, box2d, flags>>
  BY DEF PenUpPin
<1>2. PICK a : a = Do("pin", p)
  OBVIOUS
<1>3. a \in Stmt /\ a.op = "pin" /\ a.t = p /\ StatementTyped(a)
  BY <1>2, DoOnPin DEF OnPin
<1>4. PICK s : s = <<a>>
  OBVIOUS
<1>5. InArray(p)
  BY <1>1 DEF InArray, Array
<1>6. Callable("penUp", s) /\ s[1] = a
  BY <1>3, <1>4, <1>5, OneCall DEF Careful, Making
<1>7. Call("penUp", s)
  BY <1>1, <1>2, <1>4
<1>8. TypeOK
  BY DEF DInv
<1>9. /\ allocated \subseteq allocated' /\ allocated' \subseteq Things /\ invisible' \subseteq Things
      /\ pinned' \in [Pins -> (Objects \cup {NULL}) \X (Objects \cup {NULL})]
  BY <1>1, <1>8 DEF TypeOK
<1>10. UNCHANGED <<slots, n_things, box2d, flags>>
  BY <1>1
<1>11. s[1].op # "add"
  BY <1>3, <1>6
<1>12. QED BY <1>6, <1>7, <1>9, <1>10, <1>11, CallStarts

LEMMA ResetKeysStep ==
  ASSUME DInv, ResetKeys
  PROVE  DInv'
<1>1. /\ Call("handleInput", <<Do("World::reset", NULL)>>)
      /\ UNCHANGED <<scene, box2d, flags>>
  BY DEF ResetKeys
<1>2. PICK a : a = Do("World::reset", NULL)
  OBVIOUS
<1>3. a \in Stmt /\ a.op = "World::reset" /\ StatementTyped(a)
  BY <1>2, DoOnNobody DEF OnNobody
<1>4. PICK s : s = <<a>>
  OBVIOUS
<1>5. Callable("handleInput", s) /\ s[1] = a
  BY <1>3, <1>4, OneCall
<1>6. Call("handleInput", s)
  BY <1>1, <1>2, <1>4
<1>7. QED BY <1>1, <1>3, <1>5, <1>6, CallOnly

LEMMA PlayStep ==
  ASSUME DInv, Play
  PROVE  DInv'
<1>1. /\ UNCHANGED <<scene, box2d, dont_draw_things, fault, call, todo, was>>
      /\ simulation_mode' \in BOOLEAN
  BY DEF Play
<1>2. TypeOK'
  BY <1>1 DEF DInv, TypeOK, scene, box2d
<1>3. Order'
  BY <1>1 DEF DInv, Order, scene, box2d, TodoTyped, ArrayShape, JunkBehind, Next1, Is, Whole, InArray,
    Physical, Shifting, Shift, Hole, Kept, Frees, Allocated, AddGoesOn, InOrder, MadeInArray,
    GoneBefore, Found, FreedBefore, LoadsNext, DrawingOff, StrokesCareful
<1>4. Pointers'
  BY <1>1 DEF DInv, Pointers, box2d, PairsKept, PairKept, Next1, Is, BodiesPointedTo,
    PinsThreadSafe
<1>5. QED BY <1>2, <1>3, <1>4 DEF DInv

LEMMA PenUpDeleteStep ==
  ASSUME DInv, NEW t \in Things, PenUpDelete(t)
  PROVE  DInv'
<1>1. /\ t \in Array /\ Call("delete", <<Do("remove", t), Do("delete", t)>>)
      /\ UNCHANGED <<scene, box2d, flags>>
  BY DEF PenUpDelete
<1>2. PICK a, b : a = Do("remove", t) /\ b = Do("delete", t)
  OBVIOUS
<1>3. /\ a \in Stmt /\ a.op = "remove" /\ a.t = t /\ StatementTyped(a)
      /\ b \in Stmt /\ b.op = "delete" /\ b.t = t /\ StatementTyped(b)
  BY <1>2, DoOnThing DEF OnThing
<1>4. PICK s : s = <<a, b>>
  OBVIOUS
<1>5. s \in Seq(Stmt) /\ Len(s) = 2 /\ s[1] = a /\ s[2] = b
  BY <1>3, <1>4, Seq2
<1>6. InArray(t)
  BY <1>1 DEF InArray, Array
<1>7. \A k \in 1..Len(s) : (k = 1 /\ s[k] = a) \/ (k = 2 /\ s[k] = b /\ 1 \in 1..k - 1)
  BY <1>5
<1>8. Callable("delete", s)
  BY <1>3, <1>5, <1>6, <1>7 DEF Callable, Starts
<1>9. Call("delete", s)
  BY <1>1, <1>2, <1>4
<1>10. QED BY <1>1, <1>3, <1>5, <1>8, <1>9, CallOnly

LEMMA LoadStep ==
  ASSUME DInv, NEW f \in Sketches, Load(f)
  PROVE  DInv'
<1>1. /\ Call("load", <<Do("clear", NULL), Do("load", [f |-> f, ids |-> <<>>])>>)
      /\ UNCHANGED <<scene, box2d, flags>>
  BY DEF Load
<1>2. PICK a, r, b : a = Do("clear", NULL) /\ r = [f |-> f, ids |-> <<>>] /\ b = Do("load", r)
  OBVIOUS
<1>3. a \in Stmt /\ a.op = "clear" /\ StatementTyped(a)
  BY <1>2, DoOnNobody DEF OnNobody
<1>4. r \in LoadState /\ r.ids = <<>>
  BY <1>2 DEF LoadState
<1>5. b \in Stmt /\ b.op = "load" /\ b.t = r
  BY <1>2, <1>4, DoStmt DEF Ops, Args
<1>6. StatementTyped(b)
  BY <1>4, <1>5 DEF StatementTyped, OnPin, OnObject, OnThing
<1>7. PICK s : s = <<a, b>>
  OBVIOUS
<1>8. s \in Seq(Stmt) /\ Len(s) = 2 /\ s[1] = a /\ s[2] = b
  BY <1>3, <1>5, <1>7, Seq2
<1>9. \A k \in 1..Len(s) : (k = 1 /\ s[k] = a) \/ (k = 2 /\ s[k] = b)
  BY <1>8
<1>10. Callable("load", s)
  BY <1>3, <1>4, <1>5, <1>6, <1>8, <1>9 DEF Callable, Starts
<1>11. Call("load", s)
  BY <1>1, <1>2, <1>7
<1>12. QED BY <1>1, <1>3, <1>8, <1>10, <1>11, CallOnly

LEMMA PenUpMoveStep ==
  ASSUME DInv, NEW n \in Nat \ {0}, NEW moved \in [1..n -> Pins], PenUpMove(moved)
  PROVE  DInv'
<1>0. Len(moved) = n /\ \A i \in 1..n : moved[i] \in Pins /\ moved[i] \in Things
  BY SeqDef, LenProperties DEF Things
<1>1. PICK a, b, s : /\ a = [i \in 1..n |-> Do("makeUnphysical", moved[i])]
                     /\ b = [i \in 1..n |-> Do("makePhysical", moved[i])]
                     /\ s = a \o b
  OBVIOUS
<1>2. Call("penUp", s) /\ UNCHANGED <<scene, box2d, flags>>
  BY <1>0, <1>1 DEF PenUpMove
<1>3. \A i \in 1..n : InArray(moved[i])
  <2>1. \A i \in DOMAIN moved : moved[i] \in Array
    BY DEF PenUpMove
  <2>2. QED BY <2>1 DEF InArray, Array
<1>4. \A i \in 1..n :
        /\ a[i] \in Stmt /\ a[i].op = "makeUnphysical" /\ a[i].t = moved[i] /\ StatementTyped(a[i])
        /\ b[i] \in Stmt /\ b[i].op = "makePhysical" /\ b[i].t = moved[i] /\ StatementTyped(b[i])
  BY <1>0, <1>1, DoOnThing DEF OnThing
<1>5. a \in Seq(Stmt) /\ Len(a) = n /\ b \in Seq(Stmt) /\ Len(b) = n
  BY <1>1, <1>4, FunctionSeq
<1>6. /\ s \in Seq(Stmt) /\ Len(s) = n + n
      /\ \A k \in 1..n : s[k] = a[k]
      /\ \A k \in 1..n : s[n + k] = b[k]
  BY <1>1, <1>5, Joined
<1>7. \A k \in 1..Len(s) : (k \in 1..n /\ s[k] = a[k])
                           \/ (k > n /\ k - n \in 1..n /\ s[k] = b[k - n])
  <2>1. SUFFICES ASSUME NEW k \in 1..Len(s), k > n
                 PROVE  k - n \in 1..n /\ s[k] = b[k - n]
    BY <1>6
  <2>2. k - n \in 1..n /\ n + (k - n) = k
    BY <1>6, <2>1
  <2>3. QED BY <1>6, <2>2
<1>8. ASSUME NEW k \in 1..Len(s)
      PROVE  /\ StatementTyped(s[k]) /\ s[k].op \in {"makeUnphysical", "makePhysical"}
             /\ s[k].t \in Pins /\ InArray(s[k].t)
  <2>1. CASE k \in 1..n /\ s[k] = a[k]
    BY <1>0, <1>3, <1>4, <2>1
  <2>2. CASE k > n /\ k - n \in 1..n /\ s[k] = b[k - n]
    BY <1>0, <1>3, <1>4, <2>2
  <2>3. QED BY <1>7, <2>1, <2>2
<1>9. \A k \in 1..Len(s) : \A j \in 1..k - 1 : s[j].op \notin Removing \cup {"load"}
  <2>1. \A k \in 1..Len(s) : \A j \in 1..k - 1 : j \in 1..Len(s)
    BY <1>6
  <2>2. QED BY <1>8, <2>1 DEF Removing
<1>10. \A k \in 1..Len(s) : Careful(s[k])
  BY <1>8 DEF Careful, Making
<1>11. 1 \in 1..Len(s) /\ Len(s) \in Nat \ {0}
  BY <1>6
<1>12. Callable("penUp", s)
  BY <1>6, <1>8, <1>9, <1>10, <1>11 DEF Callable, Starts
<1>13. QED BY <1>2, <1>8, <1>11, <1>12, CallOnly

LEMMA StepStep ==
  ASSUME DInv, NEW n \in Nat \ {0}, NEW left \in [1..n -> Objects], Step(left)
  PROVE  DInv'
<1>0. Len(left) = n /\ \A i \in 1..n : left[i] \in Objects /\ left[i] \in Things
  BY SeqDef, LenProperties DEF Things
<1>1. PICK s : s = [i \in 1..2 * n |-> IF i % 2 = 1 THEN Do("makeUnphysical", left[(i + 1) \div 2])
                                       ELSE Do("hide", left[i \div 2])]
  OBVIOUS
<1>2. Call("step", s) /\ UNCHANGED <<scene, box2d, flags>>
  BY <1>0, <1>1 DEF Step
<1>3. 2 * n \in Nat /\ 1 \in 1..2 * n
  OBVIOUS
<1>4. ASSUME NEW i \in 1..2 * n
      PROVE  /\ s[i] \in Stmt /\ StatementTyped(s[i])
             /\ s[i].op \in {"makeUnphysical", "hide"}
  <2>1. CASE i % 2 = 1
    <3>1. (i + 1) \div 2 \in 1..n
      BY <2>1
    <3>2. PICK o \in Objects : o = left[(i + 1) \div 2]
      BY <1>0, <3>1
    <3>3. s[i] = Do("makeUnphysical", o) /\ o \in Things
      BY <1>1, <2>1, <3>2 DEF Things
    <3>4. QED BY <3>3, DoOnThing DEF OnThing
  <2>2. CASE i % 2 # 1
    <3>1. i \div 2 \in 1..n
      BY <2>2
    <3>2. PICK o \in Objects : o = left[i \div 2]
      BY <1>0, <3>1
    <3>3. s[i] = Do("hide", o)
      BY <1>1, <2>2, <3>2
    <3>4. QED BY <3>3, DoOnObject DEF OnObject
  <2>3. QED BY <2>1, <2>2
<1>5. s \in Seq(Stmt) /\ Len(s) = 2 * n
  <2>1. s \in [1..2 * n -> Stmt]
    BY <1>1, <1>4
  <2>2. QED BY <1>3, <2>1, FunctionSeq
<1>6. Callable("step", s)
  BY <1>3, <1>4, <1>5 DEF Callable, Starts
<1>7. QED BY <1>2, <1>3, <1>4, <1>6, CallOnly

\* stopPlay(), statement by statement.
LEMMA StopInOrder ==
  /\ StopCalls \in Seq(Stmt) /\ Len(StopCalls) = 4
  /\ \A k \in 1..4 : StatementTyped(StopCalls[k])
  /\ StopCalls[1].op = "disableDrawing" /\ StopCalls[2].op = "World::reset"
  /\ StopCalls[3].op = "stopSimulationMode" /\ StopCalls[4].op = "enableDrawing"
<1>1. PICK a, b, c, d : /\ a = Do("disableDrawing", NULL) /\ b = Do("World::reset", NULL)
                        /\ c = Do("stopSimulationMode", NULL) /\ d = Do("enableDrawing", NULL)
  OBVIOUS
<1>2. /\ a \in Stmt /\ a.op = "disableDrawing" /\ StatementTyped(a)
      /\ b \in Stmt /\ b.op = "World::reset" /\ StatementTyped(b)
      /\ c \in Stmt /\ c.op = "stopSimulationMode" /\ StatementTyped(c)
      /\ d \in Stmt /\ d.op = "enableDrawing" /\ StatementTyped(d)
  BY <1>1, DoOnNobody DEF OnNobody
<1>3. StopCalls = <<a, b, c, d>>
  BY <1>1 DEF StopCalls
<1>4. /\ <<a, b, c, d>> \in Seq(Stmt) /\ Len(<<a, b, c, d>>) = 4
      /\ <<a, b, c, d>>[1] = a /\ <<a, b, c, d>>[2] = b
      /\ <<a, b, c, d>>[3] = c /\ <<a, b, c, d>>[4] = d
  BY <1>2
<1>5. \A k \in 1..4 : k = 1 \/ k = 2 \/ k = 3 \/ k = 4
  OBVIOUS
<1>6. QED BY <1>2, <1>3, <1>4, <1>5

LEMMA StopPlayStep ==
  ASSUME DInv, StopPlay
  PROVE  DInv'
<1>1. PICK s : s = StopCalls
  OBVIOUS
<1>2. Call("stopPlay", s) /\ UNCHANGED <<scene, box2d, flags>>
  BY <1>1 DEF StopPlay
<1>3. /\ s \in Seq(Stmt) /\ Len(s) = 4 /\ \A k \in 1..4 : StatementTyped(s[k])
      /\ s[1].op = "disableDrawing" /\ s[2].op = "World::reset"
      /\ s[3].op = "stopSimulationMode" /\ s[4].op = "enableDrawing"
  BY <1>1, StopInOrder
<1>4. \A k \in 1..Len(s) : k = 1 \/ k = 2 \/ k = 3 \/ k = 4
  BY <1>3
<1>5. Callable("stopPlay", s)
  BY <1>3, <1>4 DEF Callable, Starts
<1>6. QED BY <1>2, <1>3, <1>5, CallOnly

LEMMA ZapStep ==
  ASSUME DInv, Zap
  PROVE  DInv'
<1>1. PICK a, b, c : /\ a = Do("disableDrawing", NULL) /\ b = Do("clear", NULL)
                     /\ c = Do("enableDrawing", NULL)
  OBVIOUS
<1>2. /\ a \in Stmt /\ a.op = "disableDrawing" /\ StatementTyped(a)
      /\ b \in Stmt /\ b.op = "clear" /\ StatementTyped(b)
      /\ c \in Stmt /\ c.op = "enableDrawing" /\ StatementTyped(c)
  BY <1>1, DoOnNobody DEF OnNobody
<1>3. PICK r, q : r = <<a, b, c>> /\ q = StopCalls
  OBVIOUS
<1>4. PICK s : s = q \o r
  OBVIOUS
<1>5. r \in Seq(Stmt) /\ Len(r) = 3 /\ r[1] = a /\ r[2] = b /\ r[3] = c
  BY <1>2, <1>3, Seq3
<1>6. /\ q \in Seq(Stmt) /\ Len(q) = 4 /\ \A k \in 1..4 : StatementTyped(q[k])
      /\ q[1].op = "disableDrawing" /\ q[2].op = "World::reset"
      /\ q[3].op = "stopSimulationMode" /\ q[4].op = "enableDrawing"
  BY <1>3, StopInOrder
<1>7. /\ s \in Seq(Stmt) /\ Len(s) = Len(q) + Len(r)
      /\ \A k \in 1..Len(q) : s[k] = q[k]
      /\ \A k \in 1..Len(r) : s[Len(q) + k] = r[k]
  <2>1. r \in Seq(Stmt) /\ q \in Seq(Stmt)
    BY <1>5, <1>6
  <2>2. QED BY <1>4, <2>1, Joined
<1>8. Len(s) = 7
  BY <1>5, <1>6, <1>7
<1>9. s[1] = q[1] /\ s[2] = q[2] /\ s[3] = q[3] /\ s[4] = q[4]
  BY <1>6, <1>7
<1>10. s[5] = a /\ s[6] = b /\ s[7] = c
  <2>1. s[4 + 1] = r[1] /\ s[4 + 2] = r[2] /\ s[4 + 3] = r[3]
    BY <1>5, <1>6, <1>7
  <2>2. QED BY <1>5, <2>1
<1>11. \A k \in 1..Len(s) : k = 1 \/ k = 2 \/ k = 3 \/ k = 4 \/ k = 5 \/ k = 6 \/ k = 7
  BY <1>8
<1>12. /\ s[1].op = "disableDrawing" /\ s[2].op = "World::reset"
       /\ s[3].op = "stopSimulationMode" /\ s[4].op = "enableDrawing"
       /\ s[5].op = "disableDrawing" /\ s[6].op = "clear" /\ s[7].op = "enableDrawing"
       /\ \A k \in 1..Len(s) : StatementTyped(s[k])
  BY <1>2, <1>6, <1>9, <1>10, <1>11
<1>13. \A k \in 1..Len(s) : /\ s[k].op \in Starts
                            /\ s[k].op \notin {"add", "pin", "remove", "makePhysical",
                                               "makeUnphysical", "delete", "load"}
                            /\ s[k].op = "enableDrawing" => k = 4 \/ k = 7
  BY <1>11, <1>12 DEF Starts
<1>14. Callable("zap", s)
  <2>1. s[Len(s)].op = "enableDrawing" /\ Len(s) \in Nat \ {0} /\ s[1].op # "add"
    BY <1>8, <1>12
  <2>2. \A k \in 1..Len(s) : s[k].op = "enableDrawing" => k = Len(s) \/ s[k + 1].op = "disableDrawing"
    BY <1>8, <1>12, <1>13
  <2>3. QED BY <1>7, <1>12, <1>13, <2>1, <2>2 DEF Callable
<1>15. Call("zap", s) /\ UNCHANGED <<scene, box2d, flags>>
  BY <1>1, <1>3, <1>4 DEF Zap
<1>16. QED BY <1>12, <1>14, <1>15, CallOnly
-----------------------------------------------------------------------------
LEMMA DrawInit ==
  ASSUME Init
  PROVE  DInv
<1>1. /\ todo = <<>> /\ Len(todo) = 0 /\ (\A k \in 1..Len(todo) : FALSE)
      /\ n_things = 0 /\ (\A i \in 0..n_things - 1 : FALSE)
      /\ slots = [i \in 0..MAX_THINGS |-> JUNK]
      /\ allocated = {} /\ invisible = {} /\ pinned = [p \in Pins |-> Unpinned]
      /\ b2body = {} /\ b2joint = {} /\ bodies = {BG} /\ joints = {}
      /\ ~ dont_draw_things /\ call = "none"
  BY DEF Init
<1>2. TypeOK
  <2>1. n_things \in 0..MAX_THINGS /\ slots \in [0..MAX_THINGS -> Things \cup {JUNK}]
    BY <1>1, DrawAssumption
  <2>2. pinned \in [Pins -> (Objects \cup {NULL}) \X (Objects \cup {NULL})]
    BY <1>1 DEF Unpinned
  <2>3. {simulation_mode, dont_draw_things, fault} \subseteq BOOLEAN
    BY DEF Init
  <2>4. todo = <<>> <=> call = "none"
    BY <1>1
  <2>5. QED BY <1>1, <2>1, <2>2, <2>3, <2>4 DEF TypeOK
<1>3. BG \notin Objects
  BY DrawAssumption DEF Things
<1>4. Whole /\ Allocated
  BY <1>1 DEF Whole, Allocated, Physical
<1>5. \A i \in n_things..MAX_THINGS : slots[i] = JUNK
  BY <1>1
<1>6. ArrayShape
  BY <1>1, <1>4, <1>5 DEF ArrayShape, JunkBehind
<1>7. TodoTyped /\ AddGoesOn /\ InOrder
  BY <1>1, Seq0 DEF TodoTyped, AddGoesOn, InOrder
<1>8. DrawingOff /\ StrokesCareful
  BY <1>1 DEF DrawingOff, StrokesCareful
<1>9. PairsKept /\ BodiesPointedTo /\ PinsThreadSafe
  BY <1>1, <1>3 DEF PairsKept, BodiesPointedTo, PinsThreadSafe
<1>10. QED BY <1>2, <1>4, <1>6, <1>7, <1>8, <1>9 DEF DInv, Order, Pointers

LEMMA Stutter ==
  ASSUME DInv, UNCHANGED vars
  PROVE  DInv'
<1>1. UNCHANGED <<slots, n_things, allocated, pinned, invisible, b2body, b2joint, bodies, joints,
                  simulation_mode, dont_draw_things, fault, call, todo, was>>
  BY DEF vars, scene, box2d, flags
<1>2. TypeOK'
  BY <1>1 DEF DInv, TypeOK
<1>3. Order'
  BY <1>1 DEF DInv, Order, TodoTyped, ArrayShape, JunkBehind, Next1, Is, Whole, InArray,
    Physical, Shifting, Shift, Hole, Kept, Frees, Allocated, AddGoesOn, InOrder, MadeInArray,
    GoneBefore, Found, FreedBefore, LoadsNext, DrawingOff, StrokesCareful
<1>4. Pointers'
  BY <1>1 DEF DInv, Pointers, PairsKept, PairKept, Next1, Is, BodiesPointedTo, PinsThreadSafe
<1>5. QED BY <1>2, <1>3, <1>4 DEF DInv

LEMMA StatementStep ==
  ASSUME DInv, Statement
  PROVE  DInv'
<1>1. CASE AddThing \/ Longer
  BY <1>1, AddThingStep, LongerStep
<1>2. CASE Remove \/ MoveUp \/ Shorter \/ RemovePins \/ Delete \/ Clear
  BY <1>2, RemoveStep, MoveUpStep, ShorterStep, RemovePinsStep, DeleteStep, ClearStep
<1>3. CASE MakeUnphysical \/ ClearJoint \/ DestroyJoint \/ ClearBody \/ DestroyBody
  BY <1>3, MakeUnphysicalStep, ClearJointStep, DestroyJointStep, ClearBodyStep, DestroyBodyStep
<1>4. CASE MakePhysical \/ CreateBody \/ SetBody \/ Attach \/ CreateJoint \/ SetJoint
  BY <1>4, MakePhysicalStep, CreateBodyStep, SetBodyStep, AttachStep, CreateJointStep,
     SetJointStep
<1>5. CASE Reset \/ NewWorld \/ Unhide \/ Hide
  BY <1>5, ResetStep, NewWorldStep, UnhideStep, HideStep
<1>6. CASE SetDrawing \/ StopSimulationMode \/ LoadElement
  BY <1>6, SetDrawingStep, StopSimulationModeStep, LoadElementStep
<1>7. QED BY <1>1, <1>2, <1>3, <1>4, <1>5, <1>6 DEF Statement

LEMMA CallbackStep ==
  ASSUME DInv, Callback
  PROVE  DInv'
<1>1. CASE \E t \in Things : PenDown(t) \/ PenUpDelete(t)
  BY <1>1, PenDownStep, PenUpDeleteStep
<1>2. CASE \E o \in Objects : PenUpObject(o)
  BY <1>2, PenUpObjectStep
<1>3. CASE \E p \in Pins, t1 \in Objects, t2 \in Objects \cup {NULL} : PenUpPin(p, t1, t2)
  BY <1>3, PenUpPinStep
<1>4. CASE \E n \in 1..Cardinality(Pins) : \E moved \in [1..n -> Pins] : PenUpMove(moved)
  <2>1. IsFiniteSet(Pins)
    BY DrawAssumption, FS_Subset DEF Things
  <2>2. \A n \in 1..Cardinality(Pins) : n \in Nat \ {0}
    BY <2>1, FS_CardinalityType
  <2>3. QED BY <1>4, <2>2, PenUpMoveStep
<1>5. CASE \E n \in 1..Cardinality(Objects) : \E left \in [1..n -> Objects] : Step(left)
  <2>1. IsFiniteSet(Objects)
    BY DrawAssumption, FS_Subset DEF Things
  <2>2. \A n \in 1..Cardinality(Objects) : n \in Nat \ {0}
    BY <2>1, FS_CardinalityType
  <2>3. QED BY <1>5, <2>2, StepStep
<1>6. CASE Play \/ StopPlay \/ Zap \/ ResetKeys
  BY <1>6, PlayStep, StopPlayStep, ZapStep, ResetKeysStep
<1>7. CASE \E f \in Sketches : Load(f)
  BY <1>7, LoadStep
<1>8. QED BY <1>1, <1>2, <1>3, <1>4, <1>5, <1>6, <1>7 DEF Callback
-----------------------------------------------------------------------------
(***************************************************************************)
(* What each statement in todo relies on holds between any two statements, *)
(* whatever the player does and whichever sketch is loaded.                *)
(***************************************************************************)
THEOREM DrawInvariant == Spec => []DInv
<1>1. Init => DInv
  BY DrawInit
<1>2. DInv /\ [Next]_vars => DInv'
  <2>1. SUFFICES ASSUME DInv, [Next]_vars PROVE DInv'
    OBVIOUS
  <2>2. CASE Statement
    BY <2>1, <2>2, StatementStep
  <2>3. CASE Callback
    BY <2>1, <2>3, CallbackStep
  <2>4. CASE UNCHANGED vars
    BY <2>1, <2>4, Stutter
  <2>5. QED BY <2>1, <2>2, <2>3, <2>4 DEF Next, Halted
<1>3. QED BY <1>1, <1>2, PTL DEF Spec

\* The statements keep the types of everything they change.
THEOREM DrawTypeCorrect == Spec => []TypeOK
<1>1. DInv => TypeOK
  BY DEF DInv
<1>2. QED BY <1>1, DrawInvariant, PTL

\* Whatever the call, no pin points to a joint that Box2D freed.
THEOREM PinsNeverDangle == Spec => []PinsThreadSafe
<1>1. DInv => PinsThreadSafe
  BY DEF DInv, Pointers
<1>2. QED BY <1>1, DrawInvariant, PTL

LEMMA WholeArray ==
  ASSUME Whole, n_things \in Nat, JUNK \notin Things
  PROVE  Cardinality(Array) = n_things /\ JUNK \notin Array
<1>1. PICK f : f = [i \in 1..n_things |-> slots[i - 1]]
  OBVIOUS
<1>2. \A i \in 1..n_things : i - 1 \in 0..n_things - 1 /\ f[i] = slots[i - 1]
  BY <1>1
<1>3. \A i \in 0..n_things - 1 : i + 1 \in 1..n_things /\ f[i + 1] = slots[i]
  <2>1. TAKE i \in 0..n_things - 1
  <2>2. i + 1 \in 1..n_things /\ i + 1 - 1 = i
    OBVIOUS
  <2>3. QED BY <1>2, <2>2
<1>4. f \in [1..n_things -> Array]
  BY <1>1, <1>2 DEF Array
<1>5. \A a, b \in 1..n_things : f[a] = f[b] => a = b
  <2>1. SUFFICES ASSUME NEW a \in 1..n_things, NEW b \in 1..n_things, f[a] = f[b]
                 PROVE  a = b
    OBVIOUS
  <2>2. slots[a - 1] = slots[b - 1] /\ a - 1 \in 0..n_things - 1 /\ b - 1 \in 0..n_things - 1
    BY <1>2, <2>1
  <2>3. a - 1 = b - 1
    BY <2>2 DEF Whole
  <2>4. QED BY <2>3
<1>6. \A t \in Array : \E a \in 1..n_things : f[a] = t
  <2>1. SUFFICES ASSUME NEW t \in Array PROVE \E a \in 1..n_things : f[a] = t
    OBVIOUS
  <2>2. PICK i \in 0..n_things - 1 : slots[i] = t
    BY DEF Array
  <2>3. QED BY <1>3, <2>2
<1>7. f \in Bijection(1..n_things, Array)
  BY <1>4, <1>5, <1>6 DEF Bijection, Injection, Surjection, IsInjective
<1>8. ExistsBijection(1..n_things, Array)
  BY <1>7 DEF ExistsBijection
<1>9. Cardinality(Array) = n_things
  BY <1>8, FS_CountingElements
<1>10. JUNK \notin Array
  BY DEF Whole, Array
<1>11. QED BY <1>9, <1>10

(***************************************************************************)
(* Between two calls the array holds n_things different things, the bodies *)
(* are those that objects point to, and drawing is enabled.                *)
(***************************************************************************)
THEOREM ArrayStaysIntact == Spec => []ArrayIntact
<1>1. DInv => ArrayIntact
  <2>1. SUFFICES ASSUME DInv, call = "none"
                 PROVE  /\ Cardinality(Array) = n_things /\ JUNK \notin Array
                        /\ b2body = bodies \ {BG} /\ ~ dont_draw_things
    BY DEF ArrayIntact
  <2>2. /\ Whole /\ n_things \in Nat /\ ~ dont_draw_things
        /\ \A o \in Objects : o \in b2body <=> o \in bodies
    BY <2>1, Idle
  <2>3. JUNK \notin Things /\ BG \notin Objects
    BY DrawAssumption DEF Things
  <2>4. Cardinality(Array) = n_things /\ JUNK \notin Array
    BY <2>2, <2>3, WholeArray
  <2>5. TypeOK
    BY <2>1 DEF DInv
  <2>6. b2body = bodies \ {BG}
    BY <2>2, <2>3, <2>5 DEF TypeOK
  <2>7. QED BY <2>2, <2>4, <2>6
<1>2. QED BY <1>1, DrawInvariant, PTL

\* No removal is at work, and no body has a pointer that outlives it.
LEMMA CarefulQuiet ==
  ASSUME DInv, call \in CarefulCalls, ~ dont_draw_things
  PROVE  Whole /\ \A o \in Objects : ~ Next1("setb2Body(0)", o)
<1>1. /\ TypeOK /\ ArrayShape /\ DrawingOff /\ StrokesCareful
      /\ todo \in Seq(Stmt) /\ Len(todo) \in Nat
  BY LenProperties DEF DInv, Order, TodoTyped
<1>2. CASE call = "none"
  <2>1. Whole /\ Len(todo) = 0 /\ \A k \in 1..Len(todo) : FALSE
    BY <1>2, Idle
  <2>2. QED BY <2>1 DEF Next1, Is
<1>3. CASE call \in {"penDown", "penUp"}
  <2>1. \A k \in 1..Len(todo) : todo[k].op \notin {"n_things--", "setb2Body(0)"}
    BY <1>1, <1>3 DEF StrokesCareful, Adding, Making
  <2>2. QED BY <1>1, <2>1 DEF ArrayShape, Next1, Is
<1>4. CASE call \in {"stopPlay", "zap"}
  <2>1. todo # <<>> /\ todo[1].op = "disableDrawing"
    BY <1>1, <1>4 DEF DrawingOff, TypeOK
  <2>2. Whole
    BY <1>1, <2>1, NotShifting DEF Freeing
  <2>3. QED BY <2>1, <2>2 DEF Next1, Is
<1>5. QED BY <1>2, <1>3, <1>4 DEF CarefulCalls

(***************************************************************************)
(* The interrupt may come between any two statements of drawing, pinning   *)
(* and moving, of stopPlay and of zap, for any number of things.           *)
(***************************************************************************)
THEOREM CarefulCallsStayDrawSafe == Spec => []CarefulCallsDrawSafe
<1>1. DInv => CarefulCallsDrawSafe
  <2>1. SUFFICES ASSUME DInv, call \in CarefulCalls, ~ dont_draw_things
                 PROVE  SlotsSafe /\ BodiesSafe /\ JointsSafe
    BY DEF CarefulCallsDrawSafe, DrawSafe
  <2>2. Whole /\ \A o \in Objects : ~ Next1("setb2Body(0)", o)
    BY <2>1, CarefulQuiet
  <2>3. TypeOK /\ Allocated /\ BodiesPointedTo /\ PairsKept /\ PinsThreadSafe
    BY <2>1 DEF DInv, Order, Pointers
  <2>4. SlotsSafe
    <3>1. \A i \in 0..n_things - 1 : slots[i] \in Things /\ slots[i] \in allocated \cup {JUNK}
      BY <2>2, <2>3 DEF Whole, Allocated
    <3>2. JUNK \notin Things
      BY DrawAssumption
    <3>3. QED BY <3>1, <3>2 DEF SlotsSafe, Array
  <2>5. b2body \subseteq bodies
    <3>1. SUFFICES ASSUME NEW o \in Objects, o \in b2body, o \notin bodies PROVE FALSE
      BY <2>3 DEF TypeOK
    <3>2. Is(1, "setb2Body", o)
      BY <2>2, <2>3, <3>1 DEF BodiesPointedTo, Next1
    <3>3. 1 \in 1..Len(todo) /\ todo[1].op = "setb2Body" /\ todo[1].t = o
      BY <3>2 DEF Is
    <3>4. PairKept(1)
      BY <2>3, <3>3 DEF PairsKept
    <3>5. QED BY <3>1, <3>3, <3>4 DEF PairKept
  <2>6. BodiesSafe /\ JointsSafe
    BY <2>3, <2>5 DEF BodiesSafe, JointsSafe, PinsThreadSafe
  <2>7. QED BY <2>4, <2>6
<1>2. QED BY <1>1, DrawInvariant, PTL
=============================================================================
