---------------------------- MODULE Sketch_proofs ----------------------------
(***************************************************************************)
(* A sketch survives saving and loading, for any drawing and capacity.     *)
(***************************************************************************)
EXTENDS Sketch, TLAPS

(***************************************************************************)
(* The drawing: things are in the array once, pins behind their things.    *)
(***************************************************************************)
DrawingOK ==
  /\ things \in Seq(Things) /\ Len(things) <= MAX_THINGS
  /\ pinned \in [Pins -> (Objects \cup {NULL}) \X (Objects \cup {NULL})]
  /\ \A i, k \in 1..Len(things) : things[i] = things[k] => i = k
  /\ \A i \in 1..Len(things) : things[i] \in Pins =>
       \A k \in 1..2 : \/ pinned[things[i]][k] = NULL
                       \/ \E j \in 1..i - 1 : things[j] = pinned[things[i]][k]

\* The numbers that save gave so far.
Saved(i) ==
  /\ idtable[i] = things[i]
  /\ elements[i].pin <=> things[i] \in Pins
  /\ elements[i].id = IF things[i] \in Pins THEN 0 ELSE i
  /\ \A k \in 1..2 : elements[i].pinned[k] < i
  /\ IF things[i] \in Pins
     THEN \A k \in 1..2 : SameThing(elements[i].pinned[k], pinned[things[i]][k])
     ELSE elements[i].pinned = <<0, 0>>

SavedOK == \A i \in 1..Len(elements) : Saved(i)

\* The entries that load filled so far, and what it made of the numbers.
LoadedAs(i) ==
  /\ things[i] \in Objects => id_table[i] = i
  /\ loaded[i].pin <=> things[i] \in Pins
  /\ things[i] \in Pins =>
       \A k \in 1..2 : SameThing(loaded[i].pinned[k], pinned[things[i]][k])

LoadedOK == \A i \in 1..Len(loaded) : LoadedAs(i)

Order ==
  /\ at \in {"loading", "loaded", "crashed"} => Len(elements) = Len(things)
  /\ at = "loaded" => Len(loaded) = Len(elements)
  /\ at = "saving" => loaded = <<>>

IInv == TypeOK /\ DrawingOK /\ SavedOK /\ LoadedOK /\ Order

(***************************************************************************)
(* The search for the thing at place j of the array ends there, or at what *)
(* malloc left in entry 0.                                                 *)
(***************************************************************************)
LEMMA SearchFinds ==
  ASSUME NEW n \in Nat, NEW tbl, NEW t, NEW j \in 1..n, DOMAIN tbl = 0..n,
         tbl[j] = t, \A m \in 1..j - 1 : tbl[m] # t
  PROVE  FirstIn(tbl, t) = IF tbl[0] = t THEN 0 ELSE j
<1> DEFINE Least(k) == k \in DOMAIN tbl /\ tbl[k] = t /\ \A m \in 0..k - 1 : tbl[m] # t
<1>1. Least(IF tbl[0] = t THEN 0 ELSE j)
  OBVIOUS
<1>2. ASSUME NEW k, NEW l, Least(k), Least(l) PROVE k = l
  BY <1>2
<1>3. Least(FirstIn(tbl, t))
  BY <1>1 DEF FirstIn
<1>. QED BY <1>1, <1>2, <1>3

\* The drawing that save finds, with its tables, satisfies the invariant.
LEMMA InitIInv == Init => IInv
<1> SUFFICES ASSUME Init PROVE IInv
  OBVIOUS
<1>1. PICK n \in 0..MAX_THINGS : things \in [1..n -> Things]
  BY DEF Init
<1>2. things \in Seq(Things) /\ Len(things) = n
  BY <1>1, SketchAssumption
<1>3. elements = <<>> /\ loaded = <<>> /\ at = "saving"
  BY DEF Init
<1>4. TypeOK
  <2>1. idtable \in [0..Len(things) -> Things \cup {NULL}] /\ id_table \in [0..MAX_THINGS -> 0..MAX_THINGS]
    BY SketchAssumption DEF Init
  <2>2. elements \in Seq(Element) /\ loaded \in Seq(Loaded) /\ Len(elements) = 0 /\ Len(loaded) = 0
    BY <1>3
  <2>. QED BY <1>2, <2>1, <2>2 DEF TypeOK
<1>5. DrawingOK
  <2>1. \A i \in 1..Len(things) : things[i] \in Pins =>
          \A k \in 1..2 : \/ pinned[things[i]][k] = NULL
                          \/ \E j \in 1..i - 1 : things[j] = pinned[things[i]][k]
    BY <1>1, <1>2 DEF Init
  <2>2. \A i, k \in 1..Len(things) : things[i] = things[k] => i = k
    BY <1>1, <1>2 DEF Init
  <2>. QED BY <1>2, <2>1, <2>2 DEF Init, DrawingOK
<1>6. SavedOK /\ LoadedOK /\ Order
  BY <1>3 DEF SavedOK, LoadedOK, Order
<1>. QED BY <1>4, <1>5, <1>6 DEF IInv

\* A pass of the loop of save keeps it.
LEMMA SaveIInv == IInv /\ SaveThing => IInv'
<1> SUFFICES ASSUME IInv, SaveThing PROVE IInv'
  OBVIOUS
<1> DEFINE i == Len(elements) + 1
           t == things[i]
           Numbers == <<PinnedId(idtable', pinned[t][1]), PinnedId(idtable', pinned[t][2])>>
           e == IF t \in Pins THEN [pin |-> TRUE, id |-> 0, pinned |-> Numbers]
                ELSE [pin |-> FALSE, id |-> i, pinned |-> <<0, 0>>]
<1>1. /\ i \in 1..Len(things) /\ t \in Things /\ Len(things) \in Nat
      /\ i \in 1..MAX_THINGS
  <2>1. Len(elements) \in Nat /\ Len(things) \in Nat /\ Len(things) <= MAX_THINGS
    BY DEF IInv, TypeOK, DrawingOK
  <2>2. i \in 1..Len(things) /\ i \in 1..MAX_THINGS
    BY <2>1, SketchAssumption DEF SaveThing
  <2>. QED BY <2>1, <2>2 DEF IInv, DrawingOK
<1>2. /\ idtable' \in [0..Len(things) -> Things \cup {NULL}]
      /\ idtable'[0] = idtable[0]
      /\ \A m \in 1..i : idtable'[m] = things[m]
  <2>1. idtable' = [idtable EXCEPT ![i] = t]
    BY DEF SaveThing
  <2>2. idtable \in [0..Len(things) -> Things \cup {NULL}]
    BY DEF IInv, TypeOK
  <2>3. \A m \in 1..i - 1 : idtable[m] = things[m]
    BY <1>1 DEF IInv, SavedOK, Saved
  <2>. QED BY <1>1, <2>1, <2>2, <2>3
<1>3. elements' = Append(elements, e)
  BY DEF SaveThing
<1>4. UNCHANGED <<things, pinned, at, id_table, loaded>>
  BY DEF SaveThing, drawing
<1>5. ASSUME t \in Pins, NEW k \in 1..2
      PROVE  /\ PinnedId(idtable', pinned[t][k]) \in 0..i - 1
             /\ SameThing(PinnedId(idtable', pinned[t][k]), pinned[t][k])
  <2> DEFINE u == pinned[t][k]
  <2>1. CASE u = NULL
    BY <2>1, <1>1 DEF PinnedId, SameThing
  <2>2. CASE u # NULL
    <3>1. PICK j \in 1..i - 1 : things[j] = u
      BY <1>1, <1>5, <2>2 DEF IInv, DrawingOK
    <3>2. /\ j \in 1..Len(things) /\ idtable'[j] = u
          /\ \A m \in 1..j - 1 : idtable'[m] # u
      BY <1>1, <1>2, <3>1 DEF IInv, DrawingOK
    <3>3. FirstIn(idtable', u) = IF idtable'[0] = u THEN 0 ELSE j
      BY <1>1, <1>2, <3>2, SearchFinds
    <3>. QED BY <1>1, <1>2, <2>2, <3>1, <3>2, <3>3 DEF PinnedId, SameThing
  <2>. QED BY <2>1, <2>2
<1>6. e \in Element
  BY <1>1, <1>5, SketchAssumption DEF Element
<1>7. /\ elements' \in Seq(Element) /\ Len(elements') = i
      /\ elements'[i] = e /\ \A m \in 1..i - 1 : elements'[m] = elements[m]
  BY <1>1, <1>3, <1>6 DEF IInv, TypeOK
<1>8. TypeOK'
  BY <1>1, <1>2, <1>4, <1>7 DEF IInv, TypeOK
<1>9. DrawingOK'
  BY <1>4 DEF IInv, DrawingOK
<1>10. SavedOK'
  <2> SUFFICES ASSUME NEW m \in 1..i PROVE Saved(m)'
    BY <1>7 DEF SavedOK
  <2>1. CASE m = i
    <3>1. CASE t \in Pins
      BY <1>1, <1>2, <1>4, <1>5, <1>7, <2>1, <3>1 DEF Saved, SameThing
    <3>2. CASE t \notin Pins
      BY <1>1, <1>2, <1>4, <1>7, <2>1, <3>2 DEF Saved
    <3>. QED BY <3>1, <3>2
  <2>2. CASE m # i
    <3>1. m \in 1..i - 1 /\ m \in 1..Len(elements)
      BY <1>1, <2>2 DEF IInv, TypeOK
    <3>2. Saved(m)
      BY <3>1 DEF IInv, SavedOK
    <3>3. /\ elements'[m] = elements[m] /\ things' = things /\ pinned' = pinned
          /\ idtable'[m] = things[m] /\ idtable'[0] = idtable[0]
      BY <1>2, <1>4, <1>7, <3>1
    <3>. QED BY <3>2, <3>3 DEF Saved, SameThing
  <2>. QED BY <2>1, <2>2
<1>11. LoadedOK'
  BY <1>2, <1>4 DEF IInv, LoadedOK, LoadedAs, SameThing
<1>12. Order'
  BY <1>4 DEF IInv, Order, SaveThing
<1>. QED BY <1>8, <1>9, <1>10, <1>11, <1>12 DEF IInv

\* A pass of the loop of load keeps it.
LEMMA LoadIInv == IInv /\ LoadElement => IInv'
<1> SUFFICES ASSUME IInv, LoadElement PROVE IInv'
  OBVIOUS
<1> DEFINE i == Len(loaded) + 1
           e == elements[i]
           new == [pin |-> e.pin, pinned |-> <<PointerTo(e.pinned[1]), PointerTo(e.pinned[2])>>]
<1>1. /\ i \in 1..Len(elements) /\ i \in 1..Len(things) /\ i \in 1..MAX_THINGS
      /\ e \in Element /\ things[i] \in Things /\ Len(elements) = Len(things)
  <2>1. /\ Len(loaded) \in Nat /\ Len(elements) \in Nat /\ Len(things) \in Nat
        /\ Len(elements) = Len(things) /\ Len(things) <= MAX_THINGS
    BY DEF IInv, TypeOK, DrawingOK, Order, LoadElement
  <2>2. i \in 1..Len(elements) /\ i \in 1..Len(things) /\ i \in 1..MAX_THINGS
    BY <2>1, SketchAssumption DEF LoadElement
  <2>. QED BY <2>1, <2>2 DEF IInv, TypeOK, DrawingOK
<1>2. /\ id_table' = [id_table EXCEPT ![e.id] = i]
      /\ loaded' = Append(loaded, new)
      /\ UNCHANGED <<things, pinned, at, idtable, elements>>
  BY DEF LoadElement, drawing
<1>3. /\ e.pin \in BOOLEAN /\ e.id \in 0..MAX_THINGS
      /\ \A k \in 1..2 : e.pinned[k] \in 0..MAX_THINGS
  BY <1>1 DEF Element
<1>4. \A k \in 1..2 : PointerTo(e.pinned[k]) \in 0..MAX_THINGS
  BY <1>3, SketchAssumption DEF IInv, TypeOK, PointerTo
<1>5. /\ loaded' \in Seq(Loaded) /\ Len(loaded') = i
      /\ loaded'[i] = new /\ \A m \in 1..i - 1 : loaded'[m] = loaded[m]
  <2>1. new \in Loaded
    BY <1>3, <1>4 DEF Loaded
  <2>. QED BY <1>1, <1>2, <2>1 DEF IInv, TypeOK
<1>6. ASSUME things[i] \in Pins, NEW k \in 1..2
      PROVE  SameThing(PointerTo(e.pinned[k]), pinned[things[i]][k])
  <2>1. /\ e.pinned[k] \in 0..i - 1
        /\ SameThing(e.pinned[k], pinned[things[i]][k])
    BY <1>1, <1>3, <1>6 DEF IInv, SavedOK, Saved
  <2>2. CASE e.pinned[k] = 0
    BY <2>1, <2>2 DEF PointerTo
  <2>3. CASE e.pinned[k] # 0
    <3>1. things[e.pinned[k]] \in Objects
      BY <1>1, <1>6, <2>1, <2>3, SketchAssumption DEF IInv, DrawingOK, SameThing
    <3>2. id_table[e.pinned[k]] = e.pinned[k]
      BY <1>1, <2>1, <2>3, <3>1 DEF IInv, LoadedOK, LoadedAs
    <3>. QED BY <2>1, <2>3, <3>2 DEF PointerTo
  <2>. QED BY <2>2, <2>3
<1>7. /\ e.pin <=> things[i] \in Pins
      /\ e.id = IF things[i] \in Pins THEN 0 ELSE i
  BY <1>1 DEF IInv, SavedOK, Saved
<1>8. TypeOK'
  BY <1>1, <1>2, <1>3, <1>5 DEF IInv, TypeOK
<1>9. DrawingOK'
  BY <1>2 DEF IInv, DrawingOK
<1>10. SavedOK'
  BY <1>2 DEF IInv, SavedOK, Saved, SameThing
<1>11. LoadedOK'
  <2> SUFFICES ASSUME NEW m \in 1..i PROVE LoadedAs(m)'
    BY <1>5 DEF LoadedOK
  <2>1. CASE m = i
    <3>1. things[i] \in Objects => id_table'[i] = i
      BY <1>1, <1>2, <1>3, <1>7, SketchAssumption DEF IInv, TypeOK
    <3>2. things[i] \in Pins => \A k \in 1..2 : SameThing(loaded'[i].pinned[k], pinned[things[i]][k])
      BY <1>5, <1>6
    <3>. QED BY <1>1, <1>2, <1>5, <1>7, <2>1, <3>1, <3>2 DEF LoadedAs, SameThing
  <2>2. CASE m # i
    BY <1>1, <1>2, <1>5, <1>7, <2>2 DEF IInv, TypeOK, LoadedOK, LoadedAs, SameThing
  <2>. QED BY <2>1, <2>2
<1>12. Order'
  BY <1>1, <1>2, <1>5 DEF IInv, Order, LoadElement
<1>. QED BY <1>8, <1>9, <1>10, <1>11, <1>12 DEF IInv

\* Saving and loading keep the invariant.
THEOREM SketchInvariant == Spec => []IInv
<1>1. Init => IInv
  BY InitIInv
<1>2. IInv /\ [Next]_vars => IInv'
  <2> SUFFICES ASSUME IInv, [Next]_vars PROVE IInv'
    OBVIOUS
  <2>1. CASE SaveThing
    BY <2>1, SaveIInv
  <2>2. CASE LoadElement
    BY <2>2, LoadIInv
  <2>3. CASE Store \/ PinWithoutType \/ LoadEnds
    <3>1. UNCHANGED <<things, pinned, idtable, id_table, elements, loaded>>
      BY <2>3 DEF Store, PinWithoutType, LoadEnds, drawing, tables
    <3>2. TypeOK' /\ DrawingOK' /\ SavedOK' /\ LoadedOK'
      BY <3>1 DEF IInv, TypeOK, DrawingOK, SavedOK, Saved, LoadedOK, LoadedAs, SameThing
    <3>3. Order'
      BY <2>3, <3>1 DEF IInv, Order, Store, PinWithoutType, LoadEnds
    <3>. QED BY <3>2, <3>3 DEF IInv
  <2>4. CASE UNCHANGED vars
    BY <2>4 DEF IInv, TypeOK, DrawingOK, SavedOK, Saved, LoadedOK, LoadedAs, Order, SameThing,
                vars, drawing, tables
  <2>. QED BY <2>1, <2>2, <2>3, <2>4 DEF Next, Ended
<1>. QED BY <1>1, <1>2, PTL DEF Spec

\* The tables and the file keep their types: no number exceeds the capacity.
THEOREM SketchTypeCorrect == Spec => []TypeOK
<1>1. IInv => TypeOK
  BY DEF IInv
<1>. QED BY <1>1, SketchInvariant, PTL

\* A pin's numbers are those of objects in front of it.
THEOREM SketchNumbersExist == Spec => []NumbersExist
<1>1. IInv => NumbersExist
  <2> SUFFICES ASSUME IInv, NEW i \in 1..Len(elements), NEW k \in 1..2,
                      elements[i].pinned[k] # 0
               PROVE  LET id == elements[i].pinned[k]
                      IN  id < i /\ ~ elements[id].pin /\ elements[id].id = id
    BY DEF NumbersExist
  <2> DEFINE id == elements[i].pinned[k]
  <2>1. /\ i \in Nat /\ i <= Len(things) /\ Len(elements) \in Nat /\ Len(things) \in Nat
        /\ elements[i] \in Element
    BY DEF IInv, TypeOK, DrawingOK
  <2>2. id \in 1..i - 1
    BY <2>1 DEF IInv, SavedOK, Saved, Element
  <2>3. SameThing(id, pinned[things[i]][k]) /\ things[i] \in Pins
    BY <2>1, <2>2 DEF IInv, SavedOK, Saved
  <2>4. things[id] \in Objects
    BY <2>1, <2>2, <2>3, SketchAssumption DEF IInv, DrawingOK, SameThing
  <2>5. id \in 1..Len(elements) /\ Saved(id)
    BY <2>1, <2>2 DEF IInv, SavedOK
  <2>6. things[id] \notin Pins
    BY <2>4, SketchAssumption
  <2>. QED BY <2>2, <2>5, <2>6 DEF Saved
<1>. QED BY <1>1, SketchInvariant, PTL

\* What save wrote, load turns into the same drawing, but for the pins whose
\* thing lies in idtable[0].
THEOREM SketchRoundTrip == Spec => []RoundTrip
<1>1. IInv => RoundTrip
  BY DEF IInv, Order, LoadedOK, LoadedAs, RoundTrip
<1>. QED BY <1>1, SketchInvariant, PTL
=============================================================================
