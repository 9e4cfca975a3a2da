------------------------------- MODULE Sketch -------------------------------
(***************************************************************************)
(* What World::save writes and World::load makes of it                     *)
(* (src/source/world.cpp): two loops, over the things and over the XML     *)
(* elements of the sketch, that translate pointers to numbers and back by  *)
(* a table each.  A loaded thing is known by its place in the new array.   *)
(***************************************************************************)
EXTENDS Naturals, Sequences

CONSTANTS
  Objects,      \* addresses of polygons and circles
  Pins,         \* addresses of pins
  MAX_THINGS,
  NULL          \* also any word of memory that is not the address of a thing

Things == Objects \cup Pins

ASSUME SketchAssumption ==
  /\ Objects \cap Pins = {} /\ NULL \notin Things
  /\ MAX_THINGS \in Nat

VARIABLES
  things, pinned,   \* the array and Pin::thing1, thing2 when save was called
  at,               \* "saving", "loading", "loaded" or "crashed"
  idtable,          \* of save, in memory from malloc
  elements,         \* children of <world> in the file
  id_table,         \* of load, and the word behind it
  loaded            \* the new things

drawing == <<things, pinned>>
tables  == <<idtable, id_table>>
vars    == <<drawing, at, tables, elements, loaded>>

Element == [pin : BOOLEAN, id : 0..MAX_THINGS, pinned : (0..MAX_THINGS) \X (0..MAX_THINGS)]
Loaded  == [pin : BOOLEAN, pinned : (0..MAX_THINGS) \X (0..MAX_THINGS)]

(***************************************************************************)
(* The arrays that PinnedPrecede of World.tla allows.                      *)
(***************************************************************************)
Init ==
  /\ things \in UNION {[1..n -> Things] : n \in 0..MAX_THINGS}
  /\ \A i, k \in DOMAIN things : things[i] = things[k] => i = k
  /\ pinned \in [Pins -> (Objects \cup {NULL}) \X (Objects \cup {NULL})]
  /\ \A i \in DOMAIN things : things[i] \in Pins =>
       \A k \in 1..2 : \/ pinned[things[i]][k] = NULL
                       \/ \E j \in 1..i - 1 : things[j] = pinned[things[i]][k]
  /\ at = "saving"
  /\ idtable \in [0..Len(things) -> Things \cup {NULL}]
  /\ elements = <<>>
  /\ id_table = [i \in 0..MAX_THINGS |-> 0]
  /\ loaded = <<>>
-----------------------------------------------------------------------------
\* Where the search for t in the table starts from its first entry, finds it, ends.
FirstIn(table, t) ==
  CHOOSE k \in DOMAIN table : table[k] = t /\ \A m \in 0..k - 1 : table[m] # t

\* Seeded fault: the search starts behind the entry that it compares first.
PinnedIdNext(table, t) == IF t = NULL THEN 0 ELSE FirstIn(table, t) + 1

PinnedId(table, t) == IF t = NULL THEN 0 ELSE FirstIn(table, t)

\* Seeded fault: numbers start at 2.
SaveThingFromTwo ==
  /\ at = "saving" /\ Len(elements) < Len(things)
  /\ LET i == Len(elements) + 1
         t == things[i]
     IN  /\ idtable' = [idtable EXCEPT ![i] = t]
         /\ elements' =
              Append(elements,
                     IF t \in Pins
                     THEN [pin |-> TRUE, id |-> 0,
                           pinned |-> <<PinnedId(idtable', pinned[t][1]),
                                        PinnedId(idtable', pinned[t][2])>>]
                     ELSE [pin |-> FALSE, id |-> i + 1, pinned |-> <<0, 0>>])
  /\ UNCHANGED <<drawing, at, id_table, loaded>>

\* One pass of the loop of save
SaveThing ==
  /\ at = "saving" /\ Len(elements) < Len(things)
  /\ LET i == Len(elements) + 1
         t == things[i]
     IN  /\ idtable' = [idtable EXCEPT ![i] = t]
         /\ elements' =
              Append(elements,
                     IF t \in Pins
                     THEN [pin |-> TRUE, id |-> 0,
                           pinned |-> <<PinnedId(idtable', pinned[t][1]),
                                        PinnedId(idtable', pinned[t][2])>>]
                     ELSE [pin |-> FALSE, id |-> i, pinned |-> <<0, 0>>])
  /\ UNCHANGED <<drawing, at, id_table, loaded>>

\* doc.SaveFile, and later doc.LoadFile
Store ==
  /\ at = "saving" /\ Len(elements) = Len(things)
  /\ at' = "loading"
  /\ UNCHANGED <<drawing, tables, elements, loaded>>

\* The pointer for the number id; 0 is the background.
PointerTo(id) == IF id = 0 THEN 0 ELSE id_table[id]

\* Seeded fault: the table is filled by position from 0, as the array is.
LoadElementFromZero ==
  /\ at = "loading" /\ Len(loaded) < Len(elements)
  /\ LET e == elements[Len(loaded) + 1]
     IN  /\ id_table' = [id_table EXCEPT ![IF e.id = 0 THEN 0 ELSE e.id - 1] = Len(loaded) + 1]
         /\ loaded' = Append(loaded, [pin    |-> e.pin,
                                      pinned |-> <<PointerTo(e.pinned[1]), PointerTo(e.pinned[2])>>])
  /\ UNCHANGED <<drawing, at, idtable, elements>>

(***************************************************************************)
(* One pass of the loop of load.  A pin has no attribute id and enters the *)
(* table at 0.                                                             *)
(***************************************************************************)
LoadElement ==
  /\ at = "loading" /\ Len(loaded) < Len(elements)
  /\ LET e == elements[Len(loaded) + 1]
     IN  /\ id_table' = [id_table EXCEPT ![e.id] = Len(loaded) + 1]
         /\ loaded' = Append(loaded, [pin    |-> e.pin,
                                      pinned |-> <<PointerTo(e.pinned[1]), PointerTo(e.pinned[2])>>])
  /\ UNCHANGED <<drawing, at, idtable, elements>>

\* The constructor of a thing compares the attribute type, which a pin has not:
\* where address 0 cannot be read this is the end.
PinWithoutType ==
  /\ at = "loading" /\ Len(loaded) < Len(elements)
  /\ elements[Len(loaded) + 1].pin
  /\ at' = "crashed"
  /\ UNCHANGED <<drawing, tables, elements, loaded>>

LoadEnds ==
  /\ at = "loading" /\ Len(loaded) = Len(elements)
  /\ at' = "loaded"
  /\ UNCHANGED <<drawing, tables, elements, loaded>>

Ended == at \in {"loaded", "crashed"} /\ UNCHANGED vars

Next == SaveThing \/ Store \/ LoadElement \/ PinWithoutType \/ LoadEnds \/ Ended

Spec == Init /\ [][Next]_vars
-----------------------------------------------------------------------------
(***************************************************************************)
(* Numbers in a sketch are numbers of its things: the search ends in its   *)
(* table, and load looks up only entries that it has filled.               *)
(***************************************************************************)
TypeOK ==
  /\ elements \in Seq(Element) /\ loaded \in Seq(Loaded)
  /\ Len(elements) <= Len(things) /\ Len(loaded) <= Len(elements)
  /\ idtable \in [0..Len(things) -> Things \cup {NULL}]
  /\ id_table \in [0..MAX_THINGS -> 0..MAX_THINGS]

NumbersExist ==
  \A i \in 1..Len(elements) : \A k \in 1..2 :
    LET id == elements[i].pinned[k]
    IN  id # 0 => id < i /\ ~ elements[id].pin /\ elements[id].id = id

(***************************************************************************)
(* What was saved is loaded: as many things, pins for pins, put through    *)
(* the same things.  One exception: save never writes idtable[0], and a    *)
(* pin through the thing whose address lies there is put through the       *)
(* background instead.                                                     *)
(***************************************************************************)
SameThing(place, t) ==
  \/ place = 0 /\ t \in {NULL, idtable[0]}
  \/ place > 0 /\ things[place] = t

RoundTrip ==
  at = "loaded" =>
    /\ Len(loaded) = Len(things)
    /\ \A i \in 1..Len(loaded) :
         /\ loaded[i].pin <=> things[i] \in Pins
         /\ things[i] \in Pins => \A k \in 1..2 : SameThing(loaded[i].pinned[k], pinned[things[i]][k])
-----------------------------------------------------------------------------
(***************************************************************************)
(* What the program does not live up to: load has an entry in its table    *)
(* for every number that save gives, also for the last thing of a full     *)
(* array.                                                                  *)
(***************************************************************************)
IdTableHolds == at = "loading" => \A i \in 1..Len(elements) : elements[i].id < MAX_THINGS
=============================================================================
