------------------------------- MODULE Scene -------------------------------
(***************************************************************************)
(* What class World promises to those who call it, without pointers, Box2D *)
(* or the order of an array: the drawing, the objects that do not take     *)
(* part in the simulation, and the rule that a pin holds exactly while all *)
(* the objects it is put through take part.  World implements this         *)
(* specification (World!SceneSpec).                                        *)
(***************************************************************************)
EXTENDS Naturals, FiniteSets

CONSTANTS Objects, Pins

VARIABLES
  drawn,    \* the objects and pins of the drawing
  tied,     \* the objects each pin is put through
  away,     \* drawn objects that are not simulated: unfinished, or fallen off
  holding,  \* the pins that hold their objects together
  defined   \* FALSE once the program's behaviour is undefined

svars == <<drawn, tied, away, holding, defined>>

Holding == {p \in Pins : tied[p] # {} /\ tied[p] \cap away = {}}
Follows == holding' = Holding' /\ defined /\ defined'

SInit ==
  /\ drawn = {} /\ tied = [p \in Pins |-> {}] /\ away = {} /\ holding = {}
  /\ defined = TRUE

\* A thing is begun; an object is simulated only when it is finished.
Draw(t) ==
  /\ t \notin drawn
  /\ drawn' = drawn \cup {t} /\ away' = away \cup ({t} \cap Objects)
  /\ tied' = tied
  /\ Follows

Finish(o) ==
  /\ o \in away
  /\ away' = away \ {o}
  /\ UNCHANGED <<drawn, tied>>
  /\ Follows

Tie(p, ts) ==
  /\ p \in drawn /\ tied[p] = {} /\ ts # {}
  /\ ts \subseteq drawn \ away
  /\ tied' = [tied EXCEPT ![p] = ts]
  /\ UNCHANGED <<drawn, away>>
  /\ Follows

\* Erasing an object takes the pins through it along.
Erase(t) ==
  LET D == {t} \cup {p \in Pins : t \in tied[p]}
  IN  /\ t \in drawn
      /\ drawn' = drawn \ D /\ away' = away \ D
      /\ tied' = [p \in Pins |-> IF p \in D THEN {} ELSE tied[p]]
      /\ Follows

\* Objects leave the world, and the reset brings back all but those of F.
Leave(M) ==
  /\ M \subseteq (drawn \cap Objects) \ away
  /\ away' = away \cup M
  /\ UNCHANGED <<drawn, tied>>
  /\ Follows

Restore(F) ==
  /\ F \subseteq drawn \cap Objects
  /\ away' = F
  /\ UNCHANGED <<drawn, tied>>
  /\ Follows

\* The drawing is replaced by another one, maybe an empty one.
Open ==
  /\ drawn' \subseteq Objects \cup Pins /\ away' = {}
  /\ tied' \in [Pins -> SUBSET (drawn' \cap Objects)]
  /\ \A p \in Pins : tied'[p] # {} <=> p \in drawn'
  /\ Follows

Fail == defined /\ ~ defined'

SNext ==
  \/ \E t \in Objects \cup Pins : Draw(t) \/ Erase(t)
  \/ \E o \in Objects : Finish(o)
  \/ \E p \in Pins, ts \in SUBSET Objects : Tie(p, ts)
  \/ \E M \in SUBSET Objects : Leave(M) \/ Restore(M)
  \/ Open
  \/ Fail

SSpec == SInit /\ [][SNext]_svars
=============================================================================
