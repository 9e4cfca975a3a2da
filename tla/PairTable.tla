------------------------------ MODULE PairTable ------------------------------
(***************************************************************************)
(* b2PairManager: the pairs of proxies whose boxes overlap, in a hash      *)
(* table of chains through the array m_pairs, and the buffer of the pairs  *)
(* that the next Commit has to confirm or remove.                          *)
(*                                                                         *)
(* A table is a record; the operators return the table after the call.     *)
(***************************************************************************)
EXTENDS Integers, Sequences, SequencesExt, FiniteSetsExt

CONSTANTS NumPairs,       \* b2_maxPairs
          TableCapacity,  \* b2_tableCapacity
          Hash(_)         \* of a pair of proxies

ASSUME PairAssumption == NumPairs \in Nat \ {0} /\ TableCapacity \in Nat \ {0}

NullPair    == NumPairs
NullContact == {}          \* a pair that is not to collide has m_nullContact

\* A slot of m_pairs that is not in use; n follows it in the free list.
Scrubbed(n) == [ids |-> {}, buffered |-> FALSE, removed |-> FALSE, final |-> FALSE,
                contact |-> NullContact, next |-> n]

\* The constructor: NullPair is the number behind the last slot.
NewTable == [pairs |-> [i \in 0..(NumPairs - 1) |-> Scrubbed(i + 1)],
             table |-> [h \in 0..(TableCapacity - 1) |-> NullPair],
             free |-> 0, buffer |-> <<>>]

\* The slots of the list that starts with i, in order.
Links(m, i) ==
  LET at[k \in 0..NumPairs] ==
        IF k = 0 THEN i
        ELSE IF at[k - 1] = NullPair THEN NullPair ELSE m.pairs[at[k - 1]].next
  IN  SelectSeq([k \in 1..(NumPairs + 1) |-> at[k - 1]], LAMBDA j : j # NullPair)

Chain(m, ids)  == Links(m, m.table[Hash(ids)])
Hits(m, ids, chain)  == {k \in DOMAIN chain : m.pairs[chain[k]].ids = ids}
First(m, ids, chain) == IF Hits(m, ids, chain) = {} THEN NullPair
                        ELSE chain[Min(Hits(m, ids, chain))]
Find(m, ids)   == First(m, ids, Chain(m, ids))

AddPair(m, ids) ==
  IF Find(m, ids) # NullPair THEN m
  ELSE [m EXCEPT !.free  = m.pairs[m.free].next,
                 !.pairs = [@ EXCEPT ![m.free] =
                              [Scrubbed(m.table[Hash(ids)]) EXCEPT !.ids = ids]],
                 !.table = [@ EXCEPT ![Hash(ids)] = m.free]]

\* Seeded fault: the slot is scrubbed before its successor is read.
RemovePairScrubbed(m, ids) ==
  LET i == Find(m, ids)
      scrubbed == [m EXCEPT !.pairs[i] = Scrubbed(m.free), !.free = i]
  IN  [scrubbed EXCEPT !.table = [h \in DOMAIN @ |-> IF @[h] = i THEN m.free ELSE @[h]]]

Unlinked(m, ids, chain, k) ==
  IF k = 1 THEN [m EXCEPT !.table = [@ EXCEPT ![Hash(ids)] = m.pairs[chain[1]].next]]
           ELSE [m EXCEPT !.pairs[chain[k - 1]].next = m.pairs[chain[k]].next]

Freed(m, i) == [m EXCEPT !.pairs = [@ EXCEPT ![i] = Scrubbed(m.free)], !.free = i]

RemoveHit(m, ids, chain, k) == Freed(Unlinked(m, ids, chain, k), chain[k])
RemoveFrom(m, ids, chain)   == RemoveHit(m, ids, chain, Min(Hits(m, ids, chain)))

\* The pair must exist.
RemovePair(m, ids) == RemoveFrom(m, ids, Chain(m, ids))

Buffered(m, i) ==
  IF m.pairs[i].buffered THEN m
  ELSE [m EXCEPT !.pairs[i].buffered = TRUE, !.buffer = Append(@, m.pairs[i].ids)]

Kept(m, i) == [Buffered(m, i) EXCEPT !.pairs[i].removed = FALSE]
KeptPair(m, ids) == Kept(m, Find(m, ids))
AddBufferedPair(m, ids) == KeptPair(AddPair(m, ids), ids)

\* Seeded fault: only a pair that was confirmed can be taken back.
TakenFinal(m, i) ==
  IF i = NullPair THEN m
  ELSE IF ~m.pairs[i].final THEN m
  ELSE [Buffered(m, i) EXCEPT !.pairs[i].removed = TRUE]

Taken(m, i) ==
  IF i = NullPair THEN m ELSE [Buffered(m, i) EXCEPT !.pairs[i].removed = TRUE]

RemoveBufferedPair(m, ids) == Taken(m, Find(m, ids))

(***************************************************************************)
(* The pass over the buffer calls PairAdded and PairRemoved; a contact is  *)
(* the set of its two shapes, and c.unwanted are those PairAdded refuses.  *)
(* A pair that is marked removed leaves the table after the pass.          *)
(***************************************************************************)
ConfirmAt(c, ids, i) ==
  LET p     == c.m.pairs[i]
      pair  == {c.user[q] : q \in ids}
      given == IF pair \in c.unwanted THEN NullContact ELSE pair
      clear == [c EXCEPT !.m.pairs[i].buffered = FALSE]
  IN  IF p.removed
      THEN [clear EXCEPT !.contacts = IF p.final THEN @ \ {p.contact} ELSE @,
                         !.gone = Append(@, ids)]
      ELSE IF p.final THEN clear
      ELSE [clear EXCEPT !.m.pairs[i].final = TRUE, !.m.pairs[i].contact = given,
                         !.contacts = IF given = NullContact THEN @ ELSE @ \cup {given}]

Confirm(c, ids) == ConfirmAt(c, ids, Find(c.m, ids))

Confirmed(c) == [m |-> FoldLeft(RemovePair, c.m, c.gone), contacts |-> c.contacts]

CommitPairs(m, contacts, user, unwanted) ==
  Confirmed(FoldLeft(Confirm, [m |-> [m EXCEPT !.buffer = <<>>], contacts |-> contacts,
                               user |-> user, unwanted |-> unwanted, gone |-> <<>>],
                     m.buffer))

InUse(m) == {i \in DOMAIN m.pairs : m.pairs[i].ids # {}}
FinalPairs(m) == {m.pairs[i].ids : i \in {j \in InUse(m) : m.pairs[j].final}}
=============================================================================
