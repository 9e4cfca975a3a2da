-------------------------- MODULE DiscCache_proofs --------------------------
(***************************************************************************)
(* What the cache shows to its readers, for any number of pages, sectors   *)
(* and contents.                                                           *)
(*                                                                         *)
(* Whole sectors are written past the cache (fatfile.c), and may leave a   *)
(* stale page behind.  So nothing is said of all sectors at once: a sector *)
(* is UpToDate when no clean page differs from the card, and that sector   *)
(* is what the theorems follow.                                            *)
(***************************************************************************)
EXTENDS DiscCache, WellFoundedInduction, TLAPS

Page(S, B)     == [sector : S \cup {CacheFree}, count : Nat, dirty : BOOLEAN, bytes : B]
Work(S, B, F)  == [disc : [S -> B], cache : [1..NumberOfPages -> Page(S, B)],
                   firstFree : F, passed : SUBSET [S -> B]]

\* No sector is in two pages, and a free page has nothing to write.
OnePage(cache) ==
  \A i, k \in DOMAIN cache :
    (cache[i].sector = cache[k].sector /\ cache[i].sector # CacheFree) => i = k
FreeIsClean(cache) ==
  \A i \in DOMAIN cache : cache[i].sector = CacheFree => ~ cache[i].dirty

Sound(w, S, B, F) ==
  /\ CacheFree \notin S /\ w \in Work(S, B, F)
  /\ OnePage(w.cache) /\ FreeIsClean(w.cache)

UpToDate(w, s) ==
  \A i \in PagesOf(w.cache, s) : w.cache[i].dirty \/ w.cache[i].bytes = w.disc[s]

\* Readers of the sector s see after a call what they saw before it.
Undisturbed(w, v, s) == UpToDate(w, s) => UpToDate(v, s) /\ View(v, s) = View(w, s)

\* Whenever power goes, a sector of the card is as it was, or as its readers
\* saw it: no third content ever reaches the card.
OldOrSeen(w, v) ==
  \A d \in v.passed \ w.passed, s \in DOMAIN w.disc : d[s] \in {w.disc[s], View(w, s)}

-----------------------------------------------------------------------------
(***************************************************************************)
(* The page to give up.                                                    *)
(***************************************************************************)
LEMMA NatMin ==
  ASSUME NEW T \in SUBSET Nat, T # {}
  PROVE  \E x \in T : \A y \in T : x <= y
<1> DEFINE R == OpToRel(<, Nat)
<1>1. IsWellFoundedOn(R, Nat)
  BY NatLessThanWellFounded
<1>2. PICK x \in T : \A y \in T : ~ (<<y, x>> \in R)
  <2> HIDE DEF R
  <2> QED BY <1>1, WFMin
<1>3. \A y \in T : x <= y
  <2>1. TAKE y \in T
  <2>2. x \in Nat /\ y \in Nat
    OBVIOUS
  <2>3. <<y, x>> \in R <=> y < x
    BY <2>2 DEF OpToRel
  <2>4. ~ (y < x)
    BY <1>2, <2>3
  <2>5. QED BY <2>2, <2>4
<1>4. QED BY <1>3

\* A page can always be given up.
LEMMA LeastUsedIsPage ==
  ASSUME NEW cache, DOMAIN cache = 1..NumberOfPages,
         \A i \in DOMAIN cache : cache[i].count \in Nat
  PROVE  LeastUsed(cache) \in DOMAIN cache
<1>0. NumberOfPages \in Nat /\ 1 \in DOMAIN cache
  BY PagesAssumption
<1>1. CASE FreePages(cache) # {}
  <2> DEFINE T == {NumberOfPages - i : i \in FreePages(cache)}
  <2>1. FreePages(cache) \subseteq 1..NumberOfPages
    BY DEF FreePages, PagesOf
  <2>2. T \in SUBSET Nat /\ T # {}
    BY <1>0, <1>1, <2>1
  <2>3. PICK x \in T : \A y \in T : x <= y
    BY <2>2, NatMin
  <2>4. PICK m \in FreePages(cache) : x = NumberOfPages - m
    BY <2>3
  <2>5. \A i \in FreePages(cache) : m >= i
    <3>1. TAKE i \in FreePages(cache)
    <3>2. m \in Nat /\ i \in Nat
      BY <2>1
    <3>3. NumberOfPages - m <= NumberOfPages - i
      BY <2>3, <2>4
    <3>4. QED BY <1>0, <3>2, <3>3
  <2>6. Max(FreePages(cache)) \in FreePages(cache)
    BY <2>5 DEF Max
  <2>7. QED BY <1>1, <2>6 DEF LeastUsed, FreePages, PagesOf
<1>2. CASE FreePages(cache) = {}
  <2> DEFINE C == {cache[i].count : i \in DOMAIN cache}
           L == LeastPages(cache)
  <2>1. PICK x \in C : \A y \in C : x <= y
    BY <1>0, NatMin
  <2>2. PICK i \in DOMAIN cache : x = cache[i].count
    BY <2>1
  <2>3. i \in L
    BY <2>1, <2>2 DEF LeastPages
  <2>4. L \in SUBSET Nat /\ L # {}
    BY <1>0, <2>3 DEF LeastPages
  <2>5. \E m \in L : \A y \in L : m <= y
    BY <2>4, NatMin
  <2>6. Min(L) \in L
    BY <2>5 DEF Min
  <2>7. QED BY <1>2, <2>6 DEF LeastUsed, LeastPages
<1>3. QED BY <1>1, <1>2

-----------------------------------------------------------------------------
(***************************************************************************)
(* The operations.                                                         *)
(***************************************************************************)
LEMMA PageFound ==
  ASSUME NEW S, NEW B, NEW F, NEW w, Sound(w, S, B, F),
         NEW i \in 1..NumberOfPages, w.cache[i].sector \in S
  PROVE  /\ PagesOf(w.cache, w.cache[i].sector) = {i}
         /\ PageOf(w.cache, w.cache[i].sector) = i
<1>1. DOMAIN w.cache = 1..NumberOfPages
  BY DEF Sound, Work
<1>2. PagesOf(w.cache, w.cache[i].sector) = {i}
  BY <1>1 DEF Sound, OnePage, PagesOf
<1>3. QED BY <1>2 DEF PageOf

\* A sector has one page, which readers see, or none: then they see the card.
LEMMA ViewOf ==
  ASSUME NEW S, NEW B, NEW F, NEW w, Sound(w, S, B, F), NEW s \in S
  PROVE  \/ /\ \A i \in 1..NumberOfPages : w.cache[i].sector # s
            /\ PagesOf(w.cache, s) = {} /\ View(w, s) = w.disc[s]
         \/ \E i \in 1..NumberOfPages :
              /\ w.cache[i].sector = s /\ PagesOf(w.cache, s) = {i}
              /\ PageOf(w.cache, s) = i /\ View(w, s) = w.cache[i].bytes
<1>1. DOMAIN w.cache = 1..NumberOfPages
  BY DEF Sound, Work
<1>2. CASE \E i \in 1..NumberOfPages : w.cache[i].sector = s
  <2>1. PICK i \in 1..NumberOfPages : w.cache[i].sector = s
    BY <1>2
  <2>2. PagesOf(w.cache, s) = {i} /\ PageOf(w.cache, s) = i
    BY <2>1, PageFound
  <2>3. View(w, s) = w.cache[i].bytes
    BY <2>2 DEF View, Bytes
  <2>4. QED BY <2>1, <2>2, <2>3
<1>3. CASE \A i \in 1..NumberOfPages : w.cache[i].sector # s
  <2>1. PagesOf(w.cache, s) = {}
    BY <1>1, <1>3 DEF PagesOf
  <2>2. QED BY <1>3, <2>1 DEF View
<1>4. QED BY <1>2, <1>3

\* Writing a page back changes nothing for readers, and the card only where
\* the page was dirty.
LEMMA WriteBackFacts ==
  ASSUME NEW S, NEW B, NEW F, NEW w, Sound(w, S, B, F), NEW i \in 1..NumberOfPages
  PROVE  LET v == WriteBack(w, i)
         IN  /\ v \in Work(S, B, F) /\ v.cache = w.cache
             /\ w.cache[i].dirty => v.disc[w.cache[i].sector] = w.cache[i].bytes
             /\ \A s \in S : s # w.cache[i].sector \/ ~ w.cache[i].dirty => v.disc[s] = w.disc[s]
             /\ v.passed \subseteq w.passed \cup {v.disc}
             /\ \A s \in S : v.disc[s] \in {w.disc[s], View(w, s)}
<1> DEFINE v == WriteBack(w, i)
           p == w.cache[i]
<1>0. /\ w \in Work(S, B, F) /\ p \in Page(S, B)
      /\ p.dirty => p.sector \in S
  BY DEF Sound, Work, Page, FreeIsClean
<1>1. CASE ~ p.dirty
  <2>1. v = w
    BY <1>1 DEF WriteBack
  <2>2. QED BY <1>0, <1>1, <2>1
<1>2. CASE p.dirty
  <2> DEFINE d == [w.disc EXCEPT ![p.sector] = p.bytes]
  <2>1. v = [w EXCEPT !.disc = d, !.passed = @ \cup {d}]
    BY <1>2 DEF WriteBack, WriteSector
  <2>2. d \in [S -> B] /\ p.sector \in S
    BY <1>0, <1>2 DEF Work, Page
  <2>3. v \in Work(S, B, F) /\ v.cache = w.cache /\ v.disc = d /\ v.passed = w.passed \cup {d}
    BY <1>0, <2>1, <2>2 DEF Work
  <2>4. d[p.sector] = p.bytes /\ \A s \in S : s # p.sector => d[s] = w.disc[s]
    BY <1>0, <2>2 DEF Work
  <2>5. View(w, p.sector) = p.bytes
    BY <2>2, PageFound DEF View, Bytes
  <2>6. QED BY <1>2, <2>3, <2>4, <2>5
<1>3. QED BY <1>0, <1>1, <1>2 DEF Page

\* A page is given up: its sector is written if it was dirty, the new one is
\* loaded as it is on the card.
LEMMA ReplaceTransparent ==
  ASSUME NEW S, NEW B, NEW F, NEW w, Sound(w, S, B, F),
         NEW i \in 1..NumberOfPages, NEW s \in S, PagesOf(w.cache, s) = {}
  PROVE  LET v == Replace(w, i, s)
         IN  /\ Sound(v, S, B, F) /\ PagesOf(v.cache, s) = {i}
             /\ \A t \in S : Undisturbed(w, v, t)
             /\ OldOrSeen(w, v)
<1> DEFINE b == WriteBack(w, i)
           v == Replace(w, i, s)
           q == [sector |-> s, count |-> w.cache[i].count + 1, dirty |-> FALSE,
                 bytes |-> w.disc[s]]
<1>0. /\ w \in Work(S, B, F) /\ CacheFree \notin S
      /\ DOMAIN w.cache = 1..NumberOfPages /\ w.cache[i] \in Page(S, B)
  BY DEF Sound, Work
<1>1. /\ b \in Work(S, B, F) /\ b.cache = w.cache
      /\ w.cache[i].dirty => b.disc[w.cache[i].sector] = w.cache[i].bytes
      /\ \A t \in S : t # w.cache[i].sector \/ ~ w.cache[i].dirty => b.disc[t] = w.disc[t]
      /\ b.passed \subseteq w.passed \cup {b.disc}
      /\ \A t \in S : b.disc[t] \in {w.disc[t], View(w, t)}
  BY WriteBackFacts
<1>2. q \in Page(S, B) /\ q.sector = s /\ ~ q.dirty /\ q.bytes = w.disc[s]
  BY <1>0 DEF Page, Work
<1>3. v = [b EXCEPT !.cache = [w.cache EXCEPT ![i] = q]]
  <2>1. v = [b EXCEPT !.cache[i] = [sector |-> s, count |-> b.cache[i].count + 1,
                                    dirty |-> FALSE, bytes |-> w.disc[s]]]
    BY DEF Replace
  <2>2. QED BY <1>1, <2>1
<1>4. /\ v \in Work(S, B, F) /\ v.disc = b.disc /\ v.passed = b.passed
      /\ v.cache = [w.cache EXCEPT ![i] = q]
  <2> HIDE DEF b, q, v
  <2> QED BY <1>0, <1>1, <1>2, <1>3 DEF Work
<1>5. /\ DOMAIN v.cache = 1..NumberOfPages /\ v.cache[i] = q
      /\ \A k \in 1..NumberOfPages : k # i => v.cache[k] = w.cache[k]
  BY <1>0, <1>4
<1>6. \A k \in 1..NumberOfPages : w.cache[k].sector # s
  BY <1>0 DEF PagesOf
<1>7. PagesOf(v.cache, s) = {i}
  BY <1>2, <1>5, <1>6 DEF PagesOf
<1>8. Sound(v, S, B, F)
  <2>1. OnePage(v.cache)
    BY <1>0, <1>2, <1>5, <1>6 DEF OnePage, Sound
  <2>2. FreeIsClean(v.cache)
    BY <1>0, <1>2, <1>5 DEF FreeIsClean, Sound
  <2>3. QED BY <1>0, <1>4, <2>1, <2>2 DEF Sound
<1>9. ASSUME NEW t \in S, UpToDate(w, t)
      PROVE  UpToDate(v, t) /\ View(v, t) = View(w, t)
  <2>1. CASE t = s
    <3>1. View(w, t) = w.disc[s]
      BY <2>1 DEF View
    <3>2. View(v, t) = q.bytes
      BY <1>2, <1>5, <1>7, <1>8, <2>1, PageFound DEF View, Bytes
    <3>3. v.disc[s] = w.disc[s]
      BY <1>1, <1>4, <1>6
    <3>4. UpToDate(v, t)
      BY <1>2, <1>5, <1>7, <2>1, <3>3 DEF UpToDate
    <3>5. QED BY <1>2, <3>1, <3>2, <3>4
  <2>2. CASE t # s /\ w.cache[i].sector = t
    <3>1. PagesOf(w.cache, t) = {i} /\ View(w, t) = w.cache[i].bytes
      BY <2>2, PageFound DEF View, Bytes
    <3>2. PagesOf(v.cache, t) = {}
      BY <1>0, <1>2, <1>5, <2>2, <3>1 DEF PagesOf
    <3>3. View(v, t) = v.disc[t] /\ UpToDate(v, t)
      BY <3>2 DEF View, UpToDate
    <3>4. v.disc[t] = w.cache[i].bytes
      BY <1>0, <1>1, <1>4, <1>9, <2>2, <3>1 DEF UpToDate
    <3>5. QED BY <3>1, <3>3, <3>4
  <2>3. CASE t # s /\ w.cache[i].sector # t
    <3>1. v.disc[t] = w.disc[t]
      BY <1>1, <1>4, <2>3
    <3>2. /\ PagesOf(v.cache, t) = PagesOf(w.cache, t)
          /\ \A k \in PagesOf(w.cache, t) : v.cache[k] = w.cache[k]
      BY <1>0, <1>2, <1>5, <2>3 DEF PagesOf
    <3>3. UpToDate(v, t)
      BY <1>9, <3>1, <3>2 DEF UpToDate
    <3>4. View(v, t) = View(w, t)
      <4>1. CASE PagesOf(w.cache, t) = {}
        BY <3>1, <3>2, <4>1 DEF View
      <4>2. CASE PagesOf(w.cache, t) # {}
        <5>1. PageOf(w.cache, t) \in PagesOf(w.cache, t) /\ PageOf(v.cache, t) = PageOf(w.cache, t)
          BY <3>2, <4>2 DEF PageOf
        <5>2. QED BY <3>2, <4>2, <5>1 DEF View, Bytes
      <4>3. QED BY <4>1, <4>2
    <3>5. QED BY <3>3, <3>4
  <2>4. QED BY <2>1, <2>2, <2>3
<1>10. OldOrSeen(w, v)
  <2>1. DOMAIN w.disc = S
    BY <1>0 DEF Work
  <2>2. \A d \in v.passed \ w.passed : d = b.disc
    BY <1>1, <1>4
  <2>3. QED BY <1>1, <2>1, <2>2 DEF OldOrSeen
<1>11. QED BY <1>7, <1>8, <1>9, <1>10 DEF Undisturbed

-----------------------------------------------------------------------------
\* Reading a sector gives it a page and changes nothing for any reader, of
\* whatever sector, whichever page is given up for it; the card only gets
\* what its readers saw already.
THEOREM GetSectorTransparent ==
  ASSUME NEW S, NEW B, NEW F, NEW w, Sound(w, S, B, F), NEW s \in S
  PROVE  LET v == GetSector(w, s)
         IN  /\ Sound(v, S, B, F) /\ PagesOf(v.cache, s) # {}
             /\ \A t \in S : Undisturbed(w, v, t)
             /\ OldOrSeen(w, v)
<1> DEFINE v == GetSector(w, s)
<1>0. /\ w \in Work(S, B, F) /\ DOMAIN w.cache = 1..NumberOfPages
      /\ \A i \in 1..NumberOfPages : w.cache[i] \in Page(S, B) /\ w.cache[i].count \in Nat
  BY DEF Sound, Work, Page
<1>1. CASE PagesOf(w.cache, s) = {}
  <2>1. LeastUsed(w.cache) \in 1..NumberOfPages
    BY <1>0, LeastUsedIsPage
  <2>2. v = Replace(w, LeastUsed(w.cache), s)
    BY <1>1 DEF GetSector
  <2>3. QED BY <1>1, <2>1, <2>2, ReplaceTransparent
<1>2. CASE PagesOf(w.cache, s) # {}
  <2>1. PICK i \in 1..NumberOfPages : w.cache[i].sector = s /\ PageOf(w.cache, s) = i
    BY <1>2, ViewOf
  <2> DEFINE q == [w.cache[i] EXCEPT !.count = @ + 1]
  <2>2. /\ q \in Page(S, B) /\ q.sector = w.cache[i].sector
        /\ q.dirty = w.cache[i].dirty /\ q.bytes = w.cache[i].bytes
    BY <1>0 DEF Page
  <2>3. v = [w EXCEPT !.cache = [w.cache EXCEPT ![i] = q]]
    BY <1>2, <2>1 DEF GetSector, Counted
  <2>4. /\ v \in Work(S, B, F) /\ v.disc = w.disc /\ v.passed = w.passed
        /\ v.cache = [w.cache EXCEPT ![i] = q]
    <3> HIDE DEF q, v
    <3> QED BY <1>0, <2>2, <2>3 DEF Work
  <2>5. /\ DOMAIN v.cache = 1..NumberOfPages
        /\ \A k \in 1..NumberOfPages :
             /\ v.cache[k].sector = w.cache[k].sector
             /\ v.cache[k].dirty = w.cache[k].dirty /\ v.cache[k].bytes = w.cache[k].bytes
    <3> HIDE DEF q, v
    <3> QED BY <1>0, <2>2, <2>4
  <2>6. Sound(v, S, B, F)
    <3> HIDE DEF q, v
    <3>1. OnePage(v.cache)
      BY <1>0, <2>5 DEF Sound, OnePage
    <3>2. FreeIsClean(v.cache)
      BY <1>0, <2>5 DEF Sound, FreeIsClean
    <3>3. QED BY <2>4, <3>1, <3>2 DEF Sound
  <2>7. \A t \in S : PagesOf(v.cache, t) = PagesOf(w.cache, t)
    BY <1>0, <2>5 DEF PagesOf
  <2>8. \A t \in S : UpToDate(v, t) <=> UpToDate(w, t)
    BY <1>0, <2>4, <2>5, <2>7 DEF UpToDate, PagesOf
  <2>9. ASSUME NEW t \in S PROVE View(v, t) = View(w, t)
    <3>1. CASE PagesOf(w.cache, t) = {}
      BY <2>4, <2>7, <3>1 DEF View
    <3>2. CASE PagesOf(w.cache, t) # {}
      <4>1. /\ PageOf(w.cache, t) \in 1..NumberOfPages
            /\ PageOf(v.cache, t) = PageOf(w.cache, t)
        BY <1>0, <2>7, <3>2 DEF PageOf, PagesOf
      <4>2. QED BY <2>5, <2>7, <3>2, <4>1 DEF View, Bytes
    <3>3. QED BY <3>1, <3>2
  <2>10. QED BY <1>2, <2>4, <2>6, <2>7, <2>8, <2>9 DEF Undisturbed, OldOrSeen
<1>3. QED BY <1>1, <1>2

\* Writing part of a sector shows what was written to its readers and changes
\* nothing for the others; the card may still hold what the sector was.
THEOREM WriteTransparent ==
  ASSUME NEW S, NEW B, NEW F, NEW w, Sound(w, S, B, F), NEW s \in S, NEW bytes \in B
  PROVE  LET v == WritePartialSector(w, s, bytes)
         IN  /\ Sound(v, S, B, F)
             /\ UpToDate(v, s) /\ View(v, s) = bytes
             /\ \A t \in S \ {s} : Undisturbed(w, v, t)
             /\ OldOrSeen(w, v)
<1> DEFINE g == GetSector(w, s)
           v == WritePartialSector(w, s, bytes)
<1>1. /\ Sound(g, S, B, F) /\ PagesOf(g.cache, s) # {}
      /\ \A t \in S : Undisturbed(w, g, t)
      /\ OldOrSeen(w, g)
  BY GetSectorTransparent
<1>2. PICK i \in 1..NumberOfPages : g.cache[i].sector = s /\ PageOf(g.cache, s) = i
  BY <1>1, ViewOf
<1> DEFINE q == [g.cache[i] EXCEPT !.bytes = bytes, !.dirty = TRUE]
<1>3. /\ g \in Work(S, B, F) /\ DOMAIN g.cache = 1..NumberOfPages
      /\ \A k \in 1..NumberOfPages : g.cache[k] \in Page(S, B)
  BY <1>1 DEF Sound, Work
<1>4. /\ q \in Page(S, B) /\ q.sector = s /\ q.dirty /\ q.bytes = bytes
  BY <1>2, <1>3 DEF Page
<1>5. v = [g EXCEPT !.cache = [g.cache EXCEPT ![i] = q]]
  <2>1. v = [g EXCEPT !.cache[i].bytes = bytes, !.cache[i].dirty = TRUE]
    BY <1>2 DEF WritePartialSector, SetBytes, Dirtied
  <2>2. QED BY <1>3, <2>1 DEF Work, Page
<1> HIDE DEF g, v, q
<1>6. /\ v \in Work(S, B, F) /\ v.disc = g.disc /\ v.passed = g.passed
      /\ v.cache = [g.cache EXCEPT ![i] = q]
  BY <1>3, <1>4, <1>5 DEF Work
<1>7. /\ DOMAIN v.cache = 1..NumberOfPages /\ v.cache[i] = q
      /\ \A k \in 1..NumberOfPages : k # i => v.cache[k] = g.cache[k]
      /\ \A k \in 1..NumberOfPages : v.cache[k].sector = g.cache[k].sector
  BY <1>2, <1>3, <1>4, <1>6
<1>8. Sound(v, S, B, F)
  <2>1. OnePage(v.cache)
    BY <1>1, <1>3, <1>7 DEF Sound, OnePage
  <2>2. FreeIsClean(v.cache)
    BY <1>1, <1>2, <1>3, <1>7 DEF Sound, FreeIsClean
  <2>3. QED BY <1>1, <1>6, <2>1, <2>2 DEF Sound
<1>9. UpToDate(v, s) /\ View(v, s) = bytes
  <2>1. PagesOf(v.cache, s) = {i} /\ PageOf(v.cache, s) = i
    BY <1>2, <1>7, <1>8, PageFound
  <2>2. QED BY <1>4, <1>7, <2>1 DEF UpToDate, View, Bytes
<1>10. ASSUME NEW t \in S \ {s} PROVE Undisturbed(g, v, t)
  <2>1. /\ PagesOf(v.cache, t) = PagesOf(g.cache, t)
        /\ \A k \in PagesOf(g.cache, t) : v.cache[k] = g.cache[k]
    BY <1>2, <1>3, <1>7 DEF PagesOf
  <2>2. UpToDate(v, t) <=> UpToDate(g, t)
    BY <1>6, <2>1 DEF UpToDate
  <2>3. View(v, t) = View(g, t)
    <3>1. CASE PagesOf(g.cache, t) = {}
      BY <1>6, <2>1, <3>1 DEF View
    <3>2. CASE PagesOf(g.cache, t) # {}
      <4>1. PageOf(g.cache, t) \in PagesOf(g.cache, t) /\ PageOf(v.cache, t) = PageOf(g.cache, t)
        BY <2>1, <3>2 DEF PageOf
      <4>2. QED BY <2>1, <3>2, <4>1 DEF View, Bytes
    <3>3. QED BY <3>1, <3>2
  <2>4. QED BY <2>2, <2>3 DEF Undisturbed
<1>11. \A t \in S \ {s} : Undisturbed(w, v, t)
  BY <1>1, <1>10 DEF Undisturbed
<1>12. OldOrSeen(w, v)
  BY <1>1, <1>6 DEF OldOrSeen
<1>13. QED BY <1>8, <1>9, <1>11, <1>12 DEF v

-----------------------------------------------------------------------------
\* When a file has been closed the card itself holds what the readers of each
\* sector see, and nothing else reached it on the way.
THEOREM FlushTransparent ==
  ASSUME NEW S, NEW B, NEW F, NEW w, Sound(w, S, B, F)
  PROVE  LET v == Flush(w)
         IN  /\ Sound(v, S, B, F)
             /\ \A t \in S : Undisturbed(w, v, t)
             /\ \A t \in S : UpToDate(w, t) => v.disc[t] = View(w, t)
             /\ OldOrSeen(w, v)
<1> DEFINE v    == Flush(w)
           D(k) == FlushedTo(w, k)
           N    == NumberOfPages
           q(p) == [p EXCEPT !.count = 0, !.dirty = FALSE]
           c    == [i \in 1..N |-> q(w.cache[i])]
<1>0. /\ w \in Work(S, B, F) /\ DOMAIN w.cache = 1..N /\ N \in Nat /\ N \in 1..N
      /\ \A i \in 1..N : w.cache[i] \in Page(S, B)
      /\ w.disc \in [S -> B] /\ DOMAIN w.disc = S
  BY PagesAssumption DEF Sound, Work
<1>1. ASSUME NEW t \in S, NEW k \in 1..N
      PROVE  /\ D(k)[t] = IF \E i \in 1..k : w.cache[i].dirty /\ w.cache[i].sector = t
                          THEN View(w, t) ELSE w.disc[t]
             /\ D(k)[t] \in B
  <2>1. CASE \E i \in 1..k : w.cache[i].dirty /\ w.cache[i].sector = t
    <3>1. PICK i \in 1..k : w.cache[i].dirty /\ w.cache[i].sector = t
      BY <2>1
    <3>2. i \in 1..N
      BY <1>0
    <3>3. PagesOf(w.cache, t) = {i} /\ PageOf(w.cache, t) = i
      BY <3>1, <3>2, PageFound
    <3>4. View(w, t) = Bytes(w, t) /\ Bytes(w, t) \in B
      BY <1>0, <3>2, <3>3 DEF View, Bytes, Page
    <3>5. D(k)[t] = Bytes(w, t)
      BY <1>0, <2>1 DEF FlushedTo
    <3>6. QED BY <2>1, <3>4, <3>5
  <2>2. CASE ~ \E i \in 1..k : w.cache[i].dirty /\ w.cache[i].sector = t
    BY <1>0, <2>2 DEF FlushedTo
  <2>3. QED BY <2>1, <2>2
<1>2. \A k \in 1..N : D(k) \in [S -> B]
  <2>1. TAKE k \in 1..N
  <2>2. D(k) = [t \in S |-> D(k)[t]]
    BY <1>0 DEF FlushedTo
  <2>3. \A t \in S : D(k)[t] \in B
    BY <1>1
  <2> HIDE DEF D
  <2>4. QED BY <2>2, <2>3
<1>3. /\ \A i \in 1..N : /\ c[i] \in Page(S, B) /\ c[i].sector = w.cache[i].sector
                         /\ ~ c[i].dirty /\ c[i].bytes = w.cache[i].bytes
      /\ DOMAIN c = 1..N /\ c \in [1..N -> Page(S, B)]
  BY <1>0 DEF Page
<1>4. v = [w EXCEPT !.disc = D(N), !.passed = @ \cup {D(k) : k \in 1..N}, !.cache = c]
  BY <1>0 DEF Flush
<1> HIDE DEF v, D, c, N
<1>5. /\ v \in Work(S, B, F) /\ v.disc = D(N) /\ v.cache = c
      /\ v.passed = w.passed \cup {D(k) : k \in 1..N}
  <2> DEFINE P == w.passed \cup {D(k) : k \in 1..N}
  <2>1. w.passed \subseteq [S -> B]
    BY <1>0 DEF Work
  <2>2. P \in SUBSET [S -> B] /\ D(N) \in [S -> B]
    BY <1>0, <1>2, <2>1
  <2>3. v = [w EXCEPT !.disc = D(N), !.passed = P, !.cache = c]
    BY <1>0, <1>4 DEF Work
  <2> HIDE DEF P
  <2>4. v \in Work(S, B, F) /\ v.disc = D(N) /\ v.cache = c /\ v.passed = P
    BY <1>0, <1>3, <2>2, <2>3 DEF Work, N
  <2>5. QED BY <2>4 DEF P
<1>6. Sound(v, S, B, F)
  <2>1. OnePage(v.cache)
    BY <1>0, <1>3, <1>5 DEF Sound, OnePage
  <2>2. FreeIsClean(v.cache)
    BY <1>3, <1>5 DEF FreeIsClean
  <2>3. QED BY <1>5, <2>1, <2>2 DEF Sound
<1>7. ASSUME NEW t \in S, UpToDate(w, t)
      PROVE  v.disc[t] = View(w, t) /\ UpToDate(v, t) /\ View(v, t) = View(w, t)
  <2>1. \/ PagesOf(w.cache, t) = {} /\ View(w, t) = w.disc[t]
        \/ \E i \in 1..N : /\ w.cache[i].sector = t /\ PagesOf(w.cache, t) = {i}
                           /\ PageOf(w.cache, t) = i /\ View(w, t) = w.cache[i].bytes
    BY ViewOf DEF N
  <2>2. v.disc[t] = IF \E i \in 1..N : w.cache[i].dirty /\ w.cache[i].sector = t
                    THEN View(w, t) ELSE w.disc[t]
    BY <1>0, <1>1, <1>5
  <2>3. PagesOf(v.cache, t) = PagesOf(w.cache, t)
    BY <1>0, <1>3, <1>5 DEF PagesOf
  <2>4. v.disc[t] = View(w, t)
    BY <1>7, <2>1, <2>2 DEF UpToDate
  <2>5. View(v, t) = View(w, t)
    <3>1. CASE PagesOf(w.cache, t) = {}
      BY <2>3, <2>4, <3>1 DEF View
    <3>2. CASE PagesOf(w.cache, t) # {}
      <4>1. PICK i \in 1..N : PageOf(w.cache, t) = i /\ View(w, t) = w.cache[i].bytes
        BY <2>1, <3>2
      <4>2. PageOf(v.cache, t) = i
        BY <2>3, <4>1 DEF PageOf
      <4>3. QED BY <1>3, <1>5, <2>3, <3>2, <4>1, <4>2 DEF View, Bytes
    <3>3. QED BY <3>1, <3>2
  <2>6. UpToDate(v, t)
    BY <1>3, <1>5, <2>1, <2>3, <2>4 DEF UpToDate
  <2>7. QED BY <2>4, <2>5, <2>6
<1>8. OldOrSeen(w, v)
  <2>1. \A d \in v.passed \ w.passed : \E k \in 1..N : d = D(k)
    BY <1>5
  <2>2. QED BY <1>0, <1>1, <2>1 DEF OldOrSeen
<1>9. QED BY <1>6, <1>7, <1>8 DEF Undisturbed, v

-----------------------------------------------------------------------------
\* A sector written past the cache disturbs the readers of that sector only,
\* and shows them what was written if it has no page.
THEOREM WholeSectorDisturbsOne ==
  ASSUME NEW S, NEW B, NEW F, NEW w, Sound(w, S, B, F), NEW s \in S, NEW bytes \in B
  PROVE  LET v == WriteSector(w, s, bytes)
         IN  /\ Sound(v, S, B, F)
             /\ \A t \in S \ {s} : Undisturbed(w, v, t)
             /\ PagesOf(w.cache, s) = {} => UpToDate(v, s) /\ View(v, s) = bytes
<1> DEFINE d == [w.disc EXCEPT ![s] = bytes]
           v == WriteSector(w, s, bytes)
<1>1. w \in Work(S, B, F) /\ d \in [S -> B]
  BY DEF Sound, Work
<1>2. v = [w EXCEPT !.disc = d, !.passed = @ \cup {d}]
  BY DEF WriteSector
<1>3. d[s] = bytes /\ \A t \in S \ {s} : d[t] = w.disc[t]
  BY <1>1 DEF Work
<1> HIDE DEF d, v
<1>4. v \in Work(S, B, F) /\ v.disc = d /\ v.cache = w.cache
  BY <1>1, <1>2 DEF Work
<1>5. Sound(v, S, B, F)
  BY <1>4 DEF Sound
<1>6. \A t \in S \ {s} : Undisturbed(w, v, t)
  BY <1>3, <1>4 DEF Undisturbed, UpToDate, View, Bytes
<1>7. PagesOf(w.cache, s) = {} => UpToDate(v, s) /\ View(v, s) = bytes
  BY <1>3, <1>4 DEF UpToDate, View
<1>8. QED BY <1>5, <1>6, <1>7 DEF v

\* A card that was just mounted is sound, and shows its readers what it holds.
THEOREM MountedSound ==
  ASSUME NEW S, NEW B, <<>> \in B, NEW F, NEW f \in F, NEW d \in [S -> B], CacheFree \notin S
  PROVE  LET w == [disc |-> d, cache |-> EmptyCache, firstFree |-> f, passed |-> {d}]
         IN  /\ Sound(w, S, B, F)
             /\ \A s \in S : UpToDate(w, s) /\ View(w, s) = d[s]
<1> DEFINE w == [disc |-> d, cache |-> EmptyCache, firstFree |-> f, passed |-> {d}]
<1>1. /\ DOMAIN EmptyCache = 1..NumberOfPages
      /\ \A i \in 1..NumberOfPages : /\ EmptyCache[i] \in Page(S, B)
                                     /\ EmptyCache[i].sector = CacheFree
                                     /\ ~ EmptyCache[i].dirty
      /\ EmptyCache \in [1..NumberOfPages -> Page(S, B)]
  BY DEF EmptyCache, Page
<1>2. w \in Work(S, B, F)
  BY <1>1 DEF Work
<1>3. Sound(w, S, B, F)
  BY <1>1, <1>2 DEF Sound, OnePage, FreeIsClean
<1>4. \A s \in S : PagesOf(w.cache, s) = {}
  BY <1>1 DEF PagesOf
<1>5. QED BY <1>3, <1>4 DEF UpToDate, View
=============================================================================
