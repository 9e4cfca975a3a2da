----------------------------- MODULE DiscCache -----------------------------
(***************************************************************************)
(* The sector cache of libfat: a few pages, written back when they are     *)
(* needed for another sector or when a file is closed.                     *)
(*                                                                         *)
(* Its operations take and give w = [disc, cache, firstFree, passed]:      *)
(* passed collects the contents that the card had on the way, one for each *)
(* sector written.  The card itself never fails.                           *)
(***************************************************************************)
EXTENDS Integers, FiniteSetsExt

CONSTANTS NumberOfPages, CacheFree

ASSUME PagesAssumption == NumberOfPages \in Nat \ {0, 1}

EmptyCache ==
  [i \in 1..NumberOfPages |->
     [sector |-> CacheFree, count |-> 0, dirty |-> FALSE, bytes |-> <<>>]]

WriteSector(w, s, bytes) ==
  LET d == [w.disc EXCEPT ![s] = bytes]
  IN  [w EXCEPT !.disc = d, !.passed = @ \cup {d}]

PagesOf(cache, s) == {i \in DOMAIN cache : cache[i].sector = s}
PageOf(cache, s)  == CHOOSE i \in PagesOf(cache, s) : TRUE

\* The page to give up: the last free one, else the first of the least used
\* (a free page has not been used, and nothing is used less).
FreePages(cache)  == PagesOf(cache, CacheFree)
LeastPages(cache) ==
  {i \in DOMAIN cache : \A k \in DOMAIN cache : cache[i].count <= cache[k].count}
LeastUsed(cache)  ==
  IF FreePages(cache) # {} THEN Max(FreePages(cache)) ELSE Min(LeastPages(cache))

WriteBack(w, i) ==
  IF w.cache[i].dirty THEN WriteSector(w, w.cache[i].sector, w.cache[i].bytes) ELSE w

Counted(w, s, n) == [w EXCEPT !.cache[PageOf(w.cache, s)].count = @ + n]

\* Seeded fault: a page is given up without being written back.
ReplaceLost(w, i, s) ==
  [w EXCEPT
     !.cache[i] = [sector |-> s, count |-> @.count + 1, dirty |-> FALSE,
                   bytes  |-> w.disc[s]]]

\* Loading a sector keeps the count of the page: pages are ranked, not sectors.
Replace(w, i, s) ==
  [WriteBack(w, i) EXCEPT
     !.cache[i] = [sector |-> s, count |-> @.count + 1, dirty |-> FALSE,
                   bytes  |-> w.disc[s]]]

GetSector(w, s) ==
  IF PagesOf(w.cache, s) # {} THEN Counted(w, s, 1)
  ELSE Replace(w, LeastUsed(w.cache), s)

\* n reads of parts of one sector in a row.
GetSectorTimes(w, s, n) == Counted(GetSector(w, s), s, n - 1)

Bytes(w, s) == w.cache[PageOf(w.cache, s)].bytes

\* What a sector holds for a reader who goes through the cache.
View(w, s) == IF PagesOf(w.cache, s) # {} THEN Bytes(w, s) ELSE w.disc[s]

\* The sector is loaded first: bytes is its View with a part changed.
Dirtied(w, i, bytes) == [w EXCEPT !.cache[i].bytes = bytes, !.cache[i].dirty = TRUE]
SetBytes(w, s, bytes) == Dirtied(w, PageOf(w.cache, s), bytes)
WritePartialSector(w, s, bytes) == SetBytes(GetSector(w, s), s, bytes)

\* Pages are written in their order, and stay.  The card when the first k
\* pages have been looked at:
FlushedTo(w, k) ==
  [s \in DOMAIN w.disc |->
     IF \E i \in 1..k : w.cache[i].dirty /\ w.cache[i].sector = s
     THEN Bytes(w, s) ELSE w.disc[s]]

Flush(w) ==
  [w EXCEPT !.disc   = FlushedTo(w, NumberOfPages),
            !.passed = @ \cup {FlushedTo(w, k) : k \in 1..NumberOfPages},
            !.cache  = [i \in DOMAIN @ |-> [@[i] EXCEPT !.count = 0, !.dirty = FALSE]]]
=============================================================================
