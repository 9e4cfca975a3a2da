----------------------------- MODULE CardFiles -----------------------------
(***************************************************************************)
(* Files of the root directory of a card as the program saves and loads    *)
(* them: fopen("w"), the buffered writes, fclose, and the reads of a whole *)
(* file.  One call at a time; power may go at any write of a sector.       *)
(*                                                                         *)
(* A unit is a piece of a sector that is written at once or not at all:    *)
(* <<name, take, i>> is unit i of what one save wrote to a file.           *)
(***************************************************************************)
EXTENDS Fat, Sequences, SequencesExt

CONSTANTS Names, NoName,
          UnitsPerSector,      \* BYTES_PER_READ, in units
          Lengths,             \* of the writes, bound
          MaxSize,             \* of a file, bound
          MaxCount,            \* of page use when a file is loaded, bound
          FullCard,            \* may a write find no free cluster?
          Junk                 \* what nobody wrote

ASSUME FilesAssumption ==
  /\ UnitsPerSector \in Nat \ {0} /\ Lengths \subseteq Nat \ {0}
  /\ FullCard \in BOOLEAN

VARIABLES disc,        \* the sectors of the card
          cache,       \* partition->cache
          firstFree,   \* fat.firstFree
          file,        \* the FILE_STRUCT that is open for writing
          passed,      \* contents of the card during the last call
          saved        \* of each name, the last take closed and its size

fvars == <<disc, cache, firstFree, file, passed, saved>>

Blank   == [i \in 0..(UnitsPerSector - 1) |-> Junk]
NoFile  == [name |-> NoName]
Unsaved == [take |-> 1, size |-> -1]

w0 == [disc |-> disc, cache |-> cache, firstFree |-> firstFree, passed |-> {disc}]

Became(w) ==
  /\ disc' = w.disc /\ cache' = w.cache /\ firstFree' = w.firstFree
  /\ passed' = w.passed

-----------------------------------------------------------------------------
(***************************************************************************)
(* The root directory, in one sector: a sequence of [name, start, size].   *)
(* The program removes nothing, so new entries go to its end.              *)
(***************************************************************************)
Directory(w)         == View(w, RootDirStart)
WriteDirectory(w, d) == WritePartialSector(w, RootDirStart, d)
Slot(dir, n) == Max({0} \cup {k \in DOMAIN dir : dir[k].name = n})

\* _FAT_directory_entryFromPath: entries are read up to the one sought.
EntriesRead(dir, n) == IF Slot(dir, n) > 0 THEN Slot(dir, n) ELSE Len(dir) + 1
Lookup(w, n) ==
  GetSectorTimes(w, RootDirStart, EntriesRead(Directory(w), n))

\* The directory is searched for the name and for a gap, the end marker is
\* written behind the gap and the entry into it.
AddEntry(w, n) ==
  WriteDirectory(
    WriteDirectory(GetSectorTimes(w, RootDirStart, 2 * (Len(Directory(w)) + 1)),
                   Directory(w)),
    Append(Directory(w), [name |-> n, start |-> CLUSTER_FREE, size |-> 0]))

SetEntry(w, f) ==
  WriteDirectory(GetSector(w, RootDirStart),
    [Directory(w) EXCEPT ![Slot(Directory(w), f.name)] =
       [name |-> f.name, start |-> f.start, size |-> f.size]])

EntryOf(w, n) == Directory(w)[Slot(Directory(w), n)]

-----------------------------------------------------------------------------
(***************************************************************************)
(* _FAT_write_r, on x = [w, cluster, sector, unit, at, left, ok]: the      *)
(* position, the next unit to write, how many are left.                    *)
(***************************************************************************)
Written(f, at, n) == [i \in 0..(n - 1) |-> <<f.name, f.take, at + i>>]

\* Part of a sector goes through the cache, from a unit on.
Overlay(b, from, units) ==
  [i \in DOMAIN b |-> IF i - from \in DOMAIN units THEN units[i - from] ELSE b[i]]

Here(x) == ClusterToSector(x.cluster) + x.sector

\* The cluster that follows, a new one at the end of the chain.
FollowOrLink(link, c) ==
  IF link[2] \in {EOF, CLUSTER_FREE} THEN LinkFreeCluster(link[1], c) ELSE link

GoOn(x, next) ==
  IF next[2] = CLUSTER_FREE THEN [x EXCEPT !.w = next[1], !.ok = FALSE, !.sector = 0]
  ELSE [x EXCEPT !.w = next[1], !.cluster = next[2], !.sector = 0]

MoveOn(x) ==
  IF x.ok /\ x.sector >= SectorsPerCluster
  THEN GoOn(x, FollowOrLink(NextCluster(x.w, x.cluster), x.cluster)) ELSE x

WriteToSectorEnd(f, x) ==
  LET n   == Min({UnitsPerSector - x.unit, x.left})
      end == x.unit + n >= UnitsPerSector
  IN  IF n < UnitsPerSector /\ x.ok
      THEN [x EXCEPT !.w = WritePartialSector(@, Here(x),
                             Overlay(View(@, Here(x)), x.unit, Written(f, x.at, n))),
                     !.at = @ + n, !.left = @ - n,
                     !.unit = IF end THEN 0 ELSE @ + n,
                     !.sector = IF end THEN @ + 1 ELSE @]
      ELSE x

\* Whole sectors go to the card, past the cache.
WriteSectors(f, x, n) ==
  IF ~x.ok THEN x
  ELSE [x EXCEPT !.w = FoldLeft(LAMBDA w, i :
                         WriteSector(w, Here(x) + i - 1,
                           Written(f, x.at + (i - 1) * UnitsPerSector, UnitsPerSector)),
                         @, [i \in 1..n |-> i]),
                 !.at = @ + n * UnitsPerSector, !.left = @ - n * UnitsPerSector,
                 !.sector = @ + n]

WriteToClusterEnd(f, x) ==
  LET room == SectorsPerCluster - x.sector
  IN  WriteSectors(f, x, IF x.left > room * UnitsPerSector THEN room
                         ELSE x.left \div UnitsPerSector)

RECURSIVE WriteClusters(_, _), AfterCluster(_, _)
AfterCluster(f, x)  == IF x.left = 0 THEN x ELSE WriteClusters(f, MoveOn(x))
WriteClusters(f, x) ==
  IF ~x.ok \/ x.left < SectorsPerCluster * UnitsPerSector THEN x
  ELSE AfterCluster(f, WriteSectors(f, x, SectorsPerCluster))

\* What is left in the last sector is erased only behind the end of the file.
WriteLastSector(f, x, appending) ==
  IF x.left = 0 \/ ~x.ok THEN x
  ELSE [x EXCEPT !.w = WritePartialSector(@, Here(x),
                         Overlay(IF appending THEN Blank ELSE View(@, Here(x)),
                                 0, Written(f, x.at, x.left))),
                 !.at = @ + x.left, !.left = 0, !.unit = @ + x.left]

WriteRest(f, x) ==
  WriteLastSector(f, WriteSectors(f, x, x.left \div UnitsPerSector), x.appending)

MoveOnForMore(x) == IF x.left > 0 THEN MoveOn(x) ELSE x

WriteCall(w, f, len) ==
  WriteRest(f, WriteClusters(f, MoveOnForMore(
    WriteToClusterEnd(f, WriteToSectorEnd(f, MoveOn(
      [w |-> w, cluster |-> f.cluster, sector |-> f.sector, unit |-> f.unit,
       at |-> f.position, left |-> len, ok |-> TRUE,
       appending |-> len + f.position > f.size]))))))

-----------------------------------------------------------------------------
(***************************************************************************)
(* _FAT_read_r of a file from its start, a sector at a time.  x.got is     *)
(* what was read so far.                                                   *)
(***************************************************************************)
OnCard(w, s) == s \in DOMAIN w.disc

ReadUnits(x, n, b) ==
  [x EXCEPT !.got = @ \o [i \in 1..n |-> b[i - 1]], !.left = @ - n, !.sector = @ + 1]

ReadSector(x, s) ==
  IF x.left >= UnitsPerSector THEN ReadUnits(x, UnitsPerSector, x.w.disc[s])
  ELSE ReadUnits([x EXCEPT !.w = GetSector(@, s)], x.left, View(x.w, s))

RECURSIVE ReadFrom(_), ReadOn(_, _), Follow(_, _)
Follow(x, link) ==
  ReadFrom([x EXCEPT !.w = link[1], !.sector = 0, !.cluster = link[2]])
ReadOn(x, n) ==
  IF n < UnitsPerSector \/ x.sector < SectorsPerCluster THEN ReadFrom(x)
  ELSE Follow(x, NextCluster(x.w, x.cluster))
ReadFrom(x) ==
  IF x.left = 0 \/ x.cluster = CLUSTER_FREE \/ ~OnCard(x.w, Here(x)) THEN x
  ELSE ReadOn(ReadSector(x, Here(x)), x.left)

ReadWhole(w, e) ==
  ReadFrom([w |-> LastClusterRead(w, e.start), cluster |-> e.start, sector |-> 0,
            left |-> e.size, got |-> <<>>])

LoadCall(w, n) == ReadWhole(Lookup(w, n), EntryOf(w, n))

Contents(w, n) == LoadCall(w, n).got

-----------------------------------------------------------------------------
Init ==
  /\ disc = [s \in FatSectors \cup {RootDirStart} \cup DataSectors |->
               IF s \in FatSectors THEN [o \in 0..(EntriesPerSector - 1) |->
                       IF s * EntriesPerSector + o < CLUSTER_FIRST THEN EOF ELSE CLUSTER_FREE]
               ELSE IF s = RootDirStart THEN <<>> ELSE Blank]
  /\ cache = EmptyCache /\ firstFree = CLUSTER_FIRST
  /\ file = NoFile /\ passed = {disc}
  /\ saved = [n \in Names |-> Unsaved]

\* _FAT_open_r with O_CREAT and O_TRUNC.
Emptied(w, n) ==
  IF Slot(Directory(w), n) = 0 THEN AddEntry(w, n)
  ELSE ClearLinks(w, EntryOf(w, n).start)

OpenCall(w, n) == LinkFreeCluster(Emptied(Lookup(w, n), n), CLUSTER_FREE)

\* A file gets a first cluster: on a full card the program would go on and
\* write over the root directory.
Opened(n, call) ==
  /\ call[2] # CLUSTER_FREE
  /\ Became(LastClusterRead(call[1], call[2]))
  /\ file' = [name |-> n, take |-> 1 - saved[n].take, start |-> call[2],
              size |-> 0, position |-> 0, cluster |-> call[2], sector |-> 0,
              unit |-> 0]

Open(n) ==
  /\ file = NoFile
  /\ Opened(n, OpenCall(w0, n))
  /\ UNCHANGED saved

\* A short write is followed by another one for the rest.
WriteEnds(x) ==
  /\ FullCard \/ x.ok
  /\ Became(x.w)
  /\ file' = [file EXCEPT !.position = x.at, !.size = Max({@, x.at}),
                          !.cluster = x.cluster, !.sector = x.sector,
                          !.unit = x.unit]

Write(len) ==
  /\ file # NoFile /\ file.position + len <= MaxSize
  /\ WriteEnds(WriteCall(w0, file, len))
  /\ UNCHANGED saved

Close ==
  /\ file # NoFile
  /\ Became(Flush(SetEntry(w0, file)))
  /\ saved' = [saved EXCEPT ![file.name] = [take |-> file.take, size |-> file.size]]
  /\ file' = NoFile

Load(n) ==
  /\ file = NoFile /\ saved[n] # Unsaved
  /\ \A i \in DOMAIN cache : cache[i].count <= MaxCount
  /\ Became(LoadCall(w0, n).w)
  /\ UNCHANGED <<file, saved>>

Next ==
  \/ \E n \in Names : Open(n) \/ Load(n)
  \/ \E len \in Lengths : Write(len)
  \/ Close

FSpec == Init /\ [][Next]_fvars

-----------------------------------------------------------------------------
Whole(w, n) ==
  /\ Slot(Directory(w), n) > 0
  /\ Contents(w, n) = [i \in 1..saved[n].size |-> <<n, saved[n].take, i - 1>>]

\* The card as the next start finds it.
Mounted(d) ==
  [disc |-> d, cache |-> EmptyCache, firstFree |-> CLUSTER_FIRST, passed |-> {d}]

\* A file that was closed reads back as it was written, with the cache as it
\* is and after the card was taken out: nothing is left in the cache
\* (fclose flushes it), no sector is read from a page that is out of date
\* (whole sectors are read and written past the cache).
ReadBack ==
  \A n \in Names : (saved[n].size >= 0 /\ file.name # n) =>
    /\ Whole(w0, n)
    /\ file = NoFile => Whole(Mounted(disc), n)

\* At whatever sector written power goes while one file is saved, all the
\* others are whole on the card: pages of the table are written back in any
\* order, and none of them takes a cluster from another file.
OthersSurvive ==
  [][\A d \in passed', n \in Names :
       (saved[n].size >= 0 /\ n \notin {file.name, file'.name}) =>
         Whole(Mounted(d), n)]_fvars

\* Every cluster in use is in the chain of one file, and only once: saving
\* over a file again and again neither loses clusters nor shares them.
RECURSIVE ChainOf(_, _)
ChainOf(fat, c) ==
  IF c = EOF THEN <<>> ELSE <<c>> \o ChainOf(fat, fat[c])

ClustersOwned ==
  LET dir    == Directory(w0)
      fat    == [c \in Entries |-> View(w0, FatSector(c))[Offset(c)]]
      starts == {dir[i].start : i \in {j \in DOMAIN dir : dir[j].name # file.name}}
                  \cup (IF file = NoFile THEN {} ELSE {file.start})
      used   == {c \in CLUSTER_FIRST..LastCluster + 1 : fat[c] # CLUSTER_FREE}
      chains == FoldSet(LAMBDA c, s : ChainOf(fat, c) \o s, <<>>, starts)
  IN  ToSet(chains) = used /\ Len(chains) = Cardinality(used)
=============================================================================
