-------------------------------- MODULE Fat --------------------------------
(***************************************************************************)
(* The file allocation table of libfat on a FAT16 card, in the cached      *)
(* sectors at the start of the card.  Operations that give a cluster give  *)
(* <<w, cluster>>.                                                         *)
(***************************************************************************)
EXTENDS DiscCache

CONSTANTS LastCluster,          \* fat.lastCluster
          EntriesPerSector,     \* BYTES_PER_READ / 2
          SectorsPerCluster, EOF

ASSUME FatAssumption ==
  /\ LastCluster \in Nat /\ LastCluster > 2
  /\ EntriesPerSector \in Nat \ {0} /\ SectorsPerCluster \in Nat \ {0}
  /\ EOF > LastCluster + 1

CLUSTER_FREE  == 0
CLUSTER_FIRST == 2

\* The card has one cluster more than lastCluster says, and an entry for it.
Entries      == 0..(LastCluster + 1)
SectorsPerFat == (LastCluster + 1) \div EntriesPerSector + 1
FatSectors   == 0..(SectorsPerFat - 1)
RootDirStart == SectorsPerFat
DataStart    == RootDirStart + 1
ClusterToSector(c) ==
  IF c >= 2 THEN (c - 2) * SectorsPerCluster + DataStart ELSE RootDirStart
DataSectors  == DataStart..(ClusterToSector(LastCluster + 2) - 1)

FatSector(c) == c \div EntriesPerSector
Offset(c)    == c % EntriesPerSector

-----------------------------------------------------------------------------
LinkIn(w, c)      == <<w, Bytes(w, FatSector(c))[Offset(c)]>>
NextCluster(w, c) == LinkIn(GetSector(w, FatSector(c)), c)

\* Seeded fault: the rest of the sector is erased.
WriteFatEntryErased(w, c, value) ==
  IF c < CLUSTER_FIRST \/ c > LastCluster THEN w
  ELSE WritePartialSector(w, FatSector(c),
         [o \in DOMAIN View(w, FatSector(c)) |->
            IF o = Offset(c) THEN value ELSE CLUSTER_FREE])

WriteFatEntry(w, c, value) ==
  IF c < CLUSTER_FIRST \/ c > LastCluster THEN w
  ELSE WritePartialSector(w, FatSector(c),
         [View(w, FatSector(c)) EXCEPT ![Offset(c)] = value])

\* From c upwards, then once more from the first cluster; <<w, c, found>>.
RECURSIVE FindFree(_, _, _), FreeAt(_, _, _)
FreeAt(next, c, looped) ==
  IF next[2] = CLUSTER_FREE THEN <<next[1], c, TRUE>>
  ELSE IF c < LastCluster THEN FindFree(next[1], c + 1, looped)
  ELSE IF looped THEN <<next[1], c + 1, FALSE>>
  ELSE FindFree(next[1], CLUSTER_FIRST, TRUE)
FindFree(w, c, looped) == FreeAt(NextCluster(w, c), c, looped)

\* A chain gets a cluster that is free, and ends there; c = CLUSTER_FREE
\* starts a chain.
Linked(w, c, to) ==
  WriteFatEntry(IF c >= CLUSTER_FIRST /\ c < LastCluster
                THEN WriteFatEntry(w, c, to) ELSE w, to, EOF)

LinkFound(found, c) ==
  IF found[3]
  THEN <<Linked([found[1] EXCEPT !.firstFree = found[2]], c, found[2]), found[2]>>
  ELSE <<[found[1] EXCEPT !.firstFree = found[2]], CLUSTER_FREE>>

LinkUnlessLinked(link, c) ==
  IF link[2] \in CLUSTER_FIRST..LastCluster THEN link
  ELSE LinkFound(FindFree(link[1], Max({link[1].firstFree, CLUSTER_FIRST}), FALSE), c)

LinkFreeCluster(w, c) ==
  IF c > LastCluster THEN <<w, CLUSTER_FREE>>
  ELSE LinkUnlessLinked(NextCluster(w, c), c)

\* Seeded fault: the link is erased before it is followed.
FreeChainErased(w, c) == WriteFatEntry(w, c, CLUSTER_FREE)

RECURSIVE FreeChain(_, _), FreeLink(_, _)
FreeLink(next, c) == FreeChain(WriteFatEntry(next[1], c, CLUSTER_FREE), next[2])
FreeChain(w, c) ==
  IF c \in {EOF, CLUSTER_FREE} THEN w ELSE FreeLink(NextCluster(w, c), c)

ClearLinks(w, c) ==
  IF c < CLUSTER_FIRST \/ c > LastCluster THEN w
  ELSE FreeChain([w EXCEPT !.firstFree = Min({@, c})], c)

\* _FAT_fat_lastCluster, which asks for every link two or three times.  Only
\* the position for appending needs its answer.
RECURSIVE LastClusterRead(_, _), LastLinkRead(_, _)
LastLinkRead(link, c) ==
  IF link[2] = CLUSTER_FREE THEN link[1]
  ELSE IF link[2] = EOF THEN GetSector(link[1], FatSector(c))
  ELSE LastClusterRead(GetSectorTimes(link[1], FatSector(c), 2), link[2])
LastClusterRead(w, c) == LastLinkRead(NextCluster(w, c), c)
=============================================================================
