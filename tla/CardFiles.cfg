SPECIFICATION FSpec
CONSTANTS
  NoName = NoName
  Names = {x, y}
  Junk = Junk
  NumberOfPages = 2
  CacheFree = 999
  LastCluster = 5
  EntriesPerSector = 4
  SectorsPerCluster = 1
  EOF = 99
  UnitsPerSector = 2
  Lengths <- mcLengths
  MaxSize = 7
  MaxCount = 0
  FullCard = FALSE
INVARIANTS ReadBack ClustersOwned
PROPERTY OthersSurvive
SYMMETRY mcSymmetry
