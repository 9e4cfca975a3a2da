CONSTANTS
  Names = {n1, n2}
  Drawings = {d1, d2}
  EMPTY = EMPTY
  DAMAGED = DAMAGED
  NONE = NONE
SPECIFICATION Spec
INVARIANT StoredIsOffered
PROPERTIES LegacyAsked SavesReachCard
