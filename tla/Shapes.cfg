CONSTANTS
  Unit = 6
  MaxVertices = 8
  Points <- MCPoints
  MAX_POINTS = 6
  MAX_VERTICES = 6
SPECIFICATION SSpec
INVARIANTS NoZeroEdge AreaKept PiecesConvex SimpleIsCut BoxIsSolid
PROPERTY CutEnds
