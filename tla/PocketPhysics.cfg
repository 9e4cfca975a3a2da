CONSTANTS
  Objects = {o1, o2, o3}
  Pins = {p1, p2}
  MAX_THINGS = 4
  NULL = NULL
  BG = BG
  Sketches <- MCSketches
SYMMETRY Symmetry
SPECIFICATION Spec
INVARIANTS StrokeOwns DragEnds VisibleIsPhysical
PROPERTIES StopRestores MoveKeepsPins
