CONSTANTS
  Objects = {o1, o2}
  Pins = {p1, p2}
  MAX_THINGS = 3
  NULL = NULL
  BG = BG
  Sketches <- MCSketches
SYMMETRY Symmetry
SPECIFICATION Spec
INVARIANT MouseJointAlive
