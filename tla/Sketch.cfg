CONSTANTS
  Objects = {o1, o2}
  Pins = {p1}
  MAX_THINGS = 3
  NULL = NULL
SYMMETRY Symmetry
SPECIFICATION Spec
INVARIANTS NumbersExist RoundTrip
