CONSTANTS
  NumPairs = 3
  TableCapacity = 2
  Hash <- MCHash
  NumProxies = 3
  MaxStamp = 2
  WorldMax = 5
  NoShape = NoShape
  Bodies = {"a", "b"}
  ShapeList <- MCShapeList
  Touches <- MCTouches
  StaticBodies = {}
  Places <- MCPlaces
  Box <- MCBox
  NoBox = NoBox
  Nowhere = Nowhere
  JointPairs <- MCJointPairs
  MaxJoints = 1
SPECIFICATION CSpec
INVARIANTS AxesValid TableSound ContactsCollide QueryExact
PROPERTY OverlapsSpec
