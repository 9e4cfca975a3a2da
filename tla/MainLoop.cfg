CONSTANT MAX_LAG = 3
SPECIFICATION Spec
INVARIANTS StepNeedsFrame HandledTwiceAtMost WindowNotCaptured
PROPERTIES KeysAreRead SimulationRuns SwapsAreSeen
