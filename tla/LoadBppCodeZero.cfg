SPECIFICATION Spec
CONSTANT MaxChildren = 2
INVARIANT CodeZeroMeansInstalled
CHECK_DEADLOCK FALSE
