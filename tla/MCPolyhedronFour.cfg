CONSTANTS
  Dimension = 5
  WSIZE = 4
  Constraints = {}
  ConstraintMatrices <- FourConstraintMatrices
  RayMatrices <- FourRayMatrices
  WorkSpaces = {0}
  MaxCalls = 2
  Box <- FourBox
SPECIFICATION Spec
INVARIANTS RaysContract
CHECK_DEADLOCK FALSE
