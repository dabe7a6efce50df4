CONSTANTS
  Dimension = 4
  WSIZE = 2
  Constraints = {}
  ConstraintMatrices <- SpaceConstraintMatrices
  RayMatrices <- SpaceRayMatrices
  WorkSpaces = {0}
  MaxCalls = 2
  Box <- SpaceBox
SPECIFICATION Spec
INVARIANTS NonRedundant
CHECK_DEADLOCK FALSE
