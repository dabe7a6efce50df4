CONSTANTS
  Dimension = 3
  WSIZE = 2
  Constraints <- PlaneConstraints
  ConstraintMatrices <- PlaneConstraintMatrices
  RayMatrices <- PlaneRayMatrices
  WorkSpaces = {0}
  MaxCalls = 2
  Box <- PlaneBox
SPECIFICATION Spec
INVARIANTS TypeOK CallsContract RaysSatisfyConstraints CompleteAndNonRedundant FilterSuffices
CHECK_DEADLOCK FALSE
