CONSTANTS
  Dimension = 4
  WSIZE = 2
  Constraints <- SpaceConstraints
  Matrices <- SpaceMatrices
  InitMaxRays = 0
  Duals = {FALSE, TRUE}
  Box <- SpaceBox
  Coefficients <- SmallCoefficients
SPECIFICATION Spec
INVARIANTS TypeOK InAllocation SatExact DoubleDescription LinesIndependent
CHECK_DEADLOCK FALSE
