CONSTANTS
  MaxRays = 4
  Rows <- MCRows
  Words <- MCWords
SPECIFICATION Spec
INVARIANTS TypeOK Tiers BitExact MovedTogether
CHECK_DEADLOCK FALSE
