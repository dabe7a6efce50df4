SPECIFICATION Spec
CONSTANTS
  Inputs <- DisjointInputs
  Cuts = {}
  Points = {}
  Turns = {}
  Maps = {}
  Costs = {}
  Window <- DisjointWindow
  MaxCalls = 1
PROPERTIES
  AllBecomeDisjoint
CHECK_DEADLOCK FALSE
