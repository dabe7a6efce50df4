SPECIFICATION Spec
CONSTANTS
  Inputs <- MCInputs
  Cuts <- MCCuts
  Points <- MCPoints
  Turns <- MCTurns
  Maps <- MCMaps
  Costs <- MCCosts
  Window <- MCWindow
  MaxCalls = 2
INVARIANTS
  DescriptionsAgree
  PointsFoundAndBounded
PROPERTIES
  RefinesRegions
  ListsStayMinimal
  PairsBecomeDisjoint
CHECK_DEADLOCK FALSE
