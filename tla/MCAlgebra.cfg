SPECIFICATION Spec
CONSTANTS
  EliminationMatrices <- MCEliminationMatrices
  NormalFormMatrices <- MCNormalFormMatrices
  Systems <- MCSystems
  LatticePairs <- MCLatticePairs
  ParamSystems <- MCParamSystems
  EvaluePairs <- MCEvaluePairs
  ParamPolyhedra <- MCParamPolyhedra
  LBLPairs <- MCLBLPairs
  Near <- MCNear
  Far <- MCFar
INVARIANTS
  GaussCorrect
  NormalFormsCorrect
  DiophantineCorrect
  LatticesCorrect
  CompressionCorrect
  EvaluesCorrect
  ParametersCorrect
  LBLsCorrect
CHECK_DEADLOCK FALSE
