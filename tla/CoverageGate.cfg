CONSTANTS
  Pack <- MCPack
  MaxPackChars = 10
  Setups <- MCSetups
  MaxTrouble = 2
SPECIFICATION FairSpec
INVARIANTS
  VerdictMeansCovered
  DebtHasWork
PROPERTIES
  PlanWithinLimits
  CoverageClears
