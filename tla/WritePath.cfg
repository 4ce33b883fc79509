SPECIFICATION SpecH
CONSTANTS
  NTids = 3
  MaxVer = 3
  Kinds <- MCKinds
  MaxDelta = 1
  Scenarios <- MCScenarios
INVARIANTS
  TypeOK
  
  NoUnexplainedDuplicate
  NoUnexplainedDistance
  OpenGatesServe
