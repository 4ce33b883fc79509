SPECIFICATION Spec
CONSTANTS
  Indexes = {"c", "n"}
  Kinds <- MCKinds
  Old = {"c"}
  Restored = {"c"}
  MaxDepth = 3
  QMax = 1
  Workers = {1}
  Scenarios <- MCScenarios
INVARIANTS
  TypeOK
  LiveKeepsFiles
  DroppedIsGone
PROPERTIES
  WarmupSettles
