SPECIFICATION Spec
CONSTANTS
  NG = 2
  Indexes = {"a", "s", "f"}
  Kinds <- MCKinds
  Shards <- MCShards
  Degree <- MCDegree
  Rows <- MCRows
  MaxExt = 1
  Usual = 2
  Light = 1
  Budgets = {5, 9}
  Phys = 10
  MaxIdx = 2
  SizeMax = 1000
INVARIANTS
  ReservationsMatch
  EverythingCounted
  NoNeedlessRefusal
PROPERTIES
  StaysInBudget
  NoNeedlessEviction
  AdmissionEnds
