SPECIFICATION Spec
CONSTANTS
  MaxV = 2
  ShardFiles <- MCShardFiles
  Kinds = {"cagra", "flat", "ivfpq"}
  Events = {"crash", "io", "late", "extend", "cloud"}
CHECK_DEADLOCK FALSE
INVARIANTS
  ResidentIsWhole
  VectorsFitGraph
PROPERTY FilesAreRecoverable
