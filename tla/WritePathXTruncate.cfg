SPECIFICATION SpecH
CONSTANTS
  NTids = 4
  MaxVer = 4
  Kinds = {"cagra"}
  MaxDelta = 4
  Scenarios <- TruncateOnly
INVARIANTS
  NoForeignDistance
