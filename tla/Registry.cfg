SPECIFICATION Spec
CONSTANTS
  i1 = i1
  i2 = i2
  i3 = i3
  Indexes = {i1, i2, i3}
  AmOf <- WithFlat
  MaxIndexes = 2
  MaxGen = 2
  Events = {"compact", "drop"}
INVARIANTS
  TypeOK
  OnePerIndex
  OwnsPointers
  NoLeak
  MapMatches
  EvictionLosesNothing
