SPECIFICATION Spec
CONSTANTS
  i1 = i1
  i2 = i2
  i3 = i3
  Indexes = {i1, i2, i3}
  AmOf <- WithIvfpq
  MaxIndexes = 2
  MaxGen = 2
  Events = {"hnsw", "reshard", "compact", "drop", "io", "warmup"}
INVARIANTS
  OwnsGpuPointers
  NoGraphLeak
