SPECIFICATION FairSpec
CONSTANTS
  t1 = t1
  t2 = t2
  t3 = t3
  k1 = k1
  k2 = k2
  Threads = {t1, t2, t3}
  Keys = {k1, k2}
  KeyOf <- MCKeyOf
  BatchMax = 2
INVARIANTS
  TypeOK
  NoDanglingRequest
  NoOrphanRequest
  RepliesAreComputed
PROPERTIES
  EveryWaiterLeaves
  ShutdownCompletes
\* The daemon stops after SIGTERM: the terminal state is intended.
CHECK_DEADLOCK FALSE
