SPECIFICATION SpecH
CONSTANTS
  Threads = {t1, t2, t3}
  NBuilds = 2
  NIds = 4
SYMMETRY Symmetry
INVARIANTS
  TypeOK
  NothingFreedUnexplained
  PinsNeverStuck
  AwaitedAnswersMapped
  NothingLeaked
