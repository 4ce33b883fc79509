SPECIFICATION Spec
CONSTANTS
    Calls = {1}
    Parts = {"leader", "worker1", "worker2"}
    Leader = "leader"
    Reapers = {"reaper"}
    KindSet <- MCKinds
INVARIANTS NothingLeftBehind LiveCorpusKept
PROPERTY CallsSettle
