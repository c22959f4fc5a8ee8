SPECIFICATION MCSpec
CONSTANTS
    i1 = i1
    Jobs = {i1, i2}
    Assets = {a1, a2}
    Excludable = {a1, a2}
    Workers = {w1, w2}
    NoWorker = NoWorker
    NoCollection = NoCollection
    Concurrency = 2
    MaxAttempts <- MCMoreAttempts
INVARIANTS OneActive RecordsAreBacked OnlyEarlierBuildsKeep
PROPERTIES OverIsOver
SYMMETRY Symmetric
CHECK_DEADLOCK FALSE
