SPECIFICATION MCSpec
CONSTANTS
    i1 = i1
    Jobs = {i1, i2}
    Assets = {a1}
    Excludable = {}
    Workers = {w1, w2}
    NoWorker = NoWorker
    NoCollection = NoCollection
    Concurrency = 1
    MaxAttempts <- MCMoreAttempts
PROPERTIES ActiveUntilReplaced
SYMMETRY Symmetric
CHECK_DEADLOCK FALSE
