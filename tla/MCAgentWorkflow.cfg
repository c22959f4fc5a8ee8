SPECIFICATION Spec
CONSTANTS
    k1 = k1
    a1 = a1
    Calls = {c1, c2}
    Jobs = {k1}
    Assets = {a1}
    Workers = {w1, w2}
    NoWorker = NoWorker
    NoCall = NoCall
    Key <- MCKey
    Target <- MCTarget
    MaxAttempts <- MCMaxAttempts
    TimeToLive = 1
    WallTime = 0
    MaxClock = 1
    MaxWrites = 2
INVARIANTS ReviewedOrSimultaneous StuckOnlyWhenExhausted CancellationRevokes
PROPERTIES ImplementsApproval
SYMMETRY Symmetric
CHECK_DEADLOCK FALSE
