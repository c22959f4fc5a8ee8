SPECIFICATION MCSpec
CONSTANTS
    p1 = p1
    p2 = p2
    p3 = p3
    k1 = k1
    d1 = d1
    Puts = {p1, p2, p3}
    Keys = {k1}
    Key <- MCKey
    Sound = {p1, p2}
    Length <- MCLength
    Nothing = Nothing
    Deletes = {d1}
    Doomed <- MCDoomed
    Concurrency = 2
    MaxAttempts = 2
    pr1 = pr1
    pr2 = pr2
    Users = {u1, u2}
    Projects = {pr1, pr2}
    ApiKeys = {key1}
    AccessRequests = {r1, r2}
    MaxVersion = 3
    NoOne = NoOne
    Callers = {c1, c2}
    Threshold = 2
    Cooldown = 2
    Timeout = 1
    MaxCost = 1
    Budgets = {1, 2}
    Queries = 2
    MaxJudged = 2
INVARIANTS KeysSentAreListed SpendIsBounded
PROPERTIES ImplementsObjectStore StoredIsDurable SetupHappensOnce EditsSeeWhatTheyReplace UploadsEnterWithLeave CircuitRecovers
CHECK_DEADLOCK FALSE
