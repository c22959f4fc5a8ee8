SPECIFICATION Spec
CONSTANTS
    s1 = s1
    s2 = s2
    t1 = t1
    k = k
    Uploads = {s1, s2, t1}
    Simple = {s1, s2}
    Tus = {t1}
    Requests = {r1, r2}
    NoUpload = NoUpload
    NoFile = NoFile
    NoKey = NoKey
    Key <- MCKey
    Size <- MCSize
    MaxBytes = 3
    Quota = 4
    ReconcileLimit = 1
    MaxCrashes = 2
INVARIANTS QuotaHeld PublishedIsWhole DeletedIsGone OffsetIsDurable
PROPERTIES EndsOnce ImplementsQuotaLedger
SYMMETRY RequestSymmetry
CHECK_DEADLOCK FALSE
