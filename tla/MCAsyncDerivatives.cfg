SPECIFICATION Spec
CONSTANTS
  w1 = w1  w2 = w2  j1 = j1  j2 = j2  o1 = o1  o2 = o2  a1 = a1
  Jobs = {j1, j2}
  Workers = {w1, w2}
  NoWorker = NoWorker
  MaxAttempts <- MCMaxAttempts
  Makers = {w1, w2}
  Owners = {j1, j2}
  NoOwner = NoOwner
  Objects = {o1, o2}
  NoObject = NoObject
  Admins = {a1}
  DatabaseFails = TRUE
  MaxRows = 2
SYMMETRY MCSymmetry
INVARIANT AbandonedOnlyWhenExhausted
INVARIANT BytesStayListed
PROPERTY PublishedOnce
CHECK_DEADLOCK FALSE
