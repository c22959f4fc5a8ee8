SPECIFICATION ImageSpec
CONSTANTS
  r1 = r1  r2 = r2  a1 = a1  a2 = a2  o1 = o1  o2 = o2
  Makers = {r1, r2}
  Owners <- MCOwners
  OwnerOf <- MCOwnerOf
  NoOwner = NoOwner
  Objects = {o1, o2}
  NoObject = NoObject
  Admins = {a1, a2}
  DatabaseFails = TRUE
  MaxRows = 2
SYMMETRY MCSymmetry
INVARIANT ServedUnlessTakenBack
PROPERTY LeaseIsExclusive
CHECK_DEADLOCK FALSE
