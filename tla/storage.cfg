\* Two uploads under a quota of one, two reconcilers that overlap, three failures.
CONSTANTS
  u1 = u1
  u2 = u2
  r1 = r1
  r2 = r2
  Uploads = {u1, u2}
  Legacy = {}
  Reconcilers = {r1, r2}
  Quota = 1
  Capacity = 4
  MaxFaults = 3
SPECIFICATION Spec
SYMMETRY StorageSymmetry
INVARIANTS
  TypeOK
  CleanIsBacked
  PurgedLeaveNoBytes
  QuotaKept
PROPERTIES
  EndsAreFinal
