\* Two uploads compete for room for one beside a legacy file, one reconciler, one failure.
CONSTANTS
  u1 = u1
  u2 = u2
  l1 = l1
  r1 = r1
  Uploads = {u1, u2}
  Legacy = {l1}
  Reconcilers = {r1}
  Quota = 2
  Capacity = 1
  MaxFaults = 1
SPECIFICATION FairSpec
INVARIANT AdmittedFits
PROPERTIES HistoryBytesStay ReservationsSettle
