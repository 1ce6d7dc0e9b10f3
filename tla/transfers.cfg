\* Three uploads and two downloads by two actors, each limit met by some of them,
\* over two windows; one actor's admissions are remembered.
CONSTANTS
  u1 = u1
  u2 = u2
  u3 = u3
  d1 = d1
  d2 = d2
  Ann = Ann
  Bob = Bob
  Services = {"upload", "download"}
  Uploading = {"upload"}
  Requests = {u1, u2, u3, d1, d2}
  Actors = {Ann, Bob}
  Targets = {"project", "x", "y"}
  ServiceOf <- MCServiceOf
  ActorOf <- MCActorOf
  TargetOf <- MCTargetOf
  GlobalLimit <- MCGlobalLimit
  PerActorLimit <- MCPerActorLimit
  PerTargetLimit <- MCPerTargetLimit
  RateMax <- MCRateMax
  Window = 2
  SweepInterval = 1
  TrackerMax = 1
  MaxClock = 4
SPECIFICATION FairSpec
CHECK_DEADLOCK FALSE
INVARIANTS
  CountersMatchLeases
  UseWithinLimits
  RateKept
PROPERTY LeaseReturns
