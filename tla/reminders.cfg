\* Two months, the first planned after the second and due later, two users,
\* and two scanners; a scan reminds three users and passes two tasks at most.
CONSTANTS
  s1 = s1
  s2 = s2
  None = None
  Lost = Lost
  Scanners = {s1, s2}
  Tasks = {1, 2}
  Users = {1, 2}
  AbleAtStart = {1, 2}
  PlannedAt <- MCPlannedAt
  DueAt <- MCDueAt
  Day = 1
  PageSize = 2
  MaxScanned = 2
  MaxRecipients = 3
  MaxClock = 1
  MaxChanges = 1
  MaxFaults = 1
SPECIFICATION FairSpec
INVARIANTS
  TypeOK
  AtMostOneReplay
PROPERTY EveryoneReminded
