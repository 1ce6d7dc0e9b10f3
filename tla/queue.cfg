\* Two new notices and one of an earlier process, short queues.
CONSTANTS
  n1 = n1
  n2 = n2
  old = old
  Recipient = Recipient
  Notices = {n1, n2, old}
  Leftover = {old}
  Users = {Recipient}
  UserOf <- OneRecipient
  Keys = {"key"}
  KeyOf <- KeyOfKeyed
  Keyed = {}
  Scans = {"overdue"}
  RedisMax = 2
  MemoryMax = 1
  MaxRetries = 2
  Batch = 2
  MaxOutages = 1
  MaxFailures = 1
SPECIFICATION FairSpec
CHECK_DEADLOCK FALSE
INVARIANTS
  NothingVanishes
  NoticesInOrder
PROPERTIES
  CleanExitHolds
  EveryNoticeSettles
  DrainCompletes
