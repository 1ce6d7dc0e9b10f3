\* Two notices for one recipient, nothing failing.
CONSTANTS
  n1 = n1
  n2 = n2
  Recipient = Recipient
  Notices = {n1, n2}
  Leftover = {}
  Users = {Recipient}
  UserOf <- OneRecipient
  Keys = {"key"}
  KeyOf <- KeyOfKeyed
  Keyed = {}
  Scans = {}
  RedisMax = 2
  MemoryMax = 1
  MaxRetries = 2
  Batch = 2
  MaxOutages = 0
  MaxFailures = 0
SPECIFICATION Spec
CHECK_DEADLOCK FALSE
INVARIANTS
  NoticesKeepApart
