SPECIFICATION Spec
CONSTANTS
  Proc = {1, 2}
  alice = alice
  bob = bob
  Check <- Checks
  NoProc = NoProc
  NoSection = NoSection
  Concurrent = TRUE
  Lease = 1
  Recent = 1
  PendingTTL = 1
  MaxPending = 2
  MaxJobs = 2
  MaxTime = 0
  MaxFaults = 0
PROPERTY JobsKept
CHECK_DEADLOCK FALSE
