SPECIFICATION FairSpec
CONSTANTS
  Proc = {1, 2}
  alice = alice
  bob = bob
  Check <- Checks
  NoProc = NoProc
  NoSection = NoSection
  Concurrent = FALSE
  Lease = 1
  Recent = 1
  PendingTTL = 1
  MaxPending = 2
  MaxJobs = 2
  MaxTime = 2
  MaxFaults = 2
INVARIANT TypeOK
INVARIANT NoDuplicateActive
INVARIANT SerializedPerAccount
PROPERTY JobsKept
PROPERTY WaitingServed
CHECK_DEADLOCK FALSE
