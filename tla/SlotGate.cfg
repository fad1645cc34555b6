SPECIFICATION FairSpec
CONSTANTS
  Proc = {p1, p2, p3}
  Inode = {i1, i2, i3}
  None = None
  Limit = 2
  Ephemeral = TRUE
  Posix = FALSE
  MaxCalls = 2
INVARIANT TypeOK
INVARIANT CapHolds
PROPERTY ImplementsSemaphore
PROPERTY WaiterServed
CHECK_DEADLOCK FALSE
