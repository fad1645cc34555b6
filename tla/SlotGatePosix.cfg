SPECIFICATION Spec
CONSTANTS
  Proc = {p1, p2, p3}
  Inode = {i1, i2, i3, i4}
  None = None
  Limit = 1
  Ephemeral = TRUE
  Posix = TRUE
  MaxCalls = 1
INVARIANT CapHolds
SYMMETRY Symmetry
CHECK_DEADLOCK FALSE
