SPECIFICATION Spec
CONSTANTS
  Caller = {c1, c2}
  NoCaller = NoCaller
  NoRecord = NoRecord
  Unreadable = Unreadable
  MaxCalls = 2
  Results <- Careless
INVARIANT AtMostOneEffect
CHECK_DEADLOCK FALSE
