SPECIFICATION Spec
CONSTANTS
  Caller = {c1}
  NoCaller = NoCaller
  NoRecord = NoRecord
  Unreadable = Unreadable
  MaxCalls = 2
  MaxResults = 1
PROPERTY FailureIsRetried
SYMMETRY Symmetry
CHECK_DEADLOCK FALSE
