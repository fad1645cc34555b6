SPECIFICATION FairSpec
CONSTANTS
  Caller = {c1, c2}
  NoCaller = NoCaller
  NoRecord = NoRecord
  Unreadable = Unreadable
  MaxCalls = 2
  Results <- StageAware
PROPERTY StaleRunRecovered
CHECK_DEADLOCK FALSE
