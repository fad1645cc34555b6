SPECIFICATION Spec
CONSTANTS
  Caller = {c1, c2}
  NoCaller = NoCaller
  NoRecord = NoRecord
  Unreadable = Unreadable
  MaxCalls = 4
  MaxResults = 2
INVARIANT TypeOK
INVARIANT RowHasItsFile
INVARIANT OncePerResult
PROPERTY RefusedMeansSaved
PROPERTY CompletedClosesKey
SYMMETRY Symmetry
CHECK_DEADLOCK FALSE
