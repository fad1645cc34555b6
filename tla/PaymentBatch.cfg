SPECIFICATION FairSpec
CONSTANTS
  Item = {a1, a2}
  Process = {batch, q1}
  NoRead = NoRead
  NoItem = NoItem
  MaxFaults = 1
  Batch = batch
  Links = {{a1}, {a1, a2}}
  Workers = 2
  Retries = 1
  MaxRuns = 2
  MaxLinks = 1
INVARIANT TypeOK
 
INVARIANT LinkQueued
INVARIANT ChargedOnce
PROPERTY RowsStayVisible
PROPERTY RunEnds
CHECK_DEADLOCK FALSE
