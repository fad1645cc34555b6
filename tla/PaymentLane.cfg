SPECIFICATION FairSpec
CONSTANTS
  Caller = {c1, c2, c3}
  NoCaller = NoCaller
  NoRecord = NoRecord
  Unreadable = Unreadable
  MaxCalls = 3
  Results <- StageAware
INVARIANT TypeOK
INVARIANT AtMostOneEffect
INVARIANT OneWriter
INVARIANT IInv
PROPERTY FinalRecordKept
PROPERTY RetryAgreesWithReplay
PROPERTY GateFreed
PROPERTY ImplementsAtMostOnce
CHECK_DEADLOCK FALSE
