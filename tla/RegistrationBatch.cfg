SPECIFICATION FairSpec
CONSTANTS
  Address = {1, 2, 3}
  Count = 3
  Mode = {"sequential", "pool", "pulse"}
  Workers = 2
  MaxAttempts = 2
  BreakAfter = 2
  WaveSize = 2
  MaxWaves = 2
  BanThreshold = 2
  Pool = 1
  CooldownAfter = 2
  QuarantineAfter = 2
  MaxExpiries = 1
  Outcome = {"ok", "network", "stuck", "cancelled"}
  Shared = {1}
  MaxTrouble = 1
INVARIANT TypeOK
INVARIANT OneVerdictEach
INVARIANT TripsOnStreak
PROPERTY VerdictKept
PROPERTY BatchEnds
CHECK_DEADLOCK FALSE
