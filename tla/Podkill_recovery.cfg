CONSTANTS
  ScrapeEvery = 3
  RateWindow = 6
  EvalEvery = 2
  Sustained = 3
  KillAt = 6
  KillLag = 1
  Duration = 17
  Grace = 1
  MaxRepeats = 1
  MaxFaults = 0
SPECIFICATION FairSpec
INVARIANTS
  NoneIfNeverRecovered
CHECK_DEADLOCK FALSE
