CONSTANTS
  ScrapeEvery = 3
  RateWindow = 6
  EvalEvery = 2
  Sustained = 3
  KillAt = 9
  KillLag = 1
  Duration = 16
  Grace = 1
  MaxRepeats = 2
  MaxFaults = 1
SPECIFICATION FairSpec
INVARIANTS
  NumberIsFree
  RecoveryFollowsOutage
  RecoveryNotMissed
  KillHitsServing
  ForeignLoadExplained
PROPERTIES
  LaunchEnds
CHECK_DEADLOCK FALSE
