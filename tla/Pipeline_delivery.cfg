CONSTANTS
  Batches = {b1}
  TaskCount = 2
  Workers = {w1, w2}
  Partitions = {p1}
  CacheSize = 1
  MaxPoll = 2
  MaxFaults = 1
  MaxMoves = 2
SPECIFICATION FairSpec
INVARIANTS
  TypeOK
  AcknowledgedHasOutcome
  ReworkIsExplained
PROPERTIES
  BacklogDrains
  ImplementsQueue
CHECK_DEADLOCK FALSE
