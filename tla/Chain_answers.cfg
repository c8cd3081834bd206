CONSTANTS
  Requests = {r1, r2}
  MaxHops = 4
  Services <- ThreeServices
  Threads = 1
  MaxFaults = 1
SPECIFICATION FairSpec
INVARIANTS
  TypeOK
  AnswerIsExplained
  NoHopBeginsLate
PROPERTIES
  ChainAnswered
CHECK_DEADLOCK FALSE
