CONSTANTS
  StartRps = 20
  Factor = 2
  MaxRps = 40
  RefinementSteps = 4
  SummaryFactors = {"DROPPED_ITERATIONS", "TEMPO_TRACE_MISSING"}
  Latencies = {1, 3}
  MaxInvalid = 1
  MaxFaults = 1
  TornWrites = TRUE
SPECIFICATION FairSpec
INVARIANTS
  TypeOK
  Bracket
  OneVerdictPerRate
  PassesBelowFailures
  ReportHolds
PROPERTIES
  OnlyInterruptionBlocks
CHECK_DEADLOCK FALSE
