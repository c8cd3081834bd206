CONSTANTS
  StartRps = 10
  Factor = 2
  MaxRps = 40
  RefinementSteps = 2
  SummaryFactors = {"DROPPED_ITERATIONS", "TEMPO_TRACE_MISSING"}
  Latencies = {1, 3}
  MaxInvalid = 0
  MaxFaults = 1
  TornWrites = FALSE
SPECIFICATION FairSpec
PROPERTIES
  SearchDecides
