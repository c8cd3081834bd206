CONSTANTS
  Conditions = {a}
  Services = {g}
  Replacements = TRUE
  MaxRuns = 1
  MaxFaults = 0
  MaxDisturbances = 1
SPECIFICATION Spec
INVARIANTS
  ValidMeansNoRestart
CHECK_DEADLOCK FALSE
