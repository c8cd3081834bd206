CONSTANTS
  Conditions = {a, b}
  Services = {g}
  Replacements = TRUE
  MaxRuns = 2
  MaxFaults = 2
  MaxDisturbances = 2
SPECIFICATION Spec
SYMMETRY Symmetry
INVARIANTS
  TypeOK
  RestartInvalidates
  ValidLeavesNothing
  LeakCostsOneRun
  EvidenceComplete
PROPERTIES
  ImplementsContract
CHECK_DEADLOCK FALSE
