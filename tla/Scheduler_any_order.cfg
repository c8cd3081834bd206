CONSTANTS
  Conditions = {a}
  MinValid = 2
  MaxValid = 3
  MinBlocks = 2
  MaxBlocks = 2
  Discipline = "any"
  TornWrites = TRUE
  MaxSessions = 3
  MaxFaults = 2
SPECIFICATION Spec
INVARIANTS
  ClaimsCovered
CHECK_DEADLOCK FALSE
