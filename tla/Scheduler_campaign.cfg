CONSTANTS
  Conditions = {a, b}
  MinValid = 2
  MaxValid = 3
  MinBlocks = 2
  MaxBlocks = 2
  Discipline = "latest"
  TornWrites = TRUE
  MaxSessions = 2
  MaxFaults = 1
SPECIFICATION FairSpec
INVARIANTS
  TypeOK
  NoRunRecordedTwice
  Accounting
  ValidRunsBounded
  YieldBounded
PROPERTIES
  ImplementsLedger
  SessionFinishes
  CampaignDecided
CHECK_DEADLOCK FALSE
