CONSTANTS
  Requests = {r1}
  MaxHops = 2
  Services <- TwoServices
  Threads = 1
  MaxFaults = 0
SPECIFICATION Spec
INVARIANTS
  DeadlineReported
CHECK_DEADLOCK FALSE
