CONSTANTS
  NJobs = 2
  Poison = {1}
  ScanLimit = 2
  MaxConcurrency = 1
  MaxFaults = 2
SPECIFICATION Spec
INVARIANTS TypeOK ScansLeaveNothingPending
PROPERTIES JobsAreClaimed
CHECK_DEADLOCK FALSE
