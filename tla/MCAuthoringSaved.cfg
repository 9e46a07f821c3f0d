CONSTANTS
  Jobs = {j1}
  Runs = {r1}
  NoJob = NoJob
  Kinds = {"node", "recovered", "sealed", "shadow", "committed", "done"}
  Payloads = {0}
  MaxFence = 5
  MaxLog = 60
SPECIFICATION AuthSpec
INVARIANTS ApprovedIsSaved
CHECK_DEADLOCK FALSE
