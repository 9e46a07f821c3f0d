CONSTANTS
  Jobs = {j1}
  Runs = {r1, r2}
  NoJob = NoJob
  Kinds = {"meta", "reset", "token", "model_completed", "business_committed", "done"}
  Payloads = {0}
  MaxFence = 2
  MaxLog = 40
  MaxTokens = 2
SPECIFICATION CalmSpec
INVARIANTS CrashesAreSurvived
CHECK_DEADLOCK FALSE
