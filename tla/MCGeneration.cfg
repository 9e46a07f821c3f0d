CONSTANTS
  Jobs = {j1}
  Runs = {r1, r2}
  NoJob = NoJob
  Kinds = {"meta", "reset", "token", "model_completed", "business_committed", "done"}
  Payloads = {0}
  MaxFence = 3
  MaxLog = 40
  MaxTokens = 2
SPECIFICATION GenSpec
INVARIANTS GenTypeOK PublishesLatestDraft DoneOnceAndCommitted NoRegeneration AttemptsAreNumbered PausedIsUnpublished
PROPERTIES JobsSettle Spec
CHECK_DEADLOCK FALSE
