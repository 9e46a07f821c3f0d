CONSTANTS
  Jobs = {j1}
  Runs = {r1, r2}
  Callers = {r1, r2}
  NoJob = NoJob
  Kinds = {"meta", "reset", "token", "model_completed", "grounding.revision_required", "grounding.revision_retrieved", "grounding.revision_model_started", "grounding.proposal_validated", "done"}
  Payloads <- MCPayloads
  MaxFence = 3
  MaxLog = 40
  MaxRetries = 1
  MaxRepairs = 1
  MaxText = 2
  MaxFaults = 1
SPECIFICATION AtomicSpec
INVARIANTS AtomicTypeOK OneRevisionDispatch TokensAreOneText LedgerIsTrue
SYMMETRY Interchangeable
CHECK_DEADLOCK FALSE
