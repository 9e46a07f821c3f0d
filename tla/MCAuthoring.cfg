CONSTANTS
  Jobs = {j1}
  Runs = {r1, r2}
  NoJob = NoJob
  Kinds = {"node", "recovered", "sealed", "shadow", "committed", "done"}
  Payloads = {0}
  MaxFence = 4
  MaxLog = 60
SPECIFICATION AuthSpec
INVARIANTS AuthTypeOK PublishedIsApproved OneOpenProposal WaitingIsCommittable
PROPERTIES DeadEndPublishesNothing Spec
CHECK_DEADLOCK FALSE
