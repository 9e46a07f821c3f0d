CONSTANTS
  Jobs = {j1}
  Runs = {r1, r2, r3}
  NoJob = NoJob
  Kinds = {"progress"}
  Payloads = {0}
  MaxFence = 3
  MaxLog = 6
SPECIFICATION Spec
SYMMETRY Symmetry
INVARIANTS TypeOK OneFencedRun LogFollowsClaims TerminalEventClosesLog LogExplainsStatus RowConsistent
PROPERTIES TerminalIsFinal LifecycleSpec
CHECK_DEADLOCK FALSE
