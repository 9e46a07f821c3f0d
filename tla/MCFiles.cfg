SPECIFICATION Spec
CONSTANTS
  f1 = f1
  f2 = f2
  Files = {f1}
  Order <- OneFile
  Parsed = {f1}
  Versions = {v1, v2}
  Workers = {w1, w2}
  Publishers = {p1}
  Recoverers = {r1}
  Brokers = {b1, b2}
  MaxGen = 2
  MaxTries = 2
  MaxFaults = 2
  MaxFence = 3
  None = None
INVARIANTS TypeOK CommittedFilesExist UploadedBytesSurvive DoneMatchesActive
PROPERTIES DoneIsKept
CHECK_DEADLOCK FALSE
