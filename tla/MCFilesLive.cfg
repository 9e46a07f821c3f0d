SPECIFICATION Spec
CONSTANTS
  f1 = f1
  f2 = f2
  Files = {f1, f2}
  Order <- TwoFiles
  Parsed = {f1}
  Versions = {v1}
  Workers = {w1}
  Publishers = {p1}
  Recoverers = {r1}
  Brokers = {b1}
  MaxGen = 2
  MaxTries = 2
  MaxFaults = 1
  MaxFence = 3
  None = None
PROPERTIES IntentsResolve PendingIsTaken
CHECK_DEADLOCK FALSE
