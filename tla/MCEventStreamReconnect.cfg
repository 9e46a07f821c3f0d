CONSTANTS
  MaxLog = 4
  MaxDrops = 1
  MaxBatch = 2
  MaxAttempts = 3
SPECIFICATION UndisturbedSpec
PROPERTIES ReconnectedClientSettles
CHECK_DEADLOCK FALSE
