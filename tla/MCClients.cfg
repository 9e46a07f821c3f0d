CONSTANTS
  MaxLog = 5
  MaxDrops = 2
  MaxBatch = 2
  MaxAttempts = 1
  MaxJobs = 2
  Eventful = {1}
  MaxEvents = 2
  PageSize = 2
  MaxTroubles = 1
SPECIFICATION ClientsSpec
INVARIANTS ClientsTypeOK SeenGapless
PROPERTIES OutcomeIsShown ResultIsLoaded
CHECK_DEADLOCK FALSE
