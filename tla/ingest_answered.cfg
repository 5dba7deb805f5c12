CONSTANTS
  Launch <- Mixed
  Sampled <- AllTokens
  Oldest = 1
  Edge = 5
  Chunk = 2
  Window = 2
  Grace = 1
  SlowBatch = 1
  MaturedPerTick = 2
  MaxClock = 8
  MaxCrashes = 0
  MaxFails = 1
  MaxSaves = 0
  CanStop = FALSE
SPECIFICATION FairSpec
CHECK_DEADLOCK FALSE
PROPERTIES LabelsStay EveryLaunchAnswered
