CONSTANTS
  Launch <- PastAndLive
  Sampled <- AllTokens
  Oldest = 1
  Edge = 5
  Chunk = 2
  Window = 2
  Grace = 1
  SlowBatch = 1
  MaturedPerTick = 2
  MaxClock = 7
  MaxCrashes = 1
  MaxFails = 0
  MaxSaves = 1
  CanStop = TRUE
SPECIFICATION Spec
CHECK_DEADLOCK FALSE
INVARIANTS LaunchesAccounted LiveLaunchesFollowed
PROPERTIES OneVenueLabelledOnce CursorsNeverTurnBack
