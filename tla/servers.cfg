CONSTANTS
  x = x
  y = y
  t = t
  u = u
  Unnamed = Unnamed
  NoLeader = NoLeader
  Tokens <- TwoTokens
  Names <- TwoNames
  NameOf <- XandY
  Pools <- ThreePools
  Sampled <- TwoTokens
  Days = 2
  Span = 1
  PerTick = 1
  Window = 1
  NPersonas = 2
  Vocabulary <- OnlyX
  Keep = 1
  FirstHead = 2
  MaxHead = 4
  MaxFails = 1
  MaxStops = 1
  MaxCrashes = 2
  MaxRuns <- OneIfLive
  NodeVocabulary <- AnyName
  NodeNameOf <- XandY
  Launched <- Later
  NodeKeep = 2
  EliminatedCap = 1
  ExclusionCap = 1
  NodeWindow = 2
  MaxClock = 3
  NodeRuns = 3
  MaxAppendFails = 1
  MaxUnread = 1
SPECIFICATION FairServer
CHECK_DEADLOCK FALSE
INVARIANTS LaunchesKept TheftsNoted RecordsStand FailedAppendsCostOne
PROPERTIES KeepsPromise LaunchesAnswered
