CONSTANTS
  x = x
  y = y
  t = t
  u = u
  NPersonas = 1
  Names <- TwoNames
  Vocabulary <- SameWords
  Tokens <- TwoTokens
  NameOf <- XandY
  Launched <- Later
  Unnamed = Unnamed
  NoLeader = NoLeader
  Keep = 2
  EliminatedCap = 1
  ExclusionCap = 2
  Window = 2
  MaxClock = 2
  MaxRuns = 3
  MaxSaves = 0
  MaxServes = 0
  MaxCrashes = 1
  MaxAppendFails = 0
  MaxUnread = 0
SPECIFICATION Spec
CHECK_DEADLOCK FALSE
INVARIANTS OneRunPerId
