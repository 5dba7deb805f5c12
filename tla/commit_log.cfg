CONSTANTS
  x = x
  y = y
  t = t
  u = u
  NPersonas = 2
  Names <- TwoNames
  Vocabulary <- LastName
  Tokens <- OneToken
  NameOf <- AllX
  Launched <- AtOnce
  Unnamed = Unnamed
  NoLeader = NoLeader
  Keep = 2
  EliminatedCap = 1
  ExclusionCap = 2
  Window = 0
  MaxClock = 1
  MaxRuns = 2
  MaxSaves = 1
  MaxServes = 1
  MaxCrashes = 1
  MaxAppendFails = 0
  MaxUnread = 0
SPECIFICATION SpecLogged
CHECK_DEADLOCK FALSE
INVARIANTS LedgerWithinLog RetainedTheftsNoted OneRecordPerTheft
PROPERTY KeepsPromise
