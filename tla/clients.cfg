CONSTANTS
  Native = Native
  Weth = Weth
  NoPool = NoPool
  a = a
  b = b
  c = c
  Callers <- ThreeCallers
  Concurrency = 2
  Retries = 1
  Pause = 2
  MaxGap = 2
  MaxCalls = 4
  Clients <- ThreeCallers
  Attempts = 2
  LowShare = 2
  GeckoPause = 2
  MaxWait = 2
  MaxAsks = 4
SPECIFICATION FairClients
CHECK_DEADLOCK FALSE
INVARIANTS SlotsUsed LowLaneServed QuietAfterRefusal
PROPERTY EveryCallEnds
