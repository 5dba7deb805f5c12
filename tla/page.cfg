CONSTANTS
  NaN = NaN
  Absent = Absent
  t = t
  Tokens <- OneToken
  Polls <- TwoInFlight
  Asks <- TwoInFlight
  Mirrored <- Alternating
  Settings <- TwoSettings
  FirstReady = 1
  FeedCap = 2
  MaxEvents = 3
  MaxWire = 2
SPECIFICATION FairSpec
CHECK_DEADLOCK FALSE
INVARIANT BootLowerFits
PROPERTIES NumbersConverge IdeasFollow
