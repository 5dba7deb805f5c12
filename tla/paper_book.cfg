CONSTANTS
  Nothing = Nothing
  a = a
  b = b
  Tokens = {a, b}
  OldFiles <- FirstOrEarly
  MaxOpen = 1
  MissedToClose = 3
  Confirmations = 2
  TimeStop = 1
  MaxClock = 1
  MaxOutages = 1
  MaxCrashes = 1
SPECIFICATION FairSpec
CHECK_DEADLOCK FALSE
INVARIANTS OncePerToken OpenWithinLimit ExitsConfirmed
PROPERTIES ResultsStay EveryPositionCloses
