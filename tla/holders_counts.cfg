CONSTANTS
  c = c
  d = d
  h = h
  Tokens <- LiveAndPast
  Live <- LiveOnes
  Curves <- AllCurves
  TwoVenues <- PastCurve
  Broken <- AllCurves
  Parallel = 1
  Backlog = 1
  MaxTries = 2
  MaxShows = 1
  MaxFails = 0
  MaxSaves = 1
  MaxCrashes = 2
  MaxUpgrades = 1
SPECIFICATION FairSpec
CHECK_DEADLOCK FALSE
INVARIANTS LabelledHasJob WatchedCurvesQueued CountsAtOneMark
PROPERTIES CountsStay EveryLabelledCounted HistoryResumes
