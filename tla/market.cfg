CONSTANTS
  Failed = Failed
  Limited = Limited
  Absent = Absent
  Unusable = Unusable
  t = t
  u = u
  w = w
  v = v
  NoToken = NoToken
  Tokens <- ThreeTokens
  Visitors <- OneVisitor
  Namings <- CatsOrNot
  Ranking <- ThreeByScore
  Enabled = TRUE
  EthTtl = 1
  NoTtl = 2
  OkTtl = 3
  MaxAge = 4
  Minute = 1
  ChecksPerRun = 1
  BuildsPerMinute = 1
  MaxErrors = 1
  MaxChanges = 1
SPECIFICATION FairScene
CHECK_DEADLOCK FALSE
INVARIANT OfferIsFresh
PROPERTIES SwapsWereOffered CandidatesChecked
