CONSTANTS
  Nothing = Nothing
  Throwing = Throwing
  Unpriced = Unpriced
  NoMarket = NoMarket
  a = a
  b = b
  t = t
  u = u
  tab1 = tab1
  tab2 = tab2
  Tabs <- OneTab
  Tokens <- TwoTokens
  Accounts <- OneAccount
  NoAccount = NoAccount
  NoToken = NoToken
  Silent <- NoTokens
  Lots <- OneOrTwo
  MaxOpen = 2
  MaxTx = 4
  MaxUpsets = 0
SPECIFICATION SpecVisit
CHECK_DEADLOCK FALSE
INVARIANT ProceedsAreTheSales
