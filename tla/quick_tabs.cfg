CONSTANTS
  Nothing = Nothing
  Throwing = Throwing
  Unpriced = Unpriced
  NoMarket = NoMarket
  a = a
  b = b
  t = t
  u = u
  tab1 = tab1
  tab2 = tab2
  Tabs <- TwoTabs
  Tokens <- TwoTokens
  Accounts <- TwoAccounts
  NoAccount = NoAccount
  NoToken = NoToken
  Silent <- LastToken
  Lots <- Pairs
  MaxOpen = 1
  MaxTx = 3
  MaxUpsets = 2
SPECIFICATION SpecVisit
SYMMETRY AnyTabOrAccount
CHECK_DEADLOCK FALSE
INVARIANTS DialogAnswersItsFlow BooksMatchChain ConfirmedIsRecorded
