\* Connections and capital, the gates of a submission, the limits of a bot.
SPECIFICATION MCSpec
CONSTANTS
  c1 = c1
  c2 = c2
  b1 = b1
  b2 = b2
  r1 = r1
  r2 = r2
  o1 = o1
  o2 = o2
  j1 = j1
  j2 = j2
  buy1 = buy1
  buy2 = buy2
  sell1 = sell1
  Connections <- TwoConnections
  Bots <- TwoBots
  Link <- LinkBoth
  Authorized <- AuthorizedBoth
  Available <- Offers
  MaxConnections = 2
  KeysTried <- AllKeys
  Callers <- TwoCallers
  OneByOne = TRUE
  MaxClaims = 6
  Orders <- OrderOfEach
  Trader <- TraderOf
  Jobs <- TwoJobs
  Buys <- TwoBuys
  Sells <- OneSell
  Submitters = {"s1"}
  Prices <- Closes
  SaleFee = 1
  Deposit = 8
  Capital = 8
  MaxTrade = 4
  MaxExposure = 8
  MaxPositionValue = 4
  MaxPositions = 2
  MaxLoss = 2
  MaxDrawdown = 2
  MaxDays = 2
  Amounts <- SomeAmounts
  Notionals <- SomeNotionals
  Filters <- SomeFilters
  None = None
INVARIANTS
  ConnectedKeysWereSafe
  ClaimsAreCovered
  StopsStopOrders
  BooksMatchTheWallet
  PostedOrdersKeepTheRules
