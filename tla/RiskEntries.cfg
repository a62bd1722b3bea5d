\* Profits, losses and profile limits of three traders of one portfolio, two worker processes.
SPECIFICATION Spec
CONSTANTS
  t1 = t1
  t2 = t2
  t3 = t3
  w1 = w1
  w2 = w2
  Traders <- ThreeTraders
  Workers <- TwoWorkers
  strategy <- OneOfEach
  Prices <- TwoPrices
  Quote = 1000000
  Ceiling = 2100000
  Capital = 2100000
  MaxTradeAmount = 1200000
  MaxAllocatedCapital = 2100000
  MaxExposure = 2100000
  MaxPosition = 1300000
  MaxPositions = 5
  MaxDailyLoss = 500
  MaxDrawdown = 2000000
  PortfolioExposure = 6300000
  PortfolioDailyLoss = 140000
  MaxTrades = 3
SYMMETRY Interchangeable
INVARIANTS
  BooksBalance
PROPERTIES
  NoEntryAfterTheLoss
  EntriesFitTheLimits
