\* One status request at a time, two bots that compete for the portfolio.
SPECIFICATION Spec
CONSTANTS
  b1 = b1
  b2 = b2
  Bots <- TwoBots
  Requests = {"r1"}
  Authorized <- AuthorizedTwo
  Initial = 2
  Moves <- LossOrProfit
  MaxFree = 2
  MaxCash = 2
  MaxRows = 1
INVARIANTS
  PortfolioBacksAllocations
  RunningHoldsAllocation
PROPERTIES
  ImplementsPool
