\* One worker process and a grid bot: crashes, retries and redeliveries, but no overlap.
SPECIFICATION Spec
CONSTANTS
  j1 = j1
  j2 = j2
  w1 = w1
  w2 = w2
  Jobs <- TwoJobs
  Workers <- OneWorker
  Capital = 2
  Sizes = {2}
  BuyLevels = {"buy1"}
  SellLevels = {"sell1"}
  MaxAttempts = 2
  MaxStalls = 0
INVARIANTS
  OrdersKeepTheirBacking
  NeverOverReserved
