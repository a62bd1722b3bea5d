\* Two worker processes under fair scheduling.
SPECIFICATION FairSpec
CONSTANTS
  j1 = j1
  j2 = j2
  w1 = w1
  w2 = w2
  Jobs <- OneJob
  Workers <- TwoWorkers
  Capital = 2
  Sizes = {1}
  BuyLevels = {}
  SellLevels = {}
  MaxAttempts = 2
  MaxStalls = 1
PROPERTIES
  ImplementsLedger
  JobsSettle
  ReservationsSettle
