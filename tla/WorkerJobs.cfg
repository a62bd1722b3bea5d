\* Two overlapping passes of the scheduler, two workers that store fills, two handlers of a runtime.
SPECIFICATION MCSpec
CONSTANTS
  s1 = s1
  s2 = s2
  key1 = key1
  w1 = w1
  w2 = w2
  buy = buy
  sell = sell
  f1 = f1
  f2 = f2
  f3 = f3
  id1 = id1
  h1 = h1
  h2 = h2
  Passes <- TwoPasses
  Interval = 2
  Keys <- OneKey
  MaxTime = 6
  MaxCrashes = 1
  PaperOrders <- BuyAndSell
  BuyOrders <- OnlyBuy
  Fills <- ThreeFills
  Workers <- TwoWorkers
  Requested = 2
  Funds = 3
  MaxFailures = 1
  JobIds <- OneId
  Slots <- TwoHandlers
  MaxAttempts = 2
  BaseBackoff = 1
  LockTtl = 2
  MaxDelay = 1
  MaxAccepted = 3
INVARIANTS
  OnlyOverlapsDiverge
  OverlapsOutliveTheLock
PROPERTIES
  ScheduleIsKept
  DivergencesAreCaught
  AcceptedJobsEnd
