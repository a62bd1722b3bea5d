\* Two callers under fair scheduling, an exchange that fails and recovers.
SPECIFICATION FairSpec
CONSTANTS
  c1 = c1
  c2 = c2
  Callers <- TwoCallers
  Depth = 3
  Delisted <- ThirdDelisted
  Capacity = 3
  Threshold = 2
  ResetAfter = 2
  MaxRetries = 1
  BaseDelay = 1
  Interval = 4
INVARIANTS
  AdmissionsAreLimited
PROPERTIES
  BreakerRecovers
  SymbolsAreRefreshed
