\* Two checkouts of one user and the webhooks of two subscriptions.
SPECIFICATION Spec
CONSTANTS
  r1 = r1
  r2 = r2
  h1 = h1
  h2 = h2
  k1 = k1
  k2 = k2
  s1 = s1
  s2 = s2
  b1 = b1
  b2 = b2
  STARTER = STARTER
  ADVANCED = ADVANCED
  None = None
  Requests <- TwoRequests
  Hooks <- TwoHooks
  Customers <- TwoCustomers
  Subs <- TwoSubs
  Bots <- OneBot
  Paid <- TwoTiers
  PlanLimit <- OneEach
  MaxEvents = 2
  MaxFree = 2
SYMMETRY Symmetry
INVARIANTS
  AckedEventsAreApplied
  PaidPlanInForce
