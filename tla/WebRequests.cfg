\* Two requests of a browser, two calls of the API, two edits of a bot's limits, a trader's card and notices, backtests, the pages of a user's bots.
SPECIFICATION MCSpec
CONSTANTS
  q1 = q1
  q2 = q2
  c1 = c1
  c2 = c2
  u1 = u1
  k1 = k1
  e1 = e1
  e2 = e2
  btc = btc
  eth = eth
  n1 = n1
  n2 = n2
  p1 = p1
  b1 = b1
  b2 = b2
  x1 = x1
  x2 = x2
  Requests <- TwoRequests
  Locales <- English
  Currencies <- DollarsReais
  Admins <- FirstLogin
  AccessLife = 2
  RefreshLife = 2
  LoginLife = 1
  Margin = 1
  MaxLogins = 2
  MaxTime = 2
  Calls <- TwoCalls
  Keys <- OneKey
  Users <- OneUser
  Locale <- English
  Currency <- Dollars
  Window = 2
  MaxRequests = 1
  MaxCount = 3
  MaxTicks = 3
  Editors <- TwoEditors
  Symbol <- TwoSymbols
  Amount <- SmallAmounts
  Percentage <- SomePercentages
  Prices <- SomePrices
  FeeShare = 16
  MaxUnits = 2
  MaxFills = 4
  MaxDay = 3
  Capital = 1600
  Cycles <- TwoCycles
  Proposals <- OneProposal
  Stored <- WithAnInterval
  Sinces <- NeverOrNow
  Spents <- NothingToAll
  Closes <- TwoCloses
  Limits <- DailyLossLimit
  DefaultInterval = 1
  DedupeWindow = 1
  MaxInstant = 2
  MaxNotices = 2
  Candles <- SomeCandles
  MaxCandles = 5
  FeePercent = 1
  Presets <- TwoPresets
  Trend <- TrendParameters
  Dca <- DcaParameters
  Grid <- GridParameters
  Breakout <- BreakoutParameters
  SinceEntry = 2
  Panelled <- TwoBots
  FirstListed = b1
  LimitValues <- TwoLimits
  Slot <- TwoSlots
  BotName <- TwoBots
  Click <- TwoClicks
  Followed <- FirstBot
  MaxLost = 1
SYMMETRY Interchangeable
\* A stored backtest is over; the bounded clocks stop.
CHECK_DEADLOCK FALSE
INVARIANTS
  CookieIsAsTold
  RefusalsAreEarned
  LimitsFitTheBot
  TodayIsTheChange
  NoticesAreSpaced
  WaitsAreExplained
  MetricsAddUp
  LimitsStayWithTheirBot
  DraftsAreCutShort
PROPERTIES
  BlocksAreNotLiftedUnseen
