\* One process uses the engine for a BUY and a SELL.
SPECIFICATION Spec
CONSTANTS
  buy = buy
  sell = sell
  w1 = w1
  w2 = w2
  Orders <- BuyAndSell
  Workers <- OneWorker
  Bought <- OnlyBuy
  Size = 2
  MaxPosts = 2
INVARIANTS
  PostedOnce
  RowFollowsExchange
  PositionMatchesTrades
PROPERTIES
  ImplementsMirror
