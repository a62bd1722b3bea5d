------------------------------ MODULE Backtest ------------------------------
(***************************************************************************)
(* A backtest: BacktestsService.run feeds the persisted candles of a       *)
(* period to runBacktest (packages/backtesting), which asks a strategy at  *)
(* every candle and keeps cash, a position, fees and the measures of the   *)
(* result.  The model draws the candles one by one.                        *)
(*                                                                         *)
(* Amounts are integers and the fee rate is a percentage; capital and      *)
(* prices are such that an entry buys a whole quantity.                    *)
(***************************************************************************)
EXTENDS StrategySignals

CONSTANTS Capital,      \* initialCapital
          Candles,      \* candles of the period: records [open, high, low, close, volume]
          MaxCandles,   \* bound on the length of the period
          FeePercent,   \* feeRate
          Presets,      \* quarters of the capital spent on an entry: 1, 2, 3
          Trend, Dca, Grid, Breakout,  \* the parameters of a request
          SinceEntry    \* time since the last purchase that the service claims

ASSUME BacktestAssumption ==
  /\ Capital \in Nat \ {0}
  /\ MaxCandles \in Nat \ {0}
  /\ FeePercent \in 0 .. 99
  /\ Presets \subseteq 1 .. 3
  /\ \A candle \in Candles : candle.low =< candle.close /\ candle.close =< candle.high
  /\ \A candle \in Candles : candle.close \in Nat \ {0}
  /\ Grid \in [lower : Int, upper : Int, levels : Int, maxVolatility : Int]
  /\ \A preset \in Presets, candle \in Candles : ((Capital * preset) \div 4) % candle.close = 0

VARIABLES
  request,    \* the strategy and the preset of the request, NoRequest before it
  history,    \* candles up to the present one
  account,    \* BacktestState, without its equity
  curve,      \* equityCurve
  tradePnl,   \* the profit of each sale
  drawdown,   \* peak and maxDrawdown, the latter as a fall [num, den]
  result      \* the stored metrics

backtestVars == <<request, history, account, curve, tradePnl, drawdown, result>>

-----------------------------------------------------------------------------
Strategies == {"trend-following", "dca", "grid", "breakout"}
NoRequest == [strategy |-> "none"]
NoResult == [tradeCount |-> -1]
Entry(preset) == (Capital * preset) \div 4
Spent == Capital - account.cash
Close == Last(history).close

\* The service passes the entry and the capital to each strategy under its names.
WithCapital(p, preset) ==
  LET amounts == [quote |-> Entry(preset), maxCapital |-> Capital, capital |-> Entry(preset)] IN
  [field \in DOMAIN p \cup DOMAIN amounts |->
     IF field \in DOMAIN amounts THEN amounts[field] ELSE p[field]]
Accepted(strategy, preset) ==
  CASE strategy = "trend-following" -> ValidTrend(WithCapital(Trend, preset))
    [] strategy = "dca" -> ValidDca(WithCapital(Dca, preset))
    [] strategy = "breakout" -> ValidBreakout(WithCapital(Breakout, preset))
    [] strategy = "grid" -> ValidGrid(WithCapital(Grid, preset))

\* The first grid order that the close reaches; a sale takes no more than is held.
GridSignal(orders) ==
  LET side == IF account.quantity = 0 THEN "BUY" ELSE "SELL"
      reached == {i \in DOMAIN orders :
                    /\ orders[i].side = side
                    /\ IF side = "BUY" THEN Close =< orders[i].price ELSE Close >= orders[i].price}
      quote == orders[Min(reached)].quote
  IN
  IF reached = {} THEN Hold
  ELSE IF side = "BUY" THEN Buy(quote)
  ELSE Sell(Min({account.quantity, quote \div Close}))

\* The callback the service gives to the engine.
Signal ==
  LET p(parameters) == WithCapital(parameters, request.preset) IN
  CASE request.strategy = "trend-following" ->
         TrendProposal(p(Trend), history, Spent, account.quantity)
    [] request.strategy = "dca" ->
         DcaProposal(p(Dca), IF account.quantity = 0 THEN Never ELSE SinceEntry, Spent, Close)
    [] request.strategy = "breakout" ->
         BreakoutProposal(p(Breakout), history, Never, Spent, account.quantity, account.averagePrice)
    [] request.strategy = "grid" ->
         GridSignal(GridOrders(p(Grid), Close, 0, account.cash))

-----------------------------------------------------------------------------
BacktestInit ==
  /\ request = NoRequest
  /\ history = <<>>
  /\ account = [cash |-> Capital, quantity |-> 0, averagePrice |-> 0, fees |-> 0]
  /\ curve = <<>>
  /\ tradePnl = <<>>
  /\ drawdown = [peak |-> Capital, worst |-> [num |-> 0, den |-> 1]]
  /\ result = NoResult

Run(strategy, preset) ==
  /\ request = NoRequest
  /\ Accepted(strategy, preset)
  /\ request' = [strategy |-> strategy, preset |-> preset]
  /\ UNCHANGED <<history, account, curve, tradePnl, drawdown, result>>

\* The loop of runBacktest: a candle is read, then the strategy's answer is
\* carried out and the period is measured.
Fee(amount) == (amount * FeePercent) \div 100
Entered(quote) ==
  [cash |-> account.cash - quote - Fee(quote), quantity |-> quote \div Close,
   averagePrice |-> Close, fees |-> account.fees + Fee(quote)]
Left(quantity) ==
  LET gross == quantity * Close IN
  [cash |-> account.cash + gross - Fee(gross), quantity |-> account.quantity - quantity,
   averagePrice |-> IF quantity = account.quantity THEN 0 ELSE account.averagePrice,
   fees |-> account.fees + Fee(gross)]
PnlOfGross(quantity) == (Close - account.averagePrice) * quantity
Pnl(quantity) == (Close - account.averagePrice) * quantity - Fee(quantity * Close)

ReadCandle(candle) ==
  /\ request # NoRequest /\ result = NoResult
  /\ Len(curve) = Len(history) /\ Len(history) < MaxCandles
  /\ history' = Append(history, candle)
  /\ UNCHANGED <<request, account, curve, tradePnl, drawdown, result>>

Trade ==
  LET signal == Signal
      buys == signal.side = "BUY" /\ account.quantity = 0
              /\ signal.quote > 0 /\ signal.quote + Fee(signal.quote) =< account.cash
      sells == signal.side = "SELL" /\ account.quantity > 0
               /\ signal.quantity \in 1 .. account.quantity
  IN
  IF buys THEN account' = Entered(signal.quote) /\ UNCHANGED tradePnl
  ELSE IF sells THEN /\ account' = Left(signal.quantity)
                     /\ tradePnl' = Append(tradePnl, Pnl(signal.quantity))
  ELSE UNCHANGED <<account, tradePnl>>

Equity(state) == state.cash + state.quantity * Close
Larger(a, b) == IF Greater(b, a) THEN b ELSE a
Measure(equity) ==
  LET peak == Max({drawdown.peak, equity}) IN
  /\ curve' = Append(curve, equity)
  /\ drawdown' = [peak |-> peak,
                  worst |-> Larger(drawdown.worst, [num |-> peak - equity, den |-> peak])]

Candle ==
  /\ Len(curve) < Len(history)
  /\ Trade
  /\ Measure(Equity(account'))
  /\ UNCHANGED <<request, history, result>>

\* The metrics, without the Sharpe ratio; rates are over the sales that gained
\* or lost.
StoreResult ==
  /\ request # NoRequest /\ result = NoResult
  /\ history # <<>> /\ Len(curve) = Len(history)
  /\ LET completed == {n \in DOMAIN tradePnl : tradePnl[n] # 0}
         gains == {n \in completed : tradePnl[n] > 0}
         losses == {n \in completed : tradePnl[n] < 0}
     IN result' =
          [tradeCount |-> Cardinality(completed),
           gains |-> Cardinality(gains), losses |-> Cardinality(losses),
           gained |-> SumFunctionOnSet(tradePnl, gains), lost |-> -SumFunctionOnSet(tradePnl, losses),
           absoluteReturn |-> Last(curve) - Capital,
           maxDrawdown |-> drawdown.worst, estimatedFees |-> account.fees]
  /\ UNCHANGED <<request, history, account, curve, tradePnl, drawdown>>

BacktestNext ==
  \/ \E strategy \in Strategies, preset \in Presets : Run(strategy, preset)
  \/ \E candle \in Candles : ReadCandle(candle)
  \/ Candle
  \/ StoreResult

BacktestSpec == BacktestInit /\ [][BacktestNext]_backtestVars

-----------------------------------------------------------------------------
(* Properties. *)

BacktestTypeOK ==
  /\ account.cash \in 0 .. Capital * Capital
  /\ account.quantity \in Nat /\ account.fees \in Nat
  /\ Len(curve) \in {Len(history), Len(history) - 1}

\* The stored return is the sum of the sales' profits, of the paper profit of
\* what is still held and of what the purchases cost in fees, which no sale's
\* profit contains; and the stored drawdown is the worst fall from any earlier
\* equity to a later one.
MetricsAddUp ==
  result # NoResult =>
    LET paper == (Close - account.averagePrice) * account.quantity
        purchases == Len(tradePnl) + IF account.quantity > 0 THEN 1 ELSE 0
        values == <<Capital>> \o curve
    IN
    /\ result.absoluteReturn =
         result.gained - result.lost + paper - purchases * Fee(Entry(request.preset))
    /\ \A i, j \in DOMAIN values :
         i < j => ~Greater([num |-> values[i] - values[j], den |-> values[i]], result.maxDrawdown)
=============================================================================
