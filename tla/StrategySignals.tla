--------------------------- MODULE StrategySignals ---------------------------
(***************************************************************************)
(* What the four strategy packages answer to a history of candles and a    *)
(* position (strategy-trend, strategy-dca, strategy-grid,                  *)
(* strategy-breakout).  Pure operators: the PAPER cycle and the backtest   *)
(* call the same ones.                                                     *)
(*                                                                         *)
(* Numbers are integers; a quotient is a record [num, den] and quotients   *)
(* are compared by cross multiplication, so that nothing is rounded.       *)
(***************************************************************************)
EXTENDS Integers, Sequences, SequencesExt, Functions, FiniteSetsExt

Hold == [side |-> "NONE"]
Buy(quote) == [side |-> "BUY", quote |-> quote]
Sell(quantity) == [side |-> "SELL", quantity |-> quantity]

Greater(a, b) == a.num * b.den > b.num * a.den

\* values.slice(-n), and the total of a sequence.
LastOf(values, n) ==
  IF n >= Len(values) THEN values ELSE SubSeq(values, Len(values) - n + 1, Len(values))
Total(values) == FoldLeft(LAMBDA sum, v : sum + v, 0, values)
LargestOf(values) == Max(Range(values))

-----------------------------------------------------------------------------
(* Trend: parameters p of validateTrendParameters. *)

ValidTrend(p) ==
  /\ \A n \in {p.fast, p.slow, p.atr, p.momentum} : n \in Nat \ {0}
  /\ p.fast < p.slow
  /\ p.minVolumeRatio > 0 /\ p.maxAtrPercent > 0
  /\ p.quote > 0 /\ p.maxCapital >= p.quote

\* ema: each value weighs 2 / (period + 1), what went before the rest.
Ema(values, period) ==
  FoldLeft(LAMBDA e, v : [num |-> 2 * v * e.den + (period - 1) * e.num, den |-> (period + 1) * e.den],
           [num |-> Head(values), den |-> 1], Tail(values))

\* atr: the mean of the last true ranges.
Span(candle, previous) ==
  LargestOf(<<candle.high - candle.low,
              IF candle.high > previous.close THEN candle.high - previous.close
              ELSE previous.close - candle.high,
              IF candle.low > previous.close THEN candle.low - previous.close
              ELSE previous.close - candle.low>>)
Atr(candles, period) ==
  LET spans == [i \in 1 .. Len(candles) - 1 |-> Span(candles[i + 1], candles[i])]
  IN [num |-> Total(LastOf(spans, period)), den |-> period]

\* evaluateTrendSignal: momentum and volume confirm the cross of the averages.
TrendSignal(p, candles) ==
  LET closes == [i \in DOMAIN candles |-> candles[i].close]
      current == Last(candles)
      past == closes[Len(candles) - p.momentum]
      fast == Ema(LastOf(closes, 3 * p.fast), p.fast)
      slow == Ema(LastOf(closes, 3 * p.slow), p.slow)
      volumes == [i \in 1 .. p.momentum |-> candles[Len(candles) - i].volume]
      atr == Atr(candles, p.atr)
      rise == (current.close - past) * 100
  IN
  IF Len(candles) < LargestOf(<<p.slow, p.atr + 1, p.momentum + 1>>) THEN "HOLD"
  ELSE IF Total(volumes) = 0 \/ atr.num * 100 > p.maxAtrPercent * atr.den * current.close THEN "HOLD"
  ELSE IF /\ Greater(fast, slow)
          /\ Greater([num |-> current.close, den |-> 1], slow)
          /\ rise >= p.minMomentumPercent * past
          /\ current.volume * p.momentum >= p.minVolumeRatio * Total(volumes)
  THEN "BUY"
  ELSE IF Greater(slow, fast) /\ rise < 0 THEN "SELL"
  ELSE "HOLD"

TrendProposal(p, candles, spent, quantity) ==
  LET signal == TrendSignal(p, candles) IN
  IF signal = "BUY" /\ quantity = 0 /\ spent + p.quote =< p.maxCapital THEN Buy(p.quote)
  ELSE IF signal = "SELL" /\ quantity > 0 THEN Sell(quantity)
  ELSE Hold

-----------------------------------------------------------------------------
(* DCA: a purchase every interval while capital lasts and the price is in range. *)

ValidDca(p) ==
  /\ p.interval > 0
  /\ p.quote > 0 /\ p.maxCapital >= p.quote
  /\ p.minPrice > 0 /\ p.minPrice =< p.maxPrice

\* `since' is the time since the last purchase, Never if there was none.
Never == -1
DcaProposal(p, since, spent, price) ==
  IF /\ spent + p.quote =< p.maxCapital
     /\ since = Never \/ since >= p.interval
     /\ price \in p.minPrice .. p.maxPrice
  THEN Buy(p.quote) ELSE Hold

-----------------------------------------------------------------------------
(* Grid: one order per level, of an equal part of the capital. *)

ValidGrid(p) == /\ p.lower > 0 /\ p.upper > p.lower
                /\ p.levels >= 2
                /\ p.capital > 0 /\ p.maxVolatility >= 0

\* buildGridOrders: a level buys below the reference price and sells from it on.
GridOrders(p, reference, volatility, balance) ==
  IF volatility > p.maxVolatility \/ balance < p.capital THEN <<>>
  ELSE [i \in 1 .. p.levels |->
          LET price == p.lower + (i - 1) * ((p.upper - p.lower) \div (p.levels - 1))
          IN [side |-> IF price < reference THEN "BUY" ELSE "SELL",
              price |-> price, quote |-> p.capital \div p.levels]]

-----------------------------------------------------------------------------
(* Breakout: an entry above the highs, an exit at the stop or the target. *)

ValidBreakout(p) ==
  /\ p.lookback >= 2
  /\ p.breakoutPercent > 0
  /\ p.quote > 0 /\ p.maxCapital >= p.quote
  /\ p.cooldown >= 0
  /\ p.stopLossPercent > 0 /\ p.takeProfitPercent > 0

\* `since' as in DcaProposal; a position is left before anything else is asked.
BreakoutProposal(p, candles, since, spent, quantity, entry) ==
  LET close == Last(candles).close
      previous == SubSeq(candles, Len(candles) - p.lookback, Len(candles) - 1)
      high == LargestOf([i \in DOMAIN previous |-> previous[i].high])
  IN
  IF \/ Len(candles) < p.lookback + 1
     \/ since # Never /\ since < p.cooldown
  THEN Hold
  ELSE IF quantity > 0 /\ entry > 0
  THEN IF \/ close * 100 =< entry * (100 - p.stopLossPercent)
          \/ close * 100 >= entry * (100 + p.takeProfitPercent)
       THEN Sell(quantity) ELSE Hold
  ELSE IF /\ spent + p.quote =< p.maxCapital
          /\ close * 100 > high * (100 + p.breakoutPercent)
  THEN Buy(p.quote) ELSE Hold
=============================================================================
