---------------------------- MODULE MCTraderRisk ----------------------------
(* Three traders, one for each strategy, with 2100 each, who buy for 1000 (50
   or 10 units), and two worker processes.  A position bought at 20 is worth 5000
   at 100, so that two more entries together pass the portfolio's limit of 6300.
   A sale at the price of the entry loses its fee, and so what a trader may lose
   in a day (0.5); one after a fall loses what the portfolio may lose (140), too. *)
EXTENDS TraderRisk, TLC

CONSTANTS t1, t2, t3, w1, w2

ThreeTraders == {t1, t2, t3}
TwoWorkers == {w1, w2}
TwoPrices == {20, 100}
OneOfEach == t1 :> "dca" @@ t2 :> "trend-following" @@ t3 :> "breakout"
Interchangeable == Permutations(TwoWorkers)
=============================================================================
