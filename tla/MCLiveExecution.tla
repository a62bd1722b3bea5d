--------------------------- MODULE MCLiveExecution ---------------------------
(* Small instances of LiveExecution: a BUY and a SELL of the same bot. *)
EXTENDS LiveExecution

CONSTANTS buy, sell, w1, w2

BuyAndSell == {buy, sell}
OnlyBuy == {buy}
OneWorker == {w1}
TwoWorkers == {w1, w2}
=============================================================================
