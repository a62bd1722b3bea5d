---------------------------- MODULE MCMarketFeed ----------------------------
(* One or two callers of a client and three symbols, the last one delisted. *)
EXTENDS MarketFeed

CONSTANTS c1, c2

TwoCallers == {c1, c2}
ThirdDelisted == {3}
=============================================================================
