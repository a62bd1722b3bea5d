---------------------------- MODULE MCWebRequests ----------------------------
(* Small instances of what a request of the web application sets in motion:
   the browser's session, the way into the API, an edit of a bot's limits, a
   backtest; what it shows of a trader: the figures of its card, the reason
   it waits and its notices; and the pages that make, start and limit a bot.
   They share no state; `scenario' picks the one that moves, so that their
   state spaces add instead of multiplying. *)
EXTENDS WebSession, ApiGate, BotLimits, TraderFigures, TraderNotices, Backtest,
        RiskPanel, TraderPages

CONSTANTS q1, q2, c1, c2, u1, k1, e1, e2, btc, eth, n1, n2, p1, b1, b2, x1, x2

VARIABLE scenario

TwoRequests == {q1, q2}
TwoCalls == {c1, c2}
OneUser == {u1}
OneKey == {k1}
TwoEditors == {e1, e2}
TwoSymbols == {btc, eth}
English == {"en"}
Dollars == {"USD"}
DollarsReais == {"USD", "BRL"}
FirstLogin == {1}
SmallAmounts == 0 .. 2
SomePercentages == {0, 50, 101}
SomePrices == {16, 32, 48}
TwoCycles == {n1, n2}
OneProposal == {p1}
DailyLossLimit == {"DAILY_LOSS_LIMIT"}
WithAnInterval ==
  {[quote |-> 1, maxCapital |-> 2, interval |-> 1, minPrice |-> 2, maxPrice |-> 2]}
NeverOrNow == {Never, 0}
NothingToAll == 0 .. 2
TwoCloses == 2 .. 3
TwoBots == {b1, b2}
FirstBot == {b1}
TwoSlots == {x1, x2}
TwoClicks == {x1, x2}
TwoLimits == {1, 2}

\* Requests of a browser, calls of the API, edits, cycles of a bot, and requests
\* and clicks of a page are interchangeable.  Only one pair moves in a scenario,
\* so that all of them may be exchanged at once.
Exchange(v, w) == v :> w @@ w :> v
AllExchanged ==
  Exchange(q1, q2) @@ Exchange(c1, c2) @@ Exchange(e1, e2) @@ Exchange(n1, n2) @@ Exchange(x1, x2)
Interchangeable ==
  {[v \in DOMAIN AllExchanged |-> IF f[x1] = x1 THEN v ELSE AllExchanged[v]] :
     f \in Permutations(TwoSlots)}

C(close, high, low, volume) ==
  [open |-> close, high |-> high, low |-> low, close |-> close, volume |-> volume]
SomeCandles == {C(1, 1, 1, 1), C(2, 2, 2, 1), C(4, 4, 4, 2), C(2, 4, 2, 2)}
TwoPresets == {1, 3}
TrendParameters ==
  [fast |-> 1, slow |-> 2, atr |-> 1, momentum |-> 1,
   minVolumeRatio |-> 1, maxAtrPercent |-> 100, minMomentumPercent |-> 1]
DcaParameters == [interval |-> 1, minPrice |-> 1, maxPrice |-> 2]
GridParameters == [lower |-> 1, upper |-> 4, levels |-> 4, maxVolatility |-> 100]
BreakoutParameters ==
  [lookback |-> 2, breakoutPercent |-> 10, cooldown |-> 1,
   stopLossPercent |-> 10, takeProfitPercent |-> 50]

vars == <<scenario, webVars, apiVars, limitsVars, figuresVars, noticeVars, backtestVars,
          panelVars, pageVars>>
Browsing(A) ==
  /\ scenario = "session" /\ A
  /\ UNCHANGED <<scenario, apiVars, limitsVars, figuresVars, noticeVars,
                  backtestVars, panelVars, pageVars>>
Entering(A) ==
  /\ scenario = "api" /\ A
  /\ UNCHANGED <<scenario, webVars, limitsVars, figuresVars, noticeVars,
                  backtestVars, panelVars, pageVars>>
Editing(A) ==
  /\ scenario = "limits" /\ A
  /\ UNCHANGED <<scenario, webVars, apiVars, figuresVars, noticeVars,
                  backtestVars, panelVars, pageVars>>
Reckoning(A) ==
  /\ scenario = "figures" /\ A
  /\ UNCHANGED <<scenario, webVars, apiVars, limitsVars, noticeVars,
                  backtestVars, panelVars, pageVars>>
Telling(A) ==
  /\ scenario = "notices" /\ A
  /\ UNCHANGED <<scenario, webVars, apiVars, limitsVars, figuresVars,
                  backtestVars, panelVars, pageVars>>
Backtesting(A) ==
  /\ scenario = "backtest" /\ A
  /\ UNCHANGED <<scenario, webVars, apiVars, limitsVars, figuresVars,
                  noticeVars, panelVars, pageVars>>
Limiting(A) ==
  /\ scenario = "risk" /\ A
  /\ UNCHANGED <<scenario, webVars, apiVars, limitsVars, figuresVars,
                  noticeVars, backtestVars, pageVars>>
Paging(A) ==
  /\ scenario = "pages" /\ A
  /\ UNCHANGED <<scenario, webVars, apiVars, limitsVars, figuresVars,
                  noticeVars, backtestVars, panelVars>>

Initial ==
  /\ WebInit /\ ApiInit /\ LimitsInit /\ FiguresInit /\ NoticesInit /\ BacktestInit
  /\ PanelInit /\ PagesInit
MCInit ==
  /\ scenario \in {"session", "api", "limits", "figures", "notices", "backtest", "risk", "pages"}
  /\ Initial
  /\ scenario # "api" => production
  /\ scenario # "figures" => snapshots.close = 16
  /\ \A n \in BotName : made[n] = "RUNNING" => scenario = "pages" /\ n \in Followed
  /\ scenario # "risk" => \A b \in Panelled : profiles[b].limit = 1
MCNext ==
  \/ Browsing(WebNext) \/ Entering(ApiNext) \/ Editing(LimitsNext)
  \/ Reckoning(FiguresNext) \/ Telling(NoticesNext) \/ Backtesting(BacktestNext)
  \/ Limiting(PanelNext) \/ Paging(PagesNext)
MCSpec == MCInit /\ [][MCNext]_vars

\* Types, of every part.
TypesOK ==
  /\ WebTypeOK /\ ApiTypeOK /\ LimitsTypeOK /\ FiguresTypeOK /\ NoticesTypeOK /\ BacktestTypeOK
  /\ PanelTypeOK /\ PagesTypeOK
=============================================================================
