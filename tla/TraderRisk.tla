----------------------------- MODULE TraderRisk -----------------------------
(***************************************************************************)
(* The money of the PAPER cycle: what the traders of one portfolio see of  *)
(* their account (trader-runtime-state.ts, portfolio-risk-state.ts), what  *)
(* their strategies propose, what the two risk layers make of it           *)
(* (evaluatePortfolioRisk, RiskEngine.evaluate) and what the fill books.   *)
(*                                                                         *)
(* The state is loaded, judged and traded on in different queries, while   *)
(* other traders trade, prices move, days begin and users pause.  No       *)
(* trader has two cycles at once and no cycle reserves: PaperCycle has     *)
(* both, and the grid's partial exits.  Stops are in AllocationLifecycle.  *)
(*                                                                         *)
(* Money is counted in thousandths of the quote currency, so that the fee  *)
(* of 0.1% is exact; all traders hold the same asset.                      *)
(***************************************************************************)
EXTENDS Integers, FiniteSets, Functions

CONSTANTS Traders, Workers,
          strategy,           \* implementationKey of each trader
          Prices,             \* of one unit of the asset, in quote currency
          Quote,              \* parameters.quoteAmount of the strategies
          Ceiling,            \* parameters.maxCapital of the strategies
          Capital,            \* authorizedCapital, allocated to each trader
          MaxTradeAmount, MaxAllocatedCapital, MaxExposure, MaxPosition,
          MaxPositions, MaxDailyLoss, MaxDrawdown,    \* the RiskProfile
          PortfolioExposure, PortfolioDailyLoss,      \* PaperPortfolio; 0: no limit
          MaxTrades           \* bound: no cycle starts after so many trades

Money == {Quote, Ceiling, Capital, MaxTradeAmount, MaxAllocatedCapital, MaxExposure,
          MaxPosition, MaxDailyLoss, MaxDrawdown, PortfolioExposure, PortfolioDailyLoss}

Strategies == {"dca", "trend-following", "breakout"}

\* A profile allows no more than the bot is authorized to use (parseRiskProfile).
\* Amounts are chosen so that a quantity is a number of whole units.
ASSUME RiskAssumption ==
  /\ Traders # {}
  /\ strategy \in [Traders -> Strategies]
  /\ Prices # {}
  /\ Money \subseteq Nat
  /\ Prices \subseteq Nat \ {0}
  /\ \A p \in Prices : Quote % (1000 * p) = 0
  /\ MaxAllocatedCapital =< Capital
  /\ MaxTradeAmount =< MaxAllocatedCapital
  /\ MaxTrades \in Nat

VARIABLES
  price,      \* close of the latest MarketSnapshot
  status,     \* Bot.status
  account,    \* balances, open position and trades of the trader
  highWater,  \* Bot.equityHighWaterMark
  cooling,    \* the last trade is younger than cooldownSeconds
  trades,     \* number of trades
  run,        \* what each worker process is doing
  moved,      \* history: the price moved during a cycle, and ever since some
              \* cycle has been under way
  late        \* history: entries since the losses of the day reached the
              \* limit of the portfolio

history == <<moved, late>>
vars == <<price, status, account, highWater, cooling, trades, run, history>>

-----------------------------------------------------------------------------
Account == [cash: Nat,       \* quote PaperBalance
            quantity: Nat,   \* of the open Position,
            cost: Nat,       \* times its averagePrice
            realized: Int,   \* sum of Trade.realizedPnl,
            today: Int,      \* of the trades of this UTC day,
            fees: Nat]       \* what BUYs paid in fees; no row records it

Signal == [side: {"BUY", "SELL"}, quantity: Nat]
NoSignal == [side |-> "BUY", quantity |-> 0]

Run == [pc: {"idle", "raising", "judging", "filling", "blocking"},
        trader: Traders,
        price: Prices,       \* the runtime state the cycle loaded
        account: Account,
        high: Nat,
        signal: Signal]

NewAccount ==
  [cash |-> Capital, quantity |-> 0, cost |-> 0, realized |-> 0, today |-> 0, fees |-> 0]

IdleRun == [pc |-> "idle", trader |-> CHOOSE t \in Traders : TRUE,
            price |-> CHOOSE p \in Prices : TRUE, account |-> NewAccount,
            high |-> 0, signal |-> NoSignal]

Init ==
  /\ price \in Prices
  /\ status = [t \in Traders |-> "RUNNING"]
  /\ account = [t \in Traders |-> NewAccount]
  /\ highWater = [t \in Traders |-> 0]
  /\ cooling = [t \in Traders |-> FALSE]
  /\ trades = 0
  /\ run = [w \in Workers |-> IdleRun]
  /\ moved = FALSE
  /\ late = 0

-----------------------------------------------------------------------------
(* Arithmetic. *)

Value(q, p) == 1000 * (q * p)
Fee(q, p) == q * p                \* a thousandth of the value
Positive(x) == IF x > 0 THEN x ELSE 0
Higher(x, y) == IF x > y THEN x ELSE y

Equity(a, p) == a.cash + Value(a.quantity, p)
DailyLoss(a) == Positive(-a.today)
Drawdown(a, p, high) == Higher(high, Equity(a, p)) - Equity(a, p)

-----------------------------------------------------------------------------
(* The cycle up to the verdict. *)

Continue(w, r) == run' = [run EXCEPT ![w] = r]
Leave(w) == Continue(w, IdleRun)

\* The trader's state is loaded at the latest price.
Load(w, t) ==
  /\ run[w].pc = "idle"
  /\ \A v \in Workers : run[v].pc # "idle" => run[v].trader # t
  /\ status[t] = "RUNNING"
  /\ trades < MaxTrades
  /\ Continue(w, [pc |-> "raising", trader |-> t, price |-> price,
                  account |-> account[t], high |-> highWater[t], signal |-> NoSignal])
  /\ UNCHANGED <<price, status, account, highWater, cooling, trades>>

\* The high-water mark is raised when the loaded equity is above the loaded mark.
RaiseHighWater(w) ==
  LET r == run[w]
      equity == Equity(r.account, r.price)
  IN
  /\ r.pc = "raising"
  /\ highWater' = [highWater EXCEPT ![r.trader] = IF equity > r.high THEN equity ELSE @]
  /\ Continue(w, [r EXCEPT !.pc = "judging"])
  /\ UNCHANGED <<price, status, account, cooling, trades>>

\* What a strategy may propose on the loaded state.  Its clock (the interval of
\* a DCA, a cooldown) and the shape of the candles are left open: it may always
\* propose nothing.
Entries(a, p) ==
  IF a.cost + Quote =< Ceiling
    THEN {[side |-> "BUY", quantity |-> Quote \div (1000 * p)]} ELSE {}
Exits(a) == {[side |-> "SELL", quantity |-> a.quantity]}

\* A breakout leaves at 3% below or 6% above the average entry.
LeavesBreakout(a, p) ==
  \/ 100 * Value(a.quantity, p) =< 97 * a.cost
  \/ 100 * Value(a.quantity, p) >= 106 * a.cost

Signals(t, a, p) ==
  CASE strategy[t] = "dca" -> Entries(a, p)
    [] strategy[t] # "dca" /\ a.quantity = 0 -> Entries(a, p)
    [] strategy[t] = "trend-following" /\ a.quantity > 0 -> Exits(a)
    [] strategy[t] = "breakout" /\ a.quantity > 0 ->
         IF LeavesBreakout(a, p) THEN Exits(a) ELSE {}

Wait(w) ==
  /\ run[w].pc = "judging"
  /\ Leave(w)
  /\ UNCHANGED <<price, status, account, highWater, cooling, trades>>

-----------------------------------------------------------------------------
(* The verdict. *)

\* A limit of the portfolio that is 0 does not limit.
Beyond(x, limit) == limit # 0 /\ x > limit
Reached(x, limit) == limit # 0 /\ x >= limit

CurrentExposure(accounts, p) ==
  SumFunction([t \in Traders |-> Value(accounts[t].quantity, p)])
AccountDailyLoss(accounts) ==
  Positive(-SumFunction([t \in Traders |-> accounts[t].today]))
AllocatedCapital == SumFunction([t \in Traders |-> Capital])

PortfolioRiskAtCost(s, value) ==
  CASE s.side = "SELL" -> "ALLOW"
    [] s.side = "BUY" ->
         IF Beyond(SumFunction([t \in Traders |-> account[t].cost]) + value, PortfolioExposure)
           THEN "SKIP"
         ELSE IF Reached(AccountDailyLoss(account), PortfolioDailyLoss) THEN "PAUSE"
         ELSE "ALLOW"

\* Portfolio risk looks at every trader, at the latest price.  Its kill switch
\* is a column that no code sets.
PortfolioRisk(s, value) ==
  CASE s.side = "SELL" -> "ALLOW"
    [] s.side = "BUY" ->
         IF Beyond(AllocatedCapital, PortfolioExposure) THEN "PAUSE"
         ELSE IF Beyond(CurrentExposure(account, price) + value, PortfolioExposure) THEN "SKIP"
         ELSE IF Reached(AccountDailyLoss(account), PortfolioDailyLoss) THEN "PAUSE"
         ELSE "ALLOW"

\* The checks of the risk engine in their order; neighbours with the same
\* severity (actionForReason) stand together.
Affordable(s, value, a) ==
  /\ s.side = "SELL" \/ value =< a.cash
  /\ value =< MaxTradeAmount
AllocationFits(s) == s.side = "SELL" \/ Capital =< MaxAllocatedCapital
ExposureFits(s, value, a, p) ==
  LET held == Value(a.quantity, p) IN
  IF s.side = "SELL" THEN value =< held
  ELSE /\ held + value =< MaxExposure
       /\ value =< MaxPosition
       /\ (IF a.quantity > 0 THEN 1 ELSE 0) < MaxPositions
DrawdownTolerable(a, p, high) == Drawdown(a, p, high) < MaxDrawdown
LossesTolerable(a, p, high) ==
  /\ DailyLoss(a) < MaxDailyLoss
  /\ Drawdown(a, p, high) < MaxDrawdown
Cooled(t, s) == s.side = "SELL" \/ ~cooling[t]

TraderRisk(t, s, value, a, p, high) ==
  IF ~Affordable(s, value, a) THEN "SKIP"
  ELSE IF ~AllocationFits(s) THEN "PAUSE"
  ELSE IF ~ExposureFits(s, value, a, p) THEN "SKIP"
  ELSE IF ~LossesTolerable(a, p, high) THEN "PAUSE"
  ELSE IF ~Cooled(t, s) THEN "SKIP"
  ELSE "ALLOW"

\* The portfolio is asked first.
Verdict(r, s) ==
  LET value == Value(s.quantity, r.price) IN
  IF PortfolioRisk(s, value) # "ALLOW" THEN PortfolioRisk(s, value)
  ELSE TraderRisk(r.trader, s, value, r.account, r.price, r.high)

Judge(w) ==
  LET r == run[w] IN
  /\ r.pc = "judging"
  /\ \E s \in Signals(r.trader, r.account, r.price) :
       \/ /\ Verdict(r, s) = "ALLOW"
          /\ Continue(w, [r EXCEPT !.pc = "filling", !.signal = s])
       \/ /\ Verdict(r, s) = "PAUSE"
          /\ Continue(w, [r EXCEPT !.pc = "blocking", !.signal = s])
       \/ /\ Verdict(r, s) = "SKIP"
          /\ Leave(w)
  /\ UNCHANGED <<price, status, account, highWater, cooling, trades>>

Block(w) ==
  /\ run[w].pc = "blocking"
  /\ status' = [status EXCEPT ![run[w].trader] = "RISK_BLOCKED"]
  /\ Leave(w)
  /\ UNCHANGED <<price, account, highWater, cooling, trades>>

-----------------------------------------------------------------------------
(* The fill. *)

\* Value and fee are paid from the balance; the position takes the value.
Bought(a, q, p) ==
  [cash |-> a.cash - Value(q, p) - Fee(q, p), quantity |-> a.quantity + q,
   cost |-> a.cost + Value(q, p), realized |-> a.realized, today |-> a.today,
   fees |-> a.fees + Fee(q, p)]

SoldFreeOfCharge(a, q, p) ==
  LET profit == Value(q, p) - a.cost - Fee(q, p) IN
  [cash |-> a.cash + Value(q, p), quantity |-> 0, cost |-> 0,
   realized |-> a.realized + profit, today |-> a.today + profit, fees |-> a.fees]

\* The whole position is sold; the profit is net of its cost and of the fee.
Sold(a, q, p) ==
  LET profit == Value(q, p) - a.cost - Fee(q, p) IN
  [cash |-> a.cash + Value(q, p) - Fee(q, p), quantity |-> 0, cost |-> 0,
   realized |-> a.realized + profit, today |-> a.today + profit, fees |-> a.fees]

\* At the loaded price.  A BUY the balance does not cover, fee included, throws.
Fill(w) ==
  LET r == run[w]
      t == r.trader
      q == r.signal.quantity
  IN
  /\ r.pc = "filling"
  /\ \/ /\ r.signal.side = "BUY"
        /\ account[t].cash >= Value(q, r.price) + Fee(q, r.price)
        /\ account' = [account EXCEPT ![t] = Bought(account[t], q, r.price)]
     \/ /\ r.signal.side = "SELL"
        /\ account[t].quantity = q
        /\ account' = [account EXCEPT ![t] = Sold(account[t], q, r.price)]
  /\ cooling' = [cooling EXCEPT ![t] = TRUE]
  /\ trades' = trades + 1
  /\ Leave(w)
  /\ UNCHANGED <<price, status, highWater>>

\* A query fails, a check throws or the worker dies; the retry loads again.
Throw(w) ==
  /\ run[w].pc # "idle"
  /\ Leave(w)
  /\ UNCHANGED <<price, status, account, highWater, cooling, trades>>

-----------------------------------------------------------------------------
(* Around the cycle. *)

\* market-data-sync is a job of the same queue, so it takes an idle worker.
MovePrice ==
  /\ \E w \in Workers : run[w].pc = "idle"
  /\ price' \in Prices \ {price}
  /\ UNCHANGED <<status, account, highWater, cooling, trades, run>>

NewDay ==
  /\ account' = [t \in Traders |-> [account[t] EXCEPT !.today = 0]]
  /\ UNCHANGED <<price, status, highWater, cooling, trades, run>>

CoolDown(t) ==
  /\ cooling[t]
  /\ cooling' = [cooling EXCEPT ![t] = FALSE]
  /\ UNCHANGED <<price, status, account, highWater, trades, run>>

\* The user (changeStatus; stops are in AllocationLifecycle).
Pause(t) ==
  /\ status[t] \in {"RUNNING", "RISK_BLOCKED"}
  /\ status' = [status EXCEPT ![t] = "PAUSED"]
  /\ UNCHANGED <<price, account, highWater, cooling, trades, run>>
Resume(t) ==
  /\ status[t] \in {"PAUSED", "RISK_BLOCKED"}
  /\ status' = [status EXCEPT ![t] = "RUNNING"]
  /\ UNCHANGED <<price, account, highWater, cooling, trades, run>>

Cycle(w) ==
  \/ \E t \in Traders : Load(w, t)
  \/ RaiseHighWater(w) \/ Wait(w) \/ Judge(w) \/ Block(w) \/ Fill(w) \/ Throw(w)
Surroundings ==
  \/ MovePrice \/ NewDay
  \/ \E t \in Traders : CoolDown(t) \/ Pause(t) \/ Resume(t)

Enters(t) == account'[t].quantity > account[t].quantity

Remember ==
  /\ moved' = /\ \E w \in Workers : run'[w].pc # "idle"
              /\ moved \/ price' # price
  /\ late' = IF ~Reached(AccountDailyLoss(account'), PortfolioDailyLoss) THEN 0
             ELSE IF \E t \in Traders : Enters(t) THEN late + 1
             ELSE late

Next == ((\E w \in Workers : Cycle(w)) \/ Surroundings) /\ Remember
Spec == Init /\ [][Next]_vars

-----------------------------------------------------------------------------
(* Properties. *)

TypeOK ==
  /\ price \in Prices
  /\ status \in [Traders -> {"RUNNING", "PAUSED", "RISK_BLOCKED"}]
  /\ account \in [Traders -> Account]
  /\ highWater \in [Traders -> Nat]
  /\ cooling \in [Traders -> BOOLEAN]
  /\ trades \in Nat
  /\ run \in [Workers -> Run]
  /\ moved \in BOOLEAN
  /\ late \in Nat

\* The balance, the position and the trades tell the same story: cash and the
\* cost of the position are the capital and the realized profits, less the
\* fees of the BUYs, which the realized profits leave out.
BooksBalance ==
  \A t \in Traders :
    LET a == account[t] IN
    /\ a.cash + a.cost = Capital + a.realized - a.fees
    /\ a.quantity = 0 <=> a.cost = 0

\* After a day's loss at the limit a trader enters no position until the next
\* day, whoever resumes it (RiskEngine DAILY_LOSS_LIMIT).
NoEntryAfterTheLoss ==
  [][\A t \in Traders : Enters(t) => DailyLoss(account[t]) < MaxDailyLoss]_vars

\* The cycles that may have been judged beside another, on the same account of
\* the portfolio.
Others == Cardinality(Workers) - 1

\* The limits of a trader, judged on a copy of its account, hold when it enters,
\* whatever became of prices, days and statuses since: its exposure, at the price
\* of the copy, and its capital, and nobody enters who has lost MaxDrawdown of the
\* highest equity any of its cycles has seen, a mark that never falls (ADR-029).
\* The limits of the portfolio can be passed, but only by the entries that were
\* judged at once: the exposure by one entry for each other worker, unless the
\* price moves under a cycle, and that many entries come after the losses of
\* the day have reached their limit (evaluatePortfolioRisk).
EntriesFitTheLimits ==
  [][/\ \A t \in Traders : highWater'[t] >= highWater[t]
     /\ \A w \in Workers :
          LET t == run[w].trader
              p == run[w].price
          IN
          run[w].pc = "filling" /\ Enters(t) =>
            /\ Value(account'[t].quantity, p) =< MaxExposure
            /\ account'[t].cost =< Ceiling
            /\ highWater[t] - Equity(account[t], p) < MaxDrawdown
            /\ late' =< Others
            /\ ~moved => ~Beyond(CurrentExposure(account', price) - Others * Quote,
                                PortfolioExposure)]_vars

=============================================================================
