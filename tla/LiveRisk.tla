------------------------------ MODULE LiveRisk ------------------------------
(***************************************************************************)
(* The limits of one LIVE bot: what live-submit.ts hands to the risk       *)
(* engine, and the LiveRiskState row that live-risk-state.ts recomputes    *)
(* after a reconciliation has stored fills (live-fills.ts).                *)
(*                                                                         *)
(* Every order is a market order of one unit.  Prices are even and the bot *)
(* holds two units at most, so an average price is a whole number.  A sale *)
(* pays a fee; what the exchange takes of a purchase, the code leaves out  *)
(* of the position, and the model too.  The row is the only thing that the *)
(* engine sees of the position, and a submission judges the row as it was  *)
(* when its job began.                                                     *)
(***************************************************************************)
EXTENDS Integers, FiniteSets

CONSTANTS Buys, Sells,    \* LIVE orders
          Submitters,     \* live-submit jobs in progress at once
          Prices,         \* closes of the market snapshots
          SaleFee,        \* commission of a sale
          Deposit,        \* quote balance on the exchange
          Capital,        \* authorizedCapital and maxAllocatedCapital
          MaxTrade, MaxExposure, MaxPositionValue,   \* amounts of the risk profile
          MaxPositions,
          MaxLoss,        \* maxDailyLossPercent of the capital, an amount
          MaxDrawdown,    \* maxDrawdownPercent of the capital, an amount
          MaxDays         \* bound on the days

ASSUME LiveRiskAssumption ==
  /\ Prices # {} /\ \A p \in Prices : p \in Nat /\ p % 2 = 0 /\ p > 0
  /\ \A n \in {SaleFee, Deposit, Capital, MaxTrade, MaxExposure, MaxPositionValue} : n \in Nat
  /\ \A n \in {MaxPositions, MaxLoss, MaxDrawdown, MaxDays} : n \in Nat
  /\ Buys \cap Sells = {}

VARIABLES
  price,    \* the latest close
  day,      \* the UTC day
  order,    \* what became of each order
  wallet,   \* the balances on the exchange
  book,     \* the Position and Trade rows of the bot
  riskRow,  \* LiveRiskState; without peak before it exists
  reconcile,  \* the reconciliation in progress
  judging   \* the live-submit jobs

market == <<price, day>>
riskVars == <<market, order, wallet, book, riskRow, reconcile, judging>>

-----------------------------------------------------------------------------
AllOrders == Buys \cup Sells
Max0(n) == IF n < 0 THEN 0 ELSE n
Cash(o, p) == IF o \in Buys THEN -p ELSE p - SaleFee
Units(o) == IF o \in Buys THEN 1 ELSE -1

RiskRow == [peak: Nat, exposure: Nat, positions: {0, 1}, loss: Nat, fall: Nat]
NoRow == [peak |-> 0, exposure |-> 0, positions |-> 0, loss |-> 0, fall |-> 0]
Idle == [pc |-> "idle", order |-> CHOOSE o \in AllOrders : TRUE, row |-> NoRow, reason |-> "NONE"]

\* The LIVE row of a bot comes with the bot, or a reconciliation writes it.
RiskInit ==
  /\ price \in Prices
  /\ day = 1
  /\ order = [o \in AllOrders |-> [state |-> "new", at |-> 0, on |-> 0]]
  /\ wallet = [quote |-> Deposit, base |-> 0]
  /\ book = [units |-> 0, cost |-> 0, realized |-> 0, today |-> 0]
  /\ riskRow \in {NoRow, [NoRow EXCEPT !.peak = Capital]}
  /\ reconcile = [pc |-> "idle"]
  /\ judging = [j \in Submitters |-> Idle]

-----------------------------------------------------------------------------
(* The market and the exchange *)

Tick(p) ==
  /\ p # price
  /\ price' = p
  /\ UNCHANGED <<day, order, wallet, book, riskRow, reconcile, judging>>

\* At midnight the trades of the day are none; the row keeps its dailyLoss.
NewDay ==
  /\ day < MaxDays
  /\ day' = day + 1
  /\ book' = [book EXCEPT !.today = 0]
  /\ UNCHANGED <<price, order, wallet, riskRow, reconcile, judging>>

\* The exchange executes an order it was sent, if the balances allow it.
Execute(o) ==
  /\ order[o].state = "sent"
  /\ wallet.quote + Cash(o, price) >= 0
  /\ wallet.base + Units(o) \in 0 .. 2
  /\ wallet' = [quote |-> wallet.quote + Cash(o, price), base |-> wallet.base + Units(o)]
  /\ order' = [order EXCEPT ![o] = [state |-> "executed", at |-> price, on |-> day]]
  /\ UNCHANGED <<market, book, riskRow, reconcile, judging>>

-----------------------------------------------------------------------------
(* reconcileLiveOrders, for the orders of this bot *)

\* persistLiveFills: the fill of an executed order moves the position; a sale
\* realizes the price less the average and the fee, on the day it was executed.  An
\* order without a fill stores nothing and is refreshed all the same.
Average == book.cost \div book.units
Profit(o) == order[o].at - Average - SaleFee
Bought(o) == [book EXCEPT !.units = @ + 1, !.cost = @ + order[o].at]
SoldAtPrice(o) ==
  [units |-> book.units - 1, cost |-> book.cost - order[o].at,
   realized |-> book.realized + Profit(o), today |-> book.today + Profit(o)]
Sold(o) == [units |-> book.units - 1,
            cost |-> book.cost - Average,
            realized |-> book.realized + Profit(o),
            today |-> IF order[o].on = day THEN book.today + Profit(o) ELSE book.today]
Covers(o) == o \in Buys \/ book.units > 0
PersistFills(o) ==
  /\ reconcile.pc = "idle"
  /\ order[o].state \in {"sent", "executed"}
  /\ order[o].state = "executed" => Covers(o)
  /\ IF order[o].state = "executed"
     THEN /\ book' = IF o \in Buys THEN Bought(o) ELSE Sold(o)
          /\ order' = [order EXCEPT ![o].state = "booked"]
     ELSE UNCHANGED <<book, order>>
  /\ reconcile' = [pc |-> "refresh"]
  /\ UNCHANGED <<market, wallet, riskRow, judging>>

\* refreshLiveRiskState: the row is computed from the books and the last close.
Equity == Capital + book.realized + book.units * price - book.cost
Peak == IF riskRow.peak = 0 THEN (IF Equity > Capital THEN Equity ELSE Capital)
        ELSE IF Equity > riskRow.peak THEN Equity ELSE riskRow.peak
Refresh ==
  /\ reconcile.pc = "refresh"
  /\ riskRow' = [peak |-> Peak,
                 exposure |-> book.units * price,
                 positions |-> IF book.units > 0 THEN 1 ELSE 0,
                 loss |-> Max0(-book.today),
                 fall |-> Max0(Peak - Equity)]
  /\ reconcile' = [pc |-> "idle"]
  /\ UNCHANGED <<market, order, wallet, book, judging>>

\* There is no snapshot of a price, or the worker dies: the fills are stored
\* and the row is not refreshed.
SkipRefresh ==
  /\ reconcile.pc = "refresh"
  /\ reconcile' = [pc |-> "idle"]
  /\ UNCHANGED <<market, order, wallet, book, riskRow, judging>>

-----------------------------------------------------------------------------
(* submitLiveOrder *)

\* An order is read with the risk row of its bot, without one nothing is sent.
Judge(j, o) ==
  /\ judging[j].pc = "idle"
  /\ order[o].state = "new"
  /\ riskRow.peak > 0
  /\ judging' = [judging EXCEPT ![j] = [pc |-> "judging", order |-> o, row |-> riskRow,
                                        reason |-> "NONE"]]
  /\ UNCHANGED <<market, order, wallet, book, riskRow, reconcile>>

\* RiskEngine.evaluate.  No side is given, so that a SELL is judged as an
\* entry.  The drawdown of the row is a share of the peak, its limit an amount.
DrawdownPasses(r) == r.fall < MaxDrawdown * r.peak
Refusals(r) ==
  <<[reason |-> "INSUFFICIENT_BALANCE",    when |-> price > wallet.quote],
    [reason |-> "TRADE_LIMIT",             when |-> price > MaxTrade],
    [reason |-> "ALLOCATED_CAPITAL_LIMIT", when |-> r.exposure > Capital],
    [reason |-> "EXPOSURE_LIMIT",          when |-> r.exposure + price > MaxExposure],
    [reason |-> "POSITION_PERCENT_LIMIT",  when |-> price > MaxPositionValue],
    [reason |-> "MAX_POSITIONS",           when |-> r.positions >= MaxPositions],
    [reason |-> "DAILY_LOSS_LIMIT",        when |-> r.loss >= MaxLoss],
    [reason |-> "DRAWDOWN_LIMIT",          when |-> ~DrawdownPasses(r)]>>
Decision(r) ==
  LET failed == {i \in DOMAIN Refusals(r) : Refusals(r)[i].when} IN
  IF failed = {} THEN "APPROVED"
  ELSE Refusals(r)[CHOOSE i \in failed : \A k \in failed : i =< k].reason
Evaluate(j) ==
  LET d == Decision(judging[j].row) IN
  /\ judging[j].pc = "judging"
  /\ judging' = [judging EXCEPT ![j].pc = IF d = "APPROVED" THEN "sending" ELSE "refused",
                                ![j].reason = d]
  /\ UNCHANGED <<market, order, wallet, book, riskRow, reconcile>>

Send(j) ==
  /\ judging[j].pc = "sending"
  /\ order' = IF order[judging[j].order].state # "new" THEN order
              ELSE [order EXCEPT ![judging[j].order].state = "sent"]
  /\ judging' = [judging EXCEPT ![j] = Idle]
  /\ UNCHANGED <<market, wallet, book, riskRow, reconcile>>

\* The job ends with a refusal, a switch, a failed call or the process.
Leave(j) ==
  /\ judging[j].pc # "idle"
  /\ judging' = [judging EXCEPT ![j] = Idle]
  /\ UNCHANGED <<market, order, wallet, book, riskRow, reconcile>>

RiskNext ==
  \/ \E p \in Prices : Tick(p)
  \/ NewDay
  \/ \E o \in AllOrders : Execute(o) \/ PersistFills(o)
  \/ Refresh \/ SkipRefresh
  \/ \E j \in Submitters :
       \/ Evaluate(j) \/ Send(j) \/ Leave(j)
       \/ \E o \in AllOrders : Judge(j, o)

RiskSpec == RiskInit /\ [][RiskNext]_riskVars

-----------------------------------------------------------------------------
(* Properties. *)

RiskTypeOK ==
  /\ price \in Prices /\ day \in 1 .. MaxDays
  /\ order \in [AllOrders -> [state: {"new", "sent", "executed", "booked"},
                              at: Prices \cup {0}, on: 0 .. MaxDays]]
  /\ wallet \in [quote: Nat, base: 0 .. 2]
  /\ book \in [units: 0 .. 2, cost: Nat, realized: Int, today: Int]
  /\ riskRow \in RiskRow
  /\ reconcile.pc \in {"idle", "refresh"}
  /\ \A j \in Submitters :
       judging[j].pc \in {"idle", "judging", "sending", "refused"} /\ judging[j].row \in RiskRow

\* What the books say the bot is worth is what the exchange holds, once every
\* executed order is booked: profits and average prices lose nothing.
Settled == \A o \in AllOrders : order[o].state # "executed"
BooksMatchTheWallet ==
  Settled => /\ wallet.base = book.units
             /\ wallet.quote - Deposit = book.realized - book.cost

\* ADR-029: the drawdown is an amount below the peak, and its limit is one.
DrawdownStopsOrders ==
  \A j \in Submitters : judging[j].pc = "sending" => judging[j].row.fall < MaxDrawdown

=============================================================================
