-------------------------- MODULE TraderRiskProofs --------------------------
(***************************************************************************)
(* Proofs about TraderRisk for any traders, workers, prices and limits.    *)
(*                                                                         *)
(* The books balance by induction on the fills alone.  That no trader      *)
(* enters after a losing day needs to know why a verdict that was reached  *)
(* on a copy of the account is still good when the fill comes:             *)
(*   OneCycle    no trader has two cycles, so nobody else filled meanwhile *)
(*   CopyIsGood  and the day's result is the copied one, or 0 on a new day *)
(*   Judged      an approved entry has passed the loss check on the copy   *)
(* OwnCopy and StillFits carry the other checks of the trader to the fill. *)
(* Those of the portfolio do not last: ExposureBounded and LateBounded     *)
(* count the approved entries as made; sums are reasoned about with        *)
(* SumLemmas.                                                              *)
(***************************************************************************)
EXTENDS TraderRisk, SumLemmas

Busy(w) == run[w].pc # "idle"

OneCycle ==
  \A v, w \in Workers : Busy(v) /\ Busy(w) /\ run[v].trader = run[w].trader => v = w

CopyIsGood ==
  \A w \in Workers :
    Busy(w) => account[run[w].trader].today \in {run[w].account.today, 0}

Judged ==
  \A w \in Workers :
    run[w].pc = "filling" /\ run[w].signal.side = "BUY"
      => DailyLoss(run[w].account) < MaxDailyLoss


-----------------------------------------------------------------------------
(* Arithmetic. *)

\* Values and fees are natural numbers, and a fee is less than its value.
LEMMA ValueAndFee ==
  ASSUME NEW q \in Nat, NEW p \in Prices
  PROVE  /\ Value(q, p) \in Nat
         /\ Fee(q, p) \in Nat
         /\ Value(q, p) >= Fee(q, p)
         /\ Value(q, p) = 0 <=> q = 0
<1>1. p \in Nat /\ p # 0
  BY RiskAssumption
<1>2. q * p \in Nat
  BY <1>1
<1>3. q * p = 0 <=> q = 0
  BY <1>1
<1>4. \A x \in Nat : 1000 * x \in Nat /\ 1000 * x >= x /\ (1000 * x = 0 <=> x = 0)
  OBVIOUS
<1>5. QED
  BY <1>2, <1>3, <1>4 DEF Value, Fee

\* What a BUY makes of an account whose cash covers it.
LEMMA BoughtAccount ==
  ASSUME NEW a \in Account, NEW q \in Nat, NEW p \in Prices,
         a.cash >= Value(q, p) + Fee(q, p)
  PROVE  /\ Bought(a, q, p) \in Account
         /\ Bought(a, q, p).today = a.today
         /\ Bought(a, q, p).cash + Bought(a, q, p).cost = a.cash + a.cost - Fee(q, p)
         /\ Bought(a, q, p).realized = a.realized
         /\ Bought(a, q, p).fees = a.fees + Fee(q, p)
         /\ Bought(a, q, p).quantity = a.quantity + q
         /\ Bought(a, q, p).cost = a.cost + Value(q, p)
<1> DEFINE v == Value(q, p)
           f == Fee(q, p)
<1>1. v \in Nat /\ f \in Nat
  BY ValueAndFee
<1>2. a.cash \in Nat /\ a.quantity \in Nat /\ a.cost \in Nat /\ a.fees \in Nat
      /\ a.realized \in Int /\ a.today \in Int
  BY DEF Account
<1>3. a.cash - v - f \in Nat /\ a.cost + v \in Nat /\ a.fees + f \in Nat /\ a.quantity + q \in Nat
  BY <1>1, <1>2
<1>4. (a.cash - v - f) + (a.cost + v) = a.cash + a.cost - f
  BY <1>1, <1>2
<1> HIDE DEF v, f
<1>5. Bought(a, q, p) = [cash |-> a.cash - v - f, quantity |-> a.quantity + q,
                         cost |-> a.cost + v, realized |-> a.realized, today |-> a.today,
                         fees |-> a.fees + f]
  BY DEF Bought, v, f
<1>6. Bought(a, q, p) \in Account
  BY <1>2, <1>3, <1>5 DEF Account
<1>7. QED
  BY <1>4, <1>5, <1>6 DEF v, f

\* What the SELL of a whole position makes of an account.
LEMMA SoldAccount ==
  ASSUME NEW a \in Account, NEW q \in Nat, NEW p \in Prices
  PROVE  /\ Sold(a, q, p) \in Account
         /\ Sold(a, q, p).cash = a.cash + Value(q, p) - Fee(q, p)
         /\ Sold(a, q, p).realized = a.realized + (Value(q, p) - a.cost - Fee(q, p))
         /\ Sold(a, q, p).fees = a.fees
         /\ Sold(a, q, p).quantity = 0
         /\ Sold(a, q, p).cost = 0
<1> DEFINE v == Value(q, p)
           f == Fee(q, p)
<1>1. v \in Nat /\ f \in Nat /\ v >= f
  BY ValueAndFee
<1>2. a.cash \in Nat /\ a.quantity \in Nat /\ a.cost \in Nat /\ a.fees \in Nat
      /\ a.realized \in Int /\ a.today \in Int
  BY DEF Account
<1>3. a.cash + v - f \in Nat /\ v - a.cost - f \in Int
  BY <1>1, <1>2
<1>4. a.realized + (v - a.cost - f) \in Int /\ a.today + (v - a.cost - f) \in Int
  BY <1>2, <1>3
<1> HIDE DEF v, f
<1>5. Sold(a, q, p) = [cash |-> a.cash + v - f, quantity |-> 0, cost |-> 0,
                       realized |-> a.realized + (v - a.cost - f),
                       today |-> a.today + (v - a.cost - f), fees |-> a.fees]
  BY DEF Sold, v, f
<1>6. Sold(a, q, p) \in Account
  BY <1>2, <1>3, <1>4, <1>5 DEF Account
<1>7. QED
  BY <1>5, <1>6 DEF v, f

-----------------------------------------------------------------------------
(* Types. *)

LEMMA IdleRunType == IdleRun \in Run /\ IdleRun.pc = "idle"
<1>1. (CHOOSE t \in Traders : TRUE) \in Traders /\ (CHOOSE p \in Prices : TRUE) \in Prices
  BY RiskAssumption
<1>2. NewAccount \in Account
  BY RiskAssumption DEF NewAccount, Account, Money
<1>3. QED
  BY <1>1, <1>2 DEF IdleRun, Run, Signal, NoSignal

\* A signal of a strategy is a signal.
LEMMA SignalType ==
  ASSUME NEW t \in Traders, NEW a \in Account, NEW p \in Prices, NEW s \in Signals(t, a, p)
  PROVE  s \in Signal
<1>1. Quote \div (1000 * p) \in Nat
  <2>1. Quote \in Nat /\ p \in Nat \ {0}
    BY RiskAssumption DEF Money
  <2>2. 1000 * p \in Nat \ {0}
    BY <2>1
  <2>3. \A n \in Nat, d \in Nat \ {0} : n \div d \in Nat
    OBVIOUS
  <2>4. QED
    BY <2>1, <2>2, <2>3
<1>2. a.quantity \in Nat
  BY DEF Account
<1>3. Entries(a, p) \subseteq Signal
  BY <1>1 DEF Entries, Signal
<1>4. Exits(a) \subseteq Signal
  BY <1>2 DEF Exits, Signal
<1>5. strategy[t] \in Strategies
  BY RiskAssumption
<1>6. s \in Entries(a, p) \/ s \in Exits(a)
  BY <1>2, <1>5 DEF Signals, Strategies
<1>7. QED
  BY <1>3, <1>4, <1>6

LEMMA EquityType ==
  ASSUME NEW a \in Account, NEW p \in Prices
  PROVE  Equity(a, p) \in Nat
<1>1. a.cash \in Nat /\ a.quantity \in Nat
  BY DEF Account
<1>2. Value(a.quantity, p) \in Nat
  BY <1>1, ValueAndFee
<1>3. QED
  BY <1>1, <1>2 DEF Equity

-----------------------------------------------------------------------------
(* Types, and the balance of the books. *)

BooksInv == TypeOK /\ BooksBalance

\* The books of one account.
Balanced(a) ==
  /\ a.cash + a.cost = Capital + a.realized - a.fees
  /\ a.quantity = 0 <=> a.cost = 0

LEMMA InitBooks == Init => BooksInv
<1> SUFFICES ASSUME Init PROVE BooksInv
  OBVIOUS
<1>1. NewAccount \in Account
  BY RiskAssumption DEF NewAccount, Account, Money
<1>2. TypeOK
  <2>1. run \in [Workers -> Run]
    BY IdleRunType DEF Init
  <2>2. account \in [Traders -> Account]
    BY <1>1 DEF Init
  <2>3. price \in Prices /\ moved \in BOOLEAN /\ late \in Nat
    BY DEF Init
  <2>4. /\ status \in [Traders -> {"RUNNING", "PAUSED", "RISK_BLOCKED"}]
        /\ highWater \in [Traders -> Nat]
        /\ cooling \in [Traders -> BOOLEAN]
        /\ trades \in Nat
    BY DEF Init
  <2>5. QED
    BY <2>1, <2>2, <2>3, <2>4 DEF TypeOK
<1>3. BooksBalance
  <2>1. Capital \in Nat
    BY RiskAssumption DEF Money
  <2>2. QED
    BY <2>1 DEF Init, BooksBalance, NewAccount
<1>4. QED
  BY <1>2, <1>3 DEF BooksInv

\* The history is of the right types after every step.
LEMMA HistoryType ==
  ASSUME TypeOK, [Next]_vars
  PROVE  moved' \in BOOLEAN /\ late' \in Nat
<1>1. moved \in BOOLEAN /\ late \in Nat
  BY DEF TypeOK
<1>2. CASE Remember
  <2>1. moved' \in BOOLEAN
    BY <1>2, Zenon DEF Remember
  <2>2. late' \in {0, late, late + 1}
    BY <1>2 DEF Remember
  <2> QED BY <1>1, <2>1, <2>2
<1>3. CASE UNCHANGED vars
  BY <1>1, <1>3 DEF vars, history
<1> QED
  BY <1>2, <1>3 DEF Next

\* A fill keeps the books of its trader.
LEMMA FillKeepsBooks ==
  ASSUME BooksInv, moved' \in BOOLEAN, late' \in Nat, NEW w \in Workers, Fill(w)
  PROVE  BooksInv'
<1> DEFINE r == run[w]
           t == r.trader
           q == r.signal.quantity
           p == r.price
           a == account[t]
<1>1. r \in Run /\ t \in Traders /\ q \in Nat /\ p \in Prices /\ a \in Account
  BY DEF BooksInv, TypeOK, Run, Signal
<1>2. Balanced(a)
  BY <1>1 DEF BooksInv, BooksBalance, Balanced
<1>3. Capital \in Nat
  BY RiskAssumption DEF Money
<1>4. a.cash \in Nat /\ a.quantity \in Nat /\ a.cost \in Nat /\ a.fees \in Nat
      /\ a.realized \in Int
  BY <1>1 DEF Account
<1>5. PICK b \in Account : account' = [account EXCEPT ![t] = b] /\ Balanced(b)
  <2> DEFINE v == Value(q, p)
             f == Fee(q, p)
  <2>1. v \in Nat /\ f \in Nat /\ (v = 0 <=> q = 0)
    BY <1>1, ValueAndFee
  <2>2. CASE /\ a.cash >= v + f
             /\ account' = [account EXCEPT ![t] = Bought(a, q, p)]
    <3> DEFINE b == Bought(a, q, p)
    <3>1. /\ b \in Account
          /\ b.cash + b.cost = a.cash + a.cost - f
          /\ b.realized = a.realized
          /\ b.fees = a.fees + f
          /\ b.quantity = a.quantity + q
          /\ b.cost = a.cost + v
      BY <1>1, <2>2, BoughtAccount
    <3> HIDE DEF b, v, f
    <3>2. b.cash + b.cost = Capital + b.realized - b.fees
      BY <1>2, <1>3, <1>4, <2>1, <3>1 DEF Balanced
    <3>3. b.quantity = 0 <=> b.cost = 0
      BY <1>1, <1>2, <1>4, <2>1, <3>1 DEF Balanced
    <3>4. QED
      BY <2>2, <3>1, <3>2, <3>3 DEF Balanced, b
  <2>3. CASE account' = [account EXCEPT ![t] = Sold(a, q, p)]
    <3> DEFINE b == Sold(a, q, p)
    <3>1. /\ b \in Account
          /\ b.cash = a.cash + v - f
          /\ b.realized = a.realized + (v - a.cost - f)
          /\ b.fees = a.fees
          /\ b.quantity = 0
          /\ b.cost = 0
      BY <1>1, SoldAccount
    <3> HIDE DEF b, v, f
    <3>2. /\ a.cash \in Int /\ a.cost \in Int /\ a.realized \in Int /\ a.fees \in Int
          /\ v \in Int /\ f \in Int /\ Capital \in Int
      BY <1>3, <1>4, <2>1
    <3>3. b.cash + b.cost = Capital + b.realized - b.fees
      <4>1. a.cash + a.cost = Capital + a.realized - a.fees
        BY <1>2 DEF Balanced
      <4> DEFINE profit == v - a.cost - f
      <4>2. profit \in Int /\ a.cash + v - f = (a.cash + a.cost) + profit
        BY <3>2
      <4>3. b.realized = a.realized + profit
        BY <3>1
      <4> HIDE DEF profit
      <4>4. (a.cash + a.cost) + profit = Capital + (a.realized + profit) - a.fees
        BY <3>2, <4>1, <4>2
      <4>5. b.cash + b.cost = (a.cash + a.cost) + profit
        BY <3>1, <3>2, <4>2
      <4>6. QED
        BY <3>1, <4>3, <4>4, <4>5
    <3>4. QED
      BY <2>3, <3>1, <3>3 DEF Balanced, b
  <2>4. QED
    BY <2>2, <2>3 DEF Fill
<1>6. TypeOK'
  <2>1. account' \in [Traders -> Account]
    BY <1>1, <1>5 DEF BooksInv, TypeOK
  <2>2. run' \in [Workers -> Run]
    BY IdleRunType DEF BooksInv, TypeOK, Fill, Leave, Continue
  <2>3. cooling' \in [Traders -> BOOLEAN] /\ trades' \in Nat
    BY <1>1 DEF BooksInv, TypeOK, Fill
  <2>4. UNCHANGED <<price, status, highWater>>
    BY DEF Fill
  <2>5. QED
    BY <2>1, <2>2, <2>3, <2>4 DEF BooksInv, TypeOK
<1>7. BooksBalance'
  <2>1. \A u \in Traders : account'[u] = IF u = t THEN b ELSE account[u]
    BY <1>1, <1>5 DEF BooksInv, TypeOK
  <2>2. \A u \in Traders : Balanced(account'[u])
    BY <1>5, <2>1 DEF BooksInv, BooksBalance, Balanced
  <2>3. QED
    BY <2>2 DEF BooksBalance, Balanced
<1>8. QED
  BY <1>6, <1>7 DEF BooksInv

\* No other step touches cash, cost, quantity, profits or fees.
LEMMA NextKeepsBooks == BooksInv /\ [Next]_vars => BooksInv'
<1> SUFFICES ASSUME BooksInv, [Next]_vars PROVE BooksInv'
  OBVIOUS
<1> USE DEF BooksInv
<1>0. moved' \in BOOLEAN /\ late' \in Nat
  BY HistoryType
<1>1. ASSUME TypeOK', UNCHANGED account PROVE BooksInv'
  BY <1>1 DEF BooksBalance
<1>2. ASSUME NEW w \in Workers, NEW t \in Traders, Load(w, t) PROVE BooksInv'
  <2>1. [pc |-> "raising", trader |-> t, price |-> price, account |-> account[t],
         high |-> highWater[t], signal |-> NoSignal] \in Run
    BY DEF TypeOK, Run, Signal, NoSignal
  <2>2. TypeOK'
    BY <1>0, <1>2, <2>1 DEF Load, Continue, TypeOK
  <2>3. QED
    BY <1>1, <1>2, <2>2 DEF Load
<1>3. ASSUME NEW w \in Workers, RaiseHighWater(w) PROVE BooksInv'
  <2> DEFINE r == run[w]
             equity == Equity(r.account, r.price)
  <2>1. r \in Run /\ r.account \in Account /\ r.price \in Prices
    BY DEF TypeOK, Run
  <2>2. equity \in Nat
    BY <2>1, EquityType
  <2>3. [r EXCEPT !.pc = "judging"] \in Run
    BY <2>1 DEF Run
  <2>4. highWater' \in [Traders -> Nat]
    BY <1>3, <2>2 DEF RaiseHighWater, TypeOK
  <2>5. run' \in [Workers -> Run]
    BY <1>3, <2>3 DEF RaiseHighWater, Continue, TypeOK
  <2>6. UNCHANGED <<price, status, account, cooling, trades>>
    BY <1>3 DEF RaiseHighWater
  <2>7. TypeOK'
    BY <1>0, <2>4, <2>5, <2>6 DEF TypeOK
  <2>8. QED
    BY <1>1, <2>6, <2>7
<1>4. ASSUME NEW w \in Workers, Leave(w), UNCHANGED <<price, account, highWater, cooling, trades>>,
             status' \in [Traders -> {"RUNNING", "PAUSED", "RISK_BLOCKED"}]
      PROVE  BooksInv'
  <2>1. TypeOK'
    BY <1>0, <1>4, IdleRunType DEF Leave, Continue, TypeOK
  <2>2. QED
    BY <1>1, <1>4, <2>1
<1>5. ASSUME NEW w \in Workers, Wait(w) PROVE BooksInv'
  BY <1>4, <1>5 DEF Wait, TypeOK
<1>6. ASSUME NEW w \in Workers, Throw(w) PROVE BooksInv'
  BY <1>4, <1>6 DEF Throw, TypeOK
<1>7. ASSUME NEW w \in Workers, Block(w) PROVE BooksInv'
  <2>1. status' \in [Traders -> {"RUNNING", "PAUSED", "RISK_BLOCKED"}]
    BY <1>7 DEF Block, TypeOK
  <2>2. QED
    BY <1>4, <1>7, <2>1 DEF Block
<1>8. ASSUME NEW w \in Workers, Judge(w) PROVE BooksInv'
  <2> DEFINE r == run[w]
  <2>1. r \in Run /\ r.account \in Account /\ r.price \in Prices /\ r.trader \in Traders
    BY DEF TypeOK, Run
  <2>2. PICK s \in Signals(r.trader, r.account, r.price) :
          \/ Continue(w, [r EXCEPT !.pc = "filling", !.signal = s])
          \/ Continue(w, [r EXCEPT !.pc = "blocking", !.signal = s])
          \/ Leave(w)
    BY <1>8 DEF Judge
  <2>3. s \in Signal
    BY <2>1, SignalType DEF TypeOK
  <2>4. /\ [r EXCEPT !.pc = "filling", !.signal = s] \in Run
        /\ [r EXCEPT !.pc = "blocking", !.signal = s] \in Run
    BY <2>1, <2>3 DEF Run
  <2>5. run' \in [Workers -> Run]
    BY <2>2, <2>4, IdleRunType DEF Continue, Leave, TypeOK
  <2>6. UNCHANGED <<price, status, account, highWater, cooling, trades>>
    BY <1>8 DEF Judge
  <2>7. TypeOK'
    BY <1>0, <2>5, <2>6 DEF TypeOK
  <2>8. QED
    BY <1>1, <2>6, <2>7
<1>9. ASSUME NewDay PROVE BooksInv'
  <2>1. \A t \in Traders :
          /\ account'[t] \in Account
          /\ account'[t].cash = account[t].cash /\ account'[t].cost = account[t].cost
          /\ account'[t].quantity = account[t].quantity
          /\ account'[t].realized = account[t].realized /\ account'[t].fees = account[t].fees
    BY <1>9 DEF NewDay, TypeOK, Account
  <2>2. account' \in [Traders -> Account]
    BY <1>9, <2>1 DEF NewDay
  <2>3. TypeOK'
    BY <1>0, <1>9, <2>2 DEF NewDay, TypeOK
  <2>4. BooksBalance'
    BY <2>1 DEF BooksBalance
  <2>5. QED
    BY <2>3, <2>4
<1>10. CASE MovePrice
  BY <1>0, <1>1, <1>10 DEF MovePrice, TypeOK
<1>11. ASSUME NEW t \in Traders, CoolDown(t) \/ Pause(t) \/ Resume(t) PROVE BooksInv'
  <2>1. TypeOK'
    BY <1>0, <1>11 DEF CoolDown, Pause, Resume, TypeOK
  <2>2. QED
    BY <1>1, <1>11, <2>1 DEF CoolDown, Pause, Resume
<1>12. CASE UNCHANGED vars
  BY <1>1, <1>12 DEF vars, history, TypeOK
<1>13. QED
  BY <1>0, <1>2, <1>3, <1>5, <1>6, <1>7, <1>8, <1>9, <1>10, <1>11, <1>12, FillKeepsBooks
     DEF Next, Cycle, Surroundings

\* Every reachable state has the right types; in particular no cash balance is
\* ever overdrawn by a fill and its fee.
THEOREM TypeCorrect == Spec => []TypeOK
<1>1. BooksInv => TypeOK
  BY DEF BooksInv
<1>2. QED
  BY InitBooks, NextKeepsBooks, <1>1, PTL DEF Spec

\* For any traders, workers, prices and limits, balance and position agree with
\* the trades (executePaperOrder).
THEOREM BooksAlwaysBalance == Spec => []BooksBalance
<1>1. BooksInv => BooksBalance
  BY DEF BooksInv
<1>2. QED
  BY InitBooks, NextKeepsBooks, <1>1, PTL DEF Spec

-----------------------------------------------------------------------------
(* No entry after the loss. *)

CycleInv == BooksInv /\ OneCycle /\ CopyIsGood /\ Judged

\* A verdict that allows an entry has found the losses tolerable.
LEMMA AllowedEntry ==
  ASSUME NEW r, NEW s, Verdict(r, s) = "ALLOW"
  PROVE  DailyLoss(r.account) < MaxDailyLoss
<1>1. TraderRisk(r.trader, s, Value(s.quantity, r.price), r.account, r.price, r.high) = "ALLOW"
  BY DEF Verdict
<1>2. LossesTolerable(r.account, r.price, r.high)
  BY <1>1 DEF TraderRisk
<1>3. QED
  BY <1>2 DEF LossesTolerable

\* A fill leaves the other traders alone and ends its cycle.
LEMMA FillIsOwn ==
  ASSUME TypeOK, NEW w \in Workers, Fill(w)
  PROVE  /\ \A t \in Traders \ {run[w].trader} : account'[t] = account[t]
         /\ run' = [run EXCEPT ![w] = IdleRun]
<1>1. PICK b : account' = [account EXCEPT ![run[w].trader] = b]
  BY DEF Fill
<1>2. QED
  BY <1>1 DEF Fill, Leave, Continue, TypeOK

LEMMA InitCycle == Init => CycleInv
  BY InitBooks, IdleRunType DEF Init, CycleInv, OneCycle, CopyIsGood, Judged, Busy

LEMMA NextKeepsCycle == CycleInv /\ [Next]_vars => CycleInv'
<1> SUFFICES ASSUME CycleInv, [Next]_vars PROVE CycleInv'
  OBVIOUS
<1> USE DEF CycleInv
<1>1. BooksInv' /\ TypeOK /\ TypeOK'
  BY NextKeepsBooks DEF BooksInv
<1> DEFINE Kept == OneCycle' /\ CopyIsGood' /\ Judged'
<1>2. ASSUME NEW w \in Workers, run' = [run EXCEPT ![w] = IdleRun],
             \A v \in Workers \ {w} : Busy(v) =>
                account'[run[v].trader].today \in {account[run[v].trader].today, 0}
      PROVE  Kept
  <2>1. /\ run'[w] = IdleRun /\ ~Busy(w)'
        /\ \A v \in Workers \ {w} : run'[v] = run[v]
    BY <1>1, <1>2, IdleRunType DEF TypeOK, Busy
  <2>2. OneCycle'
    BY <2>1 DEF OneCycle, Busy
  <2>3. CopyIsGood'
    BY <1>2, <2>1 DEF CopyIsGood, Busy
  <2>4. Judged'
    BY <2>1, IdleRunType DEF Judged
  <2>5. QED
    BY <2>2, <2>3, <2>4
<1>3. ASSUME NEW w \in Workers, NEW x, run' = [run EXCEPT ![w] = x], UNCHANGED account,
             Busy(w), x.trader = run[w].trader, x.account = run[w].account,
             x.pc = "filling" /\ x.signal.side = "BUY" => DailyLoss(x.account) < MaxDailyLoss
      PROVE  Kept
  <2>1. run'[w] = x /\ \A v \in Workers \ {w} : run'[v] = run[v]
    BY <1>1, <1>3 DEF TypeOK
  <2>2. OneCycle'
    BY <1>3, <2>1 DEF OneCycle, Busy
  <2>3. CopyIsGood'
    BY <1>3, <2>1 DEF CopyIsGood, Busy
  <2>4. Judged'
    BY <1>3, <2>1 DEF Judged
  <2>5. QED
    BY <2>2, <2>3, <2>4
<1>4. ASSUME UNCHANGED run,
             \A t \in Traders : account'[t].today \in {account[t].today, 0}
      PROVE  Kept
  <2>1. \A w \in Workers : run[w].trader \in Traders
    BY <1>1 DEF TypeOK, Run
  <2>2. CopyIsGood'
    BY <1>4, <2>1 DEF CopyIsGood, Busy
  <2>3. OneCycle' /\ Judged'
    BY <1>4 DEF OneCycle, Judged, Busy
  <2>4. QED
    BY <2>2, <2>3
<1>5. ASSUME NEW w \in Workers, NEW t \in Traders, Load(w, t) PROVE Kept
  <2> DEFINE x == [pc |-> "raising", trader |-> t, price |-> price, account |-> account[t],
                   high |-> highWater[t], signal |-> NoSignal]
  <2>1. run'[w] = x /\ \A v \in Workers \ {w} : run'[v] = run[v]
    BY <1>1, <1>5 DEF Load, Continue, TypeOK
  <2>2. UNCHANGED account /\ \A v \in Workers : Busy(v) => run[v].trader # t
    BY <1>5 DEF Load, Busy
  <2>3. x.pc = "raising" /\ x.trader = t /\ x.account = account[t]
    OBVIOUS
  <2> HIDE DEF x
  <2>4. OneCycle'
    BY <2>1, <2>2, <2>3 DEF OneCycle, Busy
  <2>5. CopyIsGood'
    BY <2>1, <2>2, <2>3 DEF CopyIsGood, Busy
  <2>6. Judged'
    BY <2>1, <2>3 DEF Judged
  <2>7. QED
    BY <2>4, <2>5, <2>6
<1>6. ASSUME NEW w \in Workers, RaiseHighWater(w) PROVE Kept
  <2> DEFINE x == [run[w] EXCEPT !.pc = "judging"]
  <2>1. x.pc = "judging" /\ x.trader = run[w].trader /\ x.account = run[w].account
    BY <1>1 DEF TypeOK, Run
  <2>2. run' = [run EXCEPT ![w] = x] /\ Busy(w) /\ UNCHANGED account
    BY <1>6 DEF RaiseHighWater, Continue, Busy
  <2> HIDE DEF x
  <2>3. QED
    BY <1>3, <2>1, <2>2
<1>7. ASSUME NEW w \in Workers, Judge(w) PROVE Kept
  <2> DEFINE r == run[w]
             Filling(s) == [r EXCEPT !.pc = "filling", !.signal = s]
             Blocking(s) == [r EXCEPT !.pc = "blocking", !.signal = s]
  <2>1. Busy(w) /\ UNCHANGED account
    BY <1>7 DEF Judge, Busy
  <2>2. PICK s \in Signals(r.trader, r.account, r.price) :
          \/ Verdict(r, s) = "ALLOW" /\ run' = [run EXCEPT ![w] = Filling(s)]
          \/ run' = [run EXCEPT ![w] = Blocking(s)]
          \/ run' = [run EXCEPT ![w] = IdleRun]
    BY <1>7 DEF Judge, Continue, Leave
  <2>3. /\ Filling(s).trader = r.trader /\ Filling(s).account = r.account
        /\ Blocking(s).trader = r.trader /\ Blocking(s).account = r.account
        /\ Blocking(s).pc = "blocking"
    BY <1>1 DEF TypeOK, Run
  <2> HIDE DEF Filling, Blocking
  <2>4. CASE Verdict(r, s) = "ALLOW" /\ run' = [run EXCEPT ![w] = Filling(s)]
    BY <1>3, <2>1, <2>3, <2>4, AllowedEntry
  <2>5. CASE run' = [run EXCEPT ![w] = Blocking(s)]
    BY <1>3, <2>1, <2>3, <2>5
  <2>6. CASE run' = [run EXCEPT ![w] = IdleRun]
    BY <1>2, <2>1, <2>6
  <2>7. QED
    BY <2>2, <2>4, <2>5, <2>6
<1>8. ASSUME NEW w \in Workers, Wait(w) \/ Block(w) \/ Throw(w) PROVE Kept
  <2>1. run' = [run EXCEPT ![w] = IdleRun] /\ UNCHANGED account
    BY <1>8 DEF Wait, Block, Throw, Leave, Continue
  <2>2. QED
    BY <1>2, <2>1
<1>9. ASSUME NEW w \in Workers, Fill(w) PROVE Kept
  <2>1. Busy(w)
    BY <1>9 DEF Fill, Busy
  <2>2. \A v \in Workers \ {w} : Busy(v) => run[v].trader # run[w].trader
    BY <2>1 DEF OneCycle
  <2>3. \A v \in Workers : run[v].trader \in Traders
    BY <1>1 DEF TypeOK, Run
  <2>4. QED
    BY <1>1, <1>2, <1>9, <2>2, <2>3, FillIsOwn
<1>10. ASSUME NewDay PROVE Kept
  <2>1. \A t \in Traders : account'[t].today = 0
    BY <1>1, <1>10 DEF NewDay, TypeOK, Account
  <2>2. QED
    BY <1>4, <1>10, <2>1 DEF NewDay
<1>11. ASSUME UNCHANGED <<run, account>> PROVE Kept
  BY <1>4, <1>11
<1>12. Kept
  <2>1. CASE \E w \in Workers : Cycle(w)
    BY <1>5, <1>6, <1>7, <1>8, <1>9, <2>1 DEF Cycle
  <2>2. CASE Surroundings
    BY <1>10, <1>11, <2>2 DEF Surroundings, MovePrice, CoolDown, Pause, Resume
  <2>3. CASE UNCHANGED vars
    BY <1>11, <2>3 DEF vars
  <2>4. QED
    BY <2>1, <2>2, <2>3 DEF Next
<1>13. QED
  BY <1>1, <1>12

\* Only a fill that buys enters a position.
LEMMA EntryIsFill ==
  ASSUME TypeOK, Next, NEW t \in Traders, Enters(t)
  PROVE  \E w \in Workers :
           /\ Fill(w) /\ run[w].pc = "filling" /\ run[w].trader = t
           /\ run[w].signal.side = "BUY"
           /\ account[t].cash >= Value(run[w].signal.quantity, run[w].price)
                                  + Fee(run[w].signal.quantity, run[w].price)
           /\ account' = [account EXCEPT ![t] =
                            Bought(account[t], run[w].signal.quantity, run[w].price)]
<1>1. account # account'
  BY DEF Enters, TypeOK, Account
<1>2. ~NewDay
  BY DEF NewDay, Enters, TypeOK, Account
<1>3. PICK w \in Workers : Fill(w)
  <2>1. ~Surroundings
    BY <1>1, <1>2 DEF Surroundings, MovePrice, CoolDown, Pause, Resume
  <2>2. ASSUME NEW w \in Workers, Cycle(w) PROVE Fill(w)
    <3>1. \A u \in Traders : ~Load(w, u)
      BY <1>1 DEF Load
    <3>2. ~RaiseHighWater(w) /\ ~Wait(w) /\ ~Throw(w) /\ ~Block(w)
      BY <1>1 DEF RaiseHighWater, Wait, Throw, Block
    <3>3. ~Judge(w)
      BY <1>1 DEF Judge
    <3> QED BY <2>2, <3>1, <3>2, <3>3 DEF Cycle
  <2> QED BY <2>1, <2>2 DEF Next
<1>4. run[w].trader = t
  BY <1>3, FillIsOwn DEF Enters, TypeOK, Account
<1>5. account' # [account EXCEPT ![t] = Sold(account[t], run[w].signal.quantity, run[w].price)]
  <2> SUFFICES ASSUME account' = [account EXCEPT ![t] =
                        Sold(account[t], run[w].signal.quantity, run[w].price)]
               PROVE  FALSE
    OBVIOUS
  <2>1. account'[t].quantity = 0
    BY DEF TypeOK, Sold
  <2>2. account[t].quantity \in Nat
    BY DEF TypeOK, Account
  <2> QED BY <2>1, <2>2 DEF Enters
<1> QED
  BY <1>3, <1>4, <1>5 DEF Fill

\* However cycles, days and the user interleave, on any number of workers, a
\* trader whose loss of the day has reached the limit enters no position
\* (RiskEngine.evaluate on the state that trader-runtime-state.ts loaded).
THEOREM NoEntryWhileTheLossStands == Spec => NoEntryAfterTheLoss
<1>1. CycleInv /\ [Next]_vars
        => [\A t \in Traders : Enters(t) => DailyLoss(account[t]) < MaxDailyLoss]_vars
  <2> SUFFICES ASSUME CycleInv, Next, NEW t \in Traders, Enters(t)
               PROVE  DailyLoss(account[t]) < MaxDailyLoss
    OBVIOUS
  <2>1. TypeOK
    BY DEF CycleInv, BooksInv
  <2>2. PICK w \in Workers :
          run[w].pc = "filling" /\ run[w].trader = t /\ run[w].signal.side = "BUY"
    BY <2>1, EntryIsFill
  <2>3. DailyLoss(run[w].account) < MaxDailyLoss /\ account[t].today \in {run[w].account.today, 0}
    BY <2>2 DEF CycleInv, Judged, CopyIsGood, Busy
  <2>4. run[w].account.today \in Int /\ MaxDailyLoss \in Nat
    BY <2>1, RiskAssumption DEF TypeOK, Run, Account, Money
  <2> QED BY <2>3, <2>4 DEF DailyLoss, Positive
<1>2. QED
  BY InitCycle, NextKeepsCycle, <1>1, PTL DEF Spec, NoEntryAfterTheLoss

-----------------------------------------------------------------------------
(* Entries within the limits.  The trader's own limits hold because nobody   *)
(* but its one cycle fills for it: OwnCopy and StillFits carry the verdict   *)
(* to the fill.  The limits of the portfolio are judged by each cycle as if  *)
(* it were the only one, so they hold but for the entries under way:         *)
(* ExposureBounded and LateBounded count each approved entry as made.        *)

\* The copy of the account is its account, at the price of the moment unless that
\* moved, and the mark of the trader is the highest equity seen.
OwnCopy(w) ==
  LET r == run[w] IN
  Busy(w) =>
    /\ account[r.trader].quantity = r.account.quantity
    /\ account[r.trader].cost = r.account.cost
    /\ account[r.trader].cash = r.account.cash
    /\ highWater[r.trader] = IF r.pc = "raising" THEN r.high
                             ELSE Higher(r.high, Equity(r.account, r.price))
    /\ ~moved => r.price = price

\* What the verdict found of the trader.
EntryFits(r) ==
  LET value == Value(r.signal.quantity, r.price) IN
  /\ r.account.cost + value =< Ceiling
  /\ Value(r.account.quantity, r.price) + value =< MaxExposure
  /\ Drawdown(r.account, r.price, r.high) < MaxDrawdown
  /\ value = Quote
StillFits(w) == run[w].pc = "filling" /\ run[w].signal.side = "BUY" => EntryFits(run[w])

\* The approved entries that are not filled yet.
Pending == {w \in Workers : run[w].pc = "filling" /\ run[w].signal.side = "BUY"}
Waiting == Cardinality(Pending)

Losing(accounts) == Reached(AccountDailyLoss(accounts), PortfolioDailyLoss)

ExposureBounded ==
  ~moved /\ Pending # {} /\ PortfolioExposure # 0
    => CurrentExposure(account, price) + Waiting * Quote
         =< PortfolioExposure + Others * Quote
LateBounded ==
  IF Losing(account) THEN late + Waiting =< Others ELSE late = 0

Copies == \A w \in Workers : OwnCopy(w) /\ StillFits(w)
EntryInv == CycleInv /\ Copies /\ ExposureBounded /\ LateBounded

Exposures(accounts, p) == [t \in Traders |-> Value(accounts[t].quantity, p)]
Results(accounts) == [t \in Traders |-> accounts[t].today]

LEMMA ExposureIsSum ==
  \A accounts, p :
    /\ CurrentExposure(accounts, p) = SumFunctionOnSet(Exposures(accounts, p), Traders)
    /\ AccountDailyLoss(accounts) = Positive(-SumFunctionOnSet(Results(accounts), Traders))
BY DEF CurrentExposure, AccountDailyLoss, SumFunction, Exposures, Results

\* An entry costs what the strategy wants to spend.
LEMMA EntryCost ==
  ASSUME NEW p \in Prices
  PROVE  LET q == Quote \div (1000 * p)
         IN  q \in Nat /\ Value(q, p) = Quote
<1>1. Quote \in Nat /\ p \in Nat \ {0}
  BY RiskAssumption DEF Money
<1> DEFINE d == 1000 * p
           q == Quote \div d
<1>2. d \in Nat \ {0} /\ Quote % d = 0
  <2>1. Quote % d = 0
    BY RiskAssumption
  <2>2. d \in Nat \ {0}
    BY <1>1
  <2> QED BY <2>1, <2>2
<1>3. /\ \A n \in Nat, e \in Nat \ {0} : n \div e \in Nat
      /\ \A n \in Nat, e \in Nat \ {0} : n % e = n - e * (n \div e)
  OBVIOUS
<1>4. q \in Nat /\ 0 = Quote - d * q
  <2> HIDE DEF d
  <2>1. q \in Nat
    BY <1>1, <1>2, <1>3
  <2>2. Quote % d = Quote - d * q
    BY <1>1, <1>2, <1>3
  <2> QED BY <1>2, <2>1, <2>2
<1>5. \A x \in Nat : 1000 * (x * p) = d * x /\ d * x \in Nat
  BY <1>1
<1> HIDE DEF d
<1>6. Value(q, p) = d * q /\ d * q \in Nat
  BY <1>4, <1>5 DEF Value
<1>7. Value(q, p) = Quote
  BY <1>1, <1>4, <1>6
<1> QED BY <1>4, <1>7 DEF d

\* A verdict that allows an entry has found it within every limit.
LEMMA AllowedFits ==
  ASSUME TypeOK, NEW w \in Workers,
         NEW s \in Signals(run[w].trader, run[w].account, run[w].price),
         Verdict(run[w], s) = "ALLOW", s.side = "BUY"
  PROVE  /\ EntryFits([run[w] EXCEPT !.pc = "filling", !.signal = s])
         /\ ~Beyond(CurrentExposure(account, price) + Quote, PortfolioExposure)
         /\ ~Losing(account)
<1> DEFINE r == run[w]
           a == r.account
           p == r.price
           f == [r EXCEPT !.pc = "filling", !.signal = s]
           value == Value(s.quantity, p)
<1>1. r \in Run /\ a \in Account /\ p \in Prices /\ r.trader \in Traders
  BY DEF TypeOK, Run
<1>2. f.account = a /\ f.price = p /\ f.high = r.high /\ f.signal = s
  BY <1>1 DEF Run
<1>3. PortfolioRisk(s, value) = "ALLOW" /\ TraderRisk(r.trader, s, value, a, p, r.high) = "ALLOW"
  BY DEF Verdict
<1>4. /\ ~Beyond(CurrentExposure(account, price) + value, PortfolioExposure)
      /\ ~Losing(account)
  BY <1>3 DEF PortfolioRisk, Losing
<1>5. ExposureFits(s, value, a, p) /\ LossesTolerable(a, p, r.high)
  BY <1>3 DEF TraderRisk
<1>6. /\ Value(a.quantity, p) + value =< MaxExposure
      /\ Drawdown(a, p, r.high) < MaxDrawdown
  BY <1>5 DEF ExposureFits, LossesTolerable
<1>7. a.cost + Quote =< Ceiling /\ value = Quote
  <2>1. s \in Entries(a, p)
    <3>1. a.quantity \in Nat /\ strategy[r.trader] \in Strategies
      BY <1>1, RiskAssumption DEF Account
    <3>2. \A x \in Exits(a) : x.side = "SELL"
      BY DEF Exits
    <3>3. s \in Entries(a, p) \/ s \in Exits(a)
      BY <3>1 DEF Signals, Strategies
    <3> QED BY <3>2, <3>3
  <2>2. a.cost + Quote =< Ceiling /\ s.quantity = Quote \div (1000 * p)
    BY <2>1 DEF Entries
  <2> QED BY <1>1, <2>2, EntryCost
<1>8. EntryFits(f)
  <2> HIDE DEF f
  <2> QED BY <1>2, <1>6, <1>7 DEF EntryFits
<1> QED BY <1>4, <1>7, <1>8

\* While a cycle is under way and no price moved, the price is the same.
LEMMA PriceStays ==
  ASSUME [Next]_vars, NEW w \in Workers, Busy(w)', ~moved'
  PROVE  ~moved /\ price' = price
<1>1. CASE Remember
  <2>1. \E v \in Workers : run'[v].pc # "idle"
    BY DEF Busy
  <2>2. ~(moved \/ price' # price)
    BY <1>1, <2>1, Zenon DEF Remember
  <2> QED BY <2>2, Zenon
<1>2. CASE UNCHANGED vars
  BY <1>2 DEF vars, history
<1> QED BY <1>1, <1>2 DEF Next

LEMMA NextKeepsCopies ==
  ASSUME CycleInv, Copies, [Next]_vars
  PROVE  Copies'
<1> DEFINE Same(t) == /\ account'[t].quantity = account[t].quantity
                      /\ account'[t].cost = account[t].cost
                      /\ account'[t].cash = account[t].cash
                      /\ highWater'[t] = highWater[t]
<1>1. TypeOK /\ OneCycle /\ \A w \in Workers : OwnCopy(w) /\ StillFits(w)
  BY DEF CycleInv, BooksInv, Copies
<1>2. ASSUME NEW w \in Workers, run'[w] = run[w], Busy(w) => Same(run[w].trader)
      PROVE  OwnCopy(w)' /\ StillFits(w)'
  <2>1. OwnCopy(w) /\ StillFits(w)
    BY <1>1
  <2>2. Busy(w) /\ ~moved' => ~moved /\ price' = price
    BY <1>2, PriceStays DEF Busy
  <2>3. OwnCopy(w)'
    BY <1>2, <2>1, <2>2 DEF OwnCopy, Busy
  <2> QED BY <1>2, <2>1, <2>3 DEF StillFits
<1>3. ASSUME NEW w \in Workers, NEW x, run' = [run EXCEPT ![w] = x],
             \A v \in Workers \ {w} : Busy(v) => Same(run[v].trader),
             OwnCopy(w)', StillFits(w)'
      PROVE  Copies'
  <2> SUFFICES ASSUME NEW v \in Workers, v # w PROVE OwnCopy(v)' /\ StillFits(v)'
    BY <1>3 DEF Copies
  <2>1. run'[v] = run[v]
    BY <1>1, <1>3 DEF TypeOK
  <2> QED BY <1>2, <1>3, <2>1
<1>4. ASSUME NEW w \in Workers, run' = [run EXCEPT ![w] = IdleRun],
             \A v \in Workers \ {w} : Busy(v) => Same(run[v].trader)
      PROVE  Copies'
  <2>1. run'[w].pc = "idle"
    BY <1>1, <1>4, IdleRunType DEF TypeOK
  <2>2. OwnCopy(w)' /\ StillFits(w)'
    BY <2>1 DEF OwnCopy, StillFits, Busy
  <2> QED BY <1>3, <1>4, <2>2
<1>5. ASSUME NEW w \in Workers, NEW t \in Traders, Load(w, t) PROVE Copies'
  <2> DEFINE x == [pc |-> "raising", trader |-> t, price |-> price,
                   account |-> account[t], high |-> highWater[t], signal |-> NoSignal]
  <2>1. run' = [run EXCEPT ![w] = x] /\ UNCHANGED <<price, account, highWater>>
    BY <1>5 DEF Load, Continue
  <2>2. run'[w] = x
    BY <1>1, <2>1 DEF TypeOK
  <2>3. OwnCopy(w)' /\ StillFits(w)'
    BY <2>1, <2>2 DEF OwnCopy, StillFits, Busy
  <2> HIDE DEF x
  <2> QED BY <1>3, <2>1, <2>3
<1>6. ASSUME NEW w \in Workers, RaiseHighWater(w) PROVE Copies'
  <2> DEFINE r == run[w]
             equity == Equity(r.account, r.price)
  <2>1. r \in Run /\ r.trader \in Traders /\ r.account \in Account /\ r.price \in Prices
        /\ r.high \in Nat
    BY <1>1 DEF TypeOK, Run
  <2>2. equity \in Nat
    BY <2>1, EquityType
  <2>3. PICK x : /\ x = [r EXCEPT !.pc = "judging"]
                 /\ run' = [run EXCEPT ![w] = x]
                 /\ run'[w] = x
    BY <1>1, <1>6 DEF RaiseHighWater, Continue, TypeOK
  <2>4. /\ x.pc = "judging" /\ x.trader = r.trader /\ x.account = r.account
        /\ x.price = r.price /\ x.high = r.high
    BY <2>1, <2>3 DEF Run
  <2>5. OwnCopy(w) /\ r.pc = "raising" /\ Busy(w)
    BY <1>1, <1>6 DEF RaiseHighWater, Busy
  <2>6. /\ account[r.trader].quantity = r.account.quantity
        /\ account[r.trader].cost = r.account.cost
        /\ account[r.trader].cash = r.account.cash
        /\ highWater[r.trader] = r.high
        /\ ~moved => r.price = price
    BY <2>5 DEF OwnCopy
  <2>7. highWater'[r.trader] = Higher(r.high, equity)
    <3>1. highWater'[r.trader] = IF equity > r.high THEN equity ELSE highWater[r.trader]
      BY <1>1, <1>6, <2>1 DEF RaiseHighWater, TypeOK
    <3> HIDE DEF equity
    <3> QED BY <2>1, <2>2, <2>6, <3>1 DEF Higher
  <2>8. UNCHANGED <<price, account>>
    BY <1>6 DEF RaiseHighWater
  <2>9. ~moved' => ~moved
    <3>1. Busy(w)'
      BY <2>3, <2>4 DEF Busy
    <3> QED BY <3>1, PriceStays
  <2>10. OwnCopy(w)' /\ StillFits(w)'
    BY <2>3, <2>4, <2>6, <2>7, <2>8, <2>9 DEF OwnCopy, StillFits
  <2>11. \A v \in Workers \ {w} : Busy(v) => Same(run[v].trader)
    <3>1. \A v \in Workers \ {w} : Busy(v) => run[v].trader \in Traders \ {r.trader}
      BY <1>1, <2>5 DEF OneCycle, TypeOK, Run
    <3>2. \A t \in Traders \ {r.trader} : highWater'[t] = highWater[t]
      BY <1>1, <1>6 DEF RaiseHighWater, TypeOK
    <3> QED BY <2>8, <3>1, <3>2
  <2> QED BY <1>3, <2>3, <2>10, <2>11
<1>7. ASSUME NEW w \in Workers, Judge(w) PROVE Copies'
  <2> DEFINE r == run[w]
             Filling(s) == [r EXCEPT !.pc = "filling", !.signal = s]
             Blocking(s) == [r EXCEPT !.pc = "blocking", !.signal = s]
  <2>1. UNCHANGED <<price, account, highWater>> /\ r.pc = "judging" /\ r \in Run
    BY <1>1, <1>7 DEF Judge, TypeOK
  <2>2. PICK s \in Signals(r.trader, r.account, r.price) :
          \/ Verdict(r, s) = "ALLOW" /\ run' = [run EXCEPT ![w] = Filling(s)]
          \/ run' = [run EXCEPT ![w] = Blocking(s)]
          \/ run' = [run EXCEPT ![w] = IdleRun]
    BY <1>7 DEF Judge, Continue, Leave
  <2>3. \A x \in {Filling(s), Blocking(s)} :
          /\ x.trader = r.trader /\ x.account = r.account /\ x.price = r.price
          /\ x.high = r.high /\ x.pc \in {"filling", "blocking"} /\ x.signal = s
    BY <2>1 DEF Run
  <2>4. Blocking(s).pc = "blocking"
    BY <2>1 DEF Run
  <2>5. /\ account[r.trader].quantity = r.account.quantity
        /\ account[r.trader].cost = r.account.cost
        /\ account[r.trader].cash = r.account.cash
        /\ highWater[r.trader] = Higher(r.high, Equity(r.account, r.price))
        /\ ~moved => r.price = price
    BY <1>1, <2>1 DEF OwnCopy, Busy
  <2>6. Verdict(r, s) = "ALLOW" /\ s.side = "BUY" => EntryFits(Filling(s))
    BY <1>1, AllowedFits
  <2> HIDE DEF Filling, Blocking
  <2>7. ASSUME NEW x \in {Filling(s), Blocking(s)}, run' = [run EXCEPT ![w] = x]
        PROVE  OwnCopy(w)'
    <3>1. run'[w] = x
      BY <1>1, <2>7 DEF TypeOK
    <3>2. x.pc # "raising" /\ x.pc # "idle"
      BY <2>3
    <3>3. ~moved' => ~moved
      BY <3>1, <3>2, PriceStays DEF Busy
    <3> QED BY <2>1, <2>3, <2>5, <3>1, <3>2, <3>3 DEF OwnCopy
  <2>8. CASE Verdict(r, s) = "ALLOW" /\ run' = [run EXCEPT ![w] = Filling(s)]
    <3>1. run'[w] = Filling(s) /\ Filling(s).signal = s
      BY <1>1, <2>3, <2>8 DEF TypeOK
    <3>2. StillFits(w)'
      BY <2>6, <2>8, <3>1 DEF StillFits
    <3> QED BY <1>3, <2>1, <2>7, <2>8, <3>2
  <2>9. CASE run' = [run EXCEPT ![w] = Blocking(s)]
    <3>1. run'[w].pc = "blocking"
      BY <1>1, <2>4, <2>9 DEF TypeOK
    <3>2. StillFits(w)'
      BY <3>1 DEF StillFits
    <3> QED BY <1>3, <2>1, <2>7, <2>9, <3>2
  <2>10. CASE run' = [run EXCEPT ![w] = IdleRun]
    BY <1>4, <2>1, <2>10
  <2> QED BY <2>2, <2>8, <2>9, <2>10
<1>8. ASSUME NEW w \in Workers, Wait(w) \/ Block(w) \/ Throw(w) PROVE Copies'
  <2>1. run' = [run EXCEPT ![w] = IdleRun] /\ UNCHANGED <<account, highWater>>
    BY <1>8 DEF Wait, Block, Throw, Leave, Continue
  <2> QED BY <1>4, <2>1
<1>9. ASSUME NEW w \in Workers, Fill(w) PROVE Copies'
  <2>1. Busy(w) /\ UNCHANGED highWater
    BY <1>9 DEF Fill, Busy
  <2>2. \A v \in Workers \ {w} : Busy(v) => run[v].trader \in Traders \ {run[w].trader}
    BY <1>1, <2>1 DEF OneCycle, TypeOK, Run
  <2> QED BY <1>1, <1>4, <1>9, <2>1, <2>2, FillIsOwn
<1>10. ASSUME UNCHANGED <<run, highWater>>, NewDay \/ UNCHANGED account PROVE Copies'
  <2>1. \A t \in Traders : Same(t)
    BY <1>1, <1>10 DEF NewDay, TypeOK, Account
  <2>2. \A w \in Workers : run[w].trader \in Traders
    BY <1>1 DEF TypeOK, Run
  <2> QED BY <1>2, <1>10, <2>1, <2>2 DEF Copies
<1>11. CASE \E w \in Workers : Cycle(w)
  BY <1>5, <1>6, <1>7, <1>8, <1>9, <1>11 DEF Cycle
<1>12. CASE Surroundings
  BY <1>10, <1>12 DEF Surroundings, MovePrice, NewDay, CoolDown, Pause, Resume
<1>13. CASE UNCHANGED vars
  BY <1>10, <1>13 DEF vars
<1> QED
  BY <1>11, <1>12, <1>13 DEF Next
-----------------------------------------------------------------------------
(* The limits of the portfolio. *)

\* What an entry does to its trader and to the portfolio.
LEMMA EntryGrows ==
  ASSUME IsFiniteSet(Traders), TypeOK, NEW t \in Traders, NEW q \in Nat, NEW p \in Prices,
         account[t].cash >= Value(q, p) + Fee(q, p),
         account' = [account EXCEPT ![t] = Bought(account[t], q, p)]
  PROVE  /\ account'[t].cost = account[t].cost + Value(q, p)
         /\ Value(account'[t].quantity, p) = Value(account[t].quantity, p) + Value(q, p)
         /\ CurrentExposure(account', p) = CurrentExposure(account, p) + Value(q, p)
         /\ Losing(account') <=> Losing(account)
<1> DEFINE f == Exposures(account, p)
           g == Exposures(account', p)
<1>1. p \in Nat /\ account[t] \in Account
  BY RiskAssumption DEF TypeOK
<1>2. \A u \in Traders : account[u].quantity \in Nat
  BY DEF TypeOK, Account
<1>3. /\ account'[t].quantity = account[t].quantity + q
      /\ account'[t].cost = account[t].cost + Value(q, p)
      /\ account'[t].today = account[t].today
  BY <1>1, BoughtAccount DEF TypeOK
<1>4. \A x, y \in Nat : Value(x + y, p) = Value(x, p) + Value(y, p)
  <2>1. \A x, y, z \in Nat : 1000 * ((x + y) * z) = 1000 * (x * z) + 1000 * (y * z)
    OBVIOUS
  <2> QED BY <1>1, <2>1 DEF Value
<1>5. Value(account'[t].quantity, p) = Value(account[t].quantity, p) + Value(q, p)
  BY <1>2, <1>3, <1>4
<1>6. \A u \in Traders \ {t} : account'[u] = account[u]
  BY DEF TypeOK
<1>7. /\ \A u \in Traders : f[u] \in Int /\ g[u] \in Int
      /\ \A u \in Traders \ {t} : f[u] = g[u]
  <2>1. \A u \in Traders : account'[u].quantity \in Nat
    BY <1>2, <1>3, <1>6
  <2>2. \A n \in Nat : Value(n, p) \in Nat
    BY <1>1, ValueAndFee
  <2> QED BY <1>2, <1>6, <2>1, <2>2 DEF Exposures
<1>8. g[t] = f[t] + Value(q, p)
  BY <1>5 DEF Exposures
<1>9. SumFunctionOnSet(g, Traders) = SumFunctionOnSet(f, Traders) + Value(q, p)
  <2> DEFINE v == Value(q, p)
  <2>1. v \in Int
    BY <1>1, ValueAndFee
  <2> HIDE DEF f, g, v
  <2>2. SumFunctionOnSet(g, Traders) = SumFunctionOnSet(f, Traders) - f[t] + g[t]
    BY <1>7, SumChange
  <2>3. SumFunctionOnSet(f, Traders) \in Int /\ f[t] \in Int
    BY <1>7, SumType
  <2>4. g[t] = f[t] + v
    BY <1>8 DEF v
  <2>5. SumFunctionOnSet(g, Traders) = SumFunctionOnSet(f, Traders) + v
    BY <2>1, <2>2, <2>3, <2>4
  <2> QED BY <2>5 DEF v
<1>10. AccountDailyLoss(account') = AccountDailyLoss(account)
  <2>1. Results(account') = Results(account)
    BY <1>3, <1>6 DEF Results
  <2> QED BY <2>1, ExposureIsSum
<1> QED
  BY <1>3, <1>5, <1>9, <1>10, ExposureIsSum DEF f, g, Losing

\* An exit lowers the exposure.
LEMMA ExitShrinks ==
  ASSUME IsFiniteSet(Traders), TypeOK, NEW t \in Traders, NEW q \in Nat, NEW p \in Prices,
         account' = [account EXCEPT ![t] = Sold(account[t], q, p)]
  PROVE  /\ \A x \in Prices : CurrentExposure(account', x) =< CurrentExposure(account, x)
         /\ \A u \in Traders : ~Enters(u)
<1>1. \A u \in Traders : account'[u].quantity \in Nat /\ account[u].quantity \in Nat
                         /\ account'[u].quantity \in {account[u].quantity, 0}
  BY DEF TypeOK, Account, Sold
<1>2. ASSUME NEW x \in Prices PROVE CurrentExposure(account', x) =< CurrentExposure(account, x)
  <2> DEFINE f == Exposures(account', x)
             g == Exposures(account, x)
  <2>1. \A n \in Nat : Value(n, x) \in Nat /\ Value(0, x) = 0
    BY ValueAndFee
  <2>2. \A u \in Traders : f[u] \in Int /\ g[u] \in Int /\ f[u] =< g[u]
    BY <1>1, <2>1 DEF Exposures
  <2> HIDE DEF f, g
  <2>3. SumFunctionOnSet(f, Traders) =< SumFunctionOnSet(g, Traders)
    BY <2>2, SumMonotone
  <2> QED BY <2>3, ExposureIsSum DEF f, g
<1>3. \A u \in Traders : ~Enters(u)
  BY <1>1 DEF Enters
<1> QED
  BY <1>2, <1>3

\* Nothing is lost where no trader has a result of the day.
LEMMA NoLoss ==
  ASSUME IsFiniteSet(Traders), NEW accounts, \A t \in Traders : accounts[t].today = 0
  PROVE  ~Losing(accounts)
<1> DEFINE f == Results(accounts)
<1>1. \A t \in Traders : f[t] = 0
  BY DEF Results
<1> HIDE DEF f
<1>2. SumFunctionOnSet(f, Traders) = 0
  BY <1>1, SumZero
<1>3. AccountDailyLoss(accounts) = Positive(-SumFunctionOnSet(f, Traders))
  BY ExposureIsSum DEF f
<1>4. AccountDailyLoss(accounts) = 0
  BY <1>2, <1>3 DEF Positive
<1>5. PortfolioDailyLoss \in Nat
  BY RiskAssumption DEF Money
<1> QED
  BY <1>4, <1>5 DEF Losing, Reached

\* A day ends the losses of the portfolio.
LEMMA NewDayForgives ==
  ASSUME IsFiniteSet(Traders), TypeOK, NewDay
  PROVE  /\ ~Losing(account')
         /\ CurrentExposure(account', price) = CurrentExposure(account, price)
<1>1. \A t \in Traders : /\ account'[t].quantity = account[t].quantity
                         /\ account'[t].today = 0
  BY DEF NewDay, TypeOK, Account
<1>2. Exposures(account', price) = Exposures(account, price)
  BY <1>1 DEF Exposures
<1> QED
  BY <1>1, <1>2, NoLoss, ExposureIsSum

LEMMA ExposureType ==
  ASSUME IsFiniteSet(Traders), NEW accounts \in [Traders -> Account], NEW p \in Prices
  PROVE  CurrentExposure(accounts, p) \in Int
<1> DEFINE f == Exposures(accounts, p)
<1>1. \A t \in Traders : f[t] \in Int
  <2>1. \A t \in Traders : accounts[t].quantity \in Nat
    BY DEF Account
  <2>2. \A n \in Nat : Value(n, p) \in Nat
    BY ValueAndFee
  <2> QED BY <2>1, <2>2 DEF Exposures
<1> HIDE DEF f
<1>2. SumFunctionOnSet(f, Traders) \in Int
  BY <1>1, SumType
<1> QED BY <1>2, ExposureIsSum DEF f

\* A worker whose entry is not pending leaves room for one more.
LEMMA PendingCount ==
  ASSUME IsFiniteSet(Workers), NEW P \in SUBSET Workers
  PROVE  /\ Cardinality(P) \in Nat /\ Cardinality(P) =< Others + 1 /\ Others \in Int
         /\ \A w \in Workers \ P : Cardinality(P) =< Others
         /\ \A Q \in SUBSET P : Cardinality(Q) \in Nat /\ Cardinality(Q) =< Cardinality(P)
         /\ \A w \in P : Cardinality(P \ {w}) = Cardinality(P) - 1
<1>1. /\ IsFiniteSet(P) /\ Cardinality(P) =< Cardinality(Workers)
      /\ Cardinality(P) \in Nat /\ Cardinality(Workers) \in Nat
  BY FS_Subset, FS_CardinalityType
<1>2. ASSUME NEW w \in Workers \ P PROVE Cardinality(P) =< Others
  <2>1. Cardinality(P) # Cardinality(Workers)
    BY <1>2, FS_Subset
  <2> QED BY <1>1, <2>1 DEF Others
<1>3. \A Q \in SUBSET P : Cardinality(Q) \in Nat /\ Cardinality(Q) =< Cardinality(P)
  BY <1>1, FS_Subset, FS_CardinalityType
<1>4. \A w \in P : Cardinality(P \ {w}) = Cardinality(P) - 1
  BY <1>1, FS_RemoveElement
<1> QED
  BY <1>1, <1>2, <1>3, <1>4 DEF Others
\* An approved entry is counted as made, an entry that is filled or dropped no longer.
LEMMA NextKeepsBounds ==
  ASSUME IsFiniteSet(Traders), IsFiniteSet(Workers), EntryInv, [Next]_vars
  PROVE  ExposureBounded' /\ LateBounded'
<1>1. /\ TypeOK /\ TypeOK' /\ ExposureBounded /\ LateBounded
      /\ \A w \in Workers : OwnCopy(w) /\ StillFits(w)
  BY NextKeepsCycle DEF EntryInv, CycleInv, BooksInv, Copies
<1>2. /\ price \in Prices /\ late \in Nat /\ Quote \in Nat /\ PortfolioExposure \in Nat
      /\ CurrentExposure(account, price) \in Int
  BY <1>1, ExposureType, RiskAssumption DEF TypeOK, Money
<1>3. PICK P \in SUBSET Workers : P = Pending
  BY DEF Pending
<1>4. PICK R \in SUBSET Workers : R = Pending'
  BY DEF Pending
<1> DEFINE k == Cardinality(P)
           m == Cardinality(R)
           E == CurrentExposure(account, price)
<1>5. k = Waiting /\ m = Waiting'
  BY <1>3, <1>4 DEF Waiting
<1>6. k \in Nat /\ k =< Others + 1 /\ Others \in Int /\ m \in Nat /\ m =< Others + 1
  BY PendingCount
<1>7. \A i, j \in Int : i =< j => i * Quote =< j * Quote
  <2>1. \A i, j, n \in Int : i =< j /\ n >= 0 => i * n =< j * n
    OBVIOUS
  <2> QED BY <1>2, <2>1
<1>8. \A i \in Int : (i + 1) * Quote = i * Quote + Quote /\ i * Quote \in Int
  BY <1>2
<1>9. R # {} /\ ~moved' => ~moved /\ price' = price
  <2>1. \A w \in R : w \in Workers /\ Busy(w)'
    BY <1>4 DEF Pending, Busy
  <2> QED BY <2>1, PriceStays
<1>10. ASSUME R # {} /\ ~moved /\ PortfolioExposure # 0
                => CurrentExposure(account', price) + m * Quote =< PortfolioExposure + Others * Quote
       PROVE  ExposureBounded'
  BY <1>4, <1>5, <1>9, <1>10 DEF ExposureBounded
<1>11. ASSUME R \subseteq P, CurrentExposure(account', price) \in Int,
              CurrentExposure(account', price) =< E
       PROVE  ExposureBounded'
  <2> SUFFICES ASSUME R # {}, ~moved, PortfolioExposure # 0
               PROVE  CurrentExposure(account', price) + m * Quote
                        =< PortfolioExposure + Others * Quote
    BY <1>10
  <2>1. E + k * Quote =< PortfolioExposure + Others * Quote
    BY <1>1, <1>3, <1>5, <1>11 DEF ExposureBounded
  <2>2. m =< k
    BY <1>11, PendingCount
  <2> HIDE DEF k, m, E
  <2>3. m * Quote =< k * Quote /\ m * Quote \in Int /\ k * Quote \in Int /\ Others * Quote \in Int
    BY <1>6, <1>7, <1>8, <2>2
  <2> DEFINE x == m * Quote
             y == k * Quote
             z == PortfolioExposure + Others * Quote
  <2>4. x \in Int /\ y \in Int /\ z \in Int /\ x =< y /\ E + y =< z
    BY <1>2, <2>1, <2>3
  <2>5. E \in Int
    BY <1>2 DEF E
  <2> HIDE DEF x, y, z
  <2>6. CurrentExposure(account', price) + x =< z
    BY <1>11, <2>4, <2>5
  <2> QED BY <2>6 DEF x, z
<1>12. ASSUME ~Losing(account') PROVE LateBounded'
  <2>1. CASE Remember
    BY <1>12, <2>1 DEF Remember, Losing, LateBounded
  <2>2. CASE UNCHANGED vars
    BY <1>1, <1>12, <2>2 DEF vars, history, LateBounded
  <2> QED BY <2>1, <2>2 DEF Next
<1>13. ASSUME \A t \in Traders : ~Enters(t), Losing(account') PROVE late' = late
  <2>1. CASE Remember
    BY <1>13, <2>1 DEF Remember, Losing
  <2>2. CASE UNCHANGED vars
    BY <2>2 DEF vars, history
  <2> QED BY <2>1, <2>2 DEF Next
<1>14. ASSUME R \subseteq P, \A t \in Traders : ~Enters(t),
              Losing(account') => Losing(account) \/ m =< Others
       PROVE  LateBounded'
  <2> SUFFICES ASSUME Losing(account') PROVE late' + m =< Others
    BY <1>5, <1>12 DEF LateBounded
  <2>1. late' = late
    BY <1>13, <1>14
  <2>2. m =< k
    BY <1>14, PendingCount
  <2>3. CASE Losing(account)
    <3>1. late + k =< Others
      BY <1>1, <1>5, <2>3 DEF LateBounded
    <3> HIDE DEF k, m
    <3> QED BY <1>2, <1>6, <2>1, <2>2, <3>1
  <2>4. CASE ~Losing(account)
    <3>1. late = 0 /\ m =< Others
      BY <1>1, <1>14, <2>4 DEF LateBounded
    <3> HIDE DEF m
    <3> QED BY <1>6, <2>1, <3>1
  <2> QED BY <2>3, <2>4
<1>15. ASSUME R \subseteq P, UNCHANGED account PROVE ExposureBounded' /\ LateBounded'
  <2>1. \A t \in Traders : ~Enters(t)
    BY <1>1, <1>15 DEF Enters, TypeOK, Account
  <2>2. account' = account
    BY <1>15
  <2>3. CurrentExposure(account', price) = E /\ (Losing(account') <=> Losing(account))
    BY <2>2
  <2>4. E \in Int /\ E =< E
    BY <1>2
  <2> HIDE DEF E
  <2>5. ExposureBounded'
    BY <1>11, <1>15, <2>3, <2>4
  <2>6. LateBounded'
    BY <1>14, <1>15, <2>1, <2>3
  <2> QED BY <2>5, <2>6
<1>16. ASSUME NEW w \in Workers, Judge(w) PROVE ExposureBounded' /\ LateBounded'
  <2> DEFINE r == run[w]
             Filling(s) == [r EXCEPT !.pc = "filling", !.signal = s]
             Blocking(s) == [r EXCEPT !.pc = "blocking", !.signal = s]
  <2>1. UNCHANGED account /\ r.pc = "judging" /\ r \in Run
    BY <1>1, <1>16 DEF Judge, TypeOK
  <2>2. PICK s \in Signals(r.trader, r.account, r.price) :
          \/ Verdict(r, s) = "ALLOW" /\ run' = [run EXCEPT ![w] = Filling(s)]
          \/ run' = [run EXCEPT ![w] = Blocking(s)]
          \/ run' = [run EXCEPT ![w] = IdleRun]
    BY <1>16 DEF Judge, Continue, Leave
  <2>3. Filling(s).signal = s /\ Blocking(s).pc = "blocking"
    BY <2>1 DEF Run
  <2> HIDE DEF Filling, Blocking
  <2>4. \A v \in Workers \ {w} : run'[v] = run[v]
    BY <1>1, <2>2 DEF TypeOK
  <2>5. CASE ~(Verdict(r, s) = "ALLOW" /\ s.side = "BUY" /\ run' = [run EXCEPT ![w] = Filling(s)])
    <3>1. w \notin R
      <4>1. CASE run' = [run EXCEPT ![w] = Filling(s)] /\ s.side # "BUY"
        <5>1. run'[w] = Filling(s)
          BY <1>1, <4>1 DEF TypeOK
        <5> QED BY <1>4, <2>3, <4>1, <5>1 DEF Pending
      <4>2. CASE run' = [run EXCEPT ![w] = Blocking(s)]
        <5>1. run'[w].pc = "blocking"
          BY <1>1, <2>3, <4>2 DEF TypeOK
        <5> QED BY <1>4, <5>1 DEF Pending
      <4>3. CASE run' = [run EXCEPT ![w] = IdleRun]
        <5>1. run'[w].pc = "idle"
          BY <1>1, <4>3, IdleRunType DEF TypeOK
        <5> QED BY <1>4, <5>1 DEF Pending
      <4> QED BY <2>2, <2>5, <4>1, <4>2, <4>3
    <3>2. R \subseteq P
      BY <1>3, <1>4, <2>4, <3>1 DEF Pending
    <3> QED BY <1>15, <2>1, <3>2
  <2>6. CASE Verdict(r, s) = "ALLOW" /\ s.side = "BUY"
    <3>1. ~Beyond(E + Quote, PortfolioExposure) /\ ~Losing(account)
      BY <1>1, <2>6, AllowedFits
    <3>2. account' = account
      BY <2>1
    <3>3. CurrentExposure(account', price) = E /\ ~Losing(account')
      BY <3>1, <3>2
    <3>4. ASSUME PortfolioExposure # 0
          PROVE  E + m * Quote =< PortfolioExposure + Others * Quote
      <4>1. E + Quote =< PortfolioExposure
        <5> HIDE DEF E
        <5>1. E \in Int
          BY <1>2 DEF E
        <5> QED BY <1>2, <3>1, <3>4, <5>1 DEF Beyond
      <4> HIDE DEF E, m
      <4>2. m * Quote =< Others * Quote + Quote /\ m * Quote \in Int /\ Others * Quote \in Int
        BY <1>6, <1>7, <1>8
      <4> DEFINE x == m * Quote
                 z == Others * Quote
      <4>3. x =< z + Quote /\ x \in Int /\ z \in Int /\ E \in Int
        BY <1>2, <4>2 DEF E
      <4> HIDE DEF x, z
      <4>4. E + x =< PortfolioExposure + z
        BY <1>2, <4>1, <4>3
      <4> QED BY <4>4 DEF x, z
    <3> HIDE DEF E
    <3>5. ExposureBounded'
      BY <1>10, <3>3, <3>4
    <3>6. LateBounded'
      BY <1>12, <3>3
    <3> QED BY <3>5, <3>6
  <2> QED BY <2>5, <2>6
<1>17. ASSUME NEW w \in Workers, Fill(w) PROVE ExposureBounded' /\ LateBounded'
  <2> DEFINE r == run[w]
             t == r.trader
             q == r.signal.quantity
             p == r.price
  <2>1. r \in Run /\ t \in Traders /\ q \in Nat /\ p \in Prices /\ r.pc = "filling"
    BY <1>1, <1>17 DEF Fill, TypeOK, Run, Signal
  <2>2. run' = [run EXCEPT ![w] = IdleRun] /\ price' = price
    BY <1>17 DEF Fill, Leave, Continue
  <2>3. R = P \ {w}
    <3>1. run'[w].pc = "idle" /\ \A v \in Workers \ {w} : run'[v] = run[v]
      BY <1>1, <2>2, IdleRunType DEF TypeOK
    <3> QED BY <1>3, <1>4, <3>1 DEF Pending
  <2>4. CASE /\ r.signal.side = "BUY"
             /\ account[t].cash >= Value(q, p) + Fee(q, p)
             /\ account' = [account EXCEPT ![t] = Bought(account[t], q, p)]
    <3>1. w \in P
      BY <1>3, <2>1, <2>4 DEF Pending
    <3>2. m = k - 1
      BY <2>3, <3>1, PendingCount
    <3>3. Value(q, p) = Quote
      BY <1>1, <2>1, <2>4 DEF StillFits, EntryFits
    <3>4. /\ CurrentExposure(account', p) = CurrentExposure(account, p) + Quote
          /\ Losing(account') <=> Losing(account)
      BY <1>1, <2>1, <2>4, <3>3, EntryGrows
    <3>5. ~moved => p = price
      BY <1>1, <2>1 DEF OwnCopy, Busy
    <3>6. ASSUME ~moved, PortfolioExposure # 0
          PROVE  CurrentExposure(account', price) + m * Quote
                   =< PortfolioExposure + Others * Quote
      <4>1. E + k * Quote =< PortfolioExposure + Others * Quote
        BY <1>1, <1>3, <1>5, <3>1, <3>6 DEF ExposureBounded
      <4>2. CurrentExposure(account', price) = E + Quote
        BY <3>4, <3>5, <3>6
      <4> HIDE DEF E, k, m
      <4>3. k * Quote = m * Quote + Quote /\ m * Quote \in Int
        BY <1>6, <1>8, <3>2
      <4>4. Others * Quote \in Int
        BY <1>6, <1>8
      <4> DEFINE x == m * Quote
                 y == k * Quote
                 z == PortfolioExposure + Others * Quote
      <4>5. y = x + Quote /\ x \in Int /\ z \in Int /\ E \in Int /\ E + y =< z
        BY <1>2, <4>1, <4>3, <4>4 DEF E
      <4> HIDE DEF x, y, z
      <4>6. CurrentExposure(account', price) + x =< z
        BY <1>2, <4>2, <4>5
      <4> QED BY <4>6 DEF x, z
    <3>7. ExposureBounded'
      BY <1>10, <3>6
    <3>8. ASSUME Losing(account') PROVE late' + m =< Others
      <4>1. late + k =< Others
        BY <1>1, <1>5, <3>4, <3>8 DEF LateBounded
      <4>2. late' = late \/ late' = late + 1
        <5>1. CASE Remember
          BY <3>8, <5>1 DEF Remember, Losing
        <5>2. CASE UNCHANGED vars
          BY <5>2 DEF vars, history
        <5> QED BY <5>1, <5>2 DEF Next
      <4>3. late \in Nat
        BY <1>2
      <4> HIDE DEF k, m
      <4>4. k \in Nat /\ m \in Nat /\ Others \in Int
        BY <1>6
      <4>5. late' + m =< late + k
        BY <3>2, <4>2, <4>3, <4>4
      <4> QED BY <4>1, <4>2, <4>3, <4>4, <4>5
    <3>9. LateBounded'
      BY <1>5, <1>12, <3>8 DEF LateBounded
    <3> QED BY <3>7, <3>9
  <2>5. CASE /\ r.signal.side = "SELL"
             /\ account' = [account EXCEPT ![t] = Sold(account[t], q, p)]
    <3>1. /\ CurrentExposure(account', price) =< E
          /\ \A u \in Traders : ~Enters(u)
      BY <1>1, <1>2, <2>1, <2>5, ExitShrinks
    <3>2. CurrentExposure(account', price) \in Int
      <4>1. account' \in [Traders -> Account] /\ price \in Prices
        BY <1>1 DEF TypeOK
      <4> QED BY <4>1, ExposureType
    <3>3. R \subseteq P
      BY <2>3
    <3>4. m =< Others
      BY <2>3, PendingCount
    <3> HIDE DEF E, m
    <3>5. ExposureBounded'
      BY <1>11, <3>1, <3>2, <3>3
    <3>6. LateBounded'
      BY <1>14, <3>1, <3>3, <3>4
    <3> QED BY <3>5, <3>6
  <2> QED BY <1>17, <2>4, <2>5 DEF Fill
<1>18. ASSUME NEW w \in Workers,
              (\E t \in Traders : Load(w, t)) \/ RaiseHighWater(w) \/ Wait(w) \/ Block(w) \/ Throw(w)
       PROVE  ExposureBounded' /\ LateBounded'
  <2>1. PICK x : run' = [run EXCEPT ![w] = x] /\ x.pc # "filling"
    <3>1. CASE RaiseHighWater(w)
      <4> DEFINE x == [run[w] EXCEPT !.pc = "judging"]
      <4>1. run' = [run EXCEPT ![w] = x]
        BY <3>1 DEF RaiseHighWater, Continue
      <4>2. x.pc = "judging"
        BY <1>1 DEF TypeOK, Run
      <4> HIDE DEF x
      <4> QED BY <4>1, <4>2
    <3>2. CASE \E t \in Traders : Load(w, t)
      <4>1. PICK t \in Traders : Load(w, t)
        BY <3>2
      <4> DEFINE x == [pc |-> "raising", trader |-> t, price |-> price,
                       account |-> account[t], high |-> highWater[t], signal |-> NoSignal]
      <4>2. run' = [run EXCEPT ![w] = x] /\ x.pc = "raising"
        BY <4>1 DEF Load, Continue
      <4> HIDE DEF x
      <4> QED BY <4>2
    <3>3. CASE Wait(w) \/ Block(w) \/ Throw(w)
      BY <3>3, IdleRunType DEF Wait, Block, Throw, Leave, Continue
    <3> QED BY <1>18, <3>1, <3>2, <3>3
  <2>2. run'[w] = x /\ \A v \in Workers \ {w} : run'[v] = run[v]
    BY <1>1, <2>1 DEF TypeOK
  <2>3. R \subseteq P
    BY <1>3, <1>4, <2>1, <2>2 DEF Pending
  <2>4. UNCHANGED account
    BY <1>18 DEF Load, RaiseHighWater, Wait, Block, Throw
  <2> QED BY <1>15, <2>3, <2>4
<1>19. ASSUME UNCHANGED run PROVE R \subseteq P
  BY <1>3, <1>4, <1>19 DEF Pending
<1>20. ASSUME NewDay PROVE ExposureBounded' /\ LateBounded'
  <2>1. R \subseteq P
    BY <1>19, <1>20 DEF NewDay
  <2>2. ~Losing(account') /\ CurrentExposure(account', price) = E
    BY <1>1, <1>20, NewDayForgives
  <2>3. E \in Int /\ E =< E
    BY <1>2
  <2> HIDE DEF E
  <2> QED BY <1>11, <1>12, <2>1, <2>2, <2>3
<1>21. CASE \E w \in Workers : Cycle(w)
  BY <1>16, <1>17, <1>18, <1>21 DEF Cycle
<1>22. ASSUME UNCHANGED <<run, account>> PROVE ExposureBounded' /\ LateBounded'
  BY <1>15, <1>19, <1>22
<1>23. CASE Surroundings
  BY <1>20, <1>22, <1>23 DEF Surroundings, MovePrice, CoolDown, Pause, Resume
<1>24. CASE UNCHANGED vars
  BY <1>22, <1>24 DEF vars
<1> QED
  BY <1>21, <1>23, <1>24 DEF Next

LEMMA EntryInit ==
  ASSUME IsFiniteSet(Traders)
  PROVE  Init => EntryInv
<1> SUFFICES ASSUME Init PROVE EntryInv
  OBVIOUS
<1>1. \A w \in Workers : run[w].pc = "idle"
  BY IdleRunType DEF Init
<1>2. Copies /\ Pending = {}
  BY <1>1 DEF Copies, OwnCopy, StillFits, Busy, Pending
<1>3. ~Losing(account)
  <2>1. \A t \in Traders : account[t].today = 0
    BY DEF Init, NewAccount
  <2> QED BY <2>1, NoLoss
<1> QED
  BY <1>2, <1>3, InitCycle DEF Init, EntryInv, ExposureBounded, LateBounded

\* No step lowers the high-water mark, and every entry leaves its trader within
\* its limits.  The portfolio's exposure is passed by at most one entry for each
\* other worker while no price moves under a cycle, and at most that many entries
\* come after the losses of the day have reached their limit: for any traders,
\* workers, prices and limits, however cycles, prices, days and the user
\* interleave (evaluatePortfolioRisk, RiskEngine.evaluate, executePaperOrder).
THEOREM EntriesFit ==
  ASSUME IsFiniteSet(Traders), IsFiniteSet(Workers)
  PROVE  Spec => EntriesFitTheLimits
<1> DEFINE Fits(w) ==
             LET t == run[w].trader
                 p == run[w].price
             IN
             run[w].pc = "filling" /\ Enters(t) =>
               /\ Value(account'[t].quantity, p) =< MaxExposure
               /\ account'[t].cost =< Ceiling
               /\ highWater[t] - Equity(account[t], p) < MaxDrawdown
               /\ late' =< Others
               /\ ~moved => ~Beyond(CurrentExposure(account', price) - Others * Quote,
                                   PortfolioExposure)
<1>1. ASSUME EntryInv, Next, NEW t \in Traders PROVE highWater'[t] >= highWater[t]
  <2>1. TypeOK /\ \A w \in Workers : OwnCopy(w)
    BY <1>1 DEF EntryInv, CycleInv, BooksInv, Copies
  <2>2. highWater[t] \in Nat
    BY <2>1 DEF TypeOK
  <2>3. ASSUME UNCHANGED highWater PROVE highWater'[t] >= highWater[t]
    BY <2>2, <2>3
  <2>4. ASSUME NEW w \in Workers, RaiseHighWater(w) PROVE highWater'[t] >= highWater[t]
    <3> DEFINE r == run[w]
               equity == Equity(r.account, r.price)
    <3>1. r.trader \in Traders /\ r.account \in Account /\ r.price \in Prices /\ r.high \in Nat
      BY <2>1 DEF TypeOK, Run
    <3>2. equity \in Nat
      BY <3>1, EquityType
    <3>3. highWater[r.trader] = r.high
      BY <2>1, <2>4 DEF OwnCopy, Busy, RaiseHighWater
    <3>4. highWater'[t] = IF t = r.trader /\ equity > r.high THEN equity ELSE highWater[t]
      BY <2>1, <2>4, <3>1 DEF RaiseHighWater, TypeOK
    <3> HIDE DEF equity
    <3> QED BY <2>2, <3>1, <3>2, <3>3, <3>4
  <2>5. ASSUME NEW w \in Workers, Cycle(w) PROVE highWater'[t] >= highWater[t]
    BY <2>3, <2>4, <2>5 DEF Cycle, Load, Wait, Judge, Block, Fill, Throw
  <2>6. CASE Surroundings
    BY <2>3, <2>6 DEF Surroundings, MovePrice, NewDay, CoolDown, Pause, Resume
  <2> QED BY <1>1, <2>5, <2>6 DEF Next
<1>2. ASSUME EntryInv, Next, TypeOK', ExposureBounded', LateBounded', NEW w \in Workers
      PROVE  Fits(w)
  <2> DEFINE r == run[w]
             t == r.trader
             p == r.price
             q == r.signal.quantity
  <2> SUFFICES ASSUME r.pc = "filling", Enters(t)
               PROVE  /\ Value(account'[t].quantity, p) =< MaxExposure
                      /\ account'[t].cost =< Ceiling
                      /\ highWater[t] - Equity(account[t], p) < MaxDrawdown
                      /\ late' =< Others
                      /\ ~moved => ~Beyond(CurrentExposure(account', price) - Others * Quote,
                                          PortfolioExposure)
    OBVIOUS
  <2>1. /\ TypeOK /\ OneCycle /\ ExposureBounded /\ LateBounded
        /\ \A v \in Workers : OwnCopy(v) /\ StillFits(v)
    BY <1>2 DEF EntryInv, CycleInv, BooksInv, Copies
  <2>2. r \in Run /\ t \in Traders /\ r.account \in Account /\ q \in Nat /\ p \in Prices
    BY <2>1 DEF TypeOK, Run, Signal
  <2>3. /\ r.signal.side = "BUY"
        /\ account[t].cash >= Value(q, p) + Fee(q, p)
        /\ account' = [account EXCEPT ![t] = Bought(account[t], q, p)]
    <3>1. PICK v \in Workers :
            /\ run[v].pc = "filling" /\ run[v].trader = t
            /\ run[v].signal.side = "BUY"
            /\ account[t].cash >= Value(run[v].signal.quantity, run[v].price)
                                   + Fee(run[v].signal.quantity, run[v].price)
            /\ account' = [account EXCEPT ![t] =
                             Bought(account[t], run[v].signal.quantity, run[v].price)]
      BY <1>2, <2>1, <2>2, EntryIsFill
    <3>2. v = w
      BY <2>1, <3>1 DEF OneCycle, Busy
    <3> QED BY <3>1, <3>2
  <2>4. EntryFits(r)
    BY <2>1, <2>3 DEF StillFits
  <2>5. /\ account[t].quantity = r.account.quantity
        /\ account[t].cost = r.account.cost
        /\ account[t].cash = r.account.cash
        /\ highWater[t] = Higher(r.high, Equity(r.account, p))
        /\ ~moved => p = price
    BY <2>1 DEF OwnCopy, Busy
  <2>6. /\ account'[t].cost = account[t].cost + Value(q, p)
        /\ Value(account'[t].quantity, p) = Value(account[t].quantity, p) + Value(q, p)
        /\ CurrentExposure(account', p) = CurrentExposure(account, p) + Value(q, p)
        /\ Losing(account') <=> Losing(account)
    BY <2>1, <2>2, <2>3, EntryGrows
  <2>7. Value(account'[t].quantity, p) =< MaxExposure /\ account'[t].cost =< Ceiling
    BY <2>4, <2>5, <2>6 DEF EntryFits
  <2>8. highWater[t] - Equity(account[t], p) < MaxDrawdown
    <3>1. Equity(account[t], p) = Equity(r.account, p)
      BY <2>5 DEF Equity
    <3> QED BY <2>4, <2>5, <3>1 DEF EntryFits, Drawdown
  <2>9. late' =< Others
    <3>1. Waiting' \in Nat /\ Others \in Nat /\ late' \in Nat
      <4>1. PICK R \in SUBSET Workers : R = Pending'
        BY DEF Pending
      <4>2. Others \in Nat
        BY FS_CardinalityType, FS_EmptySet DEF Others
      <4> QED BY <1>2, <4>1, <4>2, PendingCount DEF Waiting, TypeOK
    <3>2. PICK l \in Nat, m \in Nat, o \in Nat : l = late' /\ m = Waiting' /\ o = Others
      BY <3>1
    <3>3. l + m =< o \/ l = 0
      BY <1>2, <3>2 DEF LateBounded
    <3>4. l =< o
      BY <3>3
    <3> QED BY <3>2, <3>4
  <2>10. ASSUME ~moved
         PROVE  ~Beyond(CurrentExposure(account', price) - Others * Quote, PortfolioExposure)
    <3> DEFINE k == Waiting
    <3>1. Quote \in Nat /\ PortfolioExposure \in Nat /\ CurrentExposure(account, price) \in Int
      BY <2>1, RiskAssumption, ExposureType DEF TypeOK, Money
    <3>2. k \in Nat /\ k >= 1 /\ Others \in Int
      <4>1. PICK P \in SUBSET Workers : P = Pending
        BY DEF Pending
      <4>2. w \in P
        BY <2>3, <4>1 DEF Pending
      <4>3. {w} \in SUBSET P /\ Cardinality({w}) = 1
        BY <4>2, FS_Singleton
      <4>4. 1 =< Cardinality(P) /\ Cardinality(P) \in Nat /\ Others \in Int
        BY <4>3, PendingCount
      <4> QED BY <4>1, <4>4 DEF Waiting
    <3>3. CurrentExposure(account', price) = CurrentExposure(account, price) + Quote
      BY <2>4, <2>5, <2>6, <2>10 DEF EntryFits
    <3>4. PortfolioExposure # 0 => CurrentExposure(account, price) + k * Quote
                                     =< PortfolioExposure + Others * Quote
      BY <2>1, <2>3, <2>10 DEF ExposureBounded, Pending
    <3> HIDE DEF k
    <3>5. Quote =< k * Quote /\ k * Quote \in Int /\ Others * Quote \in Int
      <4>1. \A i, n \in Nat : i >= 1 => n =< i * n
        OBVIOUS
      <4> QED BY <3>1, <3>2, <4>1
    <3> DEFINE x == k * Quote
               z == Others * Quote
               E == CurrentExposure(account, price)
    <3>6. /\ Quote =< x /\ x \in Int /\ z \in Int /\ E \in Int
          /\ CurrentExposure(account', price) = E + Quote
          /\ PortfolioExposure # 0 => E + x =< PortfolioExposure + z
      BY <3>1, <3>3, <3>4, <3>5
    <3> HIDE DEF x, z, E
    <3>7. ~Beyond(CurrentExposure(account', price) - z, PortfolioExposure)
      BY <3>1, <3>6 DEF Beyond
    <3> QED BY <3>7 DEF z
  <2> QED BY <2>7, <2>8, <2>9, <2>10
<1>3. EntryInv /\ EntryInv' /\ [Next]_vars
        => [/\ \A t \in Traders : highWater'[t] >= highWater[t]
            /\ \A w \in Workers : Fits(w)]_vars
  <2> SUFFICES ASSUME EntryInv, EntryInv', Next
               PROVE  /\ \A t \in Traders : highWater'[t] >= highWater[t]
                      /\ \A w \in Workers : Fits(w)
    OBVIOUS
  <2>1. TypeOK' /\ ExposureBounded' /\ LateBounded'
    BY DEF EntryInv, CycleInv, BooksInv
  <2> QED BY <1>1, <1>2, <2>1
<1>4. EntryInv /\ [Next]_vars => EntryInv'
  BY NextKeepsCycle, NextKeepsCopies, NextKeepsBounds DEF EntryInv
<1>5. Init => EntryInv
  BY EntryInit
<1> QED
  BY <1>3, <1>4, <1>5, PTL DEF Spec, EntriesFitTheLimits
=============================================================================
