---------------------------- MODULE TraderFigures ----------------------------
(***************************************************************************)
(* The figures on a trader's card: realized, unrealized and today's profit *)
(* as BotsService.list computes them from positions, trades and market     *)
(* snapshots, and the worker for its runtime context.  Fills and new       *)
(* prices come between two looks at the card; days end.                    *)
(*                                                                         *)
(* A fill is of one unit.  The instances choose prices for which averages  *)
(* and fees are whole.                                                     *)
(***************************************************************************)
EXTENDS Integers

CONSTANTS Prices,      \* closes of the market snapshots
          FeeShare,    \* a fee is the value over this
          MaxUnits,    \* bound on the position
          MaxFills,    \* bound on the fills
          MaxDay       \* bound on the days

ASSUME FiguresAssumption ==
  /\ {FeeShare, MaxUnits, MaxFills, MaxDay} \subseteq Nat \ {0}
  /\ Prices \subseteq Nat \ {0} /\ Prices # {}

VARIABLES
  day,
  snapshots,   \* the last close, and the last one of the days before
  position,    \* the open position, and what closed ones and sales realized
  trades,      \* realizedPnl of today's trades, and the number of fills
  opening,     \* total profit at the start of the day
  traded       \* a position of an earlier day was traded today

figuresVars == <<day, snapshots, position, trades, opening, traded>>

-----------------------------------------------------------------------------
FiguresInit ==
  /\ day = 1
  /\ \E price \in Prices : snapshots = [close |-> price, dayStart |-> price]
  /\ position = [quantity |-> 0, average |-> 0, opened |-> 0, realized |-> 0]
  /\ trades = [today |-> 0, fills |-> 0]
  /\ opening = 0
  /\ traded = FALSE

NewClose(price) ==
  /\ snapshots' = [snapshots EXCEPT !.close = price]
  /\ UNCHANGED <<day, position, trades, opening, traded>>

\* executePaperOrder: the row's average and opening time, the trade's profit.
CarriedOver == position.quantity > 0 /\ position.opened < day
FillBuy ==
  LET units == position.quantity + 1 IN
  /\ trades.fills < MaxFills /\ units =< MaxUnits
  /\ position' = [position EXCEPT
       !.quantity = units,
       !.average = (position.average * position.quantity + snapshots.close) \div units,
       !.opened = IF position.quantity = 0 THEN day ELSE @]
  /\ trades' = [trades EXCEPT !.fills = @ + 1]
  /\ traded' = (traded \/ CarriedOver)
  /\ UNCHANGED <<day, snapshots, opening>>
FillSell ==
  LET profit == snapshots.close - position.average - snapshots.close \div FeeShare IN
  /\ trades.fills < MaxFills /\ position.quantity > 0
  /\ position' = [position EXCEPT
       !.quantity = @ - 1, !.realized = @ + profit,
       !.average = IF position.quantity = 1 THEN 0 ELSE @]
  /\ trades' = [today |-> trades.today + profit, fills |-> trades.fills + 1]
  /\ traded' = (traded \/ CarriedOver)
  /\ UNCHANGED <<day, snapshots, opening>>

\* The card.
Paper(close) == (close - position.average) * position.quantity
TotalPnl == position.realized + Paper(snapshots.close)
IsNewNever(row) == FALSE
IsNew(row) == row.opened = day
TodayUnrealized ==
  IF IsNew(position) THEN Paper(snapshots.close)
  ELSE Paper(snapshots.close) - Paper(snapshots.dayStart)
TodayPnl == trades.today + TodayUnrealized

Midnight ==
  /\ day < MaxDay
  /\ day' = day + 1
  /\ snapshots' = [snapshots EXCEPT !.dayStart = snapshots.close]
  /\ trades' = [trades EXCEPT !.today = 0]
  /\ opening' = TotalPnl
  /\ traded' = FALSE
  /\ UNCHANGED position

FiguresNext ==
  \/ \E price \in Prices : NewClose(price)
  \/ FillBuy \/ FillSell \/ Midnight

FiguresSpec == FiguresInit /\ [][FiguresNext]_figuresVars

-----------------------------------------------------------------------------
(* Properties. *)

FiguresTypeOK ==
  /\ day \in 1 .. MaxDay /\ trades.fills \in 0 .. MaxFills
  /\ position.quantity \in 0 .. MaxUnits

\* Today's profit on the card is what the total profit changed since midnight, for
\* positions opened, added to, reduced and closed today and for those held since an
\* earlier day; not so once one of the latter is traded, whose earlier paper
\* profit then counts again (bots.service.ts:42-53).
TodayIsTheChange ==
  ~traded => TodayPnl = TotalPnl - opening
=============================================================================
