----------------------------- MODULE PaperFills -----------------------------
(***************************************************************************)
(* Fills of one PAPER bot's orders that arrive as jobs (paper-fills.ts)    *)
(* and the job that compares every order with its trades                   *)
(* (reconciliation.ts).                                                    *)
(*                                                                         *)
(* A fill is one READ COMMITTED transaction: it reads the order with its   *)
(* trades, without a lock, and decides; then it writes, and its first      *)
(* write locks the balance that every fill of that side needs.  The        *)
(* comparison reads the orders in one query and their trades in another.   *)
(* A worker runs one job at a time, but there may be several workers, and  *)
(* a job may be delivered again.  Every fill is of one unit at price one.  *)
(***************************************************************************)
EXTENDS Integers, FiniteSets, FiniteSetsExt

CONSTANTS PaperOrders,  \* orders of the bot, each with its trades
          BuyOrders,    \* those that buy, the others sell
          Fills,        \* externalTradeIds of an order
          Requested,    \* requestedQuantity of an order
          Workers,      \* worker processes
          Funds,        \* the bot's quote balance
          MaxFailures   \* bound on the jobs that fail

ASSUME FillsAssumption ==
  /\ BuyOrders \subseteq PaperOrders
  /\ Requested \in Nat \ {0}
  /\ Funds \in Nat
  /\ MaxFailures \in Nat

VARIABLES
  orderRow,    \* status and filledQuantity of the Order rows
  tradeRows,   \* externalTradeIds of the Trade rows of each order
  balance,     \* the bot's PaperBalance rows
  held,        \* quantity of its open Position
  blocked,     \* the bot is RISK_BLOCKED
  work,        \* what each worker is doing
  overlapped,  \* two jobs about the orders ever ran at once
  failures     \* number of jobs that failed

books == <<orderRow, tradeRows, balance, held, blocked>>
fillVars == <<books, work, overlapped, failures>>

-----------------------------------------------------------------------------
OrderStatus == {"SUBMITTED", "PARTIALLY_FILLED", "FILLED", "UNKNOWN"}
OrderRow == [status: OrderStatus, filled: Nat]
Divergent(row, trades) ==
  row.status \in {"PARTIALLY_FILLED", "FILLED"} /\ row.filled # Cardinality(trades)

FreeWorker == [pc |-> "idle"]
FillsInit ==
  /\ orderRow = [o \in PaperOrders |-> [status |-> "SUBMITTED", filled |-> 0]]
  /\ tradeRows = [o \in PaperOrders |-> {}]
  /\ balance = [quote |-> Funds, base |-> 0]
  /\ held = 0
  /\ blocked = FALSE
  /\ work = [w \in Workers |-> FreeWorker]
  /\ overlapped = FALSE
  /\ failures = 0

Begin(w, record) ==
  /\ work[w].pc = "idle"
  /\ work' = [work EXCEPT ![w] = record]
  /\ overlapped' = (overlapped \/ \E v \in Workers : work[v].pc # "idle")
Finish(w) == work' = [work EXCEPT ![w] = FreeWorker]

-----------------------------------------------------------------------------
(* applyPaperFill *)

\* The order and its trades are read and judged: a known trade ends the job,
\* an order that is over, or that the fill would exceed, refuses it.
Known(o, f) == f \in tradeRows[o]
Refused(o) ==
  \/ orderRow[o].status \in {"UNKNOWN", "FILLED"}
  \/ orderRow[o].filled + 1 > Requested
ReadOrder(w, o, f) ==
  /\ ~Known(o, f)
  /\ ~Refused(o)
  /\ Begin(w, [pc |-> "filling", order |-> o, fill |-> f, filled |-> orderRow[o].filled])
  /\ UNCHANGED <<books, failures>>

\* The balance covers the fill, and a sale the position; the unique index of
\* the trades refuses a fill that was stored meanwhile.
Affordable(o) ==
  IF o \in BuyOrders THEN balance.quote >= 1 ELSE balance.base >= 1 /\ held >= 1
Exchanged(o) ==
  IF o \in BuyOrders THEN [quote |-> balance.quote - 1, base |-> balance.base + 1]
  ELSE [quote |-> balance.quote + 1, base |-> balance.base - 1]
FillOfRead(o, n) ==
  [status |-> IF n >= Requested THEN "FILLED" ELSE "PARTIALLY_FILLED", filled |-> n - 1]
FillOf(o, n) ==
  [status |-> IF n >= Requested THEN "FILLED" ELSE "PARTIALLY_FILLED", filled |-> n]

\* One more than the quantity that was read, whatever it is by now.
StoreFill(w) ==
  LET o == work[w].order
      f == work[w].fill
  IN
  /\ work[w].pc = "filling"
  /\ IF Affordable(o) /\ ~Known(o, f)
     THEN /\ balance' = Exchanged(o)
          /\ held' = IF o \in BuyOrders THEN held + 1 ELSE held - 1
          /\ tradeRows' = [tradeRows EXCEPT ![o] = @ \cup {f}]
          /\ orderRow' = [orderRow EXCEPT ![o] = FillOf(o, work[w].filled + 1)]
     ELSE UNCHANGED <<orderRow, tradeRows, balance, held>>
  /\ Finish(w)
  /\ UNCHANGED <<blocked, overlapped, failures>>

-----------------------------------------------------------------------------
(* reconcilePaperOrders *)

\* The orders are read,
StartCompare(w) ==
  /\ Begin(w, [pc |-> "reading", rows |-> orderRow])
  /\ UNCHANGED <<books, failures>>

\* and their trades; what differs is flagged order by order,
ComparedOver(rows) == {o \in PaperOrders : rows[o].filled > Cardinality(tradeRows[o])}
Compared(rows) == {o \in PaperOrders : Divergent(rows[o], tradeRows[o])}
ReadTrades(w) ==
  /\ work[w].pc = "reading"
  /\ work' = [work EXCEPT ![w] = [pc |-> "flagging", todo |-> Compared(work[w].rows)]]
  /\ UNCHANGED <<books, overlapped, failures>>

\* each in a transaction that blocks the bot too.
Flag(w) ==
  /\ work[w].pc = "flagging"
  /\ \E o \in work[w].todo :
       /\ orderRow' = [orderRow EXCEPT ![o].status = "UNKNOWN"]
       /\ blocked' = TRUE
       /\ work' = [work EXCEPT ![w].todo = @ \ {o}]
  /\ UNCHANGED <<tradeRows, balance, held, overlapped, failures>>
EndCompare(w) ==
  /\ work[w].pc = "flagging"
  /\ work[w].todo = {}
  /\ Finish(w)
  /\ UNCHANGED <<books, overlapped, failures>>

\* A query fails or the worker dies: an open transaction is rolled back.
FailJob(w) ==
  /\ failures < MaxFailures
  /\ work[w].pc # "idle"
  /\ Finish(w)
  /\ failures' = failures + 1
  /\ UNCHANGED <<books, overlapped>>

\* The user starts the blocked bot again.
Unblock == blocked /\ blocked' = FALSE
           /\ UNCHANGED <<orderRow, tradeRows, balance, held, work, overlapped, failures>>

Compare(w) == StartCompare(w) \/ ReadTrades(w) \/ Flag(w) \/ EndCompare(w)
FillsNext ==
  \/ \E w \in Workers :
       \/ StoreFill(w) \/ Compare(w) \/ FailJob(w)
       \/ \E o \in PaperOrders, f \in Fills : ReadOrder(w, o, f)
  \/ Unblock

\* A worker finishes what it began, and the comparison is repeated for ever.
FillsFairness ==
  \A w \in Workers : /\ WF_fillVars(StoreFill(w) \/ ReadTrades(w) \/ Flag(w) \/ EndCompare(w))
                     /\ SF_fillVars(StartCompare(w))
FillsSpec == FillsInit /\ [][FillsNext]_fillVars /\ FillsFairness

-----------------------------------------------------------------------------
(* Properties. *)

FillsTypeOK ==
  /\ orderRow \in [PaperOrders -> OrderRow]
  /\ tradeRows \in [PaperOrders -> SUBSET Fills]
  /\ balance \in [quote: Nat, base: Nat]
  /\ held \in Nat
  /\ blocked \in BOOLEAN
  /\ \A w \in Workers : work[w].pc \in {"idle", "filling", "reading", "flagging"}
  /\ failures \in 0 .. MaxFailures

\* As long as no two jobs ever ran at once, every order says what its trades
\* say, is filled no further than requested, and the bot is never blocked.
OnlyOverlapsDiverge ==
  ~overlapped =>
    /\ \A o \in PaperOrders :
         /\ orderRow[o].filled = Cardinality(tradeRows[o])
         /\ orderRow[o].filled =< Requested
    /\ ~blocked

\* An order that lost the count of its trades becomes UNKNOWN: the comparison is
\* repeated until it sees the difference.
DivergencesAreCaught ==
  \A o \in PaperOrders :
    Divergent(orderRow[o], tradeRows[o]) ~> orderRow[o].status = "UNKNOWN"
=============================================================================
