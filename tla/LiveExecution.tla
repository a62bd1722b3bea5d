--------------------------- MODULE LiveExecution ---------------------------
(***************************************************************************)
(* LIVE orders of one bot: the engine of packages/live-execution over the  *)
(* Prisma store of the worker (live-order-store.ts) and the Binance        *)
(* connector, and the jobs that use it (live-submit.ts,                    *)
(* live-reconciliation.ts, live-fills.ts).                                 *)
(*                                                                         *)
(* A query of the database or a call of the exchange is a step.  A call    *)
(* may take effect and lose its answer, the process may die between two    *)
(* steps, and the exchange moves on by itself.  Reconciliations of a       *)
(* connection share one job id, so at most one is running.                 *)
(***************************************************************************)
EXTENDS Integers, FiniteSets, Functions

CONSTANTS Orders,   \* clientOrderIds
          Workers,  \* processes that use the engine
          Bought,   \* the BUY orders; the others SELL
          Size,     \* executions, of one unit each, that fill an order
          MaxPosts  \* bound on the orders posted under one clientOrderId

ASSUME LiveAssumption ==
  /\ Orders # {}
  /\ Bought \subseteq Orders
  /\ Size \in Nat \ {0}
  /\ MaxPosts \in Nat \ {0}

VARIABLES
  exchange,  \* what the exchange has under the clientOrderId
  row,       \* the Order row; status NONE before it exists
  trades,    \* the Trade rows of the order, by number of the execution
  position,  \* quantity of the open LIVE Position
  killed,    \* a kill switch covers the bot
  run        \* what each process is doing

database == <<row, trades, position>>
vars == <<exchange, database, killed, run>>

-----------------------------------------------------------------------------
Open == {"SUBMITTED", "PARTIALLY_FILLED"}
Terminal == {"FILLED", "CANCELED", "REJECTED"}

\* What the connector makes of an answer; UNKNOWN is any status it does not list.
Statuses == Open \cup Terminal \cup {"UNKNOWN"}
Answer == [status: Statuses, filled: 0 .. Size]
NoAnswer == [status |-> "UNKNOWN", filled |-> 0]

Exchange == [posts: 0 .. MaxPosts, order: Answer]
Row == [status: Statuses \cup {"NONE", "CREATED"}, resolved: BOOLEAN, filled: 0 .. Size]

Steps == {"idle", "gated", "finding", "creating", "checking", "posting", "querying",
          "resolving", "canceling", "fetching", "persisting", "picking"}
Run == [pc: Steps,
        order: Orders,
        answer: Answer,
        goal: {"submit", "cancel", "fills"},   \* what follows the resolved answer
        todo: SUBSET Orders,                   \* orders left to reconcile
        fills: SUBSET (1 .. Size)]             \* executions myTrades returned
IdleRun == [pc |-> "idle", order |-> CHOOSE o \in Orders : TRUE, answer |-> NoAnswer,
            goal |-> "submit", todo |-> {}, fills |-> {}]

Init ==
  /\ exchange = [o \in Orders |-> [posts |-> 0, order |-> NoAnswer]]
  /\ row = [o \in Orders |-> [status |-> "NONE", resolved |-> FALSE, filled |-> 0]]
  /\ trades = [o \in Orders |-> {}]
  /\ position = 0
  /\ killed = FALSE
  /\ run = [w \in Workers |-> IdleRun]

Continue(w, r) == run' = [run EXCEPT ![w] = r]
Goto(w, pc) == Continue(w, [run[w] EXCEPT !.pc = pc])

-----------------------------------------------------------------------------
(* The exchange. *)

\* A market order may be executed at once, a limit order rests.
Accepted == {[status |-> "SUBMITTED", filled |-> 0], [status |-> "FILLED", filled |-> Size],
             [status |-> "REJECTED", filled |-> 0], [status |-> "UNKNOWN", filled |-> 0]}

\* An open order of the same id is not accepted twice; a finished one is no bar.
MayPost(o) ==
  /\ exchange[o].posts < MaxPosts
  /\ exchange[o].posts = 0 \/ exchange[o].order.status \in Terminal

Accept(o, a) ==
  exchange' = [exchange EXCEPT ![o] = [posts |-> exchange[o].posts + 1, order |-> a]]
SetOrder(o, a) ==
  exchange' = [exchange EXCEPT ![o] = [posts |-> exchange[o].posts, order |-> a]]

\* The exchange executes, or expires, an open order.
Advance(o) ==
  LET n == exchange[o].order.filled + 1 IN
  /\ exchange[o].posts > 0
  /\ exchange[o].order.status \notin Terminal
  /\ SetOrder(o, IF n < Size THEN [status |-> "PARTIALLY_FILLED", filled |-> n]
                 ELSE [status |-> "FILLED", filled |-> Size])
  /\ UNCHANGED <<database, killed, run>>

Canceled(o) == [status |-> "CANCELED", filled |-> exchange[o].order.filled]
Expire(o) ==
  /\ exchange[o].posts > 0
  /\ exchange[o].order.status \notin Terminal
  /\ SetOrder(o, Canceled(o))
  /\ UNCHANGED <<database, killed, run>>

-----------------------------------------------------------------------------
(* LiveExecutionEngine.submit *)

\* A caller of the engine.
Call(w, o) ==
  /\ run[w].pc = "idle"
  /\ Continue(w, [IdleRun EXCEPT !.pc = "finding", !.order = o])
  /\ UNCHANGED <<exchange, database, killed>>

\* The live-submit job: the order row must be there, the kill switch is read
\* before the risk engine runs
SubmitJob(w, o) ==
  /\ run[w].pc = "idle"
  /\ row[o].status # "NONE"
  /\ ~killed
  /\ Continue(w, [IdleRun EXCEPT !.pc = "gated", !.order = o])
  /\ UNCHANGED <<exchange, database, killed>>

\* and once more before the engine; a rejection ends the job (Fail).
Admit(w) ==
  /\ run[w].pc = "gated"
  /\ ~killed
  /\ Goto(w, "finding")
  /\ UNCHANGED <<exchange, database, killed>>

\* A resolved order is returned as it is, one without a result is only queried.
FindResult(w) ==
  Goto(w, IF row[run[w].order].resolved THEN "idle" ELSE "creating")
FindRow(w) ==
  LET r == row[run[w].order] IN
  \/ r.resolved /\ Goto(w, "idle")
  \/ ~r.resolved /\ r.status = "NONE" /\ Goto(w, "creating")
  \/ ~r.resolved /\ r.status # "NONE" /\ Goto(w, "querying")
Find(w) ==
  /\ run[w].pc = "finding"
  /\ FindRow(w)
  /\ UNCHANGED <<exchange, database, killed>>

\* createPending inserts the row, or finds it there (P2002),
Create(w) ==
  LET o == run[w].order IN
  /\ run[w].pc = "creating"
  /\ row' = IF row[o].status # "NONE" THEN row ELSE
       [row EXCEPT ![o] = [status |-> "CREATED", resolved |-> FALSE, filled |-> 0]]
  /\ Goto(w, "checking")
  /\ UNCHANGED <<exchange, trades, position, killed>>

\* and reads it again; a result ends the call, a row without one does not.
Check(w) ==
  /\ run[w].pc = "checking"
  /\ Goto(w, IF row[run[w].order].resolved THEN "idle" ELSE "posting")
  /\ UNCHANGED <<exchange, database, killed>>

\* connector.submit: the order is accepted and answered,
Post(w) ==
  LET o == run[w].order IN
  /\ run[w].pc = "posting"
  /\ MayPost(o)
  /\ \E a \in Accepted :
       /\ Accept(o, a)
       /\ Continue(w, [run[w] EXCEPT !.pc = "resolving", !.answer = a])
  /\ UNCHANGED <<database, killed>>

\* accepted with the answer lost,
LoseAnswer(w) ==
  LET o == run[w].order IN
  /\ run[w].pc = "posting"
  /\ MayPost(o)
  /\ \E a \in Accepted : Accept(o, a)
  /\ Goto(w, "querying")
  /\ UNCHANGED <<database, killed>>

\* or refused.  What failed is queried, never posted again.
Refuse(w) ==
  /\ run[w].pc = "posting"
  /\ Goto(w, "querying")
  /\ UNCHANGED <<exchange, database, killed>>

-----------------------------------------------------------------------------
(* query and resolve, which submit, reconcile and cancel share *)

\* The exchange answers for an order it has; otherwise the call throws (Fail).
QueryAnyway(w) ==
  /\ run[w].pc = "querying"
  /\ Continue(w, [run[w] EXCEPT !.pc = "resolving", !.answer = exchange[run[w].order].order])
  /\ UNCHANGED <<exchange, database, killed>>
Query(w) ==
  LET o == run[w].order IN
  /\ run[w].pc = "querying"
  /\ exchange[o].posts > 0
  /\ Continue(w, [run[w] EXCEPT !.pc = "resolving", !.answer = exchange[o].order])
  /\ UNCHANGED <<exchange, database, killed>>

\* The answer overwrites status and quantity of the row.  A cancellation goes
\* on to cancel an order that is not over, a reconciliation to its fills.
Following(w) ==
  CASE run[w].goal = "fills" -> "fetching"
    [] run[w].goal = "cancel" /\ run[w].answer.status \notin Terminal -> "canceling"
    [] OTHER -> "idle"
Resolve(w) ==
  LET o == run[w].order
      a == run[w].answer
  IN
  /\ run[w].pc = "resolving"
  /\ row[o].status # "NONE"
  /\ row' = [row EXCEPT ![o] = [status |-> a.status, resolved |-> TRUE, filled |-> a.filled]]
  /\ Goto(w, Following(w))
  /\ UNCHANGED <<exchange, trades, position, killed>>

-----------------------------------------------------------------------------
(* LiveExecutionEngine.cancel *)

\* A cancellation first reconciles,
StartCancel(w, o) ==
  /\ run[w].pc = "idle"
  /\ Continue(w, [IdleRun EXCEPT !.pc = "querying", !.order = o, !.goal = "cancel"])
  /\ UNCHANGED <<exchange, database, killed>>

\* and then cancels what is still open.  That the answer is lost looks the same
\* as an order that expires.
Cancel(w) ==
  LET o == run[w].order IN
  /\ run[w].pc = "canceling"
  /\ exchange[o].order.status \notin Terminal
  /\ SetOrder(o, Canceled(o))
  /\ Continue(w, [run[w] EXCEPT !.pc = "resolving", !.answer = Canceled(o),
                                !.goal = "submit"])
  /\ UNCHANGED <<database, killed>>

-----------------------------------------------------------------------------
(* reconcileLiveOrders *)

\* The job lists the orders that are not over.  UNKNOWN is not among them.
Reconcilable == {o \in Orders : row[o].status \in Open \cup {"CREATED"}}
Reconcile(w) ==
  /\ run[w].pc = "idle"
  /\ \A v \in Workers : run[v].goal # "fills"
  /\ Reconcilable # {}
  /\ Continue(w, [IdleRun EXCEPT !.pc = "picking", !.goal = "fills", !.todo = Reconcilable])
  /\ UNCHANGED <<exchange, database, killed>>

\* One after the other is queried, unless a kill switch covers its bot.
Pick(w) ==
  /\ run[w].pc = "picking"
  /\ \/ /\ run[w].todo = {}
        /\ Continue(w, IdleRun)
     \/ \E o \in run[w].todo :
          Continue(w, [run[w] EXCEPT !.pc = IF killed THEN "picking" ELSE "querying",
                                     !.order = o, !.todo = run[w].todo \ {o}])
  /\ UNCHANGED <<exchange, database, killed>>

\* connector.myTrades: the executions so far.
Fetch(w) ==
  /\ run[w].pc = "fetching"
  /\ Continue(w, [run[w] EXCEPT !.pc = "persisting",
                                !.fills = 1 .. exchange[run[w].order].order.filled])
  /\ UNCHANGED <<exchange, database, killed>>

\* persistLiveFills, one transaction: the executions without a Trade row move
\* the position, which must cover a SELL, and the row counts all of them.
EveryFill(w) == run[w].fills
NewFills(w) == run[w].fills \ trades[run[w].order]
FilledByNew(w) == Cardinality(NewFills(w))
Filled(w) == Cardinality(trades[run[w].order] \cup run[w].fills)
Covered(o, n) == o \in Bought \/ position >= n
Persist(w) ==
  LET o == run[w].order
      n == Cardinality(NewFills(w))
  IN
  /\ run[w].pc = "persisting"
  /\ Covered(o, n)
  /\ position' = IF o \in Bought THEN position + n ELSE position - n
  /\ trades' = [trades EXCEPT ![o] = trades[o] \cup run[w].fills]
  /\ row' = IF n = 0 THEN row ELSE
       [row EXCEPT ![o] = [status |-> row[o].status, resolved |-> row[o].resolved,
                           filled |-> Filled(w)]]
  /\ Goto(w, "picking")
  /\ UNCHANGED <<exchange, killed>>

-----------------------------------------------------------------------------
(* Failures and the administrator. *)

\* A call or a query throws, or a check rejects.  A reconciliation records the
\* error and goes on with the next order; any other caller gets it.
Fail(w) ==
  /\ run[w].pc \notin {"idle", "picking"}
  /\ IF run[w].goal = "fills" THEN Goto(w, "picking") ELSE Continue(w, IdleRun)
  /\ UNCHANGED <<exchange, database, killed>>

Crash(w) ==
  /\ run[w].pc # "idle"
  /\ Continue(w, IdleRun)
  /\ UNCHANGED <<exchange, database, killed>>

Kill ==
  /\ killed' = ~killed
  /\ UNCHANGED <<exchange, database, run>>

Step(w) ==
  \/ Admit(w) \/ Find(w) \/ Create(w) \/ Check(w)
  \/ Post(w) \/ LoseAnswer(w) \/ Refuse(w) \/ Query(w) \/ Resolve(w)
  \/ Cancel(w) \/ Pick(w) \/ Fetch(w) \/ Persist(w) \/ Fail(w) \/ Crash(w)

Next ==
  \/ \E w \in Workers :
       \/ Step(w) \/ Reconcile(w)
       \/ \E o \in Orders : Call(w, o) \/ SubmitJob(w, o) \/ StartCancel(w, o)
  \/ \E o \in Orders : Advance(o) \/ Expire(o)
  \/ Kill

Spec == Init /\ [][Next]_vars

-----------------------------------------------------------------------------
(* Properties. *)

TypeOK ==
  /\ exchange \in [Orders -> Exchange]
  /\ row \in [Orders -> Row]
  /\ trades \in [Orders -> SUBSET (1 .. Size)]
  /\ position \in Nat
  /\ killed \in BOOLEAN
  /\ run \in [Workers -> Run]

\* One submission of an order at a time is between its look for the row and the
\* answer: the job of an order has a fixed id (liveSubmitJobId).
Submits(w) == run[w].pc \in {"creating", "checking", "posting"}
SubmitsOneByOne ==
  \A v, w \in Workers : Submits(v) /\ Submits(w) /\ run[v].order = run[w].order => v = w

\* One process at a time is between what it read of an order and what it makes
\* of it; those that handle different orders may overlap.
Holds(w) == Submits(w) \/ run[w].pc \in {"resolving", "canceling", "persisting"}
HandledOneByOne ==
  \A v, w \in Workers : Holds(v) /\ Holds(w) /\ run[v].order = run[w].order => v = w

\* The exchange gets no order twice, whatever answer is lost and wherever the
\* process dies (ADR-008; "never resubmits", live-execution/src/index.test.ts).
PostedOnce == \A o \in Orders : exchange[o].posts =< 1

\* A row never claims more than the exchange did: neither an order it does not
\* have, nor an execution, nor an end.
RowFollowsExchange ==
  \A o \in Orders :
    /\ row[o].resolved => exchange[o].posts > 0
    /\ row[o].filled =< exchange[o].order.filled
    /\ row[o].status \in Terminal => exchange[o].order.status = row[o].status

\* A row only advances: an order that is over stays over, and its quantity
\* does not shrink when an answer and the stored fills overwrite each other.
RowOnlyAdvances ==
  [][\A o \in Orders :
       /\ row[o].status \in Terminal => row'[o].status = row[o].status
       /\ row'[o].filled >= row[o].filled]_vars

\* The promise of OrderMirror: what a row and the exchange show of an order.
View(r) == [end |-> IF r.status \in Terminal THEN r.status ELSE "none", filled |-> r.filled]
Recorded == {o \in Orders : row[o].status # "NONE"}
Sent == {o \in Orders : exchange[o].posts > 0}
Market == [o \in Orders |-> View(exchange[o].order)]
Shown == [o \in Orders |-> View(row[o])]
Mirror == INSTANCE OrderMirror WITH
  Ends <- Terminal, recorded <- Recorded, sent <- Sent, market <- Market, mirror <- Shown

\* An order is recorded before it is sent and sent once, and its row follows the
\* exchange, whatever step of submit, cancel or reconcile fails (ADR-008).
ImplementsMirror == Mirror!MirrorSpec

\* The open position is what the stored fills bought less what they sold,
\* however often the same fills are fetched.
StoredFills(S) == SumFunctionOnSet([o \in Orders |-> Cardinality(trades[o])], S)
PositionMatchesTrades == position = StoredFills(Bought) - StoredFills(Orders \ Bought)
=============================================================================
