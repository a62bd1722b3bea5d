----------------------------- MODULE PaperCycle -----------------------------
(***************************************************************************)
(* The PAPER cycle jobs of one bot (apps/worker/src/paper-cycle.ts), run   *)
(* by the worker processes that share the BullMQ queue and the database.   *)
(*                                                                         *)
(* processPaperCycle is a chain of awaited queries and small transactions; *)
(* each is a step here, and between two of them the process may die, the   *)
(* job's lock may expire and hand the job to another worker, the user may  *)
(* pause or stop the bot, and an administrator may pull the kill switch.   *)
(* A job that throws is retried from the top.                              *)
(*                                                                         *)
(* Capital is counted in units of quote currency at a constant price and   *)
(* without fees.  What makes a strategy signal or a risk layer reject is   *)
(* left open.  A restart of a stopped bot, and what becomes of its assets, *)
(* is in AllocationLifecycle.                                              *)
(***************************************************************************)
EXTENDS Integers, FiniteSets, Functions

CONSTANTS Jobs,         \* the bot-cycle jobs ever enqueued for the bot
          Workers,      \* worker processes, each with concurrency 1
          Capital,      \* BotConfiguration.authorizedCapital
          Sizes,        \* quote amounts a BUY signal may have
          BuyLevels,    \* PaperGridLevel rows below the reference price,
          SellLevels,   \* and above it; both empty unless the bot is a grid
          MaxAttempts,  \* attempts of a job that throws
          MaxStalls     \* times a stalled job is handed out again

ASSUME CycleAssumption ==
  /\ Capital \in Nat
  /\ Sizes \subseteq Nat \ {0}
  /\ MaxAttempts \in Nat \ {0}
  /\ MaxStalls \in Nat
  /\ Jobs # {}
  /\ BuyLevels \cap SellLevels = {}
  /\ BuyLevels = {} <=> SellLevels = {}

VARIABLES
  status,       \* Bot.status
  allocated,    \* PaperCapitalAllocation.allocated; 0 when inactive
  killed,       \* some kill switch covers the bot
  cash,         \* quote PaperBalance
  base,         \* PaperBalance of the asset
  position,     \* quantity of the Position row that the job's BUY created, 0
                \* if there is none or it is CLOSED
  levels,       \* PaperGridLevel.status
  proposal,     \* the job's TradeProposal row
  reservation,  \* the proposal's PaperCapitalReservation row
  order,        \* the proposal's Order row, with its trade
  queue,        \* where BullMQ keeps the job
  attempts,     \* attemptsMade of the job
  stalls,       \* stalledCounter of the job
  run           \* what each worker process is doing

botVars == <<status, allocated, killed>>
ledgerVars == <<cash, base, position, order>>
queueVars == <<queue, attempts, stalls>>
vars == <<botVars, ledgerVars, levels, proposal, reservation, queueVars, run>>

-----------------------------------------------------------------------------
Status == {"RUNNING", "PAUSED", "RISK_BLOCKED", "STOPPED"}
Side == {"BUY", "SELL"}

Levels == BuyLevels \cup SellLevels
NoLevel == "no level"

\* A strategy signal: what createPaperProposal returns.
Signal == [side: Side, amount: Nat, level: Levels \cup {NoLevel}]
NoSignal == [side |-> "BUY", amount |-> 0, level |-> NoLevel]

\* Rows are never deleted; a row that is not there has status NONE.
Proposal == [status: {"NONE", "PENDING", "APPROVED", "REJECTED", "EXECUTED"},
             signal: Signal]
Reservation == [status: {"NONE", "ACTIVE", "CONSUMED", "RELEASED"},
                amount: Nat, old: BOOLEAN]
Order == [filled: BOOLEAN, signal: Signal]

Steps == {"idle", "begun", "proposing", "judging", "reserving", "approving",
          "refusing", "blocking", "executing", "selling", "leveling", "rearming",
          "marking", "completing", "recovering"}
Run == [pc: Steps,
        job: Jobs,
        locked: BOOLEAN,       \* the job's BullMQ lock is still this worker's
        signal: Signal,
        funded: BOOLEAN,       \* a SELL, or a BUY the loaded balance covers
        row: Jobs,             \* the Position row a SELL has read,
        seen: Nat,             \* and its quantity then
        found: SUBSET Jobs]    \* reservations a recovery has yet to release

IdleRun == [pc |-> "idle", job |-> CHOOSE j \in Jobs : TRUE, locked |-> FALSE,
            signal |-> NoSignal, funded |-> FALSE,
            row |-> CHOOSE j \in Jobs : TRUE, seen |-> 0, found |-> {}]

Init ==
  /\ status = "RUNNING"
  /\ allocated = Capital
  /\ killed = FALSE
  /\ cash = Capital
  /\ base = 0
  /\ position = [j \in Jobs |-> 0]
  /\ levels = [l \in Levels |-> "OPEN"]
  /\ proposal = [j \in Jobs |-> [status |-> "NONE", signal |-> NoSignal]]
  /\ reservation = [j \in Jobs |-> [status |-> "NONE", amount |-> 0, old |-> FALSE]]
  /\ order = [j \in Jobs |-> [filled |-> FALSE, signal |-> NoSignal]]
  /\ queue = [j \in Jobs |-> "waiting"]
  /\ attempts = [j \in Jobs |-> 0]
  /\ stalls = [j \in Jobs |-> 0]
  /\ run = [w \in Workers |-> IdleRun]

-----------------------------------------------------------------------------
(* The cycle, one step per query or transaction. *)

Job(w) == run[w].job
Goto(w, pc) == run' = [run EXCEPT ![w].pc = pc]

\* A worker takes a job; a bot that is not RUNNING has nothing to do.
Take(w, j) ==
  /\ run[w].pc = "idle"
  /\ queue[j] = "waiting"
  /\ queue' = [queue EXCEPT ![j] = "active"]
  /\ run' = [run EXCEPT ![w] =
               [IdleRun EXCEPT !.pc = IF status = "RUNNING" THEN "begun" ELSE "completing",
                               !.job = j, !.locked = TRUE]]
  /\ UNCHANGED <<botVars, ledgerVars, levels, proposal, reservation, attempts, stalls>>

\* Active reservations are locks on the free balance.
ActiveAmountYoung(j) ==
  IF reservation[j].status = "ACTIVE" /\ ~reservation[j].old THEN reservation[j].amount ELSE 0
ActiveAmount(j) ==
  IF reservation[j].status = "ACTIVE" THEN reservation[j].amount ELSE 0
Reserved == SumFunction([j \in Jobs |-> ActiveAmount(j)])

OpenLevels(ls) == IF Levels = {} THEN {NoLevel} ELSE {l \in ls : levels[l] = "OPEN"}

OpenRows == {r \in Jobs : position[r] > 0}
Spent == SumFunction(position)

\* What the strategies may propose from the state that was loaded: a BUY that
\* keeps the spent capital within the authorized one, a SELL of what is held in
\* the row that was found.
Signals ==
  {s \in [side: {"BUY"}, amount: Sizes, level: OpenLevels(BuyLevels)] :
     Spent + s.amount =< Capital}
  \cup UNION {[side: {"SELL"}, amount: 1 .. position[r], level: OpenLevels(SellLevels)] :
                r \in OpenRows}

\* The kill switch is read, then the market and the runtime state.  The cycle
\* ends on a kill switch, on missing or stale candles and without a signal.
Analyze(w) ==
  /\ run[w].pc = "begun"
  /\ \/ Goto(w, "completing")
     \/ /\ ~killed
        /\ \E s \in Signals :
             run' = [run EXCEPT ![w].pc = "proposing", ![w].signal = s,
                                ![w].funded = s.side = "SELL" \/ cash - Reserved >= s.amount]
  /\ UNCHANGED <<botVars, ledgerVars, levels, proposal, reservation, queueVars>>

\* The proposal row of the job is created unless an earlier run did; a job
\* that already has its order is over.
NeverExecuted(j) == FALSE
Executed(j) == order[j].filled
Propose(w) ==
  LET j == Job(w) IN
  /\ run[w].pc = "proposing"
  /\ proposal' = [proposal EXCEPT ![j] =
                    IF @.status = "NONE"
                      THEN [status |-> "PENDING", signal |-> run[w].signal] ELSE @]
  /\ Goto(w, IF Executed(j) THEN "completing" ELSE "judging")
  /\ UNCHANGED <<botVars, ledgerVars, levels, reservation, queueVars>>

\* A missing profile, the portfolio or the trader risk layer rejects; a PAUSE
\* goes on to block the bot.
Reject(w) ==
  /\ run[w].pc = "judging"
  /\ proposal' = [proposal EXCEPT ![Job(w)].status = "REJECTED"]
  /\ \E next \in {"blocking", "completing"} : Goto(w, next)
  /\ UNCHANGED <<botVars, ledgerVars, levels, reservation, queueVars>>

Block(w) ==
  /\ run[w].pc = "blocking"
  /\ status' = "RISK_BLOCKED"
  /\ Goto(w, "completing")
  /\ UNCHANGED <<allocated, killed, ledgerVars, levels, proposal, reservation, queueVars>>

\* Both risk layers approve, and reserveCapital reads: an existing reservation
\* decides by its status, a new one has to fit the hard allocation.
Amount(w) == IF run[w].signal.side = "SELL" THEN 0 ELSE run[w].signal.amount
FitsAllocation(w) == allocated > 0 /\ Reserved + Amount(w) =< allocated
CheckReservation(w) ==
  /\ run[w].pc = "judging"
  /\ run[w].funded
  /\ Goto(w, CASE reservation[Job(w)].status = "ACTIVE" -> "approving"
               [] reservation[Job(w)].status \in {"CONSUMED", "RELEASED"} -> "refusing"
               [] OTHER -> IF FitsAllocation(w) THEN "reserving" ELSE "refusing")
  /\ UNCHANGED <<botVars, ledgerVars, levels, proposal, reservation, queueVars>>

\* The insert at the end of that transaction; a second one for the proposal
\* violates its unique key and the job fails (Throw).
Reserve(w) ==
  /\ run[w].pc = "reserving"
  /\ reservation[Job(w)].status = "NONE"
  /\ reservation' = [reservation EXCEPT ![Job(w)] =
                       [status |-> "ACTIVE", amount |-> Amount(w), old |-> FALSE]]
  /\ Goto(w, "approving")
  /\ UNCHANGED <<botVars, ledgerVars, levels, proposal, queueVars>>

\* The decision is written to the proposal.
Decide(w) ==
  /\ run[w].pc \in {"approving", "refusing"}
  /\ LET approved == run[w].pc = "approving" IN
       /\ proposal' = [proposal EXCEPT ![Job(w)].status =
                         IF approved THEN "APPROVED" ELSE "REJECTED"]
       /\ Goto(w, IF approved THEN "executing" ELSE "completing")
  /\ UNCHANGED <<botVars, ledgerVars, levels, reservation, queueVars>>

\* What the fill transaction does to the reservation.
KeepReservation(j) == reservation' = reservation
Consume(j) ==
  reservation' = [reservation EXCEPT ![j].status = IF @ = "ACTIVE" THEN "CONSUMED" ELSE @]

\* executePaperOrder is one transaction, but its first query, an upsert that
\* changes nothing, locks nothing.  A job that has its order is done.
Settled(w) == IF run[w].signal.level = NoLevel THEN "marking" ELSE "leveling"

FindOrder(w) ==
  /\ run[w].pc = "executing"
  /\ Executed(Job(w))
  /\ Goto(w, Settled(w))
  /\ UNCHANGED <<botVars, ledgerVars, levels, proposal, reservation, queueVars>>

\* The order, its trade and the end of the reservation commit with the balances.
\* A second order for the proposal violates its unique key, and a balance or a
\* position that is too small throws (Throw, like a deadlock of two fills).
Commit(w) ==
  /\ ~Executed(Job(w))
  /\ order' = [order EXCEPT ![Job(w)] = [filled |-> TRUE, signal |-> run[w].signal]]
  /\ Consume(Job(w))
  /\ Goto(w, Settled(w))
  /\ UNCHANGED <<botVars, levels, proposal, queueVars>>

\* A BUY takes the money first.  That locks the balances until the commit, and
\* every other fill changes them before it changes the position, so the row the
\* BUY then adds to cannot change under it: the transaction is one step.
AddTo(r, amount) == position' = [position EXCEPT ![r] = @ + amount]

Buy(w) ==
  LET s == run[w].signal IN
  /\ run[w].pc = "executing"
  /\ s.side = "BUY"
  /\ cash >= s.amount
  /\ cash' = cash - s.amount
  /\ base' = base + s.amount
  /\ IF OpenRows = {} THEN AddTo(Job(w), s.amount) ELSE \E r \in OpenRows : AddTo(r, s.amount)
  /\ Commit(w)

\* A SELL reads the position before it locks anything,
FindPosition(w) ==
  /\ run[w].pc = "executing"
  /\ run[w].signal.side = "SELL"
  /\ ~Executed(Job(w))
  /\ \E r \in OpenRows :
       /\ position[r] >= run[w].signal.amount
       /\ run' = [run EXCEPT ![w].pc = "selling", ![w].row = r, ![w].seen = position[r]]
  /\ UNCHANGED <<botVars, ledgerVars, levels, proposal, reservation, queueVars>>

\* and, once it has the balances, writes to the row what was left of it then.
Sell(w) ==
  LET amount == run[w].signal.amount IN
  /\ run[w].pc = "selling"
  /\ base >= amount
  /\ base' = base - amount
  /\ cash' = cash + amount
  /\ position' = [position EXCEPT ![run[w].row] = run[w].seen - amount]
  /\ Commit(w)

\* A grid level is closed by its fill,
CloseLevel(w) ==
  /\ run[w].pc = "leveling"
  /\ levels' = [levels EXCEPT ![run[w].signal.level] = "EXECUTED"]
  /\ Goto(w, IF run[w].signal.side = "SELL" THEN "rearming" ELSE "marking")
  /\ UNCHANGED <<botVars, ledgerVars, proposal, reservation, queueVars>>

\* and a SELL then opens the BUY levels again.
Rearm(w) ==
  /\ run[w].pc = "rearming"
  /\ levels' = [l \in Levels |-> IF l \in BuyLevels THEN "OPEN" ELSE levels[l]]
  /\ Goto(w, "marking")
  /\ UNCHANGED <<botVars, ledgerVars, proposal, reservation, queueVars>>

MarkExecuted(w) ==
  /\ run[w].pc = "marking"
  /\ proposal' = [proposal EXCEPT ![Job(w)].status = "EXECUTED"]
  /\ Goto(w, "completing")
  /\ UNCHANGED <<botVars, ledgerVars, levels, reservation, queueVars>>

\* The job returns: BullMQ completes it if the worker still has its lock.
Complete(w) ==
  /\ run[w].pc = "completing"
  /\ queue' = [queue EXCEPT ![Job(w)] = IF run[w].locked THEN "completed" ELSE @]
  /\ run' = [run EXCEPT ![w] = IdleRun]
  /\ UNCHANGED <<botVars, ledgerVars, levels, proposal, reservation, attempts, stalls>>

-----------------------------------------------------------------------------
(* Failures. *)

InCycle(w) == run[w].pc \notin {"idle", "recovering"}

\* A query fails or a check throws: the cycle ends where it is, and BullMQ
\* retries the job while it has attempts left and the worker its lock.
Throw(w) ==
  LET j == Job(w) IN
  /\ InCycle(w)
  /\ IF run[w].locked
       THEN /\ attempts' = [attempts EXCEPT ![j] = @ + 1]
            /\ queue' = [queue EXCEPT ![j] =
                           IF attempts[j] + 1 < MaxAttempts THEN "waiting" ELSE "failed"]
       ELSE UNCHANGED <<attempts, queue>>
  /\ run' = [run EXCEPT ![w] = IdleRun]
  /\ UNCHANGED <<botVars, ledgerVars, levels, proposal, reservation, stalls>>

\* The process dies and is restarted; its job stays active without a worker.
Crash(w) ==
  /\ run[w].pc # "idle"
  /\ run' = [run EXCEPT ![w] = IdleRun]
  /\ UNCHANGED <<botVars, ledgerVars, levels, proposal, reservation, queueVars>>

\* The lock of an active job expires, because its worker died or stopped
\* renewing it: BullMQ hands the job out again, or gives it up.
StallUncounted(j) ==
  /\ queue[j] = "active"
  /\ queue' = [queue EXCEPT ![j] = "waiting"]
  /\ run' = [w \in Workers |->
               IF run[w].job = j THEN [run[w] EXCEPT !.locked = FALSE] ELSE run[w]]
  /\ UNCHANGED <<botVars, ledgerVars, levels, proposal, reservation, attempts, stalls>>
Stall(j) ==
  /\ queue[j] = "active"
  /\ queue' = [queue EXCEPT ![j] = IF stalls[j] < MaxStalls THEN "waiting" ELSE "failed"]
  /\ stalls' = [stalls EXCEPT ![j] = IF @ < MaxStalls THEN @ + 1 ELSE @]
  /\ run' = [w \in Workers |->
               IF run[w].job = j THEN [run[w] EXCEPT !.locked = FALSE] ELSE run[w]]
  /\ UNCHANGED <<botVars, ledgerVars, levels, proposal, reservation, attempts>>

-----------------------------------------------------------------------------
(* recoverOrphanedReservations, the reconcile job of the same queue. *)

\* Five minutes pass for a reservation.
Age(j) ==
  /\ reservation[j].status = "ACTIVE"
  /\ ~reservation[j].old
  /\ reservation' = [reservation EXCEPT ![j].old = TRUE]
  /\ UNCHANGED <<botVars, ledgerVars, levels, proposal, queueVars, run>>

OrphansApproved == {j \in Jobs : reservation[j].status = "ACTIVE" /\ reservation[j].old
                                 /\ proposal[j].status = "APPROVED"}
Orphans == {j \in Jobs : reservation[j].status = "ACTIVE" /\ reservation[j].old
                         /\ ~order[j].filled}

\* The recovery reads the orphans,
Recover(w) ==
  /\ run[w].pc = "idle"
  /\ Orphans # {}
  /\ run' = [run EXCEPT ![w] = [IdleRun EXCEPT !.pc = "recovering", !.found = Orphans]]
  /\ UNCHANGED <<botVars, ledgerVars, levels, proposal, reservation, queueVars>>

\* and releases those that are still active, one transaction each.
Release(w) ==
  /\ run[w].pc = "recovering"
  /\ \E j \in run[w].found :
       /\ reservation' = [reservation EXCEPT ![j].status =
                            IF @ = "ACTIVE" THEN "RELEASED" ELSE @]
       /\ run' = [run EXCEPT ![w] =
                    IF run[w].found = {j} THEN IdleRun
                    ELSE [run[w] EXCEPT !.found = @ \ {j}]]
  /\ UNCHANGED <<botVars, ledgerVars, levels, proposal, queueVars>>

-----------------------------------------------------------------------------
(* The user and the administrator. *)

Pause == /\ status \in {"RUNNING", "RISK_BLOCKED"}
         /\ status' = "PAUSED"
         /\ UNCHANGED <<allocated, killed>>

\* A bot whose stop was overwritten by a late RISK_BLOCKED needs a new claim
\* first; that is in AllocationLifecycle.
Resume == /\ status \in {"PAUSED", "RISK_BLOCKED"}
          /\ allocated > 0
          /\ status' = "RUNNING"
          /\ UNCHANGED <<allocated, killed>>

Stop == /\ status # "STOPPED"
        /\ status' = "STOPPED"
        /\ allocated' = 0
        /\ UNCHANGED killed

\* AdminKillSwitchService activates or clears a SYSTEM, USER or BOT switch.
Kill == /\ killed' = ~killed
        /\ UNCHANGED <<status, allocated>>

External ==
  /\ Pause \/ Resume \/ Stop \/ Kill
  /\ UNCHANGED <<ledgerVars, levels, proposal, reservation, queueVars, run>>

-----------------------------------------------------------------------------
Cycle(w) ==
  \/ Analyze(w) \/ Propose(w) \/ Reject(w) \/ Block(w)
  \/ CheckReservation(w) \/ Reserve(w) \/ Decide(w)
  \/ FindOrder(w) \/ Buy(w) \/ FindPosition(w) \/ Sell(w)
  \/ CloseLevel(w) \/ Rearm(w) \/ MarkExecuted(w) \/ Complete(w) \/ Throw(w)

Next ==
  \/ \E w \in Workers : \/ \E j \in Jobs : Take(w, j)
                        \/ Cycle(w) \/ Crash(w) \/ Recover(w) \/ Release(w)
  \/ \E j \in Jobs : Stall(j) \/ Age(j)
  \/ External

Spec == Init /\ [][Next]_vars

\* A live worker keeps running its cycle (a step that cannot succeed throws),
\* an idle one takes jobs and the recovery every minute, BullMQ notices dead
\* workers, and time passes.  A crash may always come, but not forever at the
\* same place of the recovery.
Abandoned(j) == \A w \in Workers : ~(run[w].job = j /\ run[w].locked)
Fairness ==
  /\ \A w \in Workers : WF_vars(Cycle(w)) /\ WF_vars(\E j \in Jobs : Take(w, j))
                        /\ SF_vars(Recover(w)) /\ SF_vars(Release(w))
  /\ \A j \in Jobs : WF_vars(Abandoned(j) /\ Stall(j)) /\ WF_vars(Age(j))

FairSpec == Spec /\ Fairness

-----------------------------------------------------------------------------
(* Properties. *)

TypeOK ==
  /\ status \in Status
  /\ allocated \in {0, Capital}
  /\ killed \in BOOLEAN
  /\ cash \in Nat
  /\ base \in Nat
  /\ position \in [Jobs -> Nat]
  /\ levels \in [Levels -> {"OPEN", "EXECUTED"}]
  /\ proposal \in [Jobs -> Proposal]
  /\ reservation \in [Jobs -> Reservation]
  /\ order \in [Jobs -> Order]
  /\ queue \in [Jobs -> {"waiting", "active", "completed", "failed"}]
  /\ attempts \in [Jobs -> Nat]
  /\ stalls \in [Jobs -> 0 .. MaxStalls]
  /\ run \in [Workers -> Run]

\* A reservation that still locks capital belongs to a proposal without an
\* order: the order and the consumption commit together.
ActiveHasNoOrder ==
  \A j \in Jobs : reservation[j].status = "ACTIVE" => ~order[j].filled

\* A job is decided and filled, or its reservation recovered, by one worker at a
\* time, which is what its BullMQ lock is for while it is held.
Decides(w) == run[w].pc \in {"judging", "reserving", "approving", "refusing",
                             "executing", "selling"}
Handles(w, j) ==
  \/ Decides(w) /\ Job(w) = j
  \/ run[w].pc = "recovering" /\ j \in run[w].found
JobsOneByOne == \A v, w \in Workers, j \in Jobs : Handles(v, j) /\ Handles(w, j) => v = w

\* One worker at a time is between the sum of the reservations and its insert.
ReservesOneByOne ==
  \A v, w \in Workers : run[v].pc = "reserving" /\ run[w].pc = "reserving" => v = w

\* One worker at a time is in the fill transaction.
FillsOneByOne ==
  \A v, w \in Workers :
    run[v].pc \in {"executing", "selling"} /\ run[w].pc \in {"executing", "selling"} => v = w

\* The position is the balance: one open row holds all of the asset, or there is
\* none.  Two fills that overlap can break it (a SELL overwrites the other's
\* change), the balances themselves never.
PositionIsBalance == \E r \in Jobs : position = [q \in Jobs |-> IF q = r THEN base ELSE 0]

\* An order keeps what was decided for it: its proposal stays approved, whatever a
\* later run of the job or another cycle does (domain-model.md, financial
\* invariants), and its reservation is consumed, which the recovery has not released
\* under the cycle's feet (ADR-023).
OrdersKeepTheirBacking ==
  \A j \in Jobs : order[j].filled =>
    /\ proposal[j].status \in {"APPROVED", "EXECUTED"}
    /\ reservation[j].status = "CONSUMED"

\* The reservations that crashed, failed and retried cycles left behind, together
\* with the one in use, never exceed the hard allocation (ADR-017).
NeverOverReserved ==
  SumFunction([j \in Jobs |-> IF reservation[j].status = "ACTIVE"
                              THEN reservation[j].amount ELSE 0]) =< Capital

\* Every job ends: completed, or failed for good.
JobsSettle ==
  \A j \in Jobs : queue[j] = "waiting" ~> queue[j] \in {"completed", "failed"}

\* No reservation locks capital forever: its order consumes it, or the
\* recovery releases it.
ReservationsSettle ==
  \A j \in Jobs : reservation[j].status = "ACTIVE" ~> reservation[j].status # "ACTIVE"

\* The cycles of any number of workers implement a ledger in which each
\* proposal is filled at most once, whatever becomes of the position rows.
Fillable == [side: Side, amount: 0 .. Capital, level: Levels \cup {NoLevel}]
Ledger == INSTANCE FillLedger WITH Proposals <- Jobs, Signals <- Fillable
ImplementsLedger == Ledger!LedgerSpec
=============================================================================
