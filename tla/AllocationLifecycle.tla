------------------------ MODULE AllocationLifecycle ------------------------
(***************************************************************************)
(* The hard-allocation lifecycle of PAPER bots that share one portfolio.   *)
(*                                                                         *)
(* BotsService.changeStatus (apps/api) reads the bot, checks the           *)
(* transition, and then runs one READ COMMITTED database transaction that  *)
(* reads the allocation row without locking it and writes the portfolio,   *)
(* the allocation, the balances, the positions and the bot.  The worker    *)
(* concurrently trades the bot and may write RISK_BLOCKED.  A transaction  *)
(* is a step per read and one step for its writes: its first write locks   *)
(* the row the other writers of the same bot need until the commit.        *)
(*                                                                         *)
(* Quantities are counted in units of cost (quantity times average price), *)
(* so a buy of n costs n and a sale of n returns n plus a price move.      *)
(***************************************************************************)
EXTENDS Integers, FiniteSets, Functions

CONSTANTS Bots,        \* bots of one user, all on one PaperPortfolio
          Requests,    \* status requests the API may be serving at once
          Authorized,  \* BotConfiguration.authorizedCapital
          Initial,     \* PaperPortfolio.initialCapital
          Moves,       \* profits and losses a sale may make
          MaxFree,     \* bound on the portfolio's free capital
          MaxCash,     \* bound on each of a bot's balances
          MaxRows      \* bound on Position rows a bot opens

ASSUME LifecycleAssumption ==
  /\ Authorized \in [Bots -> Nat \ {0}]
  /\ Initial \in Nat
  /\ Moves \subseteq Int
  /\ MaxFree \in Nat
  /\ MaxCash \in Nat
  /\ MaxRows \in Nat
  /\ Bots # {}
  /\ \A b \in Bots : Authorized[b] =< MaxCash

VARIABLES
  status,       \* Bot.status
  active,       \* PaperCapitalAllocation.active
  allocated,    \* PaperCapitalAllocation.allocated
  available,    \* PaperPortfolio.availableCapital
  outstanding,  \* PaperPortfolio.allocatedCapital
  retained,     \* capital that stops left in the portfolio's allocatedCapital
  cash,         \* the bot's quote PaperBalance; NoRow before it exists
  base,         \* the bot's base-asset PaperBalance
  position,     \* the bot's latest Position row
  holdings,     \* quantity moved to UnmanagedHolding rows
  cycle,        \* the bot's worker cycle in flight
  req           \* the status requests in flight

portfolioVars == <<available, outstanding, retained>>
allocationVars == <<active, allocated>>
ledgerVars == <<cash, base, position, holdings>>
vars == <<status, portfolioVars, allocationVars, ledgerVars, cycle, req>>

-----------------------------------------------------------------------------
Status == {"DRAFT", "READY", "RUNNING", "PAUSED", "RISK_BLOCKED", "STOPPED"}
StopMode == {"STOP_AND_KEEP_ASSETS", "STOP_AND_LIQUIDATE"}

\* The transitions the API accepts.
Transitions ==
  [DRAFT        |-> {"READY"},
   READY        |-> {"RUNNING"},
   RUNNING      |-> {"PAUSED", "STOPPED"},
   PAUSED       |-> {"RUNNING", "STOPPED"},
   RISK_BLOCKED |-> {"RUNNING", "PAUSED", "STOPPED"},
   STOPPED      |-> {"READY"}]

NoRow == -1
Max0(n) == IF n < 0 THEN 0 ELSE n

Cycle == [pc: {"idle", "started", "reserved"}, side: {"BUY", "SELL"}, amount: Nat]
IdleCycle == [pc |-> "idle", side |-> "BUY", amount |-> 0]

Position == [qty: Nat, managed: BOOLEAN, row: 0 .. MaxRows]

Request ==
  [pc: {"idle", "begun", "read", "stopping"},
   bot: Bots, target: Status, mode: StopMode, priced: BOOLEAN,
   active: BOOLEAN, allocated: Nat,     \* the allocation row as it was read
   qty: Nat, row: 0 .. MaxRows]         \* the managed position as it was read

IdleRequest ==
  [pc |-> "idle", bot |-> CHOOSE b \in Bots : TRUE, target |-> "READY",
   mode |-> "STOP_AND_KEEP_ASSETS", priced |-> FALSE,
   active |-> FALSE, allocated |-> 0, qty |-> 0, row |-> 0]

Init ==
  /\ status = [b \in Bots |-> "DRAFT"]
  /\ active = [b \in Bots |-> FALSE]
  /\ allocated = [b \in Bots |-> 0]
  /\ available = Initial
  /\ outstanding = 0
  /\ retained = [b \in Bots |-> 0]
  /\ cash = [b \in Bots |-> NoRow]
  /\ base = [b \in Bots |-> 0]
  /\ position = [b \in Bots |-> [qty |-> 0, managed |-> TRUE, row |-> 0]]
  /\ holdings = [b \in Bots |-> 0]
  /\ cycle = [b \in Bots |-> IdleCycle]
  /\ req = [r \in Requests |-> IdleRequest]

-----------------------------------------------------------------------------
(* The API: one changeStatus request, step by step. *)

\* get() reads the bot outside the transaction and the transition is checked
\* against that status; a stop that liquidates also looks for a market price.
Submit(r, b, t) ==
  /\ req[r].pc = "idle"
  /\ t \in Transitions[status[b]]
  /\ \E m \in StopMode, p \in BOOLEAN :
       /\ t # "STOPPED" => m = "STOP_AND_KEEP_ASSETS"
       /\ m = "STOP_AND_KEEP_ASSETS" => ~p
       /\ req' = [req EXCEPT ![r] =
                    [IdleRequest EXCEPT !.pc = "begun", !.bot = b, !.target = t,
                                        !.mode = m, !.priced = p]]
  /\ UNCHANGED <<status, portfolioVars, allocationVars, ledgerVars, cycle>>

\* The transaction reads the allocation row (findUnique, no lock).
ReadAllocation(r) ==
  /\ req[r].pc = "begun"
  /\ req' = [req EXCEPT ![r].pc = "read",
                        ![r].active = active[req[r].bot],
                        ![r].allocated = allocated[req[r].bot]]
  /\ UNCHANGED <<status, portfolioVars, allocationVars, ledgerVars, cycle>>

\* RUNNING claims capital unless the allocation that was read is active.
ClaimOnEveryStart(r) == req[r].target = "RUNNING"
ClaimWhenReady(r) == req[r].target = "RUNNING" /\ status[req[r].bot] = "READY"
NeedsClaim(r) == req[r].target = "RUNNING" /\ ~req[r].active

\* The conditional update: the free capital still covers the claim.
Funded(b) == available >= Authorized[b]

\* A claim: the portfolio, the allocation, the first quote balance and the
\* new status.
Claim(r) ==
  LET b == req[r].bot IN
  /\ req[r].pc = "read"
  /\ NeedsClaim(r)
  /\ Funded(b)
  /\ available' = available - Authorized[b]
  /\ outstanding' = outstanding + Authorized[b]
  /\ active' = [active EXCEPT ![b] = TRUE]
  /\ allocated' = [allocated EXCEPT ![b] = Authorized[b]]
  /\ cash' = [cash EXCEPT ![b] = IF @ = NoRow THEN Authorized[b] ELSE @]
  /\ status' = [status EXCEPT ![b] = "RUNNING"]
  /\ req' = [req EXCEPT ![r] = IdleRequest]
  /\ UNCHANGED <<retained, base, position, holdings, cycle>>

\* A stop of an active bot reads its managed open positions.
ReadPositions(r) ==
  LET p == position[req[r].bot] IN
  /\ req[r].pc = "read"
  /\ req[r].target = "STOPPED"
  /\ req[r].active
  /\ req' = [req EXCEPT ![r].pc = "stopping",
                        ![r].qty = IF p.managed THEN p.qty ELSE 0,
                        ![r].row = p.row]
  /\ UNCHANGED <<status, portfolioVars, allocationVars, ledgerVars, cycle>>

AllocationKeptAmount(b) == /\ active' = [active EXCEPT ![b] = FALSE]
                           /\ allocated' = allocated
Deactivate(b) == /\ active' = [active EXCEPT ![b] = FALSE]
                 /\ allocated' = [allocated EXCEPT ![b] = 0]

\* The release at the end of a stop: the allocation that was read, less the
\* cost of the assets that stay, goes back to the portfolio.
Release(r, kept) ==
  LET b == req[r].bot
      releasable == Max0(req[r].allocated - kept)
  IN
  /\ available + releasable =< MaxFree
  /\ available' = available + releasable
  /\ outstanding' = outstanding - releasable
  /\ retained' = [retained EXCEPT ![b] = @ + (req[r].allocated - releasable)]
  /\ Deactivate(b)
  /\ status' = [status EXCEPT ![b] = "STOPPED"]
  /\ req' = [req EXCEPT ![r] = IdleRequest]

\* STOP_AND_KEEP_ASSETS, or nothing to sell: the position row that was read
\* becomes an UnmanagedHolding; it stays OPEN but is no longer managed.
StopKeeping(r) ==
  LET b == req[r].bot
      q == req[r].qty
  IN
  /\ req[r].pc = "stopping"
  /\ req[r].mode = "STOP_AND_KEEP_ASSETS" \/ q = 0
  /\ holdings' = [holdings EXCEPT ![b] = @ + q]
  /\ position' = [position EXCEPT ![b].managed =
                    @ /\ ~(q > 0 /\ position[b].qty > 0 /\ position[b].row = req[r].row)]
  /\ Release(r, q)
  /\ UNCHANGED <<cash, base, cycle>>

\* A liquidated row is closed, whatever it holds by now.
Closed(r, p) ==
  IF p.row = req[r].row THEN [qty |-> 0, managed |-> TRUE, row |-> p.row] ELSE p

\* STOP_AND_LIQUIDATE: sells the quantity that was read at the latest price
\* and closes that position row.
StopLiquidating(r) ==
  LET b == req[r].bot
      q == req[r].qty
  IN
  /\ req[r].pc = "stopping"
  /\ req[r].mode = "STOP_AND_LIQUIDATE"
  /\ req[r].priced
  /\ q > 0
  /\ base[b] >= q
  /\ base' = [base EXCEPT ![b] = @ - q]
  /\ \E m \in Moves :
       /\ q + m >= 0
       /\ cash[b] + q + m =< MaxCash
       /\ cash' = [cash EXCEPT ![b] = @ + q + m]
  /\ position' = [position EXCEPT ![b] = Closed(r, @)]
  /\ Release(r, 0)
  /\ UNCHANGED <<holdings, cycle>>

\* Every other transition only writes the status, whatever it is by now.
WriteStatus(r) ==
  /\ req[r].pc = "read"
  /\ \/ req[r].target \in {"READY", "PAUSED"}
     \/ req[r].target = "RUNNING" /\ ~NeedsClaim(r)
     \/ req[r].target = "STOPPED" /\ ~req[r].active
  /\ status' = [status EXCEPT ![req[r].bot] = req[r].target]
  /\ req' = [req EXCEPT ![r] = IdleRequest]
  /\ UNCHANGED <<portfolioVars, allocationVars, ledgerVars, cycle>>

\* A Conflict (no capital, no price, no base balance), a lost connection or a
\* restart of the API rolls the transaction back.
Abort(r) ==
  /\ req[r].pc # "idle"
  /\ req' = [req EXCEPT ![r] = IdleRequest]
  /\ UNCHANGED <<status, portfolioVars, allocationVars, ledgerVars, cycle>>

-----------------------------------------------------------------------------
(* The worker: one cycle per bot.  PaperCycle.tla has its inner steps. *)

\* A cycle starts only for a RUNNING bot; it never looks at the status again.
CycleStart(b) ==
  /\ cycle[b].pc = "idle"
  /\ status[b] = "RUNNING"
  /\ cycle' = [cycle EXCEPT ![b].pc = "started"]
  /\ UNCHANGED <<status, portfolioVars, allocationVars, ledgerVars, req>>

\* An approved proposal reserves capital, which needs the allocation active.
CycleReserve(b) ==
  /\ cycle[b].pc = "started"
  /\ active[b]
  /\ \E side \in {"BUY", "SELL"} :
       LET limit == IF side = "BUY" THEN allocated[b]
                    ELSE IF position[b].managed THEN position[b].qty ELSE 0
       IN \E n \in 1 .. limit :
            cycle' = [cycle EXCEPT ![b] = [pc |-> "reserved", side |-> side, amount |-> n]]
  /\ UNCHANGED <<status, portfolioVars, allocationVars, ledgerVars, req>>

\* No proposal, or a rejection: the bot's status is left alone on a SKIP and
\* overwritten with RISK_BLOCKED, unconditionally, on a PAUSE.
CycleReject(b) ==
  /\ cycle[b].pc = "started"
  /\ cycle' = [cycle EXCEPT ![b] = IdleCycle]
  /\ status' \in {status, [status EXCEPT ![b] = "RISK_BLOCKED"]}
  /\ UNCHANGED <<portfolioVars, allocationVars, ledgerVars, req>>

\* A BUY fill: the quote balance is decremented if it suffices, and the open
\* position, managed or not, is enlarged; without one a new row is opened.
CycleBuy(b) ==
  LET n == cycle[b].amount
      p == position[b]
  IN
  /\ cycle[b].pc = "reserved"
  /\ cycle[b].side = "BUY"
  /\ cash[b] >= n
  /\ base[b] + n =< MaxCash
  /\ p.qty = 0 => p.row < MaxRows
  /\ cash' = [cash EXCEPT ![b] = @ - n]
  /\ base' = [base EXCEPT ![b] = @ + n]
  /\ position' = [position EXCEPT ![b] =
                    IF p.qty > 0 THEN [p EXCEPT !.qty = @ + n]
                    ELSE [qty |-> n, managed |-> TRUE, row |-> p.row + 1]]
  /\ cycle' = [cycle EXCEPT ![b] = IdleCycle]
  /\ UNCHANGED <<status, portfolioVars, allocationVars, holdings, req>>

\* A SELL fill: the open position and the base balance must cover it.  A row
\* sold out is CLOSED, and whether it was managed no longer matters.
Sellable(b, n) == position[b].qty >= n /\ base[b] >= n

CycleSell(b) ==
  LET n == cycle[b].amount
      p == position[b]
      left == p.qty - n
  IN
  /\ cycle[b].pc = "reserved"
  /\ cycle[b].side = "SELL"
  /\ Sellable(b, n)
  /\ \E m \in Moves :
       /\ n + m >= 0
       /\ cash[b] + n + m =< MaxCash
       /\ cash' = [cash EXCEPT ![b] = @ + n + m]
  /\ base' = [base EXCEPT ![b] = @ - n]
  /\ position' = [position EXCEPT ![b] =
                    [qty |-> left, managed |-> p.managed \/ left = 0, row |-> p.row]]
  /\ cycle' = [cycle EXCEPT ![b] = IdleCycle]
  /\ UNCHANGED <<status, portfolioVars, allocationVars, holdings, req>>

\* The fill transaction fails (balance or position too small) or the worker
\* gives the job up.
CycleFail(b) ==
  /\ cycle[b].pc = "reserved"
  /\ cycle' = [cycle EXCEPT ![b] = IdleCycle]
  /\ UNCHANGED <<status, portfolioVars, allocationVars, ledgerVars, req>>

Api(r) ==
  \/ \E b \in Bots, t \in Status : Submit(r, b, t)
  \/ ReadAllocation(r) \/ Claim(r) \/ ReadPositions(r)
  \/ StopKeeping(r) \/ StopLiquidating(r) \/ WriteStatus(r) \/ Abort(r)

Worker(b) ==
  \/ CycleStart(b) \/ CycleReserve(b) \/ CycleReject(b)
  \/ CycleBuy(b) \/ CycleSell(b) \/ CycleFail(b)

Next == (\E r \in Requests : Api(r)) \/ (\E b \in Bots : Worker(b))

Spec == Init /\ [][Next]_vars

-----------------------------------------------------------------------------
(* Properties. *)

TypeOK ==
  /\ status \in [Bots -> Status]
  /\ active \in [Bots -> BOOLEAN]
  /\ allocated \in [Bots -> Nat]
  /\ available \in Int
  /\ outstanding \in Int
  /\ retained \in [Bots -> Nat]
  /\ cash \in [Bots -> Int]
  /\ base \in [Bots -> Nat]
  /\ position \in [Bots -> Position]
  /\ holdings \in [Bots -> Nat]
  /\ cycle \in [Bots -> Cycle]
  /\ req \in [Requests -> Request]

\* The portfolio's free and allocated capital always add up to what it began
\* with, and no interleaving of claims takes more than is free: the second of
\* two racing claims is refused by the conditional update (bots.service.ts).
CapitalConserved ==
  /\ available + outstanding = Initial
  /\ available >= 0

\* The status requests of one bot come one by one, as a user's clicks on it do;
\* those of different bots may overlap.  Two about one bot break what follows.
OneRequestPerBot ==
  \A r, s \in Requests :
    req[r].pc # "idle" /\ req[s].pc # "idle" /\ req[r].bot = req[s].bot => r = s

\* The portfolio's allocated capital is the sum of the bots' hard allocations
\* and of the capital their stops left tied up in kept assets, as the
\* readiness runbook asks the operator to confirm.
PortfolioBacksAllocations ==
  outstanding = SumFunction([b \in Bots |-> allocated[b] + retained[b]])

\* A RUNNING bot holds exactly its authorized capital, whatever the worker's
\* late RISK_BLOCKED writes did to its status on the way there.
RunningHoldsAllocation ==
  \A b \in Bots : status[b] = "RUNNING" => active[b] /\ allocated[b] = Authorized[b]

\* Capital leaves the portfolio only to activate a bot that held none, and
\* comes back only from a bot that held some and no longer does: each
\* activation claims once and each stop releases once (ADR-023).
ClaimsOnceReleasesOnce ==
  [][ /\ available' < available =>
           \E b \in Bots : ~active[b] /\ active'[b]
      /\ available' > available =>
           \E b \in Bots : active[b] /\ ~active'[b] ]_vars

\* The lifecycle implements the capital pool.
Pool == INSTANCE CapitalPool WITH holders <- {b \in Bots : active[b]}
ImplementsPool == Pool!PoolSpec
=============================================================================
