# Formal model of the risexpto trading runtime

risexpto runs trading bots ("digital traders") for users who keep custody of
their assets. An API (NestJS, `apps/api`) manages bots, plans and connections, a
worker (`apps/worker`, BullMQ on Redis, PostgreSQL through Prisma) runs the bots'
cycles, a web application (Next.js, `apps/web`) is what users see of both, and
packages hold the risk rules, the strategies and the execution engine. Everything
is PAPER by default; LIVE reaches the Binance testnet only.

This directory holds TLA+ models of the parts whose correctness depends on
interleaving, failure, order and arithmetic, the TLC runs that check them and TLAPS
proofs of the facts that matter most. Definitions keep the names of the code;
`PROJECT.json` maps each of them to the lines it stands for.

## The system

| Component | State | Operations | Hard behaviour | Correct when |
|---|---|---|---|---|
| Allocation lifecycle (`bots.service.ts`) | `Bot.status`, `PaperCapitalAllocation`, `PaperPortfolio`, balances, positions, holdings | `changeStatus`: claim, pause, resume, stop and keep, stop and liquidate | reads without locks inside READ COMMITTED transactions; the worker trades the same bot | the portfolio backs every allocation, once |
| Paper cycle (`paper-cycle.ts`) | proposal, reservation, order, trade, balances, position, grid levels | one BullMQ job: signal, risk, reserve, fill, close level | crashes between any two queries, retries from the top, two workers on one job | an order is charged once, and stays backed |
| Recovery (`reconciliation.ts`) | reservations | release of orphans older than five minutes | races the cycle it takes for dead | locked capital is freed, never under an order |
| Queue, scheduler (`queue.ts`, `paper-scheduler.ts`) | jobs, attempts, locks, `Bot.nextRunAt` | dispatch, compare-and-set claim, enqueue | lost locks, redelivery, overlapping passes, a crash between claim and enqueue | ticks are neither lost nor doubled |
| External fills (`paper-fills.ts`) | order rows, trades, balances | store a fill, compare orders with trades | lost updates, two-query reads | a difference is caught |
| Kill switches | `KillSwitchState` | activate, deactivate | read once or twice per job | nothing passes a closed gate |
| Live execution (`live-*.ts`, `live-execution`) | order rows, exchange orders, fills, positions, `LiveRiskState` | submit, reconcile, cancel, persist fills, judge | ambiguous submits, late answers, crashes before fills are stored | nothing is posted twice, rows follow the exchange |
| Connections (`exchange-connections`) | connection rows, ciphertexts, claimed capital | create, test, revoke; LIVE starts | a test against a revocation or an edited key | only safe keys are connected, capital is covered |
| Exchange rules (`testnet-connector.ts`) | none | decimal texts against filters | digits and precision | what is posted obeys the filters |
| Risk engine, portfolio risk | none | ordered checks | limits judged on a copy | no entry beyond a limit |
| Strategies, backtesting | none | DCA, grid, trend, breakout signals; measures | boundaries, fees at both ends | measures add up |
| Runtime state, card figures | high-water mark, profits, snapshots | equity, drawdown, today's profit | midnight, partial sales | figures are the change they claim |
| Notices | inbox, waiting reason | look and create, explain | overlapping and retried cycles | told once, and truly |
| Billing, provisioning | subscription, plan, webhook events | webhooks, limits | order of webhooks, check-then-act | an acknowledged event is applied once, a paid plan is in force while it is active |
| Market data | bucket, breaker, snapshots | fetch, retry, store | half-open, delisted symbols, outages | limited, and fresh again |
| Rate limit, guards, profile | Redis counters, users | count, expire, authenticate | INCR without EXPIRE, reconnection | refusals are earned |
| Web session | two sealed cookies | login, refresh, preferences, logout | tabs overlap | the cookie is what the user was told |
| Bot limits, risk page, bot pages | `RiskProfile`, page state | edit, save, create, start, pause | partial edits, answers out of order, lost calls | limits fit, and stay with their bot |
| In-memory job runtime (`worker-runtime`) | queue, locks, dead letters | run, retry, stop | lock TTL against slow handlers | jobs end, and do not overlap otherwise |
| Unused packages, read models, audit, user interface | in memory or none | queries, records, rendering | outside the models | |

The API and the worker share the database and nothing else: the API changes a
bot's status while a cycle of it is in flight. The worker takes jobs from the
queue; a job may be delivered again while an earlier delivery still runs. The web
application keeps nothing on its server: cookies travel with every request, and a
page holds what its own calls told it.

## Modules

Each component has one module of its own; an `MC…` module gives its CONSTANTS
small values for TLC, a `.cfg` is one run. The theorems are in `PaperProofs` (AllocationLifecycle,
PaperScheduler, PaperFills, JobRuntime), `PaperCycleProofs`, `TraderRiskProofs`,
`LiveExecutionProofs`, `LiveAccountProofs` (LiveAccount, LiveGate, LiveRisk),
`SubscriptionsProofs` and `RequestsProofs` (MarketFeed and the modules of the web and the API);
`SumLemmas` proves what they need of sums over finite sets.
`CapitalPool` and `FillLedger` are abstract: they say in a few lines what a
component promises, and the detailed modules are shown to implement them.
Components that interact are composed: `LiveGate` extends `LiveAccount`, whose
connections and statuses the gates read; `Backtest` and `TraderNotices` use the
strategies of `StrategySignals`. Small machines that share nothing are checked in
one run: the variable `scenario` of the MC module picks the one that moves, so that
their state spaces add instead of multiplying.

### AllocationLifecycle (implements CapitalPool)

`BotsService.changeStatus` for PAPER bots that share a portfolio. A request is a
record in `req` that walks through the code: `Submit` is `get()` and the
transition table, before the transaction; `ReadAllocation` the `findUnique` of the
allocation; `Claim`, `StopKeeping`, `StopLiquidating` and `WriteStatus` the four
ways the transaction can end; `ReadPositions` the `findMany` a stop makes first;
`Abort` a conflict, a lost connection or a restart. What a request has read it
keeps in its record, which is how a stale read shows. The writes of one
transaction are one step: the first of them updates the portfolio row, or the
bot row, and locks it until the commit. The worker is here with the granularity
this module needs (`CycleStart` to `CycleFail`).

State: `available` and `outstanding` are the two columns of `PaperPortfolio`,
`active` and `allocated` those of `PaperCapitalAllocation`, `cash`, `base`,
`position`, `holdings` the rows of balances, positions and unmanaged holdings.
`retained` is no column: it records how much of `outstanding` a stop left behind,
so that `PortfolioBacksAllocations` can be stated.

### PaperCycle (implements FillLedger)

One bot's `bot-cycle` jobs in `processPaperCycle`, one step per awaited query or
transaction: `Analyze` (kill switch, market, runtime state, strategy), `Propose`,
`Reject`/`Block`, `CheckReservation`, `Reserve`, `Decide`, the fill, `CloseLevel`,
`Rearm`, `MarkExecuted`, `Complete`. `Throw`, `Crash` and `Stall` are the failures: an
exception makes BullMQ count an attempt and retry the job from the top; a dead
worker leaves it active; a job whose lock expired is handed out again, *while the
first worker may still be running it* (`run[w].locked` is then false). `Recover`,
`Release` and `Age` are `recoverOrphanedReservations` with its five minutes;
`Pause`, `Resume`, `Stop`, `Kill` are what users and administrators do meanwhile.

The fill, `executePaperOrder`, is one transaction, READ COMMITTED, that does not lock the
bot: its first write is an upsert that changes nothing. `FindOrder` is its way out when the
order exists. A `Buy` changes the quote balance before it looks at the position, and every
other fill changes the balances before it writes a position and commits, so a BUY is one step.
A SELL reads the position (`FindPosition`) and only then changes a balance, so `Sell` is
another, which writes to the row what was left of the quantity *read*. In both, `Commit`
is the order under its unique key, its trade and the end of the reservation. `position` has
a row per BUY that opened one; which open row a query without order finds is left open.
Two fills that wait for each other's balance are a deadlock, one of which throws.
Strategy and risk verdict are a free choice, prices are constant
and there are no fees: `TraderRisk` has these.

### TraderRisk

The same cycle seen for its money. `Load` is `loadTraderRuntimeState`, `RaiseHighWater`
the update at its end, `Signals` what the strategies may propose from position,
cost and price, `PortfolioRisk` and `TraderRisk` the two layers in the order the
code asks them, `Judge`/`Block` the verdict and `Fill` the arithmetic of
`executePaperOrder` with its 0.1% fee. The cycle judges the copy it loaded and
fills the account as it is by then; `MovePrice`, `NewDay`, `CoolDown`, `Pause` and
`Resume` come in between, and so do the cycles of other traders on other workers (no
trader has two at once). `moved` and `late` are history: whether the price moved while
some cycle was under way, and how many entries came since the losses of the day reached
the portfolio's limit. Amounts are in thousandths so that the fee is exact.

### PaperScheduler, PaperFills, JobRuntime

`PaperScheduler`: a pass reads a due bot (`FindBot`), claims the tick with its
compare-and-set of `nextRunAt` (`ClaimTick`) and adds the job (`Enqueue`), or dies
(`Crash`); `RunNow` is the cycle a user asks for. The queue is the set of ids it
knows, which is how BullMQ refuses an id twice. `claimed` and `lost` are history.

`PaperFills`: `ReadOrder` reads and judges outside any lock, `StoreFill` is the
transaction's writes with the counts that were read, `StartCompare`, `ReadTrades` and
`Flag` are the two queries of `reconcilePaperOrders` and one transaction per order;
`Unblock` is the user who starts the blocked bot again. `overlapped` remembers whether
two jobs ever ran at once.

`JobRuntime`: `EnqueueJob`, `RunNext`, `Complete`, `Fail`, `StartRuntime`, `StopRuntime`
and the time that passes over waits and locks. The lock's life is what the package
makes of a slow handler; `outlived` remembers whose lock ended first.

### LiveExecution (implements OrderMirror)

`LiveExecutionEngine` over `PrismaLiveOrderStore` and the testnet connector, with
`submit-live-order`, `reconcileLiveOrders` and `persistLiveFills`. A query of the
database or a call of the exchange is a step. `exchange` is external: it accepts an
order (`Post`), possibly losing the answer (`LoseAnswer`), refuses, executes
(`Advance`) and expires it. `posts` counts the acceptances of one clientOrderId; a
finished order is no bar to another with its id, so nothing but the engine keeps
`posts` at one. `Resolve` is the overwrite of the row by an answer, `Persist` the
transaction that stores the fills.

`OrderMirror` is what all this promises of an order: it is recorded, then sent, once; the
market moves it to an end; and what is shown of it lags behind the market but neither runs
ahead nor falls back, and shows an end only with everything that was executed. The mapping
keeps of a row, and of the order at the exchange, the end it has come to and what is filled.

### LiveAccount, LiveGate, LiveRisk, ExchangeRules

`LiveAccount` is the connections API and the LIVE branch of `changeStatus`: every
request reads in one step and writes in a later one, with the call of the exchange
between (`StartTest`, `AskExchange` or `AskInVain`, `PersistStatus`; `StartRevoke`,
`Revoke`; `CountConnections`, `InsertConnection`; `StartChange`, `Change`). `EditKey` is
the user at the exchange. `found` remembers what the exchange ever answered of a key.

`LiveGate` extends it with `submitLiveOrder` as a sequence of gates: `ReadOrder`,
`FirstLook` for a switch, `LoadEngine` (the decryption), `Approve`, `SecondLook`,
`SubmitOrder`, while `Activate`, `Deactivate`, revocations, tests and status changes go
on. A job remembers in `passed` which gates were behind it when they closed; `posted`
records what else had closed by the time of the post.

`LiveRisk` is the same job seen for its limits: `PersistFills` books what the exchange
executed as positions and profits, `Refresh` recomputes the `LiveRiskState` row,
`Judge` reads it and `Evaluate` is the risk engine with its limits in order; days and
prices move in between.

`ExchangeRules` is `validateOrderShape`, the answer of exchangeInfo and
`validateOrderAgainstRules` on decimal texts. A text is its digits and the number of them
behind the point; `CompareDecimal`, `IsMultiple` and `MultiplyDecimal` scale as the code does,
and the property compares the numbers by cross multiplication.

### MarketFeed

The candles the cycles trade on. A caller runs the loop of the `market-data-sync`
job and, inside it, `BinancePublicMarketDataClient.request`: `Rejected` by the
breaker, `Limited` by the bucket or `Admit`ted, then `Received`, `Retry` with
back-off and `Wake`, or `GiveUp`; `Store` or `StoreOpen` writes the candle, closed or
still open, and goes on to the next symbol of the Map, and whatever throws ends the job.
`bucket` and `breaker` are the fields of the two classes. A `Tick` is the time in which
the bucket gains a token; timers count up to the value beyond which the code no longer
tells them apart. `up` says whether the exchange and the database are well; a delisted
symbol is answered 400 all the same. `admitted` is no variable of the code: it rises with
every admission and falls with every tick, so that a bound on it speaks of every
interval. The worker has one caller (concurrency 1); the client serves any number.

### Subscriptions

The plan of one user. A request looks for a plan and grants the free one
(`LookForPlan`, `GrantFree`: `ensureFreePlan`), then checks out (`Checkout`,
`Register`, `Record`: customer at Stripe, row, session) or creates a bot (`ReadPlan`,
`CountBots`: `assertCanCreateBot`; `CreateBot`). A webhook looks for its event
(`Receive`) and then records and applies it in one transaction (`Apply`), or dies
before that (`Fail`). Stripe is external: it keeps each subscription's history,
whose n-th entry is an event, and delivers an event any number of times, in any
order and side by side, until it is answered (`acked`). `applied` and `heard` keep what no
column does: how often an event reached a row, and which event reached a row last. An
event names one of the `Paid` plans and a status. `InForce` is the newest row with an
entitled status, as `findFirst` takes it: the plans are not compared, so with two paid
subscriptions a newer STARTER hides an ADVANCED, and a PAST_DUE subscription gives no
plan at once (the grace period of ADR-010, which `packages/billing` implements in memory,
is not in `BillingService`). `PaidPlanInForce` says just that, and no more. `Quiet` assumes that a checkout takes
longer than the query between finding no plan and granting the free one; without
it a free row can be younger than a plan that was paid for, and hide it. A unique
violation inside `Apply` can only come from the event: `providerSubscriptionId` is
upserted natively by the database.

### StrategySignals, Backtest

`StrategySignals` are the four strategy packages as operators: validation, averages,
ranges, inventory and the order of their checks. Quotients stay fractions and are
compared by cross multiplication. `Backtest` draws a history candle by candle
(`ReadCandle`), asks the strategy of the service's adapter at every candle (`Candle`)
and stores the measures (`StoreResult`); its property recomputes them from the whole
history, where the code kept running values.

### WebSession, ApiGate

`WebSession`: a browser with two cookies (`jar`) and requests that carry a copy of
them; a handler answers with what it makes of the copy, and `Deliver` overwrites the
cookie. Handlers are `BeginLogin`, `Callback` with its refusals, `Logout`, `ReadSession`
with the refresh of the tokens, `UpdatePreferences`, `UpdateLocale` and the pages behind
the route policy. Keycloak is external: `grants` are the logins it still honours.
`told` and `raced` are history.

`ApiGate`: a call passes `Count` and `Expire` of the limiter, the guard, the provisioning
of its user (`Upsert`, `EnsureFreePlan`) and the roles guard and reaches the profile
controller; Redis connects and fails, with commands that took effect unheard among them
(`CountUnheard`, `ExpireUnheard`), the process restarts, counters end. `lastPass` and `lost` are
history.

### BotLimits, TraderFigures, TraderNotices

`BotLimits`: `StartEdit` reads a bot, merges the request and checks the whole;
`FinishEdit` writes what was merged; `CreateBot` and `MoveBot` come in between. Amounts are
the doubles that `Number()` makes of the texts.

`TraderFigures`: buys, sales, closes and midnights, and the profits that
`BotsService.list` computes of them; `opening` is the total at midnight.

`TraderNotices`: cycles of a DCA trader wait, are refused or fill, explain it by
`waitingReasonForStrategy` and tell it by the look and the create of `notifyTrader`. Strategy and
reason read the clock and add the amounts each for itself, in floats and in Decimals.

### RiskPanel, TraderPages

`RiskPanel` is the risk page: a selection, the limits shown, and the requests under way,
which the API answers in any order and the page takes as they come.
`TraderPages` is the wizard and the controls of the bots: two calls make a bot, each may
be refused or lost, a second click overlaps the first, its reload throws away what the
page waited for, the user leaves and comes back, and the worker blocks bots, also by a
cycle from before a pause. `cutShort` and `unheard` are history.

### Accounting of rows

| Code | Model |
|---|---|
| `Bot.status` | `status` in the PAPER modules, `botStatus` in LiveAccount, `bot.status` in BotLimits, `made` in TraderPages |
| `TradeProposal`, `PaperCapitalReservation`, `Order` (unique per job/proposal) | `proposal`, `reservation`, `order`, functions on `Jobs` |
| `PaperBalance`, `Position`, `Trade.realizedPnl` | `cash`, `position`; `account` in TraderRisk; `balance`, `held`, `tradeRows` in PaperFills; `book` in LiveRisk |
| `PaperGridLevel` | `levels` |
| BullMQ job: state, `attemptsMade`, `stalledCounter`, lock | `queue`, `attempts`, `stalls`, `run[w].locked` |
| live `Order` row; `exchangeResult` | `row`; `row.resolved` |
| `ExchangeConnection`, `allocatedCapital` | `connection`, `allocated` |
| `RiskProfile` | `bot.limits` in BotLimits, `profiles` in RiskPanel |

## Runs

| Run | Question | Instance | Result |
|---|---|---|---|
| AllocationSerial | Does the portfolio account for every allocation, once? | 2 bots (2 and 1 units) on a portfolio of 2, one request in flight, sales with −1, 0 or +1 profit | holds, 604,414 states |
| AllocationDoubleRequest | Once per start, once per stop (ADR-023)? | one bot, two requests | **violated** |
| CycleSerial | Do crashes and retries keep approval, reservation and order together, and reservations within the allocation? | one worker, 2 jobs, a grid with one BUY and one SELL level, 2 attempts | holds, 1,082,648 states |
| CycleProgress | Does a job that runs twice charge once, and does everything end? | 1 job, 2 workers, 2 attempts, 1 redelivery, fair | holds, 68,030 states |
| LiveSerial | Is an order posted once, does its row follow the exchange, and do the jobs implement OrderMirror? | a BUY and a SELL of two executions each, one process | holds, 101,698 states |
| RiskEntries | Do entries keep to every limit, and do the books balance? | 3 traders, one per strategy, 2 workers, prices 20/100, 3 trades | holds, 1,135,272 states up to symmetry |
| FeedRecovers | Is every interval within the limit, and does the feed come back after an outage? | 2 callers, 3 symbols of which the last is delisted, 3 tokens, 2 failures to trip, one retry, fair | holds, 244,258 states |
| PlanWebhooks | Is every acknowledged event applied once, and is the plan in force the one last heard of the newest paid subscription? | 2 requests, 2 deliveries, 2 customers, 2 subscriptions of 2 events, 2 paid plans | holds, 819,486 states up to symmetry |
| LiveAccount | Are only safe keys connected, is capital covered, do closed gates hold, are the books the wallet, do orders obey the filters? | 2 connections, 2 bots, 2 requests; 2 orders and 2 jobs; 2 buys and a sale at prices 2 and 4 over 2 days; 3 decimal texts, 2 notionals, 2 filters | holds, 832,771 states |
| LiveDrawdown | Does a drawdown at its limit stop LIVE orders (ADR-029)? | the same | **violated** |
| WorkerJobs | Are ticks kept, differences caught, jobs ended? | 2 passes over 6 ticks with a crash; 2 workers, a BUY and a SELL of 2 units, 3 fills, a failure; 2 handlers, 3 enqueues, 2 attempts, a lock of 2 ticks; fair | holds, 97,123 states |
| WebRequests | Is the cookie as told, are refusals earned, limits fitting, figures, notices and measures true, and do pages act on the right bot? | 2 requests, 2 logins, 2 ticks; 2 calls on a key with 1 request per 2 ticks; 2 edits; 4 fills over 3 days at 3 prices; 2 cycles; 5 candles of 4 kinds under 4 strategies; 2 bots on a page | holds, 838,613 states up to symmetry |

What each property says stands above it in its module. What a run shows, and for which
hazard of the code, is in `PROJECT.json` (`runs`, `hazards`). Every property has a mutant
there: a change to one definition, of the kind a bug in that code would be, that makes
the run fail. Type invariants (`…TypeOK`, and `TypesOK` of an MC module) have been
checked on the same instances or are proved; the kept runs state only what could go wrong
in the code.

**Why the bounds are enough.** Two bots, one of which fits the portfolio only when
the other is stopped, are the smallest instance where claims compete. A single
position row is enough for AllocationSerial because a restart then buys into the
unmanaged row it left, and a profit of one unit is enough to make a balance differ
from its allocation. Two jobs give a cycle something to race and a retry something
to find; two workers are the smallest overlap, and every pair of steps of two
cycles is interleaved. Two attempts are a failure and its retry; one stall is one
overlap. Two executions per live order are the smallest order that is partially
filled. In RiskEntries a position bought at 20 is worth so much at 100 that two more entries
judged at once pass the portfolio's limit, which makes the third trader necessary; a sale
at the same price loses what a trader may lose in a day, one after a fall what the
portfolio may. Without such an entry allowed the property fails there, so its bound is reached. Three
tokens are fewer than two callers with three symbols ask for; two failures trip
the breaker, and a delisted symbol alone can do it; the job's interval is longer than the
breaker's reset, as in the code. Two events are a subscription and its end, in either
order.

In LiveAccount two requests are the smallest race; the bots' capital (2 and 1) fits
the connection's 4 with one resume to spare; prices are even so that averages are
whole; each decimal text has another number of digits than the filter it meets. In the
scenario of the gates one request changes bot `b1` or revokes, the other tests; the
other bot and the other connection rest. In WorkerJobs six ticks are three
intervals; three fills are one more than an order of two takes; three enqueues let an
id wait, run and come back. In WebRequests the prices 16, 32, 48 with a fee of a
sixteenth keep averages whole; candles of closes 1, 2, 4 and a spike make every
strategy buy and sell within five of them; percentages 0, 50 and 101 are out of, in and
beyond the range.

The bounds `MaxFree`, `MaxCash`, `MaxRows`, `MaxPosts`, `MaxTrades`, `MaxEvents`, `MaxClaims`,
`MaxDays`, `MaxTime`, `MaxCrashes`, `MaxFailures`, `MaxAccepted`, `MaxDelay`, `MaxLogins`,
`MaxCount`, `MaxTicks`, `MaxUnits`, `MaxFills`, `MaxDay`, `MaxInstant`, `MaxNotices`,
`MaxCandles`, `MaxLost` (calls lost and pages left), `Followed` (the bots whose buttons are
pressed), and the sets `Slot` and `Click` (requests of a page and clicks at once) cut
counters that the code leaves open; a step that would pass one is not taken.
AllocationSerial has also been run with two position rows, to the end for one bot and over 15
million states for two. Requests, calls, edits, cycles, slots and clicks in WebRequests are
interchangeable; as only one kind moves in a scenario, one exchange of all of them is the
symmetry. `PlanWebhooks` permutes requests, deliveries, customers, subscriptions and paid plans (which
have one limit there). No
temporal property is checked under symmetry but action properties, which are about single
steps and name no slot or worker: `BlocksAreNotLiftedUnseen`, and those of `RiskEntries`, which
exchanges its workers.

**Deadlock** is checked in every run but WebRequests, where a stored backtest is over and
bounded clocks stop. The other models never stop: users can always pause or resume, time
passes, the kill switch can be thrown, a stopped clock leaves the queue's other actors.

**Fairness** (`CycleProgress`, `FeedRecovers` and `WorkerJobs` use it). In PaperCycle a live worker goes on with its cycle
(`WF` on `Cycle(w)`: every await settles or throws), an idle worker takes a waiting
job (`WF` on `Take`: BullMQ's worker loop), a dead worker's lock expires and is
noticed (`WF` on `Stall` for abandoned jobs only: `stalledInterval`), and five
minutes pass (`WF` on `Age`). The recovery job runs every minute and is a sequence of
short transactions; `SF` on `Recover` and `Release` says that crashes do not hit it
for ever at the same place. Nothing is assumed of users, of crashes, of risk
verdicts, or of a stall of a job whose worker is alive. In MarketFeed the scheduler starts a
job when its interval is over, a request settles (`requestTimeoutMs` aborts it), a timer
fires, time passes and candles close. The outage ends by the hypothesis of the
property (`<>[]up`), not by fairness. In PaperScheduler time passes and the
repeatable job comes back (`WF` on `Work` of a pass); in PaperFills a worker goes on with what it
began, and the comparison, repeated every minute, is started again even if other jobs keep
taking the worker (`SF` on `StartCompare`); in JobRuntime handlers end, the runtime is started
again after a stop, and its timer, which runs as long as it is started, comes to every
job (`SF` on `RunNext`).

## Disagreements between code and documents

Two have a run whose counterexample is short, and an entry in `PROJECT.json`.

1. *Two status requests at once* (`AllocationDoubleRequest`): the allocation is
   read without a lock; both requests claim, or both release. ADR-023 says once.
2. *LIVE drawdown* (`LiveDrawdown`): the risk row stores a fraction of the peak, the
   submission compares it with an amount of money; a limit of one or more never stops an
   order. ADR-029 defines the drawdown as the difference.

The models show more. These contradict a document or comment:

- *Grid replay*: a crash after the fill leaves the level open (`paper-cycle.ts:244`), and the
  retry ends at the duplicate check; `pre-live-readiness.md:60-62` promises otherwise.
- *Refused exit*: daily loss and drawdown are checked for SELLs too (`risk-engine`, line 139);
  `digital-trader-runtime-v2.md:18-21` says an exit is not blocked by a limit that is reached.
- *Plan limit*: only bots that are not stopped are counted, at creation only; a stopped bot is
  started again beside its successor, and two creations at once pass by one. The product
  definition (`product-definition-v1.md:33-35`) gives FREE three simultaneous traders.
- *Late payment*: PAST_DUE is no plan at once (`billing.service.ts:45`); ADR-010 lets it keep
  access during a grace period. And of two paid subscriptions the newer row wins, whichever
  plan it is for.
- *Resume of a LIVE bot* claims its capital again (`bots.service.ts:231`); ADR-023 says that a
  resume adds none. `ClaimsAreCovered` holds because the sum only grows.
- *Changed signal*: a retry recomputes the signal, keeps the stored proposal and fills
  the new signal; `domain-model.md` ties the order to the proposal.
- *Write skew*: reservations are summed and inserted without a lock, so two workers can
  reserve more than the allocation; ADR-017 demands a conditional update. The balances
  are still not overdrawn (`CycleImplementsLedger`).
- *Kept assets*: a BUY after a restart is added to the unmanaged row that the stop gave
  up, which then differs from its `UnmanagedHolding` (ADR-027 moves it there for good).
- *Retries of the client* ask neither bucket nor breaker, so an outage sends up to four
  requests per token; ADR-004 puts every request under the bucket.
- Portfolio risk is asked before trader risk; ADR-018 describes the other order.

And these a reader of the code should know, though no document says otherwise.

*PAPER bots and the worker*
- A SELL writes the remainder of the quantity it read before it had a lock
  (`paper-cycle.ts:447`, `464-467`). When a fill of another job commits in between, its change of
  the row is lost: balances and trades are right, the position is not, and strategies, risk
  layers and stops read the position. `PositionFollowsBalance` needs `FillsOneByOne`; with two
  workers and three jobs `PositionIsBalance` fails.
- A liquidation sells the quantity it read from the balance and closes the row it read.
  If the worker sold that row and bought a new one meanwhile, the new position is left
  without its asset (`MaxRows = 2`); a row that a BUY enlarged is closed with it.
- A late `RISK_BLOCKED` of the worker overwrites STOPPED and PAUSED; the API then offers PAUSED
  and RUNNING. `RunningHoldsAllocation` still holds: RUNNING claims again.
- A stop returns the allocation less the cost of kept assets, whatever the balance
  is: profits and losses never reach the portfolio.
- A rejected retry leaves the reservation of the attempt before it ACTIVE until the
  recovery finds it, five minutes later. A SELL reserves 0, and a retry that turned
  into a BUY takes that reservation for its own.
- With two workers the recovery may release the reservation of a slow cycle that
  then fills; with a redelivered job a second run may write REJECTED over the
  approval of the first. The orders themselves stay covered by the balances.
- The kill switch and the status are read at the start of a cycle only.
- A BUY of the whole balance passes the risk engine, which ignores the fee, and then
  throws in every attempt. Fees of BUYs appear in no realized profit; `BooksBalance`
  carries them as a term of its own.
- Traders on different workers are judged on the same portfolio, so its limits are passed:
  the exposure by up to one entry for each other worker, and as many entries come after the
  losses of the day have reached their limit. `EntriesFitTheLimits` says it is no more.
- The grid levels that are stored (`paper-cycle.ts:365`) are spread by other parameters than
  those the signal uses (298).
- A DCA trader can be told MARKET_REGIME_NOT_SUITABLE although a limit made it wait: without a
  stored interval (the strategy takes a day); where float and Decimal part at the end of the
  capital (spent 2.2, quote 1.1, maximum 3.3); and where the interval ends between the two
  `Date.now()` (293, 345). `WaitsAreExplained` names these cases and no other. A refusal
  by the portfolio's risk is told to nobody (157-163).
- Today's profit counts the earlier paper profit of a position that was held over midnight
  as soon as it is traded.

*Worker, queue, market data*
- `worker-runtime`: an id that is being handled may be enqueued again; `finally` deletes the lock
  whoever set it; the id of a dead letter can never be enqueued again.
- Two fills of an order that overlap lose one count; the comparison then flags the order
  UNKNOWN and blocks the bot. Its own two queries can see a fill between them and flag an
  order that is well.
- A tick that was claimed is lost when the pass dies before the enqueue.
- `queue.ts` gives the reconciliation of a connection a fixed job id, which BullMQ
  keeps after the job ended; later additions are ignored, and nothing in the
  repository enqueues one.
- A half-open breaker admits any number of requests, and one late success closes it. A
  symbol the exchange refuses ends every job, so the symbols after it in the Map are never
  refreshed (`SymbolsAreRefreshed` excepts them), and its 400s count as failures. The newest
  candle is mostly open, and its closeTime to come, which `assertFreshMarketData` refuses.
- The client lives in memory: a restart refills the bucket and closes the breaker.

*LIVE*
- With two processes `PostedOnce` and `ImplementsMirror` fail in LiveExecution
  (`Workers <- TwoWorkers` in `LiveSerial.cfg`): both find no record, both call the
  exchange, and the older of two answers is stored last. The first holds under
  `SubmitsOneByOne`, the second under `HandledOneByOne` (*Proofs*). The
  deployed worker requires the row to exist and so only queries.
- A live row becomes FILLED before its fills are stored; when storing them fails the
  order is no longer listed for reconciliation, nor is one whose submission was answered
  FILLED at once. UNKNOWN is never listed.
- A late test writes CONNECTED over a revocation; the row has no secret then, and the
  decryption, not the status, is what keeps orders from it (`StopsStopOrders`).
- The exposure a submission is judged by is that of the last refresh; yesterday's loss stays in
  the row, and refuses orders, until the next.
- A SELL is judged as an entry. The commission of a purchase taken in the bought asset
  is not taken from the position.
- A MARKET order by quantity is refused whenever the symbol has a minimum notional; amounts
  that `Decimal.toString` writes as `1e-7` are refused; a filter whose step is zero refuses
  everything.

*Billing, API, web*
- Webhooks are applied in the order they arrive: an old `updated` after a `deleted`
  brings a subscription back, as `pre-live-readiness.md` admits. The billing view shows the
  newest subscription whatever its status; as every user has a FREE row, its buttons to upgrade
  never appear.
- The limiter's key is address, method and path: behind the web server all users share it. An
  EXPIRE that fails, or an INCR that counts while its answer is lost (ioredis sends it again and
  reads 2, so no EXPIRE follows), refuses a key for ever: `RefusalsAreEarned` shows that nothing
  else does. The promise `ready` is settled by the first event of the
  connection for good: if that was an error, every request is answered as if Redis were away.
- A refresh, a logout and a login of two tabs overwrite each other's cookies: a logout can be
  undone. `emailVerified` is asked at the callback only.
- An edit that was read while a bot rested is written while it runs.
- Limits are compared as doubles of texts with up to 18 decimals (`bots.service.ts:386`), so
  100.000000000000000001 fits into 100. The amounts of `BotLimits` are these doubles.
- The in-app notices of two overlapping cycles may double, as look and create are two queries.
- A backtest of the grid strategy never buys (`backtests.service.ts:57`); the fees of purchases
  appear in no trade's profit.
- *Risk page*: a late answer shows the limits of one bot under the name of another. Saving them
  is refused only by the unique key on user and name (`schema.prisma:562`), as an internal
  error. Counts that were typed become texts, which the API refuses (`bots.service.ts:446`);
  "saved" may be shown for another bot; a call that fails leaves "saving" for good.
- *Wizard*: the chosen value is a version's id and is looked up among the definitions' ids
  (`bot-create-wizard.tsx:67-71`, `185`), so the strategy's key stays empty and every bot gets the
  parameters of DCA and no trader. The button works again while a click is at work; a
  second call that fails leaves a DRAFT, for which no page has a button, which counts
  against the plan, and whose name is taken.
- *Controls*: none for DRAFT, RISK_BLOCKED and STOPPED. After a lost answer, or a block that
  overtook a pause, RUNNING lifts a block that the user has not seen.

## Proofs

All proofs are checked by tlapm from nothing (12,441 obligations). They assume the named
ASSUMEs of the modules and, where the table says so, that a set of bots, orders, jobs or
traders, which the code always enumerates, is finite.

The facts that overlapping requests or processes can break are proved for any number of them, as
`Spec /\ []Condition => []Fact`, where the condition says which two must not
overlap; everything else may. A single request or process always satisfies it, so the serial
runs are instances; the runs with two of them, and the hazards, show what its failure does.
For LIVE bots the first condition is a parameter of the model (`OneByOne`, by which a request about
a bot waits for the one before), which `ClaimsCovered` assumes.

| Condition | Forbids two at once | Why they could overlap in the code |
|---|---|---|
| `OneRequestPerBot` | status requests of one bot | nothing serialises `changeStatus` |
| `JobsOneByOne` | workers that decide, fill or recover one job | a lost BullMQ lock starts the job again; a slow cycle is taken for abandoned |
| `ReservesOneByOne` | workers between the sum of the reservations and the insert | two jobs of the bot on two workers |
| `FillsOneByOne` | workers in the fill transaction | the same; a stalled job that runs twice |
| `SubmitsOneByOne` | submissions of one order between the look for the row and the answer | a lost BullMQ lock starts the job again |
| `HandledOneByOne` | processes between reading and storing one order | the same, a reconciliation or a cancellation beside it |

| Theorem | For every | Argument |
|---|---|---|
| `PaperProofs!TypeCorrect` | bots, requests | inductive as it stands |
| `CapitalIsConserved` | bots, requests | each step moves the same amount both ways, and a claim is conditional on the row it updates |
| `RunningIsBacked`, `ClaimedOnceReleasedOnce`, `LifecycleImplementsPool` | bots, requests; `OneRequestPerBot` | `SerialInv` |
| `AllocationsAreBacked` | finite set of bots, requests; `OneRequestPerBot` | `SerialInv` and the sum |
| `TicksSpaced`, `TicksKept` | passes, interval | `SchedulerInv` |
| `OverlapsDiverge` | orders, fills, workers | `FillsInv` |
| `OverlapsOutlive` | ids, slots, lock life | `RuntimeInv` |
| `JobsAreKept` | ids, lock life; a finite set of slots | `CountersInv` |
| `PaperCycleProofs!TypeCorrect`, `CycleImplementsLedger` | jobs, workers, grids | `LedgerInv` |
| `ActiveReservationsHaveNoOrder` | jobs, workers | `ReservationInv` |
| `PositionFollowsBalance` | jobs, workers; `FillsOneByOne` | `BalanceInv` |
| `OrdersAreBacked` | jobs, workers; `JobsOneByOne` | `BackingInv` |
| `ReservationsFit` | finite set of jobs, workers; `ReservesOneByOne` | `RoomInv` |
| `TraderRiskProofs!TypeCorrect`, `BooksAlwaysBalance` | traders, workers, prices, limits | `BooksInv` |
| `NoEntryWhileTheLossStands` | the same | `CycleInv` |
| `EntriesFit` | finite sets of traders and workers | `EntryInv` |
| `LiveExecutionProofs!TypeCorrect` | orders, processes | inductive |
| `PostedAtMostOnce`, `RowsFollowTheExchange` | orders, processes; `SubmitsOneByOne` | `FollowInv` |
| `RowsOnlyAdvance`, `EngineImplementsMirror` | orders, processes; `HandledOneByOne` | `SafeInv` |
| `PositionMatches` | finite set of orders, any processes | `PositionInv` |
| `LiveAccountProofs!AccountTyped`, `ConnectedKeysSafe` | connections, bots, overlapping requests | `SafeKeysInv` |
| `ClaimsCovered` | finite set of bots; the requests of one bot one by one | `ClaimsInv` |
| `GateImplementsAccount` | jobs, switches | every action of LiveGate is one of LiveAccount or stutters there |
| `ClosedGatesHold` | jobs, switches, connections | `GateInv` |
| `BooksMatch` | finite set of orders, any prices | `BooksInv` |
| `PostsKeepTheRules` | decimal texts of any number of digits, filters | `RulesInv` |
| `SubscriptionsProofs!AcknowledgedMeansApplied` | requests, deliveries, customers, subscriptions | `DeliveryInv` |
| `PaidPlan`, `PlanTyped` | the same, and any paid plans | `PlanInv`, `TypeInv` |
| `RequestsProofs!AdmissionsLimited`, `FeedTyped` | callers, symbols, capacity, timers | `BucketInv`, `FeedInv` |
| `LimitsAlwaysFit` | edits, symbols, amounts, percentages | `LimitsInv` |
| `PanelTyped`, `LimitsNeverStray` | bots, limits, requests | `PanelInv` |
| `TodayCounts` | prices, amounts, days | `FiguresInv` |
| `DraftsAreFinished`, `BlocksStayUnlessUnseen` | slots of the wizard | `PagesInv` |
| `RefusalsEarned` | calls, keys, window | `ApiInv` |
| `NoticesSpaced`, `WaitsExplained` | cycles, window, configurations, prices | `NoticesInv` |
| `CookieTold` | requests, locales, lives of tokens | `WebInv` |
| `MetricsAreRight` | candles, capital, fee, presets, parameters | `BacktestInv` |

What each invariant adds, and why the property needs it:

- **SerialInv** adds to the types that what a request has read of its bot is still what
  the rows say (`Snapshot`), that an allocation is all or nothing (`AllocationExact`) and
  that RUNNING implies active (`RunningActive`). Without `Snapshot` a claim could act on an
  old read, and that is exactly what the violation with two requests does.
- **SchedulerInv** says that `nextRunAt` is an interval past every claimed tick (`NextIsLater`)
  and that a pass is about to claim what it read (`ReadIsTick`): so the compare-and-set that
  succeeds claims a new tick. `ClaimedTicksAreKept` says where a claimed tick is.
- **FillsInv**: until two jobs overlap, at most one works, and what it has read is what is stored
  (`AloneAndCurrent`). Nothing is claimed after an overlap.
- **CountersInv** ties the counters to what they count: `queued` is the length of the queue, `active`
  the number of busy slots, `deadLettered` the length of the dead letters, and what was accepted
  is where it went (`Balanced`). A handler that outlives its lock still ends once, so that each
  action moves one job from one count to another.
- **RuntimeInv**: the handler of an id that never outlived its lock holds the lock, and the two
  run out together (`HoldsItsLock`); so the id cannot be taken up again beside it.
- **LedgerInv** is the types, `cash + base = Capital` and that a SELL about to write has seen
  enough in its row (`HasSeen`); it makes a step of any worker either a stutter of the ledger or
  its one fill, without a word about what the rows hold. **BalanceInv** adds that
  one row holds the balance and that a SELL still reads there what it saw (`ReadIsThere`), which
  a second fill in between would break. **ReservationInv** adds that a
  worker about to insert a reservation has no order yet.
- **BackingInv** says what a worker between the duplicate check and the fill knows
  (`CycleHasRead`): no order, an active reservation, an approved proposal. A second
  worker that runs the job again could fill the order, or block the proposal, meanwhile, and
  a recovery could release the reservation. Cycles of other jobs may come between.
  **RoomInv** says the same of the room (`RoomLeft`): only an insert takes from it.
- **CycleInv** says that a trader has one cycle, that the copy its cycle loaded is still
  the account except that the day may have ended (`CopyIsGood`), and that a signal about to
  be filled passed the loss limit on that copy (`Judged`). A new day only lowers the loss.
- **EntryInv** says that a cycle's copy is its trader's account (`OwnCopy`), so that an entry
  that was judged still fits the trader's limits (`StillFits`). Of the portfolio it counts
  every approved entry as made: with these the exposure passes its limit by at most one
  entry per other worker (`ExposureBounded`), and once the losses have reached theirs, the
  entries made since and those approved are no more than that (`LateBounded`). The step that
  matters is the verdict, which found the limit kept with its own entry and none of the others.
- **FollowInv** needs no more of an order than that it was posted at most once and only under a
  row (`SinglePoster`), and that row, trades, fetched fills and the answer in hand are not
  ahead of the exchange (`RowTrue`, `AnswerTrue`, `FillsTrue`). The exchange only moves on, so an
  answer of any age stays true of it, and what one process stores spoils nothing that another
  has read. The one exception is the look for the row: a process that found none must not be
  overtaken by another that posts (`PostsNew`), which is the condition of the two theorems,
  `SubmitsOneByOne`.
- **SafeInv** adds what the only process that handles an order knows: its answer is not behind the
  row either (`RowBehind`, `AnswerBetween`), and a row that shows an end is the order at the
  exchange. So every store is the `Show` of OrderMirror. Without `HandledOneByOne` it is not
  inductive, as the older of two answers may be stored last.
- **PositionInv** is the types and the property: the transaction that stores fills inserts the
  missing ones and adds exactly these to the position, by any number of processes.
- **SafeKeysInv**: an answer "connected" in the hands of a test was found at the exchange
  (`AnswersWereFound`), so that the write, however late, stores no other.
- **ClaimsInv**: no two requests change the same bot (`OneEach`), and the one that does has
  judged the status the bot still has (`ChangesAreDue`). The sum over the bots of a connection
  then moves by what the column moves.
- **RulesInv** says that the texts a job posts passed the comparisons. What these say of the numbers
  is shown by cross multiplication, on powers of ten as a recursive function whose law for sums
  `SumLemmas` proves (below): scaling both sides to the wider of two scales keeps their order,
  and a remainder of zero at that scale is a whole number of steps.
- **GateInv** says what a job that passed a gate remembers of a switch or revocation that came
  later (`SwitchRemembered`, `RevocationRemembered`). The types of the account come through
  `GateImplementsAccount`.
- **BooksInv**: the wallet is ahead of the books by exactly the executions that are not booked
  (`WalletIsAhead`); when there is none, they are equal.
- **DeliveryInv** joins `Counted1` (recorded means applied once, because both commit together)
  and `OneCustomer`: a session, and so a subscription, belongs to the customer that is stored,
  because it is handed out after the row. Otherwise an event would be recorded, not applied
  and acknowledged. This proof does not need `Quiet`.
- **PlanInv** adds that rows are stored in the order of their times (`RowsInOrder`) and that
  a paid row, or a subscription, is there only when no first request still grants a free row
  (`Provisioned`), and that the row of a subscription says what the event heard of it last
  said (`HeardRows`): an event and its row commit together, and histories only grow. Here
  `Quiet` is what `Provisioned` rests on.
- **TypeInv** adds to it that no two rows have the same subscription (`OneRowEach`), which is what
  the upsert by `providerSubscriptionId` keeps.
- **BucketInv** says that the tokens the next `take()` would find fit beside the meter of
  admissions. The bucket keeps no history; this relation is what makes it bound every interval.
- **LimitsInv** says that the limits every edit is about to write fit the bot it
  read: they were judged against its authorized capital and its symbol, which no action changes
  once the bot exists. So an edit that overlaps another writes old limits, but fitting ones.
- **PanelInv** types the calls under way (`SlotsOK`) and says what each may carry
  (`CarriesRow`). With it the unique key does the work: a save that the database accepts has a
  free name or its bot's own, and as each row has its own bot's name, the free one can only
  be its own (`FreeNameIsOwn`).
- **FeedInv** adds the types of callers, breaker and candles to it (`CallsOK`, `BreakerOK`,
  `CandlesOK`). A wait is bounded by the last back-off, because powers grow (`PowersGrow`).
- **FiguresInv**: until the first fill of a day, the total at midnight is what is realized less
  what was realized today and the paper profit at midnight (`OpeningIsKnown`).
- **PagesInv**: what the page shows of a bot whose answers all arrived is its status, except that
  the worker may have blocked a running one (`PageIsTrue`); a click in flight was offered on the
  status that is listed (`PressedWasOffered`).
- **ApiInv**: a counter that has an expiry got it within the window, from a call that is noted
  (`ExpiryIsEarned`); one that has none is about to get it, or a failure took it
  (`CountersExpire`).
- **NoticesInv**: a cycle that found nothing recent and was not overtaken is still right when it
  creates (`LookStillHolds`). `DeclinesHaveReasons` compares the reason function with the
  strategy's checks, whatever the roundings and the two clocks.
- **BacktestInv** says that the running values are those of the candles read so far: cash is the
  capital less what was paid and plus what was received, the peak is the highest value of the
  curve, and the drawdown the worst fall from any value to a later one. It needs the module's
  assumption that an entry buys a whole quantity.
- **WebInv**: until answers race, no request carries or is about to write a session other than
  the one told last (`NothingOlder`).

Sums over a set are folds (`SumFunctionOnSet`), defined by recursion over the subset order.
The provers cannot use the library's induction, whose theorems take an operator, but they can
use that strict inclusion is well founded on the subsets of a finite set (`WFMin`): `SumLemmas`
takes a smallest counterexample, and so shows that the recursion has exactly one value
(`SumsExist`, `SumsUnique`) and what a sum does when one term moves (`SumChange`) or the set is
split (`SumSplit`). A least element of a set of numbers (`LeastNat`) does the same for powers, which
the modules write as recursive functions of the exponent: `PowersExist`, `PowersUnfold`,
`PowersOfSum`, `PowersGrow`.

**Model-checked only.**

- The liveness properties (`DivergencesAreCaught`, `BreakerRecovers`, `ReservationsSettle`,
  `JobsSettle`, `AcceptedJobsEnd`, `SymbolsAreRefreshed`, and that half of `ScheduleIsKept`; its
  safety half is `TicksSpaced`): TLAPS has no ENABLED and no fairness here.
- What the facts above are worth when their condition fails: the violation of
  `AllocationDoubleRequest` shows that `OneRequestPerBot` is needed, and the hazards name the
  interleavings behind the other conditions. That the deployed system keeps a condition is not
  proved: locks and fixed job ids make it likely, a lost lock breaks it.

Every invariant, every action property and every refinement of the passing runs has its theorem.

## Not modelled

| Part | Why |
|---|---|
| Market data stream (`websocket.ts`) | no application opens it; its `connect` may hang, and two calls open two sockets |
| `bot-manager`, `paper-trading`, `portfolio`, `bot-wizard`, `kill-switch` | libraries in memory that no application imports. `BotManager.update` changes the trading mode before it refuses; `paper-trading` lets a quote balance of BTC go negative |
| `strategy-engine`, strategy catalogue | unused; constants and one query |
| Operational capital, compounding mode | a choice of the number that `Capital` stands for |
| `ensureGridLevels` | how the levels are spread; PaperCycle takes them as given |
| Customer portal, read-only queries, read models | a redirect; queries |
| Signing, clock offset, encryption of keys, sealing of cookies, PKCE, token verification | cryptography: the models take its verdicts as a free choice |
| Audit, observability, redaction, admin console | append-only rows and formatting |
| Connection panel, preferences form, dashboard, UI, translations | forms of a single request, rendering and texts |

## Plan

All parts of the first plan are modelled, and every safety property of the runs has its theorem.
What is left, in this order:

1. An abstract specification of the books, which LiveRisk and TraderRisk would both implement.
2. The rows and the mirror when processes do overlap on an order: whether a row is right again
   once the last process that holds an answer of it has stored it.
3. The hazards without a property (`PROJECT.json`), once the code says what it wants there.
