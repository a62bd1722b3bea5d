----------------------------- MODULE MarketFeed -----------------------------
(***************************************************************************)
(* The candles the cycles trade on: the market-data-sync job               *)
(* (market-data-runtime.ts) walks through the symbols of the running bots  *)
(* and fetches each through BinancePublicMarketDataClient, whose requests  *)
(* pass a circuit breaker, a token bucket and a retry loop with back-off.  *)
(*                                                                         *)
(* A caller of the client runs the loop of the job.  The worker has one;   *)
(* the client itself serves any number at once.  A tick of the clock is    *)
(* the time in which the bucket gains a token; timers count down, or up    *)
(* to the value beyond which the code does not tell them apart.            *)
(***************************************************************************)
EXTENDS Integers

CONSTANTS Callers,
          Depth,          \* the symbols are 1 .. Depth, in the order of the Map
          Delisted,       \* the symbols the exchange answers with 400
          Capacity,       \* requestsPerMinute, and so the tokens of a minute
          Threshold,      \* circuitFailureThreshold
          ResetAfter,     \* circuitResetMs, in ticks
          MaxRetries,     \* maxRetries
          BaseDelay,      \* retryBaseDelayMs, in ticks
          Interval        \* MARKET_DATA_INTERVAL_MS, in ticks

ASSUME FeedAssumption ==
  /\ {Depth, Capacity, Threshold} \subseteq Nat \ {0}
  /\ {ResetAfter, MaxRetries, BaseDelay, Interval} \subseteq Nat
  /\ Delisted \subseteq 1 .. Depth

VARIABLES
  tokens, refilled,     \* TokenBucketRateLimiter: tokens, ticks since lastRefill
  failures,             \* CircuitBreaker.failures, up to Threshold
  tripped, openFor,     \* openedAt is set, and the ticks since, up to ResetAfter
  call,                 \* what each caller is doing
  unclosed,             \* symbols whose newest MarketSnapshot is of a candle not closed yet
  fresh,                \* symbols whose newest one is closed and young enough to trade on
  up,                   \* the exchange and the database answer as they should
  admitted              \* no variable of the code: see Fuller

bucket == <<tokens, refilled>>
breaker == <<failures, tripped, openFor>>
candles == <<unclosed, fresh>>
vars == <<bucket, breaker, call, candles, up, admitted>>

-----------------------------------------------------------------------------
Symbols == 1 .. Depth

\* Call.wait is the rest of a back-off, or of the time to the next job; the
\* longest back-off comes before the last retry.
TwoTo[n \in Nat] == IF n = 0 THEN 1 ELSE 2 * TwoTo[n - 1]
LongestWait == BaseDelay * TwoTo[MaxRetries] + BaseDelay + Interval

Call == [phase: {"idle", "asking", "fetching", "sleeping", "storing"},
         symbol: Symbols,
         attempt: 0 .. MaxRetries,
         wait: 0 .. LongestWait]

Idle == [phase |-> "idle", symbol |-> 1, attempt |-> 0, wait |-> Interval]

AtMost(n, most) == IF n < most THEN n ELSE most
AtLeast0(n) == IF n < 0 THEN 0 ELSE n

Init ==
  /\ tokens = Capacity
  /\ refilled = 0
  /\ failures = 0
  /\ tripped = FALSE
  /\ openFor = 0
  /\ call = [c \in Callers |-> Idle]
  /\ unclosed = {}
  /\ fresh = {}
  /\ up \in BOOLEAN
  /\ admitted = 0

-----------------------------------------------------------------------------
(* TokenBucketRateLimiter and CircuitBreaker *)

\* The tokens a take() finds.
RefilledUncapped == tokens + refilled
Refilled == AtMost(tokens + refilled, Capacity)

Take ==
  /\ Refilled >= 1
  /\ tokens' = Refilled - 1
  /\ refilled' = 0

TakeNothing ==
  /\ Refilled < 1
  /\ tokens' = Refilled
  /\ refilled' = 0

CircuitNeverHalfOpen == IF ~tripped THEN "closed" ELSE "open"
CircuitState ==
  IF ~tripped THEN "closed" ELSE IF openFor >= ResetAfter THEN "half-open" ELSE "open"

Success ==
  /\ failures' = 0
  /\ tripped' = FALSE
  /\ openFor' = 0

Failure ==
  /\ failures' = AtMost(failures + 1, Threshold)
  /\ IF failures + 1 >= Threshold
       THEN tripped' = TRUE /\ openFor' = 0
       ELSE UNCHANGED <<tripped, openFor>>

\* A meter that rises with every event and falls with every tick.  It is never
\* above n exactly when no interval of t ticks contains more than n + t events.
Fuller(meter) == AtMost(meter + 1, Capacity + 1)

-----------------------------------------------------------------------------
(* The loop of the job and BinancePublicMarketDataClient.request *)

Proceed(c, record) == call' = [call EXCEPT ![c] = record]

Asking(symbol) == [phase |-> "asking", symbol |-> symbol, attempt |-> 0, wait |-> 0]

\* A job that is through, or throws, ends; the scheduler starts the next one.
OnwardToEnd(c) == Proceed(c, Idle)
Onward(c) ==
  IF call[c].symbol < Depth THEN Proceed(c, Asking(call[c].symbol + 1)) ELSE Proceed(c, Idle)

Start(c) ==
  /\ call[c].phase = "idle"
  /\ call[c].wait = 0
  /\ Proceed(c, Asking(1))
  /\ UNCHANGED <<bucket, breaker, candles, up, admitted>>

\* CircuitOpenError.
Rejected(c) ==
  /\ call[c].phase = "asking"
  /\ CircuitState = "open"
  /\ Proceed(c, Idle)
  /\ UNCHANGED <<bucket, breaker, candles, up, admitted>>

\* The bucket is empty: 429 without a request, which the breaker does not see.
Limited(c) ==
  /\ call[c].phase = "asking"
  /\ CircuitState # "open"
  /\ TakeNothing
  /\ Proceed(c, Idle)
  /\ UNCHANGED <<breaker, candles, up, admitted>>

Admit(c) ==
  /\ call[c].phase = "asking"
  /\ CircuitState # "open"
  /\ Take
  /\ Proceed(c, [call[c] EXCEPT !.phase = "fetching"])
  /\ admitted' = Fuller(admitted)
  /\ UNCHANGED <<breaker, candles, up>>

\* An answer may be good although the exchange is in trouble.
Received(c) ==
  /\ call[c].phase = "fetching"
  /\ call[c].symbol \notin Delisted
  /\ Success
  /\ Proceed(c, [call[c] EXCEPT !.phase = "storing"])
  /\ UNCHANGED <<bucket, candles, up, admitted>>

Backoff(attempt) == {BaseDelay * TwoTo[attempt] + jitter : jitter \in 0 .. BaseDelay}

\* A timeout, a lost connection, 429 or 5xx; a delisted symbol gets 400.
Retry(c) ==
  /\ call[c].phase = "fetching"
  /\ ~up
  /\ call[c].attempt < MaxRetries
  /\ \E wait \in Backoff(call[c].attempt) :
       Proceed(c, [call[c] EXCEPT !.phase = "sleeping", !.wait = wait])
  /\ UNCHANGED <<bucket, breaker, candles, up, admitted>>

GiveUp(c) ==
  /\ call[c].phase = "fetching"
  /\ call[c].symbol \in Delisted \/ ~up
  /\ Failure
  /\ Proceed(c, Idle)
  /\ UNCHANGED <<bucket, candles, up, admitted>>

\* The retry asks neither the breaker nor the bucket.
Wake(c) ==
  /\ call[c].phase = "sleeping"
  /\ call[c].wait = 0
  /\ Proceed(c, [call[c] EXCEPT !.phase = "fetching", !.attempt = @ + 1])
  /\ UNCHANGED <<bucket, breaker, candles, up, admitted>>

\* persistCandle: of the newest candle, which is mostly still open, so that its
\* closeTime is to come.
StoreOpen(c) ==
  /\ call[c].phase = "storing"
  /\ unclosed' = unclosed \cup {call[c].symbol}
  /\ fresh' = fresh \ {call[c].symbol}
  /\ Onward(c)
  /\ UNCHANGED <<bucket, breaker, up, admitted>>
Store(c) ==
  /\ call[c].phase = "storing"
  /\ unclosed' = unclosed \ {call[c].symbol}
  /\ fresh' = fresh \cup {call[c].symbol}
  /\ Onward(c)
  /\ UNCHANGED <<bucket, breaker, up, admitted>>

\* The answer holds no candle: the next symbol.
StoreNothing(c) ==
  /\ call[c].phase = "storing"
  /\ ~up
  /\ Onward(c)
  /\ UNCHANGED <<bucket, breaker, candles, up, admitted>>

\* The answer does not parse, or the upsert fails.
StoreFails(c) ==
  /\ call[c].phase = "storing"
  /\ ~up
  /\ Proceed(c, Idle)
  /\ UNCHANGED <<bucket, breaker, candles, up, admitted>>

-----------------------------------------------------------------------------
(* Time and the exchange *)

Tick ==
  /\ refilled' = AtMost(refilled + 1, Capacity)
  /\ openFor' = IF tripped THEN AtMost(openFor + 1, ResetAfter) ELSE openFor
  /\ call' = [c \in Callers |-> [call[c] EXCEPT !.wait = AtLeast0(@ - 1)]]
  /\ admitted' = AtLeast0(admitted - 1)
  /\ UNCHANGED <<tokens, failures, tripped, candles, up>>

\* assertFreshMarketData refuses a candle whose closeTime is to come, and one whose
\* closeTime is longer ago than the cycle allows.
CloseCandle(s) ==
  /\ s \in unclosed
  /\ unclosed' = unclosed \ {s}
  /\ fresh' = fresh \cup {s}
  /\ UNCHANGED <<bucket, breaker, call, up, admitted>>
CandleExpires(s) ==
  /\ s \in fresh
  /\ fresh' = fresh \ {s}
  /\ UNCHANGED <<bucket, breaker, call, unclosed, up, admitted>>

Falter ==
  /\ up' = ~up
  /\ UNCHANGED <<bucket, breaker, call, candles, admitted>>

Request(c) ==
  \/ Rejected(c) \/ Limited(c) \/ Admit(c)
  \/ Received(c) \/ Retry(c) \/ GiveUp(c) \/ Wake(c)
  \/ StoreOpen(c) \/ Store(c) \/ StoreNothing(c) \/ StoreFails(c)

Next ==
  \/ \E c \in Callers : Start(c) \/ Request(c)
  \/ \E s \in Symbols : CloseCandle(s) \/ CandleExpires(s)
  \/ Tick
  \/ Falter

Spec == Init /\ [][Next]_vars

\* The scheduler starts a job every minute, a request settles within
\* requestTimeoutMs, timers fire, candles close, and time
\* passes.
FairSpec ==
  /\ Spec
  /\ \A c \in Callers : WF_vars(Start(c)) /\ WF_vars(Request(c))
  /\ \A s \in Symbols : WF_vars(CloseCandle(s))
  /\ WF_vars(Tick)

-----------------------------------------------------------------------------
TypeOK ==
  /\ tokens \in 0 .. Capacity
  /\ refilled \in 0 .. Capacity
  /\ failures \in 0 .. Threshold
  /\ tripped \in BOOLEAN
  /\ openFor \in 0 .. ResetAfter
  /\ call \in [Callers -> Call]
  /\ unclosed \subseteq Symbols
  /\ fresh \subseteq Symbols
  /\ up \in BOOLEAN
  /\ admitted \in 0 .. Capacity + 1

\* No interval of t ticks admits more than Capacity + t requests, however the
\* lazy refills fall: the bucket, which remembers two numbers, limits every
\* interval (ADR-004, TokenBucketRateLimiter.take).
AdmissionsAreLimited == admitted =< Capacity

\* Once the exchange has recovered the breaker closes again and again.
BreakerRecovers == <>[]up => []<>~tripped

\* ... and no symbol stays stale, except those a delisted symbol precedes.
SymbolsAreRefreshed ==
  <>[]up => \A s \in Symbols : Delisted \cap 1 .. s = {} => []<>(s \in fresh)
=============================================================================
