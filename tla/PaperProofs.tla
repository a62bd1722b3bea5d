----------------------------- MODULE PaperProofs -----------------------------
(***************************************************************************)
(* Theorems about the PAPER side: the allocation lifecycle of the API, the *)
(* schedule of the cycles, the fills of external orders, and the runtime   *)
(* that runs jobs.                                                         *)
(*                                                                         *)
(* AllocationLifecycle, for every portfolio, every set of bots and every   *)
(* bound: type correctness and the conservation of capital hold however    *)
(* many status requests race; the lifecycle facts need the requests of one *)
(* bot to come one by one, however those of different bots overlap.        *)
(*                                                                         *)
(* PaperScheduler, for any passes and crashes: ticks are spaced, and none  *)
(* is lost but by a crash.  PaperFills and JobRuntime, for any workers and *)
(* any jobs: what goes wrong goes wrong only after two jobs overlapped, or *)
(* after a handler outlived its lock; and JobRuntime loses no job.         *)
(***************************************************************************)
EXTENDS AllocationLifecycle, PaperScheduler, PaperFills, JobRuntime, SumLemmas, TLAPS

USE DEF Status, StopMode, NoRow, Max0, portfolioVars, allocationVars, ledgerVars, vars

LEMMA IdleTyped == IdleRequest \in Request /\ IdleCycle \in Cycle
BY LifecycleAssumption DEF IdleRequest, Request, IdleCycle, Cycle

LEMMA TargetsTyped == \A s \in Status : Transitions[s] \subseteq Status
BY DEF Transitions

\* What a release hands back is part of what was read, whatever stays kept.
LEMMA ReleaseBounds ==
  ASSUME NEW n \in Nat, NEW kept \in Nat
  PROVE  /\ Max0(n - kept) \in 0 .. n
         /\ n - Max0(n - kept) \in Nat
OBVIOUS

LEMMA TypeInit == Init => TypeOK
<1> SUFFICES ASSUME Init PROVE TypeOK
    OBVIOUS
<1> QED BY IdleTyped, LifecycleAssumption DEF Init, TypeOK, Position

\* Every step keeps the types.
LEMMA TypeStep == TypeOK /\ [Next]_vars => TypeOK'
<1> SUFFICES ASSUME TypeOK, [Next]_vars PROVE TypeOK'
    OBVIOUS
<1> USE LifecycleAssumption DEF TypeOK
<1>1. ASSUME NEW r \in Requests, Api(r) PROVE TypeOK'
  <2>r. req[r] \in Request /\ req[r].bot \in Bots
    BY DEF Request
  <2>1. ASSUME NEW b \in Bots, NEW t \in Status, Submit(r, b, t) PROVE TypeOK'
    <3>1. PICK m \in StopMode, p \in BOOLEAN :
            req' = [req EXCEPT ![r] =
                     [IdleRequest EXCEPT !.pc = "begun", !.bot = b, !.target = t,
                                         !.mode = m, !.priced = p]]
      BY <2>1 DEF Submit
    <3>2. [IdleRequest EXCEPT !.pc = "begun", !.bot = b, !.target = t,
                              !.mode = m, !.priced = p] \in Request
      BY IdleTyped DEF Request
    <3> QED BY <2>1, <3>1, <3>2 DEF Submit
  <2>2. ASSUME ReadAllocation(r) PROVE TypeOK'
    <3>1. req' \in [Requests -> Request]
      BY <2>2, <2>r DEF ReadAllocation, Request
    <3> QED BY <2>2, <3>1 DEF ReadAllocation
  <2>3. ASSUME Claim(r) PROVE TypeOK'
    <3>1. req' \in [Requests -> Request]
      BY <2>3, IdleTyped DEF Claim
    <3> QED BY <2>3, <2>r, <3>1 DEF Claim
  <2>4. ASSUME ReadPositions(r) PROVE TypeOK'
    <3>1. position[req[r].bot] \in Position
      BY <2>r
    <3>2. req' \in [Requests -> Request]
      BY <2>4, <2>r, <3>1 DEF ReadPositions, Request, Position
    <3> QED BY <2>4, <3>2 DEF ReadPositions
  <2>5. ASSUME NEW kept \in Nat, Release(r, kept)
        PROVE  /\ available' \in Int /\ outstanding' \in Int
               /\ retained' \in [Bots -> Nat]
               /\ active' \in [Bots -> BOOLEAN] /\ allocated' \in [Bots -> Nat]
               /\ status' \in [Bots -> Status] /\ req' \in [Requests -> Request]
    <3>1. req[r].allocated \in Nat
      BY <2>r DEF Request
    <3>2. req' \in [Requests -> Request]
      BY <2>5, IdleTyped DEF Release
    <3> QED BY <2>5, <2>r, <3>1, <3>2 DEF Release, Deactivate
  <2>6. ASSUME StopKeeping(r) PROVE TypeOK'
    <3>1. req[r].qty \in Nat
      BY <2>r DEF Request
    <3>2. position' \in [Bots -> Position]
      <4>1. PICK managed \in BOOLEAN : position' = [position EXCEPT ![req[r].bot].managed = managed]
        BY <2>6 DEF StopKeeping
      <4>2. position \in [Bots -> Position]
        OBVIOUS
      <4>3. QED
        BY <4>1, <4>2 DEF Position
    <3> QED BY <2>6, <2>5, <2>r, <3>1, <3>2 DEF StopKeeping
  <2>7. ASSUME StopLiquidating(r) PROVE TypeOK'
    <3>1. req[r].qty \in Nat
      BY <2>r DEF Request
    <3>2. position' \in [Bots -> Position]
      BY <2>7, <2>r DEF StopLiquidating, Closed, Position
    <3>3. base' \in [Bots -> Nat]
      BY <2>7, <2>r, <3>1 DEF StopLiquidating
    <3>4. cash' \in [Bots -> Int]
      BY <2>7, <2>r, <3>1 DEF StopLiquidating
    <3>5. Release(r, 0)
      BY <2>7 DEF StopLiquidating
    <3> QED BY <2>7, <2>5, <3>2, <3>3, <3>4, <3>5 DEF StopLiquidating
  <2>8. ASSUME WriteStatus(r) PROVE TypeOK'
    <3>1. req' \in [Requests -> Request] /\ req[r].target \in Status
      BY <2>8, <2>r, IdleTyped DEF WriteStatus, Request
    <3> QED BY <2>8, <2>r, <3>1 DEF WriteStatus
  <2>9. ASSUME Abort(r) PROVE TypeOK'
    BY <2>9, IdleTyped DEF Abort
  <2> QED BY <1>1, <2>1, <2>2, <2>3, <2>4, <2>6, <2>7, <2>8, <2>9 DEF Api
<1>2. ASSUME NEW b \in Bots, Worker(b) PROVE TypeOK'
  <2>p. position[b] \in Position /\ cycle[b] \in Cycle
    OBVIOUS
  <2>1. ASSUME CycleStart(b) PROVE TypeOK'
    BY <2>1, <2>p DEF CycleStart, Cycle
  <2>2. ASSUME CycleReserve(b) PROVE TypeOK'
    <3>1. PICK side \in {"BUY", "SELL"} :
            LET limit == IF side = "BUY" THEN allocated[b]
                         ELSE IF position[b].managed THEN position[b].qty ELSE 0
            IN \E n \in 1 .. limit :
                 cycle' = [cycle EXCEPT ![b] = [pc |-> "reserved", side |-> side, amount |-> n]]
      BY <2>2 DEF CycleReserve
    <3>2. cycle' \in [Bots -> Cycle]
      BY <3>1, <2>p DEF Cycle, Position
    <3> QED BY <2>2, <3>2 DEF CycleReserve
  <2>3. ASSUME CycleReject(b) PROVE TypeOK'
    BY <2>3, IdleTyped DEF CycleReject
  <2>4. ASSUME CycleBuy(b) PROVE TypeOK'
    <3>1. cycle[b].amount \in Nat /\ position[b].qty \in Nat /\ position[b].row \in 0 .. MaxRows
      BY <2>p DEF Cycle, Position
    <3>2. position' \in [Bots -> Position]
      BY <2>4, <2>p, <3>1 DEF CycleBuy, Position
    <3> QED BY <2>4, <3>1, <3>2, IdleTyped DEF CycleBuy
  <2>5. ASSUME CycleSell(b) PROVE TypeOK'
    <3>1. cycle[b].amount \in Nat /\ position[b].qty \in Nat
      BY <2>p DEF Cycle, Position
    <3>2. position' \in [Bots -> Position]
      BY <2>5, <2>p, <3>1 DEF CycleSell, Sellable, Position
    <3>3. base' \in [Bots -> Nat]
      BY <2>5, <3>1 DEF CycleSell, Sellable
    <3>4. cash' \in [Bots -> Int]
      BY <2>5, <3>1 DEF CycleSell
    <3> QED BY <2>5, <3>2, <3>3, <3>4, IdleTyped DEF CycleSell
  <2>6. ASSUME CycleFail(b) PROVE TypeOK'
    BY <2>6, IdleTyped DEF CycleFail
  <2> QED BY <1>2, <2>1, <2>2, <2>3, <2>4, <2>5, <2>6 DEF Worker
<1>3. CASE UNCHANGED vars
  BY <1>3
<1> QED BY <1>1, <1>2, <1>3 DEF Next

\* Type correctness, however many requests race.
THEOREM TypeCorrect == Spec => []TypeOK
<1> QED BY TypeInit, TypeStep, PTL DEF Spec

-----------------------------------------------------------------------------
(* Which steps touch the portfolio and the allocations: only Claim and the  *)
(* two stops, and each by a bounded amount.                                 *)

AllocationUnchanged == UNCHANGED <<available, outstanding, active, allocated>>

Claimed(b) ==
  /\ available >= Authorized[b]
  /\ available' = available - Authorized[b]
  /\ outstanding' = outstanding + Authorized[b]
  /\ active' = [active EXCEPT ![b] = TRUE]
  /\ allocated' = [allocated EXCEPT ![b] = Authorized[b]]

Released(b, n) ==
  /\ available' = available + n
  /\ outstanding' = outstanding - n
  /\ active' = [active EXCEPT ![b] = FALSE]
  /\ allocated' = [allocated EXCEPT ![b] = 0]

LEMMA StopReleases ==
  ASSUME TypeOK, NEW r \in Requests, StopKeeping(r) \/ StopLiquidating(r)
  PROVE  \E n \in 0 .. req[r].allocated : Released(req[r].bot, n)
<1> USE DEF TypeOK, Released, Release, Deactivate
<1>1. req[r].qty \in Nat /\ req[r].allocated \in Nat
  BY DEF Request
<1>2. ASSUME NEW kept \in Nat, Release(r, kept)
      PROVE  \E n \in 0 .. req[r].allocated : Released(req[r].bot, n)
  <2>1. Max0(req[r].allocated - kept) \in 0 .. req[r].allocated
    BY <1>1, ReleaseBounds
  <2> QED BY <1>2, <2>1
<1>3. CASE StopKeeping(r)
  BY <1>1, <1>2, <1>3 DEF StopKeeping
<1>4. CASE StopLiquidating(r)
  BY <1>2, <1>4 DEF StopLiquidating
<1> QED BY <1>3, <1>4

LEMMA StepKinds ==
  ASSUME TypeOK, [Next]_vars
  PROVE  \/ AllocationUnchanged
         \/ \E r \in Requests : Claim(r) /\ Claimed(req[r].bot)
         \/ \E r \in Requests :
              /\ StopKeeping(r) \/ StopLiquidating(r)
              /\ \E n \in 0 .. req[r].allocated : Released(req[r].bot, n)
<1> USE DEF AllocationUnchanged
<1>1. ASSUME NEW r \in Requests, Claim(r) PROVE Claimed(req[r].bot)
  BY <1>1 DEF Claim, Claimed, Funded
<1>2. ASSUME NEW r \in Requests, Api(r), ~Claim(r), ~StopKeeping(r), ~StopLiquidating(r)
      PROVE  AllocationUnchanged
  BY <1>2 DEF Api, Submit, ReadAllocation, ReadPositions, WriteStatus, Abort
<1>3. ASSUME NEW b \in Bots, Worker(b) PROVE AllocationUnchanged
  BY <1>3 DEF Worker, CycleStart, CycleReserve, CycleReject, CycleBuy, CycleSell, CycleFail
<1>4. CASE UNCHANGED vars
  BY <1>4
<1> QED BY <1>1, <1>2, <1>3, <1>4, StopReleases DEF Next

-----------------------------------------------------------------------------
\* No interleaving of claims and stops creates or loses capital, and none
\* hands out more than is free (the conditional update of changeStatus).
THEOREM CapitalIsConserved == Spec => []CapitalConserved
<1>1. Init => CapitalConserved
  BY LifecycleAssumption DEF Init, CapitalConserved
<1>2. TypeOK /\ CapitalConserved /\ [Next]_vars => CapitalConserved'
  <2> SUFFICES ASSUME TypeOK, CapitalConserved, [Next]_vars PROVE CapitalConserved'
      OBVIOUS
  <2> USE DEF CapitalConserved, TypeOK
  <2>1. CASE AllocationUnchanged
    BY <2>1 DEF AllocationUnchanged
  <2>2. ASSUME NEW r \in Requests, Claimed(req[r].bot) PROVE CapitalConserved'
    <3>1. Authorized[req[r].bot] \in Nat
      BY LifecycleAssumption DEF Request
    <3> QED BY <2>2, <3>1 DEF Claimed
  <2>3. ASSUME NEW r \in Requests, NEW n \in 0 .. req[r].allocated,
               Released(req[r].bot, n)
        PROVE  CapitalConserved'
    <3>1. n \in Nat
      BY DEF Request
    <3> QED BY <2>3, <3>1 DEF Released
  <2> QED BY <2>1, <2>2, <2>3, StepKinds
<1> QED BY <1>1, <1>2, TypeCorrect, PTL DEF Spec

-----------------------------------------------------------------------------
(* One request of a bot at a time.  The inductive invariant: what a request *)
(* in flight has read of the allocation is still true, because only the     *)
(* requests of that bot write it; an allocation is the whole authorized     *)
(* capital or nothing; and RUNNING implies an allocation.                   *)

Snapshot ==
  \A r \in Requests :
    /\ req[r].pc \in {"read", "stopping"} =>
         /\ req[r].active = active[req[r].bot]
         /\ req[r].allocated = allocated[req[r].bot]
    /\ req[r].pc = "stopping" => req[r].active

AllocationExact ==
  \A b \in Bots : allocated[b] = IF active[b] THEN Authorized[b] ELSE 0

RunningActive == \A b \in Bots : status[b] = "RUNNING" => active[b]

SerialInv == TypeOK /\ Snapshot /\ AllocationExact /\ RunningActive

LEMMA SerialInit == Init => SerialInv
<1> SUFFICES ASSUME Init PROVE SerialInv
    OBVIOUS
<1> QED BY TypeInit DEF Init, SerialInv, Snapshot, AllocationExact, RunningActive, IdleRequest

\* What a claim or a stop starts from.
LEMMA SerialReads ==
  ASSUME SerialInv, NEW r \in Requests
  PROVE  /\ req[r].bot \in Bots
         /\ Claim(r) => ~active[req[r].bot]
         /\ StopKeeping(r) \/ StopLiquidating(r) =>
              /\ active[req[r].bot]
              /\ req[r].allocated = Authorized[req[r].bot]
BY DEF SerialInv, TypeOK, Request, Snapshot, AllocationExact, Claim, NeedsClaim,
       StopKeeping, StopLiquidating

LEMMA SerialStep ==
  ASSUME OneRequestPerBot, SerialInv, [Next]_vars
  PROVE  SerialInv'
<1> USE DEF SerialInv
<1>t. TypeOK'
  BY TypeStep
<1>1. AllocationExact'
  <2> USE DEF AllocationExact
  <2>1. CASE AllocationUnchanged
    BY <2>1 DEF AllocationUnchanged
  <2>2. ASSUME NEW r \in Requests, Claimed(req[r].bot) PROVE AllocationExact'
    BY <2>2, SerialReads DEF Claimed, TypeOK
  <2>3. ASSUME NEW r \in Requests, NEW n \in Nat, Released(req[r].bot, n) PROVE AllocationExact'
    BY <2>3, SerialReads DEF Released, TypeOK
  <2>4. \A r \in Requests : 0 .. req[r].allocated \subseteq Nat
    BY DEF TypeOK, Request
  <2> QED BY <2>1, <2>2, <2>3, <2>4, StepKinds
<1>2. Snapshot' /\ RunningActive'
  <2>1. ASSUME NEW r \in Requests, Api(r) PROVE Snapshot' /\ RunningActive'
    <3>r. /\ req[r] \in Request /\ req[r].bot \in Bots
          /\ req[r].pc # "idle" =>
               \A s \in Requests \ {r} : req[s].pc # "idle" => req[s].bot # req[r].bot
      BY DEF OneRequestPerBot, TypeOK, Request
    <3>s. ASSUME req[r].pc # "idle", req' = [req EXCEPT ![r] = IdleRequest],
                 \A c \in Bots \ {req[r].bot} : active'[c] = active[c] /\ allocated'[c] = allocated[c]
          PROVE  Snapshot'
      <4>1. req'[r].pc = "idle" /\ \A q \in Requests \ {r} : req'[q] = req[q]
        BY <3>s DEF TypeOK, IdleRequest
      <4>2. \A q \in Requests : req[q].bot \in Bots
        BY DEF TypeOK, Request
      <4> QED BY <3>r, <3>s, <4>1, <4>2 DEF Snapshot
    <3> USE <3>r DEF Snapshot, RunningActive, TypeOK, IdleRequest
    <3>1. ASSUME NEW b \in Bots, NEW t \in Status, Submit(r, b, t)
          PROVE  Snapshot' /\ RunningActive'
      BY <3>1 DEF Submit
    <3>2. ASSUME ReadAllocation(r) PROVE Snapshot' /\ RunningActive'
      BY <3>2 DEF ReadAllocation, Request
    <3>3. ASSUME Claim(r) PROVE Snapshot' /\ RunningActive'
      <4>1. Snapshot'
        <5> HIDE DEF Snapshot, RunningActive, IdleRequest
        <5> QED BY <3>3, <3>s DEF Claim
      <4>2. RunningActive'
        BY <3>3 DEF Claim
      <4> QED BY <4>1, <4>2
    <3>4. ASSUME ReadPositions(r) PROVE Snapshot' /\ RunningActive'
      BY <3>4 DEF ReadPositions, Request
    <3>5. ASSUME StopKeeping(r) \/ StopLiquidating(r) PROVE Snapshot' /\ RunningActive'
      <4>1. \E n \in Nat : Release(r, n)
        BY <3>5 DEF StopKeeping, StopLiquidating, Request
      <4>2. Snapshot'
        <5> HIDE DEF Snapshot, RunningActive, IdleRequest
        <5> QED BY <3>5, <3>s, <4>1 DEF Release, Deactivate, StopKeeping, StopLiquidating
      <4>3. RunningActive'
        BY <4>1 DEF Release, Deactivate
      <4> QED BY <4>2, <4>3
    <3>6. ASSUME WriteStatus(r) PROVE Snapshot' /\ RunningActive'
      BY <3>6 DEF WriteStatus, NeedsClaim
    <3>7. ASSUME Abort(r) PROVE Snapshot' /\ RunningActive'
      BY <3>7 DEF Abort
    <3> QED BY <2>1, <3>1, <3>2, <3>3, <3>4, <3>5, <3>6, <3>7 DEF Api
  <2>2. ASSUME NEW b \in Bots, Worker(b) PROVE Snapshot' /\ RunningActive'
    <3>1. req' = req /\ active' = active /\ allocated' = allocated
      BY <2>2 DEF Worker, CycleStart, CycleReserve, CycleReject, CycleBuy, CycleSell, CycleFail
    <3>2. \A c \in Bots : status'[c] = status[c] \/ status'[c] = "RISK_BLOCKED"
      BY <2>2 DEF TypeOK, Worker, CycleStart, CycleReserve, CycleReject, CycleBuy, CycleSell, CycleFail
    <3> QED BY <3>1, <3>2 DEF Snapshot, RunningActive
  <2>3. CASE UNCHANGED vars
    BY <2>3 DEF Snapshot, RunningActive
  <2> QED BY <2>1, <2>2, <2>3 DEF Next
<1> QED BY <1>t, <1>1, <1>2

\* While the requests of one bot come one by one, a RUNNING bot always holds exactly its
\* authorized capital: a worker's late RISK_BLOCKED after a stop cannot lead
\* back to RUNNING without a new claim.
THEOREM RunningIsBacked ==
  Spec /\ []OneRequestPerBot => []RunningHoldsAllocation
<1>1. SerialInv => RunningHoldsAllocation
  BY DEF SerialInv, RunningActive, AllocationExact, RunningHoldsAllocation
<1>2. SerialInv /\ OneRequestPerBot /\ [Next]_vars => SerialInv'
  BY SerialStep
<1> QED BY <1>1, <1>2, SerialInit, PTL DEF Spec

\* While the requests of one bot come one by one, each activation takes capital once and
\* each stop gives it back once.
THEOREM ClaimedOnceReleasedOnce ==
  Spec /\ []OneRequestPerBot => ClaimsOnceReleasesOnce
<1> DEFINE Once == /\ available' < available => \E b \in Bots : ~active[b] /\ active'[b]
                   /\ available' > available => \E b \in Bots : active[b] /\ ~active'[b]
<1>1. SerialInv /\ [Next]_vars => [Once]_vars
  <2> SUFFICES ASSUME SerialInv, [Next]_vars PROVE Once
      OBVIOUS
  <2>1. CASE AllocationUnchanged
    BY <2>1 DEF AllocationUnchanged, SerialInv, TypeOK
  <2>2. ASSUME NEW r \in Requests, Claim(r), Claimed(req[r].bot) PROVE Once
    <3>1. /\ req[r].bot \in Bots /\ ~active[req[r].bot]
          /\ Authorized[req[r].bot] \in Nat
      BY <2>2, SerialReads, LifecycleAssumption
    <3> QED BY <2>2, <3>1 DEF Claimed, SerialInv, TypeOK
  <2>3. ASSUME NEW r \in Requests, StopKeeping(r) \/ StopLiquidating(r),
               NEW n \in Nat, Released(req[r].bot, n)
        PROVE  Once
    <3>1. req[r].bot \in Bots /\ active[req[r].bot]
      BY <2>3, SerialReads
    <3> QED BY <2>3, <3>1 DEF Released, SerialInv, TypeOK
  <2>4. \A r \in Requests : 0 .. req[r].allocated \subseteq Nat
    BY DEF SerialInv, TypeOK, Request
  <2> QED BY <2>1, <2>2, <2>3, <2>4, StepKinds DEF SerialInv
<1>2. SerialInv /\ OneRequestPerBot /\ [Next]_vars => SerialInv'
  BY SerialStep
<1> QED BY <1>1, <1>2, SerialInit, PTL DEF Spec, ClaimsOnceReleasesOnce

-----------------------------------------------------------------------------
\* While the requests of one bot come one by one, the lifecycle implements the
\* capital pool, however the requests of different bots overlap: claims map to claims, stops to releases, all else to stuttering.
THEOREM LifecycleImplementsPool ==
  Spec /\ []OneRequestPerBot => ImplementsPool
<1> DEFINE H == {b \in Bots : active[b]}
<1>1. Init => Pool!PoolInit
  BY DEF Init, Pool!PoolInit
<1>2. SerialInv /\ [Next]_vars => [Pool!PoolNext]_Pool!poolVars
  <2> SUFFICES ASSUME SerialInv, [Next]_vars
               PROVE  Pool!PoolNext \/ UNCHANGED Pool!poolVars
      OBVIOUS
  <2>1. CASE AllocationUnchanged
    BY <2>1 DEF AllocationUnchanged, Pool!poolVars
  <2>2. ASSUME NEW r \in Requests, Claim(r), Claimed(req[r].bot)
        PROVE  Pool!PoolNext
    <3>1. req[r].bot \in Bots /\ ~active[req[r].bot]
      BY <2>2, SerialReads
    <3>2. H' = H \cup {req[r].bot}
      BY <2>2, <3>1 DEF Claimed, SerialInv, TypeOK
    <3> QED BY <2>2, <3>1, <3>2 DEF Claimed, Pool!PoolClaim, Pool!PoolNext
  <2>3. ASSUME NEW r \in Requests, StopKeeping(r) \/ StopLiquidating(r),
               NEW n \in 0 .. req[r].allocated, Released(req[r].bot, n)
        PROVE  Pool!PoolNext
    <3>1. /\ req[r].bot \in Bots /\ active[req[r].bot]
          /\ req[r].allocated = Authorized[req[r].bot]
      BY <2>3, SerialReads
    <3>2. H' = H \ {req[r].bot}
      BY <2>3, <3>1 DEF Released, SerialInv, TypeOK
    <3> QED BY <2>3, <3>1, <3>2 DEF Released, Pool!PoolRelease, Pool!PoolNext
  <2> QED BY <2>1, <2>2, <2>3, StepKinds DEF SerialInv
<1>3. SerialInv /\ OneRequestPerBot /\ [Next]_vars => SerialInv'
  BY SerialStep
<1> QED BY <1>1, <1>2, <1>3, SerialInit, PTL DEF Spec, ImplementsPool, Pool!PoolSpec

-----------------------------------------------------------------------------
(* The portfolio's books.  A step changes one bot's share of the portfolio's *)
(* allocated capital, and the column by the same amount: a claim because the *)
(* bot held nothing, a stop because what its request read is still the row.  *)

Share == [b \in Bots |-> allocated[b] + retained[b]]

LEMMA BackedIsSum ==
  /\ PortfolioBacksAllocations <=> outstanding = SumFunctionOnSet(Share, Bots)
  /\ PortfolioBacksAllocations' <=> outstanding' = SumFunctionOnSet(Share', Bots)
BY DEF PortfolioBacksAllocations, Share, SumFunction

LEMMA ShareTyped ==
  ASSUME TypeOK, TypeOK'
  PROVE  \A b \in Bots : Share[b] \in Int /\ Share'[b] \in Int
BY DEF TypeOK, Share

\* One bot's share and the column move together.
MovesTogether(b, n) ==
  /\ Share'[b] = Share[b] + n
  /\ outstanding' = outstanding + n
  /\ \A c \in Bots \ {b} : Share'[c] = Share[c]

LEMMA TogetherBacked ==
  ASSUME IsFiniteSet(Bots), TypeOK, TypeOK', PortfolioBacksAllocations,
         NEW b \in Bots, NEW n \in Int, MovesTogether(b, n)
  PROVE  PortfolioBacksAllocations'
<1> DEFINE f == Share
           g == Share'
<1>1. \A c \in Bots : f[c] \in Int /\ g[c] \in Int
  BY ShareTyped
<1>2. g[b] = f[b] + n /\ \A c \in Bots \ {b} : f[c] = g[c]
  BY DEF MovesTogether
<1> HIDE DEF f, g
<1>3. SumFunctionOnSet(g, Bots) = SumFunctionOnSet(f, Bots) - f[b] + g[b]
  BY <1>1, <1>2, SumChange
<1>4. SumFunctionOnSet(f, Bots) = outstanding /\ outstanding \in Int
  BY BackedIsSum DEF f, TypeOK
<1>5. outstanding' = SumFunctionOnSet(g, Bots)
  BY <1>1, <1>2, <1>3, <1>4 DEF MovesTogether
<1> QED
  BY <1>5, BackedIsSum DEF g

LEMMA ClaimTogether ==
  ASSUME SerialInv, NEW r \in Requests, Claim(r)
  PROVE  MovesTogether(req[r].bot, Authorized[req[r].bot])
<1>1. /\ req[r].bot \in Bots /\ ~active[req[r].bot] /\ allocated[req[r].bot] = 0
      /\ Authorized[req[r].bot] \in Nat
  BY SerialReads, LifecycleAssumption DEF SerialInv, AllocationExact
<1> QED
  BY <1>1 DEF Claim, MovesTogether, Share, SerialInv, TypeOK

LEMMA StopTogether ==
  ASSUME SerialInv, NEW r \in Requests, StopKeeping(r) \/ StopLiquidating(r)
  PROVE  \E n \in Int : MovesTogether(req[r].bot, n)
<1>1. /\ req[r].bot \in Bots /\ req[r].allocated = allocated[req[r].bot]
      /\ req[r].allocated \in Nat /\ req[r].qty \in Nat
  BY SerialReads DEF SerialInv, Snapshot, TypeOK, Request, StopKeeping, StopLiquidating
<1>2. PICK kept \in Nat : Release(r, kept)
  BY <1>1 DEF StopKeeping, StopLiquidating
<1> DEFINE n == Max0(req[r].allocated - kept)
<1>3. n \in Nat
  BY <1>1 DEF Max0
<1>4. /\ outstanding' = outstanding - n
      /\ retained' = [retained EXCEPT ![req[r].bot] = @ + (req[r].allocated - n)]
      /\ allocated' = [allocated EXCEPT ![req[r].bot] = 0]
  BY <1>2 DEF Release, Deactivate
<1> HIDE DEF n
<1>5. MovesTogether(req[r].bot, -n)
  BY <1>1, <1>3, <1>4 DEF MovesTogether, Share, SerialInv, TypeOK
<1> QED
  BY <1>3, <1>5

LEMMA BackedStep ==
  ASSUME IsFiniteSet(Bots), SerialInv, PortfolioBacksAllocations, [Next]_vars
  PROVE  PortfolioBacksAllocations'
<1>0. TypeOK /\ TypeOK'
  BY TypeStep DEF SerialInv
<1>1. ASSUME NEW r \in Requests, Claim(r) PROVE PortfolioBacksAllocations'
  <2>1. req[r].bot \in Bots /\ Authorized[req[r].bot] \in Int
    BY SerialReads, LifecycleAssumption
  <2> QED
    BY <1>0, <1>1, <2>1, ClaimTogether, TogetherBacked
<1>2. ASSUME NEW r \in Requests, StopKeeping(r) \/ StopLiquidating(r)
      PROVE  PortfolioBacksAllocations'
  <2>1. req[r].bot \in Bots
    BY SerialReads
  <2> QED
    BY <1>0, <1>2, <2>1, StopTogether, TogetherBacked
<1>3. CASE UNCHANGED <<outstanding, allocated, retained>>
  BY <1>3, BackedIsSum DEF Share
<1>4. ASSUME NEW r \in Requests, Api(r), ~Claim(r), ~StopKeeping(r), ~StopLiquidating(r)
      PROVE  UNCHANGED <<outstanding, allocated, retained>>
  BY <1>4 DEF Api, Submit, ReadAllocation, ReadPositions, WriteStatus, Abort
<1>5. ASSUME NEW b \in Bots, Worker(b) PROVE UNCHANGED <<outstanding, allocated, retained>>
  BY <1>5 DEF Worker, CycleStart, CycleReserve, CycleReject, CycleBuy, CycleSell, CycleFail
<1> QED
  BY <1>1, <1>2, <1>3, <1>4, <1>5 DEF Next

\* While the requests of one bot come one by one, the portfolio's allocated capital is the
\* sum of what the bots hold and of what their stops left in kept assets.
THEOREM AllocationsAreBacked ==
  ASSUME IsFiniteSet(Bots)
  PROVE  Spec /\ []OneRequestPerBot => []PortfolioBacksAllocations
<1>1. Init => PortfolioBacksAllocations
  <2> SUFFICES ASSUME Init PROVE PortfolioBacksAllocations
      OBVIOUS
  <2>1. outstanding = 0 /\ \A b \in Bots : Share[b] = 0
    BY DEF Init, Share
  <2> QED
    BY <2>1, BackedIsSum, SumZero
<1>2. SerialInv /\ PortfolioBacksAllocations /\ [Next]_vars => PortfolioBacksAllocations'
  BY BackedStep
<1>3. SerialInv /\ OneRequestPerBot /\ [Next]_vars => SerialInv'
  BY SerialStep
<1> QED BY <1>1, <1>2, <1>3, SerialInit, PTL DEF Spec

-----------------------------------------------------------------------------
(* The schedule (PaperScheduler). *)

\* A pass is about to claim the tick it read, or the moment it read no tick at;
\* nextRunAt is past every tick that was claimed by an interval.
ReadIsTick(s) ==
  pass[s].pc = "found" => pass[s].tick = IF pass[s].read = NoTime THEN pass[s].at ELSE pass[s].read
NextIsLater == \A t \in claimed : nextRunAt >= t + Interval
\* A claimed tick is queued, lost in a crash, or about to be queued.
TickIsKept(t) == t \in jobs \cup lost \/ \E s \in Passes : pass[s].pc = "claimed" /\ pass[s].tick = t
ClaimedTicksAreKept == \A t \in claimed : TickIsKept(t)

SchedulerInv ==
  /\ SchedulerTypeOK /\ TicksAreSpaced /\ NextIsLater /\ ClaimedTicksAreKept
  /\ \A s \in Passes : /\ ReadIsTick(s)
                       /\ pass[s].pc = "claimed" => pass[s].tick \in claimed

LEMMA FindStep ==
  ASSUME SchedulerInv, NEW s \in Passes, FindBot(s)
  PROVE  SchedulerInv'
<1> DEFINE tick == IF nextRunAt = NoTime THEN now ELSE nextRunAt
           found == [pc |-> "found", at |-> now, read |-> nextRunAt, tick |-> tick]
<1>1. /\ now \in 1 .. MaxTime /\ nextRunAt \in Nat /\ pass \in [Passes -> Pass]
      /\ pass[s].pc = "idle" /\ pass' = [pass EXCEPT ![s] = found]
      /\ UNCHANGED <<now, running, nextRunAt, jobs, claimed, lost, crashes>>
  BY DEF SchedulerInv, SchedulerTypeOK, FindBot, botVars, ticks
<1>2. found \in Pass
  BY <1>1, SchedulerAssumption DEF Pass, NoTime
<1>3. found.pc = "found" /\ found.tick = IF found.read = NoTime THEN found.at ELSE found.read
  OBVIOUS
<1> HIDE DEF found, tick
<1>4. pass' \in [Passes -> Pass] /\ \A o \in Passes : pass'[o] = IF o = s THEN found ELSE pass[o]
  BY <1>1, <1>2
<1>5. SchedulerTypeOK'
  BY <1>1, <1>4 DEF SchedulerInv, SchedulerTypeOK
<1>6. TicksAreSpaced' /\ NextIsLater'
  BY <1>1 DEF SchedulerInv, TicksAreSpaced, NextIsLater
<1>7. ClaimedTicksAreKept'
  BY <1>1, <1>4 DEF SchedulerInv, ClaimedTicksAreKept, TickIsKept
<1>8. \A o \in Passes : ReadIsTick(o)' /\ (pass'[o].pc = "claimed" => pass'[o].tick \in claimed')
  BY <1>1, <1>3, <1>4 DEF SchedulerInv, ReadIsTick
<1> QED
  BY <1>5, <1>6, <1>7, <1>8 DEF SchedulerInv

\* A pass ends, with its tick in the queue or lost, or with none.
LEMMA PassEnds ==
  ASSUME SchedulerInv, NEW s \in Passes, pass' = [pass EXCEPT ![s] = IdlePass],
         UNCHANGED <<now, running, nextRunAt, claimed>>,
         jobs \subseteq jobs', jobs' \subseteq Nat \cup Keys,
         lost \subseteq lost', lost' \subseteq claimed, crashes' \in 0 .. MaxCrashes,
         pass[s].pc = "claimed" => pass[s].tick \in jobs' \cup lost'
  PROVE  SchedulerInv'
<1>1. IdlePass \in Pass /\ IdlePass.pc = "idle"
  BY SchedulerAssumption DEF IdlePass, Pass, NoTime
<1>2. /\ pass' \in [Passes -> Pass]
      /\ \A o \in Passes : pass'[o] = IF o = s THEN IdlePass ELSE pass[o]
  BY <1>1 DEF SchedulerInv, SchedulerTypeOK
<1>3. SchedulerTypeOK'
  BY <1>2 DEF SchedulerInv, SchedulerTypeOK
<1>4. TicksAreSpaced' /\ NextIsLater'
  BY DEF SchedulerInv, TicksAreSpaced, NextIsLater
<1>5. ClaimedTicksAreKept'
  <2>1. ASSUME NEW t \in claimed PROVE TickIsKept(t)'
    <3>1. TickIsKept(t)
      BY DEF SchedulerInv, ClaimedTicksAreKept
    <3> QED BY <1>2, <3>1 DEF TickIsKept
  <2> QED BY <2>1 DEF ClaimedTicksAreKept
<1>6. \A o \in Passes : ReadIsTick(o)' /\ (pass'[o].pc = "claimed" => pass'[o].tick \in claimed')
  BY <1>1, <1>2 DEF SchedulerInv, ReadIsTick
<1> QED
  BY <1>3, <1>4, <1>5, <1>6 DEF SchedulerInv

LEMMA ClaimTickStep ==
  ASSUME SchedulerInv, NEW s \in Passes, ClaimTick(s)
  PROVE  SchedulerInv'
<1>0. /\ nextRunAt \in Nat /\ pass \in [Passes -> Pass] /\ claimed \subseteq Nat
      /\ pass[s].pc = "found" /\ pass[s] \in Pass
      /\ UNCHANGED <<now, running, jobs, lost, crashes>>
  BY DEF SchedulerInv, SchedulerTypeOK, ClaimTick
<1>1. CASE ~Claimable(s)
  <2>1. pass' = [pass EXCEPT ![s] = IdlePass] /\ UNCHANGED <<nextRunAt, claimed>>
    BY <1>1 DEF ClaimTick
  <2> QED
    BY <1>0, <2>1, PassEnds DEF SchedulerInv, SchedulerTypeOK
<1>2. CASE Claimable(s)
  <2>1. PICK tick, at : tick = pass[s].tick /\ at = pass[s].at
    OBVIOUS
  <2>2. tick \in Nat /\ at \in Nat /\ Interval \in Nat \ {0}
    BY <1>0, <2>1, SchedulerAssumption DEF Pass
  <2>3. /\ nextRunAt' = Larger(at + Interval, tick + Interval) /\ claimed' = claimed \cup {tick}
        /\ pass' = [pass EXCEPT ![s].pc = "claimed"]
    BY <1>2, <2>1 DEF ClaimTick
  <2>4. nextRunAt' \in Nat /\ nextRunAt' >= tick + Interval
    BY <2>2, <2>3 DEF Larger
  \* The tick is an interval past those claimed before: nextRunAt has not moved, and
  \* is not null once a tick was claimed.
  <2>5. \A t \in claimed : tick >= t + Interval
    <3>1. nextRunAt = pass[s].read /\ ReadIsTick(s) /\ NextIsLater
      BY <1>2 DEF Claimable, SchedulerInv
    <3>2. ASSUME NEW t \in claimed PROVE tick >= t + Interval
      <4>1. t \in Nat /\ nextRunAt >= t + Interval
        BY <1>0, <3>1 DEF NextIsLater
      <4>2. nextRunAt # NoTime
        BY <1>0, <2>2, <4>1 DEF NoTime
      <4>3. tick = nextRunAt
        BY <1>0, <2>1, <3>1, <4>2 DEF ReadIsTick
      <4> QED BY <4>1, <4>3
    <3> QED BY <3>2
  <2> DEFINE next == [pass[s] EXCEPT !.pc = "claimed"]
  <2>6. next \in Pass /\ next.pc = "claimed" /\ next.tick = tick
    BY <1>0, <2>1 DEF Pass
  <2>7. pass' = [pass EXCEPT ![s] = next]
    BY <2>3
  <2> HIDE DEF next
  <2>8. /\ pass' \in [Passes -> Pass]
        /\ \A o \in Passes : pass'[o] = IF o = s THEN next ELSE pass[o]
    BY <1>0, <2>6, <2>7
  <2>9. SchedulerTypeOK'
    BY <1>0, <2>2, <2>3, <2>4, <2>8 DEF SchedulerInv, SchedulerTypeOK
  <2>10. TicksAreSpaced'
    <3>1. \A t, u \in claimed : t < u => u - t >= Interval
      BY DEF SchedulerInv, TicksAreSpaced
    <3>2. \A t \in claimed : t < tick /\ tick - t >= Interval
      BY <1>0, <2>2, <2>5
    <3> QED BY <1>0, <2>2, <2>3, <3>1, <3>2 DEF TicksAreSpaced
  <2>11. NextIsLater'
    <3>1. \A t \in claimed : nextRunAt' >= t + Interval
      BY <1>0, <2>2, <2>4, <2>5
    <3> QED BY <2>3, <2>4, <3>1 DEF NextIsLater
  <2>12. ClaimedTicksAreKept'
    <3>1. ASSUME NEW t \in claimed PROVE TickIsKept(t)'
      <4>1. TickIsKept(t)
        BY DEF SchedulerInv, ClaimedTicksAreKept
      <4> QED BY <1>0, <2>8, <4>1 DEF TickIsKept
    <3>2. TickIsKept(tick)'
      BY <2>6, <2>8 DEF TickIsKept
    <3> QED BY <2>3, <3>1, <3>2 DEF ClaimedTicksAreKept
  <2>13. \A o \in Passes : ReadIsTick(o)' /\ (pass'[o].pc = "claimed" => pass'[o].tick \in claimed')
    <3>0. claimed \subseteq claimed' /\ tick \in claimed'
      BY <2>3
    <3>1. ASSUME NEW o \in Passes, o # s
          PROVE  ReadIsTick(o)' /\ (pass'[o].pc = "claimed" => pass'[o].tick \in claimed')
      <4>1. pass'[o] = pass[o]
        BY <2>8, <3>1
      <4>2. ReadIsTick(o) /\ (pass[o].pc = "claimed" => pass[o].tick \in claimed)
        BY DEF SchedulerInv
      <4> QED BY <3>0, <4>1, <4>2 DEF ReadIsTick
    <3>2. pass'[s].pc = "claimed" /\ pass'[s].tick \in claimed'
      BY <2>6, <2>8, <3>0
    <3> QED BY <3>1, <3>2 DEF ReadIsTick
  <2> QED BY <2>9, <2>10, <2>11, <2>12, <2>13 DEF SchedulerInv
<1> QED
  BY <1>1, <1>2

LEMMA SchedulerInvHolds == SchedulerSpec => []SchedulerInv
<1>1. SchedulerInit => SchedulerInv
  <2> SUFFICES ASSUME SchedulerInit PROVE SchedulerInv
    OBVIOUS
  <2>1. IdlePass \in Pass /\ IdlePass.pc = "idle"
    BY SchedulerAssumption DEF IdlePass, Pass, NoTime
  <2>2. pass \in [Passes -> Pass] /\ \A s \in Passes : pass[s].pc = "idle"
    BY <2>1 DEF SchedulerInit
  <2> QED
    BY <2>2, SchedulerAssumption
    DEF SchedulerInit, SchedulerInv, SchedulerTypeOK, TicksAreSpaced, NextIsLater,
        ClaimedTicksAreKept, ReadIsTick, NoTime
<1>2. SchedulerInv /\ [SchedulerNext]_schedulerVars => SchedulerInv'
  <2> SUFFICES ASSUME SchedulerInv, [SchedulerNext]_schedulerVars PROVE SchedulerInv'
    OBVIOUS
  <2>1. ASSUME UNCHANGED <<nextRunAt, pass, claimed, lost, crashes>>, jobs \subseteq jobs',
               jobs' \subseteq Nat \cup Keys, now' \in 1 .. MaxTime, running' \in BOOLEAN
        PROVE  SchedulerInv'
    <3>1. SchedulerTypeOK'
      BY <2>1 DEF SchedulerInv, SchedulerTypeOK
    <3>2. ClaimedTicksAreKept'
      BY <2>1 DEF SchedulerInv, ClaimedTicksAreKept, TickIsKept
    <3> QED
      BY <2>1, <3>1, <3>2 DEF SchedulerInv, TicksAreSpaced, NextIsLater, ReadIsTick
  <2>2. /\ now \in 1 .. MaxTime /\ running \in BOOLEAN /\ jobs \subseteq Nat \cup Keys
        /\ lost \subseteq claimed /\ crashes \in 0 .. MaxCrashes
        /\ \A s \in Passes : pass[s] \in Pass
    BY DEF SchedulerInv, SchedulerTypeOK
  <2>3. CASE UNCHANGED schedulerVars
    BY <2>1, <2>2, <2>3 DEF schedulerVars, botVars, ticks
  <2>4. CASE Tick
    BY <2>1, <2>2, <2>4, SchedulerAssumption DEF Tick, botVars, ticks
  <2>5. CASE Pause
    BY <2>1, <2>2, <2>5 DEF Pause, ticks
  <2>6. ASSUME NEW k \in Keys, RunNow(k) PROVE SchedulerInv'
    BY <2>1, <2>2, <2>6 DEF RunNow, botVars
  <2>7. ASSUME NEW s \in Passes, Enqueue(s) PROVE SchedulerInv'
    <3>1. pass[s].tick \in Nat
      BY <2>2 DEF Pass
    <3> QED
      BY <2>2, <2>7, <3>1, PassEnds DEF Enqueue, JobId, botVars
  <2>8. ASSUME NEW s \in Passes, Crash(s) PROVE SchedulerInv'
    <3>1. crashes' \in 0 .. MaxCrashes
      BY <2>2, <2>8, SchedulerAssumption DEF Crash
    <3>2. /\ lost \subseteq lost' /\ lost' \subseteq claimed
          /\ pass[s].pc = "claimed" => pass[s].tick \in lost'
      BY <2>2, <2>8 DEF Crash, SchedulerInv
    <3> QED
      BY <2>2, <2>8, <3>1, <3>2, PassEnds DEF Crash, botVars
  <2> QED
    BY <2>3, <2>4, <2>5, <2>6, <2>7, <2>8, FindStep, ClaimTickStep DEF SchedulerNext, Work
<1> QED
  BY <1>1, <1>2, PTL DEF SchedulerSpec

\* The ticks that passes of the scheduler claim are an interval apart, however many
\* passes overlap and whichever is late: the safety part of ScheduleIsKept
\* (paper-scheduler.ts, the conditional update of nextRunAt).
THEOREM TicksSpaced == SchedulerSpec => []TicksAreSpaced
BY SchedulerInvHolds, PTL DEF SchedulerInv

\* A tick that was claimed is in the queue, or its pass died before it could queue
\* it, or still holds it: no tick is lost but by a crash.
THEOREM TicksKept == SchedulerSpec => []ClaimedTicksAreKept
BY SchedulerInvHolds, PTL DEF SchedulerInv

-----------------------------------------------------------------------------
(* Fills of external orders (PaperFills). *)

\* A worker's job, while it is the only one: what it read is still what is stored.
OrderCounts(o) ==
  /\ tradeRows[o] \subseteq Fills /\ IsFiniteSet(tradeRows[o])
  /\ orderRow[o].filled = Cardinality(tradeRows[o]) /\ orderRow[o].filled =< Requested
FillIsCurrent(job) ==
  job.pc = "filling" =>
    /\ job.order \in PaperOrders /\ job.fill \in Fills
    /\ job.filled = orderRow[job.order].filled /\ job.filled + 1 =< Requested
CompareIsCurrent(job) ==
  /\ job.pc = "reading" => job.rows = orderRow
  /\ job.pc = "flagging" => job.todo = {}
AloneAndCurrent ==
  /\ \A o \in PaperOrders : OrderCounts(o)
  /\ ~blocked
  /\ \A v, w \in Workers : work[v].pc # "idle" /\ work[w].pc # "idle" => v = w
  /\ \A w \in Workers : FillIsCurrent(work[w]) /\ CompareIsCurrent(work[w])

FillsInv ==
  /\ DOMAIN orderRow = PaperOrders /\ DOMAIN tradeRows = PaperOrders /\ DOMAIN work = Workers
  /\ overlapped \in BOOLEAN
  /\ ~overlapped => AloneAndCurrent

LEMMA CountsAreNat ==
  ASSUME NEW o, OrderCounts(o)
  PROVE  orderRow[o].filled \in Nat
BY FS_CardinalityType DEF OrderCounts

\* A worker takes up a job that reads what is stored.
LEMMA BeginStep ==
  ASSUME FillsInv, NEW w \in Workers, NEW job, Begin(w, job), UNCHANGED books,
         ~overlapped => FillIsCurrent(job) /\ CompareIsCurrent(job)
  PROVE  FillsInv'
<1>1. /\ DOMAIN work' = Workers
      /\ \A v \in Workers : work'[v] = IF v = w THEN job ELSE work[v]
      /\ UNCHANGED <<orderRow, tradeRows, blocked>>
  BY DEF Begin, FillsInv, books
<1>2. overlapped' \in BOOLEAN
  BY DEF Begin, FillsInv
<1>3. ASSUME ~overlapped' PROVE AloneAndCurrent'
  <2>1. ~overlapped /\ \A v \in Workers : work[v].pc = "idle"
    BY <1>3 DEF Begin
  <2>2. AloneAndCurrent
    BY <2>1 DEF FillsInv
  <2>3. \A v, u \in Workers : work'[v].pc # "idle" /\ work'[u].pc # "idle" => v = u
    BY <1>1, <2>1
  <2>4. \A v \in Workers : FillIsCurrent(work[v])' /\ CompareIsCurrent(work[v])'
    BY <1>1, <2>1, <2>2 DEF AloneAndCurrent, FillIsCurrent, CompareIsCurrent
  <2>5. \A o \in PaperOrders : OrderCounts(o)'
    BY <1>1, <2>2 DEF AloneAndCurrent, OrderCounts
  <2> QED BY <1>1, <2>2, <2>3, <2>4, <2>5 DEF AloneAndCurrent
<1> QED
  BY <1>1, <1>2, <1>3 DEF FillsInv

\* A worker goes on to a job that needs nothing, or ends.
LEMMA WorkerMoves ==
  ASSUME FillsInv, NEW w \in Workers, NEW job, work' = [work EXCEPT ![w] = job],
         work[w].pc # "idle", UNCHANGED <<orderRow, tradeRows, blocked, overlapped>>,
         job.pc \in {"idle", "flagging"},
         ~overlapped /\ job.pc = "flagging" => job.todo = {}
  PROVE  FillsInv'
<1>1. /\ DOMAIN work' = Workers
      /\ \A v \in Workers : work'[v] = IF v = w THEN job ELSE work[v]
  BY DEF FillsInv
<1>2. ASSUME ~overlapped PROVE AloneAndCurrent'
  <2>1. AloneAndCurrent
    BY <1>2 DEF FillsInv
  <2>2. \A v, u \in Workers : work'[v].pc # "idle" /\ work'[u].pc # "idle" => v = u
    BY <1>1, <2>1 DEF AloneAndCurrent
  <2>3. \A v \in Workers : FillIsCurrent(work[v])' /\ CompareIsCurrent(work[v])'
    BY <1>1, <1>2, <2>1 DEF AloneAndCurrent, FillIsCurrent, CompareIsCurrent
  <2>4. \A o \in PaperOrders : OrderCounts(o)'
    BY <2>1 DEF AloneAndCurrent, OrderCounts
  <2> QED BY <2>1, <2>2, <2>3, <2>4 DEF AloneAndCurrent
<1> QED
  BY <1>1, <1>2 DEF FillsInv

LEMMA StoreStep ==
  ASSUME FillsInv, NEW w \in Workers, StoreFill(w)
  PROVE  FillsInv'
<1>0. PICK o, f, n : o = work[w].order /\ f = work[w].fill /\ n = work[w].filled + 1
  OBVIOUS
<1>1. /\ work[w].pc = "filling" /\ work' = [work EXCEPT ![w] = FreeWorker]
      /\ UNCHANGED <<blocked, overlapped>> /\ FreeWorker.pc = "idle"
  BY DEF StoreFill, Finish, FreeWorker
<1>2. CASE ~(Affordable(o) /\ ~Known(o, f))
  <2>1. UNCHANGED <<orderRow, tradeRows>>
    BY <1>0, <1>2 DEF StoreFill
  <2> QED BY <1>1, <2>1, WorkerMoves
<1>3. CASE Affordable(o) /\ ~Known(o, f)
  <2>1. /\ tradeRows' = [tradeRows EXCEPT ![o] = @ \cup {f}]
        /\ orderRow' = [orderRow EXCEPT ![o] = FillOf(o, n)]
    BY <1>0, <1>3 DEF StoreFill
  <2>2. f \notin tradeRows[o]
    BY <1>3 DEF Known
  <2>3. FillOf(o, n).filled = n
    BY DEF FillOf
  <2>4. /\ DOMAIN work' = Workers /\ DOMAIN orderRow' = PaperOrders /\ DOMAIN tradeRows' = PaperOrders
        /\ \A v \in Workers : work'[v] = IF v = w THEN FreeWorker ELSE work[v]
    BY <1>1, <2>1 DEF FillsInv
  <2>5. ASSUME ~overlapped PROVE AloneAndCurrent'
    <3>1. AloneAndCurrent
      BY <2>5 DEF FillsInv
    <3>2. /\ o \in PaperOrders /\ f \in Fills /\ work[w].filled = orderRow[o].filled
          /\ n =< Requested
      BY <1>0, <1>1, <3>1 DEF AloneAndCurrent, FillIsCurrent
    <3>3. OrderCounts(o) /\ orderRow[o].filled \in Nat
      BY <3>1, <3>2, CountsAreNat DEF AloneAndCurrent
    <3>4. /\ IsFiniteSet(tradeRows[o] \cup {f})
          /\ Cardinality(tradeRows[o] \cup {f}) = Cardinality(tradeRows[o]) + 1
      BY <2>2, <3>3, FS_AddElement DEF OrderCounts
    <3>5. Cardinality(tradeRows[o] \cup {f}) = n
      BY <1>0, <3>2, <3>3, <3>4 DEF OrderCounts
    <3>6. tradeRows'[o] = tradeRows[o] \cup {f} /\ orderRow'[o].filled = n
      <4>1. o \in DOMAIN tradeRows /\ o \in DOMAIN orderRow
        BY <3>2 DEF FillsInv
      <4>2. tradeRows'[o] = tradeRows[o] \cup {f}
        BY <2>1, <4>1
      <4>3. orderRow'[o] = FillOf(o, n)
        BY <2>1, <4>1
      <4> QED BY <2>3, <4>2, <4>3
    <3>7. OrderCounts(o)'
      BY <3>2, <3>3, <3>4, <3>5, <3>6 DEF OrderCounts
    <3>8. ASSUME NEW p \in PaperOrders, p # o PROVE OrderCounts(p)'
      <4>1. tradeRows'[p] = tradeRows[p] /\ orderRow'[p] = orderRow[p]
        BY <2>1, <3>8 DEF FillsInv
      <4> QED BY <3>1, <4>1 DEF AloneAndCurrent, OrderCounts
    <3>9. \A v \in Workers : work'[v].pc = "idle"
      BY <1>1, <2>4, <3>1 DEF AloneAndCurrent
    <3>10. ~blocked' /\ \A p \in PaperOrders : OrderCounts(p)'
      BY <1>1, <3>1, <3>7, <3>8 DEF AloneAndCurrent
    <3>11. \A v \in Workers : FillIsCurrent(work[v])' /\ CompareIsCurrent(work[v])'
      BY <3>9 DEF FillIsCurrent, CompareIsCurrent
    <3> QED
      BY <3>9, <3>10, <3>11 DEF AloneAndCurrent
  <2> QED BY <1>1, <2>4, <2>5 DEF FillsInv
<1> QED
  BY <1>2, <1>3

LEMMA CompareStep ==
  ASSUME FillsInv, NEW w \in Workers, Compare(w)
  PROVE  FillsInv'
<1>1. ASSUME StartCompare(w) PROVE FillsInv'
  <2> DEFINE job == [pc |-> "reading", rows |-> orderRow]
  <2>1. FillIsCurrent(job) /\ CompareIsCurrent(job)
    BY DEF FillIsCurrent, CompareIsCurrent
  <2> QED BY <1>1, <2>1, BeginStep DEF StartCompare
<1>2. ASSUME ReadTrades(w) PROVE FillsInv'
  <2> DEFINE job == [pc |-> "flagging", todo |-> Compared(work[w].rows)]
  <2>1. work[w].pc = "reading" /\ work' = [work EXCEPT ![w] = job]
        /\ UNCHANGED <<orderRow, tradeRows, blocked, overlapped>>
    BY <1>2 DEF ReadTrades, books
  <2>2. ~overlapped => job.todo = {}
    <3>1. SUFFICES ASSUME ~overlapped PROVE Compared(work[w].rows) = {}
      OBVIOUS
    <3>2. work[w].rows = orderRow /\ \A o \in PaperOrders : OrderCounts(o)
      BY <2>1, <3>1 DEF FillsInv, AloneAndCurrent, CompareIsCurrent
    <3> QED BY <3>2 DEF Compared, Divergent, OrderCounts
  <2>3. job.pc = "flagging"
    OBVIOUS
  <2> HIDE DEF job
  <2> QED BY <2>1, <2>2, <2>3, WorkerMoves
<1>3. ASSUME Flag(w) PROVE FillsInv'
  <2>1. PICK o \in work[w].todo :
          /\ orderRow' = [orderRow EXCEPT ![o].status = "UNKNOWN"]
          /\ work' = [work EXCEPT ![w].todo = @ \ {o}]
    BY <1>3 DEF Flag
  <2>2. work[w].pc = "flagging" /\ UNCHANGED <<tradeRows, overlapped>>
    BY <1>3 DEF Flag
  <2>3. overlapped
    BY <2>1, <2>2 DEF FillsInv, AloneAndCurrent, CompareIsCurrent
  <2> QED BY <2>1, <2>2, <2>3 DEF FillsInv
<1>4. ASSUME EndCompare(w) PROVE FillsInv'
  BY <1>4, WorkerMoves DEF EndCompare, Finish, FreeWorker, books
<1> QED
  BY <1>1, <1>2, <1>3, <1>4 DEF Compare

LEMMA FillsInvHolds == FillsSpec => []FillsInv
<1>1. FillsInit => FillsInv
  <2> SUFFICES ASSUME FillsInit PROVE FillsInv
    OBVIOUS
  <2>1. \A w \in Workers : work[w].pc = "idle"
    BY DEF FillsInit, FreeWorker
  <2>2. IsFiniteSet({}) /\ Cardinality({}) = 0
    BY FS_EmptySet
  <2>3. \A o \in PaperOrders : OrderCounts(o)
    BY <2>2, FillsAssumption DEF FillsInit, OrderCounts
  <2> QED
    BY <2>1, <2>3 DEF FillsInit, FillsInv, AloneAndCurrent, FillIsCurrent, CompareIsCurrent
<1>2. FillsInv /\ [FillsNext]_fillVars => FillsInv'
  <2> SUFFICES ASSUME FillsInv, [FillsNext]_fillVars PROVE FillsInv'
    OBVIOUS
  <2>1. CASE UNCHANGED fillVars
    BY <2>1
    DEF fillVars, books, FillsInv, AloneAndCurrent, OrderCounts, FillIsCurrent, CompareIsCurrent
  <2>2. ASSUME NEW w \in Workers, FailJob(w) PROVE FillsInv'
    BY <2>2, WorkerMoves DEF FailJob, Finish, FreeWorker, books
  <2>3. ASSUME NEW w \in Workers, NEW o \in PaperOrders, NEW f \in Fills, ReadOrder(w, o, f)
        PROVE  FillsInv'
    <3> DEFINE job == [pc |-> "filling", order |-> o, fill |-> f, filled |-> orderRow[o].filled]
    <3>1. ASSUME ~overlapped PROVE FillIsCurrent(job)
      <4>1. OrderCounts(o) /\ orderRow[o].filled \in Nat
        BY <3>1, CountsAreNat DEF FillsInv, AloneAndCurrent
      <4>2. ~(orderRow[o].filled + 1 > Requested)
        BY <2>3 DEF ReadOrder, Refused
      <4>3. orderRow[o].filled + 1 =< Requested
        BY <4>1, <4>2, FillsAssumption
      <4> QED BY <4>3 DEF FillIsCurrent
    <3>2. CompareIsCurrent(job)
      BY DEF CompareIsCurrent
    <3>3. Begin(w, job) /\ UNCHANGED books
      BY <2>3 DEF ReadOrder
    <3> HIDE DEF job
    <3> QED BY <3>1, <3>2, <3>3, BeginStep
  <2>4. ASSUME Unblock PROVE FillsInv'
    BY <2>4
    DEF Unblock, FillsInv, AloneAndCurrent, OrderCounts, FillIsCurrent, CompareIsCurrent
  <2> QED
    BY <2>1, <2>2, <2>3, <2>4, StoreStep, CompareStep DEF FillsNext
<1> QED
  BY <1>1, <1>2, PTL DEF FillsSpec

\* While no two jobs about the orders have run at once, every order is filled as
\* its trades say and the bot is not blocked: for any orders, fills and number of
\* workers (paper-fills.ts, reconciliation.ts).
THEOREM OverlapsDiverge == FillsSpec => []OnlyOverlapsDiverge
<1>1. FillsInv => OnlyOverlapsDiverge
  BY DEF FillsInv, AloneAndCurrent, OrderCounts, OnlyOverlapsDiverge
<1> QED
  BY <1>1, FillsInvHolds, PTL

-----------------------------------------------------------------------------
(* The in-memory job runtime (JobRuntime). *)

\* A handler whose id's handlers have all kept within their locks: it holds the
\* lock, and both run out together.
HoldsItsLock(s) ==
  ~Free(s) /\ handling[s].id \notin outlived =>
    /\ locks[handling[s].id] = handling[s].left /\ handling[s].left > 0

JobTyped(job) ==
  {"id", "attempts"} \subseteq DOMAIN job /\ job.id \in JobIds /\ job.attempts \in Nat
QueueTyped == \E S : queue \in Seq(S) /\ \A job \in S : JobTyped(job)

RuntimeInv ==
  /\ QueueTyped /\ locks \in [JobIds -> Nat] /\ DOMAIN handling = Slots
  /\ \A s \in Slots : ~Free(s) => handling[s] \in [id : JobIds, attempts : Nat, left : Nat]
  /\ \A s \in Slots : HoldsItsLock(s)
  /\ OverlapsOutliveTheLock

LEMMA QueueIds ==
  ASSUME QueueTyped, NEW k \in DOMAIN queue
  PROVE  queue[k].id \in JobIds /\ queue[k].attempts \in Nat
BY DEF QueueTyped, JobTyped

\* A handler ends: its lock is deleted, whoever set it.
LEMMA LeaveKeeps ==
  ASSUME RuntimeInv, NEW s \in Slots, ~Free(s), Leave(s), QueueTyped', UNCHANGED outlived
  PROVE  RuntimeInv'
<1> DEFINE i == handling[s].id
<1>1. /\ i \in JobIds /\ locks \in [JobIds -> Nat] /\ DOMAIN handling = Slots
      /\ NoJob.id = "none"
  BY DEF RuntimeInv, NoJob
<1>2. /\ locks' = [locks EXCEPT ![i] = 0] /\ handling' = [handling EXCEPT ![s] = NoJob]
  BY DEF Leave
<1>3. \A t \in Slots : Free(t)' <=> t = s \/ Free(t)
  BY <1>1, <1>2 DEF Free
<1>4. \A t \in Slots : t # s => handling'[t] = handling[t]
  BY <1>2
<1>5. locks' \in [JobIds -> Nat] /\ \A j \in JobIds : j # i => locks'[j] = locks[j]
  BY <1>1, <1>2
<1>6. ASSUME NEW t \in Slots PROVE HoldsItsLock(t)'
  <2>1. SUFFICES ASSUME t # s, ~Free(t), handling[t].id \notin outlived
                 PROVE  /\ locks'[handling[t].id] = handling[t].left /\ handling[t].left > 0
    BY <1>3, <1>4 DEF HoldsItsLock
  <2>2. handling[t].id # i
    BY <2>1 DEF RuntimeInv, OverlapsOutliveTheLock
  <2>3. handling[t].id \in JobIds
    BY <2>1 DEF RuntimeInv
  <2> QED BY <1>5, <2>1, <2>2, <2>3 DEF RuntimeInv, HoldsItsLock
<1>7. OverlapsOutliveTheLock'
  BY <1>3, <1>4 DEF RuntimeInv, OverlapsOutliveTheLock
<1>8. DOMAIN handling' = Slots
  BY <1>1, <1>2
<1>9. \A t \in Slots : ~Free(t)' => handling'[t] \in [id : JobIds, attempts : Nat, left : Nat]
  BY <1>3, <1>4 DEF RuntimeInv
<1> QED
  BY <1>5, <1>6, <1>7, <1>8, <1>9 DEF RuntimeInv

LEMMA RunNextStep ==
  ASSUME RuntimeInv, NEW s \in Slots, RunNext(s)
  PROVE  RuntimeInv'
<1>1. PICK k \in DOMAIN queue :
        /\ Eligible(k) /\ queue' = RemoveAt(queue, k)
        /\ locks' = [locks EXCEPT ![queue[k].id] = LockTtl]
        /\ handling' = [handling EXCEPT ![s] =
             [id |-> queue[k].id, attempts |-> queue[k].attempts, left |-> LockTtl]]
  BY DEF RunNext
<1>2. PICK S : queue \in Seq(S) /\ \A job \in S : JobTyped(job)
  BY DEF RuntimeInv, QueueTyped
<1>3. QueueTyped'
  <2>1. k \in 1 .. Len(queue)
    BY <1>2
  <2>2. queue' \in Seq(S)
    BY <1>1, <1>2, <2>1 DEF RemoveAt
  <2> QED BY <1>2, <2>2 DEF QueueTyped
<1> DEFINE i == queue[k].id
           job == [id |-> i, attempts |-> queue[k].attempts, left |-> LockTtl]
<1>4. /\ i \in JobIds /\ job \in [id : JobIds, attempts : Nat, left : Nat]
      /\ job.id = i /\ job.left = LockTtl
  BY QueueIds, RuntimeAssumption DEF RuntimeInv
<1>5. /\ locks' = [locks EXCEPT ![i] = LockTtl] /\ handling' = [handling EXCEPT ![s] = job]
      /\ locks[i] = 0 /\ UNCHANGED outlived
  BY <1>1 DEF Eligible, RunNext
<1> HIDE DEF i, job
<1>6. /\ DOMAIN handling' = Slots
      /\ \A t \in Slots : handling'[t] = IF t = s THEN job ELSE handling[t]
      /\ locks' \in [JobIds -> Nat] /\ locks \in [JobIds -> Nat]
      /\ \A j \in JobIds : locks'[j] = IF j = i THEN LockTtl ELSE locks[j]
  BY <1>4, <1>5, RuntimeAssumption DEF RuntimeInv
\* Nobody holds the lock, so whoever handles the same id has outlived it.
<1>7. ASSUME NEW t \in Slots, t # s, ~Free(t), handling[t].id = i
      PROVE  i \in outlived
  BY <1>5, <1>7 DEF RuntimeInv, HoldsItsLock
<1>8. ASSUME NEW t \in Slots PROVE HoldsItsLock(t)'
  <2>1. CASE t = s
    <3>1. handling'[t].id = i /\ handling'[t].left = LockTtl /\ locks'[i] = LockTtl /\ LockTtl > 0
      BY <1>4, <1>6, <2>1, RuntimeAssumption
    <3> QED BY <3>1 DEF HoldsItsLock
  <2>2. CASE t # s
    <3>1. handling'[t] = handling[t]
      BY <1>6, <2>2
    <3>2. SUFFICES ASSUME ~Free(t), handling[t].id \notin outlived
                   PROVE  /\ locks'[handling[t].id] = handling[t].left /\ handling[t].left > 0
      BY <1>5, <3>1 DEF HoldsItsLock, Free
    <3>3. handling[t].id # i /\ handling[t].id \in JobIds
      BY <1>7, <2>2, <3>2 DEF RuntimeInv
    <3> QED BY <1>6, <3>2, <3>3 DEF RuntimeInv, HoldsItsLock
  <2> QED BY <2>1, <2>2
<1>9. OverlapsOutliveTheLock'
  <2>1. ASSUME NEW t \in Slots, NEW u \in Slots, t # u, ~Free(t)', ~Free(u)',
               handling'[t].id = handling'[u].id
        PROVE  handling'[t].id \in outlived
    <3>1. CASE t # s /\ u # s
      <4>1. ~Free(t) /\ ~Free(u) /\ handling'[t] = handling[t] /\ handling'[u] = handling[u]
        BY <1>6, <2>1, <3>1 DEF Free
      <4> QED BY <2>1, <4>1 DEF RuntimeInv, OverlapsOutliveTheLock
    <3>2. CASE t = s
      <4>1. ~Free(u) /\ handling[u].id = i /\ handling'[t].id = i
        BY <1>4, <1>6, <2>1, <3>2 DEF Free
      <4> QED BY <1>7, <2>1, <3>2, <4>1
    <3>3. CASE u = s
      <4>1. ~Free(t) /\ handling[t].id = i /\ handling'[t].id = i
        BY <1>4, <1>6, <2>1, <3>3 DEF Free
      <4> QED BY <1>7, <2>1, <3>3, <4>1
    <3> QED BY <3>1, <3>2, <3>3
  <2> QED BY <1>5, <2>1 DEF OverlapsOutliveTheLock
<1>10. \A t \in Slots : ~Free(t)' => handling'[t] \in [id : JobIds, attempts : Nat, left : Nat]
  BY <1>4, <1>6 DEF RuntimeInv, Free
<1> QED
  BY <1>3, <1>6, <1>8, <1>9, <1>10 DEF RuntimeInv

LEMMA JobFailStep ==
  ASSUME RuntimeInv, NEW s \in Slots, Fail(s)
  PROVE  RuntimeInv'
<1> DEFINE job == Attempted(handling[s])
<1>1. /\ ~Free(s) /\ Leave(s) /\ UNCHANGED outlived
      /\ queue' = Append(queue, job) \/ queue' = queue
  BY DEF Fail
<1>2. handling[s].id \in JobIds /\ handling[s].attempts \in Nat
  BY <1>1 DEF RuntimeInv
<1>3. JobTyped(job)
  BY <1>2 DEF Attempted, JobTyped
<1> HIDE DEF job
<1>4. PICK S : queue \in Seq(S) /\ \A j \in S : JobTyped(j)
  BY DEF RuntimeInv, QueueTyped
<1> DEFINE T == S \cup {job}
<1>5. queue \in Seq(T) /\ job \in T
  BY <1>4
<1>6. Append(queue, job) \in Seq(T)
  <2> HIDE DEF T
  <2> QED BY <1>5
<1>7. \A j \in T : JobTyped(j)
  BY <1>3, <1>4
<1>8. QueueTyped'
  <2> HIDE DEF T
  <2> QED BY <1>1, <1>5, <1>6, <1>7 DEF QueueTyped
<1> QED
  BY <1>1, <1>8, LeaveKeeps

LEMMA EnqueueStep ==
  ASSUME RuntimeInv, NEW i \in JobIds, NEW delay, EnqueueJob(i, delay)
  PROVE  RuntimeInv'
<1> DEFINE job == [id |-> i, attempts |-> 0, wait |-> delay]
<1>1. queue' = Append(queue, job) /\ UNCHANGED <<locks, handling, outlived>>
  BY DEF EnqueueJob
<1>2. JobTyped(job)
  BY DEF JobTyped
<1> HIDE DEF job
<1>4. PICK S : queue \in Seq(S) /\ \A j \in S : JobTyped(j)
  BY DEF RuntimeInv, QueueTyped
<1> DEFINE T == S \cup {job}
<1>5. queue \in Seq(T) /\ job \in T
  BY <1>4
<1>6. Append(queue, job) \in Seq(T)
  <2> HIDE DEF T
  <2> QED BY <1>5
<1>7. \A j \in T : JobTyped(j)
  BY <1>2, <1>4
<1>8. QueueTyped'
  <2> HIDE DEF T
  <2> QED BY <1>1, <1>6, <1>7 DEF QueueTyped
<1> QED
  BY <1>1, <1>8 DEF RuntimeInv, HoldsItsLock, Free, OverlapsOutliveTheLock

LEMMA RuntimeTimeStep ==
  ASSUME RuntimeInv, TimePasses
  PROVE  RuntimeInv'
<1>1. /\ queue' = [k \in DOMAIN queue |-> [queue[k] EXCEPT !.wait = Earlier(@)]]
      /\ locks' = [i \in JobIds |-> Earlier(locks[i])]
      /\ handling' = [s \in Slots |->
           IF Free(s) THEN NoJob ELSE [handling[s] EXCEPT !.left = Earlier(@)]]
      /\ outlived' = outlived \cup
           {handling'[s].id : s \in {t \in Slots : ~Free(t) /\ handling'[t].left = 0}}
  BY DEF TimePasses
<1>2. PICK S : queue \in Seq(S) /\ \A job \in S : JobTyped(job)
  BY DEF RuntimeInv, QueueTyped
<1>3. QueueTyped'
  <2> DEFINE T == {[job EXCEPT !.wait = Earlier(@)] : job \in S}
  <2>1. \A job \in T : JobTyped(job)
    BY <1>2 DEF JobTyped
  <2>2. /\ DOMAIN queue = 1 .. Len(queue) /\ Len(queue) \in Nat
        /\ \A k \in DOMAIN queue : queue[k] \in S
    BY <1>2
  <2>3. \A k \in DOMAIN queue : [queue[k] EXCEPT !.wait = Earlier(@)] \in T
    BY <2>2
  <2>4. queue' \in [1 .. Len(queue) -> T]
    <3> HIDE DEF T
    <3> QED BY <1>1, <2>2, <2>3
  <2>5. queue' \in Seq(T)
    <3> HIDE DEF T
    <3> QED BY <2>2, <2>4
  <2> HIDE DEF T
  <2> QED BY <2>1, <2>5 DEF QueueTyped
<1>4. \A n \in Nat : Earlier(n) \in Nat
  BY DEF Earlier
<1>5. ASSUME NEW s \in Slots, ~Free(s)
      PROVE  /\ handling'[s] \in [id : JobIds, attempts : Nat, left : Nat]
             /\ handling'[s].id = handling[s].id /\ handling'[s].left = Earlier(handling[s].left)
             /\ handling[s].id \in JobIds /\ handling[s].left \in Nat
  <2>1. handling[s] \in [id : JobIds, attempts : Nat, left : Nat]
    BY <1>5 DEF RuntimeInv
  <2>2. handling[s].id \in JobIds /\ handling[s].left \in Nat
    BY <2>1
  <2> DEFINE left == Earlier(handling[s].left)
  <2>3. left \in Nat
    BY <1>4, <2>2
  <2>4. handling'[s] = [handling[s] EXCEPT !.left = left]
    BY <1>1, <1>5
  <2> HIDE DEF left
  <2>5. handling'[s] \in [id : JobIds, attempts : Nat, left : Nat]
        /\ handling'[s].id = handling[s].id /\ handling'[s].left = left
    BY <2>1, <2>3, <2>4
  <2> QED BY <2>2, <2>5 DEF left
<1>6. \A s \in Slots : ~Free(s)' => ~Free(s)
  BY <1>1 DEF Free, NoJob
<1>7. locks' \in [JobIds -> Nat] /\ DOMAIN handling' = Slots
  BY <1>1, <1>4 DEF RuntimeInv
<1>8. ASSUME NEW s \in Slots PROVE HoldsItsLock(s)'
  <2>1. SUFFICES ASSUME ~Free(s), handling[s].id \notin outlived'
                 PROVE  /\ locks'[handling[s].id] = handling'[s].left /\ handling'[s].left > 0
    BY <1>5, <1>6 DEF HoldsItsLock
  <2>2. handling'[s].left # 0 /\ handling[s].id \notin outlived
    BY <1>1, <1>5, <2>1
  <2>3. locks[handling[s].id] = handling[s].left /\ handling[s].id \in JobIds
    BY <1>5, <2>1, <2>2 DEF RuntimeInv, HoldsItsLock
  <2>4. locks'[handling[s].id] = Earlier(handling[s].left)
    BY <1>1, <2>3
  <2> QED BY <1>4, <1>5, <2>1, <2>2, <2>4
<1>9. OverlapsOutliveTheLock'
  BY <1>1, <1>5, <1>6 DEF RuntimeInv, OverlapsOutliveTheLock
<1> QED
  BY <1>3, <1>5, <1>6, <1>7, <1>8, <1>9 DEF RuntimeInv

LEMMA RuntimeInvHolds == RuntimeSpec => []RuntimeInv
<1>1. RuntimeInit => RuntimeInv
  <2> SUFFICES ASSUME RuntimeInit PROVE RuntimeInv
    OBVIOUS
  <2>1. \A s \in Slots : Free(s)
    BY DEF RuntimeInit, Free, NoJob
  <2>2. queue \in Seq({})
    BY DEF RuntimeInit
  <2>3. QueueTyped
    BY <2>2 DEF QueueTyped
  <2> QED
    BY <2>1, <2>3 DEF RuntimeInit, RuntimeInv, HoldsItsLock, OverlapsOutliveTheLock
<1>2. RuntimeInv /\ [RuntimeNext]_runtimeVars => RuntimeInv'
  <2> SUFFICES ASSUME RuntimeInv, [RuntimeNext]_runtimeVars PROVE RuntimeInv'
    OBVIOUS
  <2>1. ASSUME UNCHANGED <<queue, locks, handling, outlived>> PROVE RuntimeInv'
    BY <2>1 DEF RuntimeInv, QueueTyped, HoldsItsLock, Free, OverlapsOutliveTheLock
  <2>2. ASSUME NEW s \in Slots, Complete(s) PROVE RuntimeInv'
    <3>1. ~Free(s) /\ Leave(s) /\ UNCHANGED <<queue, outlived>>
      BY <2>2 DEF Complete
    <3>2. QueueTyped'
      BY <3>1 DEF RuntimeInv, QueueTyped
    <3> QED BY <3>1, <3>2, LeaveKeeps
  <2> QED
    BY <2>1, <2>2, RunNextStep, JobFailStep, EnqueueStep, RuntimeTimeStep
    DEF RuntimeNext, RuntimeStep, Register, StartRuntime, StopRuntime, runtimeVars
<1> QED
  BY <1>1, <1>2, PTL DEF RuntimeSpec

\* Two handlers of one id run at once only after a handler of that id outlived its
\* lock, for any number of ids and handlers and any lifetime of a lock, although an
\* end deletes the lock whoever set it (worker-runtime runNext, withLock).
THEOREM OverlapsOutlive == RuntimeSpec => []OverlapsOutliveTheLock
BY RuntimeInvHolds, PTL DEF RuntimeInv

\* The types of the jobs, and the counters as what they count.
WaitingJob == [id : JobIds, attempts : 0 .. MaxAttempts - 1, wait : Waits]
HandledJob == [id : JobIds, attempts : 0 .. MaxAttempts - 1, left : 0 .. LockTtl]
Counters == [accepted : Nat, queued : Nat, active : Nat, completed : Nat, deadLettered : Nat]
Balanced(m) == m.accepted = m.completed + m.queued + m.deadLettered + m.active
Busy == {s \in Slots : ~Free(s)}

CountersInv ==
  /\ registered \in BOOLEAN /\ started \in BOOLEAN
  /\ queue \in Seq(WaitingJob) /\ deadLetters \in Seq(QueuedJob)
  /\ locks \in [JobIds -> 0 .. LockTtl]
  /\ DOMAIN handling = Slots
  /\ \A s \in Slots : Free(s) \/ handling[s] \in HandledJob
  /\ metrics \in Counters
  /\ metrics.queued = Len(queue) /\ metrics.deadLettered = Len(deadLetters)
  /\ metrics.active = Cardinality(Busy)
  /\ Balanced(metrics)
  /\ outlived \subseteq JobIds

LEMMA PowersOfTwo == ArePowers(2, TwoTo)
<1>1. TwoTo = CHOOSE f : f = [n \in Nat |-> IF n = 0 THEN 1 ELSE 2 * f[n - 1]]
  BY DEF TwoTo
<1> QED BY <1>1, PowersUnfold

LEMMA BackoffsFit ==
  /\ 0 .. MaxDelay \subseteq Waits
  /\ \A n \in 0 .. MaxAttempts : BaseBackoff * TwoTo[n] \in Waits
  /\ \A wait \in Waits : Earlier(wait) \in Waits
<1> DEFINE longest == BaseBackoff * TwoTo[MaxAttempts]
<1>1. MaxAttempts \in Nat /\ BaseBackoff \in Nat /\ MaxDelay \in Nat
  BY RuntimeAssumption
<1>2. \A n \in Nat : TwoTo[n] \in Nat
  BY PowersOfTwo DEF ArePowers
<1>3. ASSUME NEW n \in 0 .. MaxAttempts
      PROVE  BaseBackoff * TwoTo[n] \in Nat /\ BaseBackoff * TwoTo[n] =< longest
  <2>1. n \in Nat /\ n =< MaxAttempts
    BY <1>1
  <2>2. TwoTo[n] =< TwoTo[MaxAttempts]
    BY <1>1, <2>1, PowersOfTwo, PowersGrow
  <2>3. \A x, y, z \in Nat : y =< z => x * y \in Nat /\ x * y =< x * z
    OBVIOUS
  <2> QED BY <1>1, <1>2, <2>1, <2>2, <2>3
<1>4. longest \in Nat
  BY <1>1, <1>3
<1>5. Waits = 0 .. MaxDelay + longest
  BY DEF Waits
<1> HIDE DEF longest
<1>6. 0 .. MaxDelay \subseteq Waits
  BY <1>1, <1>4, <1>5
<1>7. \A x \in Nat : x =< longest => x \in Waits
  BY <1>1, <1>4, <1>5
<1>8. \A n \in 0 .. MaxAttempts : BaseBackoff * TwoTo[n] \in Waits
  BY <1>3, <1>7
<1>9. \A wait \in Waits : Earlier(wait) \in Waits
  BY <1>1, <1>4, <1>5 DEF Earlier
<1> QED BY <1>6, <1>8, <1>9

\* A handler that begins, and one that ends, counts once.
LEMMA BusyCounts ==
  ASSUME IsFiniteSet(Slots), NEW s \in Slots,
         \A t \in Slots \ {s} : Free(t)' <=> Free(t)
  PROVE  /\ IsFiniteSet(Busy) /\ Cardinality(Busy) \in Nat
         /\ Free(s) /\ ~Free(s)' => Cardinality(Busy') = Cardinality(Busy) + 1
         /\ ~Free(s) /\ Free(s)' => Cardinality(Busy) > 0 /\ Cardinality(Busy') = Cardinality(Busy) - 1
<1>1. IsFiniteSet(Busy) /\ Cardinality(Busy) \in Nat
  <2>1. Busy \subseteq Slots
    BY DEF Busy
  <2> QED BY <2>1, FS_Subset, FS_CardinalityType
<1>2. ASSUME Free(s), ~Free(s)' PROVE Cardinality(Busy') = Cardinality(Busy) + 1
  <2>1. Busy' = Busy \cup {s} /\ s \notin Busy
    BY <1>2 DEF Busy
  <2> QED BY <1>1, <2>1, FS_AddElement
<1>3. ASSUME ~Free(s), Free(s)' PROVE Cardinality(Busy) > 0 /\ Cardinality(Busy') = Cardinality(Busy) - 1
  <2>1. Busy' = Busy \ {s} /\ s \in Busy
    BY <1>3 DEF Busy
  <2>2. Cardinality(Busy) # 0
    BY <1>1, <2>1, FS_EmptySet
  <2>3. Cardinality(Busy') = Cardinality(Busy) - 1
    BY <1>1, <2>1, FS_RemoveElement
  <2> QED BY <1>1, <2>2, <2>3
<1> QED BY <1>1, <1>2, <1>3

\* Each event moves two of the counters, and their balance stays.
LEMMA CountersMove ==
  ASSUME NEW m \in Counters, Balanced(m), NEW n
  PROVE  /\ n = [m EXCEPT !.accepted = @ + 1, !.queued = @ + 1] =>
              /\ n \in Counters /\ Balanced(n)
              /\ n.queued = m.queued + 1 /\ n.active = m.active /\ n.deadLettered = m.deadLettered
         /\ n = [m EXCEPT !.queued = @ - 1, !.active = @ + 1] /\ m.queued > 0 =>
              /\ n \in Counters /\ Balanced(n)
              /\ n.queued = m.queued - 1 /\ n.active = m.active + 1 /\ n.deadLettered = m.deadLettered
         /\ n = [m EXCEPT !.active = @ - 1, !.completed = @ + 1] /\ m.active > 0 =>
              /\ n \in Counters /\ Balanced(n)
              /\ n.queued = m.queued /\ n.active = m.active - 1 /\ n.deadLettered = m.deadLettered
         /\ n = [m EXCEPT !.active = @ - 1, !.queued = @ + 1] /\ m.active > 0 =>
              /\ n \in Counters /\ Balanced(n)
              /\ n.queued = m.queued + 1 /\ n.active = m.active - 1 /\ n.deadLettered = m.deadLettered
         /\ n = [m EXCEPT !.active = @ - 1, !.deadLettered = @ + 1] /\ m.active > 0 =>
              /\ n \in Counters /\ Balanced(n)
              /\ n.queued = m.queued /\ n.active = m.active - 1 /\ n.deadLettered = m.deadLettered + 1
<1>1. /\ m.accepted \in Nat /\ m.queued \in Nat /\ m.active \in Nat /\ m.completed \in Nat
      /\ m.deadLettered \in Nat
  BY DEF Counters
<1>2. ASSUME n = [m EXCEPT !.accepted = @ + 1, !.queued = @ + 1]
      PROVE  /\ n \in Counters /\ Balanced(n)
             /\ n.queued = m.queued + 1 /\ n.active = m.active /\ n.deadLettered = m.deadLettered
  <2> DEFINE x == m.accepted + 1
             y == m.queued + 1
  <2>1. x \in Nat /\ y \in Nat
    BY <1>1, <1>2
  <2>2. n = [m EXCEPT !.accepted = x, !.queued = y]
    BY <1>2
  <2> HIDE DEF x, y
  <2>3. /\ n \in Counters /\ n.accepted = x /\ n.queued = y
        /\ n.active = m.active /\ n.completed = m.completed /\ n.deadLettered = m.deadLettered
    BY <2>1, <2>2 DEF Counters
  <2> QED BY <1>1, <1>2, <2>3 DEF x, y, Balanced
<1>3. ASSUME n = [m EXCEPT !.queued = @ - 1, !.active = @ + 1], m.queued > 0
      PROVE  /\ n \in Counters /\ Balanced(n)
             /\ n.queued = m.queued - 1 /\ n.active = m.active + 1 /\ n.deadLettered = m.deadLettered
  <2> DEFINE x == m.queued - 1
             y == m.active + 1
  <2>1. x \in Nat /\ y \in Nat
    BY <1>1, <1>3
  <2>2. n = [m EXCEPT !.queued = x, !.active = y]
    BY <1>3
  <2> HIDE DEF x, y
  <2>3. /\ n \in Counters /\ n.queued = x /\ n.active = y
        /\ n.accepted = m.accepted /\ n.completed = m.completed /\ n.deadLettered = m.deadLettered
    BY <2>1, <2>2 DEF Counters
  <2> QED BY <1>1, <1>3, <2>3 DEF x, y, Balanced
<1>4. ASSUME n = [m EXCEPT !.active = @ - 1, !.completed = @ + 1], m.active > 0
      PROVE  /\ n \in Counters /\ Balanced(n)
             /\ n.queued = m.queued /\ n.active = m.active - 1 /\ n.deadLettered = m.deadLettered
  <2> DEFINE x == m.active - 1
             y == m.completed + 1
  <2>1. x \in Nat /\ y \in Nat
    BY <1>1, <1>4
  <2>2. n = [m EXCEPT !.active = x, !.completed = y]
    BY <1>4
  <2> HIDE DEF x, y
  <2>3. /\ n \in Counters /\ n.active = x /\ n.completed = y
        /\ n.accepted = m.accepted /\ n.queued = m.queued /\ n.deadLettered = m.deadLettered
    BY <2>1, <2>2 DEF Counters
  <2> QED BY <1>1, <1>4, <2>3 DEF x, y, Balanced
<1>5. ASSUME n = [m EXCEPT !.active = @ - 1, !.queued = @ + 1], m.active > 0
      PROVE  /\ n \in Counters /\ Balanced(n)
             /\ n.queued = m.queued + 1 /\ n.active = m.active - 1 /\ n.deadLettered = m.deadLettered
  <2> DEFINE x == m.active - 1
             y == m.queued + 1
  <2>1. x \in Nat /\ y \in Nat
    BY <1>1, <1>5
  <2>2. n = [m EXCEPT !.active = x, !.queued = y]
    BY <1>5
  <2> HIDE DEF x, y
  <2>3. /\ n \in Counters /\ n.active = x /\ n.queued = y
        /\ n.accepted = m.accepted /\ n.completed = m.completed /\ n.deadLettered = m.deadLettered
    BY <2>1, <2>2 DEF Counters
  <2> QED BY <1>1, <1>5, <2>3 DEF x, y, Balanced
<1>6. ASSUME n = [m EXCEPT !.active = @ - 1, !.deadLettered = @ + 1], m.active > 0
      PROVE  /\ n \in Counters /\ Balanced(n)
             /\ n.queued = m.queued /\ n.active = m.active - 1 /\ n.deadLettered = m.deadLettered + 1
  <2> DEFINE x == m.active - 1
             y == m.deadLettered + 1
  <2>1. x \in Nat /\ y \in Nat
    BY <1>1, <1>6
  <2>2. n = [m EXCEPT !.active = x, !.deadLettered = y]
    BY <1>6
  <2> HIDE DEF x, y
  <2>3. /\ n \in Counters /\ n.active = x /\ n.deadLettered = y
        /\ n.accepted = m.accepted /\ n.queued = m.queued /\ n.completed = m.completed
    BY <2>1, <2>2 DEF Counters
  <2> QED BY <1>1, <1>6, <2>3 DEF x, y, Balanced
<1> QED BY <1>2, <1>3, <1>4, <1>5, <1>6

LEMMA CountersStart == IsFiniteSet(Slots) /\ RuntimeInit => CountersInv
<1> SUFFICES ASSUME RuntimeInit PROVE CountersInv
  OBVIOUS
<1>1. /\ registered = FALSE /\ started = FALSE /\ queue = <<>> /\ deadLetters = <<>>
      /\ locks = [i \in JobIds |-> 0] /\ handling = [s \in Slots |-> NoJob] /\ outlived = {}
      /\ metrics = [accepted |-> 0, queued |-> 0, active |-> 0, completed |-> 0, deadLettered |-> 0]
  BY DEF RuntimeInit
<1>2. \A s \in Slots : Free(s)
  BY <1>1 DEF Free, NoJob
<1>3. Busy = {}
  BY <1>2 DEF Busy
<1>4. Cardinality(Busy) = 0
  BY <1>3, FS_EmptySet
<1>5. queue \in Seq(WaitingJob) /\ deadLetters \in Seq(QueuedJob) /\ Len(queue) = 0 /\ Len(deadLetters) = 0
  BY <1>1
<1>6. locks \in [JobIds -> 0 .. LockTtl]
  BY <1>1, RuntimeAssumption
<1>7. metrics \in Counters /\ Balanced(metrics) /\ metrics.queued = 0 /\ metrics.active = 0
      /\ metrics.deadLettered = 0
  BY <1>1 DEF Counters, Balanced
<1>8. DOMAIN handling = Slots /\ outlived \subseteq JobIds
  BY <1>1
<1> QED BY <1>1, <1>2, <1>4, <1>5, <1>6, <1>7, <1>8 DEF CountersInv

LEMMA EnqueueCounts ==
  ASSUME CountersInv, NEW i \in JobIds, NEW delay \in 0 .. MaxDelay, EnqueueJob(i, delay)
  PROVE  CountersInv'
<1> DEFINE job == [id |-> i, attempts |-> 0, wait |-> delay]
<1>1. /\ queue' = Append(queue, job)
      /\ metrics' = [metrics EXCEPT !.accepted = @ + 1, !.queued = @ + 1]
      /\ UNCHANGED <<registered, started, deadLetters, locks, handling, outlived>>
  BY DEF EnqueueJob
<1>2. job \in WaitingJob
  BY BackoffsFit, RuntimeAssumption DEF WaitingJob
<1> HIDE DEF job
<1>3. queue' \in Seq(WaitingJob) /\ Len(queue') = Len(queue) + 1
  BY <1>1, <1>2 DEF CountersInv
<1>4. UNCHANGED Busy
  BY <1>1 DEF Busy, Free
<1>5. /\ metrics' \in Counters /\ Balanced(metrics') /\ metrics'.queued = metrics.queued + 1
      /\ metrics'.active = metrics.active /\ metrics'.deadLettered = metrics.deadLettered
  BY <1>1, CountersMove DEF CountersInv
<1> QED BY <1>1, <1>3, <1>4, <1>5 DEF CountersInv, Free, Balanced

LEMMA RunNextCounts ==
  ASSUME IsFiniteSet(Slots), CountersInv, NEW s \in Slots, RunNext(s)
  PROVE  CountersInv'
<1>1. PICK k \in DOMAIN queue :
        /\ queue' = RemoveAt(queue, k)
        /\ locks' = [locks EXCEPT ![queue[k].id] = LockTtl]
        /\ handling' = [handling EXCEPT ![s] =
             [id |-> queue[k].id, attempts |-> queue[k].attempts, left |-> LockTtl]]
  BY DEF RunNext
<1> DEFINE job == [id |-> queue[k].id, attempts |-> queue[k].attempts, left |-> LockTtl]
<1>2. /\ queue \in Seq(WaitingJob) /\ k \in 1 .. Len(queue) /\ Len(queue) \in Nat
      /\ queue[k] \in WaitingJob
  BY DEF CountersInv
<1>3. queue' \in Seq(WaitingJob) /\ Len(queue') = Len(queue) - 1
  <2> HIDE DEF job
  <2> QED BY <1>1, <1>2 DEF RemoveAt
<1>4. job \in HandledJob /\ job.id \in JobIds /\ job.id # "none"
  BY <1>2, RuntimeAssumption DEF WaitingJob, HandledJob
<1>5. handling' = [handling EXCEPT ![s] = job] /\ locks' = [locks EXCEPT ![job.id] = LockTtl]
  BY <1>1
<1>6. /\ Free(s) /\ metrics' = [metrics EXCEPT !.queued = @ - 1, !.active = @ + 1]
      /\ UNCHANGED <<registered, started, deadLetters, outlived>>
  BY DEF RunNext
<1> HIDE DEF job
<1>7. /\ DOMAIN handling' = Slots /\ handling'[s] = job
      /\ \A t \in Slots \ {s} : handling'[t] = handling[t]
  BY <1>5 DEF CountersInv
<1>8. ~Free(s)' /\ \A t \in Slots \ {s} : Free(t)' <=> Free(t)
  BY <1>4, <1>7 DEF Free
<1>9. Cardinality(Busy') = Cardinality(Busy) + 1
  BY <1>6, <1>8, BusyCounts
<1>10. \A t \in Slots : Free(t)' \/ handling'[t] \in HandledJob
  BY <1>4, <1>7, <1>8 DEF CountersInv
<1>11. locks' \in [JobIds -> 0 .. LockTtl]
  BY <1>4, <1>5, RuntimeAssumption DEF CountersInv
<1>12. metrics.queued > 0
  BY <1>2 DEF CountersInv
<1>13. /\ metrics' \in Counters /\ Balanced(metrics') /\ metrics'.queued = metrics.queued - 1
       /\ metrics'.active = metrics.active + 1 /\ metrics'.deadLettered = metrics.deadLettered
  BY <1>6, <1>12, CountersMove DEF CountersInv
<1> QED BY <1>3, <1>6, <1>7, <1>9, <1>10, <1>11, <1>13 DEF CountersInv, Balanced

\* A handler that ends leaves its slot and its lock.
LEMMA LeaveCounts ==
  ASSUME IsFiniteSet(Slots), CountersInv, NEW s \in Slots, ~Free(s), Leave(s)
  PROVE  /\ locks' \in [JobIds -> 0 .. LockTtl] /\ DOMAIN handling' = Slots
         /\ \A t \in Slots : Free(t)' \/ handling'[t] \in HandledJob
         /\ Cardinality(Busy) > 0 /\ Cardinality(Busy') = Cardinality(Busy) - 1
         /\ handling[s] \in HandledJob
<1>1. /\ handling[s] \in HandledJob /\ DOMAIN handling = Slots
      /\ locks \in [JobIds -> 0 .. LockTtl]
  BY DEF CountersInv
<1>2. handling[s].id \in JobIds /\ 0 \in 0 .. LockTtl
  BY <1>1, RuntimeAssumption DEF HandledJob
<1>3. /\ locks' \in [JobIds -> 0 .. LockTtl] /\ DOMAIN handling' = Slots
      /\ handling'[s] = NoJob /\ \A t \in Slots \ {s} : handling'[t] = handling[t]
  BY <1>1, <1>2 DEF Leave
<1>4. Free(s)' /\ \A t \in Slots \ {s} : Free(t)' <=> Free(t)
  BY <1>3 DEF Free, NoJob
<1>5. Cardinality(Busy) > 0 /\ Cardinality(Busy') = Cardinality(Busy) - 1
  BY <1>4, BusyCounts
<1>6. \A t \in Slots : Free(t)' \/ handling'[t] \in HandledJob
  BY <1>3, <1>4 DEF CountersInv
<1> QED BY <1>1, <1>3, <1>5, <1>6

LEMMA CompleteCounts ==
  ASSUME IsFiniteSet(Slots), CountersInv, NEW s \in Slots, Complete(s)
  PROVE  CountersInv'
<1>1. /\ ~Free(s) /\ Leave(s) /\ UNCHANGED <<registered, started, queue, deadLetters, outlived>>
      /\ metrics' = [metrics EXCEPT !.active = @ - 1, !.completed = @ + 1]
  BY DEF Complete
<1>2. /\ locks' \in [JobIds -> 0 .. LockTtl] /\ DOMAIN handling' = Slots
      /\ \A t \in Slots : Free(t)' \/ handling'[t] \in HandledJob
      /\ Cardinality(Busy) > 0 /\ Cardinality(Busy') = Cardinality(Busy) - 1
  BY <1>1, LeaveCounts
<1>3. /\ metrics' \in Counters /\ Balanced(metrics') /\ metrics'.queued = metrics.queued
      /\ metrics'.active = metrics.active - 1 /\ metrics'.deadLettered = metrics.deadLettered
  BY <1>1, <1>2, CountersMove DEF CountersInv
<1> QED BY <1>1, <1>2, <1>3 DEF CountersInv, Balanced

LEMMA FailCounts ==
  ASSUME IsFiniteSet(Slots), CountersInv, NEW s \in Slots, Fail(s)
  PROVE  CountersInv'
<1> DEFINE job == Attempted(handling[s])
<1>1. /\ ~Free(s) /\ Leave(s) /\ UNCHANGED <<registered, started, outlived>>
  BY DEF Fail
<1>2. /\ locks' \in [JobIds -> 0 .. LockTtl] /\ DOMAIN handling' = Slots
      /\ \A t \in Slots : Free(t)' \/ handling'[t] \in HandledJob
      /\ Cardinality(Busy) > 0 /\ Cardinality(Busy') = Cardinality(Busy) - 1
      /\ handling[s] \in HandledJob
  BY <1>1, LeaveCounts
<1>3. metrics.active > 0
  BY <1>2 DEF CountersInv
<1>4. /\ job.id \in JobIds /\ job.attempts \in 1 .. MaxAttempts /\ job.wait \in Waits
      /\ job = [id |-> job.id, attempts |-> job.attempts, wait |-> job.wait]
  <2>1. handling[s].id \in JobIds /\ handling[s].attempts \in 0 .. MaxAttempts - 1 /\ MaxAttempts \in Nat
    BY <1>2, RuntimeAssumption DEF HandledJob
  <2>2. handling[s].attempts \in 0 .. MaxAttempts /\ handling[s].attempts + 1 \in 1 .. MaxAttempts
    BY <2>1
  <2> QED BY <2>1, <2>2, BackoffsFit DEF Attempted
<1>5. /\ job.attempts < MaxAttempts => job \in WaitingJob
      /\ job \in QueuedJob
  <2> HIDE DEF job
  <2> QED BY <1>4, RuntimeAssumption DEF WaitingJob, QueuedJob
<1>6. queue \in Seq(WaitingJob) /\ deadLetters \in Seq(QueuedJob)
  BY DEF CountersInv
<1>7. CASE job.attempts < MaxAttempts
  <2>1. /\ queue' = Append(queue, job) /\ deadLetters' = deadLetters
        /\ metrics' = [metrics EXCEPT !.active = @ - 1, !.queued = @ + 1]
    BY <1>7 DEF Fail
  <2> HIDE DEF job
  <2>2. queue' \in Seq(WaitingJob) /\ Len(queue') = Len(queue) + 1
    BY <1>5, <1>6, <1>7, <2>1
  <2>3. /\ metrics' \in Counters /\ Balanced(metrics') /\ metrics'.queued = metrics.queued + 1
        /\ metrics'.active = metrics.active - 1 /\ metrics'.deadLettered = metrics.deadLettered
    BY <1>3, <2>1, CountersMove DEF CountersInv
  <2> QED BY <1>1, <1>2, <2>1, <2>2, <2>3 DEF CountersInv, Balanced
<1>8. CASE ~(job.attempts < MaxAttempts)
  <2>1. /\ queue' = queue /\ deadLetters' = Append(deadLetters, job)
        /\ metrics' = [metrics EXCEPT !.active = @ - 1, !.deadLettered = @ + 1]
    BY <1>8 DEF Fail
  <2> HIDE DEF job
  <2>2. deadLetters' \in Seq(QueuedJob) /\ Len(deadLetters') = Len(deadLetters) + 1
    BY <1>5, <1>6, <2>1
  <2>3. /\ metrics' \in Counters /\ Balanced(metrics') /\ metrics'.queued = metrics.queued
        /\ metrics'.active = metrics.active - 1 /\ metrics'.deadLettered = metrics.deadLettered + 1
    BY <1>3, <2>1, CountersMove DEF CountersInv
  <2> QED BY <1>1, <1>2, <2>1, <2>2, <2>3 DEF CountersInv, Balanced
<1> QED BY <1>7, <1>8

LEMMA TimeCounts ==
  ASSUME CountersInv, TimePasses
  PROVE  CountersInv'
<1>1. /\ queue' = [k \in DOMAIN queue |-> [queue[k] EXCEPT !.wait = Earlier(@)]]
      /\ locks' = [i \in JobIds |-> Earlier(locks[i])]
      /\ handling' = [s \in Slots |->
           IF Free(s) THEN NoJob ELSE [handling[s] EXCEPT !.left = Earlier(@)]]
      /\ outlived' = outlived \cup
           {handling'[s].id : s \in {t \in Slots : ~Free(t) /\ handling'[t].left = 0}}
      /\ UNCHANGED <<registered, started, deadLetters, metrics>>
  BY DEF TimePasses
<1>2. \A left \in 0 .. LockTtl : Earlier(left) \in 0 .. LockTtl
  BY RuntimeAssumption DEF Earlier
<1>3. queue' \in Seq(WaitingJob) /\ Len(queue') = Len(queue)
  <2>1. /\ DOMAIN queue = 1 .. Len(queue) /\ Len(queue) \in Nat
        /\ \A k \in DOMAIN queue : queue[k] \in WaitingJob
    BY DEF CountersInv
  <2>2. \A job \in WaitingJob : [job EXCEPT !.wait = Earlier(@)] \in WaitingJob
    BY BackoffsFit DEF WaitingJob
  <2>3. queue' \in [1 .. Len(queue) -> WaitingJob]
    BY <1>1, <2>1, <2>2
  <2> QED BY <2>1, <2>3
<1>4. locks' \in [JobIds -> 0 .. LockTtl]
  BY <1>1, <1>2 DEF CountersInv
<1>5. ASSUME NEW s \in Slots, ~Free(s)
      PROVE  handling'[s] \in HandledJob /\ handling'[s].id = handling[s].id
  <2>1. handling[s] \in HandledJob
    BY <1>5 DEF CountersInv
  <2>2. handling'[s] = [handling[s] EXCEPT !.left = Earlier(@)]
    BY <1>1, <1>5
  <2> QED BY <1>2, <2>1, <2>2 DEF HandledJob
<1>6. \A s \in Slots : handling'[s].id \in JobIds \cup {"none"} /\ (Free(s)' <=> Free(s))
  <2>1. ASSUME NEW s \in Slots, ~Free(s) PROVE handling'[s].id \in JobIds /\ ~Free(s)'
    BY <1>5, <2>1, RuntimeAssumption DEF HandledJob, Free
  <2>2. ASSUME NEW s \in Slots, Free(s) PROVE handling'[s].id = "none" /\ Free(s)'
    BY <1>1, <2>2 DEF Free, NoJob
  <2> QED BY <2>1, <2>2
<1>7. \A s \in Slots : Free(s)' \/ handling'[s] \in HandledJob
  BY <1>5, <1>6
<1>8. Busy' = Busy
  BY <1>6 DEF Busy
<1>9. outlived' \subseteq JobIds
  <2>1. \A s \in Slots : ~Free(s) => handling'[s].id \in JobIds
    BY <1>5 DEF HandledJob
  <2> QED BY <1>1, <2>1 DEF CountersInv
<1>10. DOMAIN handling' = Slots
  BY <1>1
<1> QED BY <1>1, <1>3, <1>4, <1>7, <1>8, <1>9, <1>10 DEF CountersInv, Balanced

LEMMA CountersInvHolds == ASSUME IsFiniteSet(Slots) PROVE RuntimeSpec => []CountersInv
<1>1. RuntimeInit => CountersInv
  BY CountersStart
<1>2. CountersInv /\ [RuntimeNext]_runtimeVars => CountersInv'
  <2> SUFFICES ASSUME CountersInv, [RuntimeNext]_runtimeVars PROVE CountersInv'
    OBVIOUS
  <2>1. ASSUME registered' \in BOOLEAN, started' \in BOOLEAN,
               UNCHANGED <<queue, deadLetters, locks, handling, metrics, outlived>>
        PROVE  CountersInv'
    BY <2>1 DEF CountersInv, Busy, Free, Balanced
  <2>2. CASE UNCHANGED runtimeVars \/ Register \/ StartRuntime \/ StopRuntime
    <3>1. registered' \in BOOLEAN /\ started' \in BOOLEAN
      BY <2>2 DEF runtimeVars, Register, StartRuntime, StopRuntime, CountersInv
    <3>2. UNCHANGED <<queue, deadLetters, locks, handling, metrics, outlived>>
      BY <2>2 DEF runtimeVars, Register, StartRuntime, StopRuntime
    <3> QED BY <2>1, <3>1, <3>2
  <2> QED
    BY <2>2, EnqueueCounts, RunNextCounts, CompleteCounts, FailCounts, TimeCounts
    DEF RuntimeNext, RuntimeStep
<1> QED BY <1>1, <1>2, PTL DEF RuntimeSpec

\* For any number of ids and any finite number of handlers, attempts and delays:
\* an accepted job is never lost, whatever handlers throw and however often the
\* runtime is stopped, and the counters of the runtime are the lengths of its
\* queues and the number of its handlers (worker-runtime).
THEOREM JobsAreKept ==
  ASSUME IsFiniteSet(Slots)
  PROVE  RuntimeSpec => [](RuntimeTypeOK /\ NoJobIsLost)
<1>1. CountersInv => RuntimeTypeOK
  <2> SUFFICES ASSUME CountersInv PROVE RuntimeTypeOK
    OBVIOUS
  <2>1. WaitingJob \subseteq QueuedJob
    BY RuntimeAssumption DEF WaitingJob, QueuedJob
  <2>2. queue \in Seq(QueuedJob)
    BY <2>1 DEF CountersInv
  <2> QED BY <2>2 DEF CountersInv, RuntimeTypeOK, HandledJob, Busy
<1>2. CountersInv => NoJobIsLost
  <2> SUFFICES ASSUME CountersInv PROVE NoJobIsLost
    OBVIOUS
  <2>1. /\ Len(queue) \in Nat /\ Len(deadLetters) \in Nat /\ metrics \in Counters
        /\ Cardinality(Busy) \in Nat
    BY DEF CountersInv, Counters
  <2>2. metrics.accepted = metrics.completed + Len(queue) + Len(deadLetters) + Cardinality(Busy)
    BY <2>1 DEF CountersInv, Balanced, Counters
  <2> QED BY <2>2 DEF NoJobIsLost, Busy
<1> QED BY <1>1, <1>2, CountersInvHolds, PTL
=============================================================================
