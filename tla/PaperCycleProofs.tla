-------------------------- MODULE PaperCycleProofs --------------------------
(***************************************************************************)
(* Theorems about PaperCycle, for any number of jobs and workers and any   *)
(* capital, grid and retry bounds, however the runs of a job overlap.      *)
(***************************************************************************)
EXTENDS PaperCycle, SumLemmas, TLAPS

USE DEF botVars, ledgerVars, queueVars, vars

-----------------------------------------------------------------------------
(* Types, and that the two balances always add up to the capital: what a    *)
(* fill takes from one, under the lock of its row, it adds to the other.    *)

Conserved == cash + base = Capital
\* A SELL about to write to its row has seen enough there.
HasSeen ==
  \A w \in Workers : run[w].pc = "selling" =>
    run[w].signal.side = "SELL" /\ run[w].seen >= run[w].signal.amount

LedgerInv == TypeOK /\ Conserved /\ HasSeen

LEMMA IdleRunTyped == IdleRun \in Run
BY CycleAssumption DEF IdleRun, Run, Steps, NoSignal, Signal, Side, NoLevel

LEMMA IdleRunIsIdle == IdleRun.pc = "idle"
BY DEF IdleRun

LEMMA GotoTyped ==
  ASSUME TypeOK, NEW w \in Workers, NEW pc \in Steps, Goto(w, pc)
  PROVE  run' \in [Workers -> Run]
BY DEF TypeOK, Goto, Run

LEMMA SettledTyped ==
  ASSUME NEW w \in Workers
  PROVE  Settled(w) \in {"marking", "leveling"} /\ Settled(w) \in Steps
BY DEF Settled, Steps

LEMMA SignalsTyped ==
  ASSUME LedgerInv, NEW s \in Signals
  PROVE  s \in Signal
<1> USE CycleAssumption DEF LedgerInv, TypeOK, Signal, Side, OpenLevels, Levels
<1>1. CASE s \in {t \in [side: {"BUY"}, amount: Sizes, level: OpenLevels(BuyLevels)] :
                    Spent + t.amount =< Capital}
  <2>1. s \in [side: {"BUY"}, amount: Sizes, level: OpenLevels(BuyLevels)]
    BY <1>1
  <2> QED BY <2>1
<1>2. ASSUME NEW r \in OpenRows,
             s \in [side: {"SELL"}, amount: 1 .. position[r], level: OpenLevels(SellLevels)]
      PROVE  s \in Signal
  <2>1. s.amount \in Nat
    BY <1>2 DEF OpenRows
  <2> QED BY <1>2, <2>1
<1> QED BY <1>1, <1>2 DEF Signals

LEMMA LedgerInit == Init => LedgerInv
<1> SUFFICES ASSUME Init PROVE LedgerInv
    OBVIOUS
<1>1. NoSignal \in Signal
  BY CycleAssumption DEF NoSignal, Signal, Side
<1>2. order \in [Jobs -> Order] /\ proposal \in [Jobs -> Proposal]
  BY <1>1 DEF Init, Order, Proposal
<1>3. reservation \in [Jobs -> Reservation] /\ run \in [Workers -> Run]
  BY IdleRunTyped DEF Init, Reservation
<1>4. levels \in [Levels -> {"OPEN", "EXECUTED"}]
  BY DEF Init
<1>5. /\ attempts \in [Jobs -> Nat] /\ stalls \in [Jobs -> 0 .. MaxStalls]
      /\ queue \in [Jobs -> {"waiting", "active", "completed", "failed"}]
  BY CycleAssumption DEF Init
<1>6. cash = Capital /\ base = 0 /\ allocated = Capital /\ Capital \in Nat
  BY CycleAssumption DEF Init
<1>7. cash \in Nat /\ base \in Nat /\ cash + base = Capital /\ position \in [Jobs -> Nat]
  BY <1>6 DEF Init
<1>8. status \in Status /\ allocated \in {0, Capital} /\ killed \in BOOLEAN
  BY <1>6 DEF Init, Status
<1>9. HasSeen
  BY IdleRunIsIdle DEF Init, HasSeen
<1> QED BY <1>2, <1>3, <1>4, <1>5, <1>7, <1>8, <1>9 DEF LedgerInv, TypeOK, Conserved

\* A step of the fill transaction; Sell and Buy are the ones that commit.
Filling(w) == FindOrder(w) \/ Buy(w) \/ FindPosition(w) \/ Sell(w)
Commits(w) == Buy(w) \/ Sell(w)

LEMMA FillingGoes ==
  ASSUME TypeOK, NEW w \in Workers, Filling(w)
  PROVE  /\ run' \in [Workers -> Run]
         /\ run'[w].pc \in {"selling", "marking", "leveling"}
         /\ run'[w].pc = "selling" => FindPosition(w)
         /\ run'[w].job = run[w].job
<1> USE DEF TypeOK, Run
<1>1. CASE FindOrder(w) \/ Commits(w)
  <2>1. Goto(w, Settled(w))
    BY <1>1 DEF FindOrder, Commits, Buy, Sell, Commit
  <2> QED BY <2>1, SettledTyped, GotoTyped DEF Goto
<1>2. CASE FindPosition(w)
  <2>1. PICK r \in Jobs : run' = [run EXCEPT ![w].pc = "selling", ![w].row = r, ![w].seen = position[r]]
    BY <1>2 DEF FindPosition, OpenRows
  <2>2. run[w] \in Run /\ position[r] \in Nat
    OBVIOUS
  <2>3. [run[w] EXCEPT !.pc = "selling", !.row = r, !.seen = position[r]] \in Run
    BY <2>2 DEF Steps
  <2>4. run' = [run EXCEPT ![w] = [run[w] EXCEPT !.pc = "selling", !.row = r, !.seen = position[r]]]
    BY <2>1
  <2> QED BY <1>2, <2>3, <2>4
<1> QED BY <1>1, <1>2 DEF Filling, Commits

LEMMA AnalyzeGoes ==
  ASSUME TypeOK, NEW w \in Workers, Analyze(w)
  PROVE  run'[w].pc \in {"completing", "proposing"}
<1> USE DEF TypeOK, Run
<1>1. CASE Goto(w, "completing")
  BY <1>1 DEF Goto
<1>2. ASSUME NEW s \in Signals,
             run' = [run EXCEPT ![w].pc = "proposing", ![w].signal = s,
                                ![w].funded = s.side = "SELL" \/ cash - Reserved >= s.amount]
      PROVE  run'[w].pc = "proposing"
  <2> DEFINE f == s.side = "SELL" \/ cash - Reserved >= s.amount
  <2>1. run' = [run EXCEPT ![w].pc = "proposing", ![w].signal = s, ![w].funded = f]
    BY <1>2
  <2> HIDE DEF f
  <2> QED BY <2>1
<1> QED BY <1>1, <1>2 DEF Analyze

\* A step of one worker is not seen in what another is doing.
LEMMA OthersStay ==
  ASSUME TypeOK, NEW w \in Workers, NEW v \in Workers \ {w},
         Cycle(w) \/ (\E j \in Jobs : Take(w, j)) \/ Crash(w) \/ Recover(w) \/ Release(w)
  PROVE  run'[v] = run[v]
<1> USE DEF TypeOK
<1>1. CASE Analyze(w)
  BY <1>1 DEF Analyze, Goto
<1>2. CASE \/ Propose(w) \/ Reject(w) \/ Block(w) \/ CheckReservation(w) \/ Reserve(w)
           \/ Decide(w) \/ CloseLevel(w) \/ Rearm(w) \/ MarkExecuted(w)
  BY <1>2 DEF Propose, Reject, Block, CheckReservation, Reserve, Decide, CloseLevel, Rearm,
              MarkExecuted, Goto
<1>3. CASE Filling(w)
  BY <1>3 DEF Filling, FindOrder, Buy, FindPosition, Sell, Commit, Goto
<1>4. CASE \/ Complete(w) \/ Throw(w) \/ (\E j \in Jobs : Take(w, j))
           \/ Crash(w) \/ Recover(w) \/ Release(w)
  BY <1>4 DEF Complete, Throw, Take, Crash, Recover, Release
<1> QED BY <1>1, <1>2, <1>3, <1>4 DEF Cycle, Filling

\* How a worker moves: by its cycle, to the start or the end of one, or not.
LEMMA WorkerMoves ==
  ASSUME TypeOK, [Next]_vars, NEW v \in Workers
  PROVE  \/ Cycle(v)
         \/ run'[v].pc \in {"idle", "begun", "completing", "recovering"}
         \/ \A f \in {"pc", "job", "signal", "row", "seen"} : run'[v][f] = run[v][f]
<1> USE DEF TypeOK
<1>w. run[v] \in Run
  OBVIOUS
<1>1. CASE (\E j \in Jobs : Take(v, j)) \/ Crash(v) \/ Recover(v) \/ Release(v)
  <2>1. CASE \E j \in Jobs : Take(v, j)
    BY <2>1 DEF Take, IdleRun
  <2>2. CASE Crash(v)
    BY <2>2, IdleRunIsIdle DEF Crash
  <2>3. CASE Recover(v)
    BY <2>3 DEF Recover, IdleRun
  <2>4. CASE Release(v)
    BY <2>4, IdleRunIsIdle DEF Release, Run
  <2> QED BY <1>1, <2>1, <2>2, <2>3, <2>4
<1>2. ASSUME NEW j \in Jobs, Stall(j) \/ Age(j)
      PROVE  \A f \in {"pc", "job", "signal", "row", "seen"} : run'[v][f] = run[v][f]
  BY <1>2 DEF Stall, Age, Run
<1>3. CASE External \/ UNCHANGED vars
  BY <1>3 DEF External
<1>4. ASSUME NEW w \in Workers \ {v},
             Cycle(w) \/ (\E j \in Jobs : Take(w, j)) \/ Crash(w) \/ Recover(w) \/ Release(w)
      PROVE  run'[v] = run[v]
  BY <1>4, OthersStay
<1> QED BY <1>1, <1>2, <1>3, <1>4 DEF Next

\* How a worker comes to hold a row it will write to.
LEMMA ComesToSell ==
  ASSUME TypeOK, [Next]_vars, NEW v \in Workers, run'[v].pc = "selling"
  PROVE  \/ FindPosition(v)
         \/ /\ run[v].pc = "selling" /\ run'[v].signal = run[v].signal
            /\ run'[v].row = run[v].row /\ run'[v].seen = run[v].seen
<1>1. CASE Cycle(v)
  <2>1. ASSUME NEW pc, Goto(v, pc) PROVE pc = "selling"
    BY <2>1 DEF Goto, TypeOK, Run
  <2>2. CASE Analyze(v)
    BY <2>2, AnalyzeGoes
  <2>3. CASE \/ Propose(v) \/ Reject(v) \/ Block(v) \/ Reserve(v) \/ Decide(v)
             \/ CloseLevel(v) \/ Rearm(v) \/ MarkExecuted(v)
    BY <2>1, <2>3 DEF Propose, Reject, Block, Reserve, Decide, CloseLevel, Rearm, MarkExecuted
  <2>4. CASE CheckReservation(v)
    BY <2>1, <2>4 DEF CheckReservation
  <2>5. CASE Complete(v) \/ Throw(v)
    BY <2>5, IdleRunIsIdle DEF Complete, Throw, TypeOK
  <2>6. CASE Filling(v)
    BY <2>6, FillingGoes
  <2> QED BY <1>1, <2>2, <2>3, <2>4, <2>5, <2>6 DEF Cycle, Filling
<1> QED BY <1>1, WorkerMoves

LEMMA SeenStep == LedgerInv /\ [Next]_vars => HasSeen'
<1> SUFFICES ASSUME LedgerInv, [Next]_vars, NEW v \in Workers, run'[v].pc = "selling"
             PROVE  run'[v].signal.side = "SELL" /\ run'[v].seen >= run'[v].signal.amount
    BY DEF HasSeen
<1>0. TypeOK /\ HasSeen
  BY DEF LedgerInv
<1>1. CASE FindPosition(v)
  <2>1. PICK r \in OpenRows :
          /\ run[v].signal.side = "SELL" /\ position[r] >= run[v].signal.amount
          /\ run' = [run EXCEPT ![v].pc = "selling", ![v].row = r, ![v].seen = position[r]]
    BY <1>1 DEF FindPosition
  <2> QED BY <1>0, <2>1 DEF TypeOK, Run
<1>2. CASE run[v].pc = "selling" /\ run'[v].signal = run[v].signal /\ run'[v].seen = run[v].seen
  BY <1>0, <1>2 DEF HasSeen
<1> QED BY <1>0, <1>1, <1>2, ComesToSell

\* A fill keeps the sum of the balances.
LEMMA FillConserves ==
  ASSUME LedgerInv, NEW w \in Workers, Commits(w)
  PROVE  cash' \in Nat /\ base' \in Nat /\ position' \in [Jobs -> Nat] /\ Conserved'
<1> USE DEF LedgerInv, TypeOK, Conserved
<1>w. /\ run[w].signal.amount \in Nat /\ run[w].row \in Jobs /\ run[w].seen \in Nat
      /\ Job(w) \in Jobs
  BY DEF Run, Signal, Job
<1>1. CASE Buy(w)
  <2>1. \E r \in Jobs : AddTo(r, run[w].signal.amount)
    BY <1>1, <1>w DEF Buy, OpenRows
  <2>2. position' \in [Jobs -> Nat]
    BY <2>1, <1>w DEF AddTo
  <2> QED BY <1>1, <1>w, <2>2, CycleAssumption DEF Buy
<1>2. CASE Sell(w)
  <2>1. run[w].seen - run[w].signal.amount \in Nat
    BY <1>w, <1>2 DEF HasSeen, Sell
  <2> QED BY <1>2, <1>w, <2>1, CycleAssumption DEF Sell
<1> QED BY <1>1, <1>2 DEF Commits

LEMMA LedgerStep == LedgerInv /\ [Next]_vars => LedgerInv'
<1> SUFFICES ASSUME LedgerInv, [Next]_vars PROVE TypeOK' /\ Conserved'
    BY SeenStep DEF LedgerInv
<1> USE DEF LedgerInv, Conserved
<1>1. ASSUME NEW w \in Workers, NEW j \in Jobs, Take(w, j) PROVE TypeOK' /\ Conserved'
  <2>1. run' \in [Workers -> Run]
    BY <1>1, IdleRunTyped DEF Take, TypeOK, Run, Steps
  <2> QED BY <1>1, <2>1 DEF Take, TypeOK
<1>2. ASSUME NEW w \in Workers, Cycle(w) PROVE TypeOK' /\ Conserved'
  <2>w. run[w] \in Run /\ Job(w) \in Jobs /\ run[w].signal \in Signal
    BY DEF TypeOK, Run, Job
  <2>1. ASSUME Analyze(w) PROVE TypeOK' /\ Conserved'
    <3>1. run' \in [Workers -> Run]
      <4>1. CASE Goto(w, "completing")
        BY <4>1, GotoTyped DEF Steps
      <4>2. ASSUME NEW s \in Signals,
                   run' = [run EXCEPT ![w].pc = "proposing", ![w].signal = s,
                                      ![w].funded = s.side = "SELL" \/ cash - Reserved >= s.amount]
            PROVE  run' \in [Workers -> Run]
        <5>1. (s.side = "SELL" \/ cash - Reserved >= s.amount) \in BOOLEAN
          OBVIOUS
        <5>2. s \in Signal
          BY SignalsTyped
        <5> DEFINE f == s.side = "SELL" \/ cash - Reserved >= s.amount
        <5>3. f \in BOOLEAN /\ run' = [run EXCEPT ![w].pc = "proposing", ![w].signal = s, ![w].funded = f]
          BY <4>2, <5>1
        <5> HIDE DEF f
        <5> QED BY <5>2, <5>3, <2>w DEF TypeOK, Run, Steps
      <4> QED BY <2>1, <4>1, <4>2 DEF Analyze
    <3> QED BY <2>1, <3>1 DEF Analyze, TypeOK
  <2>2. ASSUME Propose(w) PROVE TypeOK' /\ Conserved'
    <3>1. run' \in [Workers -> Run]
      BY <2>2, GotoTyped DEF Propose, Steps
    <3>2. proposal' \in [Jobs -> Proposal]
      BY <2>2, <2>w DEF Propose, TypeOK, Proposal
    <3> QED BY <2>2, <3>1, <3>2 DEF Propose, TypeOK
  <2>3. ASSUME Reject(w) PROVE TypeOK' /\ Conserved'
    <3>1. run' \in [Workers -> Run]
      BY <2>3, GotoTyped DEF Reject, Steps
    <3>2. proposal' \in [Jobs -> Proposal]
      BY <2>3, <2>w DEF Reject, TypeOK, Proposal
    <3> QED BY <2>3, <3>1, <3>2 DEF Reject, TypeOK
  <2>4. ASSUME Block(w) PROVE TypeOK' /\ Conserved'
    <3>1. run' \in [Workers -> Run]
      BY <2>4, GotoTyped DEF Block, Steps
    <3> QED BY <2>4, <3>1 DEF Block, TypeOK, Status
  <2>5. ASSUME CheckReservation(w) PROVE TypeOK' /\ Conserved'
    <3>1. \E pc \in Steps : Goto(w, pc)
      BY <2>5 DEF CheckReservation, Steps
    <3>2. run' \in [Workers -> Run]
      BY <3>1, GotoTyped
    <3> QED BY <2>5, <3>2 DEF CheckReservation, TypeOK
  <2>6. ASSUME Reserve(w) PROVE TypeOK' /\ Conserved'
    <3>1. run' \in [Workers -> Run]
      BY <2>6, GotoTyped DEF Reserve, Steps
    <3>2. Amount(w) \in Nat
      BY <2>w, CycleAssumption DEF Amount, Signal
    <3>3. reservation' \in [Jobs -> Reservation]
      BY <2>6, <2>w, <3>2 DEF Reserve, TypeOK, Reservation
    <3> QED BY <2>6, <3>1, <3>3 DEF Reserve, TypeOK
  <2>7. ASSUME Decide(w) PROVE TypeOK' /\ Conserved'
    <3>1. \E pc \in Steps : Goto(w, pc)
      BY <2>7 DEF Decide, Steps
    <3>2. run' \in [Workers -> Run]
      BY <3>1, GotoTyped
    <3>3. proposal' \in [Jobs -> Proposal]
      BY <2>7, <2>w DEF Decide, TypeOK, Proposal
    <3> QED BY <2>7, <3>2, <3>3 DEF Decide, TypeOK
  <2>8. ASSUME Filling(w) PROVE TypeOK' /\ Conserved'
    <3>1. run' \in [Workers -> Run]
      BY <2>8, FillingGoes
    <3>2. CASE FindOrder(w) \/ FindPosition(w)
      BY <3>1, <3>2 DEF FindOrder, FindPosition, TypeOK
    <3>3. CASE Commits(w)
      <4>1. cash' \in Nat /\ base' \in Nat /\ position' \in [Jobs -> Nat] /\ Conserved'
        BY <3>3, FillConserves
      <4>2. Commit(w)
        BY <3>3 DEF Commits, Buy, Sell
      <4>3. order' \in [Jobs -> Order]
        <5>1. order' = [order EXCEPT ![Job(w)] = [filled |-> TRUE, signal |-> run[w].signal]]
          BY <4>2 DEF Commit
        <5>2. [filled |-> TRUE, signal |-> run[w].signal] \in Order
          BY <2>w DEF Order
        <5> QED BY <5>1, <5>2, <2>w DEF TypeOK
      <4>4. reservation' \in [Jobs -> Reservation]
        BY <4>2, <2>w DEF Commit, Consume, TypeOK, Reservation
      <4> QED BY <3>1, <4>1, <4>2, <4>3, <4>4 DEF Commit, TypeOK
    <3> QED BY <2>8, <3>2, <3>3 DEF Filling, Commits
  <2>9. ASSUME CloseLevel(w) \/ Rearm(w) PROVE TypeOK' /\ Conserved'
    <3>1. \E pc \in Steps : Goto(w, pc)
      BY <2>9 DEF CloseLevel, Rearm, Steps
    <3>2. run' \in [Workers -> Run]
      BY <3>1, GotoTyped
    <3>3. levels' \in [Levels -> {"OPEN", "EXECUTED"}]
      BY <2>9 DEF CloseLevel, Rearm, TypeOK
    <3> QED BY <2>9, <3>2, <3>3 DEF CloseLevel, Rearm, TypeOK
  <2>10. ASSUME MarkExecuted(w) PROVE TypeOK' /\ Conserved'
    <3>1. run' \in [Workers -> Run]
      BY <2>10, GotoTyped DEF MarkExecuted, Steps
    <3>2. proposal' \in [Jobs -> Proposal]
      BY <2>10, <2>w DEF MarkExecuted, TypeOK, Proposal
    <3> QED BY <2>10, <3>1, <3>2 DEF MarkExecuted, TypeOK
  <2>11. ASSUME Complete(w) PROVE TypeOK' /\ Conserved'
    BY <2>11, IdleRunTyped DEF Complete, TypeOK
  <2>12. ASSUME Throw(w) PROVE TypeOK' /\ Conserved'
    <3>1. attempts' \in [Jobs -> Nat] /\ queue' \in [Jobs -> {"waiting", "active", "completed", "failed"}]
      BY <2>12, <2>w DEF Throw, TypeOK
    <3> QED BY <2>12, <3>1, IdleRunTyped DEF Throw, TypeOK
  <2> QED BY <1>2, <2>1, <2>2, <2>3, <2>4, <2>5, <2>6, <2>7, <2>8, <2>9, <2>10, <2>11, <2>12
          DEF Cycle, Filling
<1>3. ASSUME NEW w \in Workers, Crash(w) PROVE TypeOK' /\ Conserved'
  BY <1>3, IdleRunTyped DEF Crash, TypeOK
<1>4. ASSUME NEW w \in Workers, Recover(w) PROVE TypeOK' /\ Conserved'
  <2>1. run' \in [Workers -> Run]
    <3>1. Orphans \in SUBSET Jobs
      BY DEF Orphans
    <3>2. [IdleRun EXCEPT !.pc = "recovering", !.found = Orphans] \in Run
      BY <3>1, IdleRunTyped DEF Run, Steps
    <3> QED BY <1>4, <3>2 DEF Recover, TypeOK
  <2> QED BY <1>4, <2>1 DEF Recover, TypeOK
<1>5. ASSUME NEW w \in Workers, Release(w) PROVE TypeOK' /\ Conserved'
  <2>1. PICK j \in run[w].found :
          /\ reservation' = [reservation EXCEPT ![j].status =
                               IF @ = "ACTIVE" THEN "RELEASED" ELSE @]
          /\ run' = [run EXCEPT ![w] = IF run[w].found = {j} THEN IdleRun
                                       ELSE [run[w] EXCEPT !.found = @ \ {j}]]
    BY <1>5 DEF Release
  <2>2. run[w] \in Run /\ j \in Jobs
    BY DEF TypeOK, Run
  <2>3. reservation' \in [Jobs -> Reservation]
    BY <2>1, <2>2 DEF TypeOK, Reservation
  <2>4. [run[w] EXCEPT !.found = @ \ {j}] \in Run
    BY <2>2 DEF Run
  <2>5. run' \in [Workers -> Run]
    BY <2>1, <2>4, IdleRunTyped DEF TypeOK
  <2> QED BY <1>5, <2>3, <2>5 DEF Release, TypeOK
<1>6. ASSUME NEW j \in Jobs, Stall(j) PROVE TypeOK' /\ Conserved'
  <2>1. run' \in [Workers -> Run]
    <3>1. \A w \in Workers : [run[w] EXCEPT !.locked = FALSE] \in Run
      BY DEF TypeOK, Run
    <3> QED BY <1>6, <3>1 DEF Stall, TypeOK
  <2>2. stalls' \in [Jobs -> 0 .. MaxStalls]
    BY <1>6, CycleAssumption DEF Stall, TypeOK
  <2> QED BY <1>6, <2>1, <2>2 DEF Stall, TypeOK
<1>7. ASSUME NEW j \in Jobs, Age(j) PROVE TypeOK' /\ Conserved'
  <2>1. reservation' \in [Jobs -> Reservation]
    BY <1>7 DEF Age, TypeOK, Reservation
  <2> QED BY <1>7, <2>1 DEF Age, TypeOK
<1>8. CASE External
  BY <1>8 DEF External, Pause, Resume, Stop, Kill, TypeOK, Status
<1>9. CASE UNCHANGED vars
  BY <1>9 DEF TypeOK
<1> QED BY <1>1, <1>2, <1>3, <1>4, <1>5, <1>6, <1>7, <1>8, <1>9 DEF Next

\* Type correctness: neither balance is ever overdrawn.
THEOREM TypeCorrect == Spec => []TypeOK
<1>1. LedgerInv => TypeOK
  BY DEF LedgerInv
<1> QED BY <1>1, LedgerInit, LedgerStep, PTL DEF Spec

-----------------------------------------------------------------------------
(* Steps that write the ledger, the reservations and the proposals.         *)

LEMMA LedgerWriters ==
  ASSUME [Next]_vars
  PROVE  UNCHANGED ledgerVars \/ \E w \in Workers : Commits(w)
<1>1. ASSUME NEW w \in Workers, Cycle(w), ~Commits(w) PROVE UNCHANGED ledgerVars
  BY <1>1 DEF Commits, Cycle, Analyze, Propose, Reject, Block, CheckReservation, Reserve, Decide,
              FindOrder, FindPosition, CloseLevel, Rearm, MarkExecuted, Complete, Throw
<1>2. ASSUME NEW w \in Workers,
             (\E j \in Jobs : Take(w, j)) \/ Crash(w) \/ Recover(w) \/ Release(w)
      PROVE  UNCHANGED ledgerVars
  BY <1>2 DEF Take, Crash, Recover, Release
<1>3. ASSUME NEW j \in Jobs, Stall(j) \/ Age(j) PROVE UNCHANGED ledgerVars
  BY <1>3 DEF Stall, Age
<1>4. CASE External
  BY <1>4 DEF External
<1>5. CASE UNCHANGED vars
  BY <1>5
<1> QED BY <1>1, <1>2, <1>3, <1>4, <1>5 DEF Next

\* A fill, as the ledger sees it: what is in the position rows does not matter.
LEMMA FillsLedger ==
  ASSUME LedgerInv, LedgerInv', NEW w \in Workers, Commits(w)
  PROVE  run[w].signal \in Fillable /\ Ledger!FillProposal(Job(w), run[w].signal)
<1> DEFINE s == run[w].signal
<1>w. /\ s \in Signal /\ cash \in Nat /\ base \in Nat /\ cash' \in Nat /\ base' \in Nat
      /\ cash + base = Capital /\ Capital \in Nat
  BY CycleAssumption DEF LedgerInv, TypeOK, Conserved, Run
<1>1. /\ ~order[Job(w)].filled
      /\ order' = [order EXCEPT ![Job(w)] = [filled |-> TRUE, signal |-> s]]
  BY DEF Commits, Buy, Sell, Commit, Executed
<1>2. \/ s.side = "BUY" /\ cash >= s.amount /\ cash' = cash - s.amount /\ base' = base + s.amount
      \/ s.side = "SELL" /\ base >= s.amount /\ cash' = cash + s.amount /\ base' = base - s.amount
  BY DEF Commits, Buy, Sell, LedgerInv, HasSeen
<1>3. s.amount \in 0 .. Capital
  BY <1>w, <1>2 DEF Signal
<1>4. s \in Fillable
  BY <1>w, <1>3 DEF Signal, Fillable
<1>5. LET change == IF s.side = "BUY" THEN s.amount ELSE -s.amount
      IN  cash' = cash - change /\ base' = base + change
  BY <1>w, <1>2 DEF Signal
<1> QED BY <1>w, <1>1, <1>4, <1>5 DEF Ledger!FillProposal, Ledger!Unfilled

\* However the runs of the jobs overlap, are retried or cut short, they
\* implement the fill ledger: each proposal is filled at most once, in one
\* step with its order, and neither balance is overdrawn.  The balances are
\* changed in the database; the position row, which a SELL overwrites with what
\* it had read, is not part of the ledger (PositionFollowsBalance).
THEOREM CycleImplementsLedger == Spec => ImplementsLedger
<1>1. Init => Ledger!LedgerInit
  BY DEF Init, Ledger!LedgerInit, Ledger!Unfilled
<1>2. LedgerInv /\ LedgerInv' /\ [Next]_vars => [Ledger!LedgerNext]_Ledger!ledgerVars
  <2> SUFFICES ASSUME LedgerInv, LedgerInv', [Next]_vars
               PROVE  Ledger!LedgerNext \/ UNCHANGED Ledger!ledgerVars
      OBVIOUS
  <2>1. CASE UNCHANGED ledgerVars
    BY <2>1 DEF Ledger!ledgerVars
  <2>2. ASSUME NEW w \in Workers, Commits(w) PROVE Ledger!LedgerNext
    <3>1. run[w].signal \in Fillable /\ Ledger!FillProposal(Job(w), run[w].signal)
      BY <2>2, FillsLedger
    <3>2. Job(w) \in Jobs
      BY DEF LedgerInv, TypeOK, Run, Job
    <3> QED BY <3>1, <3>2 DEF Ledger!LedgerNext
  <2> QED BY <2>1, <2>2, LedgerWriters
<1> QED BY <1>1, <1>2, LedgerInit, LedgerStep, PTL DEF Spec, ImplementsLedger, Ledger!LedgerSpec

-----------------------------------------------------------------------------
(* The position rows.  A SELL writes the remainder of what it read before it *)
(* had a lock; that is the remainder of the row while no other fill commits  *)
(* in between.                                                               *)

\* A SELL about to write to its row knows what is in it.
ReadIsThere ==
  \A w \in Workers : run[w].pc = "selling" =>
    run[w].seen = position[run[w].row] /\ run[w].seen > 0

BalanceInv == LedgerInv /\ PositionIsBalance /\ ReadIsThere

LEMMA BalanceInit == Init => BalanceInv
<1> SUFFICES ASSUME Init PROVE PositionIsBalance /\ ReadIsThere
    BY LedgerInit DEF BalanceInv
<1>1. PICK r \in Jobs : TRUE
  BY CycleAssumption
<1>2. position = [q \in Jobs |-> IF q = r THEN base ELSE 0]
  BY DEF Init
<1> QED BY <1>2, IdleRunIsIdle DEF Init, PositionIsBalance, ReadIsThere

\* The row a fill writes to is the one that holds the asset.
LEMMA FillKeepsBalance ==
  ASSUME BalanceInv, NEW w \in Workers, Commits(w)
  PROVE  PositionIsBalance'
<1> USE DEF BalanceInv, LedgerInv, TypeOK
<1>w. /\ Job(w) \in Jobs /\ run[w].signal.amount \in Nat /\ run[w].row \in Jobs
      /\ base \in Nat /\ position \in [Jobs -> Nat]
  BY DEF Job, Run, Signal
<1>1. PICK r \in Jobs : position = [q \in Jobs |-> IF q = r THEN base ELSE 0]
  BY DEF PositionIsBalance
<1>2. CASE Buy(w)
  <2>1. PICK q \in Jobs : AddTo(q, run[w].signal.amount) /\ (q = r \/ base = 0)
    <3>1. CASE OpenRows = {}
      <4>1. base = 0
        BY <1>w, <1>1, <3>1 DEF OpenRows
      <4> QED BY <1>2, <1>w, <3>1, <4>1 DEF Buy
    <3>2. CASE OpenRows # {}
      BY <1>2, <1>1, <3>2 DEF Buy, OpenRows
    <3> QED BY <3>1, <3>2
  <2>2. position' = [p \in Jobs |-> IF p = q THEN base' ELSE 0]
    BY <1>2, <1>w, <1>1, <2>1 DEF Buy, AddTo
  <2> QED BY <2>2 DEF PositionIsBalance
<1>3. CASE Sell(w)
  <2>1. run[w].row = r /\ run[w].seen = base
    BY <1>3, <1>w, <1>1 DEF Sell, ReadIsThere
  <2>2. position' = [q \in Jobs |-> IF q = r THEN base' ELSE 0]
    BY <1>3, <1>w, <1>1, <2>1 DEF Sell
  <2> QED BY <2>2 DEF PositionIsBalance
<1> QED BY <1>2, <1>3 DEF Commits

LEMMA BalanceStep ==
  ASSUME FillsOneByOne, BalanceInv, [Next]_vars
  PROVE  BalanceInv'
<1> USE DEF BalanceInv
<1>0. TypeOK /\ LedgerInv'
  BY LedgerStep DEF LedgerInv
<1>1. PositionIsBalance'
  <2>1. CASE UNCHANGED ledgerVars
    BY <2>1 DEF PositionIsBalance
  <2> QED BY <2>1, LedgerWriters, FillKeepsBalance
<1>2. ASSUME NEW v \in Workers, run'[v].pc = "selling"
      PROVE  run'[v].seen = position'[run'[v].row] /\ run'[v].seen > 0
  <2>1. CASE FindPosition(v)
    <3>1. PICK r \in OpenRows :
            run' = [run EXCEPT ![v].pc = "selling", ![v].row = r, ![v].seen = position[r]]
      BY <2>1 DEF FindPosition
    <3> QED BY <1>0, <2>1, <3>1 DEF FindPosition, OpenRows, TypeOK, Run
  <2>2. CASE /\ run[v].pc = "selling"
             /\ run'[v].row = run[v].row /\ run'[v].seen = run[v].seen
    <3>1. run[v].seen = position[run[v].row] /\ run[v].seen > 0
      BY <2>2 DEF ReadIsThere
    <3>2. ASSUME NEW w \in Workers, Commits(w) PROVE FALSE
      <4>1. w = v
        BY <2>2, <3>2 DEF FillsOneByOne, Commits, Buy, Sell
      <4>2. run'[w].pc \in {"marking", "leveling"}
        BY <1>0, <3>2, SettledTyped DEF Commits, Buy, Sell, Commit, Goto, TypeOK, Run
      <4> QED BY <1>2, <4>1, <4>2
    <3> QED BY <2>2, <3>1, <3>2, LedgerWriters
  <2> QED BY <1>0, <1>2, <2>1, <2>2, ComesToSell
<1> QED BY <1>0, <1>1, <1>2 DEF ReadIsThere

\* The position that the strategies and the risk layers read is the balance the
\* bot has, in one open row, through crashes, retries and redeliveries, while one
\* worker at a time is in the fill transaction.  The code does not see to that: an
\* overlapping fill loses its change of the row to a SELL.
THEOREM PositionFollowsBalance ==
  Spec /\ []FillsOneByOne => []PositionIsBalance
<1>1. BalanceInv => PositionIsBalance
  BY DEF BalanceInv
<1>2. BalanceInv /\ FillsOneByOne /\ [Next]_vars => BalanceInv'
  BY BalanceStep
<1> QED BY <1>1, <1>2, BalanceInit, PTL DEF Spec

-----------------------------------------------------------------------------
(* Reservations.  A job reaches its fill only through a reservation row, so *)
(* an order has one; and the fill that writes the order consumes it.        *)

Holding == {"approving", "executing", "selling"}
ReservedFirst ==
  /\ \A w \in Workers : run[w].pc \in Holding => reservation[Job(w)].status # "NONE"
  /\ \A j \in Jobs : order[j].filled => reservation[j].status # "NONE"

ReservationInv == LedgerInv /\ ReservedFirst /\ ActiveHasNoOrder

\* What a step may do to reservations.
ReservationsKept ==
  \A j \in Jobs :
    /\ reservation'[j].amount = reservation[j].amount
    /\ \/ reservation'[j].status = reservation[j].status
       \/ reservation[j].status = "ACTIVE"
          /\ reservation'[j].status \in {"CONSUMED", "RELEASED"}

LEMMA ReservationWriters ==
  ASSUME LedgerInv, [Next]_vars
  PROVE  ReservationsKept \/ \E w \in Workers : Reserve(w)
<1> USE DEF LedgerInv, TypeOK, ReservationsKept
<1>1. ASSUME NEW w \in Workers, Cycle(w), ~Reserve(w) PROVE ReservationsKept
  <2>1. CASE Commits(w)
    <3>1. Consume(Job(w))
      BY <2>1 DEF Commits, Buy, Sell, Commit
    <3> QED BY <3>1 DEF Consume, Reservation
  <2>2. CASE ~Commits(w)
    BY <1>1, <2>2 DEF Commits, Cycle, Analyze, Propose, Reject, Block, CheckReservation, Decide,
                      FindOrder, FindPosition, CloseLevel, Rearm, MarkExecuted, Complete, Throw
  <2> QED BY <2>1, <2>2
<1>2. ASSUME NEW w \in Workers, (\E j \in Jobs : Take(w, j)) \/ Crash(w) \/ Recover(w)
      PROVE  ReservationsKept
  BY <1>2 DEF Take, Crash, Recover
<1>3. ASSUME NEW w \in Workers, Release(w) PROVE ReservationsKept
  <2>1. PICK j \in run[w].found :
          reservation' = [reservation EXCEPT ![j].status =
                            IF @ = "ACTIVE" THEN "RELEASED" ELSE @]
    BY <1>3 DEF Release
  <2> QED BY <2>1 DEF Reservation
<1>4. ASSUME NEW j \in Jobs, Stall(j) \/ Age(j) PROVE ReservationsKept
  BY <1>4 DEF Stall, Age, Reservation
<1>5. CASE External
  BY <1>5 DEF External
<1>6. CASE UNCHANGED vars
  BY <1>6
<1> QED BY <1>1, <1>2, <1>3, <1>4, <1>5, <1>6 DEF Next

\* A worker comes to approve, or to fill, only with a reservation row.
LEMMA ReachesReservation ==
  ASSUME LedgerInv, ReservedFirst, [Next]_vars, NEW v \in Workers, run'[v].pc \in Holding
  PROVE  reservation'[run'[v].job].status # "NONE"
<1> USE DEF LedgerInv, TypeOK, ReservedFirst, Job, Holding
<1>v. run[v].job \in Jobs
  BY DEF Run
<1>1. CASE run'[v].job = run[v].job /\ run[v].pc \in Holding
  <2>1. ASSUME NEW w \in Workers, Reserve(w) PROVE reservation'[run'[v].job].status # "NONE"
    BY <1>1, <1>v, <2>1 DEF Reserve, Run
  <2> QED BY <1>1, <1>v, <2>1, ReservationWriters DEF ReservationsKept
<1>2. CASE Cycle(v)
  <2>1. ASSUME NEW pc, Goto(v, pc) PROVE pc \in Holding /\ run'[v].job = run[v].job
    BY <2>1 DEF Goto, Run
  <2>2. ~Analyze(v)
    BY AnalyzeGoes
  <2>3. /\ ~Propose(v) /\ ~Reject(v) /\ ~Block(v)
        /\ ~CloseLevel(v) /\ ~Rearm(v) /\ ~MarkExecuted(v)
    BY <2>1 DEF Propose, Reject, Block, CloseLevel, Rearm, MarkExecuted
  <2>4. ~Complete(v) /\ ~Throw(v)
    BY IdleRunIsIdle DEF Complete, Throw
  <2>5. CASE CheckReservation(v)
    BY <1>v, <2>1, <2>5 DEF CheckReservation
  <2>6. CASE Reserve(v)
    BY <1>v, <2>1, <2>6 DEF Reserve
  <2>7. CASE Decide(v)
    <3>1. run[v].pc \in Holding
      BY <2>1, <2>7 DEF Decide
    <3> QED BY <1>1, <2>1, <2>7, <3>1 DEF Decide
  <2>8. CASE Filling(v)
    <3>1. run[v].pc \in Holding
      BY <2>8 DEF Filling, FindOrder, Buy, FindPosition, Sell
    <3> QED BY <1>1, <2>8, <3>1, FillingGoes
  <2> QED BY <1>2, <2>2, <2>3, <2>4, <2>5, <2>6, <2>7, <2>8 DEF Cycle, Filling
<1> QED BY <1>1, <1>2, WorkerMoves

LEMMA ReservationStep == ReservationInv /\ [Next]_vars => ReservationInv'
<1> SUFFICES ASSUME ReservationInv, [Next]_vars PROVE ReservationInv'
    OBVIOUS
<1>1. LedgerInv'
  BY LedgerStep DEF ReservationInv
<1>2. \A v \in Workers : run'[v].pc \in Holding => reservation'[run'[v].job].status # "NONE"
  BY ReachesReservation DEF ReservationInv
<1>3. ASSUME NEW j \in Jobs, order'[j].filled
      PROVE  reservation'[j].status \notin {"NONE", "ACTIVE"}
  <2> USE DEF ReservationInv, LedgerInv, TypeOK, ReservedFirst, ActiveHasNoOrder, Job
  <2>1. CASE order[j].filled
    <3>1. ASSUME NEW w \in Workers, Reserve(w)
          PROVE  reservation'[j] = reservation[j]
      BY <2>1, <3>1 DEF Reserve, Run
    <3> QED BY <2>1, <3>1, ReservationWriters DEF ReservationsKept
  <2>2. CASE ~order[j].filled
    <3>1. PICK w \in Workers : Commits(w)
      BY <1>3, <2>2, LedgerWriters
    <3>2. j = Job(w) /\ Consume(j)
      BY <1>3, <2>2, <3>1 DEF Commits, Buy, Sell, Commit, Executed, Run
    <3>3. reservation[j].status # "NONE"
      BY <3>1, <3>2 DEF Commits, Buy, Sell, Holding
    <3> QED BY <3>2, <3>3 DEF Consume, Reservation
  <2> QED BY <2>1, <2>2
<1> QED BY <1>1, <1>2, <1>3 DEF ReservationInv, ReservedFirst, ActiveHasNoOrder, Job

LEMMA ReservationInit == Init => ReservationInv
BY LedgerInit DEF Init, ReservationInv, ReservedFirst, Holding, ActiveHasNoOrder, IdleRun

\* A reservation that still locks capital never belongs to a filled proposal,
\* with any number of workers.
THEOREM ActiveReservationsHaveNoOrder == Spec => []ActiveHasNoOrder
<1>1. ReservationInv => ActiveHasNoOrder
  BY DEF ReservationInv
<1> QED BY <1>1, ReservationInit, ReservationStep, PTL DEF Spec

-----------------------------------------------------------------------------
(* One worker at a time handles a job.  Nothing then comes between the      *)
(* steps of a cycle but users, time and the cycles of other jobs, so that   *)
(* what it has read of its own job's rows still holds when it writes them.  *)

\* A cycle past the duplicate check has no order yet, a proposal is approved
\* only with an active reservation in hand, and both last until the fill.
HasRead(w) ==
  /\ Decides(w) => ~order[Job(w)].filled
  /\ run[w].pc \in Holding => reservation[Job(w)].status = "ACTIVE"
  /\ run[w].pc \in {"executing", "selling"} =>
       proposal[Job(w)].status \in {"APPROVED", "EXECUTED"}
CycleHasRead == \A w \in Workers : HasRead(w)

BackingInv == LedgerInv /\ CycleHasRead /\ OrdersKeepTheirBacking

LEMMA BackingInit == Init => BackingInv
BY LedgerInit DEF Init, BackingInv, CycleHasRead, HasRead, Decides, Holding,
                   OrdersKeepTheirBacking, IdleRun

LEMMA RowsStay ==
  ASSUME CycleHasRead, OrdersKeepTheirBacking, UNCHANGED <<order, proposal, reservation, run>>
  PROVE  CycleHasRead' /\ OrdersKeepTheirBacking'
BY DEF CycleHasRead, HasRead, Decides, Holding, OrdersKeepTheirBacking, Job

\* What a worker knows of its job lasts while nobody takes the rows back.
LEMMA StillRead ==
  ASSUME NEW v \in Workers, HasRead(v), run'[v].pc = run[v].pc, run'[v].job = run[v].job,
         Decides(v) =>
           /\ order'[Job(v)].filled = order[Job(v)].filled
           /\ reservation'[Job(v)].status = reservation[Job(v)].status
           /\ proposal[Job(v)].status \in {"APPROVED", "EXECUTED"} =>
                proposal'[Job(v)].status \in {"APPROVED", "EXECUTED"}
  PROVE  HasRead(v)'
BY DEF HasRead, Decides, Holding, Job

\* A step of one worker leaves the others what they know.
LEMMA OthersHaveRead ==
  ASSUME JobsOneByOne, BackingInv, NEW w \in Workers, Cycle(w), NEW v \in Workers \ {w}
  PROVE  HasRead(v)'
<1> USE DEF LedgerInv, TypeOK
<1>1. /\ run[w] \in Run /\ Job(w) \in Jobs /\ run[v] \in Run /\ Job(v) \in Jobs /\ HasRead(v)
      /\ Decides(v) /\ Decides(w) => Job(v) # Job(w)
  BY DEF BackingInv, CycleHasRead, JobsOneByOne, Handles, Run, Job
<1>2. run'[v] = run[v]
  BY OthersStay DEF BackingInv
<1>3. CASE Decides(w)
  <2>1. ASSUME NEW j \in Jobs, j # Job(w)
        PROVE  order'[j] = order[j] /\ reservation'[j] = reservation[j] /\ proposal'[j] = proposal[j]
    BY <1>3, <2>1
       DEF BackingInv, Decides, Cycle, Analyze, Propose, Reject, Block, CheckReservation, Reserve,
           Decide, FindOrder, Buy, FindPosition, Sell, Commit, Consume, CloseLevel, Rearm,
           MarkExecuted, Complete, Throw
  <2> QED BY <1>1, <1>2, <1>3, <2>1, StillRead
<1>4. CASE ~Decides(w)
  <2>1. UNCHANGED <<order, reservation>>
    BY <1>4 DEF Decides, Cycle, Analyze, Propose, Reject, Block, CheckReservation, Reserve,
                Decide, FindOrder, Buy, FindPosition, Sell, CloseLevel, Rearm, MarkExecuted,
                Complete, Throw
  <2>2. ASSUME NEW j \in Jobs, proposal[j].status \in {"APPROVED", "EXECUTED"}
        PROVE  proposal'[j].status \in {"APPROVED", "EXECUTED"}
    BY <1>1, <1>4, <2>2
       DEF BackingInv, Decides, Cycle, Analyze, Propose, Reject, Block, CheckReservation, Reserve,
           Decide, FindOrder, Buy, FindPosition, Sell, CloseLevel, Rearm, MarkExecuted,
           Complete, Throw, Proposal
  <2> QED BY <1>1, <1>2, <2>1, <2>2, StillRead
<1> QED BY <1>3, <1>4

LEMMA BackingStep ==
  ASSUME JobsOneByOne, BackingInv, [Next]_vars
  PROVE  BackingInv'
<1>0. LedgerInv'
  BY LedgerStep DEF BackingInv
<1> USE DEF BackingInv, LedgerInv, TypeOK, OrdersKeepTheirBacking
<1>1. ASSUME NEW w \in Workers, Cycle(w) PROVE CycleHasRead' /\ OrdersKeepTheirBacking'
  <2> SUFFICES HasRead(w)' /\ OrdersKeepTheirBacking'
      BY <1>1, OthersHaveRead DEF CycleHasRead
  <2>w. run[w] \in Run /\ Job(w) \in Jobs /\ run[w].pc \in Steps /\ HasRead(w)
    BY DEF CycleHasRead, Run, Job
  <2> USE <2>w DEF HasRead, Decides, Holding, Job, Goto, Proposal, Reservation, Order
  <2>1. ASSUME Analyze(w) PROVE HasRead(w)' /\ OrdersKeepTheirBacking'
    <3>1. run'[w].pc \in {"completing", "proposing"}
      BY <2>1, AnalyzeGoes
    <3> QED BY <2>1, <3>1 DEF Analyze
  <2>2. ASSUME Propose(w) PROVE HasRead(w)' /\ OrdersKeepTheirBacking'
    <3>1. /\ run'[w].job = run[w].job /\ UNCHANGED <<order, reservation>>
          /\ run'[w].pc = IF order[Job(w)].filled THEN "completing" ELSE "judging"
      BY <2>2 DEF Propose, Executed, Run
    <3>2. \A j \in Jobs : proposal[j].status \in {"APPROVED", "EXECUTED"} => proposal'[j] = proposal[j]
      BY <2>2 DEF Propose
    <3> QED BY <3>1, <3>2
  <2>3. ASSUME Reject(w) PROVE HasRead(w)' /\ OrdersKeepTheirBacking'
    BY <2>3 DEF Reject, Run
  <2>4. ASSUME Block(w) PROVE HasRead(w)' /\ OrdersKeepTheirBacking'
    BY <2>4 DEF Block, Run
  <2>5. ASSUME CheckReservation(w) PROVE HasRead(w)' /\ OrdersKeepTheirBacking'
    BY <2>5 DEF CheckReservation, Run
  <2>6. ASSUME Reserve(w) PROVE HasRead(w)' /\ OrdersKeepTheirBacking'
    BY <2>6 DEF Reserve, Run
  <2>7. ASSUME Decide(w) PROVE HasRead(w)' /\ OrdersKeepTheirBacking'
    BY <2>7 DEF Decide, Run
  <2>8. ASSUME Filling(w) PROVE HasRead(w)' /\ OrdersKeepTheirBacking'
    <3>1. ~FindOrder(w)
      BY DEF FindOrder, Executed
    <3>2. CASE Commits(w)
      <4>1. run[w].pc \in {"executing", "selling"} /\ Commit(w)
        BY <3>2 DEF Commits, Buy, Sell
      <4>2. /\ ~order[Job(w)].filled /\ reservation[Job(w)].status = "ACTIVE"
            /\ proposal[Job(w)].status \in {"APPROVED", "EXECUTED"}
        BY <4>1
      <4>3. /\ order' = [order EXCEPT ![Job(w)] = [filled |-> TRUE, signal |-> run[w].signal]]
            /\ Consume(Job(w)) /\ UNCHANGED proposal
        BY <4>1 DEF Commit
      <4>4. OrdersKeepTheirBacking'
        BY <4>2, <4>3 DEF Consume
      <4>5. run'[w].pc \in {"marking", "leveling"}
        BY <4>1, SettledTyped DEF Commit
      <4> QED BY <4>4, <4>5
    <3>3. CASE FindPosition(w)
      <4>1. /\ run'[w].job = run[w].job /\ run[w].pc = "executing"
            /\ UNCHANGED <<order, proposal, reservation>>
        BY <2>8, <3>3, FillingGoes DEF FindPosition
      <4> QED BY <4>1
    <3> QED BY <2>8, <3>1, <3>2, <3>3 DEF Filling, Commits
  <2>9. ASSUME CloseLevel(w) \/ Rearm(w) PROVE HasRead(w)' /\ OrdersKeepTheirBacking'
    BY <2>9 DEF CloseLevel, Rearm, Run
  <2>10. ASSUME MarkExecuted(w) PROVE HasRead(w)' /\ OrdersKeepTheirBacking'
    BY <2>10 DEF MarkExecuted, Run
  <2>11. ASSUME Complete(w) \/ Throw(w) PROVE HasRead(w)' /\ OrdersKeepTheirBacking'
    BY <2>11, IdleRunIsIdle DEF Complete, Throw
  <2> QED BY <1>1, <2>1, <2>2, <2>3, <2>4, <2>5, <2>6, <2>7, <2>8, <2>9, <2>10, <2>11
          DEF Cycle, Filling
<1>2. ASSUME NEW w \in Workers, (\E j \in Jobs : Take(w, j)) \/ Crash(w) \/ Recover(w) \/ Release(w)
      PROVE  CycleHasRead' /\ OrdersKeepTheirBacking'
  <2>w. run[w] \in Run /\ \A v \in Workers \ {w} : run'[v] = run[v]
    BY <1>2 DEF Take, Crash, Recover, Release
  <2>1. run'[w].pc \notin {"judging", "reserving", "approving", "refusing",
                            "executing", "selling"}
    <3>1. CASE \E j \in Jobs : Take(w, j)
      BY <2>w, <3>1 DEF Take, IdleRun
    <3>2. CASE Crash(w)
      BY <2>w, <3>2, IdleRunIsIdle DEF Crash
    <3>3. CASE Recover(w)
      BY <2>w, <3>3 DEF Recover, IdleRun
    <3>4. CASE Release(w)
      BY <2>w, <3>4, IdleRunIsIdle DEF Release, Run
    <3> QED BY <1>2, <3>1, <3>2, <3>3, <3>4
  <2>2. UNCHANGED <<order, proposal>>
    BY <1>2 DEF Take, Crash, Recover, Release
  <2>3. ASSUME NEW j \in Jobs, reservation'[j].status # reservation[j].status
        PROVE  /\ reservation[j].status = "ACTIVE" /\ ~order[j].filled
               /\ \A v \in Workers \ {w} : Decides(v) => Job(v) # j
    <3>1. Release(w) /\ j \in run[w].found /\ reservation[j].status = "ACTIVE"
      <4>1. Release(w)
        BY <1>2, <2>3 DEF Take, Crash, Recover
      <4>2. PICK i \in run[w].found :
              reservation' = [reservation EXCEPT ![i].status =
                                IF @ = "ACTIVE" THEN "RELEASED" ELSE @]
        BY <4>1 DEF Release
      <4>3. i \in Jobs /\ reservation \in [Jobs -> Reservation]
        BY <2>w DEF Run
      <4> QED BY <2>3, <4>1, <4>2, <4>3 DEF Reservation
    <3> QED BY <3>1 DEF JobsOneByOne, Handles, Release
  <2>4. OrdersKeepTheirBacking'
    BY <2>2, <2>3
  <2>5. ASSUME NEW v \in Workers PROVE HasRead(v)'
    <3>1. CASE v = w
      BY <2>1, <3>1 DEF HasRead, Decides, Holding
    <3>2. CASE v # w
      <4>1. HasRead(v) /\ Job(v) \in Jobs /\ run'[v] = run[v]
        BY <2>w, <3>2 DEF CycleHasRead, Job, Run
      <4> QED BY <2>2, <2>3, <3>2, <4>1, StillRead
    <3> QED BY <3>1, <3>2
  <2> QED BY <2>4, <2>5 DEF CycleHasRead
<1>3. ASSUME NEW j \in Jobs, Stall(j) \/ Age(j)
      PROVE  CycleHasRead' /\ OrdersKeepTheirBacking'
  <2>1. UNCHANGED <<order, proposal>> /\ \A i \in Jobs : reservation'[i].status = reservation[i].status
    <3>1. CASE Stall(j)
      BY <3>1 DEF Stall
    <3>2. CASE Age(j)
      BY <3>2 DEF Age, Reservation
    <3> QED BY <1>3, <3>1, <3>2
  <2>2. \A w \in Workers : run'[w].pc = run[w].pc /\ run'[w].job = run[w].job /\ run[w].job \in Jobs
    BY <1>3 DEF Stall, Age, Run
  <2>3. ASSUME NEW w \in Workers PROVE HasRead(w)'
    BY <2>1, <2>2, StillRead DEF CycleHasRead, Job
  <2> QED BY <2>1, <2>3 DEF CycleHasRead
<1>4. CASE External
  BY <1>0, <1>4, RowsStay DEF External
<1>5. CASE UNCHANGED vars
  BY <1>0, <1>5, RowsStay
<1> QED BY <1>0, <1>1, <1>2, <1>3, <1>4, <1>5 DEF Next

\* What was decided for an order stays, whatever crashes, retries, redeliveries
\* and recoveries come between the steps of any number of cycles, while a job is
\* handled by one worker at a time.
THEOREM OrdersAreBacked ==
  Spec /\ []JobsOneByOne => []OrdersKeepTheirBacking
<1>1. BackingInv => OrdersKeepTheirBacking
  BY DEF BackingInv
<1>2. BackingInv /\ JobsOneByOne /\ [Next]_vars => BackingInv'
  BY BackingStep
<1> QED BY <1>1, <1>2, BackingInit, PTL DEF Spec

-----------------------------------------------------------------------------
(* The sum of the active reservations.  A reservation is inserted in a step  *)
(* after the one that summed the others; with one worker at a time between   *)
(* the two the sum can only have fallen.  Only the capital the cycle saw     *)
(* matters, for a stop may have cleared the allocation since.                *)

Locked == [j \in Jobs |-> ActiveAmount(j)]

LEMMA ReservedIsSum ==
  /\ Reserved = SumFunctionOnSet(Locked, Jobs)
  /\ Reserved' = SumFunctionOnSet(Locked', Jobs)
BY DEF Reserved, Locked, SumFunction

LEMMA OverReservedIsSum == NeverOverReserved <=> Reserved =< Capital
BY DEF NeverOverReserved, Reserved, ActiveAmount

LEMMA LockedTyped ==
  ASSUME TypeOK, TypeOK'
  PROVE  \A j \in Jobs : Locked[j] \in Nat /\ Locked'[j] \in Nat
BY DEF TypeOK, Reservation, Locked, ActiveAmount

LEMMA ReservedTyped ==
  ASSUME IsFiniteSet(Jobs), TypeOK, TypeOK'
  PROVE  Reserved \in Nat /\ Reserved' \in Nat
<1>1. \A j \in Jobs : Locked[j] \in Nat /\ Locked'[j] \in Nat
  BY LockedTyped
<1> QED BY <1>1, ReservedIsSum, SumCovers

\* A reservation about to be inserted fits.
RoomLeft ==
  \A w \in Workers : run[w].pc = "reserving" => Reserved + Amount(w) =< Capital

RoomInv == LedgerInv /\ RoomLeft /\ Reserved =< Capital

LEMMA RoomInit ==
  ASSUME IsFiniteSet(Jobs), Init
  PROVE  RoomInv
<1>1. LedgerInv /\ TypeOK
  BY LedgerInit DEF LedgerInv
<1>2. \A j \in Jobs : Locked[j] = 0
  BY DEF Init, Locked, ActiveAmount
<1>3. Reserved = 0
  BY <1>2, ReservedIsSum, SumZero
<1>4. RoomLeft
  BY DEF RoomLeft, Init, IdleRun
<1> QED BY <1>1, <1>3, <1>4, CycleAssumption DEF RoomInv

\* Only an insertion makes the sum grow.
LEMMA ReservedFalls ==
  ASSUME IsFiniteSet(Jobs), TypeOK, TypeOK', ReservationsKept
  PROVE  Reserved' =< Reserved
<1>1. \A j \in Jobs : Locked[j] \in Nat /\ Locked'[j] \in Nat
  BY LockedTyped
<1>2. \A j \in Jobs : Locked'[j] =< Locked[j]
  BY <1>1 DEF ReservationsKept, Locked, ActiveAmount, TypeOK, Reservation
<1>3. SumFunctionOnSet(Locked', Jobs) =< SumFunctionOnSet(Locked, Jobs)
  BY <1>1, <1>2, SumMonotone
<1> QED BY <1>3, ReservedIsSum

LEMMA ReservedGrows ==
  ASSUME IsFiniteSet(Jobs), TypeOK, TypeOK', NEW w \in Workers, Reserve(w)
  PROVE  Reserved' = Reserved + Amount(w)
<1>j. Job(w) \in Jobs /\ Amount(w) \in Nat
  BY CycleAssumption DEF TypeOK, Run, Job, Amount, Signal
<1>1. \A j \in Jobs : Locked[j] \in Int /\ Locked'[j] \in Int
  BY LockedTyped
<1>2. Locked[Job(w)] = 0 /\ Locked'[Job(w)] = Amount(w)
  BY <1>j DEF Reserve, Locked, ActiveAmount, TypeOK
<1>3. \A j \in Jobs \ {Job(w)} : Locked[j] = Locked'[j]
  BY <1>j DEF Reserve, Locked, ActiveAmount, TypeOK
<1> DEFINE f == Locked
           g == Locked'
           x == Job(w)
<1> HIDE DEF f, g, x
<1>4. SumFunctionOnSet(g, Jobs) = SumFunctionOnSet(f, Jobs) - f[x] + g[x]
  BY <1>j, <1>1, <1>3, SumChange DEF f, g, x
<1>5. SumFunctionOnSet(f, Jobs) = Reserved /\ SumFunctionOnSet(g, Jobs) = Reserved'
  BY ReservedIsSum DEF f, g
<1> QED BY <1>j, <1>2, <1>4, <1>5, ReservedTyped DEF f, g, x

\* How a worker comes to stand before the insertion.
LEMMA ComesToReserve ==
  ASSUME TypeOK, [Next]_vars, NEW v \in Workers, run'[v].pc = "reserving"
  PROVE  \/ CheckReservation(v) /\ FitsAllocation(v)
         \/ run[v].pc = "reserving" /\ run'[v].signal = run[v].signal
<1>1. CASE Cycle(v)
  <2>1. ASSUME NEW pc, Goto(v, pc) PROVE pc = "reserving"
    BY <2>1 DEF Goto, TypeOK, Run
  <2>2. CASE Analyze(v)
    BY <2>2, AnalyzeGoes
  <2>3. CASE \/ Propose(v) \/ Reject(v) \/ Block(v) \/ Reserve(v) \/ Decide(v)
             \/ CloseLevel(v) \/ Rearm(v) \/ MarkExecuted(v)
    BY <2>1, <2>3 DEF Propose, Reject, Block, Reserve, Decide, CloseLevel, Rearm, MarkExecuted
  <2>4. CASE Filling(v)
    BY <2>4, FillingGoes
  <2>5. CASE Complete(v) \/ Throw(v)
    BY <2>5, IdleRunIsIdle DEF Complete, Throw, TypeOK
  <2>6. CASE CheckReservation(v)
    BY <2>1, <2>6 DEF CheckReservation
  <2> QED BY <1>1, <2>2, <2>3, <2>4, <2>5, <2>6 DEF Cycle, Filling
<1> QED BY <1>1, WorkerMoves

LEMMA RoomStep ==
  ASSUME ReservesOneByOne, IsFiniteSet(Jobs), RoomInv, [Next]_vars
  PROVE  RoomInv'
<1>0. LedgerInv /\ TypeOK /\ LedgerInv' /\ TypeOK'
  BY LedgerStep DEF RoomInv, LedgerInv
<1>n. Reserved \in Nat /\ Reserved' \in Nat /\ Capital \in Nat
  BY <1>0, ReservedTyped, CycleAssumption
<1>1. CASE \E w \in Workers : Reserve(w)
  <2>1. PICK w \in Workers : Reserve(w)
    BY <1>1
  <2>2. Reserved' = Reserved + Amount(w) /\ run[w].pc = "reserving"
    BY <1>0, <2>1, ReservedGrows DEF Reserve
  <2>3. Reserved' =< Capital
    BY <2>2 DEF RoomInv, RoomLeft
  <2>4. \A v \in Workers : run'[v].pc # "reserving"
    BY <1>0, <2>1 DEF ReservesOneByOne, Reserve, Goto, TypeOK, Run
  <2> QED BY <1>0, <2>3, <2>4 DEF RoomInv, RoomLeft
<1>2. CASE ~ \E w \in Workers : Reserve(w)
  <2>1. Reserved' =< Reserved
    BY <1>0, <1>2, ReservationWriters, ReservedFalls
  <2>2. Reserved' =< Capital
    BY <1>n, <2>1 DEF RoomInv
  <2>3. ASSUME NEW v \in Workers, run'[v].pc = "reserving"
        PROVE  Reserved' + Amount(v)' =< Capital
    <3>1. \/ CheckReservation(v) /\ FitsAllocation(v)
          \/ run[v].pc = "reserving" /\ run'[v].signal = run[v].signal
      BY <1>0, <2>3, ComesToReserve
    <3>2. Amount(v)' = Amount(v) /\ Amount(v) \in Nat
      BY <1>0, <3>1, CycleAssumption DEF CheckReservation, Goto, Amount, TypeOK, Run, Signal
    <3>3. CASE CheckReservation(v) /\ FitsAllocation(v)
      <4>1. Reserved + Amount(v) =< allocated /\ allocated \in {0, Capital}
        BY <1>0, <3>3 DEF FitsAllocation, TypeOK
      <4> QED BY <1>n, <2>1, <3>2, <4>1
    <3>4. CASE run[v].pc = "reserving"
      <4>1. Reserved + Amount(v) =< Capital
        BY <3>4 DEF RoomInv, RoomLeft
      <4> QED BY <1>n, <2>1, <3>2, <4>1
    <3> QED BY <3>1, <3>3, <3>4
  <2> QED BY <1>0, <2>2, <2>3 DEF RoomInv, RoomLeft
<1> QED BY <1>1, <1>2

\* Crashed, failed and retried cycles never leave more reserved than the hard
\* allocation, together with those in use, for any number of workers of which
\* one at a time is between the sum and the insert.
THEOREM ReservationsFit ==
  ASSUME IsFiniteSet(Jobs)
  PROVE  Spec /\ []ReservesOneByOne => []NeverOverReserved
<1>1. RoomInv => NeverOverReserved
  BY OverReservedIsSum DEF RoomInv
<1>2. RoomInv /\ ReservesOneByOne /\ [Next]_vars => RoomInv'
  BY RoomStep
<1>3. Init => RoomInv
  BY RoomInit
<1> QED BY <1>1, <1>2, <1>3, PTL DEF Spec
=============================================================================
