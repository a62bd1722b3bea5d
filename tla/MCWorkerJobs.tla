---------------------------- MODULE MCWorkerJobs ----------------------------
(* Small instances of the scheduler, of the fills with their comparison and
   of the in-memory runtime.  They share no state; `scenario' picks the one that moves, so that their state spaces add
   instead of multiplying. *)
EXTENDS PaperScheduler, PaperFills, JobRuntime

CONSTANTS s1, s2, key1, w1, w2, buy, sell, f1, f2, f3, id1, h1, h2

VARIABLE scenario

TwoPasses == {s1, s2}
OneKey == {key1}
TwoWorkers == {w1, w2}
BuyAndSell == {buy, sell}
OnlyBuy == {buy}
ThreeFills == {f1, f2, f3}

OneId == {id1}
TwoHandlers == {h1, h2}

vars == <<scenario, schedulerVars, fillVars, runtimeVars>>
Ticking(A) == scenario = "ticks" /\ A /\ UNCHANGED <<scenario, fillVars, runtimeVars>>
Filling(A) == scenario = "fills" /\ A /\ UNCHANGED <<scenario, schedulerVars, runtimeVars>>
Running(A) == scenario = "jobs" /\ A /\ UNCHANGED <<scenario, schedulerVars, fillVars>>

MCInit ==
  /\ scenario \in {"ticks", "fills", "jobs"}
  /\ SchedulerInit /\ FillsInit /\ RuntimeInit
MCNext ==
  \/ Ticking(SchedulerNext) \/ Filling(FillsNext) \/ Running(RuntimeNext)

\* The fairness of the specifications, of the one that moves.
MCFairness ==
  /\ WF_vars(Ticking(Tick))
  /\ \A s \in Passes : WF_vars(Ticking(Work(s)))
  /\ \A w \in Workers :
       /\ WF_vars(Filling(StoreFill(w) \/ ReadTrades(w) \/ Flag(w) \/ EndCompare(w)))
       /\ SF_vars(Filling(StartCompare(w)))
  /\ WF_vars(Running(StartRuntime))
  /\ WF_vars(Running(TimePasses))
  /\ \A s \in Slots : /\ SF_vars(Running(RunNext(s)))
                      /\ WF_vars(Running(Complete(s) \/ Fail(s)))
MCSpec == MCInit /\ [][MCNext]_vars /\ MCFairness

\* Types, of every part.
TypesOK == SchedulerTypeOK /\ FillsTypeOK /\ RuntimeTypeOK
=============================================================================
