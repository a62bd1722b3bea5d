--------------------------- MODULE PaperScheduler ---------------------------
(***************************************************************************)
(* The schedule of one PAPER bot: the paper-scheduler job of the worker    *)
(* (paper-scheduler.ts) claims a tick by moving Bot.nextRunAt and then     *)
(* puts a bot-cycle job into the BullMQ queue, and the API queues a cycle  *)
(* on request (queue.service.ts, bots.controller.ts).                      *)
(*                                                                         *)
(* The scheduler's passes may overlap: it runs every ten seconds, a stalled*)
(* pass is run again and a deployment may have several workers.  The queue *)
(* keeps an id for a day, a second job of that id is not added.            *)
(***************************************************************************)
EXTENDS Integers, FiniteSets

CONSTANTS Passes,      \* passes of the scheduler in progress at once
          Interval,    \* evaluationIntervalMs, at least one
          Keys,        \* idempotency keys of cycles that a user asks for
          MaxTime,     \* bound on the clock
          MaxCrashes   \* bound on the crashes

ASSUME SchedulerAssumption ==
  /\ Interval \in Nat \ {0}
  /\ MaxTime \in Nat \ {0}
  /\ MaxCrashes \in Nat
  /\ Keys \cap Nat = {}

VARIABLES
  now,        \* the clock
  running,    \* the bot is RUNNING, PAPER and not archived
  nextRunAt,  \* Bot.nextRunAt, NoTime when null
  pass,       \* the passes of the scheduler
  jobs,       \* ids of the cycles in the queue: the tick, or the user's key
  claimed,    \* ticks claimed by a pass
  lost,       \* ticks whose pass died before it queued them
  crashes     \* number of crashes

botVars == <<running, nextRunAt>>
ticks == <<jobs, claimed, lost>>
schedulerVars == <<now, botVars, pass, ticks, crashes>>

-----------------------------------------------------------------------------
NoTime == 0
Larger(a, b) == IF a < b THEN b ELSE a

Pass == [pc: {"idle", "found", "claimed"}, at: 0 .. MaxTime,
         read: Nat,   \* nextRunAt as it was read
         tick: Nat]   \* the tick of its job
IdlePass == [pc |-> "idle", at |-> 0, read |-> NoTime, tick |-> 0]

SchedulerInit ==
  /\ now = 1
  /\ running = TRUE
  /\ nextRunAt = NoTime
  /\ pass = [s \in Passes |-> IdlePass]
  /\ jobs = {}
  /\ claimed = {}
  /\ lost = {}
  /\ crashes = 0

Pause == running' = ~running /\ UNCHANGED <<now, nextRunAt, pass, ticks, crashes>>
Tick ==
  /\ now < MaxTime
  /\ now' = now + 1
  /\ UNCHANGED <<botVars, pass, ticks, crashes>>

-----------------------------------------------------------------------------
(* schedulePaperCycles *)

\* A pass reads the bots that run; one whose time has not come is passed over.
Due == nextRunAt = NoTime \/ nextRunAt =< now
FindBot(s) ==
  /\ pass[s].pc = "idle"
  /\ running
  /\ Due
  /\ pass' = [pass EXCEPT ![s] = [pc |-> "found", at |-> now, read |-> nextRunAt,
                    tick |-> IF nextRunAt = NoTime THEN now ELSE nextRunAt]]
  /\ UNCHANGED <<now, botVars, ticks, crashes>>

\* The tick is claimed if nextRunAt is still what was read and the bot still
\* runs; the next one is an interval after this pass and after this tick.
Claimable(s) == running /\ nextRunAt = pass[s].read
ClaimTick(s) ==
  /\ pass[s].pc = "found"
  /\ IF Claimable(s)
     THEN /\ nextRunAt' = Larger(pass[s].at + Interval, pass[s].tick + Interval)
          /\ claimed' = claimed \cup {pass[s].tick}
          /\ pass' = [pass EXCEPT ![s].pc = "claimed"]
     ELSE /\ pass' = [pass EXCEPT ![s] = IdlePass]
          /\ UNCHANGED <<nextRunAt, claimed>>
  /\ UNCHANGED <<now, running, jobs, lost, crashes>>

\* queue.add, with an id made of the bot and the tick.
JobOfBot(s) == 0
JobId(s) == pass[s].tick
Enqueue(s) ==
  /\ pass[s].pc = "claimed"
  /\ jobs' = jobs \cup {JobId(s)}
  /\ pass' = [pass EXCEPT ![s] = IdlePass]
  /\ UNCHANGED <<now, botVars, claimed, lost, crashes>>

\* The worker dies, or Redis does not answer: a tick that was claimed is lost,
\* for nextRunAt has moved on.
Crash(s) ==
  /\ crashes < MaxCrashes
  /\ pass[s].pc # "idle"
  /\ lost' = IF pass[s].pc = "claimed" THEN lost \cup {pass[s].tick} ELSE lost
  /\ pass' = [pass EXCEPT ![s] = IdlePass]
  /\ crashes' = crashes + 1
  /\ UNCHANGED <<now, botVars, jobs, claimed>>

-----------------------------------------------------------------------------
\* POST /bots/:id/run of a bot that runs: a key that the queue knows is refused,
\* and one that is added in between is not added twice.
RunNow(k) ==
  /\ running
  /\ k \notin jobs
  /\ jobs' = jobs \cup {k}
  /\ UNCHANGED <<now, botVars, pass, claimed, lost, crashes>>

Work(s) == FindBot(s) \/ ClaimTick(s) \/ Enqueue(s)
SchedulerNext ==
  \/ Tick \/ Pause
  \/ \E s \in Passes : Work(s) \/ Crash(s)
  \/ \E k \in Keys : RunNow(k)

\* Time passes, and the scheduler's job is repeated for ever.
SchedulerFairness ==
  /\ WF_schedulerVars(Tick)
  /\ \A s \in Passes : WF_schedulerVars(Work(s))
SchedulerSpec == SchedulerInit /\ [][SchedulerNext]_schedulerVars /\ SchedulerFairness

-----------------------------------------------------------------------------
(* Properties. *)

SchedulerTypeOK ==
  /\ now \in 1 .. MaxTime
  /\ running \in BOOLEAN
  /\ nextRunAt \in Nat
  /\ pass \in [Passes -> Pass]
  /\ jobs \subseteq Nat \cup Keys
  /\ claimed \subseteq Nat
  /\ lost \subseteq claimed
  /\ crashes \in 0 .. MaxCrashes

TicksAreSpaced == \A t, u \in claimed : t < u => u - t >= Interval

\* The cycles that the scheduler queues are an interval apart, however many
\* passes overlap and whichever of them is late (ADR-026: an atomic claim); and
\* every tick of a bot that keeps running becomes a job, even after a crash: only
\* the tick whose pass died between the claim and the queue does not.
ScheduleIsKept ==
  /\ []TicksAreSpaced
  /\ \A t \in 1 .. MaxTime :
       nextRunAt = t ~> t \in jobs \/ t \in lost \/ ~running
=============================================================================
