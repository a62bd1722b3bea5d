----------------------------- MODULE JobRuntime -----------------------------
(***************************************************************************)
(* The in-memory job runtime (packages/worker-runtime): handlers, a queue  *)
(* in arrival order, retries with backoff, dead letters and locks with a   *)
(* time to live.  runNext is called by a timer that does not wait for the  *)
(* call before it, so several handlers run at once.                        *)
(*                                                                         *)
(* Times are counted down by Tick: a job waits `wait' more ticks, a lock   *)
(* lasts `locks[id]' more, 0 being a lock that expired or was deleted.     *)
(***************************************************************************)
EXTENDS Integers, Sequences, SequencesExt, FiniteSets

CONSTANTS JobIds,       \* ids that callers enqueue
          Slots,        \* handlers in progress at once
          MaxAttempts,  \* options.maxAttempts
          BaseBackoff,  \* options.baseBackoffMs in ticks
          LockTtl,      \* options.lockTtlMs in ticks
          MaxDelay,     \* bound on the delay of an enqueue
          MaxAccepted   \* bound on the jobs that are enqueued

ASSUME RuntimeAssumption ==
  /\ "none" \notin JobIds
  /\ MaxAttempts \in Nat \ {0}
  /\ BaseBackoff \in Nat
  /\ LockTtl \in Nat \ {0}
  /\ MaxDelay \in Nat
  /\ MaxAccepted \in Nat

VARIABLES
  registered,   \* the handler is registered
  started,      \* the field `running'
  queue,        \* jobs that wait
  deadLetters,  \* jobs that failed for good
  locks,        \* remaining life of each id's lock
  handling,     \* what each handler in progress works on
  metrics,      \* the counters, without those of failures and heartbeats
  outlived      \* ids one of whose handlers outlived its lock

runtimeVars == <<registered, started, queue, deadLetters, locks, handling, metrics, outlived>>

-----------------------------------------------------------------------------
TwoTo[n \in Nat] == IF n = 0 THEN 1 ELSE 2 * TwoTo[n - 1]
Waits == 0 .. MaxDelay + BaseBackoff * TwoTo[MaxAttempts]
QueuedJob == [id: JobIds, attempts: 0 .. MaxAttempts, wait: Waits]
NoJob == [id |-> "none"]
Free(s) == handling[s].id = "none"
Ids(jobs) == {job.id : job \in ToSet(jobs)}

RuntimeInit ==
  /\ registered = FALSE
  /\ started = FALSE
  /\ queue = <<>>
  /\ deadLetters = <<>>
  /\ locks = [i \in JobIds |-> 0]
  /\ handling = [s \in Slots |-> NoJob]
  /\ metrics = [accepted |-> 0, queued |-> 0, active |-> 0, completed |-> 0,
                deadLettered |-> 0]
  /\ outlived = {}

Register ==
  /\ ~registered
  /\ registered' = TRUE
  /\ UNCHANGED <<started, queue, deadLetters, locks, handling, metrics, outlived>>

\* An id that waits or is a dead letter is refused, one that is being handled
\* is not.
EnqueueJob(i, delay) ==
  /\ metrics.accepted < MaxAccepted
  /\ registered
  /\ i \notin Ids(queue) \cup Ids(deadLetters)
  /\ queue' = Append(queue, [id |-> i, attempts |-> 0, wait |-> delay])
  /\ metrics' = [metrics EXCEPT !.accepted = @ + 1, !.queued = @ + 1]
  /\ UNCHANGED <<registered, started, deadLetters, locks, handling, outlived>>

\* runNext takes the first job that is due and not locked,
EligibleUnlocked(k) == queue[k].wait = 0
Eligible(k) == queue[k].wait = 0 /\ locks[queue[k].id] = 0
RunNext(s) ==
  /\ started
  /\ Free(s)
  /\ \E k \in DOMAIN queue :
       /\ Eligible(k)
       /\ \A j \in 1 .. k - 1 : ~Eligible(j)
       /\ queue' = RemoveAt(queue, k)
       /\ locks' = [locks EXCEPT ![queue[k].id] = LockTtl]
       /\ handling' = [handling EXCEPT ![s] =
            [id |-> queue[k].id, attempts |-> queue[k].attempts, left |-> LockTtl]]
  /\ metrics' = [metrics EXCEPT !.queued = @ - 1, !.active = @ + 1]
  /\ UNCHANGED <<registered, started, deadLetters, outlived>>

\* and its handler succeeds
Leave(s) ==
  /\ handling' = [handling EXCEPT ![s] = NoJob]
  /\ locks' = [locks EXCEPT ![handling[s].id] = 0]
Complete(s) ==
  /\ ~Free(s)
  /\ Leave(s)
  /\ metrics' = [metrics EXCEPT !.active = @ - 1, !.completed = @ + 1]
  /\ UNCHANGED <<registered, started, queue, deadLetters, outlived>>

\* or throws: the job waits for twice as long as after the attempt before, or
\* becomes a dead letter.
AttemptedForgotten(job) == [id |-> job.id, attempts |-> job.attempts, wait |-> BaseBackoff]
Attempted(job) ==
  [id |-> job.id, attempts |-> job.attempts + 1, wait |-> BaseBackoff * TwoTo[job.attempts]]
Fail(s) ==
  LET job == Attempted(handling[s])
      retry == job.attempts < MaxAttempts
  IN
  /\ ~Free(s)
  /\ Leave(s)
  /\ queue' = IF retry THEN Append(queue, job) ELSE queue
  /\ deadLetters' = IF retry THEN deadLetters ELSE Append(deadLetters, job)
  /\ metrics' =
       IF retry
       THEN [metrics EXCEPT !.active = @ - 1, !.queued = @ + 1]
       ELSE [metrics EXCEPT !.active = @ - 1, !.deadLettered = @ + 1]
  /\ UNCHANGED <<registered, started, outlived>>

\* Handlers in progress go on after a stop.
StartRuntime ==
  /\ ~started
  /\ started' = TRUE
  /\ UNCHANGED <<registered, queue, deadLetters, locks, handling, metrics, outlived>>
StopRuntime ==
  /\ started
  /\ started' = FALSE
  /\ UNCHANGED <<registered, queue, deadLetters, locks, handling, metrics, outlived>>

Earlier(n) == IF n > 0 THEN n - 1 ELSE 0
TimePasses ==
  /\ \/ \E i \in JobIds : locks[i] > 0
     \/ \E k \in DOMAIN queue : queue[k].wait > 0
     \/ \E s \in Slots : ~Free(s) /\ handling[s].left > 0
  /\ queue' = [k \in DOMAIN queue |-> [queue[k] EXCEPT !.wait = Earlier(@)]]
  /\ locks' = [i \in JobIds |-> Earlier(locks[i])]
  /\ handling' = [s \in Slots |->
       IF Free(s) THEN NoJob ELSE [handling[s] EXCEPT !.left = Earlier(@)]]
  /\ outlived' = outlived \cup {handling'[s].id : s \in {t \in Slots : ~Free(t) /\ handling'[t].left = 0}}
  /\ UNCHANGED <<registered, started, deadLetters, metrics>>

RuntimeStep(s) == RunNext(s) \/ Complete(s) \/ Fail(s)
RuntimeNext ==
  \/ Register
  \/ \E i \in JobIds, delay \in 0 .. MaxDelay : EnqueueJob(i, delay)
  \/ \E s \in Slots : RuntimeStep(s)
  \/ StartRuntime \/ StopRuntime \/ TimePasses

\* The timer calls runNext as long as the runtime is started again and again,
\* handlers end, and time goes on.
RuntimeFairness ==
  /\ WF_runtimeVars(StartRuntime)
  /\ WF_runtimeVars(TimePasses)
  /\ \A s \in Slots : SF_runtimeVars(RunNext(s)) /\ WF_runtimeVars(Complete(s) \/ Fail(s))
RuntimeSpec == RuntimeInit /\ [][RuntimeNext]_runtimeVars /\ RuntimeFairness

-----------------------------------------------------------------------------
(* Properties. *)

RuntimeTypeOK ==
  /\ registered \in BOOLEAN
  /\ started \in BOOLEAN
  /\ queue \in Seq(QueuedJob)
  /\ deadLetters \in Seq(QueuedJob)
  /\ locks \in [JobIds -> 0 .. LockTtl]
  /\ \A s \in Slots : Free(s) \/ handling[s] \in
       [id: JobIds, attempts: 0 .. MaxAttempts - 1, left: 0 .. LockTtl]
  /\ metrics.queued = Len(queue) /\ metrics.deadLettered = Len(deadLetters)
  /\ metrics.active = Cardinality({s \in Slots : ~Free(s)})
  /\ outlived \subseteq JobIds

\* Every job that was accepted waits, is being handled, was completed or is a
\* dead letter.
NoJobIsLost ==
  metrics.accepted =
    metrics.completed + Len(queue) + Len(deadLetters) + Cardinality({s \in Slots : ~Free(s)})

\* Two handlers work on one id at a time only if some handler of that id ran
\* longer than its lock, although the id may be enqueued again while it is being
\* handled and every handler's end deletes the lock, whoever set it.
OverlapsOutliveTheLock ==
  \A s, t \in Slots :
    s # t /\ ~Free(s) /\ ~Free(t) /\ handling[s].id = handling[t].id
      => handling[s].id \in outlived

\* Every job that was accepted is completed or becomes a dead letter, whatever
\* handlers throw and however often the runtime is stopped.
AcceptedJobsEnd ==
  []<>(metrics.accepted = metrics.completed + metrics.deadLettered)
=============================================================================
