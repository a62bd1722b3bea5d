------------------------------ MODULE LiveGate ------------------------------
(***************************************************************************)
(* The gates between a LIVE order and the exchange, composed with the      *)
(* account whose connection they read: the live-submit job                 *)
(* (live-submit.ts, live-runtime.ts) and the kill switches of the          *)
(* administrator (admin-kill-switch.service.ts, packages/kill-switch).     *)
(*                                                                         *)
(* The job looks twice for a switch and decrypts the credentials once, in  *)
(* between; it then posts with what it has in memory.  What the risk       *)
(* engine decides is LiveRisk's, here it may go either way; what becomes   *)
(* of a posted order is LiveExecution's.                                   *)
(***************************************************************************)
EXTENDS LiveAccount

CONSTANTS Orders,   \* LIVE orders, persisted with their proposal
          Trader,   \* the bot of an order
          Jobs      \* live-submit jobs in progress at once

ASSUME GateAssumption ==
  /\ Orders # {} /\ Trader \in [Orders -> Bots]
  /\ {"SYSTEM", "USER"} \cap Bots = {}

VARIABLES
  switches,  \* the active KillSwitchState rows
  job,       \* the live-submit jobs
  posted     \* orders given to the exchange, with what held at that moment

gateVars == <<switches, job, posted>>
liveVars == <<accountVars, gateVars>>

Targets == {"SYSTEM", "USER"} \cup Bots
Blocked(b) == switches \cap {"SYSTEM", "USER", b} # {}

Job == [pc: {"idle", "read", "unblocked", "armed", "approved", "cleared"},
        order: Orders,
        passed: SUBSET {"switch", "revocation"}]   \* gates behind it when they closed
IdleJob == [pc |-> "idle", order |-> CHOOSE o \in Orders : TRUE, passed |-> {}]

GateInit ==
  /\ switches = {}
  /\ job = [j \in Jobs |-> IdleJob]
  /\ posted = {}

Proceed(j, pc) == job' = [job EXCEPT ![j].pc = pc]
End(j) == job' = [job EXCEPT ![j] = IdleJob]

-----------------------------------------------------------------------------
(* submitLiveOrder *)

\* The order is read with its bot, which must be READY or RUNNING.
ReadOrder(j, o) ==
  /\ job[j].pc = "idle"
  /\ botStatus[Trader[o]] \in {"READY", "RUNNING"}
  /\ job' = [job EXCEPT ![j] = [IdleJob EXCEPT !.pc = "read", !.order = o]]
  /\ UNCHANGED <<accountVars, switches, posted>>

\* A switch ends the job before anything is decrypted.
FirstLook(j) ==
  /\ job[j].pc = "read"
  /\ IF Blocked(Trader[job[j].order]) THEN End(j) ELSE Proceed(j, "unblocked")
  /\ UNCHANGED <<accountVars, switches, posted>>

\* createTestnetLiveExecutionEngine: only a CONNECTED row that is not revoked
\* is decrypted; the secrets stay with the job.
UsableByStatus(c) == connection[c].status = "CONNECTED"
Usable(c) ==
  connection[c].status = "CONNECTED" /\ ~connection[c].revoked /\ connection[c].secret
LoadEngine(j) ==
  /\ job[j].pc = "unblocked"
  /\ Usable(Link[Trader[job[j].order]])
  /\ Proceed(j, "armed")
  /\ UNCHANGED <<accountVars, switches, posted>>

\* The risk engine approves, or the job ends (GiveUp).
Approve(j) ==
  /\ job[j].pc = "armed"
  /\ Proceed(j, "approved")
  /\ UNCHANGED <<accountVars, switches, posted>>

\* The second look, as the risk took a while.
SecondLook(j) ==
  /\ job[j].pc = "approved"
  /\ IF Blocked(Trader[job[j].order]) THEN End(j) ELSE Proceed(j, "cleared")
  /\ UNCHANGED <<accountVars, switches, posted>>
\* The engine posts the order unless it did before.
Closed(b) ==
  (IF Blocked(b) THEN {"switch"} ELSE {})
    \cup (IF connection[Link[b]].revoked THEN {"revocation"} ELSE {})
SubmitOrder(j) ==
  LET o == job[j].order IN
  /\ job[j].pc = "cleared"
  /\ posted' = IF \E p \in posted : p.order = o THEN posted
               ELSE posted \cup {[order |-> o, slipped |-> Closed(Trader[o]) \ job[j].passed]}
  /\ End(j)
  /\ UNCHANGED <<accountVars, switches>>

\* A check rejects, a call throws, or the worker dies.
GiveUp(j) ==
  /\ job[j].pc # "idle"
  /\ End(j)
  /\ UNCHANGED <<accountVars, switches, posted>>

-----------------------------------------------------------------------------
(* The gates close.  A job remembers the gates that were behind it. *)

Past(j, gate) ==
  \/ gate = "switch" /\ job[j].pc = "cleared"
  \/ gate = "revocation" /\ job[j].pc \in {"armed", "approved", "cleared"}
Remember(gate, B) ==
  job' = [j \in Jobs |->
            IF Past(j, gate) /\ Trader[job[j].order] \in B
            THEN [job[j] EXCEPT !.passed = @ \cup {gate}] ELSE job[j]]

\* activate and deactivate; a switch stops one bot, a user's or all of them.
Covered(t) == IF t \in Bots THEN {t} ELSE Bots
Activate(t) ==
  /\ switches' = switches \cup {t}
  /\ Remember("switch", Covered(t))
  /\ UNCHANGED <<accountVars, posted>>
Deactivate(t) ==
  /\ t \in switches
  /\ switches' = switches \ {t}
  /\ UNCHANGED <<accountVars, job, posted>>

\* A step of the account; a revocation is remembered too.
AccountMoves(r) ==
  /\ AccountStep(r)
  /\ Remember("revocation", {b \in Bots : ~connection[Link[b]].revoked
                                           /\ connection'[Link[b]].revoked})
  /\ UNCHANGED <<switches, posted>>
KeyMoves == (\E c \in Connections : EditKey(c)) /\ UNCHANGED gateVars

JobStep(j) ==
  \/ FirstLook(j) \/ LoadEngine(j) \/ Approve(j) \/ SecondLook(j) \/ SubmitOrder(j)
  \/ GiveUp(j)
  \/ \E o \in Orders : ReadOrder(j, o)

GateNext ==
  \/ \E j \in Jobs : JobStep(j)
  \/ \E t \in Targets : Activate(t) \/ Deactivate(t)
  \/ \E r \in Callers : AccountMoves(r)
  \/ KeyMoves

GateInitial == AccountInit /\ GateInit
GateSpec == GateInitial /\ [][GateNext]_liveVars

-----------------------------------------------------------------------------
(* Properties. *)

GateTypeOK ==
  /\ switches \subseteq Targets
  /\ job \in [Jobs -> Job]
  /\ posted \subseteq [order: Orders, slipped: SUBSET {"switch", "revocation"}]

\* A kill switch stops every order but those of the jobs that had looked for it
\* the second time already, whichever scope it has and wherever a job is; and a
\* revocation every order but those of the jobs that had decrypted the credentials
\* already, even when a late test makes the row CONNECTED again (live-submit.ts:46,
\* live-runtime.ts:24, live-submit.ts:101).
StopsStopOrders == \A p \in posted : p.slipped = {}
=============================================================================
