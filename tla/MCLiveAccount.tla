---------------------------- MODULE MCLiveAccount ----------------------------
(* Small instances of the LIVE account, its gates, its limits and the rules of
   the exchange.  The parts are checked one by one in a single run: `scenario'
   picks the part that moves, so that their state spaces add instead of
   multiplying. *)
EXTENDS LiveGate, LiveRisk, ExchangeRules

CONSTANTS c1, c2, b1, b2, r1, r2, o1, o2, j1, j2, buy1, buy2, sell1

VARIABLE scenario
Scenarios == {"connections", "capital", "gate", "limits", "rules"}

TwoConnections == {c1, c2}
TwoBots == {b1, b2}
LinkBoth == [b \in TwoBots |-> c1]
AuthorizedBoth == [b \in TwoBots |-> IF b = b1 THEN 2 ELSE 1]
Offers == [c \in TwoConnections |-> IF c = c1 THEN 4 ELSE 0]
AllKeys == {"trades", "withdraws", "reads", "invalid"}
TwoCallers == {r1, r2}
OrderOfEach == {o1, o2}
TraderOf == [o \in OrderOfEach |-> IF o = o1 THEN b1 ELSE b2]
TwoJobs == {j1, j2}
TwoBuys == {buy1, buy2}
OneSell == {sell1}
Closes == {2, 4}
\* "0.5", "0.75" and "3.0"; filters written with other numbers of digits, the
\* second without a step.
Numeral(n, digits) == [int |-> n, scale |-> digits]
SomeAmounts == {Numeral(5, 1), Numeral(75, 2), Numeral(30, 1)}
SomeNotionals == {Numeral(150, 2), Numeral(5, 0)}
SomeFilters == {[min |-> Numeral(50, 2), max |-> Numeral(9, 0), step |-> Numeral(10, 2)],
                [min |-> Numeral(0, 0), max |-> Numeral(10, 0), step |-> Numeral(0, 2)]}

\* Two requests at a time about a connection that is created, tested and
\* revoked while its key is edited; the other one keeps its key.
ConnectionsOnly ==
  /\ AccountNext
  /\ UNCHANGED <<gateVars, riskVars, rulesVars, allocated, botStatus>>
  /\ connection'[c1] = connection[c1] /\ key'[c1] = key[c1]
  /\ \A r \in Callers : caller'[r].pc # "idle" =>
       caller'[r].pc # "changing" /\ caller'[r].connection = c2

\* Two requests at a time that start, pause, resume and stop two bots.
CapitalOnly ==
  /\ AccountNext
  /\ UNCHANGED <<gateVars, riskVars, rulesVars, connection, key>>
  /\ \A r \in Callers : caller'[r].pc \in {"idle", "changing"}

\* The gates: one request starts, pauses or stops bot b1 or revokes the
\* connection that both use, another one tests it; a switch is thrown for all
\* bots or for b1; one job takes either order, the other the second one.
GateOnly ==
  /\ GateNext
  /\ UNCHANGED <<riskVars, rulesVars, key>>
  /\ switches' \subseteq {"SYSTEM", b1}
  /\ job'[j2].pc # "idle" => job'[j2].order = o2
  /\ caller'[r1].pc \in {"idle", "revoking", "changing"}
  /\ caller'[r1].pc = "changing" => caller'[r1].bot = b1
  /\ caller'[r2].pc \in {"idle", "testing", "tested"}
  /\ connection'[c2] = connection[c2] /\ botStatus'[b2] = botStatus[b2]

LimitsOnly == RiskNext /\ UNCHANGED <<liveVars, rulesVars>>

RulesOnly == RulesNext /\ UNCHANGED <<liveVars, riskVars>>

MCInit ==
  /\ scenario \in Scenarios
  /\ GateInitial
  /\ RiskInit
  /\ RulesInit
  /\ scenario # "limits" => price = 2 /\ riskRow = NoRow
  /\ scenario # "connections" => key = [c \in Connections |-> "trades"]
MCNext ==
  /\ UNCHANGED scenario
  /\ \/ scenario = "connections" /\ ConnectionsOnly
     \/ scenario = "capital" /\ CapitalOnly
     \/ scenario = "gate" /\ GateOnly
     \/ scenario = "limits" /\ LimitsOnly
     \/ scenario = "rules" /\ RulesOnly

\* Types, of every part.
TypesOK == AccountTypeOK /\ GateTypeOK /\ RiskTypeOK

MCSpec == MCInit /\ [][MCNext]_<<scenario, liveVars, riskVars, rulesVars>>
=============================================================================
