----------------------------- MODULE LiveAccount -----------------------------
(***************************************************************************)
(* The LIVE side of one user's account: the exchange connections           *)
(* (exchange-connections.service.ts over packages/binance-connection) and  *)
(* the capital that the LIVE branch of BotsService.changeStatus claims on  *)
(* them.                                                                   *)
(*                                                                         *)
(* A request of the API reads in one step and writes in a later one, with  *)
(* the call of the exchange in between; the row may have changed by then.  *)
(* LIVE bots and their connections' capital come from the database: the    *)
(* API creates PAPER bots only.                                            *)
(***************************************************************************)
EXTENDS Integers, FiniteSets, Functions

CONSTANTS Connections,     \* labels; a label is used once, revoked or not
          Bots,            \* the LIVE bots
          Link,            \* Bot.exchangeConnectionId
          Authorized,      \* BotConfiguration.authorizedCapital
          Available,       \* ExchangeConnection.availableCapital, 0: no limit
          MaxConnections,  \* the plan's maxLiveConnections
          Callers,         \* requests the API serves at once
          KeysTried,       \* what API keys may be allowed to do
          OneByOne,        \* a user waits for an answer about a bot
          MaxClaims        \* bound on the capital claimed on a connection

ASSUME AccountAssumption ==
  /\ Bots # {} /\ Link \in [Bots -> Connections]
  /\ Authorized \in [Bots -> Nat \ {0}]
  /\ Available \in [Connections -> Nat]
  /\ MaxConnections \in Nat
  /\ KeysTried \subseteq {"trades", "withdraws", "reads", "invalid"}
  /\ OneByOne \in BOOLEAN
  /\ MaxClaims \in Nat

VARIABLES
  connection,  \* the ExchangeConnection rows
  allocated,   \* ExchangeConnection.allocatedCapital
  botStatus,   \* Bot.status
  key,         \* what the exchange lets each API key do
  found,       \* what the exchange ever answered about a key
  caller       \* the requests of the API

rows == <<connection, allocated, botStatus>>
accountVars == <<rows, key, found, caller>>

-----------------------------------------------------------------------------
Statuses == {"DISCONNECTED", "CONNECTED", "DEGRADED", "INVALID", "UNSAFE_PERMISSIONS"}
Connection ==
  [status: Statuses \cup {"NONE"},   \* NONE: no row yet
   secret: BOOLEAN,                  \* the ciphertexts are not empty
   revoked: BOOLEAN]
BotStatuses == {"READY", "RUNNING", "PAUSED", "STOPPED"}

Exists(c) == connection[c].status # "NONE"
Owned(c) == Exists(c) /\ ~connection[c].revoked

Caller ==
  [pc: {"idle", "counted", "testing", "tested", "revoking", "changing"},
   connection: Connections,
   answer: Statuses,        \* what a test is about to store
   bot: Bots, target: BotStatuses]
IdleCaller ==
  [pc |-> "idle", connection |-> CHOOSE c \in Connections : TRUE,
   answer |-> "DISCONNECTED", bot |-> CHOOSE b \in Bots : TRUE, target |-> "READY"]

NoConnection == [status |-> "NONE", secret |-> FALSE, revoked |-> FALSE]
NewConnection == [status |-> "DISCONNECTED", secret |-> TRUE, revoked |-> FALSE]
AccountInit ==
  /\ connection = [c \in Connections |->
       IF \E b \in Bots : Link[b] = c THEN NewConnection ELSE NoConnection]
  /\ allocated = [c \in Connections |-> 0]
  /\ botStatus = [b \in Bots |-> "READY"]
  /\ key \in [Connections -> KeysTried]
  /\ found = [c \in Connections |-> {}]
  /\ caller = [r \in Callers |-> IdleCaller]

Begin(r, record) == caller[r].pc = "idle" /\ caller' = [caller EXCEPT ![r] = record]
Answer(r) == caller' = [caller EXCEPT ![r] = IdleCaller]
Store(c, record) == connection' = [connection EXCEPT ![c] = record]

-----------------------------------------------------------------------------
(* create: the plan's limit is counted first, the row is inserted later *)

Unrevoked == {c \in Connections : Owned(c)}
CountConnections(r, c) ==
  /\ Cardinality(Unrevoked) < MaxConnections
  /\ Begin(r, [IdleCaller EXCEPT !.pc = "counted", !.connection = c])
  /\ UNCHANGED <<rows, key, found>>

\* and the unique label refuses a second row.
InsertConnection(r) ==
  LET c == caller[r].connection IN
  /\ caller[r].pc = "counted"
  /\ IF Exists(c) THEN UNCHANGED connection
     ELSE Store(c, NewConnection)
  /\ Answer(r)
  /\ UNCHANGED <<allocated, botStatus, key, found>>

-----------------------------------------------------------------------------
(* test: the ciphertexts of a row that is not revoked are read, *)
StartTest(r, c) ==
  /\ Owned(c)
  /\ Begin(r, [IdleCaller EXCEPT !.pc = "testing", !.connection = c])
  /\ UNCHANGED <<rows, key, found>>

\* What testConnection makes of the account the exchange shows.
VerdictOfTrading(k) ==
  CASE k = "invalid" -> "INVALID"
    [] k \in {"trades", "withdraws"} -> "CONNECTED"
    [] OTHER -> "DEGRADED"
Verdict(k) ==
  CASE k = "invalid" -> "INVALID"
    [] k = "withdraws" -> "UNSAFE_PERMISSIONS"
    [] k = "trades" -> "CONNECTED"
    [] OTHER -> "DEGRADED"
\* the exchange is asked,
AskExchange(r) ==
  LET c == caller[r].connection IN
  /\ caller[r].pc = "testing"
  /\ found' = [found EXCEPT ![c] = @ \cup {key[c]}]
  /\ caller' = [caller EXCEPT ![r] = [IdleCaller EXCEPT
                  !.pc = "tested", !.connection = c, !.answer = Verdict(key[c])]]
  /\ UNCHANGED <<rows, key>>

\* or it cannot be (DEGRADED), or the ciphertexts do not open (DISCONNECTED),
AskInVain(r) ==
  /\ caller[r].pc = "testing"
  /\ \E s \in {"DEGRADED", "DISCONNECTED"} :
       caller' = [caller EXCEPT ![r] = [IdleCaller EXCEPT
         !.pc = "tested", !.connection = caller[r].connection, !.answer = s]]
  /\ UNCHANGED <<rows, key, found>>

\* and the verdict is stored, whatever became of the row meanwhile.
PersistStatus(r) ==
  LET c == caller[r].connection IN
  /\ caller[r].pc = "tested"
  /\ Store(c, [connection[c] EXCEPT !.status = caller[r].answer])
  /\ Answer(r)
  /\ UNCHANGED <<allocated, botStatus, key, found>>
-----------------------------------------------------------------------------
(* revoke: the row stays, its ciphertexts do not *)

StartRevoke(r, c) ==
  /\ Owned(c)
  /\ Begin(r, [IdleCaller EXCEPT !.pc = "revoking", !.connection = c])
  /\ UNCHANGED <<rows, key, found>>

Revoked == [status |-> "DISCONNECTED", secret |-> FALSE, revoked |-> TRUE]
Revoke(r) ==
  /\ caller[r].pc = "revoking"
  /\ Store(caller[r].connection, Revoked)
  /\ Answer(r)
  /\ UNCHANGED <<allocated, botStatus, key, found>>

-----------------------------------------------------------------------------
(* changeStatus of a LIVE bot: the status is read and the transition checked, *)

\* A LIVE bot is never DRAFT (no wizard) nor RISK_BLOCKED (a PAPER affair).
Transitions ==
  [READY   |-> {"RUNNING"},
   RUNNING |-> {"PAUSED", "STOPPED"},
   PAUSED  |-> {"RUNNING", "STOPPED"},
   STOPPED |-> {"READY"}]
Busy(b) == \E r \in Callers : caller[r].pc = "changing" /\ caller[r].bot = b
StartChange(r, b, t) ==
  /\ OneByOne => ~Busy(b)
  /\ t \in Transitions[botStatus[b]]
  /\ Begin(r, [IdleCaller EXCEPT !.pc = "changing", !.bot = b, !.target = t])
  /\ UNCHANGED <<rows, key, found>>

FitsBefore(c, n) == Available[c] = 0 \/ allocated[c] =< Available[c]
Fits(c, n) == Available[c] = 0 \/ allocated[c] + n =< Available[c]
\* then one transaction: every start, a resume too, claims the capital if it
\* fits the connection (whose killSwitchActive nothing sets); a stop gives it back.
Claimed(c, b, t) ==
  CASE t = "RUNNING" -> allocated[c] + Authorized[b]
    [] t = "STOPPED" -> IF allocated[c] < Authorized[b] THEN 0 ELSE allocated[c] - Authorized[b]
    [] OTHER -> allocated[c]
Change(r) ==
  LET b == caller[r].bot
      t == caller[r].target
      c == Link[b]
  IN
  /\ caller[r].pc = "changing"
  /\ t = "RUNNING" => Fits(c, Authorized[b])
  /\ Claimed(c, b, t) =< MaxClaims
  /\ allocated' = [allocated EXCEPT ![c] = Claimed(c, b, t)]
  /\ botStatus' = [botStatus EXCEPT ![b] = t]
  /\ Answer(r)
  /\ UNCHANGED <<connection, key, found>>

-----------------------------------------------------------------------------
\* A query fails, the capital does not fit, or the API dies: nothing is stored.
Abandon(r) ==
  /\ caller[r].pc # "idle"
  /\ Answer(r)
  /\ UNCHANGED <<rows, key, found>>

\* The user edits the key at the exchange.
EditKey(c) ==
  /\ \E k \in KeysTried \ {key[c]} : key' = [key EXCEPT ![c] = k]
  /\ UNCHANGED <<rows, found, caller>>

AccountStep(r) ==
  \/ InsertConnection(r) \/ AskExchange(r) \/ AskInVain(r) \/ PersistStatus(r)
  \/ Revoke(r) \/ Change(r) \/ Abandon(r)
  \/ \E c \in Connections : CountConnections(r, c) \/ StartTest(r, c) \/ StartRevoke(r, c)
  \/ \E b \in Bots, t \in BotStatuses : StartChange(r, b, t)

AccountNext ==
  \/ \E r \in Callers : AccountStep(r)
  \/ \E c \in Connections : EditKey(c)

AccountSpec == AccountInit /\ [][AccountNext]_accountVars

-----------------------------------------------------------------------------
(* Properties. *)

AccountTypeOK ==
  /\ connection \in [Connections -> Connection]
  /\ allocated \in [Connections -> Nat]
  /\ botStatus \in [Bots -> BotStatuses]
  /\ key \in [Connections -> KeysTried]
  /\ found \in [Connections -> SUBSET KeysTried]
  /\ caller \in [Callers -> Caller]

\* A connection is only ever CONNECTED by a test that saw a key that trades and
\* cannot withdraw, however many tests overlap and whatever the user edits.
ConnectedKeysWereSafe ==
  \A c \in Connections : connection[c].status = "CONNECTED" => "trades" \in found[c]

\* What is claimed on a connection covers every LIVE bot that runs or is paused
\* (ADR-023) and fits what the connection offers, when bots start together and
\* as long as the requests about one bot come one by one.
Active(c) == {b \in Bots : Link[b] = c /\ botStatus[b] \in {"RUNNING", "PAUSED"}}
ActiveCapital(c) == SumFunctionOnSet(Authorized, Active(c))
ClaimsAreCovered ==
  \A c \in Connections :
    /\ allocated[c] >= ActiveCapital(c)
    /\ Available[c] > 0 => allocated[c] =< Available[c]

=============================================================================
