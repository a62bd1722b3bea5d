-------------------------- MODULE LiveAccountProofs --------------------------
(***************************************************************************)
(* Theorems about the LIVE side of an account: its connections and the     *)
(* capital claimed on them (LiveAccount), the gates before a submission    *)
(* (LiveGate), the books of a bot (LiveRisk) and the exchange's rules      *)
(* (ExchangeRules). They hold for every set of connections, keys, bots,    *)
(* orders, prices, requests, jobs and decimal texts; the capital needs     *)
(* finitely many bots and the requests about one bot one by one, the books *)
(* finitely many orders.                                                   *)
(***************************************************************************)
EXTENDS LiveGate, LiveRisk, ExchangeRules, SumLemmas

USE DEF Statuses, BotStatuses, rows, accountVars

-----------------------------------------------------------------------------
(* Types of the account *)

LEMMA IdleCallerTyped == IdleCaller \in Caller
BY AccountAssumption DEF IdleCaller, Caller

LEMMA VerdictTyped == \A k : Verdict(k) \in Statuses
BY DEF Verdict

LEMMA AccountTypeInit == AccountInit => AccountTypeOK
<1> SUFFICES ASSUME AccountInit PROVE AccountTypeOK
    OBVIOUS
<1>1. NoConnection \in Connection /\ NewConnection \in Connection
  BY DEF NoConnection, NewConnection, Connection
<1> QED BY <1>1, IdleCallerTyped DEF AccountInit, AccountTypeOK

\* A request that begins keeps the table of the requests typed.
LEMMA BeginTyped ==
  ASSUME AccountTypeOK, NEW r \in Callers, NEW record \in Caller, Begin(r, record)
  PROVE  caller' \in [Callers -> Caller]
BY DEF AccountTypeOK, Begin

LEMMA AnswerTyped ==
  ASSUME AccountTypeOK, NEW r \in Callers, Answer(r)
  PROVE  caller' \in [Callers -> Caller]
BY IdleCallerTyped DEF AccountTypeOK, Answer

\* Every step of a request, and the user at the exchange, keep the types.
LEMMA AccountTypeStep == AccountTypeOK /\ [AccountNext]_accountVars => AccountTypeOK'
<1> SUFFICES ASSUME AccountTypeOK, [AccountNext]_accountVars PROVE AccountTypeOK'
    OBVIOUS
<1>0. AccountTypeOK
  OBVIOUS
<1> USE AccountAssumption DEF AccountTypeOK
<1>1. ASSUME NEW r \in Callers, AccountStep(r) PROVE AccountTypeOK'
  <2>c. /\ caller[r] \in Caller /\ caller[r].connection \in Connections
        /\ caller[r].answer \in Statuses
        /\ caller[r].bot \in Bots /\ caller[r].target \in BotStatuses
    BY DEF Caller
  <2>1. CASE InsertConnection(r)
    <3>1. NewConnection \in Connection
      BY DEF NewConnection, Connection
    <3>2. connection' \in [Connections -> Connection]
      BY <2>1, <2>c, <3>1 DEF InsertConnection, Store
    <3>3. Answer(r)
      BY <2>1 DEF InsertConnection
    <3> QED BY <2>1, <3>2, <1>0, <3>3, AnswerTyped DEF InsertConnection
  <2>2. CASE AskExchange(r)
    <3>1. [IdleCaller EXCEPT !.pc = "tested", !.connection = caller[r].connection,
                             !.answer = Verdict(key[caller[r].connection])] \in Caller
      BY IdleCallerTyped, VerdictTyped, <2>c DEF Caller
    <3> QED BY <2>2, <2>c, <3>1 DEF AskExchange
  <2>3. CASE AskInVain(r)
    <3>1. \A s \in {"DEGRADED", "DISCONNECTED"} :
            [IdleCaller EXCEPT !.pc = "tested", !.connection = caller[r].connection,
                               !.answer = s] \in Caller
      BY IdleCallerTyped, <2>c DEF Caller
    <3> QED BY <2>3, <3>1 DEF AskInVain
  <2>4. CASE PersistStatus(r)
    <3>1. [connection[caller[r].connection] EXCEPT !.status = caller[r].answer] \in Connection
      BY <2>c DEF Connection
    <3>2. connection' \in [Connections -> Connection]
      BY <2>4, <3>1 DEF PersistStatus, Store
    <3>3. Answer(r)
      BY <2>4 DEF PersistStatus
    <3> QED BY <2>4, <3>2, <1>0, <3>3, AnswerTyped DEF PersistStatus
  <2>5. CASE Revoke(r)
    <3>1. Revoked \in Connection
      BY DEF Revoked, Connection
    <3>2. Answer(r)
      BY <2>5 DEF Revoke
    <3> QED BY <2>5, <3>1, <1>0, <3>2, AnswerTyped DEF Revoke, Store
  <2>6. CASE Change(r)
    <3> DEFINE c == Link[caller[r].bot]
               claimed == Claimed(c, caller[r].bot, caller[r].target)
    <3>1. claimed \in Nat
      BY <2>c DEF Claimed
    <3>2. Answer(r) /\ allocated' = [allocated EXCEPT ![c] = claimed]
      BY <2>6 DEF Change
    <3> HIDE DEF claimed
    <3>3. allocated' \in [Connections -> Nat]
      BY <3>1, <3>2
    <3>4. botStatus' \in [Bots -> BotStatuses] /\ UNCHANGED <<connection, key, found>>
      BY <2>6, <2>c DEF Change
    <3> QED BY <3>2, <3>3, <3>4, <1>0, AnswerTyped
  <2>7. CASE Abandon(r)
    BY <2>7, <1>0, AnswerTyped DEF Abandon
  <2>8. ASSUME NEW c \in Connections,
               CountConnections(r, c) \/ StartTest(r, c) \/ StartRevoke(r, c)
        PROVE  AccountTypeOK'
    <3>1. \A pc \in {"counted", "testing", "revoking"} :
            [IdleCaller EXCEPT !.pc = pc, !.connection = c] \in Caller
      BY IdleCallerTyped DEF Caller
    <3>2. PICK pc \in {"counted", "testing", "revoking"} :
            Begin(r, [IdleCaller EXCEPT !.pc = pc, !.connection = c])
      BY <2>8 DEF CountConnections, StartTest, StartRevoke
    <3>3. caller' \in [Callers -> Caller]
      BY <1>0, <3>1, <3>2, BeginTyped
    <3> QED BY <2>8, <3>3 DEF CountConnections, StartTest, StartRevoke
  <2>9. ASSUME NEW b \in Bots, NEW t \in BotStatuses, StartChange(r, b, t)
        PROVE  AccountTypeOK'
    <3>1. [IdleCaller EXCEPT !.pc = "changing", !.bot = b, !.target = t] \in Caller
      BY IdleCallerTyped DEF Caller
    <3>2. caller' \in [Callers -> Caller]
      BY <1>0, <3>1, <2>9, BeginTyped DEF StartChange
    <3> QED BY <2>9, <3>2 DEF StartChange
  <2> QED BY <1>1, <2>1, <2>2, <2>3, <2>4, <2>5, <2>6, <2>7, <2>8, <2>9 DEF AccountStep
<1>2. ASSUME NEW c \in Connections, EditKey(c) PROVE AccountTypeOK'
  BY <1>2 DEF EditKey
<1>3. CASE UNCHANGED accountVars
  BY <1>3
<1> QED BY <1>1, <1>2, <1>3 DEF AccountNext

\* The tables of the account keep their types, whatever requests overlap.
THEOREM AccountTyped == AccountSpec => []AccountTypeOK
<1> QED BY AccountTypeInit, AccountTypeStep, PTL DEF AccountSpec

-----------------------------------------------------------------------------
(* Connected keys *)

\* What a test is about to store was seen at the exchange.
AnswersWereFound ==
  \A r \in Callers :
    caller[r].pc = "tested" /\ caller[r].answer = "CONNECTED"
      => "trades" \in found[caller[r].connection]

SafeKeysInv == AccountTypeOK /\ AnswersWereFound /\ ConnectedKeysWereSafe

LEMMA SafeKeysInit == AccountInit => SafeKeysInv
<1> SUFFICES ASSUME AccountInit PROVE SafeKeysInv
    OBVIOUS
<1>1. AccountTypeOK
  BY AccountTypeInit
<1>2. AnswersWereFound
  BY DEF AccountInit, AnswersWereFound, IdleCaller
<1>3. ConnectedKeysWereSafe
  BY DEF AccountInit, ConnectedKeysWereSafe, NoConnection, NewConnection
<1> QED BY <1>1, <1>2, <1>3 DEF SafeKeysInv

LEMMA SafeKeysStep == SafeKeysInv /\ [AccountNext]_accountVars => SafeKeysInv'
<1> SUFFICES ASSUME SafeKeysInv, [AccountNext]_accountVars PROVE SafeKeysInv'
    OBVIOUS
<1>t. AccountTypeOK /\ AccountTypeOK'
  BY AccountTypeStep DEF SafeKeysInv
<1> SUFFICES AnswersWereFound' /\ ConnectedKeysWereSafe'
    BY <1>t DEF SafeKeysInv
<1> USE <1>t DEF SafeKeysInv
\* A caller that answers or begins holds no answer, the others keep theirs.
<1>n. ASSUME UNCHANGED found, NEW r \in Callers,
             \A s \in Callers \ {r} : caller'[s] = caller[s],
             caller'[r].pc = "tested" => caller'[r].answer # "CONNECTED"
      PROVE  AnswersWereFound'
  BY <1>n DEF AnswersWereFound
<1>1. ASSUME NEW r \in Callers, AccountStep(r)
      PROVE  AnswersWereFound' /\ ConnectedKeysWereSafe'
  <2> DEFINE c == caller[r].connection
  <2>c. c \in Connections /\ caller[r] \in Caller
    BY DEF AccountTypeOK, Caller
  <2>a. ASSUME Answer(r), UNCHANGED found PROVE AnswersWereFound'
    BY <2>a, <1>n DEF Answer, IdleCaller, AccountTypeOK
  <2>1. CASE InsertConnection(r)
    <3>1. Answer(r) /\ UNCHANGED found
      BY <2>1 DEF InsertConnection
    <3>2. ConnectedKeysWereSafe'
      BY <2>1, <2>c DEF InsertConnection, Store, NewConnection, ConnectedKeysWereSafe,
                        AccountTypeOK
    <3> QED BY <3>1, <3>2, <2>a
  <2>2. CASE AskExchange(r)
    <3>1. /\ found' = [found EXCEPT ![c] = @ \cup {key[c]}]
          /\ caller' = [caller EXCEPT ![r] = [IdleCaller EXCEPT
                          !.pc = "tested", !.connection = c, !.answer = Verdict(key[c])]]
          /\ UNCHANGED connection
      BY <2>2 DEF AskExchange
    <3>2. \A d \in Connections : found[d] \subseteq found'[d]
      BY <3>1, <2>c DEF AccountTypeOK
    <3>3. Verdict(key[c]) = "CONNECTED" => "trades" \in found'[c]
      BY <3>1, <2>c DEF Verdict, AccountTypeOK
    <3>4. ConnectedKeysWereSafe'
      BY <3>1, <3>2 DEF ConnectedKeysWereSafe
    <3>5. ASSUME NEW s \in Callers, caller'[s].pc = "tested", caller'[s].answer = "CONNECTED"
          PROVE  "trades" \in found'[caller'[s].connection]
      <4>1. CASE s = r
        <5>1. caller'[r].answer = Verdict(key[c]) /\ caller'[r].connection = c
          BY <3>1 DEF AccountTypeOK, IdleCaller
        <5> QED BY <5>1, <3>3, <3>5, <4>1
      <4>2. CASE s # r
        <5>1. caller'[s] = caller[s] /\ caller[s].connection \in Connections
          BY <3>1, <4>2 DEF AccountTypeOK, Caller
        <5> QED BY <5>1, <3>2, <3>5 DEF AnswersWereFound
      <4> QED BY <4>1, <4>2
    <3> QED BY <3>4, <3>5 DEF AnswersWereFound
  <2>3. CASE AskInVain(r)
    <3>1. PICK v \in {"DEGRADED", "DISCONNECTED"} :
            caller' = [caller EXCEPT ![r] = [IdleCaller EXCEPT
                         !.pc = "tested", !.connection = c, !.answer = v]]
      BY <2>3 DEF AskInVain
    <3>2. caller'[r].answer = v /\ \A s \in Callers \ {r} : caller'[s] = caller[s]
      BY <3>1 DEF AccountTypeOK, IdleCaller
    <3>3. UNCHANGED found
      BY <2>3 DEF AskInVain
    <3>4. AnswersWereFound'
      BY <3>2, <3>3, <1>n
    <3> QED BY <3>4, <2>3 DEF AskInVain, ConnectedKeysWereSafe
  <2>4. CASE PersistStatus(r)
    <3>1. Answer(r) /\ UNCHANGED found
      BY <2>4 DEF PersistStatus
    <3>2. ASSUME NEW d \in Connections, connection'[d].status = "CONNECTED"
          PROVE  "trades" \in found[d]
      <4>1. CASE d = c
        <5>1. connection'[c].status = caller[r].answer
          BY <2>4, <2>c DEF PersistStatus, Store, AccountTypeOK, Connection
        <5> QED BY <5>1, <4>1, <3>2, <2>4 DEF AnswersWereFound, PersistStatus
      <4>2. CASE d # c
        BY <4>2, <3>2, <2>4 DEF PersistStatus, Store, AccountTypeOK, ConnectedKeysWereSafe
      <4> QED BY <4>1, <4>2
    <3>3. ConnectedKeysWereSafe'
      BY <3>1, <3>2 DEF ConnectedKeysWereSafe
    <3> QED BY <3>1, <3>3, <2>a
  <2>5. CASE Revoke(r)
    <3>1. Answer(r) /\ UNCHANGED found
      BY <2>5 DEF Revoke
    <3>2. ConnectedKeysWereSafe'
      BY <2>5, <2>c DEF Revoke, Store, Revoked, ConnectedKeysWereSafe, AccountTypeOK
    <3> QED BY <3>1, <3>2, <2>a
  <2>6. CASE Change(r) \/ Abandon(r)
    <3>1. Answer(r) /\ UNCHANGED <<connection, found>>
      BY <2>6 DEF Change, Abandon
    <3> QED BY <3>1, <2>a DEF ConnectedKeysWereSafe
  <2>7. ASSUME NEW d \in Connections,
               CountConnections(r, d) \/ StartTest(r, d) \/ StartRevoke(r, d)
        PROVE  AnswersWereFound' /\ ConnectedKeysWereSafe'
    <3>1. PICK pc \in {"counted", "testing", "revoking"} :
            Begin(r, [IdleCaller EXCEPT !.pc = pc, !.connection = d])
      BY <2>7 DEF CountConnections, StartTest, StartRevoke
    <3>2. caller'[r].pc = pc /\ \A s \in Callers \ {r} : caller'[s] = caller[s]
      BY <3>1 DEF Begin, AccountTypeOK, IdleCaller
    <3>3. UNCHANGED found
      BY <2>7 DEF CountConnections, StartTest, StartRevoke
    <3>4. AnswersWereFound'
      BY <3>2, <3>3, <1>n
    <3> QED BY <3>4, <2>7 DEF CountConnections, StartTest, StartRevoke, ConnectedKeysWereSafe
  <2>8. ASSUME NEW b \in Bots, NEW t \in BotStatuses, StartChange(r, b, t)
        PROVE  AnswersWereFound' /\ ConnectedKeysWereSafe'
    <3>1. AnswersWereFound'
      BY <2>8, <1>n DEF StartChange, Begin, AccountTypeOK, IdleCaller
    <3> QED BY <3>1, <2>8 DEF StartChange, ConnectedKeysWereSafe
  <2> QED BY <1>1, <2>1, <2>2, <2>3, <2>4, <2>5, <2>6, <2>7, <2>8 DEF AccountStep
<1>2. ASSUME NEW c \in Connections, EditKey(c)
      PROVE  AnswersWereFound' /\ ConnectedKeysWereSafe'
  BY <1>2 DEF EditKey, AnswersWereFound, ConnectedKeysWereSafe
<1>3. CASE UNCHANGED accountVars
  BY <1>3 DEF AnswersWereFound, ConnectedKeysWereSafe
<1> QED BY <1>1, <1>2, <1>3 DEF AccountNext

\* A connection is only CONNECTED by a test that saw its key trade without a
\* withdrawal, however many tests, revocations and edits of the key overlap.
THEOREM ConnectedKeysSafe == AccountSpec => []ConnectedKeysWereSafe
<1>1. SafeKeysInv => ConnectedKeysWereSafe
  BY DEF SafeKeysInv
<1> QED BY SafeKeysInit, SafeKeysStep, <1>1, PTL DEF AccountSpec

-----------------------------------------------------------------------------
(* Claimed capital *)

\* One request at a time changes a bot, and the transition that it checked is
\* still one when it writes.
OneEach ==
  \A r, s \in Callers :
    caller[r].pc = "changing" /\ caller[s].pc = "changing" /\ caller[r].bot = caller[s].bot
      => r = s
ChangesAreDue ==
  \A r \in Callers :
    caller[r].pc = "changing" => caller[r].target \in Transitions[botStatus[caller[r].bot]]

ClaimsInv == AccountTypeOK /\ OneEach /\ ChangesAreDue /\ ClaimsAreCovered

LEMMA ClaimsInit == ASSUME IsFiniteSet(Bots) PROVE AccountInit => ClaimsInv
<1> SUFFICES ASSUME AccountInit PROVE ClaimsInv
    OBVIOUS
<1>1. AccountTypeOK
  BY AccountTypeInit
<1>2. OneEach /\ ChangesAreDue
  BY DEF AccountInit, OneEach, ChangesAreDue, IdleCaller
<1>3. ASSUME NEW c \in Connections
      PROVE  allocated[c] >= ActiveCapital(c) /\ (Available[c] > 0 => allocated[c] =< Available[c])
  <2>1. Active(c) = {}
    BY DEF AccountInit, Active
  <2>2. ActiveCapital(c) = 0
    BY <2>1, SumEmpty DEF ActiveCapital
  <2> QED BY <2>2, AccountAssumption DEF AccountInit
<1> QED BY <1>1, <1>2, <1>3 DEF ClaimsInv, ClaimsAreCovered

\* The capital of the bots that run or are paused, in both states of a step.
LEMMA ActiveTyped ==
  ASSUME IsFiniteSet(Bots), NEW S \in SUBSET Bots
  PROVE  /\ IsFiniteSet(S)
         /\ SumFunctionOnSet(Authorized, S) \in Nat
         /\ \A b \in S : SumFunctionOnSet(Authorized, S)
                           = Authorized[b] + SumFunctionOnSet(Authorized, S \ {b})
         /\ \A b \in S : SumFunctionOnSet(Authorized, S \ {b}) \in Nat
         /\ \A b \in Bots \ S : SumFunctionOnSet(Authorized, S \cup {b})
                           = Authorized[b] + SumFunctionOnSet(Authorized, S)
<1>1. IsFiniteSet(S)
  BY FS_Subset
<1>2. \A b \in Bots : Authorized[b] \in Nat /\ Authorized[b] \in Int
  BY AccountAssumption
<1>3. \A b \in S : IsFiniteSet(S \ {b})
  BY <1>1, FS_RemoveElement
<1>4. SumFunctionOnSet(Authorized, S) \in Nat
  BY <1>1, <1>2, SumCovers
<1>5. ASSUME NEW b \in S PROVE SumFunctionOnSet(Authorized, S \ {b}) \in Nat
  BY <1>3, <1>2, SumCovers
<1>6. ASSUME NEW b \in S
      PROVE SumFunctionOnSet(Authorized, S)
              = Authorized[b] + SumFunctionOnSet(Authorized, S \ {b})
  BY <1>1, <1>2, SumRemove
<1>7. ASSUME NEW b \in Bots \ S
      PROVE SumFunctionOnSet(Authorized, S \cup {b})
              = Authorized[b] + SumFunctionOnSet(Authorized, S)
  BY <1>1, <1>2, SumInsert
<1> QED BY <1>1, <1>4, <1>5, <1>6, <1>7

LEMMA ActiveIsSum ==
  /\ \A c : ActiveCapital(c) = SumFunctionOnSet(Authorized, Active(c))
  /\ \A c : ActiveCapital(c)' = SumFunctionOnSet(Authorized, Active(c)')
BY DEF ActiveCapital

\* The transaction of a change keeps the claim of its connection.
LEMMA ChangeCovered ==
  ASSUME IsFiniteSet(Bots), AccountTypeOK, ChangesAreDue, ClaimsAreCovered,
         NEW r \in Callers, Change(r)
  PROVE  ClaimsAreCovered'
<1>1. caller[r].bot \in Bots /\ caller[r].target \in BotStatuses
  BY DEF AccountTypeOK, Caller
<1>2. PICK b \in Bots, t \in BotStatuses, c \in Connections :
        /\ caller[r].bot = b /\ caller[r].target = t /\ c = Link[b]
        /\ t \in Transitions[botStatus[b]]
  BY <1>1, AccountAssumption DEF Change, ChangesAreDue
<1>a. Authorized[b] \in Nat /\ botStatus[b] \in BotStatuses
  BY AccountAssumption DEF AccountTypeOK
<1>3. /\ allocated' = [allocated EXCEPT ![c] = Claimed(c, b, t)]
      /\ botStatus' = [botStatus EXCEPT ![b] = t]
      /\ t = "RUNNING" => Fits(c, Authorized[b])
  BY <1>2 DEF Change
<1>4. \A d \in Bots \ {b} : botStatus'[d] = botStatus[d]
  BY <1>a, <1>2, <1>3 DEF AccountTypeOK
<1>5. botStatus'[b] = t
  BY <1>a, <1>2, <1>3 DEF AccountTypeOK
<1>6. ASSUME NEW d \in Connections \ {c}
      PROVE  allocated'[d] = allocated[d] /\ Active(d)' = Active(d)
  BY <1>a, <1>2, <1>3, <1>4 DEF Active, AccountTypeOK
<1>7. Active(c) \in SUBSET Bots
  BY DEF Active
<1>8. allocated'[c] = Claimed(c, b, t) /\ allocated[c] \in Nat
  BY <1>a, <1>2, <1>3 DEF AccountTypeOK
<1>9. allocated[c] >= ActiveCapital(c) /\ (Available[c] > 0 => allocated[c] =< Available[c])
  BY DEF ClaimsAreCovered
<1>10. Available[c] \in Nat
  BY <1>a, <1>2, AccountAssumption
<1>t. t \in BotStatuses \ {"RUNNING", "STOPPED"} => Active(c)' = Active(c)
  BY <1>a, <1>2, <1>4, <1>5 DEF Active, Transitions
<1>c. allocated'[c] >= ActiveCapital(c)' /\ (Available[c] > 0 => allocated'[c] =< Available[c])
  <2>1. CASE t = "RUNNING"
    <3>1. allocated'[c] = allocated[c] + Authorized[b]
      BY <2>1, <1>8 DEF Claimed
    <3>2. Available[c] > 0 => allocated'[c] =< Available[c]
      BY <3>1, <2>1, <1>3, <1>10 DEF Fits
    <3>3. CASE b \in Active(c)
      <4>1. Active(c)' = Active(c)
        BY <1>a, <1>2, <1>4, <1>5, <2>1, <3>3 DEF Active
      <4>2. ActiveCapital(c)' = ActiveCapital(c) /\ ActiveCapital(c) \in Nat
        BY <4>1, <1>7, ActiveIsSum, ActiveTyped
      <4> QED BY <3>1, <3>2, <4>2, <1>a, <1>2, <1>8, <1>9
    <3>4. CASE b \notin Active(c)
      <4>1. Active(c)' = Active(c) \cup {b}
        BY <1>a, <1>2, <1>4, <1>5, <2>1, <3>4 DEF Active
      <4>2. ActiveCapital(c)' = Authorized[b] + ActiveCapital(c) /\ ActiveCapital(c) \in Nat
        BY <4>1, <1>a, <1>2, <3>4, <1>7, ActiveIsSum, ActiveTyped
      <4> QED BY <3>1, <3>2, <4>2, <1>a, <1>2, <1>8, <1>9
    <3> QED BY <3>3, <3>4
  <2>2. CASE t = "STOPPED"
    <3>1. b \in Active(c)
      BY <2>2, <1>a, <1>2 DEF Active, Transitions
    <3>2. Active(c)' = Active(c) \ {b}
      BY <1>a, <1>2, <1>4, <1>5, <2>2 DEF Active
    <3>3. /\ ActiveCapital(c) = Authorized[b] + ActiveCapital(c)'
          /\ ActiveCapital(c)' \in Nat
      BY <3>1, <3>2, <1>7, ActiveIsSum, ActiveTyped
    <3>4. allocated'[c] = allocated[c] - Authorized[b]
      BY <3>3, <2>2, <1>a, <1>2, <1>8, <1>9 DEF Claimed
    <3> QED BY <3>3, <3>4, <1>a, <1>2, <1>8, <1>9, <1>10
  <2>3. CASE t \notin {"RUNNING", "STOPPED"}
    <3>1. Active(c)' = Active(c)
      BY <1>t, <1>a, <1>2, <2>3
    <3>2. ActiveCapital(c)' = ActiveCapital(c)
      BY <3>1, ActiveIsSum
    <3>3. allocated'[c] = allocated[c]
      BY <2>3, <1>8 DEF Claimed
    <3> QED BY <3>2, <3>3, <1>9
  <2> QED BY <2>1, <2>2, <2>3
<1>d. ASSUME NEW d \in Connections \ {c}
      PROVE  allocated'[d] >= ActiveCapital(d)' /\ (Available[d] > 0 => allocated'[d] =< Available[d])
  <2>1. ActiveCapital(d)' = ActiveCapital(d)
    BY <1>6, ActiveIsSum
  <2> QED BY <2>1, <1>6 DEF ClaimsAreCovered
<1> QED BY <1>c, <1>d DEF ClaimsAreCovered

LEMMA ClaimsStep ==
  ASSUME OneByOne, IsFiniteSet(Bots)
  PROVE  ClaimsInv /\ [AccountNext]_accountVars => ClaimsInv'
<1> SUFFICES ASSUME ClaimsInv, [AccountNext]_accountVars PROVE ClaimsInv'
    OBVIOUS
<1>t. AccountTypeOK /\ AccountTypeOK'
  BY AccountTypeStep DEF ClaimsInv
<1> SUFFICES OneEach' /\ ChangesAreDue' /\ ClaimsAreCovered'
    BY <1>t DEF ClaimsInv
<1> USE <1>t DEF ClaimsInv
\* Whoever changes no bot after the step endangers no one.
<1>n. ASSUME NEW r \in Callers, \A s \in Callers \ {r} : caller'[s] = caller[s],
             caller'[r].pc # "changing", UNCHANGED botStatus
      PROVE  OneEach' /\ ChangesAreDue'
  BY <1>n DEF OneEach, ChangesAreDue
<1>k. ASSUME UNCHANGED <<allocated, botStatus>> PROVE ClaimsAreCovered'
  <2>1. \A c \in Connections : Active(c)' = Active(c)
    BY <1>k DEF Active
  <2>2. \A c \in Connections : ActiveCapital(c)' = ActiveCapital(c)
    BY <2>1, ActiveIsSum
  <2> QED BY <2>2, <1>k DEF ClaimsAreCovered
<1>1. ASSUME NEW r \in Callers, AccountStep(r)
      PROVE  OneEach' /\ ChangesAreDue' /\ ClaimsAreCovered'
  <2>1. CASE InsertConnection(r) \/ PersistStatus(r) \/ Revoke(r) \/ Abandon(r)
    <3>1. Answer(r) /\ UNCHANGED <<allocated, botStatus>>
      BY <2>1 DEF InsertConnection, PersistStatus, Revoke, Abandon
    <3>2. caller'[r].pc # "changing" /\ \A s \in Callers \ {r} : caller'[s] = caller[s]
      BY <3>1 DEF Answer, IdleCaller, AccountTypeOK
    <3> QED BY <3>1, <3>2, <1>n, <1>k
  <2>2. CASE AskExchange(r) \/ AskInVain(r)
    <3>1. PICK v :
            caller' = [caller EXCEPT ![r] = [IdleCaller EXCEPT
                         !.pc = "tested", !.connection = caller[r].connection, !.answer = v]]
      BY <2>2 DEF AskExchange, AskInVain
    <3>2. caller'[r].pc # "changing" /\ \A s \in Callers \ {r} : caller'[s] = caller[s]
      BY <3>1 DEF IdleCaller, AccountTypeOK
    <3>3. UNCHANGED <<allocated, botStatus>>
      BY <2>2 DEF AskExchange, AskInVain
    <3> QED BY <3>3, <3>2, <1>n, <1>k
  <2>3. CASE Change(r)
    <3>1. ClaimsAreCovered'
      BY <2>3, ChangeCovered
    <3>2. /\ caller[r].pc = "changing" /\ caller'[r].pc # "changing"
          /\ \A s \in Callers \ {r} : caller'[s] = caller[s]
      BY <2>3 DEF Change, Answer, IdleCaller, AccountTypeOK
    <3>3. OneEach'
      BY <3>2 DEF OneEach
    <3>4. \A s \in Callers : caller'[s].pc = "changing" =>
            /\ caller'[s] = caller[s] /\ caller[s].bot \in Bots
            /\ caller[s].bot # caller[r].bot
      BY <3>2 DEF OneEach, AccountTypeOK, Caller
    <3>5. \A b \in Bots \ {caller[r].bot} : botStatus'[b] = botStatus[b]
      BY <2>3 DEF Change, AccountTypeOK
    <3>6. ChangesAreDue'
      BY <3>4, <3>5 DEF ChangesAreDue
    <3> QED BY <3>1, <3>3, <3>6
  <2>4. ASSUME NEW c \in Connections,
               CountConnections(r, c) \/ StartTest(r, c) \/ StartRevoke(r, c)
        PROVE  OneEach' /\ ChangesAreDue' /\ ClaimsAreCovered'
    <3>1. PICK pc \in {"counted", "testing", "revoking"} :
            Begin(r, [IdleCaller EXCEPT !.pc = pc, !.connection = c])
      BY <2>4 DEF CountConnections, StartTest, StartRevoke
    <3>2. caller'[r].pc # "changing" /\ \A s \in Callers \ {r} : caller'[s] = caller[s]
      BY <3>1 DEF Begin, AccountTypeOK, IdleCaller
    <3>3. UNCHANGED <<allocated, botStatus>>
      BY <2>4 DEF CountConnections, StartTest, StartRevoke
    <3> QED BY <3>3, <3>2, <1>n, <1>k
  <2>5. ASSUME NEW b \in Bots, NEW t \in BotStatuses, StartChange(r, b, t)
        PROVE  OneEach' /\ ChangesAreDue' /\ ClaimsAreCovered'
    <3>1. /\ t \in Transitions[botStatus[b]]
          /\ \A s \in Callers : ~(caller[s].pc = "changing" /\ caller[s].bot = b)
          /\ UNCHANGED <<allocated, botStatus>>
      BY <2>5 DEF StartChange, Busy
    <3>2. /\ caller'[r].bot = b /\ caller'[r].target = t
          /\ \A s \in Callers \ {r} : caller'[s] = caller[s]
      BY <2>5 DEF StartChange, Begin, AccountTypeOK, IdleCaller
    <3>3. OneEach'
      BY <3>1, <3>2 DEF OneEach
    <3>4. ChangesAreDue'
      BY <3>1, <3>2 DEF ChangesAreDue
    <3> QED BY <3>1, <3>3, <3>4, <1>k
  <2> QED BY <1>1, <2>1, <2>2, <2>3, <2>4, <2>5 DEF AccountStep
<1>2. ASSUME NEW c \in Connections, EditKey(c)
      PROVE  OneEach' /\ ChangesAreDue' /\ ClaimsAreCovered'
  BY <1>2, <1>k DEF EditKey, OneEach, ChangesAreDue
<1>3. CASE UNCHANGED accountVars
  BY <1>3, <1>k DEF OneEach, ChangesAreDue
<1> QED BY <1>1, <1>2, <1>3 DEF AccountNext

\* What is claimed on a connection covers the bots that run or are paused and
\* fits what the connection offers, for any number of bots that start, pause,
\* resume and stop together, if the requests about one bot come one by one.
THEOREM ClaimsCovered ==
  ASSUME OneByOne, IsFiniteSet(Bots)
  PROVE  AccountSpec => []ClaimsAreCovered
<1>1. ClaimsInv => ClaimsAreCovered
  BY DEF ClaimsInv
<1> QED BY ClaimsInit, ClaimsStep, <1>1, PTL DEF AccountSpec

-----------------------------------------------------------------------------
(* The gates *)

\* Every step of the composition is a step of the account or leaves it alone.
LEMMA GateStepIsAccountStep == [GateNext]_liveVars => [AccountNext]_accountVars
<1>1. \A j \in Jobs : JobStep(j) => UNCHANGED accountVars
  BY DEF JobStep, FirstLook, LoadEngine, Approve, SecondLook, SubmitOrder, GiveUp, ReadOrder
<1>2. \A t \in Targets : Activate(t) \/ Deactivate(t) => UNCHANGED accountVars
  BY DEF Activate, Deactivate
<1>3. \A r \in Callers : AccountMoves(r) => AccountNext
  BY DEF AccountMoves, AccountNext
<1>4. KeyMoves => AccountNext
  BY DEF KeyMoves, AccountNext
<1> QED BY <1>1, <1>2, <1>3, <1>4 DEF GateNext, liveVars

\* The account behaves behind the gates as it does alone, so that its theorems
\* hold of the composition too.
THEOREM GateImplementsAccount == GateSpec => AccountSpec
<1>1. GateInitial => AccountInit
  BY DEF GateInitial
<1> QED BY <1>1, GateStepIsAccountStep, PTL DEF GateSpec, AccountSpec

Gates == {"switch", "revocation"}

\* A gate that is closed now and lies behind a job was passed while it was open,
\* and the job remembers that.
SwitchRemembered ==
  \A j \in Jobs :
    job[j].pc = "cleared" /\ Blocked(Trader[job[j].order]) => "switch" \in job[j].passed
RevocationRemembered ==
  \A j \in Jobs :
    /\ job[j].pc \in {"armed", "approved", "cleared"}
    /\ connection[Link[Trader[job[j].order]]].revoked
    => "revocation" \in job[j].passed

GateInv ==
  /\ AccountTypeOK /\ GateTypeOK
  /\ SwitchRemembered /\ RevocationRemembered /\ StopsStopOrders

LEMMA IdleJobTyped == IdleJob \in Job
BY GateAssumption DEF IdleJob, Job

LEMMA GateInvInit == GateInitial => GateInv
<1> SUFFICES ASSUME GateInitial PROVE GateInv
    OBVIOUS
<1>1. AccountTypeOK
  BY AccountTypeInit DEF GateInitial
<1>2. GateTypeOK
  BY IdleJobTyped DEF GateInitial, GateInit, GateTypeOK
<1>3. SwitchRemembered /\ RevocationRemembered /\ StopsStopOrders
  BY DEF GateInitial, GateInit, IdleJob, SwitchRemembered, RevocationRemembered, StopsStopOrders
<1> QED BY <1>1, <1>2, <1>3 DEF GateInv

\* A gate that closes is remembered by the jobs that it lies behind.
LEMMA RememberKeeps ==
  ASSUME GateTypeOK, NEW gate \in Gates, NEW B, Remember(gate, B)
  PROVE  /\ job' \in [Jobs -> Job]
         /\ \A j \in Jobs :
              /\ job'[j].pc = job[j].pc /\ job'[j].order = job[j].order
              /\ job[j].passed \subseteq job'[j].passed
              /\ Past(j, gate) /\ Trader[job[j].order] \in B => gate \in job'[j].passed
<1>1. ASSUME NEW j \in Jobs
      PROVE  /\ job'[j] \in Job
             /\ job'[j].pc = job[j].pc /\ job'[j].order = job[j].order
             /\ job[j].passed \subseteq job'[j].passed
             /\ Past(j, gate) /\ Trader[job[j].order] \in B => gate \in job'[j].passed
  <2>1. job[j] \in Job
    BY DEF GateTypeOK
  <2>2. job'[j] = IF Past(j, gate) /\ Trader[job[j].order] \in B
                  THEN [job[j] EXCEPT !.passed = @ \cup {gate}] ELSE job[j]
    BY DEF Remember
  <2> QED BY <2>1, <2>2 DEF Job, Gates
<1>2. job' = [j \in Jobs |-> job'[j]]
  BY DEF Remember
<1> QED BY <1>1, <1>2

\* A job that moves alone, with its order and what it remembers or from nothing.
LEMMA JobMoves ==
  ASSUME GateInv, NEW j \in Jobs, UNCHANGED <<connection, switches>>,
         NEW record \in Job, job' = [job EXCEPT ![j] = record],
         record.pc = "cleared" /\ Blocked(Trader[record.order]) => "switch" \in record.passed,
         record.pc \in {"armed", "approved", "cleared"}
           /\ connection[Link[Trader[record.order]]].revoked
           => "revocation" \in record.passed
  PROVE  job' \in [Jobs -> Job] /\ SwitchRemembered' /\ RevocationRemembered'
<1>1. job \in [Jobs -> Job]
  BY DEF GateInv, GateTypeOK
<1>2. job'[j] = record /\ \A i \in Jobs \ {j} : job'[i] = job[i]
  BY <1>1
<1>3. job' \in [Jobs -> Job]
  BY <1>1
<1>4. SwitchRemembered'
  BY <1>2 DEF GateInv, SwitchRemembered, Blocked
<1>5. RevocationRemembered'
  BY <1>2 DEF GateInv, RevocationRemembered
<1> QED BY <1>3, <1>4, <1>5

LEMMA JobStepKeeps ==
  ASSUME GateInv, NEW j \in Jobs, JobStep(j)
  PROVE  GateTypeOK' /\ SwitchRemembered' /\ RevocationRemembered' /\ StopsStopOrders'
<1> USE GateAssumption
<1>0. /\ UNCHANGED <<connection, switches>>
      /\ job[j] \in Job /\ job \in [Jobs -> Job] /\ switches \subseteq Targets
      /\ posted \subseteq [order: Orders, slipped: SUBSET Gates]
      /\ StopsStopOrders
  BY DEF JobStep, FirstLook, LoadEngine, Approve, SecondLook, SubmitOrder, GiveUp, ReadOrder,
         GateInv, GateTypeOK, Gates
<1>e. ASSUME End(j) PROVE job' \in [Jobs -> Job] /\ SwitchRemembered' /\ RevocationRemembered'
  <2>1. IdleJob.pc = "idle"
    BY DEF IdleJob
  <2> QED BY <1>e, <1>0, <2>1, IdleJobTyped, JobMoves DEF End
<1>p. ASSUME NEW pc \in {"unblocked", "armed", "approved", "cleared"}, Proceed(j, pc),
             pc = "cleared" => ~Blocked(Trader[job[j].order]),
             pc = "armed" => ~connection[Link[Trader[job[j].order]]].revoked,
             pc \in {"approved", "cleared"} => job[j].pc \in {"armed", "approved"}
      PROVE job' \in [Jobs -> Job] /\ SwitchRemembered' /\ RevocationRemembered'
  <2> DEFINE record == [job[j] EXCEPT !.pc = pc]
  <2>1. /\ record \in Job /\ record.pc = pc /\ record.order = job[j].order
        /\ record.passed = job[j].passed
    BY <1>0 DEF Job
  <2>2. job' = [job EXCEPT ![j] = record]
    BY <1>p, <1>0 DEF Proceed
  <2>3. job[j].pc \in {"armed", "approved"} /\ connection[Link[Trader[job[j].order]]].revoked
          => "revocation" \in job[j].passed
    BY DEF GateInv, RevocationRemembered
  <2> HIDE DEF record
  <2> QED BY <1>0, <1>p, <2>1, <2>2, <2>3, JobMoves
<1>q. ASSUME UNCHANGED posted, job' \in [Jobs -> Job] PROVE GateTypeOK' /\ StopsStopOrders'
  BY <1>0, <1>q DEF GateTypeOK, Gates, StopsStopOrders
<1>1. CASE FirstLook(j)
  BY <1>1, <1>e, <1>p, <1>q DEF FirstLook
<1>2. CASE LoadEngine(j)
  BY <1>2, <1>p, <1>q DEF LoadEngine, Usable
<1>3. CASE Approve(j)
  BY <1>3, <1>p, <1>q DEF Approve
<1>4. CASE SecondLook(j)
  BY <1>4, <1>e, <1>p, <1>q DEF SecondLook
<1>5. CASE GiveUp(j)
  BY <1>5, <1>e, <1>q DEF GiveUp
<1>6. ASSUME NEW o \in Orders, ReadOrder(j, o)
      PROVE  GateTypeOK' /\ SwitchRemembered' /\ RevocationRemembered' /\ StopsStopOrders'
  <2> DEFINE record == [IdleJob EXCEPT !.pc = "read", !.order = o]
  <2>1. record \in Job /\ record.pc = "read"
    BY IdleJobTyped DEF Job
  <2>2. job' = [job EXCEPT ![j] = record] /\ UNCHANGED posted
    BY <1>6 DEF ReadOrder
  <2> HIDE DEF record
  <2>3. job' \in [Jobs -> Job] /\ SwitchRemembered' /\ RevocationRemembered'
    BY <1>0, <2>1, <2>2, JobMoves
  <2> QED BY <2>2, <2>3, <1>q
<1>7. CASE SubmitOrder(j)
  <2>1. End(j) /\ job[j].pc = "cleared" /\ job[j].order \in Orders
    BY <1>7, <1>0 DEF SubmitOrder, Job
  <2>2. Closed(Trader[job[j].order]) \ job[j].passed = {}
    BY <2>1 DEF Closed, GateInv, SwitchRemembered, RevocationRemembered
  <2>3. posted' \subseteq posted \cup {[order |-> job[j].order, slipped |-> {}]}
    BY <1>7, <2>2 DEF SubmitOrder
  <2>4. StopsStopOrders'
    BY <1>0, <2>3 DEF StopsStopOrders
  <2>5. posted' \subseteq [order: Orders, slipped: SUBSET Gates]
    BY <1>0, <2>1, <2>3
  <2>6. job' \in [Jobs -> Job] /\ SwitchRemembered' /\ RevocationRemembered'
    BY <2>1, <1>e
  <2> QED BY <1>0, <2>4, <2>5, <2>6 DEF GateTypeOK, Gates
<1> QED BY <1>1, <1>2, <1>3, <1>4, <1>5, <1>6, <1>7 DEF JobStep

LEMMA GateInvStep == GateInv /\ [GateNext]_liveVars => GateInv'
<1> SUFFICES ASSUME GateInv, [GateNext]_liveVars PROVE GateInv'
    OBVIOUS
<1>t. AccountTypeOK'
  BY GateStepIsAccountStep, AccountTypeStep DEF GateInv
<1> SUFFICES GateTypeOK' /\ SwitchRemembered' /\ RevocationRemembered' /\ StopsStopOrders'
    BY <1>t DEF GateInv
<1>0. /\ AccountTypeOK /\ GateTypeOK
      /\ SwitchRemembered /\ RevocationRemembered /\ StopsStopOrders
      /\ \A j \in Jobs : job[j] \in Job /\ job[j].order \in Orders
                          /\ Trader[job[j].order] \in Bots
  BY GateAssumption DEF GateInv, GateTypeOK, Job
<1>1. ASSUME NEW j \in Jobs, JobStep(j)
      PROVE  GateTypeOK' /\ SwitchRemembered' /\ RevocationRemembered' /\ StopsStopOrders'
  BY <1>1, JobStepKeeps
<1>2. ASSUME NEW t \in Targets, Activate(t)
      PROVE  GateTypeOK' /\ SwitchRemembered' /\ RevocationRemembered' /\ StopsStopOrders'
  <2>1. /\ Remember("switch", Covered(t)) /\ switches' = switches \cup {t}
        /\ UNCHANGED <<connection, posted>>
    BY <1>2 DEF Activate
  <2>2. /\ job' \in [Jobs -> Job]
        /\ \A j \in Jobs :
             /\ job'[j].pc = job[j].pc /\ job'[j].order = job[j].order
             /\ job[j].passed \subseteq job'[j].passed
             /\ Past(j, "switch") /\ Trader[job[j].order] \in Covered(t)
                  => "switch" \in job'[j].passed
    BY <1>0, <2>1, RememberKeeps DEF Gates
  <2>3. \A b \in Bots : Blocked(b)' => Blocked(b) \/ b \in Covered(t)
    BY <2>1, GateAssumption DEF Blocked, Covered, Targets
  <2>4. SwitchRemembered'
    <3>1. ASSUME NEW j \in Jobs, job[j].pc = "cleared", Blocked(Trader[job[j].order])'
          PROVE  "switch" \in job'[j].passed
      <4>1. Blocked(Trader[job'[j].order]) \/ Trader[job[j].order] \in Covered(t)
        BY <2>2, <2>3, <1>0, <3>1 DEF Blocked
      <4> QED BY <4>1, <2>2, <1>0, <3>1 DEF SwitchRemembered, Past
    <3> QED BY <3>1, <2>2 DEF SwitchRemembered, Blocked
  <2>5. RevocationRemembered'
    BY <2>1, <2>2, <1>0 DEF RevocationRemembered
  <2> QED BY <2>1, <2>2, <2>4, <2>5, <1>0 DEF GateTypeOK, StopsStopOrders
<1>3. ASSUME NEW t \in Targets, Deactivate(t)
      PROVE  GateTypeOK' /\ SwitchRemembered' /\ RevocationRemembered' /\ StopsStopOrders'
  BY <1>0, <1>3 DEF Deactivate, GateTypeOK, SwitchRemembered, RevocationRemembered,
                    StopsStopOrders, Blocked
<1>4. ASSUME NEW r \in Callers, AccountMoves(r)
      PROVE  GateTypeOK' /\ SwitchRemembered' /\ RevocationRemembered' /\ StopsStopOrders'
  <2> DEFINE B == {b \in Bots : ~connection[Link[b]].revoked /\ connection'[Link[b]].revoked}
  <2>1. Remember("revocation", B) /\ UNCHANGED <<switches, posted>>
    BY <1>4 DEF AccountMoves
  <2>2. \A b \in Bots : connection'[Link[b]].revoked => connection[Link[b]].revoked \/ b \in B
    OBVIOUS
  <2> HIDE DEF B
  <2>3. /\ job' \in [Jobs -> Job]
        /\ \A j \in Jobs :
             /\ job'[j].pc = job[j].pc /\ job'[j].order = job[j].order
             /\ job[j].passed \subseteq job'[j].passed
             /\ Past(j, "revocation") /\ Trader[job[j].order] \in B
                  => "revocation" \in job'[j].passed
    BY <1>0, <2>1, RememberKeeps DEF Gates
  <2>4. SwitchRemembered'
    BY <2>1, <2>3, <1>0 DEF SwitchRemembered, Blocked
  <2>5. RevocationRemembered'
    BY <2>2, <2>3, <1>0 DEF RevocationRemembered, Past
  <2> QED BY <2>1, <2>3, <2>4, <2>5, <1>0 DEF GateTypeOK, StopsStopOrders
<1>5. CASE KeyMoves \/ UNCHANGED liveVars
  BY <1>0, <1>5 DEF KeyMoves, EditKey, gateVars, liveVars, GateTypeOK, SwitchRemembered,
                    RevocationRemembered, StopsStopOrders, Blocked
<1> QED BY <1>1, <1>2, <1>3, <1>4, <1>5 DEF GateNext

\* No order passes a kill switch or a revocation that closed before its job came
\* to the gate, for any number of jobs, switches and requests of the account.
THEOREM ClosedGatesHold == GateSpec => []StopsStopOrders
<1>1. GateInv => StopsStopOrders
  BY DEF GateInv
<1> QED BY GateInvInit, GateInvStep, <1>1, PTL DEF GateSpec

-----------------------------------------------------------------------------
(* The books of a bot *)

OrderStates == {"new", "sent", "executed", "booked"}
RiskOrder == [state: OrderStates, at: Int, on: Int]

\* What the exchange executed and no reconciliation has booked yet.
UnbookedUnits == [o \in AllOrders |-> IF order[o].state = "executed" THEN Units(o) ELSE 0]
UnbookedCash ==
  [o \in AllOrders |-> IF order[o].state = "executed" THEN Cash(o, order[o].at) ELSE 0]

BooksTyped ==
  /\ price \in Int /\ day \in Int
  /\ order \in [AllOrders -> RiskOrder]
  /\ wallet \in [quote: Int, base: Int]
  /\ book \in [units: Int, cost: Int, realized: Int, today: Int]

\* The wallet is ahead of the books by exactly what is not booked.
WalletIsAhead ==
  /\ wallet.base = book.units + SumFunctionOnSet(UnbookedUnits, AllOrders)
  /\ wallet.quote - Deposit = book.realized - book.cost + SumFunctionOnSet(UnbookedCash, AllOrders)

BooksInv == BooksTyped /\ WalletIsAhead

LEMMA UnitsTyped == \A o \in AllOrders : Units(o) \in Int
BY DEF Units

LEMMA CashTyped == \A o \in AllOrders, n \in Int : Cash(o, n) \in Int
BY LiveRiskAssumption DEF Cash

LEMMA UnbookedTyped ==
  ASSUME order \in [AllOrders -> RiskOrder]
  PROVE  \A o \in AllOrders : UnbookedUnits[o] \in Int /\ UnbookedCash[o] \in Int
BY UnitsTyped, CashTyped DEF UnbookedUnits, UnbookedCash, RiskOrder

LEMMA BooksInvInit ==
  ASSUME IsFiniteSet(AllOrders)
  PROVE  RiskInit => BooksInv
<1> SUFFICES ASSUME RiskInit PROVE BooksInv
    OBVIOUS
<1>1. BooksTyped
  BY LiveRiskAssumption DEF RiskInit, BooksTyped, RiskOrder, OrderStates
<1>2. \A o \in AllOrders : UnbookedUnits[o] = 0 /\ UnbookedCash[o] = 0
  BY DEF RiskInit, UnbookedUnits, UnbookedCash
<1>3. /\ SumFunctionOnSet(UnbookedUnits, AllOrders) = 0
      /\ SumFunctionOnSet(UnbookedCash, AllOrders) = 0
  BY <1>2, SumZero
<1> QED BY <1>1, <1>3, LiveRiskAssumption DEF RiskInit, WalletIsAhead, BooksInv

\* Both sums move by what one order moves.
LEMMA UnbookedMoves ==
  ASSUME IsFiniteSet(AllOrders), order \in [AllOrders -> RiskOrder],
         order' \in [AllOrders -> RiskOrder],
         NEW o \in AllOrders, \A i \in AllOrders \ {o} : order'[i] = order[i]
  PROVE  /\ SumFunctionOnSet(UnbookedUnits, AllOrders) \in Int
         /\ SumFunctionOnSet(UnbookedCash, AllOrders) \in Int
         /\ SumFunctionOnSet(UnbookedUnits, AllOrders)'
              = SumFunctionOnSet(UnbookedUnits, AllOrders) - UnbookedUnits[o] + UnbookedUnits'[o]
         /\ SumFunctionOnSet(UnbookedCash, AllOrders)'
              = SumFunctionOnSet(UnbookedCash, AllOrders) - UnbookedCash[o] + UnbookedCash'[o]
<1> DEFINE u == UnbookedUnits
           v == UnbookedUnits'
           c == UnbookedCash
           d == UnbookedCash'
           S == AllOrders
<1>1. \A i \in S : u[i] \in Int /\ c[i] \in Int
  BY UnbookedTyped
<1>2. \A i \in S : v[i] \in Int /\ d[i] \in Int
  BY UnitsTyped, CashTyped DEF UnbookedUnits, UnbookedCash, RiskOrder
<1>3. \A i \in S \ {o} : u[i] = v[i] /\ c[i] = d[i]
  BY DEF UnbookedUnits, UnbookedCash
<1>4. IsFiniteSet(S) /\ o \in S
  OBVIOUS
<1>5. (UnbookedUnits = u /\ UnbookedCash = c /\ UnbookedUnits' = v /\ UnbookedCash' = d)
  OBVIOUS
<1>s. SumFunctionOnSet(UnbookedUnits, AllOrders)' = SumFunctionOnSet(v, S)
      /\ SumFunctionOnSet(UnbookedCash, AllOrders)' = SumFunctionOnSet(d, S)
  OBVIOUS
<1> HIDE DEF u, v, c, d, S
<1>6. SumFunctionOnSet(u, S) \in Int /\ SumFunctionOnSet(c, S) \in Int
  BY <1>1, <1>4, SumType
<1>7. SumFunctionOnSet(v, S) = SumFunctionOnSet(u, S) - u[o] + v[o]
  BY <1>1, <1>2, <1>3, <1>4, SumChange
<1>8. SumFunctionOnSet(d, S) = SumFunctionOnSet(c, S) - c[o] + d[o]
  BY <1>1, <1>2, <1>3, <1>4, SumChange
<1> QED BY <1>5, <1>6, <1>7, <1>8, <1>s DEF u, v, c, d, S

\* An order that is neither executed before the step nor after it moves no sum.
LEMMA NothingUnbooked ==
  ASSUME IsFiniteSet(AllOrders), BooksInv, order' \in [AllOrders -> RiskOrder],
         \A o \in AllOrders : \/ order'[o] = order[o]
                              \/ order[o].state # "executed" /\ order'[o].state # "executed",
         UNCHANGED wallet, book'.units = book.units, book'.cost = book.cost,
         book'.realized = book.realized
  PROVE  WalletIsAhead'
<1>1. UnbookedUnits' = UnbookedUnits /\ UnbookedCash' = UnbookedCash
  BY DEF UnbookedUnits, UnbookedCash
<1>2. /\ SumFunctionOnSet(UnbookedUnits, AllOrders)' = SumFunctionOnSet(UnbookedUnits, AllOrders)
      /\ SumFunctionOnSet(UnbookedCash, AllOrders)' = SumFunctionOnSet(UnbookedCash, AllOrders)
  BY <1>1
<1> QED BY <1>2 DEF WalletIsAhead, BooksInv

LEMMA BooksInvStep ==
  ASSUME IsFiniteSet(AllOrders)
  PROVE  BooksInv /\ [RiskNext]_riskVars => BooksInv'
<1> SUFFICES ASSUME BooksInv, [RiskNext]_riskVars PROVE BooksInv'
    OBVIOUS
<1>0. BooksTyped /\ WalletIsAhead /\ \A p \in Prices : p \in Int
  BY LiveRiskAssumption DEF BooksInv
<1> DEFINE n == SumFunctionOnSet(UnbookedUnits, AllOrders)
           q == SumFunctionOnSet(UnbookedCash, AllOrders)
<1>k. ASSUME UNCHANGED <<order, wallet>>, BooksTyped',
             book'.units = book.units, book'.cost = book.cost, book'.realized = book.realized
      PROVE  BooksInv'
  BY <1>k, NothingUnbooked DEF BooksTyped, BooksInv
<1>1. ASSUME NEW p \in Prices, Tick(p) PROVE BooksInv'
  BY <1>0, <1>1, <1>k DEF Tick, BooksTyped
<1>2. CASE NewDay
  BY <1>0, <1>2, <1>k DEF NewDay, BooksTyped
<1>3. ASSUME NEW o \in AllOrders, Execute(o) PROVE BooksInv'
  <2>1. /\ order[o].state = "sent"
        /\ order' = [order EXCEPT ![o] = [state |-> "executed", at |-> price, on |-> day]]
        /\ wallet' = [quote |-> wallet.quote + Cash(o, price), base |-> wallet.base + Units(o)]
        /\ UNCHANGED <<market, book>>
    BY <1>3 DEF Execute
  <2>2. Cash(o, price) \in Int /\ Units(o) \in Int
    BY <1>0, UnitsTyped, CashTyped DEF BooksTyped
  <2>3. BooksTyped'
    BY <1>0, <2>1, <2>2 DEF BooksTyped, RiskOrder, OrderStates, market
  <2>4. \A i \in AllOrders \ {o} : order'[i] = order[i]
    BY <1>0, <2>1 DEF BooksTyped
  <2>5. /\ UnbookedUnits[o] = 0 /\ UnbookedCash[o] = 0
        /\ UnbookedUnits'[o] = Units(o) /\ UnbookedCash'[o] = Cash(o, price)
    BY <1>0, <2>1 DEF BooksTyped, UnbookedUnits, UnbookedCash
  <2>6. n \in Int /\ q \in Int /\ n' = n + Units(o) /\ q' = q + Cash(o, price)
    <3>1. /\ n \in Int /\ q \in Int
          /\ n' = n - UnbookedUnits[o] + UnbookedUnits'[o]
          /\ q' = q - UnbookedCash[o] + UnbookedCash'[o]
      BY <1>0, <2>3, <2>4, UnbookedMoves DEF BooksTyped
    <3> HIDE DEF n, q
    <3> QED BY <3>1, <2>5, <2>2
  <2>7. /\ wallet.base = book.units + n /\ wallet.quote - Deposit = book.realized - book.cost + q
        /\ wallet'.base = wallet.base + Units(o) /\ wallet'.quote = wallet.quote + Cash(o, price)
        /\ book' = book
    BY <1>0, <2>1 DEF WalletIsAhead
  <2>8. /\ book.units \in Int /\ book.cost \in Int /\ book.realized \in Int
        /\ wallet.quote \in Int /\ wallet.base \in Int /\ Deposit \in Int
    BY <1>0, LiveRiskAssumption DEF BooksTyped
  <2>9. wallet'.base = book'.units + n' /\ wallet'.quote - Deposit = book'.realized - book'.cost + q'
    <3> HIDE DEF n, q
    <3> QED BY <2>2, <2>6, <2>7, <2>8
  <2> QED BY <2>3, <2>9 DEF BooksInv, WalletIsAhead
<1>4. ASSUME NEW o \in AllOrders, PersistFills(o) PROVE BooksInv'
  <2>1. CASE order[o].state # "executed"
    BY <1>0, <1>4, <2>1, <1>k DEF PersistFills, BooksTyped, market
  <2>2. CASE order[o].state = "executed"
    <3>1. /\ book' = IF o \in Buys THEN Bought(o) ELSE Sold(o)
          /\ order' = [order EXCEPT ![o].state = "booked"]
          /\ UNCHANGED <<market, wallet>>
          /\ o \in Buys \/ book.units > 0
      BY <1>4, <2>2 DEF PersistFills, Covers
    <3>2. /\ book.units \in Int /\ book.cost \in Int /\ book.realized \in Int /\ book.today \in Int
          /\ wallet.quote \in Int /\ wallet.base \in Int /\ Deposit \in Int /\ SaleFee \in Int
          /\ order[o].at \in Int
      BY <1>0, LiveRiskAssumption DEF BooksTyped, RiskOrder
    <3>3. order' \in [AllOrders -> RiskOrder] /\ order'[o].state = "booked"
          /\ \A i \in AllOrders \ {o} : order'[i] = order[i]
      BY <1>0, <3>1 DEF BooksTyped, RiskOrder, OrderStates
    <3>4. /\ UnbookedUnits[o] = Units(o) /\ UnbookedCash[o] = Cash(o, order[o].at)
          /\ UnbookedUnits'[o] = 0 /\ UnbookedCash'[o] = 0
      BY <2>2, <3>3 DEF UnbookedUnits, UnbookedCash
    <3>5. Units(o) \in Int /\ Cash(o, order[o].at) \in Int
      BY <3>2, UnitsTyped, CashTyped
    <3>6. n \in Int /\ q \in Int /\ n' = n - Units(o) /\ q' = q - Cash(o, order[o].at)
      <4>1. /\ n \in Int /\ q \in Int
            /\ n' = n - UnbookedUnits[o] + UnbookedUnits'[o]
            /\ q' = q - UnbookedCash[o] + UnbookedCash'[o]
        BY <1>0, <3>3, UnbookedMoves DEF BooksTyped
      <4> HIDE DEF n, q
      <4> QED BY <4>1, <3>4, <3>5
    <3>7. /\ book'.units = book.units + Units(o)
          /\ book'.realized - book'.cost = book.realized - book.cost + Cash(o, order[o].at)
          /\ book' \in [units: Int, cost: Int, realized: Int, today: Int]
      <4>1. CASE o \in Buys
        <5>1. book' = [book EXCEPT !.units = @ + 1, !.cost = @ + order[o].at]
          BY <3>1, <4>1 DEF Bought
        <5>2. Units(o) = 1 /\ Cash(o, order[o].at) = - order[o].at
          BY <4>1 DEF Units, Cash
        <5>3. book \in [units: Int, cost: Int, realized: Int, today: Int]
          BY <1>0 DEF BooksTyped
        <5>4. book' = [units |-> book.units + 1, cost |-> book.cost + order[o].at,
                       realized |-> book.realized, today |-> book.today]
          BY <5>1, <5>3
        <5> QED BY <5>2, <5>4, <3>2
      <4>2. CASE o \notin Buys
        <5>1. Average \in Int
          BY <3>1, <3>2, <4>2 DEF Average
        <5>2. Profit(o) = order[o].at - Average - SaleFee
          BY DEF Profit
        <5>3. Units(o) = -1 /\ Cash(o, order[o].at) = order[o].at - SaleFee
          BY <4>2 DEF Units, Cash
        <5>4. book' = [units |-> book.units - 1, cost |-> book.cost - Average,
                       realized |-> book.realized + Profit(o),
                       today |-> IF order[o].on = day THEN book.today + Profit(o) ELSE book.today]
          BY <3>1, <4>2 DEF Sold
        <5> QED BY <5>1, <5>2, <5>3, <5>4, <3>2
      <4> QED BY <4>1, <4>2
    <3>8. wallet.base = book.units + n /\ wallet.quote - Deposit = book.realized - book.cost + q
      BY <1>0 DEF WalletIsAhead
    <3>9. /\ wallet'.base = book'.units + n'
          /\ wallet'.quote - Deposit = book'.realized - book'.cost + q'
      <4> HIDE DEF n, q
      <4>1. wallet'.base = wallet.base /\ wallet'.quote = wallet.quote
        BY <3>1
      <4>2. /\ book'.units \in Int /\ book'.cost \in Int /\ book'.realized \in Int
        BY <3>7
      <4> QED BY <3>2, <3>5, <3>6, <3>7, <3>8, <4>1, <4>2
    <3>10. BooksTyped'
      BY <1>0, <3>1, <3>3, <3>7 DEF BooksTyped, market
    <3> QED BY <3>9, <3>10 DEF BooksInv, WalletIsAhead
  <2> QED BY <2>1, <2>2
<1>5. CASE Refresh \/ SkipRefresh
  BY <1>0, <1>5, <1>k DEF Refresh, SkipRefresh, BooksTyped, market
<1>6. ASSUME NEW j \in Submitters, NEW o \in AllOrders, Judge(j, o) PROVE BooksInv'
  BY <1>0, <1>6, <1>k DEF Judge, BooksTyped, market
<1>7. ASSUME NEW j \in Submitters, Evaluate(j) \/ Leave(j) PROVE BooksInv'
  BY <1>0, <1>7, <1>k DEF Evaluate, Leave, BooksTyped, market
<1>8. ASSUME NEW j \in Submitters, Send(j) PROVE BooksInv'
  <2> DEFINE o == judging[j].order
  <2>1. /\ order' = IF order[o].state # "new" THEN order ELSE [order EXCEPT ![o].state = "sent"]
        /\ UNCHANGED <<market, wallet, book>>
    BY <1>8 DEF Send
  <2>2. order' \in [AllOrders -> RiskOrder]
        /\ \A i \in AllOrders : \/ order'[i] = order[i]
                                \/ order[i].state # "executed" /\ order'[i].state # "executed"
    <3> HIDE DEF o
    <3>1. order \in [AllOrders -> RiskOrder]
      BY <1>0 DEF BooksTyped
    <3> QED BY <3>1, <2>1 DEF RiskOrder, OrderStates
  <2>3. BooksTyped'
    BY <1>0, <2>1, <2>2 DEF BooksTyped, market
  <2> QED BY <2>1, <2>2, <2>3, NothingUnbooked DEF BooksInv
<1>9. CASE UNCHANGED riskVars
  BY <1>0, <1>9, <1>k DEF riskVars, market, BooksTyped
<1> QED BY <1>1, <1>2, <1>3, <1>4, <1>5, <1>6, <1>7, <1>8, <1>9 DEF RiskNext

\* Once every executed order is booked, the position and the profits of a bot
\* are what the exchange holds, for any orders and prices, in whatever order the
\* executions, the reconciliations, the midnights and their crashes come.
THEOREM BooksMatch ==
  ASSUME IsFiniteSet(AllOrders)
  PROVE  RiskSpec => []BooksMatchTheWallet
<1>1. BooksInv => BooksMatchTheWallet
  <2> SUFFICES ASSUME BooksInv, Settled PROVE BooksMatchTheWallet
      BY DEF BooksMatchTheWallet
  <2>1. \A o \in AllOrders : UnbookedUnits[o] = 0 /\ UnbookedCash[o] = 0
    BY DEF Settled, UnbookedUnits, UnbookedCash
  <2>2. /\ SumFunctionOnSet(UnbookedUnits, AllOrders) = 0
        /\ SumFunctionOnSet(UnbookedCash, AllOrders) = 0
    BY <2>1, SumZero
  <2> QED BY <2>2 DEF BooksInv, BooksTyped, WalletIsAhead, BooksMatchTheWallet
<1> QED BY BooksInvInit, BooksInvStep, <1>1, PTL DEF RiskSpec

-----------------------------------------------------------------------------
(* ExchangeRules.  Comparing texts at the wider scale is comparing the        *)
(* numbers, because a power of ten is split by any scale below it.           *)

LEMMA PowersOfTen == ArePowers(10, TenTo)
<1>1. TenTo = CHOOSE f : f = [n \in Nat |-> IF n = 0 THEN 1 ELSE 10 * f[n - 1]]
  BY DEF TenTo
<1> QED BY <1>1, PowersUnfold

LEMMA SumOfScales == \A s, t \in Nat : s =< t => TenTo[t - s] * TenTo[s] = TenTo[t]
<1> SUFFICES ASSUME NEW s \in Nat, NEW t \in Nat, s =< t PROVE TenTo[t - s] * TenTo[s] = TenTo[t]
  OBVIOUS
<1>1. t - s \in Nat /\ (t - s) + s = t
  OBVIOUS
<1>2. TenTo[(t - s) + s] = TenTo[t - s] * TenTo[s]
  BY <1>1, PowersOfTen, PowersOfSum
<1> QED BY <1>1, <1>2

LEMMA ProductsOfInts == \A x, y \in Int : x * y \in Int
OBVIOUS

LEMMA SameOrder == \A x, y \in Int, c \in Nat \ {0} : x =< y <=> x * c =< y * c
OBVIOUS

LEMMA Cancels == \A x, y \in Int, c \in Nat \ {0} : x * c = y * c => x = y
OBVIOUS

LEMMA Rearranged ==
  /\ \A x, u, v, w \in Int : (x * u) * (v * w) = (x * w) * (u * v)
  /\ \A x, y, z \in Int : (x * y) * z = x * (y * z) /\ x * y = y * x
OBVIOUS

\* At the wider scale both texts are what cross multiplication makes of them,
\* times the same factor.
LEMMA AtWiderScale ==
  ASSUME NEW a \in Text, NEW b \in Text
  PROVE  LET w == WiderScale(a, b) IN
         /\ AtScale(a, w) \in Nat /\ AtScale(b, w) \in Nat
         /\ AtScale(a, w) * (TenTo[a.scale] * TenTo[b.scale]) = (a.int * TenTo[b.scale]) * TenTo[w]
         /\ AtScale(b, w) * (TenTo[a.scale] * TenTo[b.scale]) = (b.int * TenTo[a.scale]) * TenTo[w]
         /\ TenTo[w] \in Nat \ {0} /\ TenTo[a.scale] \in Nat \ {0} /\ TenTo[b.scale] \in Nat \ {0}
<1> DEFINE w == WiderScale(a, b)
<1>1. a.int \in Nat /\ b.int \in Nat /\ a.scale \in Nat /\ b.scale \in Nat
  BY DEF Text
<1>2. w \in Nat /\ a.scale =< w /\ b.scale =< w
  BY <1>1 DEF WiderScale
<1> HIDE DEF w
<1>3. w - a.scale \in Nat /\ w - b.scale \in Nat
  BY <1>1, <1>2
<1> DEFINE x == TenTo[w - a.scale]
           y == TenTo[w - b.scale]
           p == TenTo[a.scale]
           q == TenTo[b.scale]
           d == TenTo[w]
<1>4. /\ x \in Nat \ {0} /\ y \in Nat \ {0} /\ p \in Nat \ {0} /\ q \in Nat \ {0}
      /\ d \in Nat \ {0}
  BY <1>1, <1>2, <1>3, PowersOfTen DEF ArePowers
<1>5. x * p = d /\ y * q = d
  BY <1>1, <1>2, SumOfScales
<1>6. AtScale(a, w) = a.int * x /\ AtScale(b, w) = b.int * y
  BY DEF AtScale
<1> HIDE DEF x, y, p, q, d
<1>7. a.int * x \in Nat /\ b.int * y \in Nat
  BY <1>1, <1>4
<1>8. (a.int * x) * (p * q) = (a.int * q) * d
  <2>1. (a.int * x) * (p * q) = (a.int * q) * (x * p)
    BY <1>1, <1>4, Rearranged
  <2> QED BY <2>1, <1>5
<1>9. (b.int * y) * (p * q) = (b.int * p) * d
  <2>1. (b.int * y) * (q * p) = (b.int * p) * (y * q)
    BY <1>1, <1>4, Rearranged
  <2>2. q * p = p * q
    BY <1>4
  <2> QED BY <2>1, <2>2, <1>5
<1>10. /\ AtScale(a, w) \in Nat /\ AtScale(b, w) \in Nat
       /\ AtScale(a, w) * (p * q) = (a.int * q) * d
       /\ AtScale(b, w) * (p * q) = (b.int * p) * d
  BY <1>6, <1>7, <1>8, <1>9
<1> QED BY <1>4, <1>10 DEF p, q, d, w

LEMMA ComparesNumbers ==
  ASSUME NEW a \in Text, NEW b \in Text
  PROVE  /\ CompareDecimal(a, b) =< 0 <=> NotMore(a, b)
         /\ CompareDecimal(a, b) >= 0 <=> NotMore(b, a)
<1> DEFINE w == WiderScale(a, b)
           x == AtScale(a, w)
           y == AtScale(b, w)
           p == TenTo[a.scale]
           q == TenTo[b.scale]
           d == TenTo[w]
           c == p * q
           f == a.int * q
           g == b.int * p
<1>1. /\ x \in Nat /\ y \in Nat /\ x * c = f * d /\ y * c = g * d
      /\ p \in Nat \ {0} /\ q \in Nat \ {0} /\ d \in Nat \ {0}
  BY AtWiderScale
<1>2. a.int \in Nat /\ b.int \in Nat
  BY DEF Text
<1>3. CompareDecimal(a, b) = IF x < y THEN -1 ELSE IF x > y THEN 1 ELSE 0
  BY DEF CompareDecimal
<1>4. (NotMore(a, b) <=> f =< g) /\ (NotMore(b, a) <=> g =< f)
  BY DEF NotMore
<1> HIDE DEF w, x, y, p, q, d
<1>5. c \in Nat \ {0} /\ f \in Int /\ g \in Int
  BY <1>1, <1>2
<1> HIDE DEF c, f, g
<1>6. (x =< y <=> x * c =< y * c) /\ (y =< x <=> y * c =< x * c)
  BY <1>1, <1>5, SameOrder
<1>7. (f =< g <=> f * d =< g * d) /\ (g =< f <=> g * d =< f * d)
  BY <1>1, <1>5, SameOrder
<1>8. (x =< y <=> f =< g) /\ (y =< x <=> g =< f)
  BY <1>1, <1>6, <1>7
<1>9. (CompareDecimal(a, b) =< 0 <=> x =< y) /\ (CompareDecimal(a, b) >= 0 <=> y =< x)
  BY <1>1, <1>3
<1> QED BY <1>4, <1>8, <1>9

LEMMA MultipleIsSteps ==
  ASSUME NEW a \in Text, NEW step \in Text, IsMultiple(a, step)
  PROVE  StepsOf(a, step)
<1> DEFINE w == WiderScale(a, step)
           x == AtScale(a, w)
           y == AtScale(step, w)
           p == TenTo[a.scale]
           q == TenTo[step.scale]
           d == TenTo[w]
           c == p * q
           f == a.int * q
           g == step.int * p
           k == x \div y
<1>1. /\ x \in Nat /\ y \in Nat /\ x * c = f * d /\ y * c = g * d
      /\ p \in Nat \ {0} /\ q \in Nat \ {0} /\ d \in Nat \ {0}
  BY AtWiderScale
<1>2. a.int \in Nat /\ step.int \in Nat
  BY DEF Text
<1>3. y > 0 /\ x % y = 0
  BY DEF IsMultiple
<1>4. StepsOf(a, step) <=> \E n \in 0 .. f : n * step.int * p = f
  BY DEF StepsOf
<1> HIDE DEF w, x, y, p, q, d
<1>5. c \in Nat \ {0} /\ f \in Nat /\ g \in Nat
  BY <1>1, <1>2
<1>6. k \in Nat /\ k * y = x
  <2>1. \A m \in Nat, n \in Nat \ {0} : m \div n \in Nat /\ (m % n = 0 => n * (m \div n) = m)
    OBVIOUS
  <2>2. y \in Nat \ {0} /\ x \in Nat
    BY <1>1, <1>3
  <2>3. k \in Nat /\ y * k = x
    BY <1>3, <2>1, <2>2
  <2> HIDE DEF k
  <2> QED BY <2>2, <2>3
<1> HIDE DEF k
<1>7. k * g = f
  <2> HIDE DEF c, f, g
  <2>1. (k * y) * c = k * (y * c) /\ (k * g) * d = k * (g * d)
    BY <1>1, <1>5, <1>6, Rearranged
  <2>2. (k * g) * d = f * d
    BY <1>1, <1>6, <2>1
  <2> QED BY <1>1, <1>5, <1>6, <2>2, Cancels, ProductsOfInts
<1>8. k * step.int * p = f
  <2>1. (k * step.int) * p = k * (step.int * p)
    BY <1>1, <1>2, <1>6, Rearranged
  <2> QED BY <1>7, <2>1
<1>9. k =< f
  <2>1. g # 0
    <3>1. CASE g = 0
      <4>1. y * c = 0
        BY <1>1, <3>1
      <4> HIDE DEF c
      <4> QED BY <1>1, <1>3, <1>5, <4>1
    <3> QED BY <3>1
  <2> HIDE DEF f, g
  <2>2. \A m \in Nat, n \in Nat \ {0} : m =< m * n
    OBVIOUS
  <2> QED BY <1>5, <1>6, <1>7, <2>1, <2>2
<1> QED BY <1>4, <1>5, <1>6, <1>8, <1>9

\* A text between a filter's limits and on its steps obeys it.
LEMMA BetweenObeys ==
  ASSUME NEW a \in Amounts \cup {Malformed}, NEW filter \in Filters, Between(a, filter)
  PROVE  Obeys(a, filter)
<1>1. a \in Text /\ filter.min \in Text /\ filter.max \in Text /\ filter.step \in Text
  BY RulesAssumption DEF Between, IsText
<1>2. NotMore(filter.min, a) /\ NotMore(a, filter.max)
  BY <1>1, ComparesNumbers DEF Between
<1>3. StepsOf(a, filter.step)
  BY <1>1, MultipleIsSteps DEF Between
<1> QED BY <1>2, <1>3 DEF Obeys

\* A post had been allowed, and what it asks had the shape of its type.
RulesInv ==
  /\ outcome = "asking" => request \in OrderRequests /\ WellShaped(request)
  /\ outcome = "posted" =>
       /\ request \in OrderRequests /\ WellShaped(request)
       /\ rules \in SymbolRules /\ OrderAllowed(request, rules)

LEMMA AllowedKeepsTheRules == RulesInv => PostedOrdersKeepTheRules
<1> SUFFICES ASSUME RulesInv, outcome = "posted" PROVE PostedOrdersKeepTheRules
  BY DEF PostedOrdersKeepTheRules
<1>1. /\ request \in OrderRequests /\ WellShaped(request)
      /\ rules \in SymbolRules /\ OrderAllowed(request, rules)
  BY DEF RulesInv
<1>2. /\ request.type \in {"MARKET", "LIMIT"}
      /\ request.quantity \in Amounts \cup {None, Malformed}
      /\ request.quoteAmount \in Notionals \cup {None}
      /\ request.limitPrice \in Amounts \cup {None}
      /\ rules.lotSize \in Filters \cup {None} /\ rules.priceFilter \in Filters \cup {None}
      /\ rules.minNotional \in Notionals \cup {None}
  BY <1>1 DEF OrderRequests, SymbolRules
<1>3. QuantityFits(request, rules) /\ PriceFits(request, rules) /\ NotionalFits(request, rules)
  BY <1>1 DEF OrderAllowed
<1>4. request.quantity # None /\ rules.lotSize # None => Obeys(request.quantity, rules.lotSize)
  BY <1>2, <1>3, BetweenObeys DEF QuantityFits
<1>5. request.type = "LIMIT" => request.quantity # None /\ request.limitPrice # None
  BY <1>1 DEF WellShaped
<1>6. request.type = "LIMIT" /\ rules.priceFilter # None
        => Obeys(request.limitPrice, rules.priceFilter)
  BY <1>2, <1>3, <1>5, BetweenObeys DEF PriceFits
<1>7. ASSUME rules.minNotional # None, request.quoteAmount # None
      PROVE  NotMore(rules.minNotional, request.quoteAmount)
  <2>1. Notional(request) = request.quoteAmount
    BY <1>7 DEF Notional
  <2>2. request.quoteAmount \in Text /\ rules.minNotional \in Text
    BY <1>2, <1>7, RulesAssumption
  <2> QED BY <1>3, <1>7, <2>1, <2>2, ComparesNumbers DEF NotionalFits
<1>8. ASSUME rules.minNotional # None, request.quoteAmount = None
      PROVE  /\ request.quantity # None /\ request.limitPrice # None
             /\ rules.minNotional.int * TenTo[request.quantity.scale + request.limitPrice.scale]
                  =< request.quantity.int * request.limitPrice.int * TenTo[rules.minNotional.scale]
  <2>1. request.type = "LIMIT" /\ request.quantity # None /\ request.limitPrice # None
    BY <1>2, <1>3, <1>5, <1>8 DEF NotionalFits
  <2> DEFINE p == [int |-> request.quantity.int * request.limitPrice.int,
                   scale |-> request.quantity.scale + request.limitPrice.scale]
  <2>2. Notional(request) = MultiplyDecimal(request.quantity, request.limitPrice)
    BY <1>8, <2>1 DEF Notional
  <2>3. IsText(request.quantity) /\ Notional(request) = p
    BY <1>3, <2>2 DEF NotionalFits, MultiplyDecimal
  <2>4. request.quantity \in Text /\ request.limitPrice \in Text
    BY <1>2, <2>1, <2>3, RulesAssumption DEF IsText
  <2>5. p \in Text
    <3>1. /\ request.quantity.int \in Nat /\ request.limitPrice.int \in Nat
          /\ request.quantity.scale \in Nat /\ request.limitPrice.scale \in Nat
      BY <2>4 DEF Text
    <3>2. /\ request.quantity.int * request.limitPrice.int \in Nat
          /\ request.quantity.scale + request.limitPrice.scale \in Nat
      BY <3>1
    <3> QED BY <3>2 DEF Text
  <2>6. rules.minNotional \in Text /\ p # None
    BY <1>2, <1>8, <2>5, RulesAssumption
  <2>7. CompareDecimal(p, rules.minNotional) >= 0
    BY <1>3, <1>8, <2>3, <2>6 DEF NotionalFits
  <2>8. NotMore(rules.minNotional, p)
    <3> HIDE DEF p
    <3> QED BY <2>5, <2>6, <2>7, ComparesNumbers
  <2> QED BY <2>1, <2>8 DEF NotMore
<1> QED BY <1>4, <1>6, <1>7, <1>8 DEF PostedOrdersKeepTheRules

\* Whatever decimal texts an order and the exchange's rules are written with, a
\* LIVE order that is posted keeps the rules as numbers (testnet-connector.ts,
\* validateOrderAgainstRules).
THEOREM PostsKeepTheRules == RulesSpec => []PostedOrdersKeepTheRules
<1>1. RulesInit => RulesInv
  BY DEF RulesInit, RulesInv
<1>2. RulesInv /\ [RulesNext]_rulesVars => RulesInv'
  <2> SUFFICES ASSUME RulesInv, [RulesNext]_rulesVars PROVE RulesInv'
    OBVIOUS
  <2>1. ASSUME NEW o \in OrderRequests, Submit(o) PROVE RulesInv'
    BY <2>1 DEF Submit, RulesInv, WellShaped
  <2>2. ASSUME NEW r \in SymbolRules, ExchangeInfo(r) PROVE RulesInv'
    <3>1. request' = request /\ rules' = r /\ outcome' \in {"posted", "refused"}
      BY <2>2 DEF ExchangeInfo
    <3>2. request \in OrderRequests /\ WellShaped(request)
      BY <2>2 DEF ExchangeInfo, RulesInv
    <3>3. outcome' = "posted" => OrderAllowed(request, r)
      BY <2>2 DEF ExchangeInfo
    <3>4. WellShaped(request)' /\ OrderAllowed(request, rules)' = OrderAllowed(request, r)
      BY <3>1, <3>2
    <3> QED BY <3>1, <3>2, <3>3, <3>4 DEF RulesInv
  <2>3. CASE ExchangeInfoFails
    BY <2>3 DEF ExchangeInfoFails, RulesInv
  <2>4. CASE UNCHANGED rulesVars
    BY <2>4 DEF rulesVars, RulesInv
  <2> QED BY <2>1, <2>2, <2>3, <2>4 DEF RulesNext
<1> QED BY <1>1, <1>2, AllowedKeepsTheRules, PTL DEF RulesSpec
=============================================================================
