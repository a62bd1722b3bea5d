------------------------ MODULE SubscriptionsProofs ------------------------
(***************************************************************************)
(* Proofs about Subscriptions for any requests, deliveries, customers and  *)
(* subscriptions.                                                          *)
(*                                                                         *)
(* That every acknowledged event has been applied once rests on two chains *)
(*   Counted1    recorded means applied once, because both commit together *)
(*   OneCustomer a session, and so a subscription, belongs to the customer *)
(*               that is stored, because a session is only handed out      *)
(*               after the row of the customer exists                      *)
(***************************************************************************)
EXTENDS Subscriptions, WellFoundedInduction, TLAPS

Types ==
  /\ rows \in Seq(Row)
  /\ customer \in Customers \cup {None}
  /\ recorded \subseteq Events
  /\ req \in [Requests -> Req]
  /\ hook \in [Hooks -> Hook]
  /\ sessions \subseteq Customers
  /\ stripe \in [Subs -> [customer: Customers \cup {None}, history: Seq(Payload)]]
  /\ applied \in [Events -> Nat]
  /\ heard \in [Subs -> Nat]

Recording == \A r \in Requests : req[r].pc = "recording" => req[r].customer \in Customers

Counted1 ==
  /\ acked \subseteq recorded
  /\ \A e \in Events : applied[e] = IF e \in recorded THEN 1 ELSE 0

OneCustomer ==
  /\ sessions \subseteq {customer}
  /\ \A s \in Subs : stripe[s].history # <<>> => stripe[s].customer \in sessions

CheckedExists ==
  \A h \in Hooks : hook[h].pc = "checked" => hook[h].event \in Events /\ Emitted(hook[h].event)

DeliveryInv == Types /\ Recording /\ Counted1 /\ OneCustomer /\ CheckedExists

-----------------------------------------------------------------------------
LEMMA NoneIsNoCustomer == None \notin Customers /\ None \notin Subs
BY PlanAssumption

\* An event is a subscription and the number of one of its changes.
LEMMA EventParts ==
  ASSUME NEW e \in Events
  PROVE  e[1] \in Subs /\ e[2] \in Nat /\ e[2] >= 1
BY PlanAssumption DEF Events

\* The latest of some rows.
LEMMA LatestExists ==
  ASSUME NEW n \in Nat, NEW S \in SUBSET (1 .. n), S # {}
  PROVE  Max(S) \in S /\ \A i \in S : Max(S) >= i
<1> DEFINE T == {n - i : i \in S}
<1>1. T \subseteq Nat /\ T # {}
  <2>1. \A i \in S : n - i \in Nat
    OBVIOUS
  <2>2. PICK i \in S : TRUE
    OBVIOUS
  <2>3. n - i \in T
    BY <2>2
  <2> QED BY <2>1, <2>3
<1>2. PICK t \in T : \A u \in T : t =< u
  <2> HIDE DEF T
  <2>1. PICK t \in T : \A u \in T : <<u, t>> \notin OpToRel(<, Nat)
    BY <1>1, NatLessThanWellFounded, WFMin, Zenon
  <2>2. \A u \in T : ~(u < t)
    BY <1>1, <2>1 DEF OpToRel
  <2> QED BY <1>1, <2>2
<1>3. PICK m \in S : t = n - m
  OBVIOUS
<1>4. \A i \in S : m >= i
  <2> TAKE i \in S
  <2>1. t =< n - i
    BY <1>2
  <2> QED BY <1>3, <2>1
<1> QED BY <1>3, <1>4 DEF Max

\* Who has an entitled row has a plan.
LEMMA InForceIsAPlan ==
  ASSUME rows \in Seq(Row), InForce # "NONE"
  PROVE  PlanLimit[InForce] \in Nat
<1> DEFINE entitled == {i \in DOMAIN rows : rows[i].status \in Entitled}
           m == Max(entitled)
<1>1. entitled # {} /\ InForce = rows[m].plan
  BY DEF InForce
<1>2. Len(rows) \in Nat /\ entitled \in SUBSET (1 .. Len(rows))
  OBVIOUS
<1>3. m \in entitled
  <2> HIDE DEF entitled
  <2> QED BY <1>1, <1>2, LatestExists
<1>4. rows[m] \in Row
  BY <1>3
<1> HIDE DEF m
<1>5. InForce \in Plans
  BY <1>1, <1>4 DEF Row
<1> QED BY <1>5, PlanAssumption

\* A row that is granted, and a row that an event writes.
LEMMA GrantTyped ==
  ASSUME rows \in Seq(Row), NEW r \in Requests, GrantFree(r)
  PROVE  rows' \in Seq(Row)
<1> DEFINE free == [sub |-> None, plan |-> "FREE", status |-> "ACTIVE"]
<1>1. rows' = Append(rows, free) /\ free \in Row
  BY DEF GrantFree, Row, Plans, Statuses
<1> HIDE DEF free
<1> QED BY <1>1

LEMMA UpsertTyped ==
  ASSUME rows \in Seq(Row), NEW s \in Subs, NEW payload \in Payload
  PROVE  Upserted(s, payload) \in Seq(Row)
<1> DEFINE row == [sub |-> s, plan |-> payload.plan, status |-> payload.status]
           up(i) == IF IsRowOf(rows[i], s) THEN row ELSE rows[i]
<1>1. row \in Row
  BY DEF Row, Payload, Plans
<1>2. CASE \E i \in DOMAIN rows : IsRowOf(rows[i], s)
  <2>1. Upserted(s, payload) = [i \in DOMAIN rows |-> up(i)]
    BY <1>2 DEF Upserted
  <2>2. \A i \in DOMAIN rows : up(i) \in Row
    BY <1>1
  <2>3. DOMAIN rows = 1 .. Len(rows) /\ Len(rows) \in Nat
    OBVIOUS
  <2> HIDE DEF up
  <2> QED BY <2>1, <2>2, <2>3
<1>3. CASE ~\E i \in DOMAIN rows : IsRowOf(rows[i], s)
  <2>1. Upserted(s, payload) = Append(rows, row)
    BY <1>3 DEF Upserted
  <2> HIDE DEF row
  <2> QED BY <1>1, <2>1
<1> QED BY <1>2, <1>3

\* What an emitted event says.
LEMMA EventPayload ==
  ASSUME Types, NEW e \in Events, Emitted(e)
  PROVE  /\ e[1] \in Subs
         /\ e[2] \in 1 .. Len(stripe[e[1]].history)
         /\ stripe[e[1]].history # <<>>
         /\ stripe[e[1]].history[e[2]] \in Payload
<1>1. e[1] \in Subs /\ e[2] \in Nat /\ e[2] >= 1
  BY EventParts
<1>2. stripe[e[1]].history \in Seq(Payload)
  BY <1>1 DEF Types
<1>3. e[2] \in 1 .. Len(stripe[e[1]].history)
  BY <1>1, <1>2 DEF Emitted
<1> QED BY <1>1, <1>2, <1>3

LEMMA DeliveryStarts == Init => DeliveryInv
<1> SUFFICES ASSUME Init PROVE DeliveryInv
  OBVIOUS
<1>1. Types
  BY DEF Init, Types, Req, IdleReq, Hook, IdleHook
<1>2. Recording /\ CheckedExists
  BY DEF Init, Recording, CheckedExists, IdleReq, IdleHook
<1>3. Counted1 /\ OneCustomer
  BY DEF Init, Counted1, OneCustomer
<1>4. QED
  BY <1>1, <1>2, <1>3 DEF DeliveryInv

\* A request that moves on, or ends, stays in its type; only Register reaches
\* "recording".
LEMMA RequestMoves ==
  ASSUME Types, Recording, NEW r \in Requests,
         \/ End(r)
         \/ \E pc \in {"granting", "ready", "registering", "counting", "creating"} : Goto(r, pc)
         \/ \E c \in Customers : Become(r, [pc |-> "recording", customer |-> c, limit |-> 0])
         \/ /\ InForce # "NONE"
            /\ Become(r, [pc |-> "counting", customer |-> None, limit |-> PlanLimit[InForce]])
  PROVE  req' \in [Requests -> Req] /\ Recording'
<1>1. CASE End(r)
  BY <1>1 DEF End, Become, IdleReq, Types, Recording, Req
<1>2. CASE \E pc \in {"granting", "ready", "registering", "counting", "creating"} : Goto(r, pc)
  BY <1>2 DEF Goto, Types, Recording, Req
<1>3. CASE \E c \in Customers : Become(r, [pc |-> "recording", customer |-> c, limit |-> 0])
  BY <1>3 DEF Become, Types, Recording, Req
<1>4. CASE /\ InForce # "NONE"
            /\ Become(r, [pc |-> "counting", customer |-> None, limit |-> PlanLimit[InForce]])
  <2>1. PlanLimit[InForce] \in Nat
    BY <1>4, InForceIsAPlan DEF Types
  <2>2. PICK limit \in Nat :
          Become(r, [pc |-> "counting", customer |-> None, limit |-> limit])
    BY <1>4, <2>1
  <2>3. QED
    BY <2>2 DEF Become, Types, Recording, Req
<1>5. QED
  BY <1>1, <1>2, <1>3, <1>4

\* Steps of a request that leave Stripe's sessions and the customer alone.
LEMMA QuietRequests ==
  ASSUME DeliveryInv, NEW r \in Requests,
         \/ LookForPlan(r) \/ GrantFree(r) \/ Leave(r) \/ Register(r)
         \/ ReadPlan(r) \/ CountBots(r) \/ \E b \in Bots : CreateBot(r, b)
  PROVE  DeliveryInv'
<1>1. UNCHANGED <<customer, recorded, hook, sessions, stripe, acked, applied, heard>>
  BY DEF LookForPlan, GrantFree, Leave, Register, ReadPlan, CountBots, CreateBot, database, external,
         told
<1>r. rows' \in Seq(Row)
  BY GrantTyped DEF LookForPlan, Leave, Register, ReadPlan, CountBots, CreateBot, database,
                    DeliveryInv, Types
<1>2. req' \in [Requests -> Req] /\ Recording'
  <2>1. \/ End(r)
        \/ \E pc \in {"granting", "ready", "registering", "counting", "creating"} : Goto(r, pc)
        \/ \E c \in Customers : Become(r, [pc |-> "recording", customer |-> c, limit |-> 0])
        \/ /\ InForce # "NONE"
            /\ Become(r, [pc |-> "counting", customer |-> None, limit |-> PlanLimit[InForce]])
    BY DEF LookForPlan, GrantFree, Leave, Register, ReadPlan, CountBots, CreateBot
  <2>2. QED
    BY <2>1, RequestMoves DEF DeliveryInv
<1>3. QED
  BY <1>1, <1>r, <1>2 DEF DeliveryInv, Types, Counted1, OneCustomer, CheckedExists, Emitted

\* A session of the customer that is stored.
LEMMA CheckoutKeeps ==
  ASSUME DeliveryInv, NEW r \in Requests, Checkout(r)
  PROVE  DeliveryInv'
<1>1. UNCHANGED <<rows, customer, recorded, hook, stripe, acked, applied, heard>>
  BY DEF Checkout, database, told
<1>2. req' \in [Requests -> Req] /\ Recording'
  <2>1. End(r) \/ Goto(r, "registering")
    BY DEF Checkout
  <2>2. QED
    BY <2>1, RequestMoves DEF DeliveryInv
<1>3. sessions \subseteq sessions' /\ sessions' \subseteq {customer} /\ sessions' \subseteq Customers
  BY DEF Checkout, DeliveryInv, OneCustomer, Types
<1>4. OneCustomer'
  BY <1>1, <1>3 DEF DeliveryInv, OneCustomer
<1>5. QED
  BY <1>1, <1>2, <1>3, <1>4 DEF DeliveryInv, Types, Counted1, CheckedExists, Emitted

\* The first customer that is stored: nobody had a session before.
LEMMA RecordKeeps ==
  ASSUME DeliveryInv, NEW r \in Requests, Record(r)
  PROVE  DeliveryInv'
<1>1. UNCHANGED <<rows, recorded, hook, stripe, acked, applied, heard>> /\ End(r)
  BY DEF Record, told
<1>2. req' \in [Requests -> Req] /\ Recording'
  BY <1>1, RequestMoves DEF DeliveryInv
<1>3. CASE customer = None
  <2>1. sessions = {}
    BY <1>3, NoneIsNoCustomer DEF DeliveryInv, OneCustomer, Types
  <2>2. /\ req[r].customer \in Customers
        /\ customer' = req[r].customer
        /\ sessions' = {req[r].customer}
    BY <1>3, <2>1 DEF Record, Unclaimed, DeliveryInv, Recording
  <2>3. OneCustomer'
    BY <1>1, <2>1, <2>2 DEF DeliveryInv, OneCustomer
  <2>4. QED
    BY <1>1, <1>2, <2>2, <2>3 DEF DeliveryInv, Types, Counted1, CheckedExists, Emitted
<1>4. CASE customer # None
  <2>1. UNCHANGED <<customer, sessions>>
    BY <1>4 DEF Record, Unclaimed
  <2>2. QED
    BY <1>1, <1>2, <2>1 DEF DeliveryInv, Types, Counted1, OneCustomer, CheckedExists, Emitted
<1>5. QED
  BY <1>3, <1>4

-----------------------------------------------------------------------------
\* Stripe only starts a subscription for a customer with a session, and only
\* adds to a history.
LEMMA StripeKeeps ==
  ASSUME DeliveryInv, NEW s \in Subs, Stripe(s)
  PROVE  DeliveryInv'
<1>1. UNCHANGED <<rows, customer, recorded, req, hook, sessions, acked, applied, heard>>
  BY DEF Stripe, Subscribe, Change, database, told
<1>2. PICK c \in Customers, history \in Seq(Payload) :
        /\ Becomes(s, c, history)
        /\ c \in sessions
        /\ Len(stripe[s].history) =< Len(history)
  <2>1. CASE Subscribe(s)
    <3>0. PICK plan \in Paid : \E c \in sessions : Becomes(s, c, <<[plan |-> plan, status |-> "ACTIVE"]>>)
      BY <2>1 DEF Subscribe
    <3> DEFINE first == <<[plan |-> plan, status |-> "ACTIVE"]>>
    <3>1. PICK c \in sessions : Becomes(s, c, first)
      BY <3>0
    <3>2. stripe[s].history = <<>>
      BY <2>1, NoneIsNoCustomer DEF Subscribe, DeliveryInv, Types, OneCustomer
    <3>3. first \in Seq(Payload) /\ Len(stripe[s].history) =< Len(first)
      BY <3>2 DEF Payload, Statuses
    <3>4. c \in Customers
      BY <3>1 DEF DeliveryInv, Types
    <3> HIDE DEF first
    <3>5. QED
      BY <3>1, <3>3, <3>4
  <2>2. ASSUME NEW payload \in Payload, Change(s, payload)
        PROVE  \E c \in Customers, history \in Seq(Payload) :
                 /\ Becomes(s, c, history)
                 /\ c \in sessions
                 /\ Len(stripe[s].history) =< Len(history)
    <3> DEFINE old == stripe[s].history
               new == Append(old, payload)
    <3>1. old \in Seq(Payload) /\ old # <<>> /\ stripe[s].customer \in sessions
      BY <2>2 DEF Change, DeliveryInv, Types, OneCustomer
    <3>2. new \in Seq(Payload) /\ Len(old) =< Len(new)
      BY <3>1
    <3>3. Becomes(s, stripe[s].customer, new)
      BY <2>2 DEF Change
    <3>4. stripe[s].customer \in Customers
      BY <3>1 DEF DeliveryInv, Types
    <3>5. QED
      BY <3>1, <3>2, <3>3, <3>4
  <2>3. QED
    BY <2>1, <2>2 DEF Stripe
<1>3. stripe' \in [Subs -> [customer: Customers \cup {None}, history: Seq(Payload)]]
  BY <1>2 DEF Becomes, DeliveryInv, Types
<1>4. \A e \in Events : Emitted(e) => Emitted(e)'
  <2> SUFFICES ASSUME NEW e \in Events, Emitted(e) PROVE Emitted(e)'
    OBVIOUS
  <2>1. e[1] \in Subs /\ e[2] \in Nat
    BY EventParts
  <2>2. Len(stripe[e[1]].history) \in Nat /\ Len(stripe'[e[1]].history) \in Nat
    BY <2>1, <1>3 DEF DeliveryInv, Types
  <2>3. Len(stripe[e[1]].history) =< Len(stripe'[e[1]].history)
    BY <2>1, <2>2, <1>2 DEF Becomes, DeliveryInv, Types
  <2>4. QED
    BY <2>1, <2>2, <2>3 DEF Emitted
<1>5. OneCustomer'
  BY <1>1, <1>2 DEF Becomes, DeliveryInv, OneCustomer, Types
<1>6. QED
  BY <1>1, <1>3, <1>4, <1>5 DEF DeliveryInv, Types, Recording, Counted1, CheckedExists

-----------------------------------------------------------------------------
LEMMA ReceiveKeeps ==
  ASSUME DeliveryInv, NEW h \in Hooks, NEW e \in Events, Receive(h, e)
  PROVE  DeliveryInv'
<1>1. UNCHANGED <<rows, customer, recorded, req, sessions, stripe, applied, heard>>
  BY DEF Receive, database, told
<1>2. /\ hook' \in [Hooks -> Hook]
      /\ \A g \in Hooks : hook'[g].pc = "checked" =>
           \/ hook[g].pc = "checked" /\ hook'[g] = hook[g]
           \/ hook'[g].event = e
  <2>1. hook \in [Hooks -> Hook] /\ [pc |-> "checked", event |-> e] \in Hook
    BY DEF DeliveryInv, Types, Hook
  <2>2. CASE e \in recorded
    BY <2>1, <2>2 DEF Receive
  <2>3. CASE e \notin recorded
    <3>1. hook' = [hook EXCEPT ![h] = [pc |-> "checked", event |-> e]]
      BY <2>3 DEF Receive
    <3>2. hook' \in [Hooks -> Hook]
      BY <2>1, <3>1
    <3>3. hook'[h].event = e /\ \A g \in Hooks \ {h} : hook'[g] = hook[g]
      BY <2>1, <3>1
    <3>4. QED
      BY <3>2, <3>3
  <2>4. QED
    BY <2>2, <2>3
<1>3. acked' \subseteq recorded
  BY DEF Receive, DeliveryInv, Counted1
<1>4. CheckedExists'
  BY <1>1, <1>2 DEF Receive, DeliveryInv, CheckedExists, Emitted
<1>5. QED
  BY <1>1, <1>2, <1>3, <1>4 DEF DeliveryInv, Types, Recording, Counted1, OneCustomer

LEMMA FailKeeps ==
  ASSUME DeliveryInv, NEW h \in Hooks, Fail(h)
  PROVE  DeliveryInv'
<1>1. UNCHANGED <<rows, customer, recorded, req, sessions, stripe, acked, applied, heard>>
  BY DEF Fail, database, external, told
<1>2. hook' = [hook EXCEPT ![h] = IdleHook]
  BY DEF Fail, EndHook
<1>3. hook' \in [Hooks -> Hook] /\ CheckedExists'
  BY <1>1, <1>2 DEF DeliveryInv, Types, CheckedExists, Hook, IdleHook, Emitted
<1>4. QED
  BY <1>1, <1>3 DEF DeliveryInv, Types, Recording, Counted1, OneCustomer

\* An event that is not recorded yet is recorded and applied in one commit; its
\* customer is the stored one because its subscription grew out of a session.
LEMMA ApplyKeeps ==
  ASSUME DeliveryInv, NEW h \in Hooks, Apply(h)
  PROVE  DeliveryInv'
<1> DEFINE e == hook[h].event
<1>1. UNCHANGED <<customer, req, sessions, stripe>> /\ hook' = [hook EXCEPT ![h] = IdleHook]
  BY DEF Apply, EndHook
<1>2. hook[h].pc = "checked" /\ acked' = acked \cup {e}
  BY DEF Apply
<1>3. e \in Events /\ Emitted(e)
  BY <1>2 DEF DeliveryInv, CheckedExists
<1>4. customer = stripe[e[1]].customer
  <2>1. e[1] \in Subs /\ stripe[e[1]].history # <<>>
    BY <1>3, EventPayload DEF DeliveryInv
  <2> QED BY <2>1 DEF DeliveryInv, OneCustomer
<1>r. rows' \in Seq(Row) /\ heard' \in [Subs -> Nat]
  <2>1. e[1] \in Subs /\ e[2] \in Nat /\ stripe[e[1]].history[e[2]] \in Payload
    BY <1>3, EventPayload, EventParts DEF DeliveryInv
  <2>2. Upserted(e[1], stripe[e[1]].history[e[2]]) \in Seq(Row)
    <3> HIDE DEF e
    <3> QED BY <2>1, UpsertTyped DEF DeliveryInv, Types
  <2>3. rows' = rows \/ rows' = Upserted(e[1], stripe[e[1]].history[e[2]])
    BY DEF Apply
  <2>4. heard' = heard \/ heard' = [heard EXCEPT ![e[1]] = e[2]]
    BY DEF Apply, told
  <2> QED BY <2>1, <2>2, <2>3, <2>4 DEF DeliveryInv, Types
<1>5. hook' \in [Hooks -> Hook] /\ CheckedExists'
  BY <1>1 DEF DeliveryInv, Types, CheckedExists, Hook, IdleHook, Emitted
<1>6. CASE e \in recorded
  <2>1. UNCHANGED <<recorded, applied>>
    BY <1>6 DEF Apply, Recorded, told
  <2>2. QED
    BY <1>1, <1>2, <1>r, <1>5, <1>6, <2>1 DEF DeliveryInv, Types, Recording, Counted1, OneCustomer
<1>7. CASE e \notin recorded
  <2>1. recorded' = recorded \cup {e} /\ applied' = [applied EXCEPT ![e] = @ + 1]
    BY <1>4, <1>7 DEF Apply, Recorded
  <2>2. applied[e] = 0 /\ applied \in [Events -> Nat]
    BY <1>3, <1>7 DEF DeliveryInv, Types, Counted1
  <2>3. applied' \in [Events -> Nat] /\ applied'[e] = 1
    BY <1>3, <2>1, <2>2
  <2>4. \A f \in Events : f # e => applied'[f] = applied[f]
    BY <2>1, <2>2
  <2>5. Counted1'
    BY <1>2, <1>3, <2>1, <2>3, <2>4 DEF DeliveryInv, Counted1
  <2>6. QED
    BY <1>1, <1>3, <1>r, <1>5, <2>1, <2>3, <2>5 DEF DeliveryInv, Types, Recording, OneCustomer
<1>8. QED
  BY <1>6, <1>7

\* Bots and a step that changes nothing.
LEMMA OthersKeep ==
  ASSUME DeliveryInv, UNCHANGED <<database, req, hook, external, told>>
  PROVE  DeliveryInv'
BY DEF DeliveryInv, Types, Recording, Counted1, OneCustomer, CheckedExists, Emitted, database, external,
       told

LEMMA DeliveryStep == DeliveryInv /\ [Next]_vars => DeliveryInv'
<1> SUFFICES ASSUME DeliveryInv, [Next]_vars PROVE DeliveryInv'
  OBVIOUS
<1>1. ASSUME NEW r \in Requests, Request(r) PROVE DeliveryInv'
  BY <1>1, QuietRequests, CheckoutKeeps, RecordKeeps DEF Request
<1>2. ASSUME NEW s \in Subs, Stripe(s) PROVE DeliveryInv'
  BY <1>2, StripeKeeps
<1>3. ASSUME NEW h \in Hooks, Webhook(h) PROVE DeliveryInv'
  BY <1>3, ReceiveKeeps, FailKeeps, ApplyKeeps DEF Webhook
<1>4. ASSUME NEW b \in Bots, Stop(b) \/ Restart(b) PROVE DeliveryInv'
  BY <1>4, OthersKeep DEF Stop, Restart
<1>5. CASE UNCHANGED vars
  BY <1>5, OthersKeep DEF vars
<1>6. QED
  BY <1>1, <1>2, <1>3, <1>4, <1>5 DEF Next

\* However requests, checkouts and deliveries interleave, repeat and fail, an
\* event that Stripe will not send again has been applied exactly once
\* (BillingService.webhook, BillingService.checkout).
THEOREM AcknowledgedMeansApplied == Spec => []AckedEventsAreApplied
<1>1. DeliveryInv => AckedEventsAreApplied
  BY DEF DeliveryInv, Types, Counted1, AckedEventsAreApplied
<1>2. QED
  BY <1>1, DeliveryStarts, DeliveryStep, PTL DEF Spec

-----------------------------------------------------------------------------
(* The plan in force.  FREE rows come first, because only a user without    *)
(* rows is granted one, and because Stripe knows no subscription before the *)
(* first request is done with granting: a checkout takes longer than that.  *)

FreeOrPaid(row) ==
  \/ row.sub = None /\ row.plan = "FREE" /\ row.status = "ACTIVE"
  \/ row.sub \in Subs /\ row.plan \in Paid /\ row.status \in Statuses

RowsInOrder ==
  /\ rows \in Seq(Row)
  /\ \A i \in DOMAIN rows : FreeOrPaid(rows[i])
  /\ rows # <<>> => rows[1].plan = "FREE"
  /\ \A i, j \in DOMAIN rows : i < j /\ rows[j].plan = "FREE" => rows[i].plan = "FREE"

\* Who is past granting, has a session or a subscription has rows; who has a
\* subscription, or the row of one, has no request that still grants.
Provisioned ==
  /\ \A r \in Requests : req[r].pc \notin {"idle", "granting"} => rows # <<>>
  /\ sessions # {} => rows # <<>>
  /\ \A s \in Subs : stripe[s].history # <<>> => Quiet /\ rows # <<>>
  /\ \A i \in DOMAIN rows : rows[i].plan # "FREE" => Quiet

\* The row of a subscription says what the event heard of it last said.
HeardRows ==
  /\ \A s \in Subs : heard[s] # 0 =>
       /\ heard[s] \in 1 .. Len(stripe[s].history)
       /\ \E i \in DOMAIN rows : rows[i].sub = s
  /\ \A i \in DOMAIN rows : rows[i].sub \in Subs =>
       /\ heard[rows[i].sub] # 0
       /\ rows[i].plan = LastHeard(rows[i].sub).plan
       /\ rows[i].status = LastHeard(rows[i].sub).status

PlanInv == DeliveryInv /\ RowsInOrder /\ Provisioned /\ HeardRows

\* The latest entitled row is of a subscription that is paid for, if there is one,
\* because the FREE rows come first.
LEMMA PlanShown == PlanInv => PaidPlanInForce
<1> SUFFICES ASSUME PlanInv, rows # <<>>
             PROVE  \/ Paying = {} /\ InForce = "FREE"
                    \/ \E i \in DOMAIN rows :
                         /\ rows[i].sub \in Paying
                         /\ InForce = LastHeard(rows[i].sub).plan
                         /\ \A j \in DOMAIN rows : rows[j].sub \in Paying => j =< i
    BY DEF PaidPlanInForce
<1> DEFINE entitled == {i \in DOMAIN rows : rows[i].status \in Entitled}
           m == Max(entitled)
<1>0. RowsInOrder /\ HeardRows
  BY DEF PlanInv
<1>1. Len(rows) \in Nat /\ DOMAIN rows = 1 .. Len(rows) /\ 1 \in DOMAIN rows
  BY <1>0 DEF RowsInOrder
<1>2. 1 \in entitled
  <2>1. rows[1].plan = "FREE" /\ FreeOrPaid(rows[1])
    BY <1>0, <1>1 DEF RowsInOrder
  <2> QED BY <1>1, <2>1, PlanAssumption DEF FreeOrPaid, Entitled
<1>3. m \in entitled /\ \A i \in entitled : m >= i
  <2>1. entitled \in SUBSET (1 .. Len(rows)) /\ entitled # {}
    BY <1>1, <1>2
  <2> HIDE DEF entitled
  <2> QED BY <1>1, <2>1, LatestExists
<1>4. InForce = rows[m].plan
  BY <1>2 DEF InForce
<1>5. \A j \in DOMAIN rows : rows[j].sub \in Paying => j \in entitled /\ rows[j].plan # "FREE"
  <2> SUFFICES ASSUME NEW j \in DOMAIN rows, rows[j].sub \in Paying
               PROVE  j \in entitled /\ rows[j].plan # "FREE"
      OBVIOUS
  <2>1. rows[j].sub \in Subs /\ LastHeard(rows[j].sub).status \in Entitled
    BY DEF Paying
  <2>2. rows[j].status \in Entitled
    BY <1>0, <2>1 DEF HeardRows
  <2>3. rows[j].plan # "FREE"
    BY <1>0, <2>1, NoneIsNoCustomer, PlanAssumption DEF RowsInOrder, FreeOrPaid
  <2> QED BY <2>2, <2>3
<1>6. FreeOrPaid(rows[m])
  BY <1>0, <1>3 DEF RowsInOrder
<1>7. CASE rows[m].plan = "FREE"
  <2>1. ASSUME NEW s \in Paying PROVE FALSE
    <3>1. PICK i \in DOMAIN rows : rows[i].sub = s
      BY <1>0 DEF HeardRows, Paying
    <3>2. i \in entitled /\ rows[i].plan # "FREE"
      BY <1>5, <3>1
    <3>3. i \in Nat /\ m \in Nat /\ m \in DOMAIN rows
      BY <1>1, <1>3, <3>1
    <3>4. i =< m
      <4> HIDE DEF entitled, m
      <4> QED BY <1>3, <3>2, <3>3
    <3>5. i # m
      BY <1>7, <3>2
    <3>6. i < m
      <4> HIDE DEF entitled, m
      <4> QED BY <3>3, <3>4, <3>5
    <3> HIDE DEF entitled, m
    <3> QED BY <1>0, <1>7, <3>1, <3>2, <3>3, <3>6 DEF RowsInOrder
  <2> QED BY <2>1, <1>4, <1>7
<1>8. CASE rows[m].plan # "FREE"
  <2>1. m \in DOMAIN rows /\ rows[m].sub \in Subs /\ rows[m].status \in Entitled
    BY <1>3, <1>6, <1>8 DEF FreeOrPaid
  <2>2. rows[m].sub \in Paying /\ InForce = LastHeard(rows[m].sub).plan
    <3> HIDE DEF m
    <3> QED BY <1>0, <1>4, <2>1 DEF HeardRows, Paying
  <2>3. \A j \in DOMAIN rows : rows[j].sub \in Paying => j =< m
    <3> TAKE j \in DOMAIN rows
    <3> HAVE rows[j].sub \in Paying
    <3>1. j \in entitled
      BY <1>5
    <3>2. j \in Nat /\ m \in Nat
      BY <1>1, <2>1
    <3> HIDE DEF entitled, m
    <3> QED BY <1>3, <3>1, <3>2
  <2> HIDE DEF m
  <2> QED BY <2>1, <2>2, <2>3
<1> QED BY <1>7, <1>8

LEMMA PlanInit == Init => PlanInv
<1> SUFFICES ASSUME Init PROVE PlanInv
    OBVIOUS
<1>1. DeliveryInv
  BY DeliveryStarts
<1>2. RowsInOrder
  BY DEF Init, RowsInOrder
<1>3. Provisioned /\ HeardRows
  BY DEF Init, Provisioned, HeardRows, IdleReq
<1> QED BY <1>1, <1>2, <1>3 DEF PlanInv

\* A row that is granted: the others are FREE rows, if there are any.
LEMMA GrantOrdered ==
  ASSUME PlanInv, NEW r \in Requests, GrantFree(r)
  PROVE  RowsInOrder' /\ rows' # <<>> /\ \A i \in DOMAIN rows' : rows'[i].plan = "FREE"
<1> DEFINE free == [sub |-> None, plan |-> "FREE", status |-> "ACTIVE"]
<1>1. rows' = Append(rows, free) /\ req[r].pc = "granting"
  BY DEF GrantFree
<1>2. free \in Row /\ FreeOrPaid(free)
  BY DEF Row, Plans, FreeOrPaid, Statuses
<1>3. rows \in Seq(Row) /\ \A i \in DOMAIN rows : FreeOrPaid(rows[i]) /\ rows[i].plan = "FREE"
  BY <1>1 DEF PlanInv, RowsInOrder, Provisioned, Quiet, FreeOrPaid
<1>f. free.plan = "FREE"
  OBVIOUS
<1> HIDE DEF free
<1>4. /\ rows' \in Seq(Row) /\ rows' # <<>>
      /\ \A i \in DOMAIN rows' : rows'[i] = free \/ (i \in DOMAIN rows /\ rows'[i] = rows[i])
  BY <1>1, <1>2, <1>3
<1>5. \A i \in DOMAIN rows' : FreeOrPaid(rows'[i]) /\ rows'[i].plan = "FREE"
  BY <1>2, <1>3, <1>4, <1>f
<1>6. 1 \in DOMAIN rows'
  BY <1>4
<1> QED BY <1>4, <1>5, <1>6 DEF RowsInOrder, FreeOrPaid

\* The row of a subscription that Stripe knows is inserted last, or updated.
LEMMA UpsertOrdered ==
  ASSUME RowsInOrder, rows # <<>>, NEW s \in Subs, NEW payload \in Payload,
         rows' = Upserted(s, payload)
  PROVE  RowsInOrder' /\ rows' # <<>>
<1> DEFINE paid == [sub |-> s, plan |-> payload.plan, status |-> payload.status]
<1>1. paid \in Row /\ FreeOrPaid(paid) /\ paid.plan # "FREE"
  BY PlanAssumption DEF Row, Payload, Plans, FreeOrPaid
<1>2. rows \in Seq(Row) /\ 1 \in DOMAIN rows /\ s # None
  BY NoneIsNoCustomer DEF RowsInOrder
<1>3. CASE \A i \in DOMAIN rows : ~IsRowOf(rows[i], s)
  <2>1. rows' = Append(rows, paid)
    BY <1>3 DEF Upserted
  <2> HIDE DEF paid
  <2>2. /\ rows' \in Seq(Row) /\ rows' # <<>> /\ Len(rows') = Len(rows) + 1
        /\ rows'[Len(rows) + 1] = paid
        /\ \A i \in DOMAIN rows : rows'[i] = rows[i]
    BY <2>1, <1>1, <1>2
  <2>3. DOMAIN rows' = 1 .. Len(rows) + 1 /\ DOMAIN rows = 1 .. Len(rows) /\ Len(rows) \in Nat
    BY <2>2, <1>2
  <2>4. \A i \in DOMAIN rows' : i \in DOMAIN rows \/ i = Len(rows) + 1
    BY <2>3
  <2>5. \A i \in DOMAIN rows' : FreeOrPaid(rows'[i])
    BY <2>2, <2>4, <1>1 DEF RowsInOrder
  <2>6. \A i, j \in DOMAIN rows' : i < j /\ rows'[j].plan = "FREE" => rows'[i].plan = "FREE"
    <3> TAKE i, j \in DOMAIN rows'
    <3> HAVE i < j /\ rows'[j].plan = "FREE"
    <3>1. j # Len(rows) + 1
      BY <2>2, <1>1
    <3>2. i \in DOMAIN rows /\ j \in DOMAIN rows
      BY <3>1, <2>3
    <3> QED BY <3>2, <2>2 DEF RowsInOrder
  <2>7. rows'[1].plan = "FREE"
    BY <1>2, <2>2 DEF RowsInOrder
  <2> QED BY <2>2, <2>5, <2>6, <2>7 DEF RowsInOrder, FreeOrPaid
<1>4. CASE \E i \in DOMAIN rows : IsRowOf(rows[i], s)
  <2> DEFINE up(i) == IF IsRowOf(rows[i], s) THEN paid ELSE rows[i]
  <2>1. rows' = [i \in DOMAIN rows |-> up(i)]
    BY <1>4 DEF Upserted
  <2>2. ASSUME NEW i \in DOMAIN rows
        PROVE  up(i) \in Row /\ FreeOrPaid(up(i)) /\ (up(i).plan = "FREE" <=> rows[i].plan = "FREE")
    <3>1. rows[i] \in Row /\ FreeOrPaid(rows[i])
      BY <1>2 DEF RowsInOrder
    <3>2. CASE IsRowOf(rows[i], s)
      <4>1. rows[i].plan # "FREE"
        BY <3>1, <3>2, <1>2, PlanAssumption DEF IsRowOf, FreeOrPaid
      <4>2. up(i) = paid
        BY <3>2
      <4> HIDE DEF up, paid
      <4> QED BY <4>1, <4>2, <1>1
    <3>3. CASE ~IsRowOf(rows[i], s)
      BY <3>1, <3>3
    <3> QED BY <3>2, <3>3
  <2> HIDE DEF up
  <2>3. DOMAIN rows' = DOMAIN rows /\ DOMAIN rows = 1 .. Len(rows) /\ Len(rows) \in Nat
    BY <2>1, <1>2
  <2>4. \A i \in DOMAIN rows : rows'[i] = up(i)
    BY <2>1
  <2>5. rows' \in Seq(Row) /\ rows' # <<>>
    BY <2>1, <2>2, <2>3, <1>2
  <2> QED BY <2>2, <2>3, <2>4, <2>5, <1>2 DEF RowsInOrder, FreeOrPaid
<1> QED BY <1>3, <1>4

\* Steps that change no row: whoever leaves its place keeps Provisioned.
LEMMA RowsStay ==
  ASSUME PlanInv, UNCHANGED rows,
         \A r \in Requests : req'[r].pc = "granting" => req[r].pc = "granting" \/ rows = <<>>,
         \A r \in Requests :
           req'[r].pc \notin {"idle", "granting"} /\ req'[r] # req[r] => rows # <<>>,
         sessions' # {} => sessions # {} \/ rows # <<>>,
         \A s \in Subs : stripe'[s].history # <<>> => stripe[s].history # <<>> \/ (Quiet /\ rows # <<>>)
  PROVE  RowsInOrder' /\ Provisioned'
<1>1. RowsInOrder'
  BY DEF PlanInv, RowsInOrder, FreeOrPaid
<1>2. rows # <<>> => (Quiet => Quiet')
  BY DEF Quiet
<1>3. \A i \in DOMAIN rows : rows # <<>>
  BY DEF PlanInv, RowsInOrder
<1>4. Provisioned'
  BY <1>2, <1>3 DEF PlanInv, Provisioned
<1> QED BY <1>1, <1>4

\* What a row says moves with what was heard of its subscription, because a
\* history only grows and an event commits with its row.
LEMMA HeardStep ==
  ASSUME PlanInv, [Next]_vars
  PROVE  HeardRows'
<1>0. /\ HeardRows /\ Types /\ OneCustomer /\ CheckedExists
      /\ Len(rows) \in Nat /\ DOMAIN rows = 1 .. Len(rows)
  BY DEF PlanInv, DeliveryInv, Types
<1>1. ASSUME NEW r \in Requests, GrantFree(r) PROVE HeardRows'
  <2> DEFINE free == [sub |-> None, plan |-> "FREE", status |-> "ACTIVE"]
  <2>1. rows' = Append(rows, free) /\ UNCHANGED <<stripe, heard>> /\ free.sub \notin Subs
    BY <1>1, NoneIsNoCustomer DEF GrantFree, external, told
  <2> HIDE DEF free
  <2>2. /\ DOMAIN rows' = 1 .. Len(rows) + 1 /\ rows'[Len(rows) + 1] = free
        /\ \A i \in DOMAIN rows : i \in DOMAIN rows' /\ rows'[i] = rows[i]
    BY <1>0, <2>1 DEF Types
  <2>3. \A i \in DOMAIN rows' : i \in DOMAIN rows \/ rows'[i] = free
    BY <1>0, <2>2
  <2> QED BY <1>0, <2>1, <2>2, <2>3 DEF HeardRows, LastHeard
<1>2. ASSUME NEW s \in Subs, Stripe(s) PROVE HeardRows'
  <2>1. UNCHANGED <<rows, heard>>
    BY <1>2 DEF Stripe, Subscribe, Change, database, told
  <2>2. ASSUME NEW t \in Subs, heard[t] # 0
        PROVE  heard[t] \in 1 .. Len(stripe'[t].history) /\ LastHeard(t)' = LastHeard(t)
    <3> DEFINE old == stripe[t].history
    <3>1. old \in Seq(Payload) /\ heard[t] \in 1 .. Len(old) /\ heard'[t] = heard[t]
      BY <1>0, <2>1, <2>2 DEF HeardRows, Types
    <3>2. stripe'[t].history = old \/ \E payload \in Payload : stripe'[t].history = Append(old, payload)
      <4>1. CASE t # s
        BY <1>0, <1>2, <4>1 DEF Stripe, Subscribe, Change, Becomes, Types
      <4>2. CASE t = s
        <5>1. stripe[s].customer # None
          <6>1. stripe[s].history # <<>>
            BY <3>1, <4>2
          <6> QED BY <1>0, <6>1, NoneIsNoCustomer DEF OneCustomer, Types
        <5>2. PICK payload \in Payload : Change(s, payload)
          BY <1>2, <5>1 DEF Stripe, Subscribe
        <5> QED BY <1>0, <4>2, <5>2 DEF Change, Becomes, Types
      <4> QED BY <4>1, <4>2
    <3> HIDE DEF old
    <3>3. heard[t] \in 1 .. Len(stripe'[t].history) /\ stripe'[t].history[heard[t]] = old[heard[t]]
      BY <3>1, <3>2
    <3> USE DEF old
    <3> QED BY <3>1, <3>3 DEF LastHeard
  <2> QED BY <1>0, <2>1, <2>2 DEF HeardRows
<1>3. ASSUME NEW h \in Hooks, Apply(h) PROVE HeardRows'
  <2>1. hook[h].event \in Events /\ Emitted(hook[h].event) /\ UNCHANGED stripe
    BY <1>0, <1>3 DEF Apply, CheckedExists
  <2>2. PICK s \in Subs, n \in Nat :
          /\ s = hook[h].event[1] /\ n = hook[h].event[2]
          /\ n \in 1 .. Len(stripe[s].history)
          /\ stripe[s].history[n] \in Payload
    BY <1>0, <2>1, EventPayload, EventParts
  <2>3. CASE UNCHANGED <<rows, heard>>
    BY <1>0, <2>1, <2>3 DEF HeardRows, LastHeard
  <2>4. CASE rows' = Upserted(s, stripe[s].history[n]) /\ heard' = [heard EXCEPT ![s] = n]
    <3> DEFINE payload == stripe[s].history[n]
               row == [sub |-> s, plan |-> payload.plan, status |-> payload.status]
    <3>1. /\ heard'[s] = n /\ n \in Nat /\ n # 0
          /\ \A t \in Subs : t # s => heard'[t] = heard[t]
      <4>1. Len(stripe[s].history) \in Nat
        BY <1>0, <2>2 DEF Types
      <4> QED BY <1>0, <2>2, <2>4, <4>1 DEF Types
    <3>2. /\ \E i \in DOMAIN rows' : rows'[i].sub = s
          /\ \A i \in DOMAIN rows : i \in DOMAIN rows' /\ rows'[i].sub = rows[i].sub
          /\ \A i \in DOMAIN rows' :
               \/ rows'[i] = row
               \/ i \in DOMAIN rows /\ rows'[i] = rows[i] /\ rows[i].sub # s
      <4>1. CASE \E i \in DOMAIN rows : IsRowOf(rows[i], s)
        <5>1. rows' = [i \in DOMAIN rows |-> IF IsRowOf(rows[i], s) THEN row ELSE rows[i]]
          BY <2>4, <4>1 DEF Upserted
        <5>2. DOMAIN rows' = DOMAIN rows
          BY <5>1
        <5> HIDE DEF row
        <5>3. \A i \in DOMAIN rows : IF IsRowOf(rows[i], s) THEN rows'[i] = row ELSE rows'[i] = rows[i]
          BY <5>1
        <5>4. row.sub = s
          BY DEF row
        <5> QED BY <4>1, <5>2, <5>3, <5>4 DEF IsRowOf
      <4>2. CASE ~\E i \in DOMAIN rows : IsRowOf(rows[i], s)
        <5>1. rows' = Append(rows, row)
          BY <2>4, <4>2 DEF Upserted
        <5>2. row.sub = s
          OBVIOUS
        <5> HIDE DEF row
        <5>3. /\ DOMAIN rows' = 1 .. Len(rows) + 1 /\ rows'[Len(rows) + 1] = row
              /\ \A i \in DOMAIN rows : i \in DOMAIN rows' /\ rows'[i] = rows[i]
          BY <1>0, <5>1 DEF Types
        <5>4. \A i \in DOMAIN rows' : i \in DOMAIN rows \/ rows'[i] = row
          BY <1>0, <5>3
        <5>5. Len(rows) + 1 \in DOMAIN rows'
          BY <1>0, <5>3
        <5> QED BY <4>2, <5>2, <5>3, <5>4, <5>5 DEF IsRowOf
      <4> QED BY <4>1, <4>2
    <3>3. LastHeard(s)' = payload
      BY <2>1, <3>1 DEF LastHeard
    <3>4. \A t \in Subs : t # s => LastHeard(t)' = LastHeard(t)
      BY <2>1, <3>1 DEF LastHeard
    <3>5. row.sub = s /\ row.plan = payload.plan /\ row.status = payload.status
      OBVIOUS
    <3> HIDE DEF payload, row
    <3>6. ASSUME NEW t \in Subs, heard'[t] # 0
          PROVE  heard'[t] \in 1 .. Len(stripe'[t].history) /\ \E i \in DOMAIN rows' : rows'[i].sub = t
      <4>1. CASE t = s
        BY <2>1, <2>2, <3>1, <3>2, <4>1
      <4>2. CASE t # s
        BY <1>0, <2>1, <3>1, <3>2, <3>6, <4>2 DEF HeardRows
      <4> QED BY <4>1, <4>2
    <3>7. ASSUME NEW i \in DOMAIN rows', NEW t \in Subs, rows'[i].sub = t
          PROVE  /\ heard'[t] # 0
                 /\ rows'[i].plan = LastHeard(t)'.plan
                 /\ rows'[i].status = LastHeard(t)'.status
      <4>1. CASE rows'[i] = row
        BY <3>1, <3>3, <3>5, <3>7, <4>1
      <4>2. CASE i \in DOMAIN rows /\ rows'[i] = rows[i] /\ rows[i].sub # s
        <5>1. heard[t] # 0 /\ rows[i].plan = LastHeard(t).plan /\ rows[i].status = LastHeard(t).status
          BY <1>0, <3>7, <4>2 DEF HeardRows
        <5>2. t # s
          BY <3>7, <4>2
        <5> QED BY <3>1, <3>4, <4>2, <5>1, <5>2
      <4> QED BY <3>2, <4>1, <4>2
    <3> QED BY <3>6, <3>7 DEF HeardRows, LastHeard
  <2> QED BY <1>3, <2>2, <2>3, <2>4 DEF Apply, told
<1>4. CASE UNCHANGED <<rows, stripe, heard>>
  BY <1>0, <1>4 DEF HeardRows, LastHeard
<1> QED BY <1>1, <1>2, <1>3, <1>4
        DEF Next, vars, database, external, told, Request, Webhook, LookForPlan, Leave, Checkout,
            Register, Record, ReadPlan, CountBots, CreateBot, Receive, Fail, Stop, Restart

LEMMA PlanStep == PlanInv /\ [Next]_vars => PlanInv'
<1> SUFFICES ASSUME PlanInv, [Next]_vars PROVE PlanInv'
    OBVIOUS
<1>d. DeliveryInv' /\ HeardRows'
  BY DeliveryStep, HeardStep DEF PlanInv
<1> SUFFICES RowsInOrder' /\ Provisioned'
    BY <1>d DEF PlanInv
<1>0. /\ req \in [Requests -> Req] /\ Provisioned /\ RowsInOrder
      /\ DeliveryInv /\ OneCustomer /\ CheckedExists
  BY DEF PlanInv, DeliveryInv, Types
<1>1. ASSUME NEW r \in Requests, Request(r) PROVE RowsInOrder' /\ Provisioned'
  <2>1. CASE LookForPlan(r)
    <3>1. /\ UNCHANGED <<rows, sessions, stripe>>
          /\ \A q \in Requests \ {r} : req'[q] = req[q]
          /\ req'[r].pc = IF rows = <<>> THEN "granting" ELSE "ready"
      BY <2>1, <1>0 DEF LookForPlan, Goto, database, external, Req
    <3> QED BY <3>1, RowsStay
  <2>2. CASE GrantFree(r)
    <3>1. RowsInOrder' /\ rows' # <<>> /\ \A i \in DOMAIN rows' : rows'[i].plan = "FREE"
      BY <2>2, GrantOrdered
    <3>2. ~Quiet /\ UNCHANGED <<sessions, stripe>>
      BY <2>2 DEF GrantFree, Quiet, external
    <3> QED BY <3>1, <3>2, <1>0 DEF Provisioned
  <2>3. CASE Leave(r) \/ Checkout(r) \/ Register(r) \/ Record(r) \/ ReadPlan(r) \/ CountBots(r)
             \/ \E b \in Bots : CreateBot(r, b)
    <3>0. UNCHANGED <<rows, stripe>>
      BY <2>3 DEF Leave, Checkout, Register, Record, ReadPlan, CountBots, CreateBot,
                  database, external
    <3>m. \/ \E pc \in {"registering", "creating"} : Goto(r, pc)
          \/ \E record : Become(r, record) /\ record.pc # "granting"
      <4>1. CASE Leave(r) \/ Record(r) \/ \E b \in Bots : CreateBot(r, b)
        BY <4>1 DEF Leave, Record, CreateBot, End, IdleReq
      <4>2. CASE Checkout(r) \/ CountBots(r)
        BY <4>2 DEF Checkout, CountBots, End, IdleReq
      <4>3. CASE Register(r)
        BY <4>3 DEF Register
      <4>4. CASE ReadPlan(r)
        BY <4>4 DEF ReadPlan
      <4> QED BY <2>3, <4>1, <4>2, <4>3, <4>4
    <3>1. UNCHANGED <<rows, stripe>> /\ \A q \in Requests \ {r} : req'[q] = req[q]
      BY <3>0, <3>m, <1>0 DEF Become, Goto
    <3>2. req'[r].pc # "granting"
      BY <3>m, <1>0 DEF Become, Goto, Req
    <3>3. CASE Leave(r)
      <4>1. req'[r].pc = "idle" /\ UNCHANGED sessions
        BY <3>3, <1>0 DEF Leave, End, Become, IdleReq, external
      <4> QED BY <3>1, <4>1, RowsStay
    <3>4. CASE ~Leave(r)
      <4>1. req[r].pc \notin {"idle", "granting"}
        BY <2>3, <3>4 DEF Checkout, Register, Record, ReadPlan, CountBots, CreateBot
      <4>2. rows # <<>>
        BY <4>1, <1>0 DEF Provisioned
      <4> QED BY <3>1, <3>2, <4>2, RowsStay
    <3> QED BY <3>3, <3>4
  <2> QED BY <1>1, <2>1, <2>2, <2>3 DEF Request
<1>2. ASSUME NEW s \in Subs, Stripe(s) PROVE RowsInOrder' /\ Provisioned'
  <2>1. /\ UNCHANGED <<rows, req, sessions>>
        /\ \A t \in Subs \ {s} : stripe'[t] = stripe[t]
    BY <1>2, <1>0 DEF Stripe, Subscribe, Change, Becomes, database, DeliveryInv, Types
  <2>2. stripe[s].history # <<>> \/ (Quiet /\ rows # <<>>)
    <3>1. CASE Subscribe(s)
      <4>1. Quiet /\ sessions # {}
        BY <3>1 DEF Subscribe
      <4> QED BY <4>1, <1>0 DEF Provisioned
    <3>2. ASSUME NEW payload \in Payload, Change(s, payload) PROVE stripe[s].history # <<>>
      BY <3>2 DEF Change
    <3> QED BY <1>2, <3>1, <3>2 DEF Stripe
  <2> QED BY <2>1, <2>2, RowsStay
<1>3. ASSUME NEW h \in Hooks, Webhook(h) PROVE RowsInOrder' /\ Provisioned'
  <2>1. CASE (\E e \in Events : Receive(h, e)) \/ Fail(h)
    <3>1. UNCHANGED <<rows, req, sessions, stripe>>
      BY <2>1 DEF Receive, Fail, database, external
    <3> QED BY <3>1, RowsStay
  <2>2. CASE Apply(h)
    <3> DEFINE e == hook[h].event
               s == e[1]
    <3>1. e \in Events /\ Emitted(e) /\ UNCHANGED <<req, sessions, stripe>>
      BY <2>2, <1>0 DEF Apply, CheckedExists
    <3>2. s \in Subs /\ stripe[s].history # <<>> /\ stripe[s].history[e[2]] \in Payload
      BY <3>1, <1>0, EventPayload DEF DeliveryInv
    <3>3. Quiet /\ rows # <<>>
      BY <3>2, <1>0 DEF Provisioned
    <3>4. CASE rows' = rows
      BY <3>1, <3>4, RowsStay
    <3>5. CASE rows' = Upserted(s, stripe[s].history[e[2]])
      <4>1. RowsInOrder' /\ rows' # <<>>
        BY <3>2, <3>3, <3>5, <1>0, UpsertOrdered
      <4>2. Quiet'
        BY <3>1, <3>3 DEF Quiet
      <4> QED BY <3>1, <4>1, <4>2, <1>0 DEF Provisioned
    <3> QED BY <2>2, <3>4, <3>5 DEF Apply
  <2> QED BY <1>3, <2>1, <2>2 DEF Webhook
<1>4. ASSUME NEW b \in Bots, Stop(b) \/ Restart(b) PROVE RowsInOrder' /\ Provisioned'
  <2>1. UNCHANGED <<rows, req, sessions, stripe>>
    BY <1>4 DEF Stop, Restart, database, external
  <2> QED BY <2>1, RowsStay
<1>5. CASE UNCHANGED vars
  <2>1. UNCHANGED <<rows, req, sessions, stripe>>
    BY <1>5 DEF vars, database, external
  <2> QED BY <2>1, RowsStay
<1> QED BY <1>1, <1>2, <1>3, <1>4, <1>5 DEF Next

\* For any requests, webhooks and subscriptions of any paid plans: a user with
\* rows is on FREE when no subscription is known to be paid for, and otherwise on
\* the plan that the last event heard of the newest paid one names
\* (BillingService.assertCanCreateBot, applySubscriptionEvent).
THEOREM PaidPlan == Spec => []PaidPlanInForce
<1>1. PlanInv => PaidPlanInForce
  BY PlanShown DEF PlanInv
<1> QED BY PlanInit, PlanStep, <1>1, PTL DEF Spec

-----------------------------------------------------------------------------
(* The types, and that the upsert leaves one row for each subscription.     *)

OneRowEach == \A i, j \in DOMAIN rows : rows[i].sub = rows[j].sub /\ rows[i].sub # None => i = j
BotsOK == bot \in [Bots -> {"none", "counted", "STOPPED"}] /\ issued \subseteq Customers
TypeInv == PlanInv /\ OneRowEach /\ BotsOK

LEMMA AppendKeepsOne ==
  ASSUME rows \in Seq(Row), OneRowEach, NEW row \in Row, rows' = Append(rows, row),
         row.sub = None \/ \A i \in DOMAIN rows : rows[i].sub # row.sub
  PROVE  OneRowEach'
<1>1. /\ Len(rows) \in Nat /\ DOMAIN rows = 1 .. Len(rows)
      /\ DOMAIN rows' = 1 .. Len(rows) + 1 /\ rows'[Len(rows) + 1] = row
      /\ \A i \in DOMAIN rows : rows'[i] = rows[i]
  OBVIOUS
<1> SUFFICES ASSUME NEW i \in DOMAIN rows', NEW j \in DOMAIN rows',
                    rows'[i].sub = rows'[j].sub, rows'[i].sub # None
             PROVE  i = j
    BY DEF OneRowEach
<1>2. CASE i \in DOMAIN rows /\ j \in DOMAIN rows
  BY <1>1, <1>2 DEF OneRowEach
<1>3. CASE i = Len(rows) + 1 \/ j = Len(rows) + 1
  BY <1>1, <1>3
<1> QED BY <1>1, <1>2, <1>3

LEMMA UpsertKeepsOne ==
  ASSUME rows \in Seq(Row), OneRowEach, NEW s \in Subs, NEW payload \in Payload,
         rows' = Upserted(s, payload)
  PROVE  OneRowEach'
<1>1. CASE \A i \in DOMAIN rows : ~IsRowOf(rows[i], s)
  <2> DEFINE paid == [sub |-> s, plan |-> payload.plan, status |-> payload.status]
  <2>1. rows' = Append(rows, paid) /\ paid \in Row /\ paid.sub = s
    BY <1>1 DEF Upserted, Row, Payload, Plans
  <2> HIDE DEF paid
  <2> QED BY <1>1, <2>1, AppendKeepsOne DEF IsRowOf
<1>2. CASE \E i \in DOMAIN rows : IsRowOf(rows[i], s)
  <2> DEFINE row == [sub |-> s, plan |-> payload.plan, status |-> payload.status]
             up(i) == IF IsRowOf(rows[i], s) THEN row ELSE rows[i]
  <2>1. rows' = [i \in DOMAIN rows |-> up(i)]
    BY <1>2 DEF Upserted
  <2>2. \A i \in DOMAIN rows : up(i).sub = rows[i].sub
    BY DEF IsRowOf
  <2> HIDE DEF up
  <2> QED BY <2>1, <2>2 DEF OneRowEach
<1> QED BY <1>1, <1>2

LEMMA RowsStayOne ==
  ASSUME PlanInv, OneRowEach, [Next]_vars
  PROVE  OneRowEach'
<1>0. rows \in Seq(Row) /\ CheckedExists /\ Types
  BY DEF PlanInv, RowsInOrder, DeliveryInv
<1>1. ASSUME NEW r \in Requests, GrantFree(r) PROVE OneRowEach'
  <2> DEFINE free == [sub |-> None, plan |-> "FREE", status |-> "ACTIVE"]
  <2>1. rows' = Append(rows, free) /\ free \in Row /\ free.sub = None
    BY <1>1 DEF GrantFree, Row, Plans, Statuses
  <2> HIDE DEF free
  <2> QED BY <1>0, <2>1, AppendKeepsOne
<1>2. ASSUME NEW h \in Hooks, Apply(h) PROVE OneRowEach'
  <2> DEFINE e == hook[h].event
             s == e[1]
  <2>1. e \in Events /\ Emitted(e)
    BY <1>0, <1>2 DEF Apply, CheckedExists
  <2>2. s \in Subs /\ stripe[s].history[e[2]] \in Payload
    BY <1>0, <2>1, EventPayload
  <2>3. rows' = rows \/ rows' = Upserted(s, stripe[s].history[e[2]])
    BY <1>2 DEF Apply
  <2> HIDE DEF e, s
  <2>4. CASE rows' = rows
    BY <2>4 DEF OneRowEach
  <2> QED BY <1>0, <2>2, <2>3, <2>4, UpsertKeepsOne
<1>3. CASE UNCHANGED rows
  BY <1>3 DEF OneRowEach
<1> QED BY <1>1, <1>2, <1>3
        DEF Next, vars, database, Request, Stripe, Webhook, LookForPlan, Leave, Checkout, Register,
            Record, ReadPlan, CountBots, CreateBot, Subscribe, Change, Receive, Fail, Stop, Restart

LEMMA BotsStep == BotsOK /\ [Next]_vars => BotsOK'
<1> SUFFICES ASSUME BotsOK, [Next]_vars PROVE BotsOK'
    OBVIOUS
<1>1. ASSUME NEW r \in Requests, NEW b \in Bots, CreateBot(r, b) PROVE BotsOK'
  BY <1>1 DEF CreateBot, external, BotsOK
<1>2. ASSUME NEW b \in Bots, Stop(b) \/ Restart(b) PROVE BotsOK'
  BY <1>2 DEF Stop, Restart, external, BotsOK
<1>3. ASSUME NEW r \in Requests, Register(r) PROVE BotsOK'
  BY <1>3 DEF Register, BotsOK
<1>4. CASE UNCHANGED <<bot, issued>>
  BY <1>4 DEF BotsOK
<1> QED BY <1>1, <1>2, <1>3, <1>4
        DEF Next, vars, external, Request, Stripe, Webhook, LookForPlan, GrantFree, Leave, Checkout,
            Record, ReadPlan, CountBots, Subscribe, Change, Receive, Apply, Fail

\* Types of every reachable state, for any requests, deliveries and customers;
\* in particular a subscription has one row, however often and in whatever order
\* its webhooks are delivered (Subscription.upsert on providerSubscriptionId).
THEOREM PlanTyped == Spec => []TypeOK
<1>1. Init => TypeInv
  <2>1. Init => OneRowEach /\ BotsOK
    BY DEF Init, OneRowEach, BotsOK
  <2> QED BY <2>1, PlanInit DEF TypeInv
<1>2. TypeInv /\ [Next]_vars => TypeInv'
  BY PlanStep, RowsStayOne, BotsStep DEF TypeInv
<1>3. TypeInv => TypeOK
  BY DEF TypeInv, PlanInv, DeliveryInv, Types, Counted1, RowsInOrder, OneRowEach, BotsOK, TypeOK
<1> QED BY <1>1, <1>2, <1>3, PTL DEF Spec
=============================================================================
