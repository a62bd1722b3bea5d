---------------------------- MODULE Subscriptions ----------------------------
(***************************************************************************)
(* The plan of one user: the FREE plan that the first authenticated        *)
(* request grants (UserProvisioningService), the Stripe customer and       *)
(* session of a checkout, the webhooks that bring what Stripe did with the *)
(* subscription (BillingService), and the limit that the plan in force     *)
(* sets to new bots (assertCanCreateBot, BotsService.create).              *)
(*                                                                         *)
(* Requests and webhooks interleave at every query.  Stripe delivers an    *)
(* event until it is acknowledged, possibly twice at a time, and in any    *)
(* order.  A request may fail and a webhook may die at every step.         *)
(***************************************************************************)
EXTENDS Sequences, SequencesExt, FiniteSetsExt

CONSTANTS Requests,         \* API requests in flight
          Hooks,            \* webhook deliveries in flight
          Customers,        \* ids Stripe has for new customers
          Subs,             \* ids Stripe has for new subscriptions
          Bots,
          Paid,             \* the plans of the checkout: STARTER, PRO, ADVANCED
          PlanLimit,        \* maxPaperTraderInstances of each plan
          MaxEvents,        \* bound on the events of a subscription
          MaxFree,          \* bound on the FREE rows
          None

Plans == {"FREE"} \cup Paid

ASSUME PlanAssumption ==
  /\ "FREE" \notin Paid
  /\ PlanLimit \in [Plans -> Nat]
  /\ {MaxEvents, MaxFree} \subseteq Nat
  /\ None \notin Customers \cup Subs \cup (Subs \X Nat)

VARIABLES
  rows,         \* Subscription rows of the user, by createdAt
  customer,     \* BillingCustomer.providerCustomerId of the user
  recorded,     \* BillingWebhookEvent
  bot,          \* Bot.status: none, counted or STOPPED
  req, hook,    \* what each request and each delivery is doing
  issued,       \* Stripe: customers created
  sessions,     \* Stripe: customers that were given a checkout session
  stripe,       \* Stripe: customer and history of each subscription
  acked,        \* Stripe: events answered with 200
  applied,      \* no variable of the code: how often an event reached a row
  heard         \* no variable of the code: which event reached each row last

database == <<rows, customer, recorded>>
external == <<issued, sessions, stripe, acked>>
told == <<applied, heard>>
vars == <<database, bot, req, hook, external, told>>

-----------------------------------------------------------------------------
Statuses == {"ACTIVE", "PAST_DUE", "CANCELED"}
Entitled == {"ACTIVE"}      \* and TRIALING, but not PAST_DUE

Row == [sub: Subs \cup {None}, plan: Plans, status: Statuses]

\* The n-th thing that happened to a subscription, with the plan and the status
\* it had then.
Events == Subs \X (1 .. MaxEvents)
Payload == [plan: Paid, status: Statuses]

Req == [pc: {"idle", "granting", "ready", "registering", "recording", "counting", "creating"},
        customer: Customers \cup {None},
        limit: Nat]
IdleReq == [pc |-> "idle", customer |-> None, limit |-> 0]

Hook == [pc: {"idle", "checked"}, event: Events \cup {None}]
IdleHook == [pc |-> "idle", event |-> None]

Init ==
  /\ rows = <<>>
  /\ customer = None
  /\ recorded = {}
  /\ bot = [b \in Bots |-> "none"]
  /\ req = [r \in Requests |-> IdleReq]
  /\ hook = [h \in Hooks |-> IdleHook]
  /\ issued = {}
  /\ sessions = {}
  /\ stripe = [s \in Subs |-> [customer |-> None, history |-> <<>>]]
  /\ acked = {}
  /\ applied = [e \in Events |-> 0]
  /\ heard = [s \in Subs |-> 0]

Become(r, record) == req' = [req EXCEPT ![r] = record]
Goto(r, pc) == req' = [req EXCEPT ![r].pc = pc]
End(r) == Become(r, IdleReq)
EndHook(h) == hook' = [hook EXCEPT ![h] = IdleHook]

-----------------------------------------------------------------------------
(* UserProvisioningService.ensureFreePlan, before anything a request does *)

FreeRows == {i \in DOMAIN rows : rows[i].sub = None}

LookForPlan(r) ==
  /\ req[r].pc = "idle"
  /\ Goto(r, IF rows = <<>> THEN "granting" ELSE "ready")
  /\ UNCHANGED <<database, bot, hook, external, told>>

GrantFree(r) ==
  /\ req[r].pc = "granting"
  /\ Cardinality(FreeRows) < MaxFree
  /\ rows' = Append(rows, [sub |-> None, plan |-> "FREE", status |-> "ACTIVE"])
  /\ Goto(r, "ready")
  /\ UNCHANGED <<customer, recorded, bot, hook, external, told>>

\* The request is answered, refused or lost.
Leave(r) ==
  /\ req[r].pc # "idle"
  /\ End(r)
  /\ UNCHANGED <<database, bot, hook, external, told>>

-----------------------------------------------------------------------------
(* BillingService.checkout *)

Checkout(r) ==
  /\ req[r].pc = "ready"
  /\ IF customer # None
       THEN sessions' = sessions \cup {customer} /\ End(r)
       ELSE UNCHANGED sessions /\ Goto(r, "registering")
  /\ UNCHANGED <<database, bot, hook, issued, stripe, acked, told>>

Register(r) ==
  /\ req[r].pc = "registering"
  /\ \E c \in Customers \ issued :
       /\ issued' = issued \cup {c}
       /\ Become(r, [pc |-> "recording", customer |-> c, limit |-> 0])
  /\ UNCHANGED <<database, bot, hook, sessions, stripe, acked, told>>

\* BillingCustomer.userId is unique: the slower of two requests fails.
Unclaimed(r) == customer = None
Record(r) ==
  /\ req[r].pc = "recording"
  /\ IF Unclaimed(r)
       THEN /\ customer' = req[r].customer
            /\ sessions' = sessions \cup {req[r].customer}
       ELSE UNCHANGED <<customer, sessions>>
  /\ End(r)
  /\ UNCHANGED <<rows, recorded, bot, hook, issued, stripe, acked, told>>

-----------------------------------------------------------------------------
(* Stripe *)

Becomes(s, c, history) == stripe' = [stripe EXCEPT ![s] = [customer |-> c, history |-> history]]
Quiet == \A r \in Requests : req[r].pc # "granting"

\* The user completes a checkout of some plan, which takes longer than any
\* request.  Nothing keeps a user from a second subscription beside the first.
Subscribe(s) ==
  /\ stripe[s].customer = None
  /\ MaxEvents > 0
  /\ Quiet
  /\ \E c \in sessions, plan \in Paid : Becomes(s, c, <<[plan |-> plan, status |-> "ACTIVE"]>>)
  /\ UNCHANGED <<database, bot, req, hook, issued, sessions, acked, told>>

\* A payment that fails or comes late, the end, or another plan.
Change(s, payload) ==
  LET history == stripe[s].history
      now == Last(history)
  IN
  /\ 0 < Len(history) /\ Len(history) < MaxEvents
  /\ now.status # "CANCELED"
  /\ payload.plan = now.plan <=> payload.status # now.status
  /\ Becomes(s, stripe[s].customer, Append(history, payload))
  /\ UNCHANGED <<database, bot, req, hook, issued, sessions, acked, told>>

-----------------------------------------------------------------------------
(* BillingService.webhook *)

Emitted(e) == e[2] =< Len(stripe[e[1]].history)

RecordedUnseen(e) == FALSE
Recorded(e) == e \in recorded

\* The first look for the event, outside the transaction.
Receive(h, e) ==
  /\ hook[h].pc = "idle"
  /\ Emitted(e)
  /\ IF e \in recorded
       THEN acked' = acked \cup {e} /\ UNCHANGED hook
       ELSE hook' = [hook EXCEPT ![h] = [pc |-> "checked", event |-> e]] /\ UNCHANGED acked
  /\ UNCHANGED <<database, bot, req, issued, sessions, stripe, told>>

\* Subscription.upsert on providerSubscriptionId.
IsRowOf(row, s) == row.sub = s
Upserted(s, payload) ==
  LET row == [sub |-> s, plan |-> payload.plan, status |-> payload.status] IN
  IF \E i \in DOMAIN rows : IsRowOf(rows[i], s)
    THEN [i \in DOMAIN rows |-> IF IsRowOf(rows[i], s) THEN row ELSE rows[i]]
    ELSE Append(rows, row)

\* The transaction records the event, which fails if another delivery has, and
\* applies it if Stripe's customer is the user's.
Apply(h) ==
  LET e == hook[h].event
      s == e[1]
      known == customer = stripe[s].customer
  IN
  /\ hook[h].pc = "checked"
  /\ IF Recorded(e)
       THEN UNCHANGED <<rows, recorded, told>>
       ELSE /\ recorded' = recorded \cup {e}
            /\ rows' = IF known THEN Upserted(s, stripe[s].history[e[2]]) ELSE rows
            /\ applied' = IF known THEN [applied EXCEPT ![e] = @ + 1] ELSE applied
            /\ heard' = IF known THEN [heard EXCEPT ![s] = e[2]] ELSE heard
  /\ acked' = acked \cup {e}
  /\ EndHook(h)
  /\ UNCHANGED <<customer, bot, req, issued, sessions, stripe>>

\* The delivery fails before its transaction commits; Stripe tries again.
Fail(h) ==
  /\ hook[h].pc = "checked"
  /\ EndHook(h)
  /\ UNCHANGED <<database, bot, req, external, told>>

-----------------------------------------------------------------------------
(* BillingService.assertCanCreateBot and BotsService.create *)

\* findFirst of the entitled rows, by createdAt descending: the plans are not
\* compared.
InForceOldest ==
  LET entitled == {i \in DOMAIN rows : rows[i].status \in Entitled} IN
  IF entitled = {} THEN "NONE" ELSE rows[Min(entitled)].plan
InForce ==
  LET entitled == {i \in DOMAIN rows : rows[i].status \in Entitled} IN
  IF entitled = {} THEN "NONE" ELSE rows[Max(entitled)].plan

Counted == {b \in Bots : bot[b] = "counted"}

ReadPlan(r) ==
  /\ req[r].pc = "ready"
  /\ InForce # "NONE"
  /\ Become(r, [pc |-> "counting", customer |-> None, limit |-> PlanLimit[InForce]])
  /\ UNCHANGED <<database, bot, hook, external, told>>

CountBots(r) ==
  /\ req[r].pc = "counting"
  /\ IF Cardinality(Counted) >= req[r].limit THEN End(r) ELSE Goto(r, "creating")
  /\ UNCHANGED <<database, bot, hook, external, told>>

CreateBot(r, b) ==
  /\ req[r].pc = "creating"
  /\ bot[b] = "none"
  /\ bot' = [bot EXCEPT ![b] = "counted"]
  /\ End(r)
  /\ UNCHANGED <<database, hook, external, told>>

\* changeStatus to STOPPED, and from STOPPED to READY, does not look at the plan.
Stop(b) ==
  /\ bot[b] = "counted"
  /\ bot' = [bot EXCEPT ![b] = "STOPPED"]
  /\ UNCHANGED <<database, req, hook, external, told>>

Restart(b) ==
  /\ bot[b] = "STOPPED"
  /\ bot' = [bot EXCEPT ![b] = "counted"]
  /\ UNCHANGED <<database, req, hook, external, told>>

-----------------------------------------------------------------------------
Request(r) ==
  \/ LookForPlan(r) \/ GrantFree(r) \/ Leave(r)
  \/ Checkout(r) \/ Register(r) \/ Record(r)
  \/ ReadPlan(r) \/ CountBots(r)
  \/ \E b \in Bots : CreateBot(r, b)

Stripe(s) == Subscribe(s) \/ \E payload \in Payload : Change(s, payload)

Webhook(h) ==
  \/ \E e \in Events : Receive(h, e)
  \/ Apply(h)
  \/ Fail(h)

Next ==
  \/ \E r \in Requests : Request(r)
  \/ \E s \in Subs : Stripe(s)
  \/ \E h \in Hooks : Webhook(h)
  \/ \E b \in Bots : Stop(b) \/ Restart(b)

Spec == Init /\ [][Next]_vars

-----------------------------------------------------------------------------
TypeOK ==
  /\ rows \in Seq(Row)
  /\ \A i, j \in DOMAIN rows : rows[i].sub = rows[j].sub /\ rows[i].sub # None => i = j
  /\ customer \in Customers \cup {None}
  /\ recorded \subseteq Events
  /\ bot \in [Bots -> {"none", "counted", "STOPPED"}]
  /\ req \in [Requests -> Req]
  /\ hook \in [Hooks -> Hook]
  /\ issued \subseteq Customers
  /\ sessions \subseteq Customers
  /\ stripe \in [Subs -> [customer: Customers \cup {None}, history: Seq(Payload)]]
  /\ acked \subseteq Events
  /\ applied \in [Events -> Nat]
  /\ heard \in [Subs -> Nat]

\* An event that Stripe will not send again has been applied, and only once: it
\* is neither lost with a delivery that died, nor dropped because its customer
\* is another checkout's, nor repeated by a delivery that ran beside the first
\* (ADR-010: webhooks are idempotent).
AckedEventsAreApplied == \A e \in acked : applied[e] = 1

\* What the event that reached the row of a subscription last said of it.
LastHeard(s) == stripe[s].history[heard[s]]
Paying == {s \in Subs : heard[s] # 0 /\ LastHeard(s).status \in Entitled}

\* However many FREE rows the first requests made and in whatever order events of
\* any number of subscriptions arrive, change their plans and end them, a user who
\* has been provisioned is on FREE when no subscription is known to be paid for,
\* and otherwise on the plan which the last event heard of a paid subscription
\* names: of the one that was first heard of last.  It need not be the best of
\* them, and a payment that is late ends it at once (assertCanCreateBot).
PaidPlanInForce ==
  rows # <<>> =>
    \/ Paying = {} /\ InForce = "FREE"
    \/ \E i \in DOMAIN rows :
         /\ rows[i].sub \in Paying
         /\ InForce = LastHeard(rows[i].sub).plan
         /\ \A j \in DOMAIN rows : rows[j].sub \in Paying => j =< i

=============================================================================
