------------------------------- MODULE ApiGate -------------------------------
(***************************************************************************)
(* What a request meets in apps/api before and in its handler: the rate    *)
(* limiter over Redis, the authentication guard with the user's            *)
(* provisioning, the roles guard, and the profile controller as a handler. *)
(* The limiter's key is the caller's address, the method and the path; for *)
(* the web application's users the address is that of its server, so they  *)
(* share a key.                                                            *)
(*                                                                         *)
(* Redis is external: a counter per key with a time to live, reached over  *)
(* a connection that fails and comes back.  A command whose answer was     *)
(* lost with the connection is sent again on the next one, or given up.    *)
(***************************************************************************)
EXTENDS Integers

CONSTANTS Calls,         \* requests under way at once
          Keys,          \* keys of the limiter
          Users,
          Locale,        \* locales of a profile
          Currency,      \* reference currencies
          Window,        \* API_RATE_LIMIT_WINDOW_SECONDS
          MaxRequests,   \* API_RATE_LIMIT_MAX_REQUESTS
          MaxCount,      \* bound on a key's counter
          MaxTicks       \* bound on the clock

ASSUME GateAssumption ==
  /\ {Window, MaxRequests, MaxCount, MaxTicks} \subseteq Nat \ {0}
  /\ "en" \in Locale /\ "USD" \in Currency

VARIABLES
  ticks,
  production,  \* NODE_ENV
  redis,       \* connected?, and the limiter's `ready' promise
  buckets,     \* Redis: count and expiry of each key
  calls,
  rows,        \* users: stored, deactivated, with a subscription, profile
  lastPass,    \* when a request of the key last passed or gave it its expiry
  lost         \* keys a failure left without an expiry

apiVars == <<ticks, production, redis, buckets, calls, rows, lastPass, lost>>

-----------------------------------------------------------------------------
NoTick == -1
NoKey == [count |-> 0, expires |-> NoTick]
IdleCall == [phase |-> "idle"]
Roles == {"USER", "SUPPORT", "ADMIN"}
NoUser == [stored |-> FALSE, deleted |-> FALSE, plan |-> FALSE,
           locale |-> "en", currency |-> "USD"]

ApiInit ==
  /\ ticks = 0
  /\ production \in BOOLEAN
  /\ redis = [up |-> FALSE, ready |-> "pending"]
  /\ buckets = [k \in Keys |-> NoKey]
  /\ calls = [c \in Calls |-> IdleCall]
  /\ rows = [u \in Users |-> NoUser]
  /\ lastPass = [k \in Keys |-> NoTick]
  /\ lost = {}

At(c, phase) == calls[c].phase = phase
Become(c, call) == calls' = [calls EXCEPT ![c] = call]
Status(c, code) == Become(c, [phase |-> "answered", code |-> code])

Arrive(c, key) ==
  /\ At(c, "idle")
  /\ Become(c, [phase |-> "arrived", key |-> key])
  /\ UNCHANGED <<ticks, production, redis, buckets, rows, lastPass, lost>>
Health(c) ==
  /\ At(c, "idle")
  /\ Status(c, 200)
  /\ UNCHANGED <<ticks, production, redis, buckets, rows, lastPass, lost>>

\* The verdict on a count.
Judge(c, key, count) ==
  IF count > MaxRequests
  THEN /\ Become(c, [phase |-> "refused", last |-> lastPass[key], at |-> ticks,
                     endless |-> key \in lost,
                     unset |-> /\ buckets[key].expires = NoTick
                               /\ \E o \in Calls \ {c} : At(o, "first") /\ calls[o].key = key])
       /\ UNCHANGED lastPass
  ELSE /\ Become(c, [phase |-> "passed"])
       /\ lastPass' = [lastPass EXCEPT ![key] = ticks]
Unavailable(c) ==
  /\ IF production THEN Status(c, 503) ELSE Become(c, [phase |-> "passed"])
  /\ UNCHANGED lastPass

\* INCR, and EXPIRE for the first count of a key.
Always(count) == TRUE
IsFirst(count) == count = 1
Count(c) ==
  /\ At(c, "arrived") /\ redis.ready # "pending"
  /\ LET key == calls[c].key
         count == buckets[key].count + 1
     IN
     IF redis.ready = "rejected" \/ ~redis.up
     THEN Unavailable(c) /\ UNCHANGED buckets
     ELSE /\ count =< MaxCount
          /\ buckets' = [buckets EXCEPT ![key].count = count]
          /\ IF IsFirst(count)
             THEN /\ Become(c, [phase |-> "first", key |-> key, count |-> count])
                  /\ UNCHANGED lastPass
             ELSE Judge(c, key, count)
  /\ UNCHANGED <<ticks, production, redis, rows, lost>>
\* EXPIRE of a key that is gone does nothing.
Exists(key) == buckets[key].count > 0
Endless(key) == Exists(key) /\ buckets[key].expires = NoTick
GiveExpiry(key) ==
  IF Exists(key)
  THEN /\ buckets' = [buckets EXCEPT ![key].expires = ticks + Window]
       /\ lost' = lost \ {key}
  ELSE UNCHANGED <<buckets, lost>>
Expire(c) ==
  /\ At(c, "first")
  /\ LET key == calls[c].key IN
     IF redis.up
     THEN GiveExpiry(key) /\ Judge(c, key, calls[c].count)
     ELSE /\ Unavailable(c)
          /\ lost' = lost \cup {k \in {key} : Endless(k)}
          /\ UNCHANGED buckets
  /\ UNCHANGED <<ticks, production, redis, rows>>

\* The connection breaks when the command has taken effect and before its answer
\* is read.  The call stays where it is: ioredis sends the command again if the
\* next connection comes up, or fails it (maxRetriesPerRequest).
Break == redis' = [redis EXCEPT !.up = FALSE]
CountUnheard(c) ==
  /\ At(c, "arrived") /\ redis.ready = "resolved" /\ redis.up
  /\ LET key == calls[c].key IN
     /\ buckets[key].count < MaxCount
     /\ buckets' = [buckets EXCEPT ![key].count = @ + 1]
     /\ lost' = lost \cup {k \in {key} : ~Exists(k)}
  /\ Break
  /\ UNCHANGED <<ticks, production, calls, rows, lastPass>>
ExpireUnheard(c) ==
  /\ At(c, "first") /\ redis.up
  /\ GiveExpiry(calls[c].key)
  /\ lastPass' = [lastPass EXCEPT ![calls[c].key] = ticks]
  /\ Break
  /\ UNCHANGED <<ticks, production, calls, rows>>

\* The first event of the connection settles `ready' for good.
Settle(outcome) == IF redis.ready = "pending" THEN outcome ELSE redis.ready
RedisConnects ==
  /\ ~redis.up
  /\ redis' = [up |-> TRUE, ready |-> Settle("resolved")]
  /\ UNCHANGED <<ticks, production, buckets, calls, rows, lastPass, lost>>
RedisFails ==
  /\ redis.up \/ redis.ready = "pending"
  /\ redis' = [up |-> FALSE, ready |-> Settle("rejected")]
  /\ UNCHANGED <<ticks, production, buckets, calls, rows, lastPass, lost>>

\* The process ends and a new one starts; a call between INCR and EXPIRE leaves its
\* key without an expiry.
Restart ==
  /\ redis' = [up |-> FALSE, ready |-> "pending"]
  /\ calls' = [c \in Calls |-> IdleCall]
  /\ lost' = lost \cup {k \in {calls[c].key : c \in {x \in Calls : At(x, "first")}} : Endless(k)}
  /\ UNCHANGED <<ticks, production, buckets, rows, lastPass>>

Pass(bucket) == IF bucket.expires = ticks + 1 THEN NoKey ELSE bucket
Elapse ==
  /\ ticks < MaxTicks
  /\ ticks' = ticks + 1
  /\ buckets' = [k \in Keys |-> Pass(buckets[k])]
  /\ UNCHANGED <<production, redis, calls, rows, lastPass, lost>>

-----------------------------------------------------------------------------
\* AuthGuard: a public route needs nothing; a token that is missing, or that the
\* verifier rejects for its form, key, signature, audience, issuer, end or claims,
\* is a 401.
PublicRoute(c) ==
  /\ At(c, "passed")
  /\ Status(c, 200)
  /\ UNCHANGED <<ticks, production, redis, buckets, rows, lastPass, lost>>
RejectToken(c) ==
  /\ At(c, "passed")
  /\ Status(c, 401)
  /\ UNCHANGED <<ticks, production, redis, buckets, rows, lastPass, lost>>
Verify(c, user, roles) ==
  /\ At(c, "passed")
  /\ Become(c, [phase |-> "verified", user |-> user, roles |-> roles])
  /\ UNCHANGED <<ticks, production, redis, buckets, rows, lastPass, lost>>

\* provision: the upsert comes before the look at deletedAt, the plan after it.
Upsert(c) ==
  /\ At(c, "verified")
  /\ LET user == calls[c].user IN
     /\ rows' = [rows EXCEPT ![user].stored = TRUE]
     /\ IF rows[user].deleted THEN Status(c, 403)
        ELSE Become(c, [phase |-> "stored", user |-> user, roles |-> calls[c].roles])
  /\ UNCHANGED <<ticks, production, redis, buckets, lastPass, lost>>
EnsureFreePlan(c) ==
  /\ At(c, "stored")
  /\ rows' = [rows EXCEPT ![calls[c].user].plan = TRUE]
  /\ Become(c, [phase |-> "provisioned", user |-> calls[c].user, roles |-> calls[c].roles])
  /\ UNCHANGED <<ticks, production, redis, buckets, lastPass, lost>>
\* A failing database, or a catalogue without the FREE plan.
ProvisionFails(c) ==
  /\ At(c, "verified") \/ At(c, "stored")
  /\ Status(c, 503)
  /\ UNCHANGED <<ticks, production, redis, buckets, rows, lastPass, lost>>

\* RolesGuard, then the handler.
Permits(required, roles) == required = {} \/ required \cap roles # {}
LackRole(c, required) ==
  /\ At(c, "provisioned") /\ ~Permits(required, calls[c].roles)
  /\ Status(c, 403)
  /\ UNCHANGED <<ticks, production, redis, buckets, rows, lastPass, lost>>
GetProfile(c) ==
  /\ At(c, "provisioned") /\ Permits(Roles, calls[c].roles)
  /\ Status(c, 200)
  /\ UNCHANGED <<ticks, production, redis, buckets, rows, lastPass, lost>>
PatchLocale(c, locale) ==
  /\ At(c, "provisioned")
  /\ rows' = [rows EXCEPT ![calls[c].user].locale = locale]
  /\ Status(c, 200)
  /\ UNCHANGED <<ticks, production, redis, buckets, lastPass, lost>>
PatchPreferences(c, locale, currency) ==
  /\ At(c, "provisioned")
  /\ rows' = [rows EXCEPT ![calls[c].user].locale = locale, ![calls[c].user].currency = currency]
  /\ Status(c, 200)
  /\ UNCHANGED <<ticks, production, redis, buckets, lastPass, lost>>
\* An exception leaves through SafeExceptionFilter as an answer with its code.
RejectBody(c) ==
  /\ At(c, "provisioned")
  /\ Status(c, 400)
  /\ UNCHANGED <<ticks, production, redis, buckets, rows, lastPass, lost>>

Finish(c) ==
  /\ At(c, "answered") \/ At(c, "refused")
  /\ Become(c, IdleCall)
  /\ UNCHANGED <<ticks, production, redis, buckets, rows, lastPass, lost>>

\* The account is deactivated elsewhere.
DeactivateUser(user) ==
  /\ rows[user].stored /\ ~rows[user].deleted
  /\ rows' = [rows EXCEPT ![user].deleted = TRUE]
  /\ UNCHANGED <<ticks, production, redis, buckets, calls, lastPass, lost>>

Limit(c) ==
  \/ \E key \in Keys : Arrive(c, key)
  \/ Health(c) \/ Count(c) \/ Expire(c) \/ CountUnheard(c) \/ ExpireUnheard(c) \/ Finish(c)
Guard(c) ==
  \/ PublicRoute(c) \/ RejectToken(c)
  \/ \E user \in Users, roles \in {{}, {"USER"}} : Verify(c, user, roles)
  \/ Upsert(c) \/ EnsureFreePlan(c) \/ ProvisionFails(c)
  \/ \E required \in {{"ADMIN"}, Roles} : LackRole(c, required)
Profile(c) ==
  \/ GetProfile(c) \/ RejectBody(c)
  \/ \E locale \in Locale : PatchLocale(c, locale)
  \/ \E locale \in Locale, currency \in Currency : PatchPreferences(c, locale, currency)
ApiNext ==
  \/ \E c \in Calls : Limit(c) \/ Guard(c) \/ Profile(c)
  \/ RedisConnects \/ RedisFails \/ Restart \/ Elapse
  \/ \E user \in Users : DeactivateUser(user)

ApiSpec == ApiInit /\ [][ApiNext]_apiVars

-----------------------------------------------------------------------------
(* Properties. *)

ApiTypeOK ==
  /\ ticks \in 0 .. MaxTicks /\ lost \subseteq Keys
  /\ redis.ready \in {"pending", "resolved", "rejected"}
  /\ \A k \in Keys : buckets[k].count \in 0 .. MaxCount

\* A caller is refused only within a window of a request of his that passed or gave
\* his key its expiry: one who has been refused throughout a window is let in again,
\* however many refused requests he sent.  He is shut out for good only by a failure
\* at the first count of his key: its INCR or its EXPIRE is lost with the connection
\* or the process (redis-rate-limit.ts:38-39), so that nothing ends the counter.
\* While the EXPIRE is under way another request may be refused before any passed.
RefusalsAreEarned ==
  \A c \in Calls :
    At(c, "refused") /\ ~calls[c].unset /\ ~calls[c].endless =>
      /\ calls[c].last # NoTick
      /\ calls[c].at - calls[c].last < Window
=============================================================================
