------------------------------ MODULE WebSession ------------------------------
(***************************************************************************)
(* The session of the web application: apps/web keeps no session on the    *)
(* server.  A browser holds two sealed cookies, the login in progress and  *)
(* the session with its tokens; every request works on the copy it carried *)
(* and its answer overwrites the cookie.  Requests of the browser's tabs   *)
(* overlap.                                                                *)
(*                                                                         *)
(* Keycloak is external: it honours the tokens of a login until the grant  *)
(* ends, and a call to it may fail.                                        *)
(***************************************************************************)
EXTENDS Integers, TLC

CONSTANTS Requests,      \* requests of the browser under way at once
          Locales, Currencies,
          Admins,        \* logins of an administrator
          AccessLife,    \* expires_in
          RefreshLife,   \* refresh_expires_in
          LoginLife,     \* 600 s
          Margin,        \* 60 s: tokens this near their end are refreshed
          MaxLogins,     \* bound on the logins begun
          MaxTime        \* bound on the clock

ASSUME WebAssumption ==
  /\ "en" \in Locales /\ "USD" \in Currencies
  /\ {AccessLife, RefreshLife, LoginLife, MaxLogins, MaxTime} \subseteq Nat \ {0}
  /\ Margin \in Nat
  /\ Admins \subseteq 1 .. MaxLogins

VARIABLES
  clock,
  jar,        \* the browser's cookies
  requests,   \* requests: the cookies they carry, then what their answers set
  begun,      \* logins begun
  grants,     \* logins that Keycloak still honours
  told,       \* the login and the preferences of the last answer that changed them
  raced       \* that answer arrived while a request with older cookies was under way

webVars == <<clock, jar, requests, begun, grants, told, raced>>

-----------------------------------------------------------------------------
None == [none |-> TRUE]
Keep == [keep |-> TRUE]          \* no Set-Cookie
IdleRequest == [phase |-> "idle"]
Preferences == [locale : Locales, currency : Currencies]
Paths == {"/", "/dashboard", "/admin"}

\* sessionFromTokens knows only the locale and starts the other preferences again.
FromTokens(login, locale) ==
  [login |-> login, preferences |-> [locale |-> locale, currency |-> "USD"],
   access |-> clock + AccessLife, refresh |-> clock + RefreshLife]
RefreshedAnew(session) == FromTokens(session.login, session.preferences.locale)
Refreshed(session) ==
  [FromTokens(session.login, session.preferences.locale)
     EXCEPT !.preferences = session.preferences]

\* tokenRequest: Keycloak renews the tokens of a login while its grant lives; the
\* call may fail whatever it would answer.
Renewable(session) == session.login \in grants

\* The results that readSession may have.
Alive(session) == session # None /\ session.refresh > clock
Reads(session) ==
  IF ~Alive(session) THEN {None}
  ELSE IF session.access > clock + Margin THEN {session}
  ELSE {None} \cup {Refreshed(s) : s \in {x \in {session} : Renewable(x)}}

-----------------------------------------------------------------------------
WebInit ==
  /\ clock = 0
  /\ jar = [session |-> None, login |-> None]
  /\ requests = [r \in Requests |-> IdleRequest]
  /\ begun = 0
  /\ grants = {}
  /\ told = None
  /\ raced = FALSE

\* Any page, link or script of the browser; the handlers tell which it was.
Send(r) ==
  /\ requests[r] = IdleRequest
  /\ requests' = [requests EXCEPT ![r] = [phase |-> "sent", jar |-> jar]]
  /\ UNCHANGED <<clock, jar, begun, grants, told, raced>>

Answer(r, session, login) ==
  requests' = [requests EXCEPT ![r] =
    [phase |-> "answered", session |-> session, login |-> login, changes |-> FALSE]]
Change(r, session, login) ==
  requests' = [requests EXCEPT ![r] =
    [phase |-> "answered", session |-> session, login |-> login, changes |-> TRUE]]
Carried(r) == requests[r].jar
Sent(r) == requests[r].phase = "sent"

LoginTransaction(locale) == [state |-> begun + 1, created |-> clock, locale |-> locale]
BeginLogin(r, locale) ==
  /\ Sent(r) /\ begun < MaxLogins
  /\ begun' = begun + 1
  /\ Answer(r, Keep, LoginTransaction(locale))
  /\ UNCHANGED <<clock, jar, grants, told, raced>>

\* The callback of login `state', with Keycloak's code; a code is worth something
\* once, and only with the verifier of its own login.
Matches(transaction, state) ==
  /\ transaction # None
  /\ state = transaction.state
  /\ clock - transaction.created =< LoginLife
Callback(r, state) ==
  /\ Sent(r) /\ state =< begun
  /\ Matches(Carried(r).login, state)
  /\ state \notin grants
  /\ grants' = grants \cup {state}
  /\ Change(r, FromTokens(state, Carried(r).login.locale), None)
  /\ UNCHANGED <<clock, jar, begun, told, raced>>
\* A provider's error, no login in progress or another one's state: the login in
\* progress is forgotten with it.
RefuseCallback(r) ==
  /\ Sent(r)
  /\ Answer(r, Keep, None)
  /\ UNCHANGED <<clock, jar, begun, grants, told, raced>>
\* The code is refused, a token does not verify, or the address is not verified.
FailExchange(r, state) ==
  /\ Sent(r)
  /\ Matches(Carried(r).login, state)
  /\ Answer(r, Keep, None)
  /\ UNCHANGED <<clock, jar, begun, grants, told, raced>>

\* Only a request of the application's own pages logs out.
Logout(r) ==
  /\ Sent(r)
  /\ Change(r, None, Keep)
  /\ UNCHANGED <<clock, jar, begun, grants, told, raced>>

\* GET /auth/session and apiProxy: a refreshed session goes back to the browser.
Renewed(r, session) == IF session \in {None, Carried(r).session} THEN Keep ELSE session
ReadSession(r) ==
  /\ Sent(r)
  /\ \E session \in Reads(Carried(r).session) : Answer(r, Renewed(r, session), Keep)
  /\ UNCHANGED <<clock, jar, begun, grants, told, raced>>

\* updatePreferences reads the session and seals it again.
UpdatePreferences(r, preferences) ==
  /\ Sent(r)
  /\ \E session \in Reads(Carried(r).session) \ {None} :
       Change(r, [session EXCEPT !.preferences = preferences], Keep)
  /\ UNCHANGED <<clock, jar, begun, grants, told, raced>>

\* With only a locale the session is read twice, the second time as just written;
\* a failure of the second read leaves the first one's refreshed session.
UpdateLocale(r, locale) ==
  /\ Sent(r)
  /\ \E first \in Reads(Carried(r).session) \ {None} : \E second \in Reads(first) :
       IF second = None THEN Answer(r, Renewed(r, first), Keep)
       ELSE Change(r, [second EXCEPT !.preferences = [first.preferences EXCEPT !.locale = locale]],
                   Keep)
  /\ UNCHANGED <<clock, jar, begun, grants, told, raced>>

\* proxy: a page is shown until the refresh token ends, an admin page to
\* administrators; no cookie changes.
Shown(session, path) ==
  IF path = "/" THEN path
  ELSE IF ~Alive(session) THEN "/login"
  ELSE IF path = "/admin" /\ session.login \notin Admins THEN "/"
  ELSE path
Page(r, path) ==
  /\ Sent(r)
  /\ path = Shown(Carried(r).session, path)
  /\ Answer(r, Keep, Keep)
  /\ UNCHANGED <<clock, jar, begun, grants, told, raced>>
Redirect(r, path) ==
  /\ Sent(r)
  /\ path # Shown(Carried(r).session, path)
  /\ Answer(r, Keep, Keep)
  /\ UNCHANGED <<clock, jar, begun, grants, told, raced>>

-----------------------------------------------------------------------------
\* An answer reaches the browser.
MayWrite(request) ==
  \/ request.phase = "sent" /\ request.jar # [session |-> None, login |-> None]
  \/ request.phase = "answered" /\ request.session \notin {Keep, None}
Set(cookie, value) == IF value = Keep THEN cookie ELSE value
Deliver(r) ==
  LET answer == requests[r] IN
  /\ answer.phase = "answered"
  /\ jar' = [session |-> Set(jar.session, answer.session), login |-> Set(jar.login, answer.login)]
  /\ requests' = [requests EXCEPT ![r] = IdleRequest]
  /\ IF answer.changes
     THEN /\ told' = IF answer.session = None THEN None
                     ELSE [login |-> answer.session.login, preferences |-> answer.session.preferences]
          /\ raced' = \E other \in Requests \ {r} : MayWrite(requests[other])
     ELSE UNCHANGED <<told, raced>>
  /\ UNCHANGED <<clock, begun, grants>>

\* The browser drops a cookie at the end of its maxAge.
Ended(end) == end =< clock + 1
TimePasses ==
  /\ clock < MaxTime
  /\ clock' = clock + 1
  /\ jar' = [session |-> IF jar.session # None /\ Ended(jar.session.refresh)
                         THEN None ELSE jar.session,
             login |-> IF jar.login # None /\ Ended(jar.login.created + LoginLife)
                       THEN None ELSE jar.login]
  /\ UNCHANGED <<requests, begun, grants, told, raced>>

\* Keycloak ends a grant: its own logout page, an idle session, an administrator.
EndGrant(login) ==
  /\ login \in grants
  /\ grants' = grants \ {login}
  /\ UNCHANGED <<clock, jar, requests, begun, told, raced>>

Handle(r) ==
  \/ \E locale \in Locales : BeginLogin(r, locale) \/ UpdateLocale(r, locale)
  \/ \E state \in 1 .. MaxLogins : Callback(r, state) \/ FailExchange(r, state)
  \/ RefuseCallback(r) \/ Logout(r) \/ ReadSession(r)
  \/ \E preferences \in Preferences : UpdatePreferences(r, preferences)
  \/ \E path \in Paths : Page(r, path) \/ Redirect(r, path)
WebNext ==
  \/ \E r \in Requests : Send(r) \/ Handle(r) \/ Deliver(r)
  \/ TimePasses
  \/ \E login \in grants : EndGrant(login)

WebSpec == WebInit /\ [][WebNext]_webVars

-----------------------------------------------------------------------------
(* Properties. *)

WebTypeOK ==
  /\ clock \in 0 .. MaxTime /\ begun \in 0 .. MaxLogins /\ raced \in BOOLEAN
  /\ grants \subseteq 1 .. begun
  /\ jar.session # None => jar.session.preferences \in Preferences

\* The session cookie says what the last answer about it told the browser: no
\* session after a logout, and the login and the preferences last chosen, however
\* often tokens are refreshed in between (readSession, session.ts).  The
\* exception is an answer that arrived while a request with older cookies was
\* under way: that one may put back the session it carried.
CookieIsAsTold ==
  ~raced /\ jar.session # None =>
    /\ told # None
    /\ jar.session.login = told.login
    /\ jar.session.preferences = told.preferences
=============================================================================
