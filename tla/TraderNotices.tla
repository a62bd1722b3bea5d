---------------------------- MODULE TraderNotices ----------------------------
(***************************************************************************)
(* What a PAPER trader tells its user: why it waits, and the notices in    *)
(* the inbox (paper-cycle.ts, runtime-notifications.ts,                    *)
(* NotificationsService).  Cycles of one bot may overlap: a tick's job and *)
(* the job of a start have different ids.                                  *)
(*                                                                         *)
(* The trader is a DCA trader.  The reason is found by a function of its   *)
(* own, beside the strategy that declined.  It goes into the notice and to *)
(* the bot's row, which nothing of this reads.                             *)
(***************************************************************************)
EXTENDS Integers, Sequences, StrategySignals

CONSTANTS Cycles,        \* cycles of the bot under way at once
          Stored,        \* parameters in the bot's configuration; a field may be missing
          DefaultInterval,  \* 86,400,000 ms
          Sinces, Spents, Closes,  \* what a cycle may load
          Proposals,     \* stored proposals; a retried job works on its own
          Limits,        \* reason codes of the trader's own risk engine
          DedupeWindow,  \* dedupeWindowMs
          MaxInstant,    \* bound on the clock
          MaxNotices     \* bound on the inbox

ASSUME NoticesAssumption ==
  /\ {DefaultInterval, DedupeWindow, MaxInstant, MaxNotices} \subseteq Nat \ {0}
  /\ Sinces \subseteq Nat \cup {Never} /\ Spents \subseteq Nat
  /\ IsFiniteSet(Closes) /\ Closes \subseteq Nat \ {0}
  /\ \A p \in Stored : /\ {"quote", "maxCapital"} \subseteq DOMAIN p
                       /\ \A name \in DOMAIN p : p[name] \in Nat

VARIABLES
  instant,
  parameters,  \* the bot's
  telling,     \* what each cycle is about to write
  inbox        \* the bot's notices, oldest first

noticeVars == <<instant, parameters, telling, inbox>>

-----------------------------------------------------------------------------
NothingToTell == [phase |-> "idle"]
\* The strategy adds in floats and the reason in Decimals, each reading the
\* clock.  An amount stands for those a double does not tell from it: where the
\* sum reaches the maximum, either sum may come out above it.
Contexts == [since : Sinces, later : 0 .. 1, spent : Spents, price : Closes,
             float : BOOLEAN, decimal : BOOLEAN]

\* dcaParameters: what the strategy is given for what is stored.
Field(p, name, default) == IF name \in DOMAIN p THEN p[name] ELSE default
Given(p) ==
  [interval |-> Field(p, "interval", DefaultInterval), quote |-> p.quote, maxCapital |-> p.maxCapital,
   minPrice |-> Field(p, "minPrice", 1), maxPrice |-> Field(p, "maxPrice", Max(Closes))]

\* waitingReasonForStrategy: only a limit that is stored can be the reason.
ReachesTheMaximum(p, spent) == spent + p.quote = p.maxCapital
UnaffordableSpent(p, spent, over) == spent > p.maxCapital
Unaffordable(p, spent, over) ==
  spent + p.quote > p.maxCapital \/ (over /\ ReachesTheMaximum(p, spent))
TooSoon(p, since) == since # Never /\ "interval" \in DOMAIN p /\ since < p.interval
SinceReread(x) == IF x.since = Never THEN Never ELSE x.since + x.later
OutOfRange(p, price) ==
  \/ "minPrice" \in DOMAIN p /\ price < p.minPrice
  \/ "maxPrice" \in DOMAIN p /\ price > p.maxPrice
Reason(p, x) ==
  IF Unaffordable(p, x.spent, x.decimal) THEN "CAPITAL_INSUFFICIENT"
  ELSE IF TooSoon(p, SinceReread(x)) THEN "INTERVAL_NOT_REACHED"
  ELSE IF OutOfRange(p, x.price) THEN "PRICE_OUT_OF_RANGE"
  ELSE "MARKET_REGIME_NOT_SUITABLE"

NoticesInit ==
  /\ instant = 0
  /\ parameters \in Stored
  /\ telling = [c \in Cycles |-> NothingToTell]
  /\ inbox = <<>>

\* processPaperCycle up to the proposal.
Summed(x) == IF x.float /\ ReachesTheMaximum(parameters, x.spent) THEN x.spent + 1 ELSE x.spent
Analysis(x) == DcaProposal(Given(parameters), x.since, Summed(x), x.price)
TellNext(c, record) == telling' = [telling EXCEPT ![c] = record]
\* `explained' is history: of the reason a trader tells after its strategy declined,
\* whether the strategy ran into that limit, or may disagree with the reason on it.
\* Strategy and reason may disagree only where the purchase brings the spending
\* to the maximum, where the interval ends between the two readings of the clock,
\* and where no interval is stored, for the strategy then takes a day and the
\* reason knows of none.
RanInto(reason, x) ==
  LET p == Given(parameters) IN
  \/ reason = "CAPITAL_INSUFFICIENT" /\ x.spent + p.quote > p.maxCapital
  \/ reason = "INTERVAL_NOT_REACHED" /\ x.since # Never /\ x.since < p.interval
  \/ reason = "PRICE_OUT_OF_RANGE" /\ x.price \notin p.minPrice .. p.maxPrice
MayDisagree(x) ==
  \/ ReachesTheMaximum(parameters, x.spent)
  \/ /\ x.since # Never /\ x.since < Given(parameters).interval
     /\ ("interval" \in DOMAIN parameters => x.since + x.later >= parameters.interval)
Explained(reason, x) == RanInto(reason, x) \/ MayDisagree(x)
Told(key) == [phase |-> "look", key |-> key, explained |-> TRUE]
MarkWaiting(c, reason, explained) ==
  /\ telling[c] = NothingToTell
  /\ TellNext(c, [phase |-> "look", key |-> <<"TRADER_WAITING", reason>>, explained |-> explained])
  /\ UNCHANGED <<instant, parameters, inbox>>
\* No symbol or no candle; a candle that is stale.
WaitForData(c, reason) == MarkWaiting(c, reason, TRUE)
Declined ==
  {[reason |-> Reason(parameters, x), explained |-> Explained(Reason(parameters, x), x)] :
     x \in {x \in Contexts : Analysis(x) = Hold}}
WaitForMarket(c) ==
  /\ telling[c] = NothingToTell
  /\ \E wait \in Declined : MarkWaiting(c, wait.reason, wait.explained)
Propose(c, proposal) ==
  /\ telling[c] = NothingToTell
  /\ \E x \in Contexts : Analysis(x) # Hold
  /\ TellNext(c, [phase |-> "judged", proposal |-> proposal])
  /\ UNCHANGED <<instant, parameters, inbox>>

\* Without limits, over the portfolio's or with an order already: nothing is told.
EndUntold(c) ==
  /\ telling[c].phase = "judged"
  /\ TellNext(c, NothingToTell)
  /\ UNCHANGED <<instant, parameters, inbox>>
\* An order the trader's own risk engine refuses and one that is filled are told.
RefuseOrder(c, reason) ==
  /\ telling[c].phase = "judged"
  /\ TellNext(c, Told(<<"RISK_PAUSED", reason, telling[c].proposal>>))
  /\ UNCHANGED <<instant, parameters, inbox>>
FillOrder(c) ==
  /\ telling[c].phase = "judged"
  /\ TellNext(c, Told(<<"ORDER_FILLED", telling[c].proposal>>))
  /\ UNCHANGED <<instant, parameters, inbox>>

\* notifyTrader: one notice of a key within the window, by a look and a create.
RecentUnread(key) ==
  \E i \in DOMAIN inbox : /\ inbox[i].key = key /\ inbox[i].created >= instant - DedupeWindow
                          /\ ~inbox[i].read
Recent(key) ==
  \E i \in DOMAIN inbox : inbox[i].key = key /\ inbox[i].created >= instant - DedupeWindow
LookForNotice(c) ==
  /\ telling[c].phase = "look"
  /\ TellNext(c, IF Recent(telling[c].key) THEN NothingToTell
               ELSE [phase |-> "create", key |-> telling[c].key, beside |-> FALSE])
  /\ UNCHANGED <<instant, parameters, inbox>>
CreateNotice(c) ==
  LET mine == telling[c] IN
  /\ mine.phase = "create" /\ Len(inbox) < MaxNotices
  /\ inbox' = Append(inbox, [key |-> mine.key, created |-> instant, read |-> FALSE,
                             beside |-> mine.beside])
  /\ telling' = [d \in Cycles |->
       IF d = c THEN NothingToTell
       ELSE IF telling[d].phase = "create" /\ telling[d].key = mine.key
       THEN [telling[d] EXCEPT !.beside = TRUE] ELSE telling[d]]
  /\ UNCHANGED <<instant, parameters>>

\* The cycle throws or its worker ends; the job is tried again.
CycleFails(c) ==
  /\ telling[c] # NothingToTell
  /\ TellNext(c, NothingToTell)
  /\ UNCHANGED <<instant, parameters, inbox>>

MarkRead(i) ==
  /\ ~inbox[i].read
  /\ inbox' = [inbox EXCEPT ![i].read = TRUE]
  /\ UNCHANGED <<instant, parameters, telling>>

InstantPasses ==
  /\ instant < MaxInstant
  /\ instant' = instant + 1
  /\ UNCHANGED <<parameters, telling, inbox>>

Report(c) ==
  \/ \E reason \in {"INSUFFICIENT_MARKET_DATA", "MARKET_REGIME_NOT_SUITABLE"} : WaitForData(c, reason)
  \/ WaitForMarket(c) \/ \E proposal \in Proposals : Propose(c, proposal)
  \/ \E reason \in Limits : RefuseOrder(c, reason)
  \/ EndUntold(c) \/ FillOrder(c) \/ LookForNotice(c) \/ CreateNotice(c) \/ CycleFails(c)
NoticesNext ==
  \/ \E c \in Cycles : Report(c)
  \/ \E i \in DOMAIN inbox : MarkRead(i)
  \/ InstantPasses

NoticesSpec == NoticesInit /\ [][NoticesNext]_noticeVars

-----------------------------------------------------------------------------
(* Properties. *)

NoticesTypeOK ==
  /\ instant \in 0 .. MaxInstant /\ parameters \in Stored /\ Len(inbox) =< MaxNotices
  /\ \A i \in DOMAIN inbox : inbox[i].created \in 0 .. instant

\* The inbox holds one notice of a kind per window, read or not, whatever cycles
\* fail and are tried again; a second one comes only from a cycle that had looked
\* for the first before it was there (runtime-notifications.ts:10-14).
NoticesAreSpaced ==
  \A i, j \in DOMAIN inbox :
    i < j /\ inbox[i].key = inbox[j].key /\ ~inbox[j].beside =>
      inbox[j].created - inbox[i].created > DedupeWindow

\* What a DCA trader that declined tells of is a limit the strategy itself ran
\* into, although the reason is found by rules of its own, from another sum and a
\* later clock (paper-cycle.ts:341-349, strategy-dca:63-75).  In the three cases of
\* MayDisagree it may be another one, or none.
WaitsAreExplained ==
  \A c \in Cycles : telling[c].phase = "look" => telling[c].explained
=============================================================================
