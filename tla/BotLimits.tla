------------------------------ MODULE BotLimits ------------------------------
(***************************************************************************)
(* The risk limits of a bot (BotsService in apps/api): given when the bot  *)
(* is created, changed in part while it does not run.  An edit reads the   *)
(* stored limits, lays the request over them, checks the whole and writes  *)
(* the whole; edits and status requests overlap.                           *)
(***************************************************************************)
EXTENDS Integers, TLC

CONSTANTS Editors,      \* requests that change the limits, at once
          Symbol,       \* symbols a request may name
          Amount,       \* amounts and counts a request may give
          Percentage    \* percentages a request may give

ASSUME LimitsAssumption == Amount \cup Percentage \subseteq Nat

VARIABLES
  bot,     \* NoBot, or its status, authorized capital, symbol and limits
  edits    \* what each edit read, laid over and is about to write

limitsVars == <<bot, edits>>

-----------------------------------------------------------------------------
NoBot == [status |-> "none"]
NoEdit == [phase |-> "none"]

\* A request gives any of the fields; the four percentages are checked alike.
Bodies ==
  [maxAllocatedCapital : Amount] \cup [maxTradeAmount : Amount]
  \cup [maxAllocatedCapital : Amount, maxTradeAmount : Amount]
  \cup [maxPercent : Percentage] \cup [maxPositions : Amount]
  \cup [allowedSymbols : SUBSET Symbol]
WholeBodies ==
  [maxAllocatedCapital : Amount, maxTradeAmount : Amount, maxPercent : Percentage,
   maxPositions : Amount, allowedSymbols : SUBSET Symbol]

\* parseRiskProfile, and the helpers it reads a request with.  An amount is
\* what Number() makes of a text of up to 18 decimals, as in the code: texts it
\* rounds to one double are one amount here, so what is said of amounts below
\* is said up to that rounding.
PositiveDecimal(amount) == amount > 0
IsPercentage(value) == PositiveDecimal(value) /\ value =< 100
PositiveInt(value) == value >= 1
SymbolsFit(symbols, symbol) == symbols # {} /\ symbols \subseteq {symbol}
Parsed(limits, authorized, symbol) ==
  /\ PositiveDecimal(limits.maxTradeAmount) /\ PositiveDecimal(limits.maxAllocatedCapital)
  /\ limits.maxAllocatedCapital =< authorized
  /\ limits.maxTradeAmount =< limits.maxAllocatedCapital
  /\ IsPercentage(limits.maxPercent)
  /\ PositiveInt(limits.maxPositions)
  /\ SymbolsFit(limits.allowedSymbols, symbol)

LimitsInit == bot = NoBot /\ edits = [e \in Editors |-> NoEdit]

\* parseCreateBody: one symbol, a positive capital, PAPER only.
CreateBot(authorized, symbol, limits) ==
  /\ bot = NoBot
  /\ PositiveDecimal(authorized)
  /\ Parsed(limits, authorized, symbol)
  /\ bot' = [status |-> "DRAFT", authorized |-> authorized, symbol |-> symbol, limits |-> limits]
  /\ UNCHANGED edits

\* updateRiskProfile up to its write.
Laid(limits, body) == body @@ limits
Editable == bot # NoBot /\ bot.status # "RUNNING"
StartEdit(e, body) ==
  /\ edits[e] = NoEdit /\ Editable
  /\ Parsed(Laid(bot.limits, body), bot.authorized, bot.symbol)
  /\ edits' = [edits EXCEPT ![e] =
       [phase |-> "parsed", body |-> body, input |-> Laid(bot.limits, body)]]
  /\ UNCHANGED bot

\* The write; the bot may have been started or edited since.
WrittenFields(e) == edits[e].body @@ bot.limits
Written(e) == edits[e].input
FinishEdit(e) ==
  /\ edits[e] # NoEdit
  /\ bot' = [bot EXCEPT !.limits = Written(e)]
  /\ edits' = [edits EXCEPT ![e] = NoEdit]

\* changeStatus, and the block of the risk engine, whose cycle may have begun
\* before a pause or a stop (paper-cycle.ts:227).
Moves ==
  [DRAFT |-> {"READY"}, READY |-> {"RUNNING"}, RUNNING |-> {"PAUSED", "STOPPED", "RISK_BLOCKED"},
   PAUSED |-> {"RUNNING", "STOPPED", "RISK_BLOCKED"},
   RISK_BLOCKED |-> {"RUNNING", "PAUSED", "STOPPED"}, STOPPED |-> {"READY", "RISK_BLOCKED"}]
MoveBot(status) ==
  /\ bot # NoBot
  /\ status \in Moves[bot.status]
  /\ bot' = [bot EXCEPT !.status = status]
  /\ UNCHANGED edits

LimitsNext ==
  \/ \E authorized \in Amount, symbol \in Symbol, limits \in WholeBodies :
       CreateBot(authorized, symbol, limits)
  \/ \E e \in Editors : (\E body \in Bodies : StartEdit(e, body)) \/ FinishEdit(e)
  \/ \E status \in DOMAIN Moves : MoveBot(status)

LimitsSpec == LimitsInit /\ [][LimitsNext]_limitsVars

-----------------------------------------------------------------------------
(* Properties. *)

LimitsTypeOK == bot = NoBot \/ bot.status \in DOMAIN Moves

\* However partial edits of a bot overlap, the stored limits fit each other, the
\* authorized capital and the bot's symbol: each edit checked its fields against a
\* copy that the other may have replaced (bots.service.ts:261 and :292).
LimitsFitTheBot ==
  bot # NoBot => Parsed(bot.limits, bot.authorized, bot.symbol)
=============================================================================
