---------------------------- MODULE ExchangeRules ----------------------------
(***************************************************************************)
(* What the Testnet connector does with a LIVE order before it posts it    *)
(* (testnet-connector.ts, submit): the order's shape, the symbol's rules   *)
(* as exchangeInfo answers them, and the decimal arithmetic on texts that  *)
(* compares the two.                                                       *)
(*                                                                         *)
(* A decimal text is its digits without the point, and how many of them    *)
(* follow the point: "0.20" is [int |-> 20, scale |-> 2].  A text the      *)
(* pattern of decimalParts does not match, such as the "1e-7" that         *)
(* Decimal.toString writes for small numbers, is Malformed.  None stands   *)
(* for a field that is absent.                                             *)
(***************************************************************************)
EXTENDS Integers

CONSTANTS Amounts,     \* decimal texts of quantities and prices
          Notionals,   \* those of quote amounts and notional limits
          Filters,     \* LOT_SIZE and PRICE_FILTER answers: min, max and step
          None         \* an absent field

\* The pattern has no sign.
Text == [int : Nat, scale : Nat]
Malformed == [int |-> 0, scale |-> -1]
IsText(a) == a # Malformed

ASSUME RulesAssumption ==
  /\ Amounts \subseteq Text /\ Notionals \subseteq Text
  /\ Filters \subseteq [min : Text, max : Text, step : Text]
  /\ None \notin Text

VARIABLES
  request,  \* the order given to submit
  rules,    \* what exchangeInfo answered
  outcome   \* how far the submit came

rulesVars == <<request, rules, outcome>>

-----------------------------------------------------------------------------
(* Decimal texts. *)

TenTo[n \in Nat] == IF n = 0 THEN 1 ELSE 10 * TenTo[n - 1]
WiderScale(a, b) == IF a.scale > b.scale THEN a.scale ELSE b.scale
AtScale(a, scale) == a.int * TenTo[scale - a.scale]

\* compareDecimal: -1, 0 or 1 of the two texts at the larger scale.
CompareDecimalUnscaled(a, b) ==
  IF a.int < b.int THEN -1 ELSE IF a.int > b.int THEN 1 ELSE 0
CompareDecimal(a, b) ==
  LET x == AtScale(a, WiderScale(a, b))
      y == AtScale(b, WiderScale(a, b))
  IN IF x < y THEN -1 ELSE IF x > y THEN 1 ELSE 0

IsMultiple(a, step) ==
  LET x == AtScale(a, WiderScale(a, step))
      y == AtScale(step, WiderScale(a, step))
  IN y > 0 /\ x % y = 0

MultiplyDecimal(a, b) ==
  IF IsText(a) /\ IsText(b) THEN [int |-> a.int * b.int, scale |-> a.scale + b.scale]
  ELSE Malformed

-----------------------------------------------------------------------------
(* validateOrderShape and validateOrderAgainstRules. *)

WellShaped(o) ==
  /\ o.type = "MARKET" => o.quantity # None \/ o.quoteAmount # None
  /\ o.type = "LIMIT" => o.quantity # None /\ o.limitPrice # None

Between(a, filter) ==
  /\ IsText(a)
  /\ CompareDecimal(a, filter.min) >= 0
  /\ CompareDecimal(a, filter.max) =< 0
  /\ IsMultiple(a, filter.step)
QuantityFits(o, r) == o.quantity # None /\ r.lotSize # None => Between(o.quantity, r.lotSize)
PriceFits(o, r) ==
  o.type = "LIMIT" /\ o.limitPrice # None /\ r.priceFilter # None
    => Between(o.limitPrice, r.priceFilter)

\* The quote amount, or quantity times limit price.
Notional(o) ==
  IF o.quoteAmount # None THEN o.quoteAmount
  ELSE IF o.quantity # None /\ o.limitPrice # None
  THEN MultiplyDecimal(o.quantity, o.limitPrice)
  ELSE None
NotionalFits(o, r) ==
  /\ ~(o.type = "MARKET" /\ o.quoteAmount = None /\ r.minNotional # None)
  /\ Notional(o) # Malformed
  /\ Notional(o) # None =>
       /\ r.minNotional # None => CompareDecimal(Notional(o), r.minNotional) >= 0
       /\ r.maxNotional # None => CompareDecimal(Notional(o), r.maxNotional) =< 0

OrderAllowed(o, r) ==
  /\ r.trading
  /\ o.type \in r.orderTypes
  /\ QuantityFits(o, r)
  /\ PriceFits(o, r)
  /\ NotionalFits(o, r)

-----------------------------------------------------------------------------
(* One submit after the other. *)

\* What toString of the order's Decimals may give: live-submit sends exactly
\* the fields the row has.
OrderRequests ==
  [type: {"MARKET", "LIMIT"}, quantity: Amounts \cup {None, Malformed},
   quoteAmount: Notionals \cup {None}, limitPrice: Amounts \cup {None}]

\* parseSymbolRules: a filter the answer lacks is not checked.
SymbolRules ==
  [trading: BOOLEAN, orderTypes: {{"MARKET"}, {"MARKET", "LIMIT"}},
   lotSize: Filters \cup {None}, priceFilter: Filters \cup {None},
   minNotional: Notionals \cup {None}, maxNotional: Notionals \cup {None}]

RulesInit == request = None /\ rules = None /\ outcome = "none"

\* A badly shaped order is refused before anything is asked,
Submit(o) ==
  /\ outcome # "asking"
  /\ request' = o
  /\ rules' = None
  /\ outcome' = IF WellShaped(o) THEN "asking" ELSE "refused"

\* exchangeInfo answers, and the order is posted if it keeps every rule,
ExchangeInfo(r) ==
  /\ outcome = "asking"
  /\ rules' = r
  /\ outcome' = IF OrderAllowed(request, r) THEN "posted" ELSE "refused"
  /\ UNCHANGED request

\* or it fails, and the submit with it.
ExchangeInfoFails ==
  /\ outcome = "asking"
  /\ outcome' = "refused"
  /\ UNCHANGED <<request, rules>>

RulesNext ==
  \/ \E o \in OrderRequests : Submit(o)
  \/ \E r \in SymbolRules : ExchangeInfo(r)
  \/ ExchangeInfoFails

RulesSpec == RulesInit /\ [][RulesNext]_rulesVars

-----------------------------------------------------------------------------
(* Properties. *)

\* The same rules on the numbers themselves, x / y by cross multiplication and
\* a multiple by the factor that makes it one.
NotMore(a, b) == a.int * TenTo[b.scale] =< b.int * TenTo[a.scale]
StepsOf(a, step) ==
  \E k \in 0 .. a.int * TenTo[step.scale] : k * step.int * TenTo[a.scale] = a.int * TenTo[step.scale]
Obeys(a, filter) == NotMore(filter.min, a) /\ NotMore(a, filter.max) /\ StepsOf(a, filter.step)

\* What is posted keeps the exchange's rules, however many digits its texts and
\* theirs are written with.
PostedOrdersKeepTheRules ==
  outcome = "posted" =>
    /\ request.quantity # None /\ rules.lotSize # None => Obeys(request.quantity, rules.lotSize)
    /\ request.type = "LIMIT" /\ rules.priceFilter # None
         => Obeys(request.limitPrice, rules.priceFilter)
    /\ rules.minNotional # None =>
         \/ request.quoteAmount # None /\ NotMore(rules.minNotional, request.quoteAmount)
         \/ /\ request.quantity # None /\ request.limitPrice # None
            /\ rules.minNotional.int * TenTo[request.quantity.scale + request.limitPrice.scale]
                 =< request.quantity.int * request.limitPrice.int * TenTo[rules.minNotional.scale]
=============================================================================
