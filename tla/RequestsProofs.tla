---------------------------- MODULE RequestsProofs ----------------------------
(***************************************************************************)
(* Proofs about what requests set in motion.  Each module keeps a state of *)
(* its own, and its section has the inductive invariant it needs:          *)
(*   BotLimits, RiskPanel     edits of a bot's limits, and their page      *)
(*   MarketFeed               the candles asked of Binance                 *)
(*   TraderFigures, TraderPages, TraderNotices   what a user is shown      *)
(*   ApiGate, WebSession      the rate limit, and the session cookie       *)
(*   Backtest                 the measures of a simulated period           *)
(***************************************************************************)
EXTENDS BotLimits, RiskPanel, MarketFeed, WebSession, ApiGate, TraderFigures,
        TraderNotices, TraderPages, Backtest, SumLemmas

-----------------------------------------------------------------------------
(* BotLimits.  The stored limits of a bot fit it, whatever overlapping edits *)
(* give: an edit writes the whole that it checked, and what it checked it    *)
(* against never changes.                                                    *)

\* A bot is a record of these four fields; an edit that is under way carries
\* limits that fit the authorized capital and the symbol of the bot there is.
IsBot(b) ==
  /\ b = [status |-> b.status, authorized |-> b.authorized, symbol |-> b.symbol, limits |-> b.limits]
  /\ b.status \in DOMAIN Moves
FitsTheBot(limits) == Parsed(limits, bot.authorized, bot.symbol)

LimitsInv ==
  /\ bot = NoBot \/ IsBot(bot)
  /\ edits = [e \in Editors |-> edits[e]]
  /\ bot = NoBot => \A e \in Editors : edits[e] = NoEdit
  /\ \A e \in Editors : edits[e] # NoEdit => FitsTheBot(edits[e].input)
  /\ LimitsFitTheBot

LEMMA StatusNames ==
  /\ DOMAIN Moves = {"DRAFT", "READY", "RUNNING", "PAUSED", "RISK_BLOCKED", "STOPPED"}
  /\ \A b : IsBot(b) => b # NoBot
  /\ \A status \in DOMAIN Moves : Moves[status] \subseteq DOMAIN Moves
<1>1. DOMAIN Moves = {"DRAFT", "READY", "RUNNING", "PAUSED", "RISK_BLOCKED", "STOPPED"}
  BY DEF Moves
<1>2. \A b : IsBot(b) => b # NoBot
  BY <1>1 DEF IsBot, NoBot
<1>3. \A status \in DOMAIN Moves : Moves[status] \subseteq DOMAIN Moves
  BY DEF Moves
<1> QED
  BY <1>1, <1>2, <1>3

LEMMA LimitsStart == LimitsInit => LimitsInv
BY DEF LimitsInit, LimitsInv, LimitsFitTheBot

\* Nothing but the bot changes, and not the capital and the symbol it has.
LEMMA SameBot ==
  ASSUME LimitsInv, bot # NoBot, UNCHANGED edits, NEW status \in DOMAIN Moves,
         bot' = [bot EXCEPT !.status = status]
  PROVE  LimitsInv'
<1>1. bot' = [status |-> status, authorized |-> bot.authorized, symbol |-> bot.symbol,
              limits |-> bot.limits]
  BY DEF LimitsInv, IsBot
<1>2. IsBot(bot') /\ bot' # NoBot
  BY <1>1, StatusNames DEF IsBot
<1>3. bot'.authorized = bot.authorized /\ bot'.symbol = bot.symbol /\ bot'.limits = bot.limits
  BY <1>1
<1>4. LimitsFitTheBot'
  BY <1>3 DEF LimitsInv, LimitsFitTheBot, Parsed
<1>5. \A e \in Editors : edits'[e] # NoEdit => Parsed(edits'[e].input, bot'.authorized, bot'.symbol)
  BY <1>3 DEF LimitsInv, FitsTheBot
<1> QED
  BY <1>2, <1>4, <1>5 DEF LimitsInv, FitsTheBot, NoBot, NoEdit, IsBot

LEMMA LimitsStep == LimitsInv /\ [LimitsNext]_limitsVars => LimitsInv'
<1> SUFFICES ASSUME LimitsInv, [LimitsNext]_limitsVars PROVE LimitsInv'
  OBVIOUS
<1>1. CASE UNCHANGED limitsVars
  BY <1>1 DEF limitsVars, LimitsInv, IsBot, FitsTheBot, LimitsFitTheBot, NoBot, NoEdit, Parsed
<1>2. ASSUME NEW authorized \in Amount, NEW symbol \in Symbol, NEW limits \in WholeBodies,
             CreateBot(authorized, symbol, limits)
      PROVE  LimitsInv'
  <2>1. /\ bot' = [status |-> "DRAFT", authorized |-> authorized, symbol |-> symbol, limits |-> limits]
        /\ UNCHANGED edits /\ bot = NoBot /\ Parsed(limits, authorized, symbol)
    BY <1>2 DEF CreateBot
  <2>2. IsBot(bot') /\ bot' # NoBot
    BY <2>1, StatusNames DEF IsBot
  <2>3. LimitsFitTheBot'
    BY <2>1 DEF LimitsFitTheBot
  <2>4. \A e \in Editors : edits'[e] = NoEdit
    BY <2>1 DEF LimitsInv
  <2> QED
    BY <2>1, <2>2, <2>3, <2>4 DEF LimitsInv, NoBot, NoEdit, IsBot
<1>3. ASSUME NEW e \in Editors, NEW body \in Bodies, StartEdit(e, body) PROVE LimitsInv'
  <2> DEFINE whole == Laid(bot.limits, body)
             edit == [phase |-> "parsed", body |-> body, input |-> whole]
  <2>1. /\ bot # NoBot /\ UNCHANGED bot /\ FitsTheBot(whole)
        /\ edits' = [edits EXCEPT ![e] = edit]
    BY <1>3 DEF StartEdit, Editable, FitsTheBot
  <2> HIDE DEF whole
  <2>2. edits' = [f \in Editors |-> IF f = e THEN edit ELSE edits[f]]
    BY <2>1 DEF LimitsInv
  <2>3. \A f \in Editors : edits'[f] # NoEdit => FitsTheBot(edits'[f].input)
    BY <2>1, <2>2 DEF LimitsInv
  <2>4. LimitsFitTheBot'
    BY <2>1 DEF LimitsInv, LimitsFitTheBot, Parsed
  <2>5. IsBot(bot') /\ bot' # NoBot
    BY <2>1 DEF LimitsInv, IsBot
  <2> QED
    BY <2>1, <2>2, <2>3, <2>4, <2>5 DEF LimitsInv, FitsTheBot, Parsed, NoBot, NoEdit, IsBot
<1>4. ASSUME NEW e \in Editors, FinishEdit(e) PROVE LimitsInv'
  <2> DEFINE whole == edits[e].input
  <2>1. /\ edits[e] # NoEdit /\ edits' = [edits EXCEPT ![e] = NoEdit]
        /\ bot' = [bot EXCEPT !.limits = whole]
    BY <1>4 DEF FinishEdit, Written
  <2>2. bot # NoBot /\ IsBot(bot) /\ FitsTheBot(whole)
    BY <2>1 DEF LimitsInv
  <2> HIDE DEF whole
  <2>3. bot' = [status |-> bot.status, authorized |-> bot.authorized, symbol |-> bot.symbol,
                limits |-> whole]
    BY <2>1, <2>2 DEF IsBot
  <2>4. IsBot(bot') /\ bot' # NoBot
    BY <2>2, <2>3, StatusNames DEF IsBot
  <2>5. bot'.authorized = bot.authorized /\ bot'.symbol = bot.symbol /\ bot'.limits = whole
    BY <2>3
  <2>6. LimitsFitTheBot'
    BY <2>2, <2>5 DEF LimitsFitTheBot, FitsTheBot, Parsed
  <2>7. edits' = [f \in Editors |-> IF f = e THEN NoEdit ELSE edits[f]]
    BY <2>1 DEF LimitsInv
  <2>8. \A f \in Editors :
          edits'[f] # NoEdit => Parsed(edits'[f].input, bot'.authorized, bot'.symbol)
    BY <2>5, <2>7 DEF LimitsInv, FitsTheBot
  <2> QED
    BY <2>4, <2>6, <2>7, <2>8 DEF LimitsInv, FitsTheBot, NoBot, NoEdit, IsBot
<1>5. ASSUME NEW status \in DOMAIN Moves, MoveBot(status) PROVE LimitsInv'
  BY <1>5, SameBot DEF MoveBot
<1> QED
  BY <1>1, <1>2, <1>3, <1>4, <1>5 DEF LimitsNext

-----------------------------------------------------------------------------
\* However partial edits of a bot overlap, its stored limits fit each other, its
\* authorized capital and its symbol (bots.service.ts:261 and :292).
THEOREM LimitsAlwaysFit == LimitsSpec => []LimitsFitTheBot
<1>1. LimitsInit => LimitsInv
  BY LimitsStart
<1>2. LimitsInv /\ [LimitsNext]_limitsVars => LimitsInv'
  BY LimitsStep
<1>3. LimitsInv => LimitsFitTheBot
  BY DEF LimitsInv
<1> QED
  BY <1>1, <1>2, <1>3, PTL DEF LimitsSpec

-----------------------------------------------------------------------------
(* RiskPanel: its types, and that no bot is ever given the limits of another. *)

\* What a slot may hold: what a save carries is a row, and so is what a load
\* brings.
CallType ==
  [kind : {"load", "save"}, bot : Panelled, body : RiskRow \cup {NoRisk},
   answer : {"awaited", "given", "refused"}]
CarriesRow(c) ==
  /\ c.kind = "save" => c.body \in RiskRow
  /\ c.kind = "load" /\ c.answer = "given" => c.body \in RiskRow
SlotsOK ==
  \A s \in Slot : underway[s] = FreeSlot \/ (underway[s] \in CallType /\ CarriesRow(underway[s]))

PanelInv ==
  /\ profiles \in [Panelled -> RiskRow]
  /\ panel \in [selected : Panelled \cup {NoneSelected}, risk : RiskRow \cup {NoRisk},
                status : {"none", "saving", "saved", "unavailable"}]
  /\ DOMAIN underway = Slot /\ underway = [s \in Slot |-> underway[s]]
  /\ SlotsOK
  /\ LimitsStayWithTheirBot

\* A body whose name nobody else has carries the name of the bot it is for:
\* all the names are taken by their own bots.
LEMMA FreeNameIsOwn ==
  ASSUME LimitsStayWithTheirBot, NEW b \in Panelled, NEW row \in RiskRow, NameIsFree(b, row.name)
  PROVE  row.name = b
<1>1. row.name \in Panelled
  BY DEF RiskRow
<1> QED
  BY <1>1 DEF LimitsStayWithTheirBot, NameIsFree

LEMMA PanelStarts == PanelInit => PanelInv
<1> SUFFICES ASSUME PanelInit PROVE PanelInv
  OBVIOUS
<1>1. profiles \in [Panelled -> RiskRow] /\ LimitsStayWithTheirBot
  BY DEF PanelInit, LimitsStayWithTheirBot
<1>2. SlotsOK
  BY DEF PanelInit, SlotsOK
<1> QED
  BY <1>1, <1>2 DEF PanelInit, PanelInv

\* One slot changes to something that fits it.
LEMMA SlotChange ==
  ASSUME PanelInv, NEW s \in Slot, NEW c, underway' = [underway EXCEPT ![s] = c],
         c = FreeSlot \/ (c \in CallType /\ CarriesRow(c))
  PROVE  /\ DOMAIN underway' = Slot /\ underway' = [t \in Slot |-> underway'[t]]
         /\ SlotsOK'
<1>1. DOMAIN underway' = Slot /\ \A t \in Slot : underway'[t] = IF t = s THEN c ELSE underway[t]
  BY DEF PanelInv
<1>2. underway' = [t \in Slot |-> underway'[t]]
  BY <1>1 DEF PanelInv
<1>3. ASSUME NEW t \in Slot
      PROVE  underway'[t] = FreeSlot \/ (underway'[t] \in CallType /\ CarriesRow(underway'[t]))
  BY <1>1, <1>3 DEF PanelInv, SlotsOK
<1> QED
  BY <1>1, <1>2, <1>3 DEF SlotsOK, FreeSlot, CallType, CarriesRow, RiskRow, NoRisk

LEMMA PageOnly ==
  ASSUME PanelInv, NEW selected \in Panelled \cup {NoneSelected}, NEW risk \in RiskRow \cup {NoRisk},
         NEW status \in {"none", "saving", "saved", "unavailable"},
         ShowPanel(selected, risk, status)
  PROVE  panel' \in [selected : Panelled \cup {NoneSelected}, risk : RiskRow \cup {NoRisk},
                     status : {"none", "saving", "saved", "unavailable"}]
BY DEF ShowPanel

\* A step that writes no profile.
LEMMA ProfilesStay ==
  ASSUME PanelInv, UNCHANGED profiles
  PROVE  profiles' \in [Panelled -> RiskRow] /\ LimitsStayWithTheirBot'
BY DEF PanelInv, LimitsStayWithTheirBot

LEMMA SlotsStay ==
  ASSUME PanelInv, UNCHANGED underway
  PROVE  /\ DOMAIN underway' = Slot /\ underway' = [t \in Slot |-> underway'[t]]
         /\ SlotsOK'
BY DEF PanelInv, SlotsOK, FreeSlot, CallType, CarriesRow, RiskRow, NoRisk

\* A request is sent in a slot that is free.
LEMMA PanelSends ==
  ASSUME PanelInv, NEW kind \in {"load", "save"}, NEW b \in Panelled, NEW body \in RiskRow \cup {NoRisk},
         kind = "save" => body \in RiskRow, SendRisk(kind, b, body)
  PROVE  /\ DOMAIN underway' = Slot /\ underway' = [t \in Slot |-> underway'[t]]
         /\ SlotsOK'
<1>1. PICK s \in Slot : underway' = [underway EXCEPT ![s] = RiskCall(kind, b, body)]
  BY DEF SendRisk
<1>2. RiskCall(kind, b, body) \in CallType /\ CarriesRow(RiskCall(kind, b, body))
  BY DEF RiskCall, CallType, CarriesRow
<1> QED
  BY <1>1, <1>2, SlotChange

\* A request is answered.
LEMMA PanelAnswered ==
  ASSUME PanelInv, NEW s \in Slot, underway[s] # FreeSlot,
         NEW answer \in {"given", "refused"}, NEW body \in RiskRow \cup {NoRisk},
         underway[s].kind = "save" \/ answer = "given" => body \in RiskRow,
         Answered(s, answer, body)
  PROVE  /\ DOMAIN underway' = Slot /\ underway' = [t \in Slot |-> underway'[t]]
         /\ SlotsOK'
<1>1. underway[s] \in CallType
  BY DEF PanelInv, SlotsOK
<1>2. Reply(underway[s], answer, body) \in CallType /\ CarriesRow(Reply(underway[s], answer, body))
  BY <1>1 DEF Reply, CallType, CarriesRow
<1> QED
  BY <1>2, SlotChange DEF Answered

LEMMA PanelStep == PanelInv /\ [PanelNext]_panelVars => PanelInv'
<1> SUFFICES ASSUME PanelInv, [PanelNext]_panelVars PROVE PanelInv'
  OBVIOUS
<1> USE DEF PanelInv
<1>1. CASE UNCHANGED panelVars
  <2>1. UNCHANGED panel /\ UNCHANGED profiles /\ UNCHANGED underway
    BY <1>1 DEF panelVars
  <2> QED
    BY <2>1, ProfilesStay, SlotsStay DEF RiskRow, NoRisk, NoneSelected
<1>2. ASSUME NEW b \in Panelled, SelectBot(b) PROVE PanelInv'
  BY <1>2, ProfilesStay, PageOnly, PanelSends DEF SelectBot
<1>3. ASSUME NEW limit \in LimitValues, EditLimit(limit) PROVE PanelInv'
  <2>1. [panel.risk EXCEPT !.limit = limit] \in RiskRow
    BY <1>3 DEF EditLimit, RiskRow
  <2> QED
    BY <1>3, <2>1, ProfilesStay, SlotsStay, PageOnly DEF EditLimit
<1>4. CASE EditCount
  <2>1. [panel.risk EXCEPT !.counts = "text"] \in RiskRow
    BY <1>4 DEF EditCount, RiskRow
  <2> QED
    BY <1>4, <2>1, ProfilesStay, SlotsStay, PageOnly DEF EditCount
<1>5. CASE SaveRisk
  <2>1. panel.risk \in RiskRow /\ panel.selected \in Panelled
    BY <1>5 DEF SaveRisk
  <2> QED
    BY <1>5, <2>1, ProfilesStay, PageOnly, PanelSends DEF SaveRisk
<1>6. ASSUME NEW s \in Slot, AnswerLoad(s) PROVE PanelInv'
  <2>1. underway[s] # FreeSlot /\ underway[s] \in CallType
    BY <1>6 DEF AnswerLoad, Await, FreeSlot, SlotsOK
  <2>2. profiles[underway[s].bot] \in RiskRow
    BY <2>1 DEF CallType
  <2> QED
    BY <1>6, <2>1, <2>2, ProfilesStay, PanelAnswered DEF AnswerLoad
<1>7. ASSUME NEW s \in Slot, AnswerSave(s) PROVE PanelInv'
  <2> DEFINE c == underway[s]
  <2>1. c # FreeSlot /\ c \in CallType /\ c.body \in RiskRow /\ c.kind = "save"
    BY <1>7 DEF AnswerSave, Await, FreeSlot, SlotsOK, CarriesRow
  <2>2. c.bot \in Panelled
    BY <2>1 DEF CallType
  <2>3. c.body.name = c.bot
    BY <1>7, <2>1, <2>2, FreeNameIsOwn DEF AnswerSave, Stores
  <2>4. profiles' = [profiles EXCEPT ![c.bot] = c.body]
    BY <1>7 DEF AnswerSave
  <2>5. profiles' \in [Panelled -> RiskRow] /\ LimitsStayWithTheirBot'
    BY <2>1, <2>2, <2>3, <2>4 DEF LimitsStayWithTheirBot
  <2> QED
    BY <1>7, <2>1, <2>5, PanelAnswered DEF AnswerSave
<1>8. ASSUME NEW s \in Slot, RefuseRisk(s) PROVE PanelInv'
  <2>1. underway[s] # FreeSlot /\ underway[s] \in CallType /\ CarriesRow(underway[s])
    BY <1>8 DEF RefuseRisk, FreeSlot, SlotsOK
  <2>2. underway[s].body \in RiskRow \cup {NoRisk}
    BY <2>1 DEF CallType
  <2> QED
    BY <1>8, <2>1, <2>2, ProfilesStay, PanelAnswered DEF RefuseRisk, CarriesRow
<1>9. ASSUME NEW s \in Slot, TakeAnswer(s) PROVE PanelInv'
  <2> DEFINE c == underway[s]
  <2>1. c # FreeSlot /\ c \in CallType /\ CarriesRow(c)
    BY <1>9 DEF TakeAnswer, FreeSlot, SlotsOK
  <2>2. /\ panel' \in [selected : Panelled \cup {NoneSelected}, risk : RiskRow \cup {NoRisk},
                      status : {"none", "saving", "saved", "unavailable"}]
    <3> HIDE DEF PanelInv
    <3>0. /\ panel.selected \in Panelled \cup {NoneSelected} /\ panel.risk \in RiskRow \cup {NoRisk}
          /\ panel.status \in {"none", "saving", "saved", "unavailable"} /\ Taken(c)
      BY <1>9 DEF PanelInv, TakeAnswer
    <3>1. CASE c.answer = "refused"
      <4>1. ShowPanel(panel.selected, panel.risk, "unavailable")
        BY <3>0, <3>1 DEF Taken
      <4> QED
        BY <3>0, <4>1, PageOnly
    <3>2. CASE c.answer = "given" /\ c.kind = "load"
      <4>1. ShowPanel(panel.selected, c.body, panel.status) /\ c.body \in RiskRow
        BY <2>1, <3>0, <3>2 DEF Taken, CarriesRow
      <4> QED
        BY <3>0, <4>1, PageOnly
    <3>3. CASE c.answer = "given" /\ c.kind = "save"
      <4>1. ShowPanel(panel.selected, panel.risk, "saved")
        BY <3>0, <3>3 DEF Taken
      <4> QED
        BY <3>0, <4>1, PageOnly
    <3> QED
      BY <1>9, <2>1, <3>1, <3>2, <3>3 DEF TakeAnswer, CallType
  <2>3. underway' = [underway EXCEPT ![s] = FreeSlot]
    BY <1>9 DEF TakeAnswer
  <2> QED
    BY <1>9, <2>2, <2>3, ProfilesStay, SlotChange DEF TakeAnswer
<1> QED
  BY <1>1, <1>2, <1>3, <1>4, <1>5, <1>6, <1>7, <1>8, <1>9 DEF PanelNext

-----------------------------------------------------------------------------
\* Of the reachable states of the page and the rows.
THEOREM PanelInvariant == PanelSpec => []PanelInv
<1>1. PanelInit => PanelInv
  BY PanelStarts
<1>2. PanelInv /\ [PanelNext]_panelVars => PanelInv'
  BY PanelStep
<1> QED
  BY <1>1, <1>2, PTL DEF PanelSpec

\* Types of every reachable state, for any bots and requests under way.
THEOREM PanelTyped == PanelSpec => []PanelTypeOK
<1>1. PanelInv => PanelTypeOK
  BY DEF PanelInv, PanelTypeOK
<1> QED
  BY <1>1, PanelInvariant, PTL

\* However many answers of the risk page are late, overtaken or refused, every
\* bot keeps limits of its own: because no two profiles of a user share a name,
\* a save for another bot cannot be stored (risk-panel.tsx:50, schema.prisma:562).
THEOREM LimitsNeverStray == PanelSpec => []LimitsStayWithTheirBot
<1>1. PanelInv => LimitsStayWithTheirBot
  BY DEF PanelInv
<1> QED
  BY <1>1, PanelInvariant, PTL

-----------------------------------------------------------------------------
(* MarketFeed.  The bucket keeps no history, so that it limits every interval *)
(* needs a relation between what it has and what it gave: the tokens the next *)
(* take() would find fit beside the meter of admissions (RoomInvariant).      *)

BucketOK ==
  /\ tokens \in 0 .. Capacity
  /\ refilled \in 0 .. Capacity
  /\ admitted \in Nat

RoomInvariant == admitted + Refilled =< Capacity

BucketInv == BucketOK /\ RoomInvariant

LEMMA CapacityIsPositive == Capacity \in Nat /\ Capacity >= 1
BY FeedAssumption

-----------------------------------------------------------------------------
\* At the start the bucket is full and nothing has been admitted.
LEMMA BucketStarts == Init => BucketInv
BY CapacityIsPositive DEF Init, BucketInv, BucketOK, RoomInvariant, Refilled, AtMost

\* A request that is admitted raises the meter by one and takes a token.
LEMMA AdmitKeepsBucket ==
  ASSUME BucketInv, NEW c \in Callers, Admit(c)
  PROVE  BucketInv'
<1>1. /\ Refilled >= 1
      /\ tokens' = Refilled - 1
      /\ refilled' = 0
      /\ admitted' = AtMost(admitted + 1, Capacity + 1)
  BY DEF Admit, Take, Fuller
<1>2. Refilled \in 0 .. Capacity /\ admitted + Refilled =< Capacity /\ admitted \in Nat
  BY CapacityIsPositive DEF BucketInv, BucketOK, RoomInvariant, Refilled, AtMost
<1>3. admitted' = admitted + 1
  BY <1>1, <1>2, CapacityIsPositive DEF AtMost
<1>4. Refilled' = Refilled - 1
  <2>1. Refilled' = AtMost(tokens' + refilled', Capacity)
    BY DEF Refilled, AtMost
  <2>2. QED
    BY <2>1, <1>1, <1>2, CapacityIsPositive DEF AtMost
<1>5. BucketOK'
  BY <1>1, <1>2, <1>3, CapacityIsPositive DEF BucketOK
<1>6. RoomInvariant'
  BY <1>2, <1>3, <1>4 DEF RoomInvariant
<1>7. QED
  BY <1>5, <1>6 DEF BucketInv

\* A take() that finds the bucket empty only records the time of its look.
LEMMA LimitedKeepsBucket ==
  ASSUME BucketInv, NEW c \in Callers, Limited(c)
  PROVE  BucketInv'
<1>1. tokens' = Refilled /\ refilled' = 0 /\ admitted' = admitted
  BY DEF Limited, TakeNothing
<1>2. Refilled \in 0 .. Capacity /\ admitted + Refilled =< Capacity /\ admitted \in Nat
  BY CapacityIsPositive DEF BucketInv, BucketOK, RoomInvariant, Refilled, AtMost
<1>3. Refilled' = Refilled
  <2>1. Refilled' = AtMost(tokens' + refilled', Capacity)
    BY DEF Refilled, AtMost
  <2>2. QED
    BY <2>1, <1>1, <1>2, CapacityIsPositive DEF AtMost
<1>4. QED
  BY <1>1, <1>2, <1>3, CapacityIsPositive DEF BucketInv, BucketOK, RoomInvariant

\* A tick brings at most one token and lowers a meter that is not at zero.
LEMMA TickKeepsBucket ==
  ASSUME BucketInv, Tick
  PROVE  BucketInv'
<1>1. /\ refilled' = AtMost(refilled + 1, Capacity)
      /\ admitted' = AtLeast0(admitted - 1)
      /\ tokens' = tokens
  BY DEF Tick
<1>2. Refilled' = AtMost(tokens' + refilled', Capacity)
  BY DEF Refilled, AtMost
<1>3. BucketOK'
  BY <1>1, CapacityIsPositive DEF BucketInv, BucketOK, AtMost, AtLeast0
<1>4. RoomInvariant'
  BY <1>1, <1>2, CapacityIsPositive DEF BucketInv, BucketOK, RoomInvariant, Refilled, AtMost, AtLeast0
<1>5. QED
  BY <1>3, <1>4 DEF BucketInv

\* Nothing else touches the bucket or the meter of admissions.
LEMMA OthersKeepBucket ==
  ASSUME BucketInv, UNCHANGED <<tokens, refilled, admitted>>
  PROVE  BucketInv'
BY DEF BucketInv, BucketOK, RoomInvariant, Refilled, AtMost

LEMMA BucketStep == BucketInv /\ [Next]_vars => BucketInv'
<1> SUFFICES ASSUME BucketInv, [Next]_vars
             PROVE  BucketInv'
  OBVIOUS
<1>1. ASSUME NEW c \in Callers, Admit(c) PROVE BucketInv'
  BY <1>1, AdmitKeepsBucket
<1>2. ASSUME NEW c \in Callers, Limited(c) PROVE BucketInv'
  BY <1>2, LimitedKeepsBucket
<1>3. CASE Tick
  BY <1>3, TickKeepsBucket
<1>4. ASSUME NEW c \in Callers,
             \/ Start(c) \/ Rejected(c) \/ Received(c) \/ Retry(c) \/ GiveUp(c)
             \/ Wake(c) \/ StoreOpen(c) \/ Store(c) \/ StoreNothing(c) \/ StoreFails(c)
      PROVE  BucketInv'
  <2>1. UNCHANGED <<tokens, refilled, admitted>>
    BY <1>4 DEF Start, Rejected, Received, Retry, GiveUp, Wake, StoreOpen, Store,
                StoreNothing, StoreFails, bucket
  <2>2. QED
    BY <2>1, OthersKeepBucket
<1>5. ASSUME NEW s \in Symbols, CloseCandle(s) \/ CandleExpires(s) PROVE BucketInv'
  BY <1>5, OthersKeepBucket DEF CloseCandle, CandleExpires, bucket
<1>6. CASE Falter
  BY <1>6, OthersKeepBucket DEF Falter, bucket
<1>7. CASE UNCHANGED vars
  BY <1>7, OthersKeepBucket DEF vars, bucket
<1>8. QED
  BY <1>1, <1>2, <1>3, <1>4, <1>5, <1>6, <1>7 DEF Next, Request

\* For any number of callers, in any interleaving with their retries, no
\* interval of t ticks admits more than Capacity + t requests
\* (TokenBucketRateLimiter.take).
THEOREM AdmissionsLimited == Spec => []AdmissionsAreLimited
<1>1. BucketInv => AdmissionsAreLimited
  BY CapacityIsPositive
  DEF BucketInv, BucketOK, RoomInvariant, Refilled, AtMost, AdmissionsAreLimited
<1>2. QED
  BY <1>1, BucketStarts, BucketStep, PTL DEF Spec

-----------------------------------------------------------------------------
\* The types of the candles: a timer holds the longest back-off because only a
\* call that has retries left goes to sleep.
AttemptsLeft(r) == r.phase = "sleeping" => r.attempt < MaxRetries
CallsOK == call \in [Callers -> Call] /\ \A c \in Callers : AttemptsLeft(call[c])
BreakerOK == failures \in 0 .. Threshold /\ tripped \in BOOLEAN /\ openFor \in 0 .. ResetAfter
CandlesOK == unclosed \subseteq Symbols /\ fresh \subseteq Symbols /\ up \in BOOLEAN
FeedInv == BucketInv /\ CallsOK /\ BreakerOK /\ CandlesOK

LEMMA FeedPowers == ArePowers(2, TwoTo)
<1>1. TwoTo = CHOOSE f : f = [n \in Nat |-> IF n = 0 THEN 1 ELSE 2 * f[n - 1]]
  BY DEF TwoTo
<1> QED BY <1>1, PowersUnfold

LEMMA TimersFit ==
  /\ LongestWait \in Nat
  /\ Interval \in 0 .. LongestWait
  /\ \A n \in 0 .. MaxRetries : Backoff(n) \subseteq 0 .. LongestWait
<1> DEFINE longest == BaseDelay * TwoTo[MaxRetries]
<1>1. MaxRetries \in Nat /\ BaseDelay \in Nat /\ Interval \in Nat
  BY FeedAssumption
<1>2. \A n \in Nat : TwoTo[n] \in Nat
  BY FeedPowers DEF ArePowers
<1>3. ASSUME NEW n \in 0 .. MaxRetries
      PROVE  BaseDelay * TwoTo[n] \in Nat /\ BaseDelay * TwoTo[n] =< longest
  <2>1. n \in Nat /\ n =< MaxRetries
    BY <1>1
  <2>2. TwoTo[n] =< TwoTo[MaxRetries]
    BY <1>1, <2>1, FeedPowers, PowersGrow
  <2>3. \A x, y, z \in Nat : y =< z => x * y \in Nat /\ x * y =< x * z
    OBVIOUS
  <2> QED BY <1>1, <1>2, <2>1, <2>2, <2>3
<1>4. longest \in Nat
  BY <1>1, <1>3
<1>5. LongestWait = longest + BaseDelay + Interval
  BY DEF LongestWait
<1>6. ASSUME NEW n \in 0 .. MaxRetries PROVE Backoff(n) \subseteq 0 .. LongestWait
  <2> DEFINE least == BaseDelay * TwoTo[n]
  <2>1. least \in Nat /\ least =< longest
    BY <1>3
  <2>2. Backoff(n) = {least + jitter : jitter \in 0 .. BaseDelay}
    BY DEF Backoff
  <2> HIDE DEF least, longest
  <2> QED BY <1>1, <1>4, <1>5, <2>1, <2>2
<1> HIDE DEF longest
<1>7. LongestWait \in Nat /\ Interval \in 0 .. LongestWait
  BY <1>1, <1>4, <1>5
<1> QED BY <1>6, <1>7

LEMMA SymbolsAscend == 1 \in Symbols /\ \A s \in Symbols : s < Depth => s + 1 \in Symbols
BY FeedAssumption DEF Symbols

LEMMA IdleFits == Idle \in Call /\ AttemptsLeft(Idle)
BY TimersFit, SymbolsAscend, FeedAssumption DEF Idle, Call, AttemptsLeft

LEMMA AskingFits ==
  ASSUME NEW s \in Symbols
  PROVE  Asking(s) \in Call /\ AttemptsLeft(Asking(s))
BY TimersFit, FeedAssumption DEF Asking, Call, AttemptsLeft

LEMMA ProceedFits ==
  ASSUME CallsOK, NEW c \in Callers, NEW r \in Call, AttemptsLeft(r), Proceed(c, r)
  PROVE  CallsOK'
BY DEF CallsOK, Proceed

LEMMA OnwardFits ==
  ASSUME CallsOK, NEW c \in Callers, Onward(c)
  PROVE  CallsOK'
<1>1. call[c].symbol \in Symbols
  BY DEF CallsOK, Call
<1>2. CASE call[c].symbol < Depth
  <2>1. call[c].symbol + 1 \in Symbols
    BY <1>1, <1>2, SymbolsAscend
  <2> QED BY <1>2, <2>1, AskingFits, ProceedFits DEF Onward
<1>3. CASE ~(call[c].symbol < Depth)
  BY <1>3, IdleFits, ProceedFits DEF Onward
<1> QED BY <1>2, <1>3

LEMMA RequestFits ==
  ASSUME CallsOK, NEW c \in Callers, Start(c) \/ Request(c)
  PROVE  CallsOK'
<1> DEFINE r == call[c]
<1>0. r \in Call /\ AttemptsLeft(r) /\ MaxRetries \in Nat
  BY FeedAssumption DEF CallsOK
<1>1. CASE Start(c)
  BY <1>1, SymbolsAscend, AskingFits, ProceedFits DEF Start
<1>2. CASE Rejected(c) \/ Limited(c) \/ GiveUp(c) \/ StoreFails(c)
  BY <1>2, IdleFits, ProceedFits DEF Rejected, Limited, GiveUp, StoreFails
<1>3. CASE Admit(c)
  <2>1. [r EXCEPT !.phase = "fetching"] \in Call /\ AttemptsLeft([r EXCEPT !.phase = "fetching"])
    BY <1>0 DEF Call, AttemptsLeft
  <2> QED BY <1>3, <2>1, ProceedFits DEF Admit
<1>4. CASE Received(c)
  <2>1. [r EXCEPT !.phase = "storing"] \in Call /\ AttemptsLeft([r EXCEPT !.phase = "storing"])
    BY <1>0 DEF Call, AttemptsLeft
  <2> QED BY <1>4, <2>1, ProceedFits DEF Received
<1>5. CASE Retry(c)
  <2>1. PICK wait \in Backoff(r.attempt) :
          Proceed(c, [r EXCEPT !.phase = "sleeping", !.wait = wait])
    BY <1>5 DEF Retry
  <2>2. r.attempt \in 0 .. MaxRetries /\ r.attempt < MaxRetries
    BY <1>0, <1>5 DEF Retry, Call
  <2>3. wait \in 0 .. LongestWait
    BY <2>1, <2>2, TimersFit
  <2>4. [r EXCEPT !.phase = "sleeping", !.wait = wait] \in Call
    BY <1>0, <2>3 DEF Call
  <2>5. AttemptsLeft([r EXCEPT !.phase = "sleeping", !.wait = wait])
    BY <1>0, <2>2 DEF Call, AttemptsLeft
  <2> QED BY <2>1, <2>4, <2>5, ProceedFits
<1>6. CASE Wake(c)
  <2> DEFINE attempt == r.attempt + 1
             next == [r EXCEPT !.phase = "fetching", !.attempt = attempt]
  <2>1. attempt \in 0 .. MaxRetries
    BY <1>0, <1>6 DEF Wake, Call, AttemptsLeft
  <2>2. Proceed(c, next)
    BY <1>6 DEF Wake
  <2>3. next \in Call /\ next.phase = "fetching"
    <3> HIDE DEF attempt
    <3> QED BY <1>0, <2>1 DEF Call
  <2>4. AttemptsLeft(next)
    BY <2>3 DEF AttemptsLeft
  <2> QED BY <2>2, <2>3, <2>4, ProceedFits
<1>7. CASE StoreOpen(c) \/ Store(c) \/ StoreNothing(c)
  BY <1>7, OnwardFits DEF StoreOpen, Store, StoreNothing
<1> QED BY <1>1, <1>2, <1>3, <1>4, <1>5, <1>6, <1>7 DEF Request

LEMMA TimersRun ==
  ASSUME CallsOK, Tick
  PROVE  CallsOK'
<1>1. ASSUME NEW c \in Callers
      PROVE  call'[c] \in Call /\ AttemptsLeft(call'[c])
  <2>1. call'[c] = [call[c] EXCEPT !.wait = AtLeast0(call[c].wait - 1)]
    BY DEF Tick
  <2>2. call[c] \in Call /\ AttemptsLeft(call[c])
    BY DEF CallsOK
  <2>3. AtLeast0(call[c].wait - 1) \in 0 .. LongestWait
    BY <2>2, TimersFit DEF Call, AtLeast0
  <2> QED BY <2>1, <2>2, <2>3 DEF Call, AttemptsLeft
<1> QED BY <1>1 DEF CallsOK, Tick

LEMMA BreakerFits ==
  ASSUME BreakerOK, NEW c \in Callers, Request(c)
  PROVE  BreakerOK'
<1>0. Threshold \in Nat \ {0} /\ ResetAfter \in Nat
  BY FeedAssumption
<1>1. CASE Received(c)
  <2>1. failures' \in 0 .. Threshold /\ openFor' \in 0 .. ResetAfter
    BY <1>0, <1>1 DEF Received, Success
  <2>2. tripped' \in BOOLEAN
    BY <1>1, Zenon DEF Received, Success
  <2> QED BY <2>1, <2>2 DEF BreakerOK
<1>2. CASE GiveUp(c)
  <2>1. failures' \in 0 .. Threshold /\ openFor' \in 0 .. ResetAfter
    BY <1>0, <1>2 DEF GiveUp, Failure, AtMost, BreakerOK
  <2>2. tripped' \in BOOLEAN
    BY <1>2, Zenon DEF GiveUp, Failure, BreakerOK
  <2> QED BY <2>1, <2>2 DEF BreakerOK
<1>3. CASE UNCHANGED breaker
  BY <1>3 DEF breaker, BreakerOK
<1> QED BY <1>1, <1>2, <1>3
        DEF Request, Rejected, Limited, Admit, Retry, Wake, StoreOpen, Store, StoreNothing, StoreFails

LEMMA FeedStep == FeedInv /\ [Next]_vars => FeedInv'
<1> SUFFICES ASSUME FeedInv, [Next]_vars PROVE FeedInv'
    OBVIOUS
<1>0. BucketInv' /\ ResetAfter \in Nat
  BY BucketStep, FeedAssumption DEF FeedInv
<1>1. ASSUME NEW c \in Callers, Start(c) PROVE FeedInv'
  BY <1>0, <1>1, RequestFits DEF FeedInv, Start, breaker, candles, BreakerOK, CandlesOK
<1>2. ASSUME NEW c \in Callers, Request(c) PROVE FeedInv'
  <2>1. call[c].symbol \in Symbols
    BY DEF FeedInv, CallsOK, Call
  <2>2. CandlesOK'
    BY <1>2, <2>1 DEF FeedInv, CandlesOK, candles, Request, Rejected, Limited, Admit, Received,
                      Retry, GiveUp, Wake, StoreOpen, Store, StoreNothing, StoreFails
  <2> QED BY <1>0, <1>2, <2>2, RequestFits, BreakerFits DEF FeedInv
<1>3. ASSUME NEW s \in Symbols, CloseCandle(s) \/ CandleExpires(s) PROVE FeedInv'
  BY <1>0, <1>3 DEF FeedInv, CloseCandle, CandleExpires, breaker, CallsOK, BreakerOK, CandlesOK
<1>4. CASE Tick
  BY <1>0, <1>4, TimersRun DEF FeedInv, Tick, candles, BreakerOK, CandlesOK, AtMost
<1>5. CASE Falter
  BY <1>0, <1>5 DEF FeedInv, Falter, breaker, candles, CallsOK, BreakerOK, CandlesOK
<1>6. CASE UNCHANGED vars
  BY <1>0, <1>6 DEF FeedInv, vars, breaker, candles, CallsOK, BreakerOK, CandlesOK
<1> QED BY <1>1, <1>2, <1>3, <1>4, <1>5, <1>6 DEF Next

\* Types of every reachable state, for any callers, symbols and delays: no
\* back-off is longer than the one before the last retry, no call retries more
\* often than it may, and the bucket never holds more than a minute's requests.
THEOREM FeedTyped == Spec => []TypeOK
<1>1. Init => FeedInv
  <2> SUFFICES ASSUME Init PROVE FeedInv
      OBVIOUS
  <2>1. BucketInv
    BY BucketStarts
  <2>2. CallsOK
    BY IdleFits DEF Init, CallsOK
  <2>3. failures \in 0 .. Threshold /\ openFor \in 0 .. ResetAfter
    BY FeedAssumption DEF Init
  <2>4. BreakerOK /\ CandlesOK
    BY <2>3, Zenon DEF Init, BreakerOK, CandlesOK
  <2> QED BY <2>1, <2>2, <2>4 DEF FeedInv
<1>2. FeedInv => TypeOK
  BY CapacityIsPositive DEF FeedInv, BucketInv, BucketOK, RoomInvariant, Refilled, AtMost,
                            CallsOK, BreakerOK, CandlesOK, TypeOK
<1> QED BY <1>1, <1>2, FeedStep, PTL DEF Spec

-----------------------------------------------------------------------------
(* TraderFigures.  What the card leaves out of today's profit is the paper    *)
(* profit at midnight of a position carried over, and nothing of a position   *)
(* opened today: with that, `opening' is what was realized before today.      *)

FiguresTyped ==
  /\ day \in Nat
  /\ snapshots \in [close : Nat, dayStart : Nat]
  /\ position \in [quantity : Nat, average : Int, opened : Nat, realized : Int]
  /\ trades \in [today : Int, fills : Nat]
  /\ opening \in Int
  /\ position.opened =< day

PaperAtMidnight == IF IsNew(position) THEN 0 ELSE Paper(snapshots.dayStart)
OpeningIsKnown == ~traded => opening = position.realized - trades.today + PaperAtMidnight
FiguresInv == FiguresTyped /\ OpeningIsKnown

LEMMA PaperType ==
  ASSUME FiguresTyped, NEW p \in Nat
  PROVE  Paper(p) \in Int /\ (position.quantity = 0 => Paper(p) = 0)
<1>1. \A x, y \in Int : x * y \in Int /\ (y = 0 => x * y = 0)
  OBVIOUS
<1>2. p - position.average \in Int /\ position.quantity \in Int
  BY DEF FiguresTyped
<1> QED BY <1>1, <1>2 DEF Paper

LEMMA FiguresStart == FiguresInit => FiguresInv
<1> SUFFICES ASSUME FiguresInit PROVE FiguresInv
  OBVIOUS
<1>1. FiguresTyped
  BY FiguresAssumption DEF FiguresInit, FiguresTyped
<1>2. Paper(snapshots.dayStart) = 0
  BY <1>1, PaperType DEF FiguresInit, FiguresTyped
<1> QED
  BY <1>1, <1>2 DEF FiguresInv, OpeningIsKnown, PaperAtMidnight, FiguresInit

\* A fill of a position that was not carried over leaves a position of today,
\* or none, and adds the same to what is realized and to today's trades.
LEMMA FillsKeepFigures ==
  ASSUME FiguresInv, FillBuy \/ FillSell
  PROVE  FiguresInv'
<1>1. FiguresTyped /\ UNCHANGED <<day, snapshots, opening>>
  BY DEF FiguresInv, FillBuy, FillSell
<1>2. \A a \in Int, n \in Nat \ {0} : a \div n \in Int
  OBVIOUS
<1>3. PICK profit \in Int :
        /\ position'.realized = position.realized + profit
        /\ trades'.today = trades.today + profit
        /\ position' \in [quantity : Nat, average : Int, opened : Nat, realized : Int]
        /\ trades' \in [today : Int, fills : Nat]
        /\ position'.opened = IF position.quantity = 0 THEN day ELSE position.opened
  <2>1. CASE FillBuy
    <3> DEFINE units == position.quantity + 1
               average == (position.average * position.quantity + snapshots.close) \div units
               opened == IF position.quantity = 0 THEN day ELSE position.opened
    <3>1. units \in Nat \ {0} /\ position.average * position.quantity + snapshots.close \in Int
      BY <1>1 DEF FiguresTyped
    <3>2. average \in Int /\ opened \in Nat
      BY <1>1, <1>2, <3>1 DEF FiguresTyped
    <3> HIDE DEF average, opened, units
    <3>3. /\ position' = [position EXCEPT !.quantity = units, !.average = average, !.opened = opened]
          /\ trades' = [trades EXCEPT !.fills = @ + 1]
      BY <2>1 DEF FillBuy, units, average, opened
    <3>4. /\ position'.quantity = units /\ position'.average = average
          /\ position'.opened = opened /\ position'.realized = position.realized
          /\ position' \in [quantity : Nat, average : Int, opened : Nat, realized : Int]
      BY <1>1, <3>1, <3>2, <3>3 DEF FiguresTyped
    <3>5. trades'.today = trades.today /\ trades' \in [today : Int, fills : Nat]
      BY <1>1, <3>3 DEF FiguresTyped
    <3>6. position.realized = position.realized + 0 /\ trades.today = trades.today + 0
      BY <1>1 DEF FiguresTyped
    <3> QED BY <3>4, <3>5, <3>6 DEF opened
  <2>2. CASE FillSell
    <3> DEFINE profit == snapshots.close - position.average - snapshots.close \div FeeShare
               average == IF position.quantity = 1 THEN 0 ELSE position.average
               left == position.quantity - 1
               realized == position.realized + profit
    <3>1. snapshots.close \div FeeShare \in Int
      BY <1>1, <1>2, FiguresAssumption DEF FiguresTyped
    <3>2. /\ profit \in Int /\ average \in Int /\ position.quantity > 0
          /\ left \in Nat /\ realized \in Int
      BY <1>1, <2>2, <3>1 DEF FiguresTyped, FillSell
    <3> HIDE DEF profit, average, left, realized
    <3>3. /\ position' = [position EXCEPT !.quantity = left, !.realized = realized,
                                          !.average = average]
          /\ trades' = [today |-> trades.today + profit, fills |-> trades.fills + 1]
      BY <2>2 DEF FillSell, profit, average, left, realized
    <3>4. /\ position'.opened = position.opened /\ position'.realized = realized
          /\ position' \in [quantity : Nat, average : Int, opened : Nat, realized : Int]
      BY <1>1, <3>2, <3>3 DEF FiguresTyped
    <3>5. trades'.today = trades.today + profit /\ trades' \in [today : Int, fills : Nat]
      BY <1>1, <3>2, <3>3 DEF FiguresTyped
    <3>6. position'.opened = IF position.quantity = 0 THEN day ELSE position.opened
      BY <1>1, <3>2, <3>4 DEF FiguresTyped
    <3> QED BY <3>2, <3>4, <3>5, <3>6 DEF realized
  <2> QED BY <2>1, <2>2
<1>4. FiguresTyped'
  BY <1>1, <1>3 DEF FiguresTyped
<1>5. ASSUME ~traded' PROVE opening' = position'.realized - trades'.today + PaperAtMidnight'
  <2>1. ~traded /\ ~CarriedOver
    BY <1>5 DEF FillBuy, FillSell
  <2>2. position.quantity = 0 \/ position.opened = day
    BY <1>1, <2>1 DEF CarriedOver, FiguresTyped
  <2>3. PaperAtMidnight = 0
    BY <1>1, <2>2, PaperType DEF PaperAtMidnight, IsNew, FiguresTyped
  <2>4. PaperAtMidnight' = 0
    BY <1>1, <1>3, <2>2 DEF PaperAtMidnight, IsNew
  <2>5. opening = position.realized - trades.today
    BY <1>1, <2>1, <2>3 DEF FiguresInv, OpeningIsKnown, FiguresTyped
  <2> QED BY <1>1, <1>3, <2>4, <2>5 DEF FiguresTyped
<1> QED
  BY <1>4, <1>5 DEF FiguresInv, OpeningIsKnown

LEMMA FiguresStep == FiguresInv /\ [FiguresNext]_figuresVars => FiguresInv'
<1> SUFFICES ASSUME FiguresInv, [FiguresNext]_figuresVars PROVE FiguresInv'
  OBVIOUS
<1>0. FiguresTyped
  BY DEF FiguresInv
<1>1. ASSUME NEW p \in Prices, NewClose(p) PROVE FiguresInv'
  <2>1. /\ UNCHANGED <<day, position, trades, opening, traded>>
        /\ snapshots'.dayStart = snapshots.dayStart
        /\ snapshots' \in [close : Nat, dayStart : Nat]
    BY <1>0, <1>1, FiguresAssumption DEF NewClose, FiguresTyped
  <2>2. FiguresTyped' /\ PaperAtMidnight' = PaperAtMidnight
    BY <1>0, <2>1 DEF FiguresTyped, PaperAtMidnight, IsNew, Paper
  <2> QED BY <2>1, <2>2 DEF FiguresInv, OpeningIsKnown
<1>2. ASSUME Midnight PROVE FiguresInv'
  <2>1. /\ day' = day + 1 /\ UNCHANGED position /\ opening' = TotalPnl
        /\ snapshots'.dayStart = snapshots.close
        /\ snapshots' \in [close : Nat, dayStart : Nat]
        /\ trades'.today = 0 /\ trades' \in [today : Int, fills : Nat]
    BY <1>0, <1>2 DEF Midnight, FiguresTyped
  <2>2. ~IsNew(position)'
    BY <1>0, <2>1 DEF IsNew, FiguresTyped
  <2>3. PaperAtMidnight' = Paper(snapshots.close)
    BY <2>1, <2>2 DEF PaperAtMidnight, Paper
  <2>4. Paper(snapshots.close) \in Int /\ position.realized \in Int
    BY <1>0, PaperType DEF FiguresTyped
  <2>5. opening' = position.realized + Paper(snapshots.close) /\ opening' \in Int
    BY <2>1, <2>4 DEF TotalPnl
  <2>6. FiguresTyped'
    BY <1>0, <2>1, <2>5 DEF FiguresTyped
  <2>7. opening' = position'.realized - trades'.today + PaperAtMidnight'
    BY <2>1, <2>3, <2>4, <2>5
  <2> QED BY <2>6, <2>7 DEF FiguresInv, OpeningIsKnown
<1>3. CASE UNCHANGED figuresVars
  BY <1>3 DEF figuresVars, FiguresInv, FiguresTyped, OpeningIsKnown, PaperAtMidnight, IsNew, Paper
<1> QED
  BY <1>1, <1>2, <1>3, FillsKeepFigures DEF FiguresNext

\* Whatever prices come, fills are made and days end, the card's profit of today
\* is what the total profit changed since midnight, until a position carried over
\* is traded (BotsService.list and its helpers).
THEOREM TodayCounts == FiguresSpec => []TodayIsTheChange
<1>1. FiguresInv => TodayIsTheChange
  <2> SUFFICES ASSUME FiguresInv, ~traded PROVE TodayPnl = TotalPnl - opening
    BY DEF TodayIsTheChange
  <2> DEFINE now == Paper(snapshots.close)
             before == Paper(snapshots.dayStart)
  <2>1. /\ now \in Int /\ before \in Int
        /\ position.realized \in Int /\ trades.today \in Int /\ opening \in Int
    BY PaperType DEF FiguresInv, FiguresTyped
  <2>2. opening = position.realized - trades.today + PaperAtMidnight
    BY DEF FiguresInv, OpeningIsKnown
  <2> HIDE DEF now, before
  <2>3. TodayPnl = trades.today + (IF IsNew(position) THEN now ELSE now - before)
    BY DEF TodayPnl, TodayUnrealized, now, before
  <2>4. TotalPnl = position.realized + now
    BY DEF TotalPnl, now
  <2>5. PaperAtMidnight = IF IsNew(position) THEN 0 ELSE before
    BY DEF PaperAtMidnight, before
  <2> QED BY <2>1, <2>2, <2>3, <2>4, <2>5
<1> QED
  BY FiguresStart, FiguresStep, <1>1, PTL DEF FiguresSpec

-----------------------------------------------------------------------------
(* TraderPages.  While a user has heard every answer, what the page tells of  *)
(* a bot is its status, or that it runs when it has been blocked, or nothing  *)
(* of it yet; and a button that is at work was offered by that.               *)

MakingPhases == {"posting", "created", "readying", "ready", "refused"}
PressType ==
  {NotPressed} \cup [phase : {"sent", "done", "refused"}, target : DOMAIN Transitions]
PagesTyped ==
  /\ made \in [BotName -> DOMAIN Transitions]
  /\ listed \in [BotName -> DOMAIN Transitions]
  /\ pressed \in [BotName -> PressType]
  /\ clicks \in [Click -> {NoClick} \cup [phase : MakingPhases, name : BotName]]
  /\ wizard \in [step : Int, chosen : BOOLEAN, name : BotName \cup {""}]

TellsTheTruth(n) ==
  \/ made[n] = StatusTold(n)
  \/ made[n] = "RISK_BLOCKED" /\ StatusTold(n) = "RUNNING"
  \/ StatusTold(n) \in {"none", "DRAFT"}
PageIsTrue == \A n \in BotName : n \notin unheard => TellsTheTruth(n)
PressedWasOffered ==
  \A n \in BotName : pressed[n].phase = "sent" => pressed[n].target \in Offered[listed[n]]
PagesInv == PagesTyped /\ DraftsAreCutShort /\ PageIsTrue /\ PressedWasOffered

LEMMA Statuses ==
  /\ DOMAIN Transitions
       = {"none", "DRAFT", "READY", "RUNNING", "PAUSED", "RISK_BLOCKED", "STOPPED"}
  /\ \A s \in DOMAIN Transitions : Transitions[s] \subseteq DOMAIN Transitions \ {"none", "DRAFT"}
  /\ \A s \in DOMAIN Transitions : Offered[s] \subseteq Transitions[s]
  /\ \A s \in DOMAIN Transitions : "RUNNING" \in Offered[s] => s \in {"READY", "PAUSED"}
BY DEF Transitions, Offered

LEMMA NotAtWork == NotPressed.phase = "idle" /\ NoClick.phase = "none"
BY DEF NotPressed, NoClick

LEMMA BlankType == Blank \in [step : Int, chosen : BOOLEAN, name : BotName \cup {""}]
BY DEF Blank

LEMMA PagesStart == PagesInit => PagesInv
<1> SUFFICES ASSUME PagesInit PROVE PagesInv
  OBVIOUS
<1>1. PagesTyped
  <2>1. made \in [BotName -> DOMAIN Transitions]
    BY Statuses DEF PagesInit
  <2>2. /\ pressed \in [BotName -> PressType]
        /\ clicks \in [Click -> {NoClick} \cup [phase : MakingPhases, name : BotName]]
    BY DEF PagesInit, PressType
  <2> QED BY <2>1, <2>2, BlankType DEF PagesInit, PagesTyped
<1>2. DraftsAreCutShort
  BY DEF PagesInit, DraftsAreCutShort
<1>3. PageIsTrue /\ PressedWasOffered
  BY NotAtWork DEF PagesInit, PageIsTrue, TellsTheTruth, PressedWasOffered, StatusTold
<1> QED
  BY <1>1, <1>2, <1>3 DEF PagesInv

\* The page rendered anew tells the truth of every bot, and the drafts whose
\* making it abandons are known.
LEMMA RenderedKeepsPages ==
  ASSUME PagesInv, NEW unfinished \in SUBSET Click, Rendered(unfinished),
         \A c \in Click \ unfinished : clicks[c].phase \notin {"created", "readying"}
  PROVE  PagesInv'
<1>1. PagesTyped /\ UNCHANGED made
  BY DEF PagesInv, Rendered
<1>2. PagesTyped'
  <2>1. /\ pressed' \in [BotName -> PressType]
        /\ clicks' \in [Click -> {NoClick} \cup [phase : MakingPhases, name : BotName]]
    BY DEF Rendered, PressType
  <2> QED BY <1>1, <2>1, BlankType DEF Rendered, PagesTyped
<1>3. DraftsAreCutShort'
  <2> SUFFICES ASSUME NEW n \in BotName, made[n] = "DRAFT" PROVE n \in cutShort'
    BY <1>1 DEF DraftsAreCutShort
  <2>1. CASE n \in cutShort
    BY <2>1 DEF Rendered
  <2>2. ASSUME NEW c \in Click, clicks[c] \in {Making("created", n), Making("readying", n)}
        PROVE  n \in cutShort'
    <3>1. clicks[c].phase \in {"created", "readying"} /\ clicks[c].name = n
      BY <2>2 DEF Making
    <3>2. n \in Broken(c) /\ c \in unfinished
      BY <3>1 DEF Broken
    <3> QED BY <3>2 DEF Rendered
  <2> QED BY <2>1, <2>2 DEF PagesInv, DraftsAreCutShort
<1>4. PageIsTrue' /\ PressedWasOffered'
  BY NotAtWork DEF Rendered, PageIsTrue, TellsTheTruth, PressedWasOffered, StatusTold
<1> QED
  BY <1>2, <1>3, <1>4 DEF PagesInv

\* A click moves on; a draft stays in the making, or is known to be cut short.
LEMMA ClicksKeepDrafts ==
  ASSUME PagesInv, NEW c \in Click, NEW click \in {NoClick} \cup [phase : MakingPhases, name : BotName],
         clicks' = [clicks EXCEPT ![c] = click],
         cutShort \subseteq cutShort',
         \A n \in BotName : made'[n] = "DRAFT" =>
           \/ made[n] = "DRAFT" /\ n \notin Broken(c)
           \/ n \in cutShort'
           \/ click \in {Making("created", n), Making("readying", n)}
  PROVE  DraftsAreCutShort'
<1>1. clicks'[c] = click /\ \A d \in Click \ {c} : clicks'[d] = clicks[d]
  BY DEF PagesInv, PagesTyped
<1> SUFFICES ASSUME NEW n \in BotName, made'[n] = "DRAFT", n \notin cutShort'
             PROVE  \E d \in Click : clicks'[d] \in {Making("created", n), Making("readying", n)}
  BY DEF DraftsAreCutShort
<1>2. CASE click \in {Making("created", n), Making("readying", n)}
  BY <1>1, <1>2
<1>3. CASE made[n] = "DRAFT" /\ n \notin Broken(c)
  <2>1. PICK d \in Click : clicks[d] \in {Making("created", n), Making("readying", n)}
    BY <1>3 DEF PagesInv, DraftsAreCutShort
  <2>2. clicks[d].phase \in {"created", "readying"} /\ clicks[d].name = n
    BY <2>1 DEF Making
  <2>3. d # c
    BY <1>3, <2>2 DEF Broken
  <2> QED BY <1>1, <2>1, <2>3
<1> QED
  BY <1>2, <1>3

\* The steps of a click that leave the buttons alone.
LEMMA ClicksKeepPages ==
  ASSUME PagesInv, NEW c \in Click, NEW click \in {NoClick} \cup [phase : MakingPhases, name : BotName],
         clicks' = [clicks EXCEPT ![c] = click],
         UNCHANGED <<listed, pressed, wizard, unheard>>,
         made' \in [BotName -> DOMAIN Transitions], DraftsAreCutShort',
         \A n \in BotName : made'[n] = made[n] \/ made[n] \in {"none", "DRAFT"}
  PROVE  PagesInv'
<1>1. PagesTyped'
  BY DEF PagesInv, PagesTyped
<1>2. PageIsTrue'
  <2> SUFFICES ASSUME NEW n \in BotName, n \notin unheard PROVE TellsTheTruth(n)'
    BY DEF PageIsTrue
  <2>1. TellsTheTruth(n) /\ StatusTold(n)' = StatusTold(n)
    BY DEF PagesInv, PageIsTrue, StatusTold
  <2>2. made[n] \in {"none", "DRAFT"} => StatusTold(n) \in {"none", "DRAFT"}
    BY <2>1 DEF TellsTheTruth
  <2> QED BY <2>1, <2>2 DEF TellsTheTruth
<1>3. PressedWasOffered'
  BY DEF PagesInv, PressedWasOffered
<1> QED
  BY <1>1, <1>2, <1>3 DEF PagesInv

LEMMA ClickStep ==
  ASSUME PagesInv, NEW c \in Click,
         \/ ClickCreate(c) \/ Create(c) \/ MakeReady(c) \/ RefuseMaking(c)
         \/ SendReady(c) \/ TellError(c) \/ LoseMaking(c)
  PROVE  PagesInv'
<1> DEFINE n == clicks[c].name
           ClickType == {NoClick} \cup [phase : MakingPhases, name : BotName]
<1>1. /\ made \in [BotName -> DOMAIN Transitions] /\ clicks \in [Click -> ClickType]
      /\ wizard.name \in BotName \cup {""}
  BY DEF PagesInv, PagesTyped
<1>2. clicks[c].phase \in MakingPhases => clicks[c] \in [phase : MakingPhases, name : BotName]
  BY <1>1, NotAtWork DEF MakingPhases
<1>3. \A phase, m : Making(phase, m) = [phase |-> phase, name |-> m]
  BY DEF Making
<1>4. \A m \in BotName : m \in Broken(c) <=> clicks[c].phase \in {"created", "readying"} /\ m = n
  BY DEF Broken
<1>5. CASE ClickCreate(c)
  <2>1. Making("posting", wizard.name) \in ClickType
    BY <1>1, <1>3, <1>5 DEF ClickCreate, MakingPhases
  <2>2. clicks' = [clicks EXCEPT ![c] = Making("posting", wizard.name)] /\ clicks[c] = NoClick
        /\ UNCHANGED <<made, listed, pressed, wizard, pageHistory>>
    BY <1>5 DEF ClickCreate, Follow
  <2>3. DraftsAreCutShort'
    BY <1>4, <2>1, <2>2, NotAtWork, ClicksKeepDrafts DEF pageHistory
  <2> QED BY <1>1, <2>1, <2>2, <2>3, ClicksKeepPages DEF pageHistory
<1>6. CASE Create(c)
  <2>1. /\ clicks[c].phase = "posting" /\ made[n] = "none" /\ made' = [made EXCEPT ![n] = "DRAFT"]
        /\ clicks' = [clicks EXCEPT ![c] = Making("created", n)]
        /\ UNCHANGED <<listed, pressed, wizard, pageHistory>>
    BY <1>6 DEF Create, Follow
  <2>2. n \in BotName
    BY <1>2, <2>1 DEF MakingPhases
  <2>3. Making("created", n) \in ClickType
    BY <1>3, <2>2 DEF MakingPhases
  <2>4. /\ made' \in [BotName -> DOMAIN Transitions]
        /\ \A m \in BotName : made'[m] = IF m = n THEN "DRAFT" ELSE made[m]
    BY <1>1, <2>1, Statuses
  <2> HIDE DEF n
  <2>5. DraftsAreCutShort'
    BY <1>4, <2>1, <2>3, <2>4, ClicksKeepDrafts DEF pageHistory
  <2> QED BY <2>1, <2>2, <2>3, <2>4, <2>5, ClicksKeepPages DEF pageHistory
<1>7. CASE MakeReady(c)
  <2>1. /\ clicks[c].phase = "readying" /\ made[n] = "DRAFT" /\ made' = [made EXCEPT ![n] = "READY"]
        /\ clicks' = [clicks EXCEPT ![c] = Making("ready", n)]
        /\ UNCHANGED <<listed, pressed, wizard, pageHistory>>
    BY <1>7 DEF MakeReady, Follow
  <2>2. n \in BotName
    BY <1>2, <2>1 DEF MakingPhases
  <2>3. Making("ready", n) \in ClickType
    BY <1>3, <2>2 DEF MakingPhases
  <2>4. /\ made' \in [BotName -> DOMAIN Transitions]
        /\ \A m \in BotName : made'[m] = IF m = n THEN "READY" ELSE made[m]
    BY <1>1, <2>1, Statuses
  <2> HIDE DEF n
  <2>5. DraftsAreCutShort'
    BY <1>4, <2>1, <2>3, <2>4, ClicksKeepDrafts DEF pageHistory
  <2> QED BY <2>1, <2>2, <2>3, <2>4, <2>5, ClicksKeepPages DEF pageHistory
<1>8. CASE RefuseMaking(c)
  <2>1. /\ clicks[c].phase \in {"posting", "readying"} /\ cutShort' = cutShort \cup Broken(c)
        /\ clicks' = [clicks EXCEPT ![c] = Making("refused", n)]
        /\ UNCHANGED <<made, listed, pressed, wizard, unheard>>
    BY <1>8 DEF RefuseMaking, Follow
  <2>2. n \in BotName
    BY <1>2, <2>1 DEF MakingPhases
  <2>3. Making("refused", n) \in ClickType
    BY <1>3, <2>2 DEF MakingPhases
  <2> HIDE DEF n
  <2>4. DraftsAreCutShort'
    BY <2>1, <2>3, ClicksKeepDrafts
  <2> QED BY <1>1, <2>1, <2>3, <2>4, ClicksKeepPages
<1>9. CASE SendReady(c)
  <2>1. /\ clicks[c].phase = "created"
        /\ clicks' = [clicks EXCEPT ![c] = Making("readying", n)]
        /\ UNCHANGED <<made, listed, pressed, wizard, pageHistory>>
    BY <1>9 DEF SendReady, Follow
  <2>2. n \in BotName
    BY <1>2, <2>1 DEF MakingPhases
  <2>3. Making("readying", n) \in ClickType
    BY <1>3, <2>2 DEF MakingPhases
  <2> HIDE DEF n
  <2>4. DraftsAreCutShort'
    BY <1>4, <2>1, <2>3, ClicksKeepDrafts DEF pageHistory
  <2> QED BY <1>1, <2>1, <2>3, <2>4, ClicksKeepPages DEF pageHistory
<1>10. CASE TellError(c)
  <2>1. /\ clicks[c].phase = "refused" /\ clicks' = [clicks EXCEPT ![c] = NoClick]
        /\ UNCHANGED <<made, listed, pressed, wizard, pageHistory>>
    BY <1>10 DEF TellError
  <2>2. DraftsAreCutShort'
    BY <1>4, <2>1, ClicksKeepDrafts DEF pageHistory
  <2> QED BY <1>1, <2>1, <2>2, ClicksKeepPages DEF pageHistory
<1>11. CASE LoseMaking(c)
  <2>1. /\ clicks' = [clicks EXCEPT ![c] = NoClick] /\ cutShort' = cutShort \cup Broken(c)
        /\ UNCHANGED <<made, listed, pressed, wizard, unheard>>
    BY <1>11 DEF LoseMaking
  <2>2. DraftsAreCutShort'
    BY <2>1, ClicksKeepDrafts
  <2> QED BY <1>1, <2>1, <2>2, ClicksKeepPages
<1> QED
  BY <1>5, <1>6, <1>7, <1>8, <1>9, <1>10, <1>11

\* The buttons.  A bot that is blocked after a pause or a stop is unheard of;
\* one whose change was answered is told.
LEMMA ButtonStep ==
  ASSUME PagesInv, NEW n \in BotName,
         \/ ChangeStatus(n) \/ RefuseChange(n) \/ RiskBlock(n)
         \/ TakeStatus(n) \/ LoseChange(n)
         \/ \E status \in DOMAIN Transitions : Press(n, status)
  PROVE  PagesInv'
<1> DEFINE Other == \A m \in BotName \ {n} :
                      /\ made'[m] = made[m] /\ listed'[m] = listed[m] /\ pressed'[m] = pressed[m]
                      /\ m \in unheard => m \in unheard'
           Framed == /\ UNCHANGED <<clicks, wizard, cutShort>>
                     /\ made' \in [BotName -> DOMAIN Transitions]
                     /\ listed' \in [BotName -> DOMAIN Transitions]
                     /\ pressed' \in [BotName -> PressType]
                     /\ made'[n] = "DRAFT" => made[n] = "DRAFT"
                     /\ Other
           Mine == /\ n \notin unheard' => TellsTheTruth(n)'
                   /\ pressed'[n].phase = "sent" => pressed'[n].target \in Offered[listed'[n]]
<1>0. /\ PagesTyped
      /\ n \notin unheard => TellsTheTruth(n)
      /\ pressed[n].phase = "sent" => pressed[n].target \in Offered[listed[n]]
      /\ pressed[n] \in PressType
  BY DEF PagesInv, PageIsTrue, PressedWasOffered, PagesTyped
<1>1. ASSUME Framed, Mine PROVE PagesInv'
  <2>1. PagesTyped'
    BY <1>0, <1>1 DEF PagesTyped
  <2>2. DraftsAreCutShort'
    BY <1>1 DEF PagesInv, DraftsAreCutShort
  <2>3. ASSUME NEW m \in BotName \ {n}, m \notin unheard' PROVE TellsTheTruth(m)'
    <3>1. made'[m] = made[m] /\ StatusTold(m)' = StatusTold(m) /\ TellsTheTruth(m)
      BY <1>1, <2>3 DEF StatusTold, PagesInv, PageIsTrue
    <3> QED BY <3>1 DEF TellsTheTruth
  <2>4. PageIsTrue' /\ PressedWasOffered'
    BY <1>1, <2>3 DEF PagesInv, PageIsTrue, PressedWasOffered
  <2> QED BY <2>1, <2>2, <2>4 DEF PagesInv
<1>2. \A phase \in {"sent", "done", "refused"} :
        pressed[n].phase \in {"sent", "done"} =>
          /\ [pressed[n] EXCEPT !.phase = phase] \in PressType
          /\ [pressed[n] EXCEPT !.phase = phase].phase = phase
          /\ [pressed[n] EXCEPT !.phase = phase].target = pressed[n].target
  BY <1>0, NotAtWork DEF PressType
<1>3. CASE ChangeStatus(n)
  <2>1. PICK p \in PressType :
          /\ p.phase = "done" /\ p.target = pressed[n].target
          /\ pressed' = [pressed EXCEPT ![n] = p]
    BY <1>2, <1>3 DEF ChangeStatus
  <2>2. /\ pressed[n].target \in Transitions[made[n]]
        /\ made' = [made EXCEPT ![n] = pressed[n].target]
        /\ UNCHANGED <<listed, wizard, clicks, pageHistory>>
    BY <1>3 DEF ChangeStatus
  <2>3. pressed[n].target \in DOMAIN Transitions \ {"none", "DRAFT"}
    BY <1>0, <2>2, Statuses DEF PagesTyped
  <2>4. Framed
    BY <1>0, <2>1, <2>2, <2>3 DEF PagesTyped, pageHistory
  <2>5. made'[n] = StatusTold(n)' /\ pressed'[n].phase = "done"
    BY <1>0, <2>1, <2>2 DEF StatusTold, PagesTyped
  <2> QED BY <1>1, <2>4, <2>5 DEF TellsTheTruth
<1>4. CASE RefuseChange(n)
  <2>1. PICK p \in PressType : p.phase = "refused" /\ pressed' = [pressed EXCEPT ![n] = p]
    BY <1>2, <1>4 DEF RefuseChange
  <2>2. UNCHANGED <<made, listed, wizard, clicks, pageHistory>> /\ pressed[n].phase = "sent"
    BY <1>4 DEF RefuseChange
  <2>3. Framed
    BY <1>0, <2>1, <2>2 DEF PagesTyped, pageHistory
  <2>4. StatusTold(n)' = StatusTold(n) /\ pressed'[n].phase = "refused"
    BY <1>0, <2>1, <2>2 DEF StatusTold, PagesTyped
  <2> QED BY <1>0, <1>1, <2>2, <2>3, <2>4 DEF TellsTheTruth, pageHistory
<1>5. CASE RiskBlock(n)
  <2>1. /\ made[n] \in {"RUNNING", "PAUSED", "STOPPED"} /\ made' = [made EXCEPT ![n] = "RISK_BLOCKED"]
        /\ unheard' = IF made[n] = "RUNNING" THEN unheard ELSE unheard \cup {n}
        /\ UNCHANGED <<listed, pressed, wizard, clicks, cutShort>>
    BY <1>5 DEF RiskBlock
  <2>2. Framed /\ made'[n] = "RISK_BLOCKED" /\ StatusTold(n)' = StatusTold(n)
    BY <1>0, <2>1, Statuses DEF PagesTyped, StatusTold
  <2> QED BY <1>0, <1>1, <2>1, <2>2 DEF TellsTheTruth
<1>6. CASE TakeStatus(n)
  <2>1. /\ listed' = [listed EXCEPT ![n] = StatusTold(n)]
        /\ pressed' = [pressed EXCEPT ![n] = NotPressed]
        /\ UNCHANGED <<made, wizard, clicks, pageHistory>>
    BY <1>6 DEF TakeStatus
  <2>2. StatusTold(n) \in DOMAIN Transitions /\ NotPressed \in PressType
    <3>1. NotPressed \in PressType
      BY DEF PressType
    <3>2. pressed[n].phase = "done" => pressed[n].target \in DOMAIN Transitions
      BY <1>0, NotAtWork DEF PressType
    <3> QED BY <1>0, <3>1, <3>2 DEF StatusTold, PagesTyped
  <2>3. pressed'[n] = NotPressed /\ listed'[n] = StatusTold(n)
    BY <1>0, <2>1 DEF PagesTyped
  <2>4. Framed
    BY <1>0, <2>1, <2>2 DEF PagesTyped, pageHistory
  <2>5. StatusTold(n)' = StatusTold(n) /\ pressed'[n].phase = "idle"
    BY <2>3, NotAtWork DEF StatusTold
  <2> QED BY <1>0, <1>1, <2>1, <2>4, <2>5 DEF TellsTheTruth, pageHistory
<1>7. CASE LoseChange(n)
  <2>1. PICK p \in PressType : p.phase = "refused" /\ pressed' = [pressed EXCEPT ![n] = p]
    BY <1>2, <1>7 DEF LoseChange
  <2>2. /\ pressed[n].phase \in {"sent", "done"}
        /\ unheard' = IF pressed[n].phase = "done" THEN unheard \cup {n} ELSE unheard
        /\ UNCHANGED <<made, listed, wizard, clicks, cutShort>>
    BY <1>7 DEF LoseChange
  <2>3. Framed
    BY <1>0, <2>1, <2>2 DEF PagesTyped
  <2>4. pressed'[n].phase = "refused" /\ (pressed[n].phase = "sent" => StatusTold(n)' = StatusTold(n))
    BY <1>0, <2>1, <2>2 DEF StatusTold, PagesTyped
  <2> QED BY <1>0, <1>1, <2>2, <2>3, <2>4 DEF TellsTheTruth
<1>8. ASSUME NEW status \in DOMAIN Transitions, Press(n, status) PROVE PagesInv'
  <2> DEFINE p == [phase |-> "sent", target |-> status]
  <2>1. /\ pressed[n].phase = "idle" /\ status \in Offered[listed[n]]
        /\ pressed' = [pressed EXCEPT ![n] = p]
        /\ UNCHANGED <<made, listed, wizard, clicks, pageHistory>>
    BY <1>8 DEF Press
  <2>2. p \in PressType /\ p.phase = "sent" /\ p.target = status
    BY DEF PressType
  <2> HIDE DEF p
  <2>3. Framed /\ pressed'[n] = p
    BY <1>0, <2>1, <2>2 DEF PagesTyped, pageHistory
  <2>4. StatusTold(n)' = StatusTold(n)
    BY <2>1, <2>2, <2>3 DEF StatusTold
  <2> QED BY <1>0, <1>1, <2>1, <2>2, <2>3, <2>4 DEF TellsTheTruth, pageHistory
<1> QED
  BY <1>3, <1>4, <1>5, <1>6, <1>7, <1>8

LEMMA PagesStep == PagesInv /\ [PagesNext]_pageVars => PagesInv'
<1> SUFFICES ASSUME PagesInv, [PagesNext]_pageVars PROVE PagesInv'
  OBVIOUS
<1>1. ASSUME UNCHANGED <<made, listed, pressed, clicks, pageHistory>>,
             wizard' \in [step : Int, chosen : BOOLEAN, name : BotName \cup {""}]
      PROVE  PagesInv'
  BY <1>1 DEF PagesInv, PagesTyped, DraftsAreCutShort, PageIsTrue, TellsTheTruth,
              PressedWasOffered, StatusTold, pageHistory
<1>2. ASSUME \/ ChooseStrategy \/ NextStep \/ PreviousStep
             \/ \E n \in BotName : NameBot(n)
      PROVE  PagesInv'
  <2>1. wizard \in [step : Int, chosen : BOOLEAN, name : BotName \cup {""}]
    BY DEF PagesInv, PagesTyped
  <2>2. wizard' \in [step : Int, chosen : BOOLEAN, name : BotName \cup {""}]
    <3>1. CASE ChooseStrategy
      BY <2>1, <3>1 DEF ChooseStrategy, FillForm
    <3>2. CASE NextStep
      <4> DEFINE step == wizard.step + 1
      <4>1. step \in Int
        <5>1. wizard.step \in Int
          BY <2>1
        <5> QED BY <5>1
      <4>2. wizard' = [wizard EXCEPT !.step = step]
        BY <3>2 DEF NextStep, FillForm
      <4> HIDE DEF step
      <4> QED BY <2>1, <4>1, <4>2
    <3>3. CASE PreviousStep
      <4> DEFINE step == wizard.step - 1
      <4>1. step \in Int
        <5>1. wizard.step \in Int
          BY <2>1
        <5> QED BY <5>1
      <4>2. wizard' = [wizard EXCEPT !.step = step]
        BY <3>3 DEF PreviousStep, FillForm
      <4> HIDE DEF step
      <4> QED BY <2>1, <4>1, <4>2
    <3>4. ASSUME NEW n \in BotName, NameBot(n) PROVE wizard' \in [step : Int, chosen : BOOLEAN, name : BotName \cup {""}]
      BY <2>1, <3>4 DEF NameBot, FillForm
    <3> QED BY <1>2, <3>1, <3>2, <3>3, <3>4
  <2>3. UNCHANGED <<made, listed, pressed, clicks, pageHistory>>
    BY <1>2 DEF ChooseStrategy, NextStep, PreviousStep, NameBot, FillForm
  <2> QED BY <1>1, <2>2, <2>3
<1>3. ASSUME NEW c \in Click, Reload(c) PROVE PagesInv'
  <2>1. Rendered(Click \ {c}) /\ clicks[c].phase = "ready"
    BY <1>3 DEF Reload
  <2> QED BY <2>1, RenderedKeepsPages
<1>4. CASE ComeBack
  BY <1>4, RenderedKeepsPages DEF ComeBack
<1>5. CASE UNCHANGED pageVars
  <2>1. PagesTyped
    BY DEF PagesInv
  <2> QED BY <1>1, <1>5, <2>1 DEF pageVars, PagesTyped
<1> QED
  BY <1>2, <1>3, <1>4, <1>5, ClickStep, ButtonStep DEF PagesNext

\* In any use of the page, by any number of clicks, a bot stays a DRAFT only when
\* its making was broken off (bot-create-wizard.tsx: create).
THEOREM DraftsAreFinished == PagesSpec => []DraftsAreCutShort
<1>1. PagesInv => DraftsAreCutShort
  BY DEF PagesInv
<1> QED
  BY PagesStart, PagesStep, <1>1, PTL DEF PagesSpec

\* A user who has heard every answer does not lift a block: the button that
\* resumes was offered by a page that told of a pause, and a block after a pause
\* is unheard of (bot-controls.tsx: update).
THEOREM BlocksStayUnlessUnseen == PagesSpec => BlocksAreNotLiftedUnseen
<1> DEFINE Lifted(n) == made[n] = "RISK_BLOCKED" /\ made'[n] = "RUNNING"
<1>1. ASSUME PagesInv, PagesNext, NEW n \in BotName, Lifted(n) PROVE n \in unheard
  <2>1. PagesTyped
    BY <1>1 DEF PagesInv
  <2>2. ChangeStatus(n)
    <3>1. ASSUME UNCHANGED made PROVE FALSE
      BY <1>1, <3>1
    <3>2. ASSUME NEW c \in Click, Create(c) \/ MakeReady(c) PROVE FALSE
      BY <1>1, <2>1, <3>2 DEF Create, MakeReady, PagesTyped
    <3>3. ASSUME NEW m \in BotName, RiskBlock(m) PROVE FALSE
      BY <1>1, <2>1, <3>3 DEF RiskBlock, PagesTyped
    <3>4. ASSUME NEW m \in BotName, ChangeStatus(m) PROVE m = n
      BY <1>1, <2>1, <3>4 DEF ChangeStatus, PagesTyped
    <3>5. ASSUME NEW c \in Click,
                 \/ ClickCreate(c) \/ RefuseMaking(c) \/ SendReady(c) \/ TellError(c) \/ LoseMaking(c)
                 \/ Reload(c)
          PROVE  FALSE
      BY <3>1, <3>5 DEF ClickCreate, RefuseMaking, SendReady, TellError, LoseMaking, Reload, Rendered
    <3>6. ASSUME NEW m \in BotName,
                 \/ RefuseChange(m) \/ TakeStatus(m) \/ LoseChange(m)
                 \/ \E status \in DOMAIN Transitions : Press(m, status)
          PROVE  FALSE
      BY <3>1, <3>6 DEF RefuseChange, TakeStatus, LoseChange, Press
    <3>7. ASSUME \/ ChooseStrategy \/ NextStep \/ PreviousStep \/ ComeBack
                 \/ \E m \in BotName : NameBot(m)
          PROVE  FALSE
      BY <3>1, <3>7 DEF ChooseStrategy, NextStep, PreviousStep, NameBot, FillForm, ComeBack, Rendered
    <3> QED BY <1>1, <3>2, <3>3, <3>4, <3>5, <3>6, <3>7 DEF PagesNext
  <2>3. pressed[n].phase = "sent" /\ pressed[n].target = "RUNNING"
    BY <1>1, <2>1, <2>2 DEF ChangeStatus, PagesTyped
  <2>4. listed[n] \in {"READY", "PAUSED"}
    <3>1. "RUNNING" \in Offered[listed[n]]
      BY <1>1, <2>3 DEF PagesInv, PressedWasOffered
    <3>2. listed[n] \in DOMAIN Transitions
      BY <2>1 DEF PagesTyped
    <3> QED BY <3>1, <3>2, Statuses
  <2>5. StatusTold(n) = listed[n]
    BY <2>3 DEF StatusTold
  <2> QED BY <1>1, <2>4, <2>5 DEF PagesInv, PageIsTrue, TellsTheTruth
<1>2. PagesInv /\ [PagesNext]_pageVars => [\A n \in BotName : Lifted(n) => n \in unheard]_pageVars
  BY <1>1
<1> QED
  BY PagesStart, PagesStep, <1>2, PTL DEF PagesSpec, BlocksAreNotLiftedUnseen

-----------------------------------------------------------------------------
(* ApiGate.  A counter that expires was given its expiry by the request that  *)
(* made it 1 and passed then, so that the key passed no earlier than a window *)
(* before the expiry; a counter that does not expire belongs to a request     *)
(* whose EXPIRE is under way, or is lost.                                     *)

CallsTyped ==
  /\ DOMAIN calls = Calls
  /\ \A c \in Calls :
       /\ calls[c].phase \in {"arrived", "first"} => calls[c].key \in Keys
       /\ calls[c].phase = "first" => calls[c].count = 1
GateTyped ==
  /\ ticks \in Nat
  /\ buckets \in [Keys -> [count : Nat, expires : Nat \cup {NoTick}]]
  /\ lastPass \in [Keys -> Nat \cup {NoTick}]
  /\ calls = [c \in Calls |-> calls[c]] /\ CallsTyped

ExpiryIsEarned(k) ==
  buckets[k].expires # NoTick =>
    /\ ticks < buckets[k].expires
    /\ Window =< buckets[k].expires /\ buckets[k].expires =< ticks + Window
    /\ lastPass[k] >= buckets[k].expires - Window
CountersExpire(k) ==
  k \notin lost /\ buckets[k].count > 0 =>
    \/ buckets[k].expires # NoTick
    \/ \E c \in Calls : At(c, "first") /\ calls[c].key = k
ApiInv ==
  /\ GateTyped
  /\ \A k \in Keys : ExpiryIsEarned(k) /\ CountersExpire(k)
  /\ RefusalsAreEarned

LEMMA GateConstants ==
  /\ Window \in Nat \ {0} /\ MaxRequests \in Nat \ {0}
  /\ NoTick \notin Nat /\ NoTick \in Int /\ NoTick < 0
BY GateAssumption DEF NoTick

LEMMA ApiStart == ApiInit => ApiInv
<1> SUFFICES ASSUME ApiInit PROVE ApiInv
  OBVIOUS
<1>1. \A c \in Calls : calls[c].phase = "idle"
  BY DEF ApiInit, IdleCall
<1>2. \A k \in Keys : buckets[k].count = 0 /\ buckets[k].expires = NoTick
  BY DEF ApiInit, NoKey
<1>3. NoKey \in [count : Nat, expires : Nat \cup {NoTick}]
  BY DEF NoKey
<1>4. GateTyped
  BY <1>1, <1>3 DEF GateTyped, CallsTyped, ApiInit
<1>5. \A k \in Keys : ExpiryIsEarned(k) /\ CountersExpire(k)
  BY <1>2 DEF ExpiryIsEarned, CountersExpire
<1>6. RefusalsAreEarned
  BY <1>1 DEF RefusalsAreEarned, At
<1> QED
  BY <1>4, <1>5, <1>6 DEF ApiInv

\* What is true of a counter after a call has become call2: it expires, or it
\* belongs to another request as before, or to this one from now on.
CounterKept(k, c, call2) ==
  k \notin lost' /\ buckets'[k].count > 0 =>
    \/ buckets'[k].expires # NoTick
    \/ /\ CountersExpire(k) /\ buckets[k].expires = NoTick /\ buckets[k].count > 0
       /\ k \notin lost /\ ~(At(c, "first") /\ calls[c].key = k)
    \/ call2.phase = "first" /\ call2.key = k

\* What a step of one call must keep, when it is not the EXPIRE of its key.
LEMMA CallMoves ==
  ASSUME ApiInv, NEW c \in Calls, NEW call2, calls' = [calls EXCEPT ![c] = call2],
         call2.phase \in {"arrived", "first"} => call2.key \in Keys,
         call2.phase = "first" => call2.count = 1,
         call2.phase = "refused" /\ ~call2.unset /\ ~call2.endless =>
           call2.last # NoTick /\ call2.at - call2.last < Window,
         UNCHANGED ticks,
         buckets' \in [Keys -> [count : Nat, expires : Nat \cup {NoTick}]],
         lastPass' \in [Keys -> Nat \cup {NoTick}],
         \A k \in Keys : ExpiryIsEarned(k)',
         \A k \in Keys : CounterKept(k, c, call2)
  PROVE  ApiInv'
<1>1. DOMAIN calls = Calls /\ calls'[c] = call2 /\ \A d \in Calls \ {c} : calls'[d] = calls[d]
  BY DEF ApiInv, GateTyped, CallsTyped
<1>2. GateTyped'
  BY <1>1 DEF ApiInv, GateTyped, CallsTyped
<1>3. RefusalsAreEarned'
  BY <1>1 DEF ApiInv, RefusalsAreEarned, At
<1>4. ASSUME NEW k \in Keys PROVE CountersExpire(k)'
  <2> SUFFICES ASSUME k \notin lost', buckets'[k].count > 0, buckets'[k].expires = NoTick
               PROVE  \E d \in Calls : At(d, "first")' /\ calls'[d].key = k
    BY DEF CountersExpire
  <2>1. CASE call2.phase = "first" /\ call2.key = k
    BY <1>1, <2>1 DEF At
  <2>2. CASE /\ CountersExpire(k) /\ buckets[k].expires = NoTick /\ buckets[k].count > 0
             /\ k \notin lost /\ ~(At(c, "first") /\ calls[c].key = k)
    <3>1. PICK d \in Calls : At(d, "first") /\ calls[d].key = k
      BY <2>2 DEF CountersExpire
    <3> QED BY <1>1, <2>2, <3>1 DEF At
  <2> QED BY <2>1, <2>2 DEF CounterKept
<1> QED
  BY <1>2, <1>3, <1>4 DEF ApiInv

\* A verdict that refuses, on a count that was not the first: the key passed
\* less than a window ago, or an EXPIRE is under way or lost.
LEMMA RefusedInWindow ==
  ASSUME ApiInv, NEW k \in Keys, buckets[k].count > 0, k \notin lost,
         ~(/\ buckets[k].expires = NoTick
           /\ \E o \in Calls : At(o, "first") /\ calls[o].key = k)
  PROVE  lastPass[k] # NoTick /\ ticks - lastPass[k] < Window
<1>1. /\ ExpiryIsEarned(k) /\ CountersExpire(k) /\ ticks \in Nat
      /\ buckets[k].expires \in Nat \cup {NoTick} /\ lastPass[k] \in Nat \cup {NoTick}
  BY DEF ApiInv, GateTyped
<1>2. buckets[k].expires # NoTick
  BY <1>1 DEF CountersExpire
<1> QED
  BY <1>1, <1>2, GateConstants DEF ExpiryIsEarned

\* The steps that do not touch the limiter.
LEMMA OthersKeepApi ==
  ASSUME ApiInv, NEW c \in Calls, NEW call2, calls' = [calls EXCEPT ![c] = call2],
         call2.phase \notin {"first", "refused"}, call2.phase = "arrived" => call2.key \in Keys,
         calls[c].phase # "first",
         UNCHANGED <<ticks, buckets, lastPass, lost>>
  PROVE  ApiInv'
<1>1. \A k \in Keys : ExpiryIsEarned(k)' /\ CountersExpire(k)
  BY DEF ApiInv, ExpiryIsEarned
<1>2. /\ buckets' \in [Keys -> [count : Nat, expires : Nat \cup {NoTick}]]
      /\ lastPass' \in [Keys -> Nat \cup {NoTick}]
  BY DEF ApiInv, GateTyped
<1>3. \A k \in Keys : CounterKept(k, c, call2)
  BY <1>1 DEF CounterKept, At
<1> QED
  BY <1>1, <1>2, <1>3, CallMoves

LEMMA CountStep ==
  ASSUME ApiInv, NEW c \in Calls, Count(c)
  PROVE  ApiInv'
<1> DEFINE key == calls[c].key
           count == buckets[key].count + 1
<1>1. /\ calls[c].phase = "arrived" /\ UNCHANGED <<ticks, lost>>
      /\ key \in Keys /\ DOMAIN calls = Calls
  BY DEF Count, At, ApiInv, GateTyped, CallsTyped
<1>2. /\ buckets \in [Keys -> [count : Nat, expires : Nat \cup {NoTick}]]
      /\ lastPass \in [Keys -> Nat \cup {NoTick}] /\ ticks \in Nat
      /\ \A k \in Keys : ExpiryIsEarned(k) /\ CountersExpire(k)
  BY DEF ApiInv, GateTyped
<1>3. CASE Unavailable(c) /\ UNCHANGED buckets
  <2>1. PICK r : /\ calls' = [calls EXCEPT ![c] = r] /\ r.phase \in {"answered", "passed"}
                 /\ UNCHANGED lastPass
    BY <1>3 DEF Unavailable, Status, Become
  <2> QED BY <1>1, <1>3, <2>1, OthersKeepApi
<1>4. CASE /\ buckets' = [buckets EXCEPT ![key].count = count]
           /\ IF IsFirst(count)
              THEN /\ Become(c, [phase |-> "first", key |-> key, count |-> count])
                   /\ UNCHANGED lastPass
              ELSE Judge(c, key, count)
  <2>1. count \in Nat /\ count > 0 /\ (count # 1 => buckets[key].count > 0)
    BY <1>1, <1>2
  <2> HIDE DEF key, count
  <2>2. /\ buckets' \in [Keys -> [count : Nat, expires : Nat \cup {NoTick}]]
        /\ \A k \in Keys : /\ buckets'[k].expires = buckets[k].expires
                           /\ k # key => buckets'[k].count = buckets[k].count
    BY <1>1, <1>2, <1>4, <2>1
  <2>3. ~(At(c, "first"))
    BY <1>1 DEF At
  <2>4. CASE count = 1
    <3>1. PICK r : /\ calls' = [calls EXCEPT ![c] = r] /\ UNCHANGED lastPass
                   /\ r = [phase |-> "first", key |-> key, count |-> count]
      BY <1>4, <2>4 DEF IsFirst, Become
    <3>2. r.phase = "first" /\ r.key = key /\ r.count = 1
      BY <2>4, <3>1
    <3>3. \A k \in Keys : ExpiryIsEarned(k)'
      BY <1>1, <1>2, <2>2, <3>1 DEF ExpiryIsEarned
    <3>4. \A k \in Keys : CounterKept(k, c, r)
      <4>1. \A k \in Keys \ {key} : /\ buckets'[k].expires = buckets[k].expires
                                   /\ buckets'[k].count = buckets[k].count
        BY <2>2
      <4>2. \A k \in Keys : CountersExpire(k)
        BY <1>2
      <4> QED BY <1>1, <2>3, <3>2, <4>1, <4>2 DEF CounterKept
    <3>5. /\ r.phase \in {"arrived", "first"} => r.key \in Keys
          /\ r.phase = "first" => r.count = 1
          /\ r.phase # "refused"
      BY <1>1, <3>2
    <3>6. /\ UNCHANGED ticks
          /\ buckets' \in [Keys -> [count : Nat, expires : Nat \cup {NoTick}]]
          /\ lastPass' \in [Keys -> Nat \cup {NoTick}]
      BY <1>1, <1>2, <2>2, <3>1
    <3> QED BY <3>1, <3>3, <3>4, <3>5, <3>6, CallMoves
  <2>5. CASE count # 1 /\ count > MaxRequests
    <3> DEFINE r == [phase |-> "refused", last |-> lastPass[key], at |-> ticks,
                     endless |-> key \in lost,
                     unset |-> /\ buckets[key].expires = NoTick
                               /\ \E o \in Calls \ {c} : At(o, "first") /\ calls[o].key = key]
    <3>1. calls' = [calls EXCEPT ![c] = r] /\ UNCHANGED lastPass
      BY <1>4, <2>5 DEF IsFirst, Judge, Become
    <3>2. /\ r.phase = "refused" /\ r.last = lastPass[key] /\ r.at = ticks
          /\ r.endless <=> key \in lost
          /\ r.unset <=> /\ buckets[key].expires = NoTick
                         /\ \E o \in Calls \ {c} : At(o, "first") /\ calls[o].key = key
      OBVIOUS
    <3> HIDE DEF r
    <3>3. \A k \in Keys : ExpiryIsEarned(k)'
      BY <1>1, <1>2, <2>2, <3>1 DEF ExpiryIsEarned
    <3>4. ~r.unset /\ ~r.endless => r.last # NoTick /\ r.at - r.last < Window
      <4>1. ~r.unset => ~(/\ buckets[key].expires = NoTick
                          /\ \E o \in Calls : At(o, "first") /\ calls[o].key = key)
        BY <2>3, <3>2
      <4>2. key \in Keys /\ buckets[key].count > 0
        BY <1>1, <2>1, <2>5 DEF key
      <4> QED BY <3>2, <4>1, <4>2, RefusedInWindow
    <3>5. \A k \in Keys : CounterKept(k, c, r)
      BY <1>1, <1>2, <2>1, <2>2, <2>3, <2>5 DEF CounterKept
    <3> QED BY <1>1, <1>2, <2>2, <3>1, <3>2, <3>3, <3>4, <3>5, CallMoves
  <2>6. CASE count # 1 /\ ~(count > MaxRequests)
    <3>1. PICK r : /\ calls' = [calls EXCEPT ![c] = r] /\ r.phase = "passed"
                   /\ lastPass' = [lastPass EXCEPT ![key] = ticks]
      BY <1>4, <2>6 DEF IsFirst, Judge, Become
    <3>2. lastPass' \in [Keys -> Nat \cup {NoTick}]
      BY <1>2, <3>1
    <3>3. ASSUME NEW k \in Keys PROVE ExpiryIsEarned(k)'
      <4>2. ASSUME buckets[k].expires # NoTick PROVE lastPass'[k] >= buckets[k].expires - Window
        <5>1. /\ lastPass[k] >= buckets[k].expires - Window /\ ticks < buckets[k].expires
              /\ buckets[k].expires \in Nat /\ buckets[k].expires =< ticks + Window
          BY <1>2, <4>2, GateConstants DEF ExpiryIsEarned
        <5>2. lastPass'[k] = IF k = key THEN ticks ELSE lastPass[k]
          BY <1>2, <3>1
        <5> QED BY <1>2, <5>1, <5>2, GateConstants
      <4> QED BY <1>1, <1>2, <2>2, <4>2 DEF ExpiryIsEarned
    <3>4. \A k \in Keys : CounterKept(k, c, r)
      BY <1>1, <1>2, <2>1, <2>2, <2>3, <2>6 DEF CounterKept
    <3> QED BY <1>1, <1>2, <2>2, <3>1, <3>2, <3>3, <3>4, CallMoves
  <2> QED BY <2>4, <2>5, <2>6
<1> QED
  BY <1>3, <1>4 DEF Count

\* An EXPIRE that takes effect, heard or not.
LEMMA ExpiryGiven ==
  ASSUME ApiInv, NEW c \in Calls, calls[c].phase = "first", NEW call2,
         calls' = [calls EXCEPT ![c] = call2], call2.phase = "passed" \/ call2 = calls[c],
         GiveExpiry(calls[c].key), lastPass' = [lastPass EXCEPT ![calls[c].key] = ticks],
         UNCHANGED ticks
  PROVE  ApiInv'
<1> DEFINE key == calls[c].key
           expiry == ticks + Window
<1>1. key \in Keys /\ calls[c].count = 1
  BY DEF At, ApiInv, GateTyped, CallsTyped
<1>2. /\ buckets \in [Keys -> [count : Nat, expires : Nat \cup {NoTick}]]
      /\ lastPass \in [Keys -> Nat \cup {NoTick}] /\ ticks \in Nat
      /\ \A k \in Keys : ExpiryIsEarned(k) /\ CountersExpire(k)
  BY DEF ApiInv, GateTyped
<1>3. /\ expiry \in Nat /\ ticks < expiry /\ Window =< expiry /\ ticks >= expiry - Window
      /\ expiry =< ticks + Window
  BY <1>2, GateConstants
<1>4. \/ /\ Exists(key) /\ buckets' = [buckets EXCEPT ![key].expires = expiry]
         /\ lost' = lost \ {key}
      \/ ~Exists(key) /\ UNCHANGED <<buckets, lost>>
  BY DEF GiveExpiry
<1> HIDE DEF key, expiry
<1>5. /\ buckets' \in [Keys -> [count : Nat, expires : Nat \cup {NoTick}]]
      /\ \A k \in Keys : /\ buckets'[k].count = buckets[k].count
                         /\ \/ buckets'[k].expires = buckets[k].expires
                            \/ k = key /\ buckets'[k].expires = expiry
  BY <1>1, <1>2, <1>3, <1>4
<1>6. /\ lastPass' \in [Keys -> Nat \cup {NoTick}]
      /\ \A k \in Keys : lastPass'[k] = IF k = key THEN ticks ELSE lastPass[k]
  BY <1>2 DEF key
<1>7. ASSUME NEW k \in Keys PROVE ExpiryIsEarned(k)'
  <2>1. CASE buckets'[k].expires = buckets[k].expires
    <3>1. CASE buckets[k].expires = NoTick
      BY <2>1, <3>1 DEF ExpiryIsEarned
    <3>2. CASE buckets[k].expires # NoTick
      <4>1. /\ lastPass[k] >= buckets[k].expires - Window /\ ticks < buckets[k].expires
            /\ Window =< buckets[k].expires
            /\ buckets[k].expires \in Nat /\ buckets[k].expires =< ticks + Window
        BY <1>2, <3>2, GateConstants DEF ExpiryIsEarned
      <4>2. lastPass'[k] >= buckets[k].expires - Window
        BY <1>2, <1>6, <4>1, GateConstants
      <4> QED BY <2>1, <4>1, <4>2 DEF ExpiryIsEarned
    <3> QED BY <3>1, <3>2
  <2>2. CASE k = key /\ buckets'[k].expires = expiry
    BY <1>3, <1>6, <2>2 DEF ExpiryIsEarned
  <2> QED BY <1>5, <2>1, <2>2
<1>8. ASSUME NEW k \in Keys PROVE CounterKept(k, c, call2)
  <2>1. CASE k = key
    <3>1. CASE Exists(key)
      <4>1. buckets'[key].expires = expiry /\ expiry # NoTick
        BY <1>1, <1>2, <1>3, <1>4, <3>1 DEF NoTick
      <4> QED BY <2>1, <4>1 DEF CounterKept
    <3>2. CASE ~Exists(key)
      BY <1>2, <1>5, <2>1, <3>2 DEF CounterKept, Exists
    <3> QED BY <3>1, <3>2
  <2>2. CASE k # key
    BY <1>2, <1>4, <1>5, <2>2 DEF CounterKept, key
  <2> QED BY <2>1, <2>2
<1>9. /\ call2.phase \in {"arrived", "first"} => call2.key \in Keys
      /\ call2.phase = "first" => call2.count = 1
      /\ call2.phase # "refused"
  BY <1>1 DEF key
<1> QED
  BY <1>5, <1>6, <1>7, <1>8, <1>9, CallMoves

LEMMA ExpireStep ==
  ASSUME ApiInv, NEW c \in Calls, Expire(c)
  PROVE  ApiInv'
<1> DEFINE key == calls[c].key
<1>1. /\ calls[c].phase = "first" /\ calls[c].count = 1 /\ UNCHANGED ticks
      /\ key \in Keys /\ DOMAIN calls = Calls
  BY DEF Expire, At, ApiInv, GateTyped, CallsTyped
<1>2. /\ buckets \in [Keys -> [count : Nat, expires : Nat \cup {NoTick}]]
      /\ lastPass \in [Keys -> Nat \cup {NoTick}] /\ ticks \in Nat
      /\ \A k \in Keys : ExpiryIsEarned(k) /\ CountersExpire(k)
  BY DEF ApiInv, GateTyped
<1>3. CASE GiveExpiry(key) /\ Judge(c, key, calls[c].count)
  <2>1. PICK r : /\ calls' = [calls EXCEPT ![c] = r] /\ r.phase = "passed"
                 /\ lastPass' = [lastPass EXCEPT ![key] = ticks]
    BY <1>1, <1>3, GateConstants DEF Judge, Become
  <2> QED BY <1>1, <1>3, <2>1, ExpiryGiven
<1>4. CASE /\ Unavailable(c) /\ lost' = lost \cup {k \in {key} : Endless(k)}
           /\ UNCHANGED buckets
  <2>1. PICK r : /\ calls' = [calls EXCEPT ![c] = r] /\ r.phase \in {"answered", "passed"}
                 /\ UNCHANGED lastPass
    BY <1>4 DEF Unavailable, Status, Become
  <2>2. \A k \in Keys : ExpiryIsEarned(k)'
    BY <1>1, <1>2, <1>4, <2>1 DEF ExpiryIsEarned
  <2>3. \A k \in Keys : CounterKept(k, c, r)
    BY <1>2, <1>4 DEF CounterKept, Endless, Exists
  <2> QED BY <1>1, <1>2, <1>4, <2>1, <2>2, <2>3, CallMoves
<1> QED
  BY <1>3, <1>4 DEF Expire

\* The command takes effect and its answer is lost.
LEMMA UnheardStep ==
  ASSUME ApiInv, NEW c \in Calls, CountUnheard(c) \/ ExpireUnheard(c)
  PROVE  ApiInv'
<1>1. /\ calls' = [calls EXCEPT ![c] = calls[c]] /\ UNCHANGED <<ticks, calls>>
      /\ calls[c].phase \in {"arrived", "first"} => calls[c].key \in Keys
      /\ calls[c].phase = "first" => calls[c].count = 1
  BY DEF CountUnheard, ExpireUnheard, At, ApiInv, GateTyped, CallsTyped
<1>2. /\ buckets \in [Keys -> [count : Nat, expires : Nat \cup {NoTick}]]
      /\ lastPass \in [Keys -> Nat \cup {NoTick}] /\ ticks \in Nat
      /\ \A k \in Keys : ExpiryIsEarned(k) /\ CountersExpire(k)
  BY DEF ApiInv, GateTyped
<1>3. CASE CountUnheard(c)
  <2> DEFINE key == calls[c].key
  <2>1. /\ calls[c].phase = "arrived" /\ key \in Keys /\ UNCHANGED lastPass
        /\ buckets' = [buckets EXCEPT ![key].count = @ + 1]
        /\ lost' = lost \cup {k \in {key} : ~Exists(k)}
    BY <1>1, <1>3 DEF CountUnheard, At
  <2> HIDE DEF key
  <2>2. /\ buckets' \in [Keys -> [count : Nat, expires : Nat \cup {NoTick}]]
        /\ \A k \in Keys : /\ buckets'[k].expires = buckets[k].expires
                           /\ k # key => buckets'[k].count = buckets[k].count
    BY <1>2, <2>1
  <2>3. \A k \in Keys : ExpiryIsEarned(k)'
    BY <1>1, <1>2, <2>1, <2>2 DEF ExpiryIsEarned
  <2>4. ASSUME NEW k \in Keys PROVE CounterKept(k, c, calls[c])
    <3>1. CASE k = key
      <4>1. k \notin lost' => k \notin lost /\ buckets[k].count > 0
        BY <2>1, <3>1 DEF Exists
      <4> QED BY <1>2, <2>1, <2>2, <4>1 DEF CounterKept, At
    <3>2. CASE k # key
      BY <1>2, <2>1, <2>2, <3>2 DEF CounterKept, At
    <3> QED BY <3>1, <3>2
  <2> QED BY <1>1, <1>2, <2>1, <2>2, <2>3, <2>4, CallMoves
<1>4. CASE ExpireUnheard(c)
  BY <1>1, <1>4, ExpiryGiven DEF ExpireUnheard, At
<1> QED
  BY <1>3, <1>4

\* The requests of the process are gone; the keys they were about to give an
\* expiry are lost.
LEMMA RestartStep ==
  ASSUME ApiInv, Restart
  PROVE  ApiInv'
<1>1. /\ calls' = [c \in Calls |-> IdleCall] /\ IdleCall.phase = "idle"
      /\ UNCHANGED <<ticks, buckets, lastPass>>
      /\ lost' = lost \cup {k \in {calls[c].key : c \in {x \in Calls : At(x, "first")}} : Endless(k)}
  BY DEF Restart, IdleCall
<1>2. GateTyped'
  BY <1>1 DEF ApiInv, GateTyped, CallsTyped
<1>3. \A k \in Keys : ExpiryIsEarned(k)'
  BY <1>1 DEF ApiInv, ExpiryIsEarned
<1>4. ASSUME NEW k \in Keys PROVE CountersExpire(k)'
  <2>1. CountersExpire(k)
    BY DEF ApiInv
  <2>2. \A c \in Calls : At(c, "first") /\ calls[c].key = k /\ Endless(k) => k \in lost'
    BY <1>1
  <2> QED BY <1>1, <2>1, <2>2 DEF CountersExpire, Endless, Exists
<1>5. RefusalsAreEarned'
  BY <1>1 DEF RefusalsAreEarned, At
<1> QED
  BY <1>2, <1>3, <1>4, <1>5 DEF ApiInv

\* Redis drops the counters whose time is over.
LEMMA ElapseStep ==
  ASSUME ApiInv, Elapse
  PROVE  ApiInv'
<1>1. /\ ticks' = ticks + 1 /\ buckets' = [k \in Keys |-> Pass(buckets[k])]
      /\ UNCHANGED <<calls, lastPass, lost>>
  BY DEF Elapse
<1>2. /\ buckets \in [Keys -> [count : Nat, expires : Nat \cup {NoTick}]]
      /\ lastPass \in [Keys -> Nat \cup {NoTick}] /\ ticks \in Nat
      /\ \A k \in Keys : ExpiryIsEarned(k) /\ CountersExpire(k)
  BY DEF ApiInv, GateTyped
<1>3. NoKey \in [count : Nat, expires : Nat \cup {NoTick}] /\ NoKey.count = 0 /\ NoKey.expires = NoTick
  BY DEF NoKey
<1>4. \A k \in Keys : buckets'[k] = IF buckets[k].expires = ticks + 1 THEN NoKey ELSE buckets[k]
  BY <1>1 DEF Pass
<1>5. GateTyped'
  <2>1. buckets' \in [Keys -> [count : Nat, expires : Nat \cup {NoTick}]]
    BY <1>1, <1>2, <1>3 DEF Pass
  <2> QED BY <1>1, <1>2, <2>1 DEF ApiInv, GateTyped, CallsTyped
<1>6. ASSUME NEW k \in Keys PROVE ExpiryIsEarned(k)'
  <2>1. CASE buckets[k].expires = ticks + 1
    BY <1>3, <1>4, <2>1 DEF ExpiryIsEarned
  <2>2. CASE buckets[k].expires # ticks + 1
    <3>1. buckets'[k] = buckets[k]
      BY <1>4, <2>2
    <3>2. buckets[k].expires \in Nat \cup {NoTick}
      BY <1>2
    <3>3. CASE buckets[k].expires = NoTick
      BY <3>1, <3>3 DEF ExpiryIsEarned
    <3>4. CASE buckets[k].expires # NoTick
      <4> DEFINE expiry == buckets[k].expires
      <4>1. /\ expiry \in Nat /\ ticks < expiry /\ expiry # ticks + 1
            /\ Window =< expiry /\ expiry =< ticks + Window /\ lastPass[k] >= expiry - Window
        BY <1>2, <2>2, <3>2, <3>4 DEF ExpiryIsEarned
      <4>2. buckets'[k].expires = expiry /\ lastPass'[k] = lastPass[k]
        BY <1>1, <3>1
      <4> HIDE DEF expiry
      <4>3. ticks + 1 < expiry /\ expiry =< ticks + 1 + Window
        BY <1>2, <4>1, GateConstants
      <4> QED BY <1>1, <4>1, <4>2, <4>3 DEF ExpiryIsEarned
    <3> QED BY <3>3, <3>4
  <2> QED BY <2>1, <2>2
<1>7. \A k \in Keys : CountersExpire(k)'
  BY <1>1, <1>2, <1>3, <1>4 DEF CountersExpire, At
<1>8. RefusalsAreEarned'
  BY <1>1 DEF ApiInv, RefusalsAreEarned, At
<1> QED
  BY <1>5, <1>6, <1>7, <1>8 DEF ApiInv

LEMMA ApiStep == ApiInv /\ [ApiNext]_apiVars => ApiInv'
<1> SUFFICES ASSUME ApiInv, [ApiNext]_apiVars PROVE ApiInv'
  OBVIOUS
<1>1. ASSUME UNCHANGED <<ticks, buckets, calls, lastPass, lost>> PROVE ApiInv'
  BY <1>1 DEF ApiInv, GateTyped, CallsTyped, ExpiryIsEarned, CountersExpire, RefusalsAreEarned, At
<1>2. ASSUME NEW c \in Calls, NEW key \in Keys, Arrive(c, key) PROVE ApiInv'
  BY <1>2, OthersKeepApi DEF Arrive, At, Become
<1>3. ASSUME NEW c \in Calls, NEW call2, Become(c, call2), calls[c].phase # "first",
             call2.phase \notin {"arrived", "first", "refused"},
             UNCHANGED <<ticks, buckets, lastPass, lost>>
      PROVE  ApiInv'
  BY <1>3, OthersKeepApi DEF Become
<1>4. ASSUME NEW c \in Calls, NEW code, Status(c, code), calls[c].phase # "first",
             UNCHANGED <<ticks, buckets, lastPass, lost>>
      PROVE  ApiInv'
  BY <1>3, <1>4 DEF Status
<1>5. ASSUME NEW c \in Calls, Health(c) \/ Finish(c) PROVE ApiInv'
  <2>1. CASE Health(c)
    BY <1>4, <2>1 DEF Health, At
  <2>2. CASE Finish(c)
    BY <1>3, <2>2 DEF Finish, At, IdleCall
  <2> QED BY <1>5, <2>1, <2>2
<1>6. ASSUME NEW c \in Calls, Guard(c) PROVE ApiInv'
  <2>1. CASE PublicRoute(c) \/ RejectToken(c) \/ ProvisionFails(c)
    BY <1>4, <2>1 DEF PublicRoute, RejectToken, ProvisionFails, At
  <2>2. ASSUME NEW user, NEW roles, Verify(c, user, roles) PROVE ApiInv'
    BY <1>3, <2>2 DEF Verify, At
  <2>3. CASE Upsert(c)
    BY <1>3, <1>4, <2>3 DEF Upsert, At
  <2>4. CASE EnsureFreePlan(c)
    BY <1>3, <2>4 DEF EnsureFreePlan, At
  <2>5. ASSUME NEW required, LackRole(c, required) PROVE ApiInv'
    BY <1>4, <2>5 DEF LackRole, At
  <2> QED BY <1>6, <2>1, <2>2, <2>3, <2>4, <2>5 DEF Guard
<1>7. ASSUME NEW c \in Calls, Profile(c) PROVE ApiInv'
  <2>1. CASE GetProfile(c) \/ RejectBody(c)
    BY <1>4, <2>1 DEF GetProfile, RejectBody, At
  <2>2. ASSUME NEW locale, PatchLocale(c, locale) PROVE ApiInv'
    BY <1>4, <2>2 DEF PatchLocale, At
  <2>3. ASSUME NEW locale, NEW currency, PatchPreferences(c, locale, currency) PROVE ApiInv'
    BY <1>4, <2>3 DEF PatchPreferences, At
  <2> QED BY <1>7, <2>1, <2>2, <2>3 DEF Profile
<1>8. ASSUME NEW user, RedisConnects \/ RedisFails \/ DeactivateUser(user) PROVE ApiInv'
  BY <1>1, <1>8 DEF RedisConnects, RedisFails, DeactivateUser
<1>9. CASE UNCHANGED apiVars
  BY <1>1, <1>9 DEF apiVars
<1>10. ASSUME NEW c \in Calls, Limit(c) PROVE ApiInv'
  BY <1>2, <1>5, <1>10, CountStep, ExpireStep, UnheardStep DEF Limit
<1>11. CASE ApiNext
  BY <1>6, <1>7, <1>8, <1>10, <1>11, RestartStep, ElapseStep DEF ApiNext
<1> QED
  BY <1>9, <1>11

\* For any requests, keys, window and allowance, and however Redis fails, loses answers
\* and the process restarts, a request is refused only within a window of one of its key
\* that passed or set the expiry, unless that EXPIRE is under way, or the first count of
\* the key or its EXPIRE was lost in a failure (redis-rate-limit.ts: the middleware).
THEOREM RefusalsEarned == ApiSpec => []RefusalsAreEarned
<1>1. ApiInv => RefusalsAreEarned
  BY DEF ApiInv
<1> QED
  BY ApiStart, ApiStep, <1>1, PTL DEF ApiSpec

-----------------------------------------------------------------------------
(* What a trader tells its user (TraderNotices). *)

WaitReasons ==
  {"INSUFFICIENT_MARKET_DATA", "CAPITAL_INSUFFICIENT", "INTERVAL_NOT_REACHED",
   "PRICE_OUT_OF_RANGE", "MARKET_REGIME_NOT_SUITABLE"}
NoticeKeys ==
  ({"TRADER_WAITING"} \X WaitReasons) \cup ({"RISK_PAUSED"} \X Limits \X Proposals)
    \cup ({"ORDER_FILLED"} \X Proposals)
Notices == [key : NoticeKeys, created : Nat, read : BOOLEAN, beside : BOOLEAN]

NoticesTyped ==
  /\ instant \in Nat /\ parameters \in Stored
  /\ inbox \in Seq(Notices) /\ \A i \in DOMAIN inbox : inbox[i].created =< instant
  /\ DOMAIN telling = Cycles
  /\ \A c \in Cycles :
       /\ telling[c].phase = "judged" => telling[c].proposal \in Proposals
       /\ telling[c].phase = "look" => telling[c].key \in NoticeKeys
       /\ telling[c].phase = "create" =>
            telling[c] \in [phase : {"create"}, key : NoticeKeys, beside : BOOLEAN]

\* A cycle that found nothing recent, and has seen no notice of its kind arrive
\* since, is still right: the notices of that kind are older than the window.
LookStillHolds(c) ==
  telling[c].phase = "create" /\ ~telling[c].beside =>
    \A i \in DOMAIN inbox :
      inbox[i].key = telling[c].key => inbox[i].created < instant - DedupeWindow

NoticesInv ==
  NoticesTyped /\ NoticesAreSpaced /\ WaitsAreExplained /\ \A c \in Cycles : LookStillHolds(c)

\* What the reason function finds when the strategy declined is true to tell.
LEMMA DeclinesHaveReasons ==
  ASSUME parameters \in Stored, NEW x \in Contexts, Analysis(x) = Hold
  PROVE  Explained(Reason(parameters, x), x)
<1> DEFINE p == parameters
           g == Given(p)
<1>1. /\ x.since \in Nat \cup {Never} /\ x.spent \in Nat /\ x.price \in Closes /\ x.price \in Nat \ {0}
      /\ x.later \in 0 .. 1 /\ x.float \in BOOLEAN /\ x.decimal \in BOOLEAN
  BY NoticesAssumption DEF Contexts
<1>2. /\ p.quote \in Nat /\ p.maxCapital \in Nat
      /\ "interval" \in DOMAIN p => p.interval \in Nat
      /\ "minPrice" \in DOMAIN p => p.minPrice \in Nat
      /\ "maxPrice" \in DOMAIN p => p.maxPrice \in Nat
  BY NoticesAssumption
<1>3. Max(Closes) \in Nat /\ Max(Closes) >= x.price
  <2>1. Closes # {} /\ Closes \subseteq Int
    BY <1>1, NoticesAssumption
  <2> QED BY <1>1, <2>1, NoticesAssumption, GreatestExists
<1>4. /\ g.quote = p.quote /\ g.maxCapital = p.maxCapital
      /\ g.interval = IF "interval" \in DOMAIN p THEN p.interval ELSE DefaultInterval
      /\ g.minPrice = IF "minPrice" \in DOMAIN p THEN p.minPrice ELSE 1
      /\ g.maxPrice = IF "maxPrice" \in DOMAIN p THEN p.maxPrice ELSE Max(Closes)
  BY DEF Given, Field
<1>5. g.minPrice \in Nat /\ g.maxPrice \in Nat /\ g.interval \in Nat
  BY <1>2, <1>3, <1>4, NoticesAssumption
<1>6. ~ /\ Summed(x) + g.quote =< g.maxCapital
        /\ x.since = Never \/ x.since >= g.interval
        /\ x.price \in g.minPrice .. g.maxPrice
  BY DEF Analysis, DcaProposal, Buy, Hold
<1>7. SUFFICES ASSUME ~ReachesTheMaximum(p, x.spent) PROVE Explained(Reason(p, x), x)
  BY <1>7 DEF Explained, MayDisagree
<1>8. Summed(x) = x.spent /\ (Unaffordable(p, x.spent, x.decimal) <=> x.spent + p.quote > p.maxCapital)
  BY <1>7 DEF Summed, Unaffordable
<1>9. SUFFICES ASSUME ~Unaffordable(p, x.spent, x.decimal) PROVE Explained(Reason(p, x), x)
  <2>1. CASE Unaffordable(p, x.spent, x.decimal)
    <3>1. RanInto("CAPITAL_INSUFFICIENT", x)
      BY <1>4, <1>8, <2>1 DEF RanInto
    <3> QED BY <2>1, <3>1 DEF Reason, Explained
  <2> QED BY <1>9, <2>1
<1> DEFINE soon == x.since # Never /\ x.since < g.interval
<1>10. SinceReread(x) # Never <=> x.since # Never
  BY <1>1 DEF SinceReread, Never
<1>11. TooSoon(p, SinceReread(x)) => soon /\ "interval" \in DOMAIN p
  BY <1>1, <1>2, <1>4, <1>10 DEF TooSoon, SinceReread, Never
<1>12. CASE TooSoon(p, SinceReread(x))
  <2>1. RanInto("INTERVAL_NOT_REACHED", x)
    BY <1>11, <1>12 DEF RanInto
  <2> QED BY <1>9, <1>12, <2>1 DEF Reason, Explained
<1>13. CASE ~TooSoon(p, SinceReread(x)) /\ soon
  <2>1. MayDisagree(x)
    BY <1>1, <1>2, <1>4, <1>10, <1>13 DEF MayDisagree, TooSoon, SinceReread, Never
  <2> QED BY <2>1 DEF Explained
<1>14. CASE ~TooSoon(p, SinceReread(x)) /\ ~soon
  <2>1. x.price \notin g.minPrice .. g.maxPrice
    BY <1>1, <1>2, <1>4, <1>5, <1>6, <1>8, <1>9, <1>14 DEF Never
  <2>2. OutOfRange(p, x.price)
    <3>1. x.price < g.minPrice \/ x.price > g.maxPrice
      BY <1>1, <1>5, <2>1
    <3> QED BY <1>1, <1>2, <1>3, <1>4, <3>1 DEF OutOfRange
  <2>3. RanInto("PRICE_OUT_OF_RANGE", x)
    BY <2>1 DEF RanInto
  <2> QED BY <1>9, <1>14, <2>2, <2>3 DEF Reason, Explained
<1> QED
  BY <1>12, <1>13, <1>14

LEMMA InboxHolds ==
  ASSUME NEW s \in Seq(Notices)
  PROVE  /\ DOMAIN s = 1 .. Len(s) /\ Len(s) \in Nat
         /\ \A i \in DOMAIN s : s[i] \in Notices /\ s[i].created \in Nat
<1>1. DOMAIN s = 1 .. Len(s) /\ Len(s) \in Nat /\ \A i \in DOMAIN s : s[i] \in Notices
  OBVIOUS
<1> QED
  BY <1>1 DEF Notices

\* A cycle moves on without a word in the inbox.
LEMMA TellingMoves ==
  ASSUME NoticesInv, NEW c \in Cycles, NEW record, TellNext(c, record),
         UNCHANGED <<instant, parameters, inbox>>,
         record.phase = "judged" => record.proposal \in Proposals,
         record.phase = "look" => record.key \in NoticeKeys /\ record.explained,
         record.phase = "create" =>
           /\ record \in [phase : {"create"}, key : NoticeKeys, beside : BOOLEAN]
           /\ ~Recent(record.key)
  PROVE  NoticesInv'
<1>1. /\ DOMAIN telling' = Cycles
      /\ \A d \in Cycles : telling'[d] = IF d = c THEN record ELSE telling[d]
  BY DEF TellNext, NoticesInv, NoticesTyped
<1>2. NoticesTyped'
  BY <1>1 DEF NoticesInv, NoticesTyped
<1>3. NoticesAreSpaced' /\ WaitsAreExplained'
  BY <1>1 DEF NoticesInv, NoticesAreSpaced, WaitsAreExplained
<1>4. ASSUME NEW d \in Cycles PROVE LookStillHolds(d)'
  <2>1. CASE d # c
    BY <1>1, <2>1 DEF NoticesInv, LookStillHolds
  <2>2. CASE d = c /\ record.phase = "create"
    <3>1. \A i \in DOMAIN inbox : inbox[i].created \in Nat
      BY InboxHolds DEF NoticesInv, NoticesTyped
    <3>2. \A i \in DOMAIN inbox :
            inbox[i].key = record.key => ~(inbox[i].created >= instant - DedupeWindow)
      BY <2>2 DEF Recent
    <3> QED
      BY <1>1, <2>2, <3>1, <3>2, NoticesAssumption DEF LookStillHolds, NoticesInv, NoticesTyped
  <2>3. CASE d = c /\ record.phase # "create"
    BY <1>1, <2>3 DEF LookStillHolds
  <2> QED BY <2>1, <2>2, <2>3
<1> QED
  BY <1>2, <1>3, <1>4 DEF NoticesInv

LEMMA CreateStep ==
  ASSUME NoticesInv, NEW c \in Cycles, CreateNotice(c)
  PROVE  NoticesInv'
<1> DEFINE mine == telling[c]
           notice == [key |-> mine.key, created |-> instant, read |-> FALSE, beside |-> mine.beside]
           last == Len(inbox) + 1
<1>1. /\ mine.phase = "create" /\ inbox' = Append(inbox, notice) /\ UNCHANGED <<instant, parameters>>
      /\ mine.key \in NoticeKeys /\ mine.beside \in BOOLEAN /\ instant \in Nat
      /\ inbox \in Seq(Notices)
  BY DEF CreateNotice, NoticesInv, NoticesTyped
<1>2. notice \in Notices
  BY <1>1 DEF Notices
<1>3. /\ notice.key = mine.key /\ notice.created = instant /\ notice.beside = mine.beside
  OBVIOUS
<1>4. telling' = [d \in Cycles |->
         IF d = c THEN NothingToTell
         ELSE IF telling[d].phase = "create" /\ telling[d].key = mine.key
         THEN [telling[d] EXCEPT !.beside = TRUE] ELSE telling[d]]
  BY DEF CreateNotice
<1> HIDE DEF notice
<1>5. /\ inbox' \in Seq(Notices) /\ last \in Nat /\ DOMAIN inbox = 1 .. Len(inbox)
      /\ DOMAIN inbox' = DOMAIN inbox \cup {last} /\ last \notin DOMAIN inbox
      /\ inbox'[last] = notice /\ \A i \in DOMAIN inbox : inbox'[i] = inbox[i] /\ i < last
  BY <1>1, <1>2
<1>6. NothingToTell.phase = "idle"
  BY DEF NothingToTell
<1>7. ASSUME NEW d \in Cycles, telling'[d].phase # "idle"
      PROVE  /\ d # c
             /\ \/ /\ telling'[d] = [telling[d] EXCEPT !.beside = TRUE]
                   /\ telling[d].phase = "create" /\ telling[d].key = mine.key
                \/ /\ telling'[d] = telling[d]
                   /\ ~(telling[d].phase = "create" /\ telling[d].key = mine.key)
  BY <1>4, <1>6, <1>7
<1> HIDE DEF mine, last
<1>8. NoticesTyped'
  <2>1. \A i \in DOMAIN inbox' : inbox'[i].created =< instant'
    BY <1>1, <1>3, <1>5 DEF NoticesInv, NoticesTyped
  <2>2. ASSUME NEW d \in Cycles, telling'[d].phase # "idle"
        PROVE  /\ telling'[d].phase = "judged" => telling'[d].proposal \in Proposals
               /\ telling'[d].phase = "look" => telling'[d].key \in NoticeKeys
               /\ telling'[d].phase = "create" =>
                    telling'[d] \in [phase : {"create"}, key : NoticeKeys, beside : BOOLEAN]
    <3>1. CASE telling'[d] = telling[d]
      BY <3>1 DEF NoticesInv, NoticesTyped
    <3>2. CASE telling'[d] = [telling[d] EXCEPT !.beside = TRUE] /\ telling[d].phase = "create"
      <4>1. telling[d] \in [phase : {"create"}, key : NoticeKeys, beside : BOOLEAN]
        BY <3>2 DEF NoticesInv, NoticesTyped
      <4>2. telling'[d] \in [phase : {"create"}, key : NoticeKeys, beside : BOOLEAN]
        <5> HIDE DEF NoticeKeys
        <5> QED BY <3>2, <4>1
      <4> QED BY <4>2
    <3> QED BY <1>7, <2>2, <3>1, <3>2
  <2>3. DOMAIN telling' = Cycles
    BY <1>4
  <2>4. instant' \in Nat /\ parameters' \in Stored
    BY <1>1 DEF NoticesInv, NoticesTyped
  <2> QED BY <1>5, <2>1, <2>2, <2>3, <2>4 DEF NoticesTyped
<1>9. NoticesAreSpaced'
  <2>1. \A i \in DOMAIN inbox :
          inbox[i].key = mine.key /\ ~mine.beside => instant - inbox[i].created > DedupeWindow
    <3>1. ~mine.beside => \A i \in DOMAIN inbox :
            inbox[i].key = mine.key => inbox[i].created < instant - DedupeWindow
      BY <1>1 DEF mine, NoticesInv, LookStillHolds
    <3>2. \A i \in DOMAIN inbox : inbox[i].created \in Nat
      BY <1>1, InboxHolds
    <3> QED BY <1>1, <3>1, <3>2, NoticesAssumption
  <2>2. \A i, j \in DOMAIN inbox' : i < j => i \in DOMAIN inbox /\ (j = last \/ j \in DOMAIN inbox)
    BY <1>5
  <2>3. \A i, j \in DOMAIN inbox :
          i < j /\ inbox[i].key = inbox[j].key /\ ~inbox[j].beside =>
            inbox[j].created - inbox[i].created > DedupeWindow
    BY DEF NoticesInv, NoticesAreSpaced
  <2> QED BY <1>3, <1>5, <2>1, <2>2, <2>3 DEF NoticesAreSpaced
<1>10. WaitsAreExplained'
  <2>1. ASSUME NEW d \in Cycles, telling'[d].phase = "look"
        PROVE  telling'[d] = telling[d]
    <3>1. telling[d].phase = "create" =>
            telling[d] \in [phase : {"create"}, key : NoticeKeys, beside : BOOLEAN]
      BY DEF NoticesInv, NoticesTyped
    <3>2. telling[d].phase = "create" => [telling[d] EXCEPT !.beside = TRUE].phase = "create"
      BY <3>1
    <3> QED BY <1>7, <2>1, <3>2
  <2> QED BY <1>1, <2>1 DEF NoticesInv, WaitsAreExplained
<1>11. ASSUME NEW d \in Cycles PROVE LookStillHolds(d)'
  <2>1. SUFFICES ASSUME telling'[d].phase = "create", ~telling'[d].beside
                 PROVE  \A i \in DOMAIN inbox' : inbox'[i].key = telling'[d].key =>
                          inbox'[i].created < instant' - DedupeWindow
    BY DEF LookStillHolds
  <2>2. telling'[d] = telling[d] /\ telling[d].key # mine.key
    <3>1. telling[d].phase = "create" =>
            telling[d] \in [phase : {"create"}, key : NoticeKeys, beside : BOOLEAN]
      BY DEF NoticesInv, NoticesTyped
    <3>2. telling[d].phase = "create" => [telling[d] EXCEPT !.beside = TRUE].beside
      BY <3>1
    <3>3. telling'[d].phase # "idle"
      BY <2>1
    <3> QED BY <1>7, <2>1, <3>2, <3>3
  <2> QED
    BY <1>1, <1>3, <1>5, <2>1, <2>2 DEF NoticesInv, LookStillHolds
<1> QED
  BY <1>8, <1>9, <1>10, <1>11 DEF NoticesInv

LEMMA NoticesReadStep ==
  ASSUME NoticesInv, NEW i \in DOMAIN inbox, MarkRead(i)
  PROVE  NoticesInv'
<1>1. inbox' = [inbox EXCEPT ![i].read = TRUE] /\ inbox \in Seq(Notices)
      /\ UNCHANGED <<instant, parameters, telling>>
  BY DEF MarkRead, NoticesInv, NoticesTyped
<1>2. DOMAIN inbox' = DOMAIN inbox
  BY <1>1
<1> DEFINE notice == [inbox[i] EXCEPT !.read = TRUE]
<1>3. /\ notice \in Notices /\ notice.key = inbox[i].key
      /\ notice.created = inbox[i].created /\ notice.beside = inbox[i].beside
  <2>1. inbox[i] \in Notices
    BY <1>1, InboxHolds
  <2>2. inbox[i] \in [key : NoticeKeys, created : Nat, read : BOOLEAN, beside : BOOLEAN]
    BY <2>1 DEF Notices
  <2>3. notice \in [key : NoticeKeys, created : Nat, read : BOOLEAN, beside : BOOLEAN]
    BY <2>2
  <2> QED BY <2>2, <2>3 DEF Notices
<1>4. inbox' = [inbox EXCEPT ![i] = notice]
  BY <1>1
<1> HIDE DEF notice
<1>5. /\ inbox' \in Seq(Notices)
      /\ \A j \in DOMAIN inbox : inbox'[j] = IF j = i THEN notice ELSE inbox[j]
  <2>1. DOMAIN inbox = 1 .. Len(inbox) /\ Len(inbox) \in Nat /\ inbox \in [DOMAIN inbox -> Notices]
    BY <1>1
  <2>2. inbox' \in [1 .. Len(inbox) -> Notices]
    BY <1>3, <1>4, <2>1
  <2>3. inbox' \in Seq(Notices)
    BY <2>1, <2>2
  <2> QED BY <1>4, <2>1, <2>3
<1>6. \A j \in DOMAIN inbox : /\ inbox'[j].key = inbox[j].key
                              /\ inbox'[j].created = inbox[j].created
                              /\ inbox'[j].beside = inbox[j].beside
  BY <1>3, <1>5
<1> QED
  BY <1>1, <1>2, <1>5, <1>6
  DEF NoticesInv, NoticesTyped, NoticesAreSpaced, WaitsAreExplained, LookStillHolds

LEMMA InstantStep ==
  ASSUME NoticesInv, InstantPasses
  PROVE  NoticesInv'
<1>1. /\ instant' = instant + 1 /\ instant \in Nat /\ instant' \in Nat
      /\ UNCHANGED <<parameters, telling, inbox>>
      /\ \A i \in DOMAIN inbox : inbox[i].created \in Nat
  BY InboxHolds DEF InstantPasses, NoticesInv, NoticesTyped
<1>2. NoticesTyped'
  BY <1>1 DEF NoticesInv, NoticesTyped
<1>3. \A c \in Cycles : LookStillHolds(c)'
  BY <1>1, NoticesAssumption DEF NoticesInv, LookStillHolds
<1> QED
  BY <1>1, <1>2, <1>3 DEF NoticesInv, NoticesAreSpaced, WaitsAreExplained

LEMMA ReportStep ==
  ASSUME NoticesInv, NEW c \in Cycles, Report(c)
  PROVE  NoticesInv'
<1>1. ASSUME NEW reason \in {"INSUFFICIENT_MARKET_DATA", "MARKET_REGIME_NOT_SUITABLE"},
             WaitForData(c, reason)
      PROVE  NoticesInv'
  <2> DEFINE record == [phase |-> "look", key |-> <<"TRADER_WAITING", reason>>, explained |-> TRUE]
  <2>1. /\ record.phase = "look" /\ record.key \in NoticeKeys /\ record.explained
    BY DEF NoticeKeys, WaitReasons
  <2>2. TellNext(c, record) /\ UNCHANGED <<instant, parameters, inbox>>
    BY <1>1 DEF WaitForData, MarkWaiting
  <2> HIDE DEF record
  <2> QED BY <2>1, <2>2, TellingMoves
<1>2. ASSUME WaitForMarket(c)
      PROVE  NoticesInv'
  <2>1. PICK wait \in Declined : MarkWaiting(c, wait.reason, wait.explained)
    BY <1>2 DEF WaitForMarket
  <2>2. PICK x \in Contexts :
          /\ Analysis(x) = Hold
          /\ wait = [reason |-> Reason(parameters, x),
                     explained |-> Explained(Reason(parameters, x), x)]
    BY <2>1 DEF Declined
  <2> DEFINE reason == Reason(parameters, x)
             explained == Explained(reason, x)
             record == [phase |-> "look", key |-> <<"TRADER_WAITING", reason>>,
                        explained |-> explained]
  <2>3. reason \in WaitReasons
    BY DEF Reason, WaitReasons
  <2>4. explained
    BY <2>2, DeclinesHaveReasons DEF NoticesInv, NoticesTyped
  <2>5. TellNext(c, record) /\ UNCHANGED <<instant, parameters, inbox>>
    BY <2>1, <2>2 DEF MarkWaiting
  <2> HIDE DEF reason, explained
  <2>6. /\ record.phase = "look" /\ record.key \in NoticeKeys
        /\ record.explained
    BY <2>3, <2>4 DEF NoticeKeys
  <2> HIDE DEF record
  <2> QED BY <2>5, <2>6, TellingMoves
<1>3. ASSUME NEW proposal \in Proposals, Propose(c, proposal)
      PROVE  NoticesInv'
  <2> DEFINE record == [phase |-> "judged", proposal |-> proposal]
  <2>1. record.phase = "judged" /\ record.proposal \in Proposals
    OBVIOUS
  <2>2. TellNext(c, record) /\ UNCHANGED <<instant, parameters, inbox>>
    BY <1>3 DEF Propose
  <2> HIDE DEF record
  <2> QED BY <2>1, <2>2, TellingMoves
<1>4. ASSUME NEW key \in NoticeKeys, key[1] # "TRADER_WAITING", TellNext(c, Told(key)),
             UNCHANGED <<instant, parameters, inbox>>
      PROVE  NoticesInv'
  <2>1. Told(key).phase = "look" /\ Told(key).key = key /\ Told(key).explained
    BY DEF Told
  <2> QED BY <1>4, <2>1, TellingMoves
<1>5. ASSUME NEW reason \in Limits, RefuseOrder(c, reason)
      PROVE  NoticesInv'
  <2>1. telling[c].proposal \in Proposals
    BY <1>5 DEF RefuseOrder, NoticesInv, NoticesTyped
  <2>2. <<"RISK_PAUSED", reason, telling[c].proposal>> \in NoticeKeys
    BY <2>1 DEF NoticeKeys
  <2> QED BY <1>4, <1>5, <2>2 DEF RefuseOrder
<1>6. ASSUME FillOrder(c)
      PROVE  NoticesInv'
  <2>1. telling[c].proposal \in Proposals
    BY <1>6 DEF FillOrder, NoticesInv, NoticesTyped
  <2>2. <<"ORDER_FILLED", telling[c].proposal>> \in NoticeKeys
    BY <2>1 DEF NoticeKeys
  <2> QED BY <1>4, <1>6, <2>2 DEF FillOrder
<1>7. ASSUME LookForNotice(c)
      PROVE  NoticesInv'
  <2>1. telling[c].key \in NoticeKeys /\ UNCHANGED <<instant, parameters, inbox>>
    BY <1>7 DEF LookForNotice, NoticesInv, NoticesTyped
  <2>2. CASE TellNext(c, NothingToTell)
    BY <2>1, <2>2, TellingMoves DEF NothingToTell
  <2> DEFINE record == [phase |-> "create", key |-> telling[c].key, beside |-> FALSE]
  <2>3. CASE TellNext(c, record) /\ ~Recent(telling[c].key)
    <3>1. /\ record.phase = "create" /\ record.key = telling[c].key
          /\ record \in [phase : {"create"}, key : NoticeKeys, beside : BOOLEAN]
      BY <2>1
    <3> HIDE DEF record
    <3> QED BY <2>1, <2>3, <3>1, TellingMoves
  <2> QED BY <1>7, <2>2, <2>3 DEF LookForNotice
<1>8. ASSUME CycleFails(c) \/ EndUntold(c)
      PROVE  NoticesInv'
  BY <1>8, TellingMoves DEF CycleFails, EndUntold, NothingToTell
<1> QED
  BY <1>1, <1>2, <1>3, <1>5, <1>6, <1>7, <1>8, CreateStep DEF Report

LEMMA NoticesInvHolds == NoticesSpec => []NoticesInv
<1>1. NoticesInit => NoticesInv
  <2> SUFFICES ASSUME NoticesInit PROVE NoticesInv
    OBVIOUS
  <2>1. \A c \in Cycles : telling[c].phase = "idle"
    BY DEF NoticesInit, NothingToTell
  <2> QED
    BY <2>1
    DEF NoticesInit, NoticesInv, NoticesTyped, NoticesAreSpaced, WaitsAreExplained, LookStillHolds
<1>2. NoticesInv /\ [NoticesNext]_noticeVars => NoticesInv'
  <2> SUFFICES ASSUME NoticesInv, [NoticesNext]_noticeVars PROVE NoticesInv'
    OBVIOUS
  <2>1. CASE UNCHANGED noticeVars
    BY <2>1
    DEF noticeVars, NoticesInv, NoticesTyped, NoticesAreSpaced, WaitsAreExplained, LookStillHolds
  <2> QED
    BY <2>1, ReportStep, NoticesReadStep, InstantStep DEF NoticesNext
<1> QED
  BY <1>1, <1>2, PTL DEF NoticesSpec

\* Two notices of a kind, the second created by a cycle that saw the inbox as it
\* was, are more than the window apart: for any number of cycles and any window
\* (runtime-notifications.ts:10-14).
THEOREM NoticesSpaced == NoticesSpec => []NoticesAreSpaced
BY NoticesInvHolds, PTL DEF NoticesInv

\* What a trader that declined tells is a limit its strategy ran into, for every stored
\* configuration and any prices, amounts and roundings, unless the purchase brings the
\* spending to the maximum, the interval ends between the two readings of the clock or none
\* is stored (paper-cycle.ts:341-349).
THEOREM WaitsExplained == NoticesSpec => []WaitsAreExplained
BY NoticesInvHolds, PTL DEF NoticesInv

-----------------------------------------------------------------------------
(* The browser's cookies (WebSession). *)

Session == [login : Nat, preferences : Preferences, access : Int, refresh : Int]
Transaction == [state : Nat, created : Int, locale : Locales]
Jar == [session : Session \cup {None}, login : Transaction \cup {None}]
Writable == Session \cup {None, Keep}

AsTold(session) ==
  told # None /\ session.login = told.login /\ session.preferences = told.preferences

SentTyped(visit) == visit.phase = "sent" => visit.jar \in Jar
AnswerTyped(visit) ==
  visit.phase = "answered" =>
    /\ visit.session \in Writable /\ visit.login \in Transaction \cup {None, Keep}
    /\ visit.changes \in BOOLEAN /\ (visit.changes => visit.session # Keep)
WebTyped ==
  /\ clock \in Nat /\ begun \in Nat /\ raced \in BOOLEAN /\ jar \in Jar
  /\ DOMAIN requests = Requests
  /\ \A r \in Requests : SentTyped(requests[r]) /\ AnswerTyped(requests[r])

\* As long as nothing raced, what a request carries, or is about to write without
\* changing anything, is what the browser was told.
NothingOlder(visit) ==
  ~raced =>
    /\ visit.phase = "sent" /\ visit.jar.session # None => AsTold(visit.jar.session)
    /\ visit.phase = "answered" /\ ~visit.changes /\ visit.session \notin {Keep, None} =>
         AsTold(visit.session)

WebInv ==
  WebTyped /\ CookieIsAsTold /\ \A r \in Requests : NothingOlder(requests[r])

LEMMA CookiesDiffer ==
  /\ None # Keep /\ None \notin Session /\ Keep \notin Session
  /\ None \notin Transaction /\ Keep \notin Transaction
BY DEF None, Keep, Session, Transaction

LEMMA SessionFromTokens ==
  ASSUME clock \in Nat, NEW login \in Nat, NEW locale \in Locales
  PROVE  FromTokens(login, locale) \in Session
<1>1. [locale |-> locale, currency |-> "USD"] \in Preferences
  BY WebAssumption DEF Preferences
<1>2. clock + AccessLife \in Int /\ clock + RefreshLife \in Int
  BY WebAssumption
<1> QED
  BY <1>1, <1>2 DEF FromTokens, Session

\* A refreshed session is of the same login, with the same preferences.
LEMMA ReadsAgree ==
  ASSUME clock \in Nat, NEW session \in Session \cup {None}, NEW s \in Reads(session), s # None
  PROVE  /\ session # None /\ s \in Session
         /\ s.login = session.login /\ s.preferences = session.preferences
<1>1. session \in Session /\ s \in {session, Refreshed(session)}
  BY DEF Reads, Alive
<1>2. session.login \in Nat /\ session.preferences \in Preferences /\ session.preferences.locale \in Locales
  BY <1>1 DEF Session, Preferences
<1> DEFINE renewed == FromTokens(session.login, session.preferences.locale)
<1>3. renewed \in Session /\ renewed.login = session.login
  BY <1>2, SessionFromTokens DEF FromTokens
<1>4. Refreshed(session) = [renewed EXCEPT !.preferences = session.preferences]
  BY DEF Refreshed
<1> HIDE DEF renewed
<1>5. /\ Refreshed(session) \in Session /\ Refreshed(session).login = session.login
      /\ Refreshed(session).preferences = session.preferences
  BY <1>2, <1>3, <1>4 DEF Session
<1> QED
  BY <1>1, <1>5, CookiesDiffer

LEMMA PreferencesChange ==
  ASSUME NEW s \in Session, NEW p \in Preferences
  PROVE  [s EXCEPT !.preferences = p] \in Session
BY DEF Session

\* The handler answers, with or without a change.
LEMMA AnswerMoves ==
  ASSUME WebInv, NEW r \in Requests, NEW answer,
         requests' = [requests EXCEPT ![r] = answer],
         answer.phase = "answered", AnswerTyped(answer), NothingOlder(answer),
         UNCHANGED <<clock, jar, told, raced>>, begun' \in Nat
  PROVE  WebInv'
<1>1. /\ DOMAIN requests' = Requests
      /\ \A o \in Requests : requests'[o] = IF o = r THEN answer ELSE requests[o]
  BY DEF WebInv, WebTyped
<1>2. SentTyped(answer)
  BY DEF SentTyped
<1>3. WebTyped'
  BY <1>1, <1>2 DEF WebInv, WebTyped, SentTyped, AnswerTyped
<1>4. CookieIsAsTold'
  BY DEF WebInv, CookieIsAsTold
<1>5. \A o \in Requests : NothingOlder(requests[o])'
  BY <1>1 DEF WebInv, NothingOlder, AsTold
<1> QED
  BY <1>3, <1>4, <1>5 DEF WebInv

LEMMA AnswerStep ==
  ASSUME WebInv, NEW r \in Requests, Sent(r),
         NEW session \in Writable, NEW login \in Transaction \cup {None, Keep},
         session \notin {Keep, None} =>
           /\ Carried(r).session # None
           /\ session.login = Carried(r).session.login
           /\ session.preferences = Carried(r).session.preferences,
         Answer(r, session, login), UNCHANGED <<clock, jar, told, raced>>, begun' \in Nat
  PROVE  WebInv'
<1> DEFINE answer == [phase |-> "answered", session |-> session, login |-> login, changes |-> FALSE]
<1>1. /\ answer.phase = "answered" /\ answer.session = session /\ answer.login = login
      /\ answer.changes = FALSE
  OBVIOUS
<1>2. requests' = [requests EXCEPT ![r] = answer]
  BY DEF Answer
<1> HIDE DEF answer
<1>3. AnswerTyped(answer)
  BY <1>1 DEF AnswerTyped
<1>4. NothingOlder(answer)
  <2>1. NothingOlder(requests[r]) /\ requests[r].phase = "sent" /\ Carried(r) = requests[r].jar
    BY DEF WebInv, Sent, Carried
  <2> QED BY <1>1, <2>1 DEF NothingOlder, AsTold
<1> QED
  BY <1>1, <1>2, <1>3, <1>4, AnswerMoves

LEMMA ChangeStep ==
  ASSUME WebInv, NEW r \in Requests,
         NEW session \in Session \cup {None}, NEW login \in Transaction \cup {None, Keep},
         Change(r, session, login), UNCHANGED <<clock, jar, told, raced>>, begun' \in Nat
  PROVE  WebInv'
<1> DEFINE answer == [phase |-> "answered", session |-> session, login |-> login, changes |-> TRUE]
<1>1. /\ answer.phase = "answered" /\ answer.session = session /\ answer.login = login
      /\ answer.changes = TRUE
  OBVIOUS
<1>2. requests' = [requests EXCEPT ![r] = answer]
  BY DEF Change
<1> HIDE DEF answer
<1>3. AnswerTyped(answer)
  BY <1>1, CookiesDiffer DEF AnswerTyped, Writable
<1>4. NothingOlder(answer)
  BY <1>1 DEF NothingOlder
<1> QED
  BY <1>1, <1>2, <1>3, <1>4, AnswerMoves

LEMMA WebHandleStep ==
  ASSUME WebInv, NEW r \in Requests, Handle(r)
  PROVE  WebInv'
<1>0. /\ clock \in Nat /\ begun \in Nat /\ (Sent(r) => Carried(r) \in Jar)
      /\ Sent(r) => /\ Carried(r).session \in Session \cup {None}
                    /\ Carried(r).login \in Transaction \cup {None}
  BY DEF WebInv, WebTyped, SentTyped, Sent, Carried, Jar
<1>k. {Keep, None} \subseteq Writable /\ Session \subseteq Writable
  BY DEF Writable
<1>1. ASSUME NEW locale \in Locales, BeginLogin(r, locale) PROVE WebInv'
  <2>1. LoginTransaction(locale) \in Transaction /\ begun' \in Nat
    BY <1>0, <1>1 DEF LoginTransaction, Transaction, BeginLogin
  <2> QED BY <1>1, <1>k, <2>1, AnswerStep DEF BeginLogin
<1>2. ASSUME NEW locale \in Locales, UpdateLocale(r, locale) PROVE WebInv'
  <2>0. Sent(r) /\ UNCHANGED <<clock, jar, told, raced>> /\ begun' \in Nat
    BY <1>0, <1>2 DEF UpdateLocale
  <2>1. PICK first \in Reads(Carried(r).session) \ {None} : \E second \in Reads(first) :
          IF second = None THEN Answer(r, Renewed(r, first), Keep)
          ELSE Change(r, [second EXCEPT !.preferences = [first.preferences EXCEPT !.locale = locale]],
                      Keep)
    BY <1>2 DEF UpdateLocale
  <2>2. PICK second \in Reads(first) :
          IF second = None THEN Answer(r, Renewed(r, first), Keep)
          ELSE Change(r, [second EXCEPT !.preferences = [first.preferences EXCEPT !.locale = locale]],
                      Keep)
    BY <2>1
  <2>3. /\ Carried(r).session # None /\ first \in Session
        /\ first.login = Carried(r).session.login
        /\ first.preferences = Carried(r).session.preferences
    BY <1>0, <2>0, ReadsAgree
  <2>4. CASE second = None
    <3>1. Renewed(r, first) \in {Keep, first}
      BY DEF Renewed
    <3> QED BY <1>k, <2>0, <2>2, <2>3, <2>4, <3>1, AnswerStep
  <2>5. CASE second # None
    <3>1. second \in Session
      BY <1>0, <2>3, <2>5, ReadsAgree
    <3>2. [first.preferences EXCEPT !.locale = locale] \in Preferences
      <4>1. first.preferences \in Preferences
        BY <2>3 DEF Session
      <4> QED BY <4>1 DEF Preferences
    <3> DEFINE changed == [second EXCEPT !.preferences = [first.preferences EXCEPT !.locale = locale]]
    <3>3. changed \in Session
      BY <3>1, <3>2, PreferencesChange
    <3>4. Change(r, changed, Keep)
      BY <2>2, <2>5
    <3> HIDE DEF changed
    <3> QED BY <2>0, <3>3, <3>4, ChangeStep
  <2> QED BY <2>4, <2>5
<1>3. ASSUME NEW state \in 1 .. MaxLogins, Callback(r, state) PROVE WebInv'
  <2>1. Sent(r) /\ Carried(r).login \in Transaction
    BY <1>0, <1>3 DEF Callback, Matches
  <2>2. state \in Nat /\ Carried(r).login.locale \in Locales
    BY <2>1, WebAssumption DEF Transaction
  <2>3. FromTokens(state, Carried(r).login.locale) \in Session
    BY <1>0, <2>2, SessionFromTokens
  <2> QED BY <1>0, <1>3, <2>3, ChangeStep DEF Callback
<1>4. ASSUME NEW state \in 1 .. MaxLogins, FailExchange(r, state) PROVE WebInv'
  BY <1>0, <1>k, <1>4, AnswerStep DEF FailExchange
<1>5. ASSUME RefuseCallback(r) PROVE WebInv'
  BY <1>0, <1>k, <1>5, AnswerStep DEF RefuseCallback
<1>6. ASSUME Logout(r) PROVE WebInv'
  BY <1>0, <1>6, ChangeStep DEF Logout
<1>7. ASSUME ReadSession(r) PROVE WebInv'
  <2>1. PICK session \in Reads(Carried(r).session) : Answer(r, Renewed(r, session), Keep)
    BY <1>7 DEF ReadSession
  <2>2. Sent(r) /\ UNCHANGED <<clock, jar, told, raced>> /\ begun' \in Nat
    BY <1>0, <1>7 DEF ReadSession
  <2>3. \/ Renewed(r, session) = Keep
        \/ Renewed(r, session) = session /\ session # None
    BY DEF Renewed
  <2>4. session # None => /\ Carried(r).session # None /\ session \in Session
                          /\ session.login = Carried(r).session.login
                          /\ session.preferences = Carried(r).session.preferences
    BY <1>0, <2>2, ReadsAgree
  <2> QED BY <1>k, <2>1, <2>2, <2>3, <2>4, AnswerStep
<1>8. ASSUME NEW preferences \in Preferences, UpdatePreferences(r, preferences) PROVE WebInv'
  <2>1. PICK session \in Reads(Carried(r).session) \ {None} :
          Change(r, [session EXCEPT !.preferences = preferences], Keep)
    BY <1>8 DEF UpdatePreferences
  <2>2. Sent(r) /\ UNCHANGED <<clock, jar, told, raced>> /\ begun' \in Nat
    BY <1>0, <1>8 DEF UpdatePreferences
  <2>3. session \in Session
    BY <1>0, <2>2, ReadsAgree
  <2>4. [session EXCEPT !.preferences = preferences] \in Session
    BY <2>3, PreferencesChange
  <2> QED BY <2>1, <2>2, <2>4, ChangeStep
<1>9. ASSUME NEW path \in Paths, Page(r, path) \/ Redirect(r, path) PROVE WebInv'
  BY <1>0, <1>k, <1>9, AnswerStep DEF Page, Redirect
<1> QED
  BY <1>1, <1>2, <1>3, <1>4, <1>5, <1>6, <1>7, <1>8, <1>9 DEF Handle

LEMMA SendStep ==
  ASSUME WebInv, NEW r \in Requests, Send(r)
  PROVE  WebInv'
<1> DEFINE visit == [phase |-> "sent", jar |-> jar]
<1>1. /\ requests' = [requests EXCEPT ![r] = visit] /\ UNCHANGED <<clock, jar, begun, told, raced>>
      /\ visit.phase = "sent" /\ visit.jar = jar
  BY DEF Send
<1> HIDE DEF visit
<1>2. /\ DOMAIN requests' = Requests
      /\ \A o \in Requests : requests'[o] = IF o = r THEN visit ELSE requests[o]
  BY <1>1 DEF WebInv, WebTyped
<1>3. WebTyped'
  BY <1>1, <1>2 DEF WebInv, WebTyped, SentTyped, AnswerTyped
<1>4. CookieIsAsTold'
  BY <1>1 DEF WebInv, CookieIsAsTold
<1>5. \A o \in Requests : NothingOlder(requests[o])'
  BY <1>1, <1>2 DEF WebInv, NothingOlder, CookieIsAsTold, AsTold
<1> QED
  BY <1>3, <1>4, <1>5 DEF WebInv

LEMMA DeliverStep ==
  ASSUME WebInv, NEW r \in Requests, Deliver(r)
  PROVE  WebInv'
<1> DEFINE answer == requests[r]
<1>1. /\ answer.phase = "answered" /\ AnswerTyped(answer) /\ NothingOlder(answer)
      /\ jar \in Jar /\ jar.session \in Session \cup {None} /\ jar.login \in Transaction \cup {None}
  BY DEF Deliver, WebInv, WebTyped, Jar
<1>2. /\ requests' = [requests EXCEPT ![r] = IdleRequest] /\ UNCHANGED <<clock, begun>>
      /\ jar' = [session |-> Set(jar.session, answer.session), login |-> Set(jar.login, answer.login)]
  BY DEF Deliver
<1>3. jar' \in Jar /\ jar'.session = Set(jar.session, answer.session)
  BY <1>1, <1>2 DEF Set, AnswerTyped, Writable, Jar
<1>4. /\ DOMAIN requests' = Requests /\ IdleRequest.phase = "idle"
      /\ \A o \in Requests : requests'[o] = IF o = r THEN IdleRequest ELSE requests[o]
  BY <1>2 DEF WebInv, WebTyped, IdleRequest
<1>5. raced' \in BOOLEAN
  BY DEF Deliver, WebInv, WebTyped
<1>6. WebTyped'
  BY <1>2, <1>3, <1>4, <1>5 DEF WebInv, WebTyped, SentTyped, AnswerTyped
<1>7. CASE ~answer.changes
  <2>1. UNCHANGED <<told, raced>>
    BY <1>7 DEF Deliver
  <2>2. CookieIsAsTold'
    <3>1. CASE answer.session = Keep
      BY <1>3, <2>1, <3>1 DEF Set, WebInv, CookieIsAsTold
    <3>2. CASE answer.session # Keep
      BY <1>1, <1>3, <1>7, <2>1, <3>2 DEF Set, CookieIsAsTold, NothingOlder, AsTold
    <3> QED BY <3>1, <3>2
  <2>3. \A o \in Requests : NothingOlder(requests[o])'
    BY <1>4, <2>1 DEF WebInv, NothingOlder, AsTold
  <2> QED BY <1>6, <2>2, <2>3 DEF WebInv
<1>8. CASE answer.changes
  <2>1. /\ told' = IF answer.session = None THEN None
                   ELSE [login |-> answer.session.login, preferences |-> answer.session.preferences]
        /\ raced' = \E other \in Requests \ {r} : MayWrite(requests[other])
    BY <1>8 DEF Deliver
  <2>2. answer.session # Keep /\ jar'.session = answer.session
    BY <1>1, <1>3, <1>8 DEF AnswerTyped, Set
  <2>3. CookieIsAsTold'
    BY <2>1, <2>2 DEF CookieIsAsTold, None
  <2>4. ASSUME NEW o \in Requests PROVE NothingOlder(requests[o])'
    <3>1. SUFFICES ASSUME o # r, ~raced'
                   PROVE  NothingOlder(requests[o])'
      BY <1>4 DEF NothingOlder
    <3>2. ~MayWrite(requests[o]) /\ requests'[o] = requests[o]
      BY <1>4, <2>1, <3>1
    <3>3. requests[o].phase = "sent" => requests[o].jar.session = None
      BY <3>2 DEF MayWrite
    <3> QED BY <3>2, <3>3 DEF MayWrite, NothingOlder
  <2> QED BY <1>6, <2>3, <2>4 DEF WebInv
<1> QED
  BY <1>1, <1>7, <1>8 DEF AnswerTyped

LEMMA WebTimeStep ==
  ASSUME WebInv, TimePasses
  PROVE  WebInv'
<1>1. /\ clock' = clock + 1 /\ UNCHANGED <<requests, begun, told, raced>>
      /\ jar \in Jar /\ clock \in Nat
  BY DEF TimePasses, WebInv, WebTyped
<1>2. PICK session, login : /\ jar' = [session |-> session, login |-> login]
                            /\ session \in {None, jar.session} /\ login \in {None, jar.login}
  BY DEF TimePasses
<1>3. jar' \in Jar /\ jar'.session \in {None, jar.session}
  BY <1>1, <1>2 DEF Jar
<1> QED
  BY <1>1, <1>3
  DEF WebInv, WebTyped, SentTyped, AnswerTyped, CookieIsAsTold, NothingOlder, AsTold

LEMMA WebInvHolds == WebSpec => []WebInv
<1>1. WebInit => WebInv
  <2> SUFFICES ASSUME WebInit PROVE WebInv
    OBVIOUS
  <2>1. \A r \in Requests : requests[r].phase = "idle"
    BY DEF WebInit, IdleRequest
  <2>2. jar \in Jar /\ jar.session = None
    BY DEF WebInit, Jar
  <2> QED
    BY <2>1, <2>2
    DEF WebInit, WebInv, WebTyped, SentTyped, AnswerTyped, CookieIsAsTold, NothingOlder
<1>2. WebInv /\ [WebNext]_webVars => WebInv'
  <2> SUFFICES ASSUME WebInv, [WebNext]_webVars PROVE WebInv'
    OBVIOUS
  <2>1. CASE UNCHANGED webVars
    BY <2>1
    DEF webVars, WebInv, WebTyped, SentTyped, AnswerTyped, CookieIsAsTold, NothingOlder, AsTold
  <2>2. ASSUME NEW login \in grants, EndGrant(login) PROVE WebInv'
    BY <2>2
    DEF EndGrant, WebInv, WebTyped, SentTyped, AnswerTyped, CookieIsAsTold, NothingOlder, AsTold
  <2> QED
    BY <2>1, <2>2, SendStep, WebHandleStep, DeliverStep, WebTimeStep DEF WebNext
<1> QED
  BY <1>1, <1>2, PTL DEF WebSpec

\* The session cookie is what the browser was last told, unless an answer raced
\* with a request that carried older cookies: for any number of requests, and
\* whatever tokens are refreshed in between (session.ts, auth route handlers).
THEOREM CookieTold == WebSpec => []CookieIsAsTold
BY WebInvHolds, PTL DEF WebInv

-----------------------------------------------------------------------------
(* Backtest.  Cash and the cost of what is held are the capital, the profits *)
(* of the sales and the fees of the purchases, because a sale leaves nothing *)
(* behind: the strategies sell all they hold, and the grid never buys.       *)

Asked ==
  /\ request \in [strategy : Strategies, preset : Presets]
  /\ Accepted(request.strategy, request.preset)
NotAsked ==
  /\ request = NoRequest /\ result = NoResult
  /\ history = <<>> /\ curve = <<>> /\ tradePnl = <<>>
  /\ account.cash = Capital /\ account.quantity = 0
Fraction == [num : Nat, den : Nat \ {0}]
BacktestTyped ==
  /\ Asked \/ NotAsked
  /\ account \in [cash : Nat, quantity : Nat, averagePrice : Nat, fees : Nat]
  /\ history \in Seq(Candles) /\ curve \in Seq(Nat) /\ tradePnl \in Seq(Int)
  /\ drawdown \in [peak : Nat \ {0}, worst : Fraction]
  /\ Len(curve) \in {Len(history), Len(history) - 1}

Held == IF account.quantity > 0 THEN 1 ELSE 0
CashIsAccounted ==
  request # NoRequest =>
    account.cash + account.averagePrice * account.quantity
      = Capital + SumFunctionOnSet(tradePnl, DOMAIN tradePnl)
        - (Len(tradePnl) + Held) * Fee(Entry(request.preset))
GridHoldsNothing == request # NoRequest /\ request.strategy = "grid" => account.quantity = 0
CurveIsEquity ==
  Len(curve) = Len(history) /\ curve # <<>> => curve[Len(curve)] = Equity(account)

\* The values a fall can be measured between, and what is known of all of them.
Values == <<Capital>> \o curve
PeakIsHighest == \A i \in DOMAIN Values : Values[i] =< drawdown.peak
Fall(v, w) == [num |-> v - w, den |-> v]
WorstIsWorst ==
  \A i, j \in DOMAIN Values : i < j => ~Greater(Fall(Values[i], Values[j]), drawdown.worst)

Finished == result # NoResult => Len(curve) = Len(history)

BacktestInv ==
  /\ BacktestTyped /\ Finished /\ CashIsAccounted /\ GridHoldsNothing /\ CurveIsEquity
  /\ PeakIsHighest /\ WorstIsWorst /\ MetricsAddUp

LEMMA ProductIsNat == \A x, y \in Nat : x * y \in Nat
OBVIOUS

LEMMA FeeType == \A amount \in Nat : Fee(amount) \in Nat /\ Fee(amount) =< amount
<1> SUFFICES ASSUME NEW amount \in Nat PROVE Fee(amount) \in Nat /\ Fee(amount) =< amount
  OBVIOUS
<1>1. FeePercent \in 0 .. 99
  BY BacktestAssumption
<1> DEFINE product == amount * FeePercent
<1>2. product \in Nat /\ product =< 100 * amount
  BY <1>1
<1>3. Fee(amount) = product \div 100
  BY DEF Fee
<1> HIDE DEF product
<1> QED BY <1>2, <1>3

LEMMA EntryType == \A preset \in Presets : Entry(preset) \in Nat
<1> SUFFICES ASSUME NEW preset \in Presets PROVE Entry(preset) \in Nat
  OBVIOUS
<1>1. Capital \in Nat /\ preset \in Nat
  BY BacktestAssumption
<1>2. Capital * preset \in Nat
  BY <1>1
<1> QED BY <1>2 DEF Entry

\* An entry buys a whole quantity.
LEMMA EntryIsWhole ==
  ASSUME NEW preset \in Presets, NEW candle \in Candles
  PROVE  /\ Entry(preset) \div candle.close \in Nat
         /\ candle.close * (Entry(preset) \div candle.close) = Entry(preset)
<1>1. Entry(preset) \in Nat /\ candle.close \in Nat \ {0} /\ Entry(preset) % candle.close = 0
  BY EntryType, BacktestAssumption DEF Entry
<1>2. \A n \in Nat, d \in Nat \ {0} : n \div d \in Nat /\ (n % d = 0 => d * (n \div d) = n)
  OBVIOUS
<1> QED BY <1>1, <1>2

\* The purchases spend the entry, and but for the grid, which never buys, the
\* sales leave nothing.
LEMMA SignalsAreWhole ==
  ASSUME Asked, account.quantity \in Nat, history \in Seq(Candles), history # <<>>
  PROVE  /\ Signal.side = "BUY" /\ account.quantity = 0 =>
              request.strategy # "grid" /\ Signal.quote = Entry(request.preset)
         /\ Signal.side = "SELL" /\ request.strategy # "grid" =>
              Signal.quantity = account.quantity
<1> DEFINE given(p) == WithCapital(p, request.preset)
<1>1. \A p : given(p).quote = Entry(request.preset)
  BY DEF WithCapital
<1>2. ASSUME request.strategy = "trend-following"
      PROVE  \/ Signal = Buy(Entry(request.preset))
             \/ Signal = Sell(account.quantity)
             \/ Signal = Hold
  <2>1. Signal = TrendProposal(given(Trend), history, Spent, account.quantity)
    BY <1>2 DEF Signal
  <2> QED BY <2>1, <1>1 DEF TrendProposal
<1>3. ASSUME request.strategy = "dca"
      PROVE  Signal = Buy(Entry(request.preset)) \/ Signal = Hold
  <2>1. Signal = DcaProposal(given(Dca), IF account.quantity = 0 THEN Never ELSE SinceEntry, Spent, Close)
    BY <1>3 DEF Signal
  <2> QED BY <2>1, <1>1 DEF DcaProposal
<1>4. ASSUME request.strategy = "breakout"
      PROVE  \/ Signal = Buy(Entry(request.preset))
             \/ Signal = Sell(account.quantity)
             \/ Signal = Hold
  <2>1. Signal = BreakoutProposal(given(Breakout), history, Never, Spent, account.quantity,
                                  account.averagePrice)
    BY <1>4 DEF Signal
  <2> QED BY <2>1, <1>1 DEF BreakoutProposal
<1>5. ASSUME request.strategy = "grid", account.quantity = 0 PROVE Signal = Hold
  <2> DEFINE orders == GridOrders(given(Grid), Close, 0, account.cash)
  <2>1. Signal = GridSignal(orders)
    BY <1>5 DEF Signal
  <2>2. \A i \in DOMAIN orders : ~(orders[i].side = "BUY" /\ Close =< orders[i].price)
    <3> DEFINE p == given(Grid)
               price(i) == p.lower + (i - 1) * ((p.upper - p.lower) \div (p.levels - 1))
    <3>1. Grid \in [lower : Int, upper : Int, levels : Int, maxVolatility : Int]
      BY BacktestAssumption
    <3>2. p.lower = Grid.lower /\ p.upper = Grid.upper /\ p.levels = Grid.levels
      BY <3>1 DEF WithCapital
    <3>3. p.levels >= 2
      BY <1>5 DEF Asked, Accepted, ValidGrid
    <3>4. \A a, b \in Int, n \in Int : n >= 2 => (a - b) \div (n - 1) \in Int
      OBVIOUS
    <3>5. \A k, d \in Int : k * d \in Int
      OBVIOUS
    <3>6. p.lower \in Int /\ (p.upper - p.lower) \div (p.levels - 1) \in Int
      BY <3>1, <3>2, <3>3, <3>4
    <3> HIDE DEF p
    <3>7. \A i \in Int : price(i) \in Int
      BY <3>5, <3>6
    <3>8. orders = <<>> \/
            /\ DOMAIN orders = 1 .. p.levels
            /\ \A i \in 1 .. p.levels :
                 /\ orders[i].side = IF price(i) < Close THEN "BUY" ELSE "SELL"
                 /\ orders[i].price = price(i)
      BY DEF GridOrders, p
    <3>9. Close \in Int
      BY BacktestAssumption DEF Close, Last
    <3>10. p.levels \in Int
      BY <3>1, <3>2
    <3> HIDE DEF price, orders
    <3>11. \A i \in DOMAIN orders : i \in 1 .. p.levels /\ i \in Int
      BY <3>8, <3>10
    <3> SUFFICES ASSUME NEW i \in DOMAIN orders
                 PROVE  ~(orders[i].side = "BUY" /\ Close =< orders[i].price)
      OBVIOUS
    <3>12. /\ i \in 1 .. p.levels /\ i \in Int /\ orders # <<>>
      BY <3>11
    <3>13. /\ orders[i].side = IF price(i) < Close THEN "BUY" ELSE "SELL"
           /\ orders[i].price = price(i)
      BY <3>8, <3>12
    <3>14. price(i) \in Int
      BY <3>7, <3>12
    <3>15. CASE price(i) < Close
      BY <3>9, <3>13, <3>14, <3>15
    <3>16. CASE ~(price(i) < Close)
      BY <3>13, <3>16
    <3> QED BY <3>15, <3>16
  <2> HIDE DEF orders
  <2> QED BY <2>1, <2>2, <1>5 DEF GridSignal
<1>6. request.strategy \in Strategies
  BY DEF Asked
<1> QED BY <1>2, <1>3, <1>4, <1>5, <1>6 DEF Strategies, Hold, Buy, Sell

-----------------------------------------------------------------------------
(* Quotients. *)

LEMMA ScaledOrder ==
  \A x, y \in Int, z \in Nat : /\ x =< y => x * z =< y * z
                               /\ z > 0 /\ x * z =< y * z => x =< y
OBVIOUS

LEMMA NotGreaterTransitive ==
  ASSUME NEW q, q.num \in Int, q.den \in Nat, NEW a \in Fraction, NEW b \in Fraction,
         ~Greater(q, a), ~Greater(a, b)
  PROVE  ~Greater(q, b)
<1>1. /\ a.num \in Nat /\ a.den \in Nat /\ a.den > 0 /\ b.num \in Nat /\ b.den \in Nat
      /\ q.num \in Int /\ q.den \in Nat
  BY DEF Fraction
<1> DEFINE qa == q.num * a.den
           aq == a.num * q.den
           ab == a.num * b.den
           ba == b.num * a.den
           qb == q.num * b.den
           bq == b.num * q.den
<1>2. qa \in Int /\ aq \in Int /\ ab \in Int /\ ba \in Int /\ qb \in Int /\ bq \in Int
  BY <1>1
<1>3. qa =< aq /\ ab =< ba
  BY <1>2 DEF Greater
<1>4. qa * b.den =< aq * b.den /\ ab * q.den =< ba * q.den
  <2> HIDE DEF qa, aq, ab, ba
  <2> QED BY <1>1, <1>2, <1>3, ScaledOrder
<1>5. qa * b.den = qb * a.den /\ aq * b.den = ab * q.den /\ ba * q.den = bq * a.den
  BY <1>1
<1>6. qb * a.den =< bq * a.den
  <2>1. /\ qa * b.den \in Int /\ ab * q.den \in Int /\ ba * q.den \in Int
    <3> HIDE DEF qa, aq, ab, ba
    <3> QED BY <1>1, <1>2
  <2> HIDE DEF qa, aq, ab, ba, qb, bq
  <2> QED BY <1>4, <1>5, <2>1
<1>7. qb =< bq
  <2> HIDE DEF qb, bq
  <2> QED BY <1>1, <1>2, <1>6, ScaledOrder
<1> QED BY <1>2, <1>7 DEF Greater

LEMMA LargerIsUpper ==
  ASSUME NEW a \in Fraction, NEW b \in Fraction
  PROVE  Larger(a, b) \in Fraction /\ ~Greater(a, Larger(a, b)) /\ ~Greater(b, Larger(a, b))
<1>1. /\ a.num * b.den \in Int /\ b.num * a.den \in Int
      /\ a.num * a.den \in Int /\ b.num * b.den \in Int
  BY DEF Fraction
<1> QED BY <1>1 DEF Larger, Greater

LEMMA MaxOfTwo ==
  ASSUME NEW a \in Nat, NEW b \in Nat
  PROVE  Max({a, b}) \in {a, b} /\ Max({a, b}) >= a /\ Max({a, b}) >= b
<1>1. IsFiniteSet({a, b})
  <2>1. {a, b} = {a} \cup {b}
    OBVIOUS
  <2>2. IsFiniteSet({a})
    BY FS_Singleton
  <2>3. IsFiniteSet({a} \cup {b})
    BY <2>2, FS_AddElement
  <2> QED BY <2>1, <2>3
<1>2. {a, b} # {} /\ {a, b} \subseteq Int /\ a \in {a, b} /\ b \in {a, b}
  OBVIOUS
<1> QED BY <1>1, <1>2, GreatestExists

\* A fall from a value to the last is at most the fall from the peak.
LEMMA FallFromPeak ==
  ASSUME NEW v \in Nat, NEW e \in Nat, NEW peak \in Nat \ {0}, v =< peak
  PROVE  ~Greater(Fall(v, e), [num |-> peak - e, den |-> peak])
<1>1. (v - e) * peak =< (peak - e) * v
  <2>1. (v - e) * peak = v * peak - e * peak /\ (peak - e) * v = peak * v - e * v
    OBVIOUS
  <2>2. v * e =< peak * e
    BY ScaledOrder
  <2>3. v * e \in Int /\ peak * e \in Int /\ v * peak \in Int
    OBVIOUS
  <2>4. v * e = e * v /\ peak * e = e * peak /\ v * peak = peak * v
    OBVIOUS
  <2> QED BY <2>1, <2>2, <2>3, <2>4
<1>2. (v - e) * peak \in Int /\ (peak - e) * v \in Int
  OBVIOUS
<1> QED BY <1>1, <1>2 DEF Fall, Greater

-----------------------------------------------------------------------------
(* The steps of a backtest. *)

LEMMA BacktestStart == BacktestInit => BacktestInv
<1> SUFFICES ASSUME BacktestInit PROVE BacktestInv
  OBVIOUS
<1>1. NotAsked
  BY DEF BacktestInit, NotAsked
<1>2. BacktestTyped
  BY <1>1, BacktestAssumption DEF BacktestInit, BacktestTyped, Fraction
<1>3. Values = <<Capital>> /\ DOMAIN Values = {1}
  BY BacktestAssumption DEF BacktestInit, Values
<1>4. PeakIsHighest /\ WorstIsWorst
  BY <1>3, BacktestAssumption DEF BacktestInit, PeakIsHighest, WorstIsWorst
<1> QED BY <1>1, <1>2, <1>4
  DEF BacktestInv, Finished, NotAsked, CashIsAccounted, GridHoldsNothing, CurveIsEquity, MetricsAddUp

LEMMA RunStep ==
  ASSUME BacktestInv, NEW strategy \in Strategies, NEW preset \in Presets, Run(strategy, preset)
  PROVE  BacktestInv'
<1>1. NotAsked
  BY DEF BacktestInv, BacktestTyped, Run, Asked, NoRequest, Strategies
<1>2. Asked'
  BY DEF Run, Asked, Accepted, WithCapital, Entry
<1>3. BacktestTyped'
  BY <1>2 DEF BacktestInv, BacktestTyped, Run
<1>4. CashIsAccounted'
  <2>1. DOMAIN tradePnl = {} /\ Len(tradePnl) = 0 /\ Held = 0
    BY <1>1 DEF NotAsked, Held
  <2>2. account.averagePrice * account.quantity = 0
    BY <1>1 DEF NotAsked, BacktestInv, BacktestTyped
  <2>3. Fee(Entry(preset)) \in Nat
    BY FeeType, EntryType
  <2>4. request'.preset = preset /\ UNCHANGED <<account, tradePnl>>
    BY DEF Run
  <2>5. SumFunctionOnSet(tradePnl, DOMAIN tradePnl) = 0
    BY <2>1, SumEmpty
  <2>6. Held' = 0
    BY <2>1, <2>4 DEF Held
  <2>7. account.cash = Capital /\ Capital \in Nat
    BY <1>1, BacktestAssumption DEF NotAsked
  <2> QED BY <2>1, <2>2, <2>3, <2>4, <2>5, <2>6, <2>7 DEF CashIsAccounted
<1>5. GridHoldsNothing'
  BY <1>1 DEF NotAsked, GridHoldsNothing, Run
<1>6. (CurveIsEquity /\ PeakIsHighest /\ WorstIsWorst)'
  <2>1. CurveIsEquity'
    BY <1>1 DEF NotAsked, CurveIsEquity, Run
  <2>2. UNCHANGED <<Values, drawdown>>
    BY DEF Values, Run
  <2>3. PeakIsHighest' /\ WorstIsWorst'
    BY <2>2 DEF BacktestInv, PeakIsHighest, WorstIsWorst
  <2> QED BY <2>1, <2>3
<1>7. MetricsAddUp'
  BY <1>1 DEF MetricsAddUp, Run, NotAsked
<1> QED BY <1>1, <1>3, <1>4, <1>5, <1>6, <1>7 DEF BacktestInv, Finished, NotAsked, Run

LEMMA ReadStep ==
  ASSUME BacktestInv, NEW candle \in Candles, ReadCandle(candle)
  PROVE  BacktestInv'
<1>1. Asked
  BY DEF BacktestInv, BacktestTyped, NotAsked, ReadCandle
<1>2. history' \in Seq(Candles) /\ Len(history') = Len(history) + 1
  BY DEF BacktestInv, BacktestTyped, ReadCandle
<1>3. BacktestTyped'
  <2>1. Asked'
    BY <1>1 DEF Asked, Accepted, WithCapital, Entry, ReadCandle
  <2> QED BY <1>2, <2>1 DEF BacktestInv, BacktestTyped, ReadCandle
<1>4. CurveIsEquity'
  BY <1>2 DEF CurveIsEquity, ReadCandle, BacktestInv, BacktestTyped
<1>5. (CashIsAccounted /\ GridHoldsNothing /\ PeakIsHighest /\ WorstIsWorst)'
  BY DEF BacktestInv, CashIsAccounted, Held, GridHoldsNothing, PeakIsHighest, WorstIsWorst,
         Values, ReadCandle
<1>6. MetricsAddUp'
  BY DEF MetricsAddUp, ReadCandle
<1> QED BY <1>3, <1>4, <1>5, <1>6 DEF BacktestInv, Finished, ReadCandle

\* What the strategy asks is carried out.
LEMMA TradeStep ==
  ASSUME BacktestInv, Asked, history # <<>>, Trade
  PROVE  /\ account' \in [cash : Nat, quantity : Nat, averagePrice : Nat, fees : Nat]
         /\ tradePnl' \in Seq(Int)
         /\ request' = request => CashIsAccounted' /\ GridHoldsNothing'
<1> DEFINE E == Entry(request.preset)
           F == Fee(E)
           sales == SumFunctionOnSet(tradePnl, DOMAIN tradePnl)
<1>1. /\ account \in [cash : Nat, quantity : Nat, averagePrice : Nat, fees : Nat]
      /\ history \in Seq(Candles) /\ tradePnl \in Seq(Int) /\ request # NoRequest
  BY DEF BacktestInv, BacktestTyped, Asked, NoRequest, Strategies
<1>2. request.preset \in Presets /\ E \in Nat /\ F \in Nat
  BY EntryType, FeeType DEF Asked
<1>3. PICK candle \in Candles : Close = candle.close
  BY <1>1 DEF Close, Last
<1>4. Close \in Nat \ {0} /\ E \div Close \in Nat /\ Close * (E \div Close) = E
  BY <1>2, <1>3, EntryIsWhole, BacktestAssumption
<1>5. /\ DOMAIN tradePnl = 1 .. Len(tradePnl) /\ Len(tradePnl) \in Nat
      /\ \A n \in DOMAIN tradePnl : tradePnl[n] \in Int
      /\ IsFiniteSet(DOMAIN tradePnl)
  <2>1. DOMAIN tradePnl = 1 .. Len(tradePnl) /\ Len(tradePnl) \in Nat
    BY <1>1
  <2>2. \A n \in DOMAIN tradePnl : tradePnl[n] \in Int
    BY <1>1, <2>1
  <2>3. IsFiniteSet(1 .. Len(tradePnl))
    BY <2>1, FS_Interval
  <2> QED BY <2>1, <2>2, <2>3
<1>6. sales \in Int
  BY <1>5, SumType
<1>7. account.cash + account.averagePrice * account.quantity
        = Capital + sales - (Len(tradePnl) + Held) * F
  BY <1>1 DEF BacktestInv, CashIsAccounted
<1>8. Capital \in Nat
  BY BacktestAssumption
<1> HIDE DEF E, F, sales
<1>9. CASE UNCHANGED <<account, tradePnl>>
  BY <1>1, <1>9 DEF BacktestInv, CashIsAccounted, GridHoldsNothing, Held
<1>10. CASE /\ Signal.side = "BUY" /\ account.quantity = 0
            /\ Signal.quote > 0 /\ Signal.quote + Fee(Signal.quote) =< account.cash
            /\ account' = Entered(Signal.quote) /\ UNCHANGED tradePnl
  <2>1. request.strategy # "grid" /\ Signal.quote = E
    BY <1>1, <1>10, SignalsAreWhole DEF E
  <2>2. E > 0 /\ E + F =< account.cash
    BY <1>10, <2>1 DEF F
  <2>3. account' = [cash |-> account.cash - E - F, quantity |-> E \div Close,
                    averagePrice |-> Close, fees |-> account.fees + F]
    BY <1>10, <2>1 DEF Entered, F
  <2>4. E \div Close > 0
    BY <1>2, <1>4, <2>2
  <2>5. account' \in [cash : Nat, quantity : Nat, averagePrice : Nat, fees : Nat]
    BY <1>1, <1>2, <1>4, <2>2, <2>3
  <2>6. account'.cash + account'.averagePrice * account'.quantity = account.cash - F
    <3>1. account'.cash = account.cash - E - F /\ account'.averagePrice * account'.quantity = E
      BY <1>4, <2>3
    <3> QED BY <1>1, <1>2, <3>1
  <2>7. account.averagePrice * account.quantity = 0 /\ Held = 0
    BY <1>1, <1>10 DEF Held
  <2>8. Held' = 1
    BY <2>3, <2>4 DEF Held
  <2>9. (Len(tradePnl) + 1) * F = (Len(tradePnl) + 0) * F + F
    BY <1>2, <1>5
  <2>10. Len(tradePnl) * F \in Int /\ (Len(tradePnl) + 0) * F \in Int
    BY <1>2, <1>5
  <2>11. account'.cash + account'.averagePrice * account'.quantity
           = Capital + sales - (Len(tradePnl) + 1) * F
    BY <1>1, <1>2, <1>6, <1>7, <1>8, <2>6, <2>7, <2>9, <2>10
  <2>12. request' = request => CashIsAccounted'
    BY <1>10, <2>8, <2>11 DEF CashIsAccounted, E, F, sales
  <2>13. request' = request => GridHoldsNothing'
    BY <2>1 DEF GridHoldsNothing
  <2> QED BY <1>1, <1>10, <2>5, <2>12, <2>13
<1>11. CASE /\ Signal.side = "SELL" /\ account.quantity > 0
            /\ account' = Left(Signal.quantity)
            /\ tradePnl' = Append(tradePnl, Pnl(Signal.quantity))
  <2> DEFINE q == account.quantity
             gross == q * Close
             gain == (Close - account.averagePrice) * q
             pnl == gain - Fee(gross)
             n == Len(tradePnl) + 1
  <2>1. request.strategy # "grid"
    BY <1>1, <1>11 DEF BacktestInv, GridHoldsNothing
  <2>2. Signal.quantity = q
    BY <1>1, <1>11, <2>1, SignalsAreWhole
  <2>3. gross \in Nat /\ Fee(gross) \in Nat /\ Fee(gross) =< gross /\ gain \in Int
    <3>1. q \in Nat /\ account.averagePrice \in Nat
      BY <1>1
    <3>2. gross \in Nat /\ gain \in Int
      BY <1>4, <3>1
    <3> QED BY <3>2, FeeType
  <2>4. gain = gross - account.averagePrice * q
    <3>1. q \in Nat /\ account.averagePrice \in Nat
      BY <1>1
    <3> QED BY <1>4, <3>1
  <2>5. account' = [cash |-> account.cash + gross - Fee(gross), quantity |-> q - q,
                    averagePrice |-> 0, fees |-> account.fees + Fee(gross)]
    BY <1>11, <2>2 DEF Left
  <2>6. tradePnl' = Append(tradePnl, pnl)
    BY <1>11, <2>2 DEF Pnl
  <2> HIDE DEF gross, gain
  <2>7. pnl \in Int
    BY <2>3
  <2> HIDE DEF pnl
  <2>8. /\ tradePnl' \in Seq(Int) /\ Len(tradePnl') = n
        /\ DOMAIN tradePnl' = DOMAIN tradePnl \cup {n} /\ n \notin DOMAIN tradePnl
        /\ tradePnl'[n] = pnl /\ \A i \in DOMAIN tradePnl : tradePnl'[i] = tradePnl[i]
    BY <1>1, <1>5, <2>6, <2>7
  <2> DEFINE after == tradePnl'
  <2>9. SumFunctionOnSet(after, DOMAIN after) = sales + pnl
    <3>1. SumFunctionOnSet(tradePnl, DOMAIN tradePnl) = SumFunctionOnSet(after, DOMAIN tradePnl)
      <4>1. \A i \in DOMAIN tradePnl : tradePnl[i] \in Int /\ tradePnl[i] = after[i]
        BY <1>5, <2>8
      <4> HIDE DEF after
      <4> QED BY <1>5, <4>1, SumEqual
    <3>2. SumFunctionOnSet(after, DOMAIN tradePnl \cup {n})
            = after[n] + SumFunctionOnSet(after, DOMAIN tradePnl)
      <4>1. /\ \A i \in DOMAIN tradePnl : after[i] \in Int
            /\ n \notin DOMAIN tradePnl /\ after[n] \in Int
        BY <1>5, <2>7, <2>8
      <4> HIDE DEF after, n
      <4> QED BY <1>5, <4>1, SumInsert
    <3>3. after[n] = pnl /\ DOMAIN after = DOMAIN tradePnl \cup {n}
      BY <2>8
    <3>4. sales = SumFunctionOnSet(tradePnl, DOMAIN tradePnl)
      BY DEF sales
    <3> HIDE DEF after, n
    <3> QED BY <1>6, <2>7, <3>1, <3>2, <3>3, <3>4
  <2>10. account' \in [cash : Nat, quantity : Nat, averagePrice : Nat, fees : Nat]
    BY <1>1, <2>3, <2>5
  <2>11. account'.cash + account'.averagePrice * account'.quantity
           = account.cash + gross - Fee(gross)
    BY <1>1, <2>3, <2>5
  <2>12. Held = 1 /\ Held' = 0
    BY <1>1, <1>11, <2>5 DEF Held
  <2>13. account.averagePrice * q \in Int /\ (Len(tradePnl) + 1) * F \in Int
    BY <1>1, <1>2, <1>5
  <2>14. account'.cash + account'.averagePrice * account'.quantity
           = Capital + (sales + pnl) - (n + 0) * F
    <3>1. account.cash + account.averagePrice * q = Capital + sales - (Len(tradePnl) + 1) * F
      BY <1>7, <2>12
    <3>2. (n + 0) * F = (Len(tradePnl) + 1) * F
      BY <1>5
    <3>3. account.cash \in Int
      BY <1>1
    <3> DEFINE cost == account.averagePrice * q
               fees == (Len(tradePnl) + 1) * F
    <3>4. account.cash = Capital + sales - fees - cost
      <4>1. account.cash + cost = Capital + sales - fees
        BY <3>1
      <4>2. cost \in Int /\ fees \in Int
        BY <2>13
      <4> HIDE DEF cost, fees
      <4> QED BY <1>6, <1>8, <3>3, <4>1, <4>2
    <3>5. cost \in Int /\ fees \in Int /\ gain = gross - cost /\ (n + 0) * F = fees
      BY <2>4, <2>13, <3>2
    <3>6. pnl = gain - Fee(gross)
      BY DEF pnl
    <3> HIDE DEF cost, fees
    <3>7. account.cash + gross - Fee(gross) = Capital + (sales + pnl) - fees
      BY <1>6, <1>8, <2>3, <3>4, <3>5, <3>6
    <3> QED BY <2>11, <3>5, <3>7
  <2>15. request' = request => CashIsAccounted'
    BY <2>8, <2>9, <2>12, <2>14 DEF CashIsAccounted, E, F
  <2>16. request' = request => GridHoldsNothing'
    BY <2>1 DEF GridHoldsNothing
  <2> QED BY <2>8, <2>10, <2>15, <2>16
<1> QED BY <1>9, <1>10, <1>11 DEF Trade

\* and the period is measured.
LEMMA MeasureStep ==
  ASSUME BacktestInv, NEW equity \in Nat, Measure(equity)
  PROVE  /\ curve' \in Seq(Nat) /\ Len(curve') = Len(curve) + 1
         /\ curve'[Len(curve) + 1] = equity
         /\ drawdown' \in [peak : Nat \ {0}, worst : Fraction]
         /\ PeakIsHighest' /\ WorstIsWorst'
<1> DEFINE peak == Max({drawdown.peak, equity})
           fall == [num |-> peak - equity, den |-> peak]
           n == Len(curve) + 2
<1>1. /\ curve \in Seq(Nat) /\ drawdown.peak \in Nat \ {0} /\ drawdown.worst \in Fraction
      /\ Capital \in Nat
  BY BacktestAssumption DEF BacktestInv, BacktestTyped
<1>2. curve' = Append(curve, equity)
  BY DEF Measure
<1>3. /\ curve' \in Seq(Nat) /\ Len(curve') = Len(curve) + 1 /\ curve'[Len(curve) + 1] = equity
      /\ \A i \in 1 .. Len(curve) : curve'[i] = curve[i]
  BY <1>1, <1>2
<1>4. /\ peak \in Nat \ {0} /\ peak >= drawdown.peak /\ peak >= equity
  <2>1. Max({drawdown.peak, equity}) \in {drawdown.peak, equity}
    BY <1>1, MaxOfTwo
  <2>2. peak >= drawdown.peak /\ peak >= equity
    BY <1>1, MaxOfTwo
  <2> HIDE DEF peak
  <2>3. peak \in {drawdown.peak, equity}
    BY <2>1 DEF peak
  <2> QED BY <1>1, <2>2, <2>3
<1> HIDE DEF peak
<1>5. fall \in Fraction
  BY <1>4 DEF Fraction
<1>6. drawdown' = [peak |-> peak, worst |-> Larger(drawdown.worst, fall)]
  BY DEF Measure, peak
<1> HIDE DEF fall
<1>7. /\ drawdown'.peak = peak /\ drawdown'.worst \in Fraction
      /\ ~Greater(drawdown.worst, drawdown'.worst) /\ ~Greater(fall, drawdown'.worst)
      /\ drawdown' \in [peak : Nat \ {0}, worst : Fraction]
  BY <1>1, <1>4, <1>5, <1>6, LargerIsUpper
<1>8. /\ DOMAIN Values = 1 .. Len(curve) + 1
      /\ \A i \in DOMAIN Values : Values[i] \in Nat
  BY <1>1 DEF Values
<1>9. /\ DOMAIN Values' = DOMAIN Values \cup {n} /\ n \notin DOMAIN Values
      /\ \A i \in DOMAIN Values : i < n /\ Values'[i] = Values[i]
      /\ Values'[n] = equity
  <2>1. Values = <<Capital>> \o curve /\ Values' = <<Capital>> \o curve'
    BY DEF Values
  <2>2. \A s \in Seq(Nat) : LET v == <<Capital>> \o s IN
          /\ DOMAIN v = 1 .. Len(s) + 1
          /\ v[1] = Capital /\ \A i \in 1 .. Len(s) : v[i + 1] = s[i]
    BY <1>1
  <2>3. Len(curve) \in Nat /\ Len(curve') = Len(curve) + 1
    BY <1>1, <1>3
  <2>4. /\ DOMAIN Values' = 1 .. Len(curve) + 2
        /\ Values'[1] = Capital /\ \A i \in 1 .. Len(curve) + 1 : Values'[i + 1] = curve'[i]
    <3>1. DOMAIN Values' = 1 .. Len(curve') + 1
      BY <1>3, <2>1, <2>2
    <3>2. Values'[1] = Capital /\ \A i \in 1 .. Len(curve') : Values'[i + 1] = curve'[i]
      BY <1>3, <2>1, <2>2
    <3> QED BY <2>3, <3>1, <3>2
  <2>5. Values[1] = Capital /\ \A i \in 1 .. Len(curve) : Values[i + 1] = curve[i]
    BY <1>1, <2>1, <2>2
  <2>6. Values'[n] = equity
    <3>1. Len(curve) + 1 \in 1 .. Len(curve) + 1 /\ n = (Len(curve) + 1) + 1
      BY <2>3
    <3> QED BY <1>3, <2>4, <3>1
  <2>7. \A i \in 1 .. Len(curve) + 1 : Values'[i] = Values[i]
    <3> SUFFICES ASSUME NEW i \in 1 .. Len(curve) + 1 PROVE Values'[i] = Values[i]
      OBVIOUS
    <3>1. CASE i = 1
      BY <2>4, <2>5, <3>1
    <3>2. CASE i # 1
      <4>1. i - 1 \in 1 .. Len(curve) /\ i - 1 \in 1 .. Len(curve) + 1 /\ (i - 1) + 1 = i
        BY <2>3, <3>2
      <4> QED BY <1>3, <2>4, <2>5, <4>1
    <3> QED BY <3>1, <3>2
  <2> QED BY <1>8, <2>3, <2>4, <2>6, <2>7
<1>10. \A i \in DOMAIN Values : Values[i] =< peak
  BY <1>1, <1>4, <1>8 DEF BacktestInv, PeakIsHighest
<1>11. PeakIsHighest'
  BY <1>4, <1>7, <1>9, <1>10 DEF PeakIsHighest
<1>12. \A i \in DOMAIN Values : ~Greater(Fall(Values[i], equity), drawdown'.worst)
  <2> SUFFICES ASSUME NEW i \in DOMAIN Values
               PROVE  ~Greater(Fall(Values[i], equity), drawdown'.worst)
    OBVIOUS
  <2>1. ~Greater(Fall(Values[i], equity), fall)
    BY <1>4, <1>8, <1>10, FallFromPeak DEF fall
  <2>2. Fall(Values[i], equity).num \in Int /\ Fall(Values[i], equity).den \in Nat
    BY <1>8 DEF Fall
  <2> QED BY <1>5, <1>7, <2>1, <2>2, NotGreaterTransitive
<1>13. \A i, j \in DOMAIN Values : i < j => ~Greater(Fall(Values[i], Values[j]), drawdown'.worst)
  <2> SUFFICES ASSUME NEW i \in DOMAIN Values, NEW j \in DOMAIN Values, i < j
               PROVE  ~Greater(Fall(Values[i], Values[j]), drawdown'.worst)
    OBVIOUS
  <2>1. ~Greater(Fall(Values[i], Values[j]), drawdown.worst)
    BY DEF BacktestInv, WorstIsWorst
  <2>2. Fall(Values[i], Values[j]).num \in Int /\ Fall(Values[i], Values[j]).den \in Nat
    BY <1>8 DEF Fall
  <2> QED BY <1>1, <1>7, <2>1, <2>2, NotGreaterTransitive
<1>14. WorstIsWorst'
  <2> SUFFICES ASSUME NEW i \in DOMAIN Values', NEW j \in DOMAIN Values', i < j
               PROVE  ~Greater(Fall(Values'[i], Values'[j]), drawdown'.worst)
    BY DEF WorstIsWorst, Fall, Greater
  <2>1. i \in Int /\ j \in Int /\ n \in Int
    BY <1>1, <1>8, <1>9
  <2>2. i # n
    BY <1>9, <2>1
  <2> QED BY <1>9, <1>12, <1>13, <2>2
<1> QED BY <1>3, <1>7, <1>11, <1>14

LEMMA CandleStep ==
  ASSUME BacktestInv, Candle
  PROVE  BacktestInv'
<1>1. /\ history \in Seq(Candles) /\ curve \in Seq(Nat) /\ Len(curve) \in Nat
      /\ Len(curve) < Len(history) /\ Len(history) = Len(curve) + 1
  BY DEF BacktestInv, BacktestTyped, Candle
<1>2. history # <<>> /\ Asked
  BY <1>1 DEF BacktestInv, BacktestTyped, NotAsked
<1>3. UNCHANGED <<request, history, result>> /\ Trade /\ Measure(Equity(account'))
  BY DEF Candle
<1>4. /\ account' \in [cash : Nat, quantity : Nat, averagePrice : Nat, fees : Nat]
      /\ tradePnl' \in Seq(Int) /\ CashIsAccounted' /\ GridHoldsNothing'
  BY <1>2, <1>3, TradeStep
<1> DEFINE equity == Equity(account')
<1>5. equity \in Nat
  <2>1. Close \in Nat
    BY <1>1, <1>2, BacktestAssumption DEF Close, Last
  <2>2. account'.quantity * Close \in Nat
    BY <1>4, <2>1
  <2> QED BY <1>4, <2>2 DEF Equity
<1>6. /\ curve' \in Seq(Nat) /\ Len(curve') = Len(curve) + 1
      /\ curve'[Len(curve) + 1] = equity
      /\ drawdown' \in [peak : Nat \ {0}, worst : Fraction]
      /\ PeakIsHighest' /\ WorstIsWorst'
  <2> HIDE DEF equity
  <2>1. Measure(equity)
    BY <1>3 DEF equity
  <2> QED BY <1>5, <2>1, MeasureStep
<1>7. CurveIsEquity'
  <2>1. Close' = Close
    BY <1>3 DEF Close
  <2>2. Equity(account)' = equity
    BY <2>1 DEF Equity
  <2> QED BY <1>6, <2>2 DEF CurveIsEquity
<1>8. BacktestTyped'
  <2>1. Asked'
    BY <1>2, <1>3 DEF Asked, Accepted, WithCapital, Entry
  <2> QED BY <1>1, <1>3, <1>4, <1>6, <2>1 DEF BacktestTyped
<1>9. MetricsAddUp'
  <2>1. result = NoResult
    BY <1>1 DEF BacktestInv, Finished
  <2> QED BY <1>3, <2>1 DEF MetricsAddUp
<1>10. Finished'
  BY <1>1, <1>3 DEF BacktestInv, Finished
<1> QED BY <1>4, <1>6, <1>7, <1>8, <1>9, <1>10 DEF BacktestInv

\* What the sales gained less what they lost is what they made.
LEMMA GainsLessLosses ==
  ASSUME NEW f \in Seq(Int)
  PROVE  LET completed == {n \in DOMAIN f : f[n] # 0}
             gains == {n \in completed : f[n] > 0}
             losses == {n \in completed : f[n] < 0}
         IN /\ SumFunctionOnSet(f, gains) + SumFunctionOnSet(f, losses)
                 = SumFunctionOnSet(f, DOMAIN f)
            /\ SumFunctionOnSet(f, gains) \in Int /\ SumFunctionOnSet(f, losses) \in Int
            /\ Cardinality(completed) \in Nat
<1> DEFINE completed == {n \in DOMAIN f : f[n] # 0}
           gains == {n \in completed : f[n] > 0}
           losses == {n \in completed : f[n] < 0}
           rest == DOMAIN f \ gains
           none == rest \ losses
<1>1. IsFiniteSet(DOMAIN f) /\ \A n \in DOMAIN f : f[n] \in Int
  <2>1. DOMAIN f = 1 .. Len(f) /\ Len(f) \in Nat
    OBVIOUS
  <2>2. IsFiniteSet(1 .. Len(f))
    BY <2>1, FS_Interval
  <2> QED BY <2>1, <2>2
<1>2. /\ gains \subseteq DOMAIN f /\ rest \subseteq DOMAIN f /\ losses \subseteq rest
      /\ none \subseteq rest /\ completed \subseteq DOMAIN f
      /\ \A n \in none : f[n] = 0
  BY <1>1
<1> HIDE DEF completed, gains, losses, none
<1>3. IsFiniteSet(gains) /\ IsFiniteSet(rest) /\ IsFiniteSet(losses) /\ IsFiniteSet(none)
      /\ IsFiniteSet(completed)
  BY <1>1, <1>2, FS_Subset
<1>4. SumFunctionOnSet(f, DOMAIN f) = SumFunctionOnSet(f, gains) + SumFunctionOnSet(f, rest)
  BY <1>1, <1>2, SumSplit
<1> HIDE DEF rest
<1>5. SumFunctionOnSet(f, rest) = SumFunctionOnSet(f, losses) + SumFunctionOnSet(f, none)
  <2>1. \A n \in rest : f[n] \in Int
    BY <1>1, <1>2
  <2> QED BY <1>2, <1>3, <2>1, SumSplit DEF none
<1>6. SumFunctionOnSet(f, none) = 0
  BY <1>2, <1>3, SumZero
<1>7. SumFunctionOnSet(f, gains) \in Int /\ SumFunctionOnSet(f, losses) \in Int
  <2>1. \A n \in gains \cup losses : f[n] \in Int
    BY <1>1, <1>2
  <2> QED BY <1>3, <2>1, SumType
<1>8. Cardinality(completed) \in Nat
  BY <1>3, FS_CardinalityType
<1> QED BY <1>4, <1>5, <1>6, <1>7, <1>8 DEF completed, gains, losses

LEMMA StoreStep ==
  ASSUME BacktestInv, StoreResult
  PROVE  BacktestInv'
<1> DEFINE completed == {n \in DOMAIN tradePnl : tradePnl[n] # 0}
           gains == {n \in completed : tradePnl[n] > 0}
           losses == {n \in completed : tradePnl[n] < 0}
           sales == SumFunctionOnSet(tradePnl, DOMAIN tradePnl)
           paper == (Close - account.averagePrice) * account.quantity
           purchases == Len(tradePnl) + IF account.quantity > 0 THEN 1 ELSE 0
           F == Fee(Entry(request.preset))
<1>1. UNCHANGED <<request, history, account, curve, tradePnl, drawdown>>
  BY DEF StoreResult
<1>2. Asked /\ request # NoRequest
  BY DEF BacktestInv, BacktestTyped, NotAsked, StoreResult
<1>3. BacktestTyped'
  <2>1. Asked'
    BY <1>1, <1>2 DEF Asked, Accepted, WithCapital, Entry
  <2> QED BY <1>1, <2>1 DEF BacktestInv, BacktestTyped
<1>4. /\ tradePnl \in Seq(Int) /\ curve \in Seq(Nat) /\ history \in Seq(Candles) /\ history # <<>>
      /\ account \in [cash : Nat, quantity : Nat, averagePrice : Nat, fees : Nat]
      /\ Len(curve) = Len(history)
  BY DEF BacktestInv, BacktestTyped, StoreResult
<1>5. /\ result'.gained = SumFunctionOnSet(tradePnl, gains)
      /\ result'.lost = -SumFunctionOnSet(tradePnl, losses)
      /\ result'.absoluteReturn = Last(curve) - Capital
      /\ result'.maxDrawdown = drawdown.worst
  BY DEF StoreResult
<1>6. result'.gained - result'.lost = sales /\ sales \in Int
  <2>1. /\ SumFunctionOnSet(tradePnl, gains) + SumFunctionOnSet(tradePnl, losses) = sales
        /\ SumFunctionOnSet(tradePnl, gains) \in Int /\ SumFunctionOnSet(tradePnl, losses) \in Int
    BY <1>4, GainsLessLosses
  <2> HIDE DEF gains, losses, sales
  <2> QED BY <1>5, <2>1
<1>7. Close \in Nat /\ Capital \in Nat
  BY <1>4, BacktestAssumption DEF Close, Last
<1>8. Last(curve) = account.cash + account.quantity * Close
  <2>1. curve # <<>>
    BY <1>4
  <2> QED BY <1>4, <2>1 DEF Last, BacktestInv, CurveIsEquity, Equity
<1>9. account.cash + account.averagePrice * account.quantity = Capital + sales - purchases * F
  <2>1. purchases = Len(tradePnl) + Held
    BY DEF Held
  <2> HIDE DEF purchases
  <2>2. CashIsAccounted
    BY DEF BacktestInv
  <2>3. account.cash + account.averagePrice * account.quantity
          = Capital + SumFunctionOnSet(tradePnl, DOMAIN tradePnl)
            - (Len(tradePnl) + Held) * Fee(Entry(request.preset))
    BY <1>2, <2>2 DEF CashIsAccounted
  <2> QED BY ONLY <2>1, <2>3
<1>10. F \in Nat /\ purchases \in Nat
  <2>1. request.preset \in Presets
    BY <1>2 DEF Asked
  <2>2. Entry(request.preset) \in Nat
    BY <2>1, EntryType
  <2>3. F \in Nat
    BY <2>2, FeeType
  <2>4. Len(tradePnl) \in Nat
    BY <1>4
  <2> QED BY <2>3, <2>4
<1>11. result'.absoluteReturn = sales + paper - purchases * F
  <2> DEFINE cost == account.averagePrice * account.quantity
             worth == account.quantity * Close
             fees == purchases * F
  <2>1. cost \in Int /\ worth \in Int /\ account.cash \in Int
    BY <1>4, <1>7
  <2>2. paper = worth - cost
    <3>1. \A x, y, z \in Int : (x - y) * z = z * x - y * z
      OBVIOUS
    <3>2. Close \in Int /\ account.averagePrice \in Int /\ account.quantity \in Int
      BY <1>4, <1>7
    <3>3. (Close - account.averagePrice) * account.quantity
            = account.quantity * Close - account.averagePrice * account.quantity
      BY <3>1, <3>2
    <3> QED BY ONLY <3>3
  <2>3. fees \in Int
    BY <1>10
  <2>4. result'.absoluteReturn = account.cash + worth - Capital
    <3>1. result'.absoluteReturn = Last(curve) - Capital
      BY <1>5
    <3>2. Last(curve) = account.cash + worth
      BY ONLY <1>8
    <3> HIDE DEF worth
    <3> QED BY <1>7, <2>1, <3>1, <3>2
  <2>5. account.cash + cost = Capital + sales - fees
    BY <1>9
  <2> HIDE DEF cost, worth, fees, sales, paper
  <2>6. result'.absoluteReturn = sales + paper - fees
    BY <1>6, <1>7, <2>1, <2>2, <2>3, <2>4, <2>5
  <2> QED BY <2>6 DEF fees
<1>12. \A i, j \in DOMAIN Values : i < j => ~Greater(Fall(Values[i], Values[j]), result'.maxDrawdown)
  BY <1>5 DEF BacktestInv, WorstIsWorst
<1>13. MetricsAddUp'
  <2>1. Close' = Close
    BY <1>1 DEF Close
  <2>2. result'.absoluteReturn = result'.gained - result'.lost + paper - purchases * F
    BY <1>6, <1>11
  <2> HIDE DEF paper, purchases, F
  <2>3. paper' = paper /\ purchases' = purchases /\ F' = F
    BY <1>1, <2>1 DEF paper, purchases, F, Fee, Entry
  <2> QED BY <1>1, <1>12, <2>1, <2>2, <2>3 DEF MetricsAddUp, Values, Fall, Greater, paper, purchases, F, Fee, Entry
<1>14. (CashIsAccounted /\ GridHoldsNothing /\ CurveIsEquity /\ PeakIsHighest /\ WorstIsWorst)'
  <2>1. UNCHANGED <<Values, drawdown, request, account, tradePnl, Close>>
    BY <1>1 DEF Values, Close
  <2>2. (PeakIsHighest /\ WorstIsWorst)'
    BY <2>1 DEF BacktestInv, PeakIsHighest, WorstIsWorst, Fall, Greater
  <2>3. (CashIsAccounted /\ GridHoldsNothing)'
    BY <2>1 DEF BacktestInv, CashIsAccounted, GridHoldsNothing, Held, Fee, Entry
  <2>4. CurveIsEquity'
    BY <1>1, <2>1 DEF BacktestInv, CurveIsEquity, Equity
  <2> QED BY <2>2, <2>3, <2>4
<1>15. Finished'
  BY <1>1, <1>4 DEF Finished
<1> QED BY <1>3, <1>13, <1>14, <1>15 DEF BacktestInv

LEMMA BacktestStep == BacktestInv /\ [BacktestNext]_backtestVars => BacktestInv'
<1> SUFFICES ASSUME BacktestInv, [BacktestNext]_backtestVars PROVE BacktestInv'
  OBVIOUS
<1>1. CASE UNCHANGED backtestVars
  <2>1. UNCHANGED <<request, history, account, curve, tradePnl, drawdown, result>>
    BY <1>1 DEF backtestVars
  <2>2. BacktestTyped'
    BY <2>1 DEF BacktestInv, BacktestTyped, Asked, NotAsked, Accepted, WithCapital, Entry
  <2>3. (CashIsAccounted /\ GridHoldsNothing /\ CurveIsEquity /\ Finished)'
    BY <2>1 DEF BacktestInv, CashIsAccounted, GridHoldsNothing, Held, Fee, Entry, CurveIsEquity,
                Equity, Close, Finished
  <2>4. (PeakIsHighest /\ WorstIsWorst)'
    BY <2>1 DEF BacktestInv, PeakIsHighest, WorstIsWorst, Values, Fall, Greater
  <2>5. MetricsAddUp'
    BY <2>1 DEF BacktestInv, MetricsAddUp, Close, Fee, Entry, Greater
  <2> QED BY <2>2, <2>3, <2>4, <2>5 DEF BacktestInv
<1>2. ASSUME NEW strategy \in Strategies, NEW preset \in Presets, Run(strategy, preset)
      PROVE  BacktestInv'
  BY <1>2, RunStep
<1>3. ASSUME NEW candle \in Candles, ReadCandle(candle) PROVE BacktestInv'
  BY <1>3, ReadStep
<1>4. CASE Candle
  BY <1>4, CandleStep
<1>5. CASE StoreResult
  BY <1>5, StoreStep
<1> QED BY <1>1, <1>2, <1>3, <1>4, <1>5 DEF BacktestNext

\* For any candles, capital, fee, presets and parameters with which an entry buys
\* a whole quantity: the stored return is what the sales made and the paper
\* profit, less the fees of the purchases, and no fall from an earlier equity to
\* a later one exceeds the stored drawdown (packages/backtesting).
THEOREM MetricsAreRight == BacktestSpec => []MetricsAddUp
<1>1. BacktestInv => MetricsAddUp
  BY DEF BacktestInv
<1> QED BY <1>1, BacktestStart, BacktestStep, PTL DEF BacktestSpec
=============================================================================
