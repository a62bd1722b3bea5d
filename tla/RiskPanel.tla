------------------------------ MODULE RiskPanel ------------------------------
(***************************************************************************)
(* The risk page (risk-panel.tsx): it shows the limits of the selected bot *)
(* and saves what it shows.  Every selection sends a request of its own,   *)
(* the shown limits stay until an answer replaces them, and nothing ties   *)
(* an answer to the selection of its time.                                 *)
(***************************************************************************)
EXTENDS Integers

CONSTANTS Panelled,     \* the bots of the user that the page lists
          FirstListed,  \* the one that heads the list
          LimitValues,  \* values of a limit
          Slot          \* requests of the page that are under way at once

ASSUME PanelAssumption == FirstListed \in Panelled

VARIABLES
  profiles,   \* RiskProfile row of each bot
  panel,      \* selected, risk and status of the page
  underway    \* the requests that the page has sent and not seen answered

panelVars == <<profiles, panel, underway>>

-----------------------------------------------------------------------------
\* A profile: its name, unique among those of the user and made from its bot's;
\* the limits; and whether the counts among them are the numbers that the API
\* asks for or the text of an input.  What a page shows is such a record, too.
RiskRow == [name : Panelled, limit : LimitValues, counts : {"number", "text"}]
NoneSelected == "none"
NoRisk == [name |-> "none"]
FreeSlot == [kind |-> "none", answer |-> "none"]
RiskCall(kind, b, body) == [kind |-> kind, bot |-> b, body |-> body, answer |-> "awaited"]

PanelInit ==
  /\ profiles \in {p \in [Panelled -> RiskRow] :
                     \A b \in Panelled : p[b].name = b /\ p[b].counts = "number"}
  /\ panel = [selected |-> NoneSelected, risk |-> NoRisk, status |-> "none"]
  /\ underway = [s \in Slot |-> FreeSlot]

ShowPanel(selected, risk, status) ==
  panel' = [selected |-> selected, risk |-> risk, status |-> status]
SendRisk(kind, b, body) ==
  \E s \in Slot : /\ underway[s] = FreeSlot
                  /\ underway' = [underway EXCEPT ![s] = RiskCall(kind, b, body)]

\* The list arrives, its first bot is selected; the user selects another.  Either
\* sends for the limits and leaves those shown where they are.
SelectBot(b) ==
  /\ panel.selected # b
  /\ panel.selected = NoneSelected => b = FirstListed
  /\ ShowPanel(b, panel.risk, "none")
  /\ SendRisk("load", b, NoRisk)
  /\ UNCHANGED profiles

\* The user types; the text of a count stays a text.
EditLimit(limit) ==
  /\ panel.risk # NoRisk
  /\ ShowPanel(panel.selected, [panel.risk EXCEPT !.limit = limit], panel.status)
  /\ UNCHANGED <<profiles, underway>>
EditCount ==
  /\ panel.risk # NoRisk
  /\ ShowPanel(panel.selected, [panel.risk EXCEPT !.counts = "text"], panel.status)
  /\ UNCHANGED <<profiles, underway>>

SaveRisk ==
  /\ panel.risk # NoRisk /\ panel.selected # NoneSelected
  /\ panel.status # "saving"
  /\ ShowPanel(panel.selected, panel.risk, "saving")
  /\ SendRisk("save", panel.selected, panel.risk)
  /\ UNCHANGED profiles

\* The API answers, out of order as may be: a load reads the row; a save is
\* refused for what BotLimits says, for a count that is text, or by the unique
\* index on the user and the name, which the body of a save carries.
NameIsFreeAnyway(b, name) == TRUE
NameIsFree(b, name) == \A c \in Panelled \ {b} : profiles[c].name # name
Stores(call) == call.body.counts = "number" /\ NameIsFree(call.bot, call.body.name)
Reply(call, answer, body) == [kind |-> call.kind, bot |-> call.bot, body |-> body, answer |-> answer]
Answered(s, answer, body) == underway' = [underway EXCEPT ![s] = Reply(underway[s], answer, body)]
Await(s, kind) == underway[s].kind = kind /\ underway[s].answer = "awaited"
AnswerLoad(s) ==
  /\ Await(s, "load")
  /\ Answered(s, "given", profiles[underway[s].bot])
  /\ UNCHANGED <<profiles, panel>>
AnswerSave(s) ==
  /\ Await(s, "save")
  /\ Stores(underway[s])
  /\ profiles' = [profiles EXCEPT ![underway[s].bot] = underway[s].body]
  /\ Answered(s, "given", underway[s].body)
  /\ UNCHANGED panel
RefuseRisk(s) ==
  /\ underway[s].answer = "awaited"
  /\ Answered(s, "refused", underway[s].body)
  /\ UNCHANGED <<profiles, panel>>

\* The page takes an answer, whatever is selected by now.
Taken(call) ==
  IF call.answer = "refused" THEN ShowPanel(panel.selected, panel.risk, "unavailable")
  ELSE IF call.kind = "load" THEN ShowPanel(panel.selected, call.body, panel.status)
  ELSE ShowPanel(panel.selected, panel.risk, "saved")
TakeAnswer(s) ==
  /\ underway[s].answer \in {"given", "refused"}
  /\ Taken(underway[s])
  /\ underway' = [underway EXCEPT ![s] = FreeSlot]
  /\ UNCHANGED profiles

PanelNext ==
  \/ \E b \in Panelled : SelectBot(b)
  \/ \E limit \in LimitValues : EditLimit(limit)
  \/ EditCount \/ SaveRisk
  \/ \E s \in Slot : AnswerLoad(s) \/ AnswerSave(s) \/ RefuseRisk(s) \/ TakeAnswer(s)

PanelSpec == PanelInit /\ [][PanelNext]_panelVars

-----------------------------------------------------------------------------
(* Properties. *)

PanelTypeOK ==
  /\ profiles \in [Panelled -> RiskRow]
  /\ panel.selected \in Panelled \cup {NoneSelected} /\ panel.risk \in RiskRow \cup {NoRisk}
  /\ panel.status \in {"none", "saving", "saved", "unavailable"}

\* However answers are late or overtaken, no bot is given the limits that the
\* page shows for another: the page would send them (risk-panel.tsx:50), and only
\* the name that travels with them has the database refuse (schema.prisma:562).
LimitsStayWithTheirBot == \A b \in Panelled : profiles[b].name = b
=============================================================================
