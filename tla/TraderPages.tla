----------------------------- MODULE TraderPages -----------------------------
(***************************************************************************)
(* The page of a user's bots: the list with the controls of each bot       *)
(* (bot-controls.tsx) and the wizard that makes a new one                  *)
(* (bot-create-wizard.tsx) in two calls, a POST that stores it as a DRAFT  *)
(* and a PATCH that makes it READY.  The page shows what it was rendered   *)
(* with and what its own answers told it; calls get lost, the user leaves, *)
(* a second click overlaps the first, and the worker blocks bots.          *)
(***************************************************************************)
EXTENDS Integers

CONSTANTS BotName,    \* names the user may give
          Click,      \* clicks on `create' that are at work at once
          Followed,   \* bound: those whose buttons the user presses
          MaxLost     \* bound on the calls that are lost and the pages left

ASSUME PagesAssumption == Followed \subseteq BotName /\ MaxLost \in Nat

VARIABLES
  made,      \* status of the bot of each name, or "none"
  listed,    \* the status that the page shows of it
  pressed,   \* what the controls of each listed bot wait for
  wizard,    \* step and form of the wizard
  clicks,    \* what each click on `create' waits for
  mishaps,   \* calls lost and pages left
  cutShort,  \* no variable of the code: the bots whose making was broken off
  unheard    \* nor this: the bots with a change whose answer was lost, or with a
             \* block that overtook a pause or a stop

pageHistory == <<mishaps, cutShort, unheard>>
pageVars == <<made, listed, pressed, wizard, clicks, pageHistory>>

-----------------------------------------------------------------------------
Steps == 0 .. 4
Blank == [step |-> 0, chosen |-> FALSE, name |-> ""]
NotPressed == [phase |-> "idle"]
NoClick == [phase |-> "none"]
Making(phase, n) == [phase |-> phase, name |-> n]

\* The page is opened; some bots were made and started before.
PagesInit ==
  /\ made \in [BotName -> {"none", "RUNNING"}]
  /\ listed = made
  /\ pressed = [n \in BotName |-> NotPressed]
  /\ wizard = Blank
  /\ clicks = [c \in Click |-> NoClick]
  /\ mishaps = 0
  /\ cutShort = {}
  /\ unheard = {}

FillForm(record) == wizard' = record /\ UNCHANGED <<made, listed, pressed, clicks, pageHistory>>

-----------------------------------------------------------------------------
(* The form, whose values stay while it is closed and while a click is at work. *)

\* A strategy is chosen by its version; its key, which the parameters would be
\* made for, is looked up among the definitions and never found.
ChooseStrategy == wizard.step = 0 /\ FillForm([wizard EXCEPT !.chosen = TRUE])
NameBot(n) == wizard.step = 1 /\ FillForm([wizard EXCEPT !.name = n])
NextStep ==
  /\ wizard.step < 4
  /\ wizard.step = 0 => wizard.chosen
  /\ FillForm([wizard EXCEPT !.step = @ + 1])
PreviousStep == wizard.step > 0 /\ FillForm([wizard EXCEPT !.step = @ - 1])

\* The button asks for a strategy and a name, and not whether it was clicked before.
Follow(c, phase, n) == clicks' = [clicks EXCEPT ![c] = Making(phase, n)]
ClickCreate(c) ==
  /\ clicks[c] = NoClick
  /\ wizard.step = 4 /\ wizard.chosen /\ wizard.name # ""
  /\ Follow(c, "posting", wizard.name)
  /\ UNCHANGED <<made, listed, pressed, wizard, pageHistory>>

-----------------------------------------------------------------------------
(* The API: BotsService.create and changeStatus. *)

\* What the API refuses besides (limits, an inactive strategy, capital that
\* another bot holds, the plan) it may refuse at any time.  A name is taken once.
Create(c) ==
  LET n == clicks[c].name IN
  /\ clicks[c].phase = "posting"
  /\ made[n] = "none"
  /\ made' = [made EXCEPT ![n] = "DRAFT"]
  /\ Follow(c, "created", n)
  /\ UNCHANGED <<listed, pressed, wizard, pageHistory>>
MakeReady(c) ==
  LET n == clicks[c].name IN
  /\ clicks[c].phase = "readying"
  /\ made[n] = "DRAFT"
  /\ made' = [made EXCEPT ![n] = "READY"]
  /\ Follow(c, "ready", n)
  /\ UNCHANGED <<listed, pressed, wizard, pageHistory>>
Broken(c) == IF clicks[c].phase \in {"created", "readying"} THEN {clicks[c].name} ELSE {}
RefuseMaking(c) ==
  /\ clicks[c].phase \in {"posting", "readying"}
  /\ Follow(c, "refused", clicks[c].name)
  /\ cutShort' = cutShort \cup Broken(c)
  /\ UNCHANGED <<made, listed, pressed, wizard, mishaps, unheard>>

Transitions ==
  [none         |-> {}, DRAFT |-> {"READY"}, READY |-> {"RUNNING"},
   RUNNING      |-> {"PAUSED", "STOPPED"}, PAUSED |-> {"RUNNING", "STOPPED"},
   RISK_BLOCKED |-> {"RUNNING", "PAUSED", "STOPPED"}, STOPPED |-> {"READY"}]
ChangeStatus(n) ==
  /\ pressed[n].phase = "sent"
  /\ pressed[n].target \in Transitions[made[n]]
  /\ made' = [made EXCEPT ![n] = pressed[n].target]
  /\ pressed' = [pressed EXCEPT ![n].phase = "done"]
  /\ UNCHANGED <<listed, wizard, clicks, pageHistory>>
RefuseChange(n) ==
  /\ pressed[n].phase = "sent"
  /\ pressed' = [pressed EXCEPT ![n].phase = "refused"]
  /\ UNCHANGED <<made, listed, wizard, clicks, pageHistory>>

\* The risk engine of the worker; its cycle may have begun before a pause or a
\* stop, over which it writes all the same.
RiskBlock(n) ==
  /\ made[n] \in {"RUNNING", "PAUSED", "STOPPED"}
  /\ made' = [made EXCEPT ![n] = "RISK_BLOCKED"]
  /\ unheard' = IF made[n] = "RUNNING" THEN unheard ELSE unheard \cup {n}
  /\ UNCHANGED <<listed, pressed, wizard, clicks, mishaps, cutShort>>

-----------------------------------------------------------------------------
(* The page takes the answers. *)

\* The page is rendered anew: the bots as they are, nothing pressed, the wizard
\* empty.  What it waited for it waits for no longer; a call that is
\* under way has reached the API by then or never will.
Rendered(unfinished) ==
  /\ listed' = made
  /\ pressed' = [n \in BotName |-> NotPressed]
  /\ wizard' = Blank
  /\ clicks' = [c \in Click |-> NoClick]
  /\ cutShort' = cutShort \cup UNION {Broken(c) : c \in unfinished}
  /\ unheard' = {}
  /\ UNCHANGED made

\* The POST answers with the bot: only now the PATCH is sent.  The PATCH
\* answers: the page is loaded again, whatever else it waits for.
SkipReady(c) ==
  /\ clicks[c].phase = "created"
  /\ Rendered(Click \ {c})
  /\ UNCHANGED mishaps
SendReady(c) ==
  /\ clicks[c].phase = "created"
  /\ Follow(c, "readying", clicks[c].name)
  /\ UNCHANGED <<made, listed, pressed, wizard, pageHistory>>
Reload(c) ==
  /\ clicks[c].phase = "ready"
  /\ Rendered(Click \ {c})
  /\ UNCHANGED mishaps
TellError(c) ==
  /\ clicks[c].phase = "refused"
  /\ clicks' = [clicks EXCEPT ![c] = NoClick]
  /\ UNCHANGED <<made, listed, pressed, wizard, pageHistory>>

\* The buttons of a bot: none for a DRAFT, a RISK_BLOCKED or a STOPPED one.
Offered ==
  [none         |-> {}, DRAFT |-> {}, READY |-> {"RUNNING"},
   RUNNING      |-> {"PAUSED", "STOPPED"}, PAUSED |-> {"RUNNING", "STOPPED"},
   RISK_BLOCKED |-> {}, STOPPED |-> {}]
Press(n, status) ==
  /\ n \in Followed
  /\ pressed[n].phase = "idle"
  /\ status \in Offered[listed[n]]
  /\ pressed' = [pressed EXCEPT ![n] = [phase |-> "sent", target |-> status]]
  /\ UNCHANGED <<made, listed, wizard, clicks, pageHistory>>
StatusAsked(n) == pressed[n].target
StatusTold(n) == IF pressed[n].phase = "done" THEN pressed[n].target ELSE listed[n]
TakeStatus(n) ==
  /\ pressed[n].phase \in {"done", "refused"}
  /\ listed' = [listed EXCEPT ![n] = StatusTold(n)]
  /\ pressed' = [pressed EXCEPT ![n] = NotPressed]
  /\ UNCHANGED <<made, wizard, clicks, pageHistory>>

-----------------------------------------------------------------------------
(* Calls and answers are lost; the user leaves the page and comes back. *)

Mishap == mishaps < MaxLost /\ mishaps' = mishaps + 1
\* create() has no handler: whatever the answer was, the wizard does not tell.
LoseMaking(c) ==
  /\ clicks[c] # NoClick
  /\ Mishap
  /\ clicks' = [clicks EXCEPT ![c] = NoClick]
  /\ cutShort' = cutShort \cup Broken(c)
  /\ UNCHANGED <<made, listed, pressed, wizard, unheard>>
LoseChange(n) ==
  /\ pressed[n].phase \in {"sent", "done"}
  /\ Mishap
  /\ pressed' = [pressed EXCEPT ![n].phase = "refused"]
  /\ unheard' = IF pressed[n].phase = "done" THEN unheard \cup {n} ELSE unheard
  /\ UNCHANGED <<made, listed, wizard, clicks, cutShort>>
ComeBack == Mishap /\ Rendered(Click)

PagesNext ==
  \/ ChooseStrategy \/ NextStep \/ PreviousStep
  \/ \E n \in BotName : NameBot(n)
  \/ \E c \in Click : \/ ClickCreate(c) \/ Create(c) \/ MakeReady(c) \/ RefuseMaking(c)
                      \/ SendReady(c) \/ Reload(c) \/ TellError(c) \/ LoseMaking(c)
  \/ \E n \in BotName : \/ ChangeStatus(n) \/ RefuseChange(n) \/ RiskBlock(n)
                        \/ TakeStatus(n) \/ LoseChange(n)
                        \/ \E status \in DOMAIN Transitions : Press(n, status)
  \/ ComeBack

PagesSpec == PagesInit /\ [][PagesNext]_pageVars

-----------------------------------------------------------------------------
(* Properties. *)

PagesTypeOK ==
  /\ made \in [BotName -> DOMAIN Transitions]
  /\ listed \in [BotName -> DOMAIN Transitions]
  /\ wizard.step \in Steps

\* A bot stays a DRAFT, for which no page has a button, only when the second
\* call of its making was refused or lost, when the user left, or when another
\* click loaded the page anew (bot-create-wizard.tsx:141-154).
DraftsAreCutShort ==
  \A n \in BotName :
    made[n] = "DRAFT" =>
      n \in cutShort \/ \E c \in Click : clicks[c] \in {Making("created", n), Making("readying", n)}

\* The API lets RISK_BLOCKED bots run again, but no page offers it: a user who
\* has seen every answer does not lift a block by resuming what only looks
\* paused (bot-controls.tsx:35), unless a cycle from before the pause blocked it
\* afterwards (paper-cycle.ts:227).
BlocksAreNotLiftedUnseen ==
  [][\A n \in BotName :
       made[n] = "RISK_BLOCKED" /\ made'[n] = "RUNNING" => n \in unheard]_pageVars
=============================================================================
