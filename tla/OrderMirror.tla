----------------------------- MODULE OrderMirror -----------------------------
(***************************************************************************)
(* What LIVE execution promises about an order (ADR-008), whatever answers *)
(* are lost and wherever the process dies: it is written down before it is *)
(* sent, it is sent once, and what is written down follows the exchange.   *)
(* The mirror of an order may lag, but it neither runs ahead nor falls     *)
(* back, and an order that it shows as over it shows in full.              *)
(***************************************************************************)
EXTENDS Integers

CONSTANTS Orders,  \* clientOrderIds
          Ends,    \* the ways in which an order may end
          Size     \* executions that fill an order

VARIABLES recorded,  \* the orders written down
          sent,      \* the orders the exchange has
          market,    \* what became of them there
          mirror     \* what the row of the order shows

mirrorVars == <<recorded, sent, market, mirror>>

Untouched == [end |-> "none", filled |-> 0]
Over(view) == view.end # "none"

MirrorInit ==
  /\ recorded = {}
  /\ sent = {}
  /\ market = [o \in Orders |-> Untouched]
  /\ mirror = [o \in Orders |-> Untouched]

Record(o) ==
  /\ recorded' = recorded \cup {o}
  /\ UNCHANGED <<sent, market, mirror>>

\* More executions, and maybe the end.
Progress(o) ==
  \E n \in market[o].filled .. Size, end \in Ends \cup {"none"} :
    market' = [market EXCEPT ![o] = [end |-> end, filled |-> n]]

Send(o) ==
  /\ o \in recorded \ sent
  /\ sent' = sent \cup {o}
  /\ Progress(o)
  /\ UNCHANGED <<recorded, mirror>>

Trade(o) ==
  /\ o \in sent
  /\ ~Over(market[o])
  /\ Progress(o)
  /\ UNCHANGED <<recorded, sent, mirror>>

\* A late answer shows a part of what was executed; the end is shown with all of it.
Show(o) ==
  /\ o \in sent
  /\ \/ /\ ~Over(mirror[o])
        /\ \E n \in mirror[o].filled .. market[o].filled :
             mirror' = [mirror EXCEPT ![o] = [end |-> "none", filled |-> n]]
     \/ /\ Over(market[o])
        /\ mirror' = [mirror EXCEPT ![o] = market[o]]
  /\ UNCHANGED <<recorded, sent, market>>

MirrorNext == \E o \in Orders : Record(o) \/ Send(o) \/ Trade(o) \/ Show(o)

MirrorSpec == MirrorInit /\ [][MirrorNext]_mirrorVars
=============================================================================
