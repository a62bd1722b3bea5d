----------------------------- MODULE FillLedger -----------------------------
(***************************************************************************)
(* What PAPER execution promises: each proposal is filled at most once, a  *)
(* fill moves its amount between the two balances in one step together     *)
(* with the order that records it, and neither balance is overdrawn.       *)
(***************************************************************************)
EXTENDS Integers

CONSTANTS Proposals,  \* the trade proposals of a bot
          Signals,    \* what a proposal may ask for
          Capital     \* the cash the bot starts with

VARIABLES cash, base, order

ledgerVars == <<cash, base, order>>

Unfilled(o) == ~o.filled

LedgerInit ==
  /\ cash = Capital
  /\ base = 0
  /\ \A p \in Proposals : Unfilled(order[p])

FillProposal(p, s) ==
  /\ Unfilled(order[p])
  /\ order' = [order EXCEPT ![p] = [filled |-> TRUE, signal |-> s]]
  /\ LET change == IF s.side = "BUY" THEN s.amount ELSE -s.amount IN
       /\ cash' = cash - change
       /\ base' = base + change
  /\ cash' >= 0
  /\ base' >= 0

LedgerNext == \E p \in Proposals, s \in Signals : FillProposal(p, s)

LedgerSpec == LedgerInit /\ [][LedgerNext]_ledgerVars
=============================================================================
