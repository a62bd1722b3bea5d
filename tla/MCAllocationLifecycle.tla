------------------------ MODULE MCAllocationLifecycle ------------------------
(* Small instances of AllocationLifecycle: bot b1 may claim 2, bot b2 may
   claim 1, from a portfolio too small for three claims. *)
EXTENDS AllocationLifecycle

CONSTANTS b1, b2

TwoBots == {b1, b2}
OneBot == {b1}
AuthorizedTwo == [b \in TwoBots |-> IF b = b1 THEN 2 ELSE 1]
AuthorizedOne == [b \in OneBot |-> 2]
LossOrProfit == {-1, 0, 1}
Flat == {0}
=============================================================================
