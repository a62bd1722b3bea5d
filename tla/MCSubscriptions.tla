--------------------------- MODULE MCSubscriptions ---------------------------
(* One user, two requests and two deliveries at a time, two of the paid plans. *)
EXTENDS Subscriptions, TLC

CONSTANTS r1, r2, h1, h2, k1, k2, s1, s2, b1, b2,
          STARTER, ADVANCED

TwoRequests == {r1, r2}
TwoHooks == {h1, h2}
TwoCustomers == {k1, k2}
TwoSubs == {s1, s2}
TwoBots == {b1, b2}
OneBot == {b1}
TwoTiers == {STARTER, ADVANCED}

\* One limit for every plan: no property of the run reads it, and the two paid
\* plans stay exchangeable.
OneEach == [plan \in Plans |-> 1]

Symmetry ==
  Permutations(TwoRequests) \cup Permutations(TwoHooks)
    \cup Permutations(TwoCustomers) \cup Permutations(TwoSubs)
    \cup Permutations(TwoTiers)
=============================================================================
