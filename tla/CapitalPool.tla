---------------------------- MODULE CapitalPool ----------------------------
(***************************************************************************)
(* What the paper portfolio promises to the bots of one user (ADR-017,     *)
(* ADR-023): a bot holds capital or it does not.  A bot that does not hold *)
(* capital may claim its authorized amount when that much is free, and a   *)
(* bot that holds capital may give it up once, returning at most what it   *)
(* claimed.  What is not returned stays outstanding: it is tied up in      *)
(* assets the user keeps.                                                  *)
(***************************************************************************)
EXTENDS Integers

CONSTANTS Bots,        \* the bots that share the portfolio
          Authorized,  \* BotConfiguration.authorizedCapital of each bot
          Initial      \* PaperPortfolio.initialCapital

VARIABLES available,    \* free cash
          outstanding,  \* capital handed out and not returned
          holders       \* the bots that hold capital

poolVars == <<available, outstanding, holders>>

PoolInit ==
  /\ available = Initial
  /\ outstanding = 0
  /\ holders = {}

\* A bot takes its whole authorized capital, and only if that much is free.
PoolClaim(b) ==
  /\ b \notin holders
  /\ available >= Authorized[b]
  /\ available' = available - Authorized[b]
  /\ outstanding' = outstanding + Authorized[b]
  /\ holders' = holders \cup {b}

\* A holder gives up its allocation; what it kept in assets is not returned.
PoolRelease(b) ==
  /\ b \in holders
  /\ \E returned \in 0 .. Authorized[b] :
       /\ available' = available + returned
       /\ outstanding' = outstanding - returned
  /\ holders' = holders \ {b}

PoolNext == \E b \in Bots : PoolClaim(b) \/ PoolRelease(b)

PoolSpec == PoolInit /\ [][PoolNext]_poolVars
=============================================================================
