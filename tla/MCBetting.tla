----------------------------- MODULE MCBetting -----------------------------
(* Instances of Betting for TLC.                                           *)
EXTENDS Betting, TLC

CONSTANTS b1, b2, b3, d1, d2, s1, s2

\* One deposit pays for one of the bets, two pay for both.
Amounts == b1 :> 2 @@ b2 :> 1 @@ b3 :> 1 @@ d1 :> 2 @@ d2 :> 1

\* A round that loses everything, and one that pays.
WinOrLose == {0, 3}

\* Only the transactions of this instance.
AmountsOf == [t \in Bets \cup Deposits |-> Amounts[t]]
=============================================================================
