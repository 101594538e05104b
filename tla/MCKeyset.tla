----------------------------- MODULE MCKeyset ------------------------------
(* Instances of Keyset for TLC.                                            *)
EXTENDS Keyset, TLC

CONSTANTS t1, t2, t3, e1, e2, e3, e4

\* A winning round (stake and payout), a lost one and a deposit.
History == [t \in Txns |-> CASE t = t1 -> {e1, e2} [] t = t2 -> {e3} [] OTHER -> {e4}]
=============================================================================
