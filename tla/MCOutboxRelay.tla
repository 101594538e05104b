--------------------------- MODULE MCOutboxRelay ---------------------------
(* Small instances of OutboxRelay for TLC. *)
EXTENDS OutboxRelay, TLC

CONSTANTS t1, t2, r1, r2, e1, e2, e3

\* A play with a stake and a payout, and a deposit.
PlayAndDeposit == (t1 :> <<e1, e2>>) @@ (t2 :> <<e3>>)
=============================================================================
