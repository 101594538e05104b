--------------------------- MODULE MCIdempotency ---------------------------
(* Instances of Idempotency for TLC.                                       *)
EXTENDS Idempotency, TLC

CONSTANTS r1, r2, r3, r4

\* Three identical requests and one that reuses their key with another body.
OneKey  == [r \in Requests |-> "k1"]
Bodies  == r1 :> "b1" @@ r2 :> "b1" @@ r3 :> "b1" @@ r4 :> "b2"

\* Identical requests only.
SameBody == [r \in Requests |-> "b1"]
=============================================================================
