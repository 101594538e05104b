---------------------------- MODULE AtLeastOnce ----------------------------
(***************************************************************************)
(* What the outbox promises its consumers (contracts/events/README.md,     *)
(* "Deduplication"): an event of a committed transaction is delivered at   *)
(* least once, an event of any other transaction never.                    *)
(***************************************************************************)
CONSTANT Rows

VARIABLES committed,   \* the events that have happened
          delivered    \* the events a consumer has been able to read

vars == <<committed, delivered>>

Init == committed = {} /\ delivered = {}

Happen == /\ \E rs \in SUBSET Rows : committed' = committed \cup rs
          /\ UNCHANGED delivered

Deliver(e) == /\ e \in committed
              /\ delivered' = delivered \cup {e}
              /\ UNCHANGED committed

Next == Happen \/ \E e \in Rows : Deliver(e)

Safety == Init /\ [][Next]_vars

Spec == Safety /\ \A e \in Rows : WF_vars(Deliver(e))
=============================================================================
