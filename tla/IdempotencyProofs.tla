------------------------- MODULE IdempotencyProofs -------------------------
(***************************************************************************)
(* Proofs about Idempotency, for any requests, keys and bodies.            *)
(*                                                                         *)
(* Timely is the assumption the comment of PENDING_RECLAIM_SECONDS makes   *)
(* (no live owner is ever taken for a dead one) together with COMMIT being *)
(* acknowledged when it is applied.  Crashes and failed cleanups are       *)
(* allowed.  The runs with the other two faults show it is needed.         *)
(***************************************************************************)
EXTENDS Idempotency, TLAPS

Timely == "slow" \notin Faults /\ "ack_lost" \notin Faults

\* Programme points at which a request has inserted no row (yet).
Rowless == {"start", "collided", "reclaim", "retry", "conflict", "in_progress"}

\* The inductive invariant.  A row that is old enough to be reclaimed belongs
\* to a request that is over, and so it stays: that is what makes the late,
\* unguarded DELETE of _resolve_existing harmless.
IInv ==
    /\ TypeOK
    /\ OneReservation
    /\ EffectIffRecorded
    /\ \A r \in Requests : pc[r] \in Owning => row[r] = "pending"
    /\ \A r \in Requests : pc[r] \in Rowless => row[r] = "none"
    /\ \A r \in Requests : row[r] = "completed" => pc[r] = "ok"
    /\ \A r \in aged : pc[r] \in {"failed", "dead"}
    /\ \A r \in Requests : pc[r] = "reclaim" => pc[seen[r]] \in {"failed", "dead"}
    /\ \A r \in Requests : pc[r] = "ok" => row[r] # "pending"
    /\ HonestSuccess

USE DEF RowStates, Owning, Running, Answered, Rowless, Goto, Holders

\* Initially no key is reserved and nothing has run.
LEMMA InitIInv == Init => IInv
BY DEF Init, IInv, TypeOK, OneReservation, EffectIffRecorded, HonestSuccess

\* Every statement run_idempotent executes, every crash and every clock tick
\* keeps the invariant.
LEMMA StepIInv == ASSUME Timely, IInv, [Next]_vars PROVE IInv'
<1> USE DEF IInv, TypeOK, OneReservation, EffectIffRecorded, HonestSuccess
<1>1. ASSUME NEW r \in Requests, ReserveWins(r) PROVE IInv'
  BY <1>1 DEF ReserveWins
<1>2. ASSUME NEW r \in Requests, ReserveLoses(r) PROVE IInv'
  BY <1>2 DEF ReserveLoses
<1>3. ASSUME NEW r \in Requests, FindNothing(r) PROVE IInv'
  BY <1>3 DEF FindNothing
<1>4. ASSUME NEW r \in Requests, FindConflict(r) PROVE IInv'
  BY <1>4 DEF FindConflict
<1>5. ASSUME NEW r \in Requests, FindCompleted(r) PROVE IInv'
  BY <1>5 DEF FindCompleted
<1>6. ASSUME NEW r \in Requests, FindPending(r) PROVE IInv'
  BY <1>6 DEF FindPending
<1>7. ASSUME NEW r \in Requests, FindStuck(r) PROVE IInv'
  BY <1>7 DEF FindStuck
<1>8. ASSUME NEW r \in Requests, Reclaim(r) PROVE IInv'
  BY <1>8 DEF Reclaim
<1>9. ASSUME NEW r \in Requests, CommitWork(r) PROVE IInv'
  BY <1>9 DEF CommitWork, Completed
<1>10. ASSUME NEW r \in Requests, WorkFails(r) PROVE IInv'
  BY <1>10 DEF WorkFails
<1>11. ASSUME NEW r \in Requests, CommitAckLost(r) PROVE IInv'
  BY <1>11, Timely DEF CommitAckLost, Timely
<1>12. ASSUME NEW r \in Requests, Cleanup(r) PROVE IInv'
  BY <1>12 DEF Cleanup
<1>13. ASSUME NEW r \in Requests, CleanupLost(r) PROVE IInv'
  BY <1>13 DEF CleanupLost
<1>14. ASSUME NEW r \in Requests, Crash(r) PROVE IInv'
  BY <1>14 DEF Crash
<1>15. ASSUME NEW r \in Requests, Age(r) PROVE IInv'
  BY <1>15, Timely DEF Age, Timely
<1>16. ASSUME NEW r \in Requests, ClientRetries(r) PROVE IInv'
  BY <1>16 DEF ClientRetries
<1>17. CASE UNCHANGED vars
  BY <1>17 DEF vars
<1> QED
  BY <1>1, <1>2, <1>3, <1>4, <1>5, <1>6, <1>7, <1>8, <1>9, <1>10, <1>11,
     <1>12, <1>13, <1>14, <1>15, <1>16, <1>17
  DEF Next, RunIdempotent, Resolve

\* The invariant holds in every reachable state, whatever crashes.
LEMMA Invariance == ASSUME Timely PROVE Spec => []IInv
<1>1. Init => IInv
  BY InitIInv
<1>2. IInv /\ [Next]_vars => IInv'
  BY StepIInv
<1> QED
  BY <1>1, <1>2, PTL DEF Spec

\* Every variable of run_idempotent keeps its type.
THEOREM TypeCorrect == ASSUME Timely PROVE Spec => []TypeOK
<1>1. IInv => TypeOK
  BY DEF IInv
<1> QED
  BY <1>1, Invariance, PTL

-----------------------------------------------------------------------------
\* An operation runs at most once per (user_id, key): two executions would be
\* two completed rows under one key, which UNIQUE(user_id, key) excludes.
THEOREM RunsAtMostOnce == ASSUME Timely PROVE Spec => []AtMostOnce
<1>1. IInv => AtMostOnce
  BY DEF IInv, TypeOK, EffectIffRecorded, OneReservation, AtMostOnce
<1> QED
  BY <1>1, Invariance, PTL

\* The reservation a request won stays its own until it is done with it.
THEOREM OwnershipIsExclusive == ASSUME Timely PROVE Spec => []OwnerHoldsKey
<1>1. IInv => OwnerHoldsKey
  BY DEF IInv, TypeOK, OneReservation, OwnerHoldsKey
<1> QED
  BY <1>1, Invariance, PTL

\* What was executed is exactly what is recorded as completed.
THEOREM EffectsAreRecorded == ASSUME Timely PROVE Spec => []EffectIffRecorded
<1>1. IInv => EffectIffRecorded
  BY DEF IInv
<1> QED
  BY <1>1, Invariance, PTL

\* No DELETE removes a completed row or the row of a working request.
THEOREM RecordsAreKept == ASSUME Timely PROVE Spec => NoRecordLost
<1> DEFINE Kept == \A r \in Requests :
             /\ row[r] = "completed" => row'[r] = "completed"
             /\ (row[r] = "pending" /\ row'[r] = "none") => pc[r] # "working"
<1>1. ASSUME IInv, [Next]_vars PROVE [Kept]_vars
  <2> SUFFICES ASSUME Next PROVE Kept
    BY <1>1
  <2> USE IInv DEF IInv, TypeOK
  <2>1. ASSUME NEW r \in Requests, ReserveWins(r) PROVE Kept
    BY <2>1 DEF ReserveWins
  <2>2. ASSUME NEW r \in Requests, Reclaim(r) PROVE Kept
    BY <2>2 DEF Reclaim
  <2>3. ASSUME NEW r \in Requests, CommitWork(r) \/ CommitAckLost(r) PROVE Kept
    BY <2>3 DEF CommitWork, CommitAckLost, Completed
  <2>4. ASSUME NEW r \in Requests, Cleanup(r) PROVE Kept
    BY <2>4 DEF Cleanup
  <2>5. CASE row' = row
    BY <2>5
  <2> QED
    BY <1>1, <2>1, <2>2, <2>3, <2>4, <2>5
    DEF Next, RunIdempotent, Resolve, ReserveLoses, FindNothing, FindConflict,
        FindCompleted, FindPending, FindStuck, WorkFails, CleanupLost, Crash,
        Age, ClientRetries
<1> QED
  BY <1>1, Invariance, PTL DEF Spec, NoRecordLost

-----------------------------------------------------------------------------
(* Refinement: run_idempotent keeps the promise stated in OnceOnly.        *)

LEMMA InitPromise == Init => Promise!Init
BY DEF Init, Promise!Init, Told

\* Each committed transaction is one step of the promise, or none at all.
LEMMA StepPromise ==
    ASSUME Timely, IInv, IInv', [Next]_vars PROVE [Promise!Next]_(Promise!vars)
<1> USE DEF Told
<1> DEFINE Src(r) == IF pc[r] = "ok" THEN seen[r] ELSE r
           Tells(r, told) == \A q \in Requests : Told(q)' = IF q = r THEN told ELSE Told(q)
           Cites(r, x) == \A q \in Requests : Src(q)' = IF q = r THEN x ELSE Src(q)
           Unseen == executed' = executed /\ \A r \in Requests :
              /\ Told(r)' = Told(r)
              /\ (pc'[r] = "ok") = (pc[r] = "ok")
              /\ pc[r] = "ok" => seen'[r] = seen[r]
<1>1. ASSUME Unseen PROVE UNCHANGED Promise!vars
  BY <1>1 DEF Promise!vars
<1>2. ASSUME NEW r \in Requests, CommitWork(r) PROVE Promise!Execute(r)
  <2>1. Told(r) = "waiting" /\ executed' = executed \cup {r}
    BY <1>2 DEF CommitWork
  <2>2. \A q \in executed : KeyOf[q] # KeyOf[r]
    BY <1>2, IInv
    DEF IInv, TypeOK, CommitWork, OneReservation, EffectIffRecorded
  <2>3. Tells(r, "ok") /\ Cites(r, r)
    BY <1>2, IInv DEF IInv, TypeOK, CommitWork
  <2> QED
    BY <2>1, <2>2, <2>3 DEF Promise!Execute
<1>3. ASSUME NEW r \in Requests, FindCompleted(r) PROVE Promise!Replay(r)
  <2>1. PICK q \in Holders(r) : /\ BodyOf[q] = BodyOf[r]
                               /\ row[q] = "completed"
                               /\ seen' = [seen EXCEPT ![r] = q]
    BY <1>3 DEF FindCompleted
  <2>2. Told(r) = "waiting" /\ executed' = executed
    BY <1>3 DEF FindCompleted
  <2>3. q \in executed /\ KeyOf[q] = KeyOf[r]
    BY <2>1, IInv DEF IInv, EffectIffRecorded
  <2>4. Tells(r, "ok") /\ Cites(r, q)
    BY <1>3, <2>1, IInv DEF IInv, TypeOK, FindCompleted
  <2>5. [p \in Requests |-> Src(p)]' = [[p \in Requests |-> Src(p)] EXCEPT ![r] = q]
    BY <2>4
  <2>6. [p \in Requests |-> Told(p)]' = [[p \in Requests |-> Told(p)] EXCEPT ![r] = "ok"]
    BY <2>4
  <2> QED
    BY <2>1, <2>2, <2>3, <2>5, <2>6 DEF Promise!Replay
<1>4. ASSUME NEW r \in Requests, FindConflict(r) \/ Cleanup(r) \/ CleanupLost(r)
      PROVE Promise!Refuse(r)
  <2>1. Told(r) = "waiting" /\ executed' = executed /\ r \notin executed
    BY <1>4, IInv
    DEF IInv, TypeOK, FindConflict, Cleanup, CleanupLost, EffectIffRecorded
  <2>2. Tells(r, "refused") /\ \A q \in Requests : Src(q)' = Src(q)
    BY <1>4, IInv DEF IInv, TypeOK, FindConflict, Cleanup, CleanupLost
  <2> QED
    BY <2>1, <2>2 DEF Promise!Refuse
<1>5. ASSUME NEW r \in Requests,
             \/ ReserveWins(r) \/ ReserveLoses(r) \/ FindNothing(r)
             \/ FindPending(r) \/ FindStuck(r)    \/ Reclaim(r)
             \/ WorkFails(r)   \/ Crash(r)        \/ Age(r) \/ ClientRetries(r)
      PROVE Unseen
  BY <1>5, IInv
  DEF IInv, TypeOK, ReserveWins, ReserveLoses, FindNothing, FindPending,
      FindStuck, Reclaim, WorkFails, Crash, Age, ClientRetries
<1>6. ASSUME NEW r \in Requests PROVE ~CommitAckLost(r)
  BY Timely DEF Timely, CommitAckLost
<1>7. CASE UNCHANGED vars
  BY <1>7, <1>1 DEF vars
<1> QED
  BY <1>1, <1>2, <1>3, <1>4, <1>5, <1>6, <1>7
  DEF Next, RunIdempotent, Resolve, Promise!Next

\* Under crashes and failed cleanups, run_idempotent implements OnceOnly.
THEOREM KeepsPromise == ASSUME Timely PROVE Spec => ImplementsPromise
<1>1. IInv /\ IInv' /\ [Next]_vars => [Promise!Next]_(Promise!vars)
  BY StepPromise
<1> QED
  BY <1>1, InitPromise, Invariance, PTL DEF Spec, ImplementsPromise, Promise!Spec
-----------------------------------------------------------------------------
(* What needs no assumption on the faults.                                 *)

Always == /\ TypeOK
          /\ OneReservation
          /\ HonestSuccess
          /\ \A r \in Requests : row[r] = "completed" => r \in executed

\* Slow owners and lost acknowledgements keep this part of the invariant.
LEMMA StepAlways == ASSUME Always, [Next]_vars PROVE Always'
<1> USE DEF Always, TypeOK, OneReservation, HonestSuccess
<1>1. ASSUME NEW r \in Requests, ReserveWins(r) PROVE Always'
  BY <1>1 DEF ReserveWins
<1>2. ASSUME NEW r \in Requests,
             ReserveLoses(r) \/ FindNothing(r) \/ FindConflict(r)
      PROVE Always'
  BY <1>2 DEF ReserveLoses, FindNothing, FindConflict
<1>3. ASSUME NEW r \in Requests, FindCompleted(r) PROVE Always'
  BY <1>3 DEF FindCompleted
<1>4. ASSUME NEW r \in Requests, FindPending(r) \/ FindStuck(r) PROVE Always'
  BY <1>4 DEF FindPending, FindStuck
<1>5. ASSUME NEW r \in Requests, Reclaim(r) PROVE Always'
  BY <1>5 DEF Reclaim
<1>6. ASSUME NEW r \in Requests, CommitWork(r) PROVE Always'
  BY <1>6 DEF CommitWork, Completed
<1>7. ASSUME NEW r \in Requests, WorkFails(r) \/ CleanupLost(r) PROVE Always'
  BY <1>7 DEF WorkFails, CleanupLost
<1>8. ASSUME NEW r \in Requests, CommitAckLost(r) PROVE Always'
  BY <1>8 DEF CommitAckLost, Completed
<1>9. ASSUME NEW r \in Requests, Cleanup(r) PROVE Always'
  BY <1>9 DEF Cleanup
<1>10. ASSUME NEW r \in Requests, Crash(r) \/ Age(r) \/ ClientRetries(r)
       PROVE Always'
  BY <1>10 DEF Crash, Age, ClientRetries
<1>11. CASE UNCHANGED vars
  BY <1>11 DEF vars
<1> QED
  BY <1>1, <1>2, <1>3, <1>4, <1>5, <1>6, <1>7, <1>8, <1>9, <1>10, <1>11
  DEF Next, RunIdempotent, Resolve

LEMMA AlwaysInvariance == Spec => []Always
<1>1. Init => Always
  BY DEF Init, Always, TypeOK, OneReservation, HonestSuccess
<1>2. Always /\ [Next]_vars => Always'
  BY StepAlways
<1> QED
  BY <1>1, <1>2, PTL DEF Spec

\* Whatever faults happen, a key has one reservation at a time.
THEOREM OneRowPerKey == Spec => []OneReservation
<1>1. Always => OneReservation
  BY DEF Always
<1> QED
  BY <1>1, AlwaysInvariance, PTL

\* Whatever faults happen, a success is that of a committed execution under
\* the same key, of the same body.
THEOREM SuccessIsHonest == Spec => []HonestSuccess
<1>1. Always => HonestSuccess
  BY DEF Always
<1> QED
  BY <1>1, AlwaysInvariance, PTL
=============================================================================
