---------------------------- MODULE Idempotency ----------------------------
(***************************************************************************)
(* app/services/idempotency.py: run_idempotent and the idempotency_keys    *)
(* table it reserves in.  Each request is a process that runs up to three  *)
(* short transactions (reserve, work + mark_completed, delete on failure); *)
(* a step of the model is one committed transaction, or one unlocked       *)
(* SELECT whose result is acted upon later.                                *)
(*                                                                         *)
(* A request inserts at most one row in its life, so the row's uuid is     *)
(* identified with the request that inserted it: "delete by id" is a       *)
(* deletion of exactly that request's row.                                 *)
(***************************************************************************)
CONSTANTS Requests,   \* HTTP requests, client retries included
          KeyOf,      \* KeyOf[r]: its (user_id, Idempotency-Key) pair
          BodyOf,     \* BodyOf[r]: hash_request_body of its body
          Faults      \* which faults this instance admits

FaultKinds == { "crash",        \* the task dies: process kill, CancelledError
                "cleanup_lost", \* the third transaction fails as well
                "slow",         \* a live owner outlasts the reclaim window
                "ack_lost" }    \* COMMIT applied, its reply lost

ASSUME FaultsAssumption == Faults \subseteq FaultKinds

VARIABLES row,        \* row[r]: state of the idempotency_keys row r inserted
          aged,       \* rows older than PENDING_RECLAIM_SECONDS
          pc,         \* where each request is
          seen,       \* the row id a request holds: read, or its own
          executed    \* requests whose work(session) has been committed

vars == <<row, aged, pc, seen, executed>>

RowStates == {"none", "pending", "completed"}
Owning    == {"working", "failing"}
Running   == {"start", "collided", "reclaim", "retry"} \cup Owning
Answered  == {"ok", "conflict", "in_progress", "failed"}

TypeOK == /\ row \in [Requests -> RowStates]
          /\ aged \subseteq Requests
          /\ pc \in [Requests -> Running \cup Answered \cup {"dead"}]
          /\ seen \in [Requests -> Requests]
          /\ executed \subseteq Requests

Init == /\ row = [r \in Requests |-> "none"]
        /\ aged = {}
        /\ pc = [r \in Requests |-> "start"]
        /\ seen = [r \in Requests |-> r]
        /\ executed = {}

\* The rows UNIQUE(user_id, key) sees for the key of r.
Holders(r) == {q \in Requests : KeyOf[q] = KeyOf[r] /\ row[q] # "none"}

Goto(r, l) == pc' = [pc EXCEPT ![r] = l]

-----------------------------------------------------------------------------
(* Transaction 1: _try_reserve.                                            *)

ReserveWins_NoUnique(r) ==
    /\ pc[r] \in {"start", "retry"}
    /\ row' = [row EXCEPT ![r] = "pending"]
    /\ Goto(r, "working")
    /\ UNCHANGED <<aged, seen, executed>>

\* INSERT status='pending' succeeds and is committed at once.
ReserveWins(r) ==
    /\ pc[r] \in {"start", "retry"}
    /\ Holders(r) = {}
    /\ row' = [row EXCEPT ![r] = "pending"]
    /\ Goto(r, "working")
    /\ UNCHANGED <<aged, seen, executed>>

\* IntegrityError.  The first attempt goes on to _resolve_existing, the
\* single retry gives up with IdempotencyInProgressError.
ReserveLoses(r) ==
    /\ Holders(r) # {}
    /\ \/ pc[r] = "start" /\ Goto(r, "collided")
       \/ pc[r] = "retry" /\ Goto(r, "in_progress")
    /\ UNCHANGED <<row, aged, seen, executed>>

-----------------------------------------------------------------------------
(* _resolve_existing: an unlocked SELECT by (user_id, key), then a DELETE   *)
(* by id in a transaction that re-checks nothing.                          *)

\* The row that made the reservation collide is gone already.
FindNothing(r) ==
    /\ pc[r] = "collided"
    /\ Holders(r) = {}
    /\ Goto(r, "retry")
    /\ UNCHANGED <<row, aged, seen, executed>>

FindConflict(r) ==
    /\ pc[r] = "collided"
    /\ \E q \in Holders(r) : BodyOf[q] # BodyOf[r]
    /\ Goto(r, "conflict")
    /\ UNCHANGED <<row, aged, seen, executed>>

FindCompleted_AnyBody(r) ==
    /\ pc[r] = "collided"
    /\ \E q \in Holders(r) : /\ row[q] = "completed"
                             /\ seen' = [seen EXCEPT ![r] = q]
    /\ Goto(r, "ok")
    /\ UNCHANGED <<row, aged, executed>>

FindCompleted_AnyStatus(r) ==
    /\ pc[r] = "collided"
    /\ \E q \in Holders(r) : /\ BodyOf[q] = BodyOf[r]
                             /\ seen' = [seen EXCEPT ![r] = q]
    /\ Goto(r, "ok")
    /\ UNCHANGED <<row, aged, executed>>

\* The cached response of the finished execution is the answer.
FindCompleted(r) ==
    /\ pc[r] = "collided"
    /\ \E q \in Holders(r) : /\ BodyOf[q] = BodyOf[r]
                             /\ row[q] = "completed"
                             /\ seen' = [seen EXCEPT ![r] = q]
    /\ Goto(r, "ok")
    /\ UNCHANGED <<row, aged, executed>>

FindPending(r) ==
    /\ pc[r] = "collided"
    /\ \E q \in Holders(r) : /\ BodyOf[q] = BodyOf[r]
                             /\ row[q] = "pending"
                             /\ q \notin aged
    /\ Goto(r, "in_progress")
    /\ UNCHANGED <<row, aged, seen, executed>>

FindStuck_NoReclaim(r) ==
    /\ pc[r] = "collided"
    /\ \E q \in Holders(r) : BodyOf[q] = BodyOf[r] /\ row[q] = "pending" /\ q \in aged
    /\ Goto(r, "in_progress")
    /\ UNCHANGED <<row, aged, seen, executed>>

FindStuck_AnyAge(r) ==
    /\ pc[r] = "collided"
    /\ \E q \in Holders(r) : /\ BodyOf[q] = BodyOf[r]
                             /\ row[q] = "pending"
                             /\ seen' = [seen EXCEPT ![r] = q]
    /\ Goto(r, "reclaim")
    /\ UNCHANGED <<row, aged, executed>>

\* Only decides to delete: the DELETE is a later step.
FindStuck(r) ==
    /\ pc[r] = "collided"
    /\ \E q \in Holders(r) : /\ BodyOf[q] = BodyOf[r]
                             /\ row[q] = "pending"
                             /\ q \in aged
                             /\ seen' = [seen EXCEPT ![r] = q]
    /\ Goto(r, "reclaim")
    /\ UNCHANGED <<row, aged, executed>>

Reclaim_ByKey(r) ==
    /\ pc[r] = "reclaim"
    /\ row' = [q \in Requests |-> IF q \in Holders(r) THEN "none" ELSE row[q]]
    /\ Goto(r, "retry")
    /\ UNCHANGED <<aged, seen, executed>>

\* DELETE ... WHERE id = the row read before, whatever it is by now.
Reclaim(r) ==
    /\ pc[r] = "reclaim"
    /\ row' = [row EXCEPT ![seen[r]] = "none"]
    /\ Goto(r, "retry")
    /\ UNCHANGED <<aged, seen, executed>>

-----------------------------------------------------------------------------
(* Transaction 2: work(session) and mark_completed, committed together.    *)

Completed_Misspelt(r) == [row EXCEPT ![r] = IF @ = "none" THEN "none" ELSE "complete"]

\* UPDATE ... WHERE id = row_id: no row, no update, and no error either.
Completed(r) == [row EXCEPT ![r] = IF @ = "none" THEN "none" ELSE "completed"]

CommitWork(r) ==
    /\ pc[r] = "working"
    /\ executed' = executed \cup {r}
    /\ row' = Completed(r)
    /\ seen' = [seen EXCEPT ![r] = r]
    /\ Goto(r, "ok")
    /\ UNCHANGED aged

\* work(session), mark_completed or COMMIT raises: everything rolls back.
WorkFails(r) ==
    /\ pc[r] = "working"
    /\ Goto(r, "failing")
    /\ UNCHANGED <<row, aged, seen, executed>>

\* The server applied the COMMIT, the connection broke before the reply:
\* the except clause cannot tell this from a rollback.
CommitAckLost(r) ==
    /\ "ack_lost" \in Faults
    /\ pc[r] = "working"
    /\ executed' = executed \cup {r}
    /\ row' = Completed(r)
    /\ Goto(r, "failing")
    /\ UNCHANGED <<aged, seen>>

-----------------------------------------------------------------------------
(* Transaction 3: the except clause deletes the reservation, re-raises.    *)

Cleanup(r) ==
    /\ pc[r] = "failing"
    /\ row' = [row EXCEPT ![r] = "none"]
    /\ Goto(r, "failed")
    /\ UNCHANGED <<aged, seen, executed>>

\* The third transaction fails too (no connection left in the pool, lost
\* database): the request still ends in an error, the row stays.
CleanupLost(r) ==
    /\ "cleanup_lost" \in Faults
    /\ pc[r] = "failing"
    /\ Goto(r, "failed")
    /\ UNCHANGED <<row, aged, seen, executed>>

-----------------------------------------------------------------------------
(* The environment.                                                        *)

\* An open transaction rolls back, a committed reservation stays.
\* `except Exception` does not catch CancelledError.
Crash(r) ==
    /\ "crash" \in Faults
    /\ pc[r] \in Running
    /\ Goto(r, "dead")
    /\ UNCHANGED <<row, aged, seen, executed>>

\* PENDING_RECLAIM_SECONDS pass since created_at.  Without "slow", what the
\* constant's comment says is taken for granted: no live owner outlasts it.
Age(r) ==
    /\ row[r] = "pending"
    /\ r \notin aged
    /\ "slow" \in Faults \/ pc[r] \notin Owning
    /\ aged' = aged \cup {r}
    /\ UNCHANGED <<row, pc, seen, executed>>

\* A client told 409 "in progress" sends the same request again.
ClientRetries(r) ==
    /\ pc[r] = "in_progress"
    /\ Goto(r, "start")
    /\ UNCHANGED <<row, aged, seen, executed>>

-----------------------------------------------------------------------------
Resolve(r) == \/ FindNothing(r)   \/ FindConflict(r) \/ FindCompleted(r)
              \/ FindPending(r)   \/ FindStuck(r)    \/ Reclaim(r)

RunIdempotent(r) == \/ ReserveWins(r) \/ ReserveLoses(r) \/ Resolve(r)
                    \/ CommitWork(r)  \/ WorkFails(r)    \/ CommitAckLost(r)
                    \/ Cleanup(r)     \/ CleanupLost(r)

Next == \E r \in Requests :
            RunIdempotent(r) \/ Crash(r) \/ Age(r) \/ ClientRetries(r)

Spec == Init /\ [][Next]_vars

\* A task that can run is scheduled, the clock advances, and a client that
\* is told to wait does come back.  Nothing makes faults happen.
Fairness == \A r \in Requests : /\ WF_vars(RunIdempotent(r))
                                /\ WF_vars(Age(r))
                                /\ WF_vars(ClientRetries(r))

FairSpec == Spec /\ Fairness

-----------------------------------------------------------------------------
(* Properties.                                                             *)

\* An operation with an Idempotency-Key runs at most once per (user_id, key)
\* (the docstring of the module): whatever requests, retries, crashes and
\* reclaims there are, one key has at most one committed execution.
AtMostOnce == \A r, q \in executed : KeyOf[r] = KeyOf[q] => r = q

\* UNIQUE(user_id, key): one reservation per key at any time, through every
\* reclaim and every late delete.
OneReservation ==
    \A p, q \in Requests :
        (KeyOf[p] = KeyOf[q] /\ row[p] # "none" /\ row[q] # "none") => p = q

\* While a request works, or cleans up, the reservation it won is still its
\* own: nobody has reclaimed it, nobody else is working under its key.
OwnerHoldsKey ==
    \A r \in Requests : pc[r] \in Owning =>
        /\ row[r] = "pending"
        /\ \A q \in Requests : (KeyOf[q] = KeyOf[r] /\ pc[q] \in Owning) => q = r

\* A successful answer is that of an execution that really was committed,
\* for the same key and the same body: no phantom success, and no response
\* leaked to a request with another body (IdempotencyKeyConflictError).
HonestSuccess ==
    \A r \in Requests : pc[r] = "ok" =>
        /\ seen[r] \in executed
        /\ KeyOf[seen[r]] = KeyOf[r]
        /\ BodyOf[seen[r]] = BodyOf[r]

\* Transaction 2 is atomic: work is committed exactly when its key is
\* recorded as completed, so a later retry always finds the response.
EffectIffRecorded ==
    \A r \in Requests : r \in executed <=> row[r] = "completed"

\* The DELETEs of _resolve_existing and of the except clause are by id and
\* unguarded, yet none ever removes a finished execution's record, nor the
\* reservation of a request that is still working under it.
NoRecordLost ==
    [][\A r \in Requests :
          /\ row[r] = "completed" => row'[r] = "completed"
          /\ (row[r] = "pending" /\ row'[r] = "none") => pc[r] # "working"]_vars

\* "so a later retry with the same key doesn't stay blocked forever looking
\* at an 'in progress' that no longer is one": every client that keeps
\* retrying gets a final answer, unless its own request dies.
NotBlockedForever ==
    \A r \in Requests :
        <>(pc[r] \in {"ok", "conflict", "failed", "dead"})

-----------------------------------------------------------------------------
(* Refinement of what the module promises.  A request that died is one     *)
(* that waits for ever; "in progress" is not a final answer.               *)

Told(r) == IF pc[r] = "ok" THEN "ok"
           ELSE IF pc[r] \in {"failed", "conflict"} THEN "refused"
           ELSE "waiting"

Promise == INSTANCE OnceOnly WITH
              done    <- executed,
              outcome <- [r \in Requests |-> Told(r)],
              source  <- [r \in Requests |-> IF pc[r] = "ok" THEN seen[r] ELSE r]

\* run_idempotent implements OnceOnly.
ImplementsPromise == Promise!Spec
=============================================================================
