------------------------------ MODULE OnceOnly ------------------------------
(***************************************************************************)
(* What app/services/idempotency.py promises a client, without saying how: *)
(* of all the requests that carry one (user_id, Idempotency-Key), at most  *)
(* one has an effect, and every successful answer is the answer of that    *)
(* one execution, given only to requests with its body.                    *)
(***************************************************************************)
CONSTANTS Requests,   \* HTTP requests; a client's retry is another request
          KeyOf,      \* KeyOf[r]: the (user_id, Idempotency-Key) pair of r
          BodyOf      \* BodyOf[r]: the hash of r's body

VARIABLES done,       \* the requests whose work has been committed
          outcome,    \* what each request has been told
          source      \* for an "ok" request, the execution it was told about

vars == <<done, outcome, source>>

Init == /\ done = {}
        /\ outcome = [r \in Requests |-> "waiting"]
        /\ source = [r \in Requests |-> r]

\* The work of r takes effect, once for its key, and r is told so.
Execute(r) ==
    /\ outcome[r] = "waiting"
    /\ \A q \in done : KeyOf[q] # KeyOf[r]
    /\ done' = done \cup {r}
    /\ outcome' = [outcome EXCEPT ![r] = "ok"]
    /\ source' = [source EXCEPT ![r] = r]

\* r is answered with what an earlier identical request did.
Replay(r) ==
    /\ outcome[r] = "waiting"
    /\ \E q \in done :
          /\ KeyOf[q] = KeyOf[r]
          /\ BodyOf[q] = BodyOf[r]
          /\ source' = [source EXCEPT ![r] = q]
    /\ outcome' = [outcome EXCEPT ![r] = "ok"]
    /\ UNCHANGED done

\* r is told for good that nothing was done for it, and nothing was.
Refuse(r) ==
    /\ outcome[r] = "waiting"
    /\ r \notin done
    /\ outcome' = [outcome EXCEPT ![r] = "refused"]
    /\ UNCHANGED <<done, source>>

Next == \E r \in Requests : Execute(r) \/ Replay(r) \/ Refuse(r)

Spec == Init /\ [][Next]_vars
=============================================================================
