----------------------------- MODULE ApiServer -----------------------------
(***************************************************************************)
(* The process around the services: one engine whose connections are       *)
(* shared by the HTTP requests (api/deps.py, api/v1), the readiness probe  *)
(* (api/health.py), the background loops (events) and the lifespan that    *)
(* starts and stops them (main.py).                                        *)
(*                                                                         *)
(* A request under get_current_user keeps the connection of its own        *)
(* session until its response is sent; run_idempotent asks the pool for a  *)
(* second one, up to four times in turn.  A wait for the pool ends after   *)
(* pool_timeout.                                                           *)
(***************************************************************************)
EXTENDS Integers, FiniteSets

CONSTANTS Money,     \* requests to place a round or to deposit
          Plain,     \* requests served in the request's session alone
          Probes,    \* requests to /ready
          Relay,     \* the task of relay_loop
          Purge,     \* the task of purge_loop
          KeyOf,     \* KeyOf[r]: the (user_id, Idempotency-Key) of a money request
          Capacity,  \* pool_size + max_overflow
          Nobody     \* the holder of a key that has no row

Requests == Money \cup Plain \cup Probes
Tasks    == {Relay, Purge}
Keys     == {KeyOf[r] : r \in Money}

ASSUME ServerAssumption ==
    /\ Money \cap Plain = {} /\ Money \cap Probes = {} /\ Plain \cap Probes = {}
    /\ Relay # Purge /\ Tasks \cap Requests = {}
    /\ Nobody \notin Requests
    /\ Capacity \in Nat \ {0}

VARIABLES
    phase,     \* of the lifespan
    producer,  \* the Kafka producer
    loop,      \* where each background task is
    out,       \* QueuePool: the connections checked out, by session
    pc,        \* where each request is
    conn,      \* the connection of the innermost session it has opened
    holder,    \* idempotency_keys: who inserted the row of each key
    seen,      \* whose row a retry has read and taken for abandoned
    done,      \* requests whose effect has been committed
    unacked,   \* those of them whose COMMIT was applied and never confirmed
    overtaken, \* requests whose reservation a retry has reclaimed
    answer,    \* what the client has been told
    starts     \* http.response.start messages sent for it

life == <<phase, producer, loop>>
told == <<answer, starts>>
ledger == <<holder, seen, done, unacked, overtaken>>
vars == <<phase, producer, loop, out, pc, conn, holder, seen, done, unacked, overtaken,
          answer, starts>>

\* A request has two sessions at most, the dependency's and one at a time of
\* run_idempotent's; a probe and a task have one.
Sessions == (Requests \X {"request", "own"}) \cup (Tasks \X {"own"})

\* A request is in one of these stages with the session of the stage: asking
\* for its connection, or using it.
InRequest == {"user"}
InOwn     == {"reserve", "resolve", "reclaim", "again", "work", "cleanup", "probe"}

TypeOK == /\ phase \in {"starting", "failed", "serving", "cancelling", "disposing", "stopped"}
          /\ producer \in {"new", "started", "stopped"}
          /\ loop \in [Tasks -> {"off", "asleep", "asking", "cycle", "ended"}]
          /\ out \subseteq Sessions
          /\ pc \in [Requests -> {"new", "handler", "answer", "commit", "over"}
                                   \cup InRequest \cup InOwn]
          /\ conn \in [Requests -> {"none", "asked", "open"}]
          /\ holder \in [Keys -> Money \cup {Nobody}]
          /\ seen \in [Requests -> Money \cup {Nobody}]
          /\ done \subseteq Money \cup Plain
          /\ unacked \subseteq Money /\ overtaken \subseteq Money
          /\ answer \in [Requests -> {"none", "ok", "error"}]
          /\ starts \in [Requests -> Nat]

\* create_app has run: an engine with nothing checked out.
Init == /\ phase = "starting" /\ producer = "new"
        /\ loop = [t \in Tasks |-> "off"]
        /\ out = {}
        /\ pc = [r \in Requests |-> "new"]
        /\ conn = [r \in Requests |-> "none"]
        /\ holder = [k \in Keys |-> Nobody]
        /\ seen = [r \in Requests |-> Nobody]
        /\ done = {} /\ unacked = {} /\ overtaken = {}
        /\ answer = [r \in Requests |-> "none"]
        /\ starts = [r \in Requests |-> 0]

At(r, p, c) == pc[r] = p /\ conn[r] = c
Goto(r, p, c) == pc' = [pc EXCEPT ![r] = p] /\ conn' = [conn EXCEPT ![r] = c]

HasRoom == Cardinality(out) < Capacity

Tell(r, what) == /\ answer' = [answer EXCEPT ![r] = what]
                 /\ starts' = [starts EXCEPT ![r] = @ + 1]

\* An exception leaves the endpoint: unit_of_work rolls back, every session
\* gives its connection back, and then a handler of errors.py, or
\* UnhandledExceptionMiddleware, sends the response.  Nothing here waits for
\* anything that another request holds.
Raise(r) == /\ out' = out \ ({r} \X {"request", "own"})
            /\ Goto(r, "over", "none")
            /\ Tell(r, "error")

-----------------------------------------------------------------------------
(* The pool.                                                               *)

SessionAt(r) == <<r, IF pc[r] \in InRequest THEN "request" ELSE "own">>

\* The first statement of a session takes a connection.
Checkout(r) ==
    /\ conn[r] = "asked"
    /\ HasRoom
    /\ out' = out \cup {SessionAt(r)}
    /\ Goto(r, pc[r], "open")
    /\ UNCHANGED life /\ UNCHANGED told /\ UNCHANGED ledger

PoolTimeout_Never(r) ==
    /\ FALSE /\ conn[r] = "asked" /\ UNCHANGED vars

\* pool_timeout: sqlalchemy.exc.TimeoutError, which nothing maps.  Raised in
\* the second transaction of run_idempotent it leads to the clean-up, which
\* asks for a connection again.  A probe has given up long before.
PoolTimeout(r) ==
    /\ conn[r] = "asked" /\ r \notin Probes
    /\ ~HasRoom
    /\ IF pc[r] = "work"
         THEN /\ Goto(r, "cleanup", "asked")
              /\ UNCHANGED out /\ UNCHANGED told
         ELSE Raise(r)
    /\ UNCHANGED life /\ UNCHANGED ledger

-----------------------------------------------------------------------------
(* A request, up to its handler.                                           *)

\* Cut short by a middleware (413, 429), by the validation of its body or by a
\* missing or invalid access token: all of it without the database.
CutShort(r) ==
    /\ phase = "serving" /\ pc[r] = "new"
    /\ r \in Money \cup Plain
    /\ Raise(r)
    /\ UNCHANGED life /\ UNCHANGED ledger

\* get_session, and the first SELECT of get_current_user (or of the service).
Arrive(r) ==
    /\ phase = "serving" /\ pc[r] = "new"
    /\ Goto(r, IF r \in Probes THEN "probe" ELSE "user", "asked")
    /\ UNCHANGED life /\ UNCHANGED told /\ UNCHANGED out /\ UNCHANGED ledger

\* The user is there: a money endpoint calls run_idempotent, with sessions of
\* its own while the request's stays open.
UserLoaded(r) ==
    /\ At(r, "user", "open")
    /\ IF r \in Money THEN Goto(r, "reserve", "asked") ELSE Goto(r, "handler", "none")
    /\ UNCHANGED life /\ UNCHANGED told /\ UNCHANGED out /\ UNCHANGED ledger

\* Unknown or suspended user; any exception of a service in the request's
\* session, mapped or not.
Refused(r) ==
    /\ At(r, "user", "open") \/ pc[r] = "handler"
    /\ Raise(r)
    /\ UNCHANGED life /\ UNCHANGED ledger

HandlerReturns(r) ==
    /\ pc[r] = "handler"
    /\ Goto(r, "answer", "none")
    /\ UNCHANGED life /\ UNCHANGED told /\ UNCHANGED out /\ UNCHANGED ledger

-----------------------------------------------------------------------------
(* run_idempotent: up to four sessions, one after the other.  What its     *)
(* SELECTs and DELETEs may interleave with is the subject of Idempotency.  *)

Key(r) == KeyOf[r]

\* The session of the stage gives its connection back; the next one asks.
NextSession(r, p) == /\ out' = out \ {<<r, "own">>}
                     /\ Goto(r, p, IF p = "answer" THEN "none" ELSE "asked")

ReserveWins(r) ==
    /\ At(r, "reserve", "open") \/ At(r, "again", "open")
    /\ holder[Key(r)] = Nobody
    /\ holder' = [holder EXCEPT ![Key(r)] = r]
    /\ NextSession(r, "work")
    /\ UNCHANGED life /\ UNCHANGED told /\ UNCHANGED <<seen, done, unacked, overtaken>>

ReserveLoses(r) ==
    /\ At(r, "reserve", "open")
    /\ holder[Key(r)] # Nobody
    /\ NextSession(r, "resolve")
    /\ UNCHANGED life /\ UNCHANGED told /\ UNCHANGED ledger

\* The row is completed: its response is answered again.
Replay(r) ==
    /\ At(r, "resolve", "open")
    /\ holder[Key(r)] \in done
    /\ NextSession(r, "answer")
    /\ UNCHANGED life /\ UNCHANGED told /\ UNCHANGED ledger

FindNothing(r) ==
    /\ At(r, "resolve", "open")
    /\ holder[Key(r)] = Nobody
    /\ NextSession(r, "again")
    /\ UNCHANGED life /\ UNCHANGED told /\ UNCHANGED ledger

\* The row is pending and older than PENDING_RECLAIM_SECONDS.  Its owner may
\* have gone or not: pool_timeout alone lasts as long.
FindStuck(r) ==
    /\ At(r, "resolve", "open")
    /\ holder[Key(r)] \notin done \cup {Nobody}
    /\ seen' = [seen EXCEPT ![r] = holder[Key(r)]]
    /\ Goto(r, "reclaim", "open")
    /\ UNCHANGED life /\ UNCHANGED told /\ UNCHANGED <<out, holder, done, unacked, overtaken>>

\* The row that was read is deleted by its id, whatever has become of it.
Reclaim(r) ==
    /\ At(r, "reclaim", "open")
    /\ holder' = [holder EXCEPT ![Key(r)] = IF @ = seen[r] THEN Nobody ELSE @]
    /\ overtaken' = overtaken \cup {seen[r]}
    /\ NextSession(r, "again")
    /\ UNCHANGED life /\ UNCHANGED told /\ UNCHANGED <<seen, done, unacked>>

\* Another body, still in progress, or a statement that fails.
IdempotencyRaises(r) ==
    /\ \E p \in {"reserve", "resolve", "reclaim", "again"} : At(r, p, "open")
    /\ Raise(r)
    /\ UNCHANGED life /\ UNCHANGED ledger

CommitWork_InRequestSession(r) ==
    /\ At(r, "work", "open")
    /\ NextSession(r, "answer")
    /\ UNCHANGED life /\ UNCHANGED told /\ UNCHANGED ledger

\* place_bet or deposit, and mark_completed, in one transaction that is
\* committed before the endpoint goes on.
CommitWork(r) ==
    /\ At(r, "work", "open")
    /\ done' = done \cup {r}
    /\ NextSession(r, "answer")
    /\ UNCHANGED life /\ UNCHANGED told /\ UNCHANGED <<holder, seen, unacked, overtaken>>

\* An exception of the work, or of a COMMIT that was not applied.
WorkFails(r) ==
    /\ At(r, "work", "open")
    /\ NextSession(r, "cleanup")
    /\ UNCHANGED life /\ UNCHANGED told /\ UNCHANGED ledger

\* COMMIT is applied and the connection breaks before the reply: the except
\* clause takes it for a failure.
CommitAckLost(r) ==
    /\ At(r, "work", "open")
    /\ done' = done \cup {r} /\ unacked' = unacked \cup {r}
    /\ NextSession(r, "cleanup")
    /\ UNCHANGED life /\ UNCHANGED told /\ UNCHANGED <<holder, seen, overtaken>>

\* The reservation is deleted, completed or not, and the exception raised again.
Cleanup(r) ==
    /\ At(r, "cleanup", "open")
    /\ holder' = [holder EXCEPT ![Key(r)] = IF @ = r THEN Nobody ELSE @]
    /\ Raise(r)
    /\ UNCHANGED life /\ UNCHANGED <<seen, done, unacked, overtaken>>

\* The clean-up fails too: the row stays.
CleanupFails(r) ==
    /\ At(r, "cleanup", "open")
    /\ Raise(r)
    /\ UNCHANGED life /\ UNCHANGED ledger

-----------------------------------------------------------------------------
(* The response, and after it the end of get_session: the exit code of a   *)
(* dependency with yield runs once the response has been sent (FastAPI     *)
(* since 0.118; uv.lock has 0.141).                                        *)

Respond(r) ==
    /\ pc[r] = "answer"
    /\ Tell(r, "ok")
    /\ Goto(r, "commit", "none")
    /\ UNCHANGED life /\ UNCHANGED out /\ UNCHANGED ledger

\* unit_of_work commits.  A money request has only read in this session.
CommitRequest(r) ==
    /\ pc[r] = "commit"
    /\ done' = IF r \in Plain THEN done \cup {r} ELSE done
    /\ out' = out \ {<<r, "request">>}
    /\ Goto(r, "over", "none")
    /\ UNCHANGED life /\ UNCHANGED told /\ UNCHANGED <<holder, seen, unacked, overtaken>>

CommitFails_AnswersAgain(r) ==
    /\ pc[r] = "commit"
    /\ Raise(r)
    /\ UNCHANGED life /\ UNCHANGED ledger

\* COMMIT raises after the response: UnhandledExceptionMiddleware sees that
\* one has started and raises again, so nothing else is sent.  (A COMMIT that
\* raises after it was applied leaves what CommitRequest leaves.)
CommitFails(r) ==
    /\ pc[r] = "commit"
    /\ out' = out \ {<<r, "request">>}
    /\ Goto(r, "over", "none")
    /\ UNCHANGED life /\ UNCHANGED told /\ UNCHANGED ledger

-----------------------------------------------------------------------------
(* /ready: the database check, SELECT 1 on a connection of its own.        *)

ProbeAnswers(r) ==
    /\ At(r, "probe", "open")
    /\ out' = out \ {<<r, "own">>}
    /\ Goto(r, "over", "none")
    /\ Tell(r, "ok")
    /\ UNCHANGED life /\ UNCHANGED ledger

ProbeTimesOut_Abandons(r) ==
    /\ pc[r] = "probe"
    /\ Goto(r, "over", "none")
    /\ Tell(r, "error")
    /\ UNCHANGED life /\ UNCHANGED out /\ UNCHANGED ledger

\* asyncio.wait_for gives up after CHECK_TIMEOUT_SECONDS and cancels the
\* check, which waits for the pool or uses a connection: 503.
ProbeTimesOut(r) ==
    /\ pc[r] = "probe"
    /\ Raise(r)
    /\ UNCHANGED life /\ UNCHANGED ledger

-----------------------------------------------------------------------------
(* The background loops and the lifespan.                                  *)

LoopTo(t, p) == loop' = [loop EXCEPT ![t] = p]
requests == <<pc, conn, holder, seen, done, unacked, overtaken, answer, starts>>

\* The next cycle of relay_loop or purge_loop.
Wake(t) ==
    /\ loop[t] = "asleep"
    /\ LoopTo(t, "asking")
    /\ UNCHANGED <<phase, producer, out>> /\ UNCHANGED requests

\* The relay keeps its connection while it sends to Kafka.
BeginCycle(t) ==
    /\ loop[t] = "asking" /\ HasRoom
    /\ out' = out \cup {<<t, "own">>}
    /\ LoopTo(t, "cycle")
    /\ UNCHANGED <<phase, producer>> /\ UNCHANGED requests

EndCycle_Dies(t) ==
    /\ loop[t] = "cycle"
    /\ out' = out \ {<<t, "own">>}
    /\ LoopTo(t, "dead")
    /\ UNCHANGED <<phase, producer>> /\ UNCHANGED requests

\* The cycle ends, well or not, or has not had a connection in time: the loop
\* logs what went wrong and goes on.
EndCycle(t) ==
    /\ loop[t] = "cycle" \/ (loop[t] = "asking" /\ ~HasRoom)
    /\ out' = out \ {<<t, "own">>}
    /\ LoopTo(t, "asleep")
    /\ UNCHANGED <<phase, producer>> /\ UNCHANGED requests

\* The producer is started before the loops that use it.
Start ==
    /\ phase = "starting"
    /\ phase' = "serving" /\ producer' = "started"
    /\ loop' = [t \in Tasks |-> "asleep"]
    /\ UNCHANGED out /\ UNCHANGED requests

\* producer.start() raises: the application does not start.
StartFails ==
    /\ phase = "starting"
    /\ phase' = "failed"
    /\ UNCHANGED <<producer, loop, out>> /\ UNCHANGED requests

\* The server has let every request in progress finish; close_all is WsHub's.
Shutdown ==
    /\ phase = "serving"
    /\ \A r \in Requests : pc[r] \in {"new", "over"}
    /\ phase' = "cancelling"
    /\ UNCHANGED <<producer, loop, out>> /\ UNCHANGED requests

\* task.cancel(), and the await of its end: a cycle in progress rolls back.
\* The relay first, then the purge.
CancelTask(t) ==
    /\ phase = "cancelling"
    /\ loop[t] # "ended" /\ (t = Purge => loop[Relay] = "ended")
    /\ out' = out \ {<<t, "own">>}
    /\ LoopTo(t, "ended")
    /\ UNCHANGED <<phase, producer>> /\ UNCHANGED requests

StopProducer_First ==
    /\ phase = "cancelling"
    /\ producer' = "stopped"
    /\ phase' = IF \A t \in Tasks : loop[t] = "ended" THEN "disposing" ELSE phase
    /\ UNCHANGED <<loop, out>> /\ UNCHANGED requests

StopProducer ==
    /\ phase = "cancelling"
    /\ \A t \in Tasks : loop[t] = "ended"
    /\ producer' = "stopped"
    /\ phase' = "disposing"
    /\ UNCHANGED <<loop, out>> /\ UNCHANGED requests

\* redis.aclose() and engine.dispose().
Dispose ==
    /\ phase = "disposing"
    /\ phase' = "stopped"
    /\ UNCHANGED <<producer, loop, out>> /\ UNCHANGED requests

-----------------------------------------------------------------------------
Serve(r) ==
    \/ Checkout(r)      \/ PoolTimeout(r)  \/ UserLoaded(r) \/ Refused(r)
    \/ HandlerReturns(r) \/ ReserveWins(r) \/ ReserveLoses(r) \/ Replay(r)
    \/ FindNothing(r)   \/ FindStuck(r)   \/ Reclaim(r)    \/ IdempotencyRaises(r)
    \/ CommitWork(r)    \/ WorkFails(r)   \/ CommitAckLost(r)
    \/ Cleanup(r)       \/ CleanupFails(r) \/ Respond(r) \/ CommitRequest(r)
    \/ CommitFails(r)   \/ ProbeAnswers(r) \/ ProbeTimesOut(r)

Run(t) == Wake(t) \/ BeginCycle(t) \/ EndCycle(t)

Lifespan == Start \/ StartFails \/ Shutdown \/ (\E t \in Tasks : CancelTask(t))
               \/ StopProducer \/ Dispose

Next == \/ \E r \in Requests : Arrive(r) \/ CutShort(r) \/ Serve(r)
        \/ \E t \in Tasks : Run(t)
        \/ Lifespan

Spec == Init /\ [][Next]_vars

\* statement_timeout ends every statement, pool_timeout every wait for the
\* pool.  Nothing is assumed of the loops, which may hold a connection for
\* ever, nor of the clients.
FairSpec == Spec /\ \A r \in Requests : WF_vars(Serve(r))

-----------------------------------------------------------------------------
(* Properties.                                                             *)

\* Who should be holding a connection, from where everybody is in the code.
InEndpoint == {"handler", "reserve", "resolve", "reclaim", "again", "work", "cleanup",
               "answer", "commit"}
Holders ==
    {<<r, "request">> : r \in {q \in Requests : \/ At(q, "user", "open")
                                               \/ pc[q] \in InEndpoint}}
    \cup {<<r, "own">> : r \in {q \in Requests : pc[q] \in InOwn /\ conn[q] = "open"}}
    \cup {<<t, "own">> : t \in {u \in Tasks : loop[u] = "cycle"}}

\* No connection leaks, whatever times out, fails or is cancelled while it has
\* one or waits for one (get_session, unit_of_work and wait_for give every
\* connection back), and the pool never exceeds its limit.
PoolAccounted == out = Holders /\ Cardinality(out) <= Capacity

\* "injecting a new response on top would break the ASGI protocol"
\* (UnhandledExceptionMiddleware): one response to each request, not two when
\* the COMMIT after the response fails, and none is left without.
OneResponse ==
    \A r \in Requests :
        starts[r] = IF pc[r] \in {"commit", "over"} THEN 1 ELSE 0

\* What a player is told about money, though the request's own session commits
\* only after the response.  A success has been committed when it is told.
\* After an error nothing was, but for the COMMIT whose reply was lost.  A key
\* is executed a second time only after such a COMMIT, or after a reclaim of
\* the reservation of the first execution.
MoneyAnswersAreTrue ==
    /\ \A r \in Money : /\ answer[r] = "ok" => \E q \in done \cap Money : Key(q) = Key(r)
                        /\ answer[r] = "error" => r \notin done \ unacked
    /\ \A r, q \in (done \cap Money) \ (unacked \cup overtaken) : Key(r) = Key(q) => r = q

\* No exception of a cycle ends a background loop: as long as the server serves,
\* both are there, and they end by the cancellation of the lifespan only.
LoopsSurvive ==
    \A t \in Tasks : /\ phase = "serving" => loop[t] \in {"asleep", "asking", "cycle"}
                     /\ loop[t] = "ended" => phase \in {"cancelling", "disposing", "stopped"}

\* The order of the lifespan: the relay is never in a cycle with a producer
\* that is not running, nor the engine disposed of under anybody's feet.
ResourcesOutliveUsers ==
    /\ loop[Relay] \in {"asleep", "asking", "cycle"} => producer = "started"
    /\ phase \in {"disposing", "stopped"} => out = {}

\* Requests that hold a connection while they wait for another can use up the
\* pool and wait for each other; pool_timeout (and the probe's two seconds)
\* get them out of it: every request that has arrived is answered and ends.
EveryRequestEnds == \A r \in Requests : pc[r] # "new" ~> pc[r] = "over"
=============================================================================
