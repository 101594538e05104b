-------------------------- MODULE ApiServerProofs --------------------------
(***************************************************************************)
(* Proofs about ApiServer, for any requests, keys and pool size.  Each     *)
(* request and each loop accounts for the connections it holds             *)
(* (Connections and Loops); a step of a request disturbs nobody else's     *)
(* account (Foot).  Unless a reply to its COMMIT is lost or a retry takes   *)
(* its reservation for abandoned, the request that executes a key holds    *)
(* the row of the key (Paid), which is why the answers about money are     *)
(* true.                                                                   *)
(***************************************************************************)
EXTENDS ApiServer, FiniteSetTheorems, TLAPS

Stage == {"new", "handler", "answer", "commit", "over"} \cup InRequest \cup InOwn
MoneyStages == {"reserve", "resolve", "reclaim", "again", "work", "cleanup"}

USE DEF InRequest, InOwn, InEndpoint, Stage, MoneyStages

\* Which requests come to which stage, and when one has a session open.
Stages(r) == /\ pc[r] \in MoneyStages => r \in Money
             /\ pc[r] = "probe" => r \in Probes
             /\ pc[r] = "handler" => r \in Plain
             /\ pc[r] = "user" => r \in Money \cup Plain
             /\ conn[r] = "none" <=> pc[r] \notin InRequest \cup InOwn

\* The connections a request should hold are those it does hold.
Connections(r) ==
    /\ <<r, "request">> \in out <=> At(r, "user", "open") \/ pc[r] \in InEndpoint
    /\ <<r, "own">> \in out <=> pc[r] \in InOwn /\ conn[r] = "open"

\* It has been answered once it is past its answer, and not before.
Told(r) == /\ starts[r] = IF pc[r] \in {"commit", "over"} THEN 1 ELSE 0
           /\ answer[r] # "none" => pc[r] \in {"commit", "over"}

Loops == \A t \in Tasks : <<t, "own">> \in out <=> loop[t] = "cycle"

Room == IsFiniteSet(out) /\ Cardinality(out) <= Capacity

Lifecycle ==
    /\ phase = "starting" => \A t \in Tasks : loop[t] = "off"
    /\ phase = "serving" => \A t \in Tasks : loop[t] \in {"asleep", "asking", "cycle"}
    /\ phase = "failed" => \A t \in Tasks : loop[t] = "off"
    /\ phase \in {"serving", "cancelling"} => producer = "started"
    /\ loop[Relay] \in {"asleep", "asking", "cycle"} => phase \in {"serving", "cancelling"}
    /\ phase # "serving" => \A r \in Requests : pc[r] \in {"new", "over"}
    /\ phase \in {"disposing", "stopped"} => \A t \in Tasks : loop[t] = "ended"

\* Whose the row of a key is, and what may be said of it.
Paid(r) ==
    /\ pc[r] = "reclaim" => seen[r] \in Money
    /\ pc[r] = "work" => holder[Key(r)] = r \/ r \in overtaken
    /\ r \in done => pc[r] \in {"cleanup", "answer", "commit", "over"}
    /\ r \in done \ (unacked \cup overtaken) => holder[Key(r)] = r
    /\ (pc[r] \in {"answer", "commit"} \/ answer[r] = "ok") =>
          \E q \in done \cap Money : Key(q) = Key(r)
    /\ pc[r] = "cleanup" \/ answer[r] = "error" => r \notin done \ unacked

\* A row is found under the key it was inserted with.
Rows == \A k \in Keys : holder[k] # Nobody => Key(holder[k]) = k

IInv == /\ TypeOK /\ Loops /\ Room /\ Lifecycle /\ Rows
        /\ \A r \in Requests : Stages(r) /\ Connections(r) /\ Told(r)
        /\ \A r \in Money : Paid(r)

-----------------------------------------------------------------------------
(* What a step of request r touches: its own stage, connection and answer. *)

Foot(r) ==
    /\ UNCHANGED life
    /\ out' \subseteq Sessions
    /\ pc' \in [Requests -> Stage] /\ conn' \in [Requests -> {"none", "asked", "open"}]
    /\ answer' \in [Requests -> {"none", "ok", "error"}] /\ starts' \in [Requests -> Nat]
    /\ \A q \in Requests : q # r =>
          /\ pc'[q] = pc[q] /\ conn'[q] = conn[q]
          /\ answer'[q] = answer[q] /\ starts'[q] = starts[q]
    /\ \A x \in (Requests \cup Tasks) \ {r}, k \in {"request", "own"} :
          <<x, k>> \in out' <=> <<x, k>> \in out
    /\ Stages(r)' /\ Connections(r)' /\ Told(r)'

Fine(r) == TypeOK /\ Stages(r) /\ Connections(r) /\ Told(r)

LEMMA FootGoto ==
    ASSUME TypeOK, NEW r \in Requests, NEW p \in Stage, NEW c \in {"none", "asked", "open"},
           Goto(r, p, c)
    PROVE  /\ pc' \in [Requests -> Stage] /\ conn' \in [Requests -> {"none", "asked", "open"}]
           /\ pc'[r] = p /\ conn'[r] = c
           /\ \A q \in Requests : q # r => pc'[q] = pc[q] /\ conn'[q] = conn[q]
BY DEF TypeOK, Goto

LEMMA FootTell ==
    ASSUME TypeOK, NEW r \in Requests, NEW w \in {"none", "ok", "error"}, Tell(r, w)
    PROVE  /\ answer' \in [Requests -> {"none", "ok", "error"}] /\ starts' \in [Requests -> Nat]
           /\ answer'[r] = w /\ starts'[r] = starts[r] + 1
           /\ \A q \in Requests : q # r => answer'[q] = answer[q] /\ starts'[q] = starts[q]
BY DEF TypeOK, Tell

LEMMA FootRaise ==
    ASSUME NEW r \in Requests, Fine(r), pc[r] \notin {"commit", "over"},
           Raise(r), UNCHANGED life
    PROVE  Foot(r)
<1>1. /\ pc' \in [Requests -> Stage] /\ conn' \in [Requests -> {"none", "asked", "open"}]
      /\ pc'[r] = "over" /\ conn'[r] = "none"
      /\ \A q \in Requests : q # r => pc'[q] = pc[q] /\ conn'[q] = conn[q]
  BY FootGoto DEF Raise, Fine
<1>2. /\ answer' \in [Requests -> {"none", "ok", "error"}] /\ starts' \in [Requests -> Nat]
      /\ answer'[r] = "error" /\ starts'[r] = starts[r] + 1
      /\ \A q \in Requests : q # r => answer'[q] = answer[q] /\ starts'[q] = starts[q]
  BY FootTell DEF Raise, Fine
<1>3. out' = out \ ({r} \X {"request", "own"})
  BY DEF Raise
<1>4. <<r, "request">> \notin out' /\ <<r, "own">> \notin out'
  BY <1>3
<1>5. \A x \in (Requests \cup Tasks) \ {r}, k \in {"request", "own"} :
         <<x, k>> \in out' <=> <<x, k>> \in out
  BY <1>3
<1>6. out' \subseteq Sessions
  BY <1>3 DEF Fine, TypeOK
<1>7. Stages(r)' /\ Connections(r)'
  BY <1>1, <1>4 DEF Stages, Connections, At
<1>8. Told(r)'
  BY <1>1, <1>2 DEF Told, Fine
<1> QED
  BY <1>1, <1>2, <1>5, <1>6, <1>7, <1>8 DEF Foot

\* A step that does not answer and touches nobody else's connection.
LEMMA FootQuiet ==
    ASSUME NEW r \in Requests, Fine(r),
           NEW p \in Stage, NEW c \in {"none", "asked", "open"}, Goto(r, p, c),
           UNCHANGED life, UNCHANGED told,
           out' \subseteq Sessions,
           \A x \in (Requests \cup Tasks) \ {r}, k \in {"request", "own"} :
               <<x, k>> \in out' <=> <<x, k>> \in out,
           <<r, "request">> \in out' <=> (p = "user" /\ c = "open") \/ p \in InEndpoint,
           <<r, "own">> \in out' <=> p \in InOwn /\ c = "open",
           p \in MoneyStages => r \in Money, p = "probe" => r \in Probes,
           p = "handler" => r \in Plain, p = "user" => r \in Money \cup Plain,
           c = "none" <=> p \notin InRequest \cup InOwn,
           p \in {"commit", "over"} <=> pc[r] \in {"commit", "over"}
    PROVE  Foot(r)
<1>1. /\ pc' \in [Requests -> Stage] /\ conn' \in [Requests -> {"none", "asked", "open"}]
      /\ pc'[r] = p /\ conn'[r] = c
      /\ \A q \in Requests : q # r => pc'[q] = pc[q] /\ conn'[q] = conn[q]
  BY FootGoto DEF Fine
<1>2. /\ answer' = answer /\ starts' = starts
      /\ answer \in [Requests -> {"none", "ok", "error"}] /\ starts \in [Requests -> Nat]
  BY DEF told, Fine, TypeOK
<1>3. Stages(r)' /\ Connections(r)'
  BY <1>1 DEF Stages, Connections, At
<1>4. Told(r)'
  BY <1>1, <1>2 DEF Told, Fine
<1> QED
  BY <1>1, <1>2, <1>3, <1>4 DEF Foot

\* NextSession, from a stage of run_idempotent.
LEMMA FootNext ==
    ASSUME NEW r \in Requests, Fine(r), pc[r] \in MoneyStages,
           NEW p \in MoneyStages \cup {"answer"}, NextSession(r, p),
           UNCHANGED life, UNCHANGED told
    PROVE  Foot(r)
<1> DEFINE c == IF p = "answer" THEN "none" ELSE "asked"
<1>1. Goto(r, p, c) /\ out' = out \ {<<r, "own">>}
  BY DEF NextSession
<1>2. <<r, "request">> \in out /\ r \in Money
  BY DEF Fine, Connections, Stages
<1>3. /\ <<r, "request">> \in out' /\ <<r, "own">> \notin out'
      /\ out' \subseteq Sessions
      /\ \A x \in (Requests \cup Tasks) \ {r}, k \in {"request", "own"} :
            <<x, k>> \in out' <=> <<x, k>> \in out
  BY <1>1, <1>2 DEF Fine, TypeOK
<1>4. p \in Stage /\ p \in InEndpoint /\ c \in {"none", "asked", "open"} /\ c # "open"
  OBVIOUS
<1>5. c = "none" <=> p \notin InRequest \cup InOwn
  OBVIOUS
<1>6. /\ p # "user" /\ p # "probe" /\ p # "handler"
      /\ p \notin {"commit", "over"} /\ pc[r] \notin {"commit", "over"}
  OBVIOUS
<1> HIDE DEF c
<1>7. /\ <<r, "request">> \in out' <=> (p = "user" /\ c = "open") \/ p \in InEndpoint
      /\ <<r, "own">> \in out' <=> p \in InOwn /\ c = "open"
  BY <1>3, <1>4, <1>6
<1>8. /\ p \in MoneyStages => r \in Money
      /\ p = "probe" => r \in Probes
      /\ p = "handler" => r \in Plain
      /\ p = "user" => r \in Money \cup Plain
      /\ p \in {"commit", "over"} <=> pc[r] \in {"commit", "over"}
  BY <1>2, <1>6
<1> QED
  BY <1>1, <1>3, <1>4, <1>5, <1>7, <1>8, FootQuiet

\* A step that answers and touches nobody else's connection.
LEMMA FootAnswer ==
    ASSUME NEW r \in Requests, Fine(r), pc[r] \notin {"commit", "over"},
           NEW p \in {"commit", "over"}, Goto(r, p, "none"),
           NEW w \in {"none", "ok", "error"}, Tell(r, w),
           UNCHANGED life, out' \subseteq Sessions,
           \A x \in (Requests \cup Tasks) \ {r}, k \in {"request", "own"} :
               <<x, k>> \in out' <=> <<x, k>> \in out,
           <<r, "request">> \in out' <=> p = "commit",
           <<r, "own">> \notin out'
    PROVE  Foot(r)
<1>1. /\ pc' \in [Requests -> Stage] /\ conn' \in [Requests -> {"none", "asked", "open"}]
      /\ pc'[r] = p /\ conn'[r] = "none"
      /\ \A q \in Requests : q # r => pc'[q] = pc[q] /\ conn'[q] = conn[q]
  BY FootGoto DEF Fine
<1>2. /\ answer' \in [Requests -> {"none", "ok", "error"}] /\ starts' \in [Requests -> Nat]
      /\ answer'[r] = w /\ starts'[r] = starts[r] + 1
      /\ \A q \in Requests : q # r => answer'[q] = answer[q] /\ starts'[q] = starts[q]
  BY FootTell DEF Fine
<1>3. Stages(r)' /\ Connections(r)'
  BY <1>1 DEF Stages, Connections, At
<1>4. Told(r)'
  BY <1>1, <1>2 DEF Told, Fine
<1> QED
  BY <1>1, <1>2, <1>3, <1>4 DEF Foot

Request(r) == Arrive(r) \/ CutShort(r) \/ Serve(r)

LEMMA RequestFoot ==
    ASSUME NEW r \in Requests, Fine(r), Request(r)
    PROVE  Foot(r)
<1>1. ASSUME out' = out
      PROVE  /\ out' \subseteq Sessions
             /\ \A x \in (Requests \cup Tasks) \ {r}, k \in {"request", "own"} :
                  <<x, k>> \in out' <=> <<x, k>> \in out
  BY <1>1 DEF Fine, TypeOK
<1>2. ASSUME NEW k \in {"request", "own"}, out' = out \ {<<r, k>>}
      PROVE  /\ out' \subseteq Sessions
             /\ \A x \in (Requests \cup Tasks) \ {r}, i \in {"request", "own"} :
                  <<x, i>> \in out' <=> <<x, i>> \in out
  BY <1>2 DEF Fine, TypeOK
<1>3. CASE Checkout(r)
  <2> DEFINE k == IF pc[r] = "user" THEN "request" ELSE "own"
  <2>1. /\ conn[r] = "asked" /\ out' = out \cup {<<r, k>>}
        /\ Goto(r, pc[r], "open") /\ UNCHANGED life /\ UNCHANGED told
    BY <1>3 DEF Checkout, SessionAt
  <2>2. pc[r] \in Stage /\ pc[r] \in InRequest \cup InOwn
    BY <2>1 DEF Fine, TypeOK, Stages
  <2>3. <<r, "request">> \in out <=> pc[r] \in InEndpoint
    BY <2>1 DEF Fine, Connections, At
  <2>4. <<r, "own">> \notin out
    BY <2>1 DEF Fine, Connections
  <2>5. <<r, k>> \in Sessions
    <3>1. pc[r] = "user" => <<r, "request">> \in Sessions
      BY DEF Sessions
    <3>2. <<r, "own">> \in Sessions
      BY DEF Sessions
    <3> QED BY <3>1, <3>2
  <2>6. /\ out' \subseteq Sessions
        /\ \A x \in (Requests \cup Tasks) \ {r}, i \in {"request", "own"} :
              <<x, i>> \in out' <=> <<x, i>> \in out
    BY <2>1, <2>5 DEF Fine, TypeOK
  <2>7. /\ <<r, "request">> \in out' <=> (pc[r] = "user" /\ "open" = "open") \/ pc[r] \in InEndpoint
        /\ <<r, "own">> \in out' <=> pc[r] \in InOwn /\ "open" = "open"
    BY <2>1, <2>2, <2>3, <2>4
  <2>8. /\ pc[r] \in MoneyStages => r \in Money
        /\ pc[r] = "probe" => r \in Probes
        /\ pc[r] = "handler" => r \in Plain
        /\ pc[r] = "user" => r \in Money \cup Plain
        /\ "open" = "none" <=> pc[r] \notin InRequest \cup InOwn
    BY <2>2 DEF Fine, Stages
  <2> QED
    BY <2>1, <2>2, <2>6, <2>7, <2>8, FootQuiet
<1>4. CASE PoolTimeout(r)
  <2>1. conn[r] = "asked" /\ UNCHANGED life
    BY <1>4 DEF PoolTimeout
  <2>2. pc[r] \in InRequest \cup InOwn
    BY <2>1 DEF Fine, Stages
  <2>3. CASE pc[r] = "work"
    <3>1. Goto(r, "cleanup", "asked") /\ out' = out /\ UNCHANGED told
      BY <1>4, <2>3 DEF PoolTimeout
    <3>2. <<r, "request">> \in out /\ <<r, "own">> \notin out /\ r \in Money
      BY <2>1, <2>3 DEF Fine, Connections, Stages
    <3>3. "cleanup" \in Stage /\ "cleanup" \in InEndpoint
      OBVIOUS
    <3> QED
      BY <1>1, <2>1, <2>3, <3>1, <3>2, <3>3, FootQuiet
  <2>4. CASE pc[r] # "work"
    <3>1. Raise(r)
      BY <1>4, <2>4 DEF PoolTimeout
    <3> QED
      BY <2>1, <2>2, <3>1, FootRaise
  <2> QED BY <2>3, <2>4
<1>5. CASE CutShort(r)
  BY <1>5, FootRaise DEF CutShort
<1>6. CASE Arrive(r)
  <2> DEFINE p == IF r \in Probes THEN "probe" ELSE "user"
  <2>1. Goto(r, p, "asked") /\ out' = out /\ UNCHANGED life /\ UNCHANGED told /\ pc[r] = "new"
    BY <1>6 DEF Arrive
  <2>2. <<r, "request">> \notin out /\ <<r, "own">> \notin out
    BY <2>1 DEF Fine, Connections, At
  <2>3. /\ p \in Stage /\ p \in {"probe", "user"} /\ p \notin InEndpoint
        /\ p = "probe" => r \in Probes
        /\ p = "user" => r \in Money \cup Plain
    BY DEF Requests
  <2> HIDE DEF p
  <2> QED
    BY <1>1, <2>1, <2>2, <2>3, FootQuiet
<1>7. CASE UserLoaded(r)
  <2>1. /\ pc[r] = "user" /\ conn[r] = "open" /\ out' = out
        /\ UNCHANGED life /\ UNCHANGED told
        /\ IF r \in Money THEN Goto(r, "reserve", "asked") ELSE Goto(r, "handler", "none")
    BY <1>7 DEF UserLoaded, At
  <2>2. <<r, "request">> \in out /\ <<r, "own">> \notin out
    BY <2>1 DEF Fine, Connections, At
  <2>3. CASE r \in Money
    <3>1. "reserve" \in Stage /\ "reserve" \in InEndpoint
      OBVIOUS
    <3> QED BY <1>1, <2>1, <2>2, <2>3, <3>1, FootQuiet
  <2>4. CASE r \notin Money
    <3>1. r \in Plain
      BY <2>1, <2>4 DEF Fine, Stages
    <3> QED BY <1>1, <2>1, <2>2, <2>4, <3>1, FootQuiet
  <2> QED BY <2>3, <2>4
<1>8. CASE Refused(r)
  BY <1>8, FootRaise DEF Refused, At
<1>9. CASE HandlerReturns(r)
  <2>1. /\ pc[r] = "handler" /\ Goto(r, "answer", "none") /\ out' = out
        /\ UNCHANGED life /\ UNCHANGED told
    BY <1>9 DEF HandlerReturns
  <2>2. <<r, "request">> \in out /\ <<r, "own">> \notin out
    BY <2>1 DEF Fine, Connections, At
  <2>3. "answer" \in Stage /\ "answer" \in InEndpoint
    OBVIOUS
  <2> QED BY <1>1, <2>1, <2>2, <2>3, FootQuiet
<1>10. CASE ReserveWins(r) \/ ReserveLoses(r) \/ Replay(r) \/ FindNothing(r)
            \/ Reclaim(r) \/ CommitWork(r) \/ WorkFails(r) \/ CommitAckLost(r)
  <2>1. PICK p \in MoneyStages \cup {"answer"} : NextSession(r, p)
    BY <1>10 DEF ReserveWins, ReserveLoses, Replay, FindNothing, Reclaim, CommitWork, WorkFails,
                 CommitAckLost
  <2>2. pc[r] \in MoneyStages /\ UNCHANGED life /\ UNCHANGED told
    BY <1>10 DEF ReserveWins, ReserveLoses, Replay, FindNothing, Reclaim, CommitWork, WorkFails,
                 CommitAckLost, At
  <2> QED BY <2>1, <2>2, FootNext
<1>11. CASE IdempotencyRaises(r) \/ Cleanup(r) \/ CleanupFails(r)
  BY <1>11, FootRaise DEF IdempotencyRaises, Cleanup, CleanupFails, At
<1>12. CASE Respond(r)
  <2>1. /\ pc[r] = "answer" /\ Tell(r, "ok") /\ Goto(r, "commit", "none")
        /\ out' = out /\ UNCHANGED life
    BY <1>12 DEF Respond
  <2>2. <<r, "request">> \in out /\ <<r, "own">> \notin out
    BY <2>1 DEF Fine, Connections, At
  <2> QED BY <1>1, <2>1, <2>2, FootAnswer
<1>13. CASE CommitRequest(r) \/ CommitFails(r)
  <2>1. /\ pc[r] = "commit" /\ Goto(r, "over", "none")
        /\ out' = out \ {<<r, "request">>} /\ UNCHANGED life /\ UNCHANGED told
    BY <1>13 DEF CommitRequest, CommitFails
  <2>2. <<r, "request">> \notin out' /\ <<r, "own">> \notin out'
    BY <2>1 DEF Fine, Connections, At
  <2>3. "over" \in Stage /\ "over" \notin InEndpoint
    OBVIOUS
  <2>4. /\ out' \subseteq Sessions
        /\ \A x \in (Requests \cup Tasks) \ {r}, i \in {"request", "own"} :
              <<x, i>> \in out' <=> <<x, i>> \in out
    BY <1>2, <2>1
  <2> QED BY <2>1, <2>2, <2>3, <2>4, FootQuiet
<1>14. CASE ProbeAnswers(r)
  <2>1. /\ pc[r] = "probe" /\ Goto(r, "over", "none") /\ Tell(r, "ok")
        /\ out' = out \ {<<r, "own">>} /\ UNCHANGED life
    BY <1>14 DEF ProbeAnswers, At
  <2>2. <<r, "request">> \notin out' /\ <<r, "own">> \notin out'
    BY <2>1 DEF Fine, Connections, At
  <2>3. /\ out' \subseteq Sessions
        /\ \A x \in (Requests \cup Tasks) \ {r}, i \in {"request", "own"} :
              <<x, i>> \in out' <=> <<x, i>> \in out
    BY <1>2, <2>1
  <2> QED BY <2>1, <2>2, <2>3, FootAnswer
<1>15. CASE ProbeTimesOut(r)
  BY <1>15, FootRaise DEF ProbeTimesOut
<1>16. CASE FindStuck(r)
  <2>1. /\ pc[r] = "resolve" /\ conn[r] = "open" /\ Goto(r, "reclaim", "open")
        /\ out' = out /\ UNCHANGED life /\ UNCHANGED told
    BY <1>16 DEF FindStuck, At
  <2>2. <<r, "request">> \in out /\ <<r, "own">> \in out /\ r \in Money
    BY <2>1 DEF Fine, Connections, Stages
  <2>3. "reclaim" \in Stage /\ "reclaim" \in InEndpoint
    OBVIOUS
  <2> QED BY <1>1, <2>1, <2>2, <2>3, FootQuiet
<1> QED
  BY <1>3, <1>4, <1>5, <1>6, <1>7, <1>8, <1>9, <1>10, <1>11, <1>12, <1>13, <1>14, <1>15, <1>16
  DEF Request, Serve

-----------------------------------------------------------------------------
(* What a step of request r does to the pool, to the rows and to what has  *)
(* been committed.                                                         *)

LEMMA RequestPool ==
    ASSUME NEW r \in Requests, Request(r)
    PROVE  out' \subseteq out \/ (HasRoom /\ \E x : out' = out \cup {x})
<1>1. CASE Checkout(r)
  BY <1>1 DEF Checkout
<1>2. CASE PoolTimeout(r)
  BY <1>2 DEF PoolTimeout, Raise
<1>3. CASE CutShort(r) \/ Refused(r) \/ IdempotencyRaises(r) \/ Cleanup(r)
             \/ CleanupFails(r) \/ ProbeTimesOut(r)
  BY <1>3 DEF CutShort, Refused, IdempotencyRaises, Cleanup, CleanupFails, ProbeTimesOut, Raise
<1>4. CASE Arrive(r) \/ UserLoaded(r) \/ HandlerReturns(r) \/ FindStuck(r) \/ Respond(r)
  BY <1>4 DEF Arrive, UserLoaded, HandlerReturns, FindStuck, Respond
<1>5. CASE ReserveWins(r) \/ ReserveLoses(r) \/ Replay(r) \/ FindNothing(r) \/ Reclaim(r)
             \/ CommitWork(r) \/ WorkFails(r) \/ CommitAckLost(r)
  BY <1>5 DEF ReserveWins, ReserveLoses, Replay, FindNothing, Reclaim, CommitWork, WorkFails,
              CommitAckLost, NextSession
<1>6. CASE CommitRequest(r) \/ CommitFails(r) \/ ProbeAnswers(r)
  BY <1>6 DEF CommitRequest, CommitFails, ProbeAnswers
<1> QED
  BY <1>1, <1>2, <1>3, <1>4, <1>5, <1>6 DEF Request, Serve

\* Nobody is served before the start of the server or after its end.
LEMMA RequestServed ==
    ASSUME NEW r \in Requests, Fine(r), Lifecycle, Request(r)
    PROVE  phase = "serving"
<1>1. CASE Arrive(r) \/ CutShort(r)
  BY <1>1 DEF Arrive, CutShort
<1>2. CASE Serve(r)
  <2>1. pc[r] \notin {"new", "over"}
    <3>1. CASE Checkout(r) \/ PoolTimeout(r)
      BY <3>1 DEF Checkout, PoolTimeout, Fine, Stages
    <3>2. CASE UserLoaded(r) \/ Refused(r) \/ HandlerReturns(r) \/ ReserveWins(r)
                 \/ ReserveLoses(r) \/ Replay(r) \/ FindNothing(r) \/ FindStuck(r)
                 \/ Reclaim(r) \/ IdempotencyRaises(r)
      BY <3>2 DEF UserLoaded, Refused, HandlerReturns, ReserveWins, ReserveLoses, Replay,
                  FindNothing, FindStuck, Reclaim, IdempotencyRaises, At
    <3>3. CASE CommitWork(r) \/ WorkFails(r) \/ CommitAckLost(r) \/ Cleanup(r) \/ CleanupFails(r) \/ Respond(r)
                 \/ CommitRequest(r) \/ CommitFails(r) \/ ProbeAnswers(r) \/ ProbeTimesOut(r)
      BY <3>3 DEF CommitWork, WorkFails, CommitAckLost, Cleanup, CleanupFails, Respond, CommitRequest,
                  CommitFails, ProbeAnswers, ProbeTimesOut, At
    <3> QED BY <1>2, <3>1, <3>2, <3>3 DEF Serve
  <2> QED BY <2>1 DEF Lifecycle
<1> QED BY <1>1, <1>2 DEF Request

\* The rows and the commits are those of the step's own key and request.
Others(r) == \A q \in Requests \ {r} : pc'[q] = pc[q] /\ answer'[q] = answer[q]

Typed == /\ holder \in [Keys -> Money \cup {Nobody}]
         /\ seen \in [Requests -> Money \cup {Nobody}]
         /\ done \subseteq Money \cup Plain
         /\ unacked \subseteq Money /\ overtaken \subseteq Money

Ledger(r) ==
    /\ Typed'
    /\ Rows'
    /\ \A q \in Money : Paid(q)'

\* Neither the rows nor the commits change, whatever r is told.
LEMMA LedgerSame ==
    ASSUME IInv, NEW r \in Requests, Others(r), UNCHANGED ledger,
           r \in Money =>
              /\ pc'[r] = "reclaim" => pc[r] = "reclaim"
              /\ pc'[r] = "work" => pc[r] = "work"
              /\ pc'[r] \in {"answer", "commit"} \/ answer'[r] = "ok" =>
                    \/ pc[r] \in {"answer", "commit"} \/ answer[r] = "ok"
                    \/ holder[Key(r)] \in done
              /\ pc'[r] = "cleanup" \/ answer'[r] = "error" =>
                    pc[r] \notin {"answer", "commit", "over"} \/ answer[r] = "error"
              /\ pc[r] \in {"cleanup", "answer", "commit", "over"} =>
                    pc'[r] \in {"cleanup", "answer", "commit", "over"}
    PROVE  Ledger(r)
<1>1. Rows' /\ Typed'
  BY DEF IInv, Rows, TypeOK, Typed, Key, ledger
<1>2. ASSUME NEW q \in Money, q # r PROVE Paid(q)'
  <2>1. q \in Requests \ {r} BY <1>2 DEF Requests
  <2>2. Paid(q) BY DEF IInv
  <2> QED BY <2>1, <2>2 DEF Paid, Others, Key, ledger
<1>3. ASSUME r \in Money PROVE Paid(r)'
  <2>1. Paid(r) BY <1>3 DEF IInv
  <2>2. ASSUME holder[Key(r)] \in done
        PROVE  \E q \in done \cap Money : Key(q) = Key(r)
    <3>1. Key(r) \in Keys /\ holder[Key(r)] \in Money \cup {Nobody}
      BY <1>3 DEF Keys, Key, IInv, TypeOK
    <3>2. Nobody \notin done
      BY ServerAssumption DEF IInv, TypeOK, Requests
    <3> QED BY <2>2, <3>1, <3>2 DEF IInv, Rows
  <2> QED BY <1>3, <2>1, <2>2 DEF Paid, Key, ledger
<1> QED BY <1>1, <1>2, <1>3 DEF Ledger

\* The row of r's key is inserted by r, or deleted by a request that takes its
\* owner for abandoned, if it is not r itself.
LEMMA LedgerRow ==
    ASSUME IInv, NEW r \in Money, Others(r), UNCHANGED <<seen, done, unacked>>,
           NEW h \in {r, Nobody},
           holder' = [holder EXCEPT ![Key(r)] = h],
           overtaken \subseteq overtaken', overtaken' \subseteq Money,
           holder[Key(r)] \in {r, Nobody} \cup overtaken',
           r \notin done \ unacked, answer[r] = "none",
           (pc'[r] = "work" /\ h = r) \/ pc'[r] \in {"again", "over"},
           r \in done => pc'[r] = "over",
           answer'[r] \in {"none", "error"}
    PROVE  Ledger(r)
<1>1. Key(r) \in Keys
  BY DEF Keys, Key
<1>2. /\ holder' \in [Keys -> Money \cup {Nobody}]
      /\ holder'[Key(r)] = h
      /\ \A k \in Keys : k # Key(r) => holder'[k] = holder[k]
  BY <1>1 DEF IInv, TypeOK
<1>3. Rows'
  BY <1>1, <1>2 DEF IInv, Rows, Key
<1>4. ASSUME NEW q \in Money, q # r PROVE Paid(q)'
  <2>1. q \in Requests \ {r} /\ Key(q) \in Keys /\ q # Nobody
    BY <1>4, ServerAssumption DEF Requests, Keys, Key
  <2>2. pc'[q] = pc[q] /\ answer'[q] = answer[q] /\ Paid(q)
    BY <2>1 DEF Others, IInv
  <2>3. holder[Key(q)] = q => holder'[Key(q)] = q \/ q \in overtaken'
    <3>1. CASE Key(q) = Key(r) BY <1>4, <2>1, <3>1
    <3>2. CASE Key(q) # Key(r) BY <1>2, <2>1, <3>2
    <3> QED BY <3>1, <3>2
  <2> QED BY <2>2, <2>3 DEF Paid, Key
<1>5. Paid(r)'
  BY <1>2 DEF Paid, Key
<1>6. Typed'
  BY <1>2 DEF IInv, TypeOK, Typed
<1> QED BY <1>3, <1>4, <1>5, <1>6 DEF Ledger

\* r's work is committed, whether it learns of it or not.
LEMMA LedgerDone ==
    ASSUME IInv, NEW r \in Money, Others(r), UNCHANGED <<holder, seen, overtaken>>,
           pc[r] = "work", done' = done \cup {r}, answer'[r] = "none",
           \/ unacked' = unacked /\ pc'[r] = "answer"
           \/ unacked' = unacked \cup {r} /\ pc'[r] = "cleanup"
    PROVE  Ledger(r)
<1>1. Rows' /\ Typed'
  BY DEF IInv, Rows, TypeOK, Typed, Key
<1>2. ASSUME NEW q \in Money, q # r PROVE Paid(q)'
  <2>1. q \in Requests \ {r} BY <1>2 DEF Requests
  <2>2. pc'[q] = pc[q] /\ answer'[q] = answer[q] /\ Paid(q)
    BY <2>1 DEF Others, IInv
  <2>3. (q \in done' <=> q \in done) /\ (q \in unacked' <=> q \in unacked)
    BY <1>2
  <2>4. done \subseteq done'
    OBVIOUS
  <2> QED BY <2>2, <2>3, <2>4 DEF Paid, Key
<1>3. Paid(r)'
  <2>1. Paid(r) BY DEF IInv
  <2> QED BY <2>1 DEF Paid, Key
<1> QED BY <1>1, <1>2, <1>3 DEF Ledger

LEMMA LedgerStep ==
    ASSUME IInv, NEW r \in Requests, Request(r)
    PROVE  Ledger(r)
<1>1. Fine(r) /\ TypeOK /\ Stages(r) /\ Told(r) /\ pc[r] \in Stage
  BY DEF IInv, Fine, TypeOK
<1>2. Foot(r)
  BY <1>1, RequestFoot
<1>3. Others(r)
  BY <1>2 DEF Foot, Others
<1>4. ASSUME NEW p \in Stage, NEW c \in {"none", "asked", "open"}, Goto(r, p, c)
      PROVE  pc'[r] = p
  BY <1>1, <1>4, FootGoto
<1>5. ASSUME NEW w \in {"none", "ok", "error"}, Tell(r, w)
      PROVE  answer'[r] = w
  BY <1>1, <1>5, FootTell
<1>6. ASSUME Raise(r) PROVE pc'[r] = "over" /\ answer'[r] = "error"
  BY <1>4, <1>5, <1>6 DEF Raise
<1>7. ASSUME NEW p \in Stage, NextSession(r, p) PROVE pc'[r] = p
  BY <1>4, <1>7 DEF NextSession
<1>8. ASSUME UNCHANGED told PROVE answer'[r] = answer[r]
  BY <1>8 DEF told
<1>9. ASSUME Raise(r), UNCHANGED ledger, pc[r] \notin {"answer", "commit", "over"}
      PROVE  Ledger(r)
  BY <1>3, <1>6, <1>9, LedgerSame
<1>10. UNCHANGED ledger => UNCHANGED <<seen, done, unacked>> /\ overtaken' = overtaken
  BY DEF ledger
<1>11. ASSUME pc[r] \notin {"commit", "over"} PROVE answer[r] = "none"
  BY <1>1, <1>11 DEF Told
<1>20. CASE Checkout(r)
  <2>1. pc'[r] = pc[r] /\ answer'[r] = answer[r] /\ UNCHANGED ledger
    BY <1>1, <1>4, <1>8, <1>20 DEF Checkout
  <2>2. pc[r] \notin {"answer", "commit", "over"}
    BY <1>1, <1>20 DEF Checkout, Stages
  <2> QED BY <1>3, <1>11, <2>1, <2>2, LedgerSame
<1>21. CASE PoolTimeout(r)
  <2>1. UNCHANGED ledger /\ pc[r] \notin {"answer", "commit", "over"}
    BY <1>1, <1>21 DEF PoolTimeout, Stages
  <2>2. CASE pc[r] = "work"
    <3>1. pc'[r] = "cleanup" /\ answer'[r] = answer[r]
      BY <1>4, <1>8, <1>21, <2>2 DEF PoolTimeout
    <3> QED BY <1>3, <1>11, <2>1, <2>2, <3>1, LedgerSame
  <2>3. CASE pc[r] # "work"
    BY <1>9, <1>21, <2>1, <2>3 DEF PoolTimeout
  <2> QED BY <2>2, <2>3
<1>22. CASE CutShort(r) \/ Refused(r) \/ IdempotencyRaises(r) \/ CleanupFails(r)
              \/ ProbeTimesOut(r)
  BY <1>9, <1>22 DEF CutShort, Refused, IdempotencyRaises, CleanupFails, ProbeTimesOut, At
<1>23. CASE Arrive(r) \/ UserLoaded(r)
  <2>1. /\ UNCHANGED ledger /\ answer'[r] = answer[r]
        /\ pc[r] \in {"new", "user"}
    BY <1>8, <1>23 DEF Arrive, UserLoaded, At
  <2>2. pc'[r] \in {"user", "probe", "reserve", "handler"}
    <3>1. CASE Arrive(r)
      BY <1>4, <3>1 DEF Arrive
    <3>2. CASE UserLoaded(r)
      BY <1>4, <3>2 DEF UserLoaded
    <3> QED BY <1>23, <3>1, <3>2
  <2> QED BY <1>3, <1>11, <2>1, <2>2, LedgerSame
<1>24. CASE HandlerReturns(r)
  <2>1. UNCHANGED ledger /\ r \notin Money
    BY <1>1, <1>24, ServerAssumption DEF HandlerReturns, Stages
  <2> QED BY <1>3, <2>1, LedgerSame
<1>25. CASE ReserveWins(r)
  <2>1. /\ pc[r] \in {"reserve", "again"} /\ holder[Key(r)] = Nobody
        /\ holder' = [holder EXCEPT ![Key(r)] = r]
        /\ UNCHANGED <<seen, done, unacked, overtaken>>
        /\ pc'[r] = "work" /\ answer'[r] = answer[r]
    BY <1>7, <1>8, <1>25 DEF ReserveWins, At
  <2>2. r \in Money /\ r \notin done
    BY <1>1, <2>1 DEF Stages, IInv, Paid
  <2>3. overtaken' \subseteq Money
    BY <1>1, <2>1 DEF TypeOK
  <2> QED BY <1>3, <1>11, <2>1, <2>2, <2>3, LedgerRow
<1>26. CASE ReserveLoses(r) \/ FindNothing(r) \/ WorkFails(r)
  <2>1. /\ UNCHANGED ledger /\ answer'[r] = answer[r]
        /\ pc[r] \in {"reserve", "resolve", "work"}
        /\ pc'[r] \in {"resolve", "again", "cleanup"}
    BY <1>7, <1>8, <1>26 DEF ReserveLoses, FindNothing, WorkFails, At
  <2> QED BY <1>3, <1>11, <2>1, LedgerSame
<1>27. CASE Replay(r)
  <2>1. /\ UNCHANGED ledger /\ answer'[r] = answer[r] /\ pc[r] = "resolve"
        /\ pc'[r] = "answer" /\ holder[Key(r)] \in done
    BY <1>7, <1>8, <1>27 DEF Replay, At
  <2> QED BY <1>3, <1>11, <2>1, LedgerSame
<1>28. CASE Reclaim(r)
  <2>1. /\ pc[r] = "reclaim" /\ UNCHANGED <<seen, done, unacked>>
        /\ holder' = [holder EXCEPT ![Key(r)] = IF @ = seen[r] THEN Nobody ELSE @]
        /\ overtaken' = overtaken \cup {seen[r]}
        /\ pc'[r] = "again" /\ answer'[r] = answer[r]
    BY <1>7, <1>8, <1>28 DEF Reclaim, At
  <2>2. r \in Money /\ r \notin done /\ seen[r] \in Money
    BY <1>1, <2>1 DEF Stages, IInv, Paid
  <2>3. overtaken \subseteq overtaken' /\ overtaken' \subseteq Money
    BY <1>1, <2>1, <2>2 DEF TypeOK
  <2>4. CASE holder[Key(r)] = seen[r]
    <3>1. /\ holder' = [holder EXCEPT ![Key(r)] = Nobody]
          /\ holder[Key(r)] \in {r, Nobody} \cup overtaken'
      BY <2>1, <2>4
    <3> QED BY <1>3, <1>11, <2>1, <2>2, <2>3, <3>1, LedgerRow
  <2>5. CASE holder[Key(r)] # seen[r]
    <3>1. holder' = holder
      BY <1>1, <2>1, <2>5 DEF TypeOK
    <3>2. Rows' /\ Typed'
      BY <2>1, <2>3, <3>1 DEF IInv, Rows, TypeOK, Typed, Key
    <3>3. ASSUME NEW q \in Money PROVE Paid(q)'
      <4>1. Paid(q) BY DEF IInv
      <4>2. CASE q = r BY <1>11, <2>1, <2>2, <4>2 DEF Paid
      <4>3. CASE q # r
        <5>1. pc'[q] = pc[q] /\ answer'[q] = answer[q]
          BY <1>3, <4>3 DEF Others, Requests
        <5> QED BY <2>1, <2>3, <3>1, <4>1, <5>1 DEF Paid, Key
      <4> QED BY <4>2, <4>3
    <3> QED BY <3>2, <3>3 DEF Ledger
  <2> QED BY <2>4, <2>5
<1>29. CASE Cleanup(r)
  <2>1. /\ pc[r] = "cleanup" /\ UNCHANGED <<seen, done, unacked, overtaken>>
        /\ pc'[r] = "over" /\ answer'[r] = "error"
        /\ holder' = [holder EXCEPT ![Key(r)] = IF @ = r THEN Nobody ELSE @]
    BY <1>6, <1>29 DEF Cleanup, At
  <2>2. r \in Money /\ r \notin done \ unacked
    BY <1>1, <2>1 DEF Stages, IInv, Paid
  <2>3. overtaken' \subseteq Money
    BY <1>1, <2>1 DEF TypeOK
  <2>4. CASE holder[Key(r)] = r
    <3>1. holder' = [holder EXCEPT ![Key(r)] = Nobody]
      BY <2>1, <2>4
    <3> QED BY <1>3, <1>11, <2>1, <2>2, <2>3, <2>4, <3>1, LedgerRow
  <2>5. CASE holder[Key(r)] # r
    <3>1. UNCHANGED ledger
      BY <1>1, <2>1, <2>5 DEF TypeOK, ledger
    <3> QED BY <1>3, <1>11, <2>1, <3>1, LedgerSame
  <2> QED BY <2>4, <2>5
<1>30. CASE CommitWork(r) \/ CommitAckLost(r)
  <2>1. /\ pc[r] = "work" /\ UNCHANGED <<holder, seen, overtaken>>
        /\ done' = done \cup {r} /\ answer'[r] = answer[r]
        /\ \/ unacked' = unacked /\ pc'[r] = "answer"
           \/ unacked' = unacked \cup {r} /\ pc'[r] = "cleanup"
    <3>1. CASE CommitWork(r)
      BY <1>7, <1>8, <3>1 DEF CommitWork, At
    <3>2. CASE CommitAckLost(r)
      BY <1>7, <1>8, <3>2 DEF CommitAckLost, At
    <3> QED BY <1>30, <3>1, <3>2
  <2>2. r \in Money /\ answer[r] = "none"
    BY <1>1, <1>11, <2>1 DEF Stages
  <2> QED BY <1>3, <2>1, <2>2, LedgerDone
<1>31. CASE Respond(r)
  <2>1. /\ pc[r] = "answer" /\ pc'[r] = "commit" /\ answer'[r] = "ok"
        /\ UNCHANGED ledger
    BY <1>4, <1>5, <1>31 DEF Respond
  <2> QED BY <1>3, <2>1, LedgerSame
<1>32. CASE CommitRequest(r)
  <2>1. /\ pc[r] = "commit" /\ pc'[r] = "over" /\ answer'[r] = answer[r]
        /\ UNCHANGED <<holder, seen, unacked, overtaken>>
        /\ done' = IF r \in Plain THEN done \cup {r} ELSE done
    BY <1>4, <1>8, <1>32 DEF CommitRequest
  <2>2. CASE r \notin Plain
    <3>1. UNCHANGED ledger
      BY <2>1, <2>2 DEF ledger
    <3> QED BY <1>3, <2>1, <3>1, LedgerSame
  <2>3. CASE r \in Plain
    <3>1. r \notin Money
      BY <2>3, ServerAssumption
    <3>2. Rows' /\ Typed'
      BY <2>1, <2>3 DEF IInv, Rows, TypeOK, Typed, Key
    <3>3. ASSUME NEW q \in Money PROVE Paid(q)'
      <4>1. q \in Requests \ {r} /\ (q \in done' <=> q \in done)
        BY <2>1, <3>1 DEF Requests
      <4> QED BY <1>3, <2>1, <4>1 DEF IInv, Paid, Others, Key
    <3> QED BY <3>2, <3>3 DEF Ledger
  <2> QED BY <2>2, <2>3
<1>33. CASE CommitFails(r)
  <2>1. /\ pc[r] = "commit" /\ pc'[r] = "over" /\ answer'[r] = answer[r]
        /\ UNCHANGED ledger
    BY <1>4, <1>8, <1>33 DEF CommitFails
  <2> QED BY <1>3, <2>1, LedgerSame
<1>34. CASE ProbeAnswers(r)
  <2>1. UNCHANGED ledger /\ r \notin Money
    BY <1>1, <1>34, ServerAssumption DEF ProbeAnswers, At, Stages
  <2> QED BY <1>3, <2>1, LedgerSame
<1>35. CASE FindStuck(r)
  <2>1. /\ pc[r] = "resolve" /\ holder[Key(r)] \notin done \cup {Nobody}
        /\ seen' = [seen EXCEPT ![r] = holder[Key(r)]]
        /\ UNCHANGED <<holder, done, unacked, overtaken>>
        /\ pc'[r] = "reclaim" /\ answer'[r] = answer[r]
    BY <1>4, <1>8, <1>35 DEF FindStuck, At
  <2>2. r \in Money /\ r \notin done
    BY <1>1, <2>1 DEF Stages, IInv, Paid
  <2>3. holder[Key(r)] \in Money
    BY <1>1, <2>1, <2>2 DEF TypeOK, Keys, Key
  <2>4. /\ seen' \in [Requests -> Money \cup {Nobody}] /\ seen'[r] \in Money
        /\ \A q \in Requests \ {r} : seen'[q] = seen[q]
    BY <1>1, <2>1, <2>3 DEF TypeOK
  <2>5. Rows' /\ Typed'
    BY <2>1, <2>4 DEF IInv, Rows, TypeOK, Typed, Key
  <2>6. ASSUME NEW q \in Money, q # r PROVE Paid(q)'
    <3>1. q \in Requests \ {r} /\ Paid(q)
      BY <2>6 DEF Requests, IInv
    <3>2. pc'[q] = pc[q] /\ answer'[q] = answer[q] /\ seen'[q] = seen[q]
      BY <1>3, <2>4, <3>1 DEF Others
    <3> QED BY <2>1, <3>1, <3>2 DEF Paid, Key
  <2>7. Paid(r)'
    BY <1>11, <2>1, <2>2, <2>4 DEF Paid, Key
  <2> QED BY <2>5, <2>6, <2>7 DEF Ledger
<1> QED
  BY <1>20, <1>21, <1>22, <1>23, <1>24, <1>25, <1>26, <1>27, <1>28, <1>29, <1>30, <1>31,
     <1>32, <1>33, <1>34, <1>35 DEF Request, Serve

-----------------------------------------------------------------------------
(* The inductive invariant.                                                *)

LEMMA InitHolds == Init => IInv
<1> SUFFICES ASSUME Init PROVE IInv
  OBVIOUS
<1>1. out = {} /\ done = {} /\ pc = [r \in Requests |-> "new"] /\ conn = [r \in Requests |-> "none"]
  BY DEF Init
<1>2. TypeOK
  BY DEF Init, TypeOK
<1>3. Loops /\ Lifecycle
  BY DEF Init, Loops, Lifecycle, Tasks
<1>4. Room
  BY <1>1, FS_EmptySet, ServerAssumption DEF Room
<1>5. Rows
  BY DEF Init, Rows
<1>6. ASSUME NEW r \in Requests PROVE Stages(r) /\ Connections(r) /\ Told(r)
  BY <1>1, <1>6 DEF Init, Stages, Connections, Told, At
<1>7. ASSUME NEW r \in Money PROVE Paid(r)
  <2>1. r \in Requests BY DEF Requests
  <2> QED BY <1>1, <2>1 DEF Init, Paid
<1> QED BY <1>2, <1>3, <1>4, <1>5, <1>6, <1>7 DEF IInv

\* A connection more where there was room for it, or fewer.
LEMMA RoomKept ==
    ASSUME Room, out' \subseteq out \/ (HasRoom /\ \E x : out' = out \cup {x})
    PROVE  Room'
<1>0. Cardinality(out) \in Nat /\ Capacity \in Nat
  BY FS_CardinalityType, ServerAssumption DEF Room
<1>1. CASE out' \subseteq out
  <2>1. IsFiniteSet(out') /\ Cardinality(out') <= Cardinality(out)
    BY <1>1, FS_Subset DEF Room
  <2>2. Cardinality(out') \in Nat
    BY <2>1, FS_CardinalityType
  <2> QED BY <1>0, <2>1, <2>2 DEF Room
<1>2. ASSUME HasRoom, NEW x, out' = out \cup {x} PROVE Room'
  <2>1. /\ IsFiniteSet(out')
        /\ Cardinality(out') = IF x \in out THEN Cardinality(out) ELSE Cardinality(out) + 1
    BY <1>2, FS_AddElement DEF Room
  <2> QED BY <1>0, <1>2, <2>1 DEF Room, HasRoom
<1> QED BY <1>1, <1>2

LEMMA RequestKeeps ==
    ASSUME IInv, NEW r \in Requests, Request(r)
    PROVE  IInv'
<1>1. Fine(r) /\ Lifecycle /\ Room /\ Loops
  BY DEF IInv, Fine
<1>2. Foot(r) /\ Ledger(r) /\ phase = "serving"
  BY <1>1, RequestFoot, LedgerStep, RequestServed
<1>3. Room'
  BY <1>1, RequestPool, RoomKept
<1>4. UNCHANGED life
  BY <1>2 DEF Foot
<1>5. TypeOK'
  BY <1>2, <1>4 DEF IInv, TypeOK, Foot, Ledger, Typed, life
<1>6. Loops'
  <2>1. ASSUME NEW t \in Tasks PROVE <<t, "own">> \in out' <=> <<t, "own">> \in out
    <3>1. t \in (Requests \cup Tasks) \ {r}
      BY ServerAssumption
    <3> QED BY <1>2, <3>1 DEF Foot
  <2> QED BY <1>1, <1>4, <2>1 DEF Loops, life
<1>7. Lifecycle'
  BY <1>1, <1>2, <1>4 DEF Lifecycle, life
<1>8. ASSUME NEW q \in Requests PROVE Stages(q)' /\ Connections(q)' /\ Told(q)'
  <2>1. CASE q = r BY <1>2, <2>1 DEF Foot
  <2>2. CASE q # r
    <3>1. /\ pc'[q] = pc[q] /\ conn'[q] = conn[q]
          /\ answer'[q] = answer[q] /\ starts'[q] = starts[q]
          /\ <<q, "own">> \in out' <=> <<q, "own">> \in out
          /\ <<q, "request">> \in out' <=> <<q, "request">> \in out
      BY <1>2, <2>2 DEF Foot
    <3>2. Stages(q) /\ Connections(q) /\ Told(q)
      BY DEF IInv
    <3> QED BY <3>1, <3>2 DEF Stages, Connections, Told, At
  <2> QED BY <2>1, <2>2
<1> QED
  BY <1>2, <1>3, <1>5, <1>6, <1>7, <1>8 DEF IInv, Ledger

\* The loops and the lifespan leave the requests alone.
LEMMA LoopKeeps ==
    ASSUME IInv, NEW t \in Tasks, UNCHANGED requests, TypeOK',
           \A x \in (Requests \cup Tasks) \ {t}, k \in {"request", "own"} :
               <<x, k>> \in out' <=> <<x, k>> \in out,
           \A u \in Tasks \ {t} : loop'[u] = loop[u],
           <<t, "own">> \in out' <=> loop'[t] = "cycle",
           out' \subseteq out \/ (HasRoom /\ \E x : out' = out \cup {x}),
           Lifecycle'
    PROVE  IInv'
<1>1. Room'
  BY RoomKept DEF IInv
<1>2. Loops'
  BY DEF IInv, Loops
<1>3. ASSUME NEW q \in Requests PROVE Stages(q)' /\ Connections(q)' /\ Told(q)'
  <2>1. q \in (Requests \cup Tasks) \ {t}
    BY ServerAssumption
  <2>2. /\ <<q, "own">> \in out' <=> <<q, "own">> \in out
        /\ <<q, "request">> \in out' <=> <<q, "request">> \in out
    BY <2>1
  <2>3. pc' = pc /\ conn' = conn /\ answer' = answer /\ starts' = starts
    BY DEF requests
  <2>4. Stages(q) /\ Connections(q) /\ Told(q)
    BY DEF IInv
  <2> QED BY <2>2, <2>3, <2>4 DEF Stages, Connections, Told, At
<1>4. ASSUME NEW q \in Money PROVE Paid(q)'
  BY DEF IInv, requests, Paid, Key
<1>5. Rows'
  BY DEF IInv, requests, Rows, Key
<1> QED BY <1>1, <1>2, <1>3, <1>4, <1>5 DEF IInv

LEMMA LifespanKeeps ==
    ASSUME IInv, UNCHANGED requests, out' = out, TypeOK', Loops', Lifecycle'
    PROVE  IInv'
<1>1. Room'
  BY DEF IInv, Room
<1>2. ASSUME NEW q \in Requests PROVE Stages(q)' /\ Connections(q)' /\ Told(q)'
  BY DEF IInv, requests, Stages, Connections, Told, At
<1>3. ASSUME NEW q \in Money PROVE Paid(q)'
  BY DEF IInv, requests, Paid, Key
<1>4. Rows'
  BY DEF IInv, requests, Rows, Key
<1> QED BY <1>1, <1>2, <1>3, <1>4 DEF IInv

LEMMA RunKeeps ==
    ASSUME IInv, NEW t \in Tasks, Run(t)
    PROVE  IInv'
<1>1. TypeOK /\ Loops /\ Lifecycle /\ <<t, "own">> \in Sessions
  BY DEF IInv, Sessions
<1>2. CASE Wake(t)
  <2>1. /\ loop[t] = "asleep" /\ loop' = [loop EXCEPT ![t] = "asking"]
        /\ phase' = phase /\ producer' = producer /\ out' = out /\ UNCHANGED requests
    BY <1>2 DEF Wake, LoopTo
  <2>2. loop'[t] = "asking" /\ \A u \in Tasks \ {t} : loop'[u] = loop[u]
    BY <1>1, <2>1 DEF TypeOK
  <2>3. TypeOK'
    BY <1>1, <2>1 DEF TypeOK, requests
  <2>4. Lifecycle'
    BY <1>1, <2>1, <2>2 DEF Lifecycle, requests, Tasks
  <2>5. <<t, "own">> \in out' <=> loop'[t] = "cycle"
    BY <1>1, <2>1, <2>2 DEF Loops
  <2> QED BY <2>1, <2>2, <2>3, <2>4, <2>5, LoopKeeps
<1>3. CASE BeginCycle(t)
  <2>1. /\ loop[t] = "asking" /\ HasRoom /\ out' = out \cup {<<t, "own">>}
        /\ loop' = [loop EXCEPT ![t] = "cycle"]
        /\ phase' = phase /\ producer' = producer /\ UNCHANGED requests
    BY <1>3 DEF BeginCycle, LoopTo
  <2>2. loop'[t] = "cycle" /\ \A u \in Tasks \ {t} : loop'[u] = loop[u]
    BY <1>1, <2>1 DEF TypeOK
  <2>3. TypeOK'
    BY <1>1, <2>1 DEF TypeOK, requests
  <2>4. Lifecycle'
    BY <1>1, <2>1, <2>2 DEF Lifecycle, requests, Tasks
  <2>5. \A x \in (Requests \cup Tasks) \ {t}, k \in {"request", "own"} :
           <<x, k>> \in out' <=> <<x, k>> \in out
    BY <2>1
  <2>6. <<t, "own">> \in out' <=> loop'[t] = "cycle"
    BY <2>1, <2>2
  <2>7. HasRoom /\ \E x : out' = out \cup {x}
    BY <2>1
  <2> QED BY <2>1, <2>2, <2>3, <2>4, <2>5, <2>6, <2>7, LoopKeeps
<1>4. CASE EndCycle(t)
  <2>1. /\ loop[t] \in {"asking", "cycle"} /\ out' = out \ {<<t, "own">>}
        /\ loop' = [loop EXCEPT ![t] = "asleep"]
        /\ phase' = phase /\ producer' = producer /\ UNCHANGED requests
    BY <1>4 DEF EndCycle, LoopTo
  <2>2. loop'[t] = "asleep" /\ \A u \in Tasks \ {t} : loop'[u] = loop[u]
    BY <1>1, <2>1 DEF TypeOK
  <2>3. TypeOK'
    BY <1>1, <2>1 DEF TypeOK, requests
  <2>4. Lifecycle'
    BY <1>1, <2>1, <2>2 DEF Lifecycle, requests, Tasks
  <2>5. \A x \in (Requests \cup Tasks) \ {t}, k \in {"request", "own"} :
           <<x, k>> \in out' <=> <<x, k>> \in out
    BY <2>1
  <2>6. <<t, "own">> \in out' <=> loop'[t] = "cycle"
    BY <2>1, <2>2
  <2>7. out' \subseteq out
    BY <2>1
  <2> QED BY <2>1, <2>2, <2>3, <2>4, <2>5, <2>6, <2>7, LoopKeeps
<1> QED BY <1>2, <1>3, <1>4 DEF Run

LEMMA LifespanStep ==
    ASSUME IInv, Lifespan
    PROVE  IInv'
<1>1. TypeOK /\ Loops /\ Lifecycle
  BY DEF IInv
<1>2. CASE Start
  <2>1. /\ phase = "starting" /\ phase' = "serving" /\ producer' = "started"
        /\ loop' = [t \in Tasks |-> "asleep"] /\ out' = out /\ UNCHANGED requests
    BY <1>2 DEF Start
  <2>2. TypeOK'
    BY <1>1, <2>1 DEF TypeOK, requests
  <2>3. Loops'
    BY <1>1, <2>1 DEF Loops, Lifecycle
  <2>4. Lifecycle'
    BY <1>1, <2>1 DEF Lifecycle, requests, Tasks
  <2> QED BY <2>1, <2>2, <2>3, <2>4, LifespanKeeps
<1>3. CASE StartFails \/ Shutdown \/ StopProducer \/ Dispose
  <2>1. /\ loop' = loop /\ out' = out /\ UNCHANGED requests
        /\ phase' \in {"failed", "cancelling", "disposing", "stopped"}
        /\ producer' \in {producer, "stopped"}
    BY <1>3 DEF StartFails, Shutdown, StopProducer, Dispose
  <2>2. TypeOK'
    BY <1>1, <2>1 DEF TypeOK, requests
  <2>3. Loops'
    BY <1>1, <2>1 DEF Loops
  <2>4. Lifecycle'
    <3>1. CASE StartFails
      BY <1>1, <2>1, <3>1 DEF Lifecycle, requests, StartFails, Tasks
    <3>2. CASE Shutdown
      BY <1>1, <2>1, <3>2 DEF Lifecycle, requests, Shutdown, Tasks
    <3>3. CASE StopProducer
      BY <1>1, <2>1, <3>3 DEF Lifecycle, requests, StopProducer, Tasks
    <3>4. CASE Dispose
      BY <1>1, <2>1, <3>4 DEF Lifecycle, requests, Dispose, Tasks
    <3> QED BY <1>3, <3>1, <3>2, <3>3, <3>4
  <2> QED BY <2>1, <2>2, <2>3, <2>4, LifespanKeeps
<1>4. ASSUME NEW t \in Tasks, CancelTask(t) PROVE IInv'
  <2>1. /\ phase = "cancelling" /\ out' = out \ {<<t, "own">>}
        /\ loop' = [loop EXCEPT ![t] = "ended"]
        /\ phase' = phase /\ producer' = producer /\ UNCHANGED requests
    BY <1>4 DEF CancelTask, LoopTo
  <2>2. loop'[t] = "ended" /\ \A u \in Tasks \ {t} : loop'[u] = loop[u]
    BY <1>1, <2>1 DEF TypeOK
  <2>3. TypeOK'
    BY <1>1, <2>1 DEF TypeOK, requests
  <2>4. Lifecycle'
    BY <1>1, <2>1, <2>2 DEF Lifecycle, requests, Tasks
  <2>5. \A x \in (Requests \cup Tasks) \ {t}, k \in {"request", "own"} :
           <<x, k>> \in out' <=> <<x, k>> \in out
    BY <2>1
  <2>6. <<t, "own">> \in out' <=> loop'[t] = "cycle"
    BY <2>1, <2>2
  <2>7. out' \subseteq out
    BY <2>1
  <2> QED BY <2>1, <2>2, <2>3, <2>4, <2>5, <2>6, <2>7, LoopKeeps
<1> QED BY <1>2, <1>3, <1>4 DEF Lifespan

LEMMA StepKeeps == IInv /\ [Next]_vars => IInv'
<1> SUFFICES ASSUME IInv, [Next]_vars PROVE IInv'
  OBVIOUS
<1>1. ASSUME NEW r \in Requests, Arrive(r) \/ CutShort(r) \/ Serve(r) PROVE IInv'
  BY <1>1, RequestKeeps DEF Request
<1>2. ASSUME NEW t \in Tasks, Run(t) PROVE IInv'
  BY <1>2, RunKeeps
<1>3. CASE Lifespan
  BY <1>3, LifespanStep
<1>4. CASE UNCHANGED vars
  <2>1. out' = out /\ UNCHANGED requests /\ UNCHANGED life
    BY <1>4 DEF vars, requests, life
  <2>2. TypeOK' /\ Loops' /\ Lifecycle'
    BY <2>1 DEF IInv, TypeOK, Loops, Lifecycle, requests, life
  <2> QED BY <2>1, <2>2, LifespanKeeps
<1> QED BY <1>1, <1>2, <1>3, <1>4 DEF Next

LEMMA AlwaysIInv == Spec => []IInv
<1> QED BY InitHolds, StepKeeps, PTL DEF Spec

-----------------------------------------------------------------------------
(* The theorems.                                                           *)

\* Every variable keeps its type, for any number of requests.
THEOREM TypeCorrect == Spec => []TypeOK
<1>1. IInv => TypeOK
  BY DEF IInv
<1> QED BY <1>1, AlwaysIInv, PTL

\* get_session, unit_of_work and wait_for leak no connection, and the pool
\* stays within pool_size + max_overflow, for any number of requests.
THEOREM PoolIsAccounted == Spec => []PoolAccounted
<1>1. IInv => PoolAccounted
  <2> SUFFICES ASSUME IInv PROVE out = Holders
    BY DEF IInv, Room, PoolAccounted
  <2>1. ASSUME NEW s \in out PROVE s \in Holders
    <3>1. s \in Sessions
      BY <2>1 DEF IInv, TypeOK
    <3>2. ASSUME NEW r \in Requests, s = <<r, "request">> PROVE s \in Holders
      <4>1. At(r, "user", "open") \/ pc[r] \in InEndpoint
        BY <2>1, <3>2 DEF IInv, Connections
      <4> QED BY <3>2, <4>1 DEF Holders
    <3>3. ASSUME NEW r \in Requests, s = <<r, "own">> PROVE s \in Holders
      <4>1. pc[r] \in InOwn /\ conn[r] = "open"
        BY <2>1, <3>3 DEF IInv, Connections
      <4> QED BY <3>3, <4>1 DEF Holders
    <3>4. ASSUME NEW t \in Tasks, s = <<t, "own">> PROVE s \in Holders
      <4>1. loop[t] = "cycle"
        BY <2>1, <3>4 DEF IInv, Loops
      <4> QED BY <3>4, <4>1 DEF Holders
    <3> QED BY <3>1, <3>2, <3>3, <3>4 DEF Sessions
  <2>2. ASSUME NEW s \in Holders PROVE s \in out
    <3>1. ASSUME NEW r \in Requests, s = <<r, "request">>,
                 At(r, "user", "open") \/ pc[r] \in InEndpoint
          PROVE  s \in out
      BY <3>1 DEF IInv, Connections
    <3>2. ASSUME NEW r \in Requests, s = <<r, "own">>, pc[r] \in InOwn /\ conn[r] = "open"
          PROVE  s \in out
      BY <3>2 DEF IInv, Connections
    <3>3. ASSUME NEW t \in Tasks, s = <<t, "own">>, loop[t] = "cycle" PROVE s \in out
      BY <3>3 DEF IInv, Loops
    <3> QED BY <3>1, <3>2, <3>3 DEF Holders
  <2> QED BY <2>1, <2>2
<1> QED BY <1>1, AlwaysIInv, PTL

\* A request is sent one response, neither none nor a second one when COMMIT
\* fails after the first (UnhandledExceptionMiddleware).
THEOREM AnsweredOnce == Spec => []OneResponse
<1>1. IInv => OneResponse
  BY DEF IInv, Told, OneResponse
<1> QED BY <1>1, AlwaysIInv, PTL

\* What is answered about money: a success is that of a committed execution, an
\* error is told after a COMMIT only when the reply to it was lost, and a key is
\* executed again only after such a COMMIT or the reclaim of a reservation
\* (run_idempotent in its own transactions, the response before the request's).
THEOREM AnswersAreTrue == Spec => []MoneyAnswersAreTrue
<1>1. IInv => MoneyAnswersAreTrue
  <2> SUFFICES ASSUME IInv PROVE MoneyAnswersAreTrue
    OBVIOUS
  <2>1. \A r \in Money : Paid(r)
    BY DEF IInv
  <2>2. ASSUME NEW r \in (done \cap Money) \ (unacked \cup overtaken),
               NEW q \in (done \cap Money) \ (unacked \cup overtaken), Key(r) = Key(q)
        PROVE  r = q
    BY <2>1, <2>2 DEF Paid
  <2> QED BY <2>1, <2>2 DEF MoneyAnswersAreTrue, Paid
<1> QED BY <1>1, AlwaysIInv, PTL

\* relay_loop and purge_loop catch what their cycles raise: while the server
\* serves neither has ended, and only the cancellation of the lifespan ends one.
THEOREM LoopsEndByCancellation == Spec => []LoopsSurvive
<1>1. IInv => LoopsSurvive
  BY DEF IInv, Lifecycle, TypeOK, LoopsSurvive
<1> QED BY <1>1, AlwaysIInv, PTL

\* The lifespan stops the relay before its producer and disposes of the engine
\* when nobody holds a connection of it.
THEOREM LifespanInOrder == Spec => []ResourcesOutliveUsers
<1>1. IInv => ResourcesOutliveUsers
  <2> SUFFICES ASSUME IInv PROVE ResourcesOutliveUsers
    OBVIOUS
  <2>1. Lifecycle /\ Loops /\ out \subseteq Sessions
    BY DEF IInv, TypeOK
  <2>2. ASSUME phase \in {"disposing", "stopped"} PROVE out = {}
    <3>1. ASSUME NEW t \in Tasks PROVE <<t, "own">> \notin out
      BY <2>1, <2>2 DEF Lifecycle, Loops
    <3>2. ASSUME NEW r \in Requests
          PROVE  <<r, "own">> \notin out /\ <<r, "request">> \notin out
      <4>1. pc[r] \in {"new", "over"} /\ Connections(r)
        BY <2>1, <2>2 DEF Lifecycle, IInv
      <4> QED BY <4>1 DEF Connections, At
    <3>3. ASSUME NEW s \in Sessions PROVE s \notin out
      <4>1. \/ \E r \in Requests : s = <<r, "request">> \/ s = <<r, "own">>
            \/ \E t \in Tasks : s = <<t, "own">>
        BY <3>3 DEF Sessions
      <4> QED BY <3>1, <3>2, <4>1
    <3> QED BY <2>1, <3>3
  <2>3. ASSUME loop[Relay] \in {"asleep", "asking", "cycle"} PROVE producer = "started"
    BY <2>1, <2>3 DEF Lifecycle
  <2> QED BY <2>2, <2>3 DEF ResourcesOutliveUsers
<1> QED BY <1>1, AlwaysIInv, PTL
=============================================================================
