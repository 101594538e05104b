---------------------------- MODULE OutboxRelay ----------------------------
(***************************************************************************)
(* The outbox table, the relays that drain it to Kafka (events/relay.py,   *)
(* repositories/outbox.py) and its cleanup (events/outbox_cleanup.py).     *)
(*                                                                         *)
(* The rows are those of one user and one topic, hence of one partition.   *)
(* A relay is one relay_loop; its cycle is one transaction, of which the   *)
(* row locks and the marks are private until COMMIT while what it sends to *)
(* Kafka is not.  Time is abstracted: a back-off, or the retention of a    *)
(* published row, may end at any moment.                                   *)
(***************************************************************************)
EXTENDS Integers, Sequences, FiniteSets

CONSTANTS Txns,       \* business transactions that enqueue events
          RowsOf,     \* RowsOf[t]: the rows t enqueues, in program order
          Relays,     \* running relay_loop tasks
          BatchSize,  \* RELAY_BATCH_SIZE
          Faults      \* which of the following this instance admits

FaultKinds == { "overlap",    \* transactions of one user run concurrently
                "refused",    \* send_and_wait raises, nothing was stored
                "ack_lost",   \* send_and_wait raises, the event was stored
                "crash" }     \* a cycle dies: database error, cancellation

Elems(s) == {s[i] : i \in DOMAIN s}
Rows     == UNION {Elems(RowsOf[t]) : t \in Txns}
TxnOf(e) == CHOOSE t \in Txns : e \in Elems(RowsOf[t])

ASSUME RelayAssumption ==
    /\ BatchSize \in Nat \ {0}
    /\ Faults \subseteq FaultKinds
    /\ \A t \in Txns : RowsOf[t] \in Seq(Rows)
    /\ IsFiniteSet(Rows)
    /\ \A t, u \in Txns : t # u => Elems(RowsOf[t]) \cap Elems(RowsOf[u]) = {}

VARIABLES
    started,    \* transactions in the order they began: created_at is now(),
                \* which Postgres fixes when the transaction starts
    happened,   \* rows in the order their transactions committed
    ended,      \* transactions that committed or rolled back
    row,        \* the row in the table
    waiting,    \* rows whose next_attempt_at lies in the future
    scan,       \* scan[r]: rows r's SELECT has still to try to lock, in order
    batch,      \* batch[r]: rows r has locked and not sent yet, in order
    sent,       \* sent[r]: rows r has marked published, uncommitted
    failed,     \* failed[r]: rows r has marked failed, uncommitted
    log         \* the partition: rows in the order they first arrived

table == <<row, waiting>>
inner == <<scan, batch, sent, failed>>
users == <<started, happened, ended>>
vars  == <<started, happened, ended, row, waiting, scan, batch, sent, failed, log>>

TypeOK == /\ started \in Seq(Txns)
          /\ happened \in Seq(Rows)
          /\ ended \subseteq Txns
          /\ row \in [Rows -> {"none", "pending", "published", "purged"}]
          /\ waiting \subseteq Rows
          /\ scan \in [Relays -> Seq(Rows)]
          /\ batch \in [Relays -> Seq(Rows)]
          /\ sent \in [Relays -> SUBSET Rows]
          /\ failed \in [Relays -> SUBSET Rows]
          /\ log \in Seq(Rows)

Init == /\ started = << >>
        /\ happened = << >>
        /\ ended = {}
        /\ row = [e \in Rows |-> "none"]
        /\ waiting = {}
        /\ scan = [r \in Relays |-> << >>]
        /\ batch = [r \in Relays |-> << >>]
        /\ sent = [r \in Relays |-> {}]
        /\ failed = [r \in Relays |-> {}]
        /\ log = << >>

-----------------------------------------------------------------------------
(* The business transactions: enqueue_event inside unit_of_work.           *)

Open == Elems(started) \ ended

Begin(t) ==
    /\ t \notin Elems(started)
    /\ "overlap" \in Faults \/ Open = {}
    /\ started' = Append(started, t)
    /\ UNCHANGED <<happened, ended>> /\ UNCHANGED table /\ UNCHANGED inner /\ UNCHANGED log

Commit(t) ==
    /\ t \in Open
    /\ ended' = ended \cup {t}
    /\ happened' = happened \o RowsOf[t]
    /\ row' = [e \in Rows |-> IF e \in Elems(RowsOf[t]) THEN "pending" ELSE row[e]]
    /\ UNCHANGED <<started, waiting>> /\ UNCHANGED inner /\ UNCHANGED log

RollBack(t) ==
    /\ t \in Open
    /\ ended' = ended \cup {t}
    /\ UNCHANGED <<started, happened>> /\ UNCHANGED table /\ UNCHANGED inner /\ UNCHANGED log

-----------------------------------------------------------------------------
(* relay_once.                                                             *)

Held(r) == Elems(batch[r]) \cup sent[r] \cup failed[r]
Locked  == UNION {Held(r) : r \in Relays}

\* created_at: the rows of one transaction share it.
CreatedAt(e) == CHOOSE i \in DOMAIN started : started[i] = TxnOf(e)

\* published_at IS NULL AND next_attempt_at is past.
Due == {e \in Rows : row[e] = "pending" /\ e \notin waiting}

Eligible_NoSkipLocked == Due

\* What SKIP LOCKED leaves.
Eligible == Due \ Locked

\* ORDER BY created_at: ties come in any order.
Scans == {s \in [1..Cardinality(Due) -> Due] :
             /\ Elems(s) = Due
             /\ \A i, j \in DOMAIN s : i < j => CreatedAt(s[i]) <= CreatedAt(s[j])}

\* lock_unpublished_batch: the rows of the SELECT's snapshot, sorted.  It locks
\* them one at a time, and another relay may do so in between.
LockBatch(r) ==
    /\ Held(r) = {} /\ scan[r] = << >>
    /\ \E s \in Scans : scan' = [scan EXCEPT ![r] = s]
    /\ UNCHANGED <<batch, sent, failed>>
    /\ UNCHANGED users /\ UNCHANGED table /\ UNCHANGED log

\* The next row is locked, up to the LIMIT ...
LockRow(r) ==
    /\ scan[r] # << >> /\ Head(scan[r]) \in Eligible
    /\ batch' = [batch EXCEPT ![r] = Append(@, Head(scan[r]))]
    /\ scan' = [scan EXCEPT ![r] = IF Len(batch'[r]) = BatchSize THEN << >> ELSE Tail(@)]
    /\ UNCHANGED <<sent, failed>> /\ UNCHANGED users /\ UNCHANGED table /\ UNCHANGED log

\* ... or skipped: locked, or another relay has published it or put it off
\* since the snapshot.
SkipRow(r) ==
    /\ scan[r] # << >> /\ Head(scan[r]) \notin Eligible
    /\ scan' = [scan EXCEPT ![r] = Tail(@)]
    /\ UNCHANGED <<batch, sent, failed>>
    /\ UNCHANGED users /\ UNCHANGED table /\ UNCHANGED log

\* Kafka stores a message of e.  A second one has the same event_id, and a
\* consumer that deduplicates does not see it.
Arrive(e) == log' = IF e \in Elems(log) THEN log ELSE Append(log, e)

\* One turn of the loop over the batch, which the SELECT has returned.
Take(r, e) == /\ scan[r] = << >> /\ batch[r] # << >> /\ e = Head(batch[r])
              /\ batch' = [batch EXCEPT ![r] = Tail(@)]
              /\ UNCHANGED scan

\* send_and_wait returns; mark_published.
SendOk(r, e) ==
    /\ Take(r, e)
    /\ Arrive(e)
    /\ sent' = [sent EXCEPT ![r] = @ \cup {e}]
    /\ UNCHANGED failed /\ UNCHANGED users /\ UNCHANGED table

\* The except clause: mark_failed, and on with the next row.
MarkFailed(r, e) ==
    /\ failed' = [failed EXCEPT ![r] = @ \cup {e}]
    /\ UNCHANGED sent

SendRefused(r, e) ==
    /\ "refused" \in Faults
    /\ Take(r, e)
    /\ MarkFailed(r, e)
    /\ UNCHANGED log /\ UNCHANGED users /\ UNCHANGED table

\* The broker stored the event but the producer timed out waiting for it.
SendAckLost(r, e) ==
    /\ "ack_lost" \in Faults
    /\ Take(r, e)
    /\ Arrive(e)
    /\ MarkFailed(r, e)
    /\ UNCHANGED users /\ UNCHANGED table

CommitBatch_MarksAll(r) ==
    /\ batch[r] = << >>
    /\ sent[r] \cup failed[r] # {}
    /\ row' = [e \in Rows |-> IF e \in sent[r] \cup failed[r] THEN "published" ELSE row[e]]
    /\ sent' = [sent EXCEPT ![r] = {}]
    /\ failed' = [failed EXCEPT ![r] = {}]
    /\ UNCHANGED <<waiting, scan, batch>> /\ UNCHANGED users /\ UNCHANGED log

\* COMMIT of the cycle: the marks become visible, the locks are released.
CommitBatch(r) ==
    /\ batch[r] = << >>
    /\ sent[r] \cup failed[r] # {}
    /\ row' = [e \in Rows |-> IF e \in sent[r] THEN "published" ELSE row[e]]
    /\ waiting' = waiting \cup failed[r]
    /\ sent' = [sent EXCEPT ![r] = {}]
    /\ failed' = [failed EXCEPT ![r] = {}]
    /\ UNCHANGED <<scan, batch>> /\ UNCHANGED users /\ UNCHANGED log

\* The cycle's transaction rolls back: a database error in a mark or in the
\* COMMIT, which relay_loop logs; the cancellation at shutdown; a crash.
AbortBatch(r) ==
    /\ "crash" \in Faults
    /\ Held(r) # {} \/ scan[r] # << >>
    /\ scan' = [scan EXCEPT ![r] = << >>]
    /\ batch' = [batch EXCEPT ![r] = << >>]
    /\ sent' = [sent EXCEPT ![r] = {}]
    /\ failed' = [failed EXCEPT ![r] = {}]
    /\ UNCHANGED users /\ UNCHANGED table /\ UNCHANGED log

-----------------------------------------------------------------------------
(* Time: next_attempt_at passes; purge_once finds a row past retention.    *)

BackoffEnds(e) ==
    /\ e \in waiting
    /\ waiting' = waiting \ {e}
    /\ UNCHANGED row /\ UNCHANGED users /\ UNCHANGED inner /\ UNCHANGED log

Purge_AnyOld(e) ==
    /\ row[e] \in {"pending", "published"}
    /\ e \notin Locked
    /\ row' = [row EXCEPT ![e] = "purged"]
    /\ UNCHANGED waiting /\ UNCHANGED users /\ UNCHANGED inner /\ UNCHANGED log

Purge_Archives(e) ==
    /\ row[e] = "published"
    /\ row' = [row EXCEPT ![e] = "archived"]
    /\ UNCHANGED waiting /\ UNCHANGED users /\ UNCHANGED inner /\ UNCHANGED log

\* DELETE ... WHERE published_at IS NOT NULL AND published_at < cutoff.
Purge(e) ==
    /\ row[e] = "published"
    /\ row' = [row EXCEPT ![e] = "purged"]
    /\ UNCHANGED waiting /\ UNCHANGED users /\ UNCHANGED inner /\ UNCHANGED log

-----------------------------------------------------------------------------
Cycle(r) == \/ LockBatch(r) \/ LockRow(r) \/ SkipRow(r) \/ CommitBatch(r)
            \/ \E e \in Rows : SendOk(r, e) \/ SendRefused(r, e) \/ SendAckLost(r, e)

Next == \/ \E t \in Txns : Begin(t) \/ Commit(t) \/ RollBack(t)
        \/ \E r \in Relays : Cycle(r) \/ AbortBatch(r)
        \/ \E e \in Rows : BackoffEnds(e) \/ Purge(e)

Spec == Init /\ [][Next]_vars

\* relay_loop runs until the process ends, back-offs end, and outages do too:
\* a row that is tried again and again is accepted by Kafka at last, and a
\* time comes after which no cycle's transaction fails.
Fairness == /\ \A r \in Relays : WF_vars(Cycle(r))
            /\ \A e \in Rows : WF_vars(BackoffEnds(e))
            /\ \A e \in Rows : SF_vars(\E r \in Relays : SendOk(r, e))
            /\ <>[][\A r \in Relays : ~AbortBatch(r)]_vars

FairSpec == Spec /\ Fairness

-----------------------------------------------------------------------------
(* Properties.                                                             *)

\* No event is lost: once the table has it as published, or no longer has it,
\* Kafka has stored it, whatever sends, cycles and COMMITs failed meanwhile.
\* "Unpublished rows are never touched" by the cleanup (purge_published).
NeverLost ==
    \A e \in Elems(happened) : row[e] = "pending" \/ e \in Elems(log)

\* No event announces a transaction that rolled back (enqueue_event writes
\* "within the same transaction as the business mutation").
NoPhantom == Elems(log) \subseteq Elems(happened)

\* "Safe to run several relay instances at once ... instead of waiting or
\* double-sending" (lock_unpublished_batch): no row is in the hands of two
\* relays, and none is taken up again once its publication is committed.
OneSender ==
    /\ \A r, q \in Relays : r # q => Held(r) \cap Held(q) = {}
    /\ \A e \in Locked : row[e] = "pending"

-----------------------------------------------------------------------------
Promise == INSTANCE AtLeastOnce WITH committed <- Elems(happened),
                                     delivered <- Elems(log)

\* The outbox, its relays and its cleanup deliver every event of a committed
\* transaction at least once, and nothing else, across refused sends, lost
\* acknowledgements and aborted cycles.
DeliversAtLeastOnce == Promise!Spec
=============================================================================
