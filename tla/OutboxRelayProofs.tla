------------------------- MODULE OutboxRelayProofs -------------------------
(***************************************************************************)
(* Proofs about OutboxRelay, for any number of rows, transactions and      *)
(* relays, any batch size, and all the faults; the order of a user's events*)
(* alone (EventsInOrder) is for the instances that Undelayed describes.    *)
(***************************************************************************)
EXTENDS OutboxRelay, FiniteSetTheorems, SequenceTheorems, TLAPS

\* The inductive invariant.  A relay's uncommitted marks are backed by what
\* Kafka has stored, and what a relay holds is pending and its own: so the
\* COMMIT of its marks can only hide rows that have arrived.
MarksAreBacked == \A r \in Relays : sent[r] \subseteq Elems(log)
TableIsHistory == \A e \in Rows : row[e] # "none" <=> e \in Elems(happened)

IInv == /\ TypeOK
        /\ TableIsHistory
        /\ MarksAreBacked
        /\ OneSender
        /\ NeverLost
        /\ NoPhantom

-----------------------------------------------------------------------------
(* The elements of a sequence.                                             *)

\* What log' = Append(log, e) makes of the events consumers have seen.
LEMMA ElemsAppend ==
    ASSUME NEW S, NEW s \in Seq(S), NEW e \in S
    PROVE  Elems(Append(s, e)) = Elems(s) \cup {e}
BY AppendProperties DEF Elems

\* What happened' = happened \o RowsOf[t] makes of the events that happened.
LEMMA ElemsConcat ==
    ASSUME NEW S, NEW s \in Seq(S), NEW t \in Seq(S)
    PROVE  Elems(s \o t) = Elems(s) \cup Elems(t)
<1>1. /\ s \o t \in Seq(S) /\ Len(s \o t) = Len(s) + Len(t)
      /\ \A i \in 1..Len(s) + Len(t) : (s \o t)[i] = IF i <= Len(s) THEN s[i] ELSE t[i - Len(s)]
  BY ConcatProperties
<1>2. Len(s) \in Nat /\ Len(t) \in Nat /\ DOMAIN s = 1..Len(s) /\ DOMAIN t = 1..Len(t)
      /\ DOMAIN (s \o t) = 1..Len(s) + Len(t)
  BY <1>1, LenProperties
<1>3. ASSUME NEW x \in Elems(s) PROVE x \in Elems(s \o t)
  <2>1. PICK i \in 1..Len(s) : s[i] = x
    BY <1>2, <1>3 DEF Elems
  <2>2. i \in 1..Len(s) + Len(t) /\ (s \o t)[i] = x
    BY <2>1, <1>1, <1>2
  <2> QED BY <2>2, <1>2 DEF Elems
<1>4. ASSUME NEW x \in Elems(t) PROVE x \in Elems(s \o t)
  <2>1. PICK i \in 1..Len(t) : t[i] = x
    BY <1>2, <1>4 DEF Elems
  <2>2. Len(s) + i \in 1..Len(s) + Len(t) /\ (s \o t)[Len(s) + i] = x
    BY <2>1, <1>1, <1>2
  <2> QED BY <2>2, <1>2 DEF Elems
<1>5. ASSUME NEW x \in Elems(s \o t) PROVE x \in Elems(s) \cup Elems(t)
  <2>1. PICK i \in 1..Len(s) + Len(t) : (s \o t)[i] = x
    BY <1>2, <1>5 DEF Elems
  <2>2. CASE i <= Len(s)
    BY <2>1, <2>2, <1>1, <1>2 DEF Elems
  <2>3. CASE ~(i <= Len(s))
    <3>1. i - Len(s) \in 1..Len(t) /\ t[i - Len(s)] = x
      BY <2>1, <2>3, <1>1, <1>2
    <3> QED BY <3>1, <1>2 DEF Elems
  <2> QED BY <2>2, <2>3
<1> QED BY <1>3, <1>4, <1>5

\* The row a relay takes is one it held, and it keeps holding the others.
LEMMA ElemsTail ==
    ASSUME NEW S, NEW s \in Seq(S), s # << >>
    PROVE  /\ Head(s) \in Elems(s) /\ Head(s) \in S
           /\ Tail(s) \in Seq(S) /\ Elems(Tail(s)) \subseteq Elems(s)
<1>1. Tail(s) \in Seq(S) /\ Head(s) \in S /\ Len(s) \in Nat \ {0} /\ DOMAIN s = 1..Len(s)
  BY HeadTailProperties, EmptySeq, LenProperties
<1>2. Head(s) = s[1] /\ 1 \in DOMAIN s
  BY <1>1
<1>3. Len(Tail(s)) = Len(s) - 1 /\ \A i \in 1..Len(Tail(s)) : Tail(s)[i] = s[i + 1]
  BY HeadTailProperties
<1>4. DOMAIN Tail(s) = 1..Len(Tail(s))
  BY <1>1, LenProperties
<1>5. \A i \in DOMAIN Tail(s) : i + 1 \in DOMAIN s /\ Tail(s)[i] = s[i + 1]
  BY <1>1, <1>3, <1>4
<1> QED BY <1>1, <1>2, <1>5 DEF Elems

\* A scan is a sequence of the rows that were due.
LEMMA ScanRows ==
    ASSUME NEW s \in Scans
    PROVE  s \in Seq(Rows) /\ Elems(s) = Due
<1>1. IsFiniteSet(Due)
  BY FS_Subset, RelayAssumption DEF Due
<1>2. Cardinality(Due) \in Nat
  BY <1>1, FS_CardinalityType
<1>3. s \in [1..Cardinality(Due) -> Due] /\ Elems(s) = Due /\ Due \subseteq Rows
  BY DEF Scans, Due
<1> QED BY <1>2, <1>3

-----------------------------------------------------------------------------
(* What each kind of step does to the sets the invariant speaks of.        *)

\* Initially nothing has happened.
LEMMA InitIInv == Init => IInv
<1> SUFFICES ASSUME Init PROVE IInv
  OBVIOUS
<1>1. \A S : << >> \in Seq(S) /\ Elems(<< >>) = {}
  BY DEF Elems
<1>2. TypeOK
  BY <1>1 DEF Init, TypeOK
<1>3. \A r \in Relays : Held(r) = {}
  BY <1>1 DEF Init, Held
<1>4. Elems(happened) = {} /\ Elems(log) = {} /\ \A e \in Rows : row[e] = "none"
  BY <1>1 DEF Init
<1>5. OneSender
  BY <1>3 DEF OneSender, Locked
<1>6. MarksAreBacked
  BY DEF MarksAreBacked, Init
<1> QED BY <1>2, <1>4, <1>5, <1>6 DEF IInv, TableIsHistory, NeverLost, NoPhantom

\* A step of relay r that takes e from its batch, whatever becomes of it.
LEMMA TakeHolds ==
    ASSUME IInv, NEW r \in Relays, NEW e \in Rows, Take(r, e),
           \/ sent' = [sent EXCEPT ![r] = @ \cup {e}] /\ failed' = failed
           \/ failed' = [failed EXCEPT ![r] = @ \cup {e}] /\ sent' = sent
    PROVE  /\ batch' \in [Relays -> Seq(Rows)]
           /\ scan' = scan
           /\ sent' \in [Relays -> SUBSET Rows]
           /\ failed' \in [Relays -> SUBSET Rows]
           /\ e \in Held(r)
           /\ \A q \in Relays : Held(q)' \subseteq Held(q)
<1> USE DEF IInv, TypeOK
<1>1. batch[r] \in Seq(Rows) /\ batch[r] # << >> /\ e = Head(batch[r])
      /\ batch' = [batch EXCEPT ![r] = Tail(batch[r])] /\ scan' = scan
  BY DEF Take
<1>2. e \in Elems(batch[r]) /\ Tail(batch[r]) \in Seq(Rows)
      /\ Elems(Tail(batch[r])) \subseteq Elems(batch[r])
  BY <1>1, ElemsTail
<1>3. batch' \in [Relays -> Seq(Rows)] /\ batch'[r] = Tail(batch[r])
      /\ \A q \in Relays \ {r} : batch'[q] = batch[q]
  BY <1>1, <1>2
<1>4. e \in Held(r)
  BY <1>2 DEF Held
<1>5. /\ sent' \in [Relays -> SUBSET Rows] /\ failed' \in [Relays -> SUBSET Rows]
      /\ sent'[r] \cup failed'[r] = sent[r] \cup failed[r] \cup {e}
      /\ \A q \in Relays \ {r} : sent'[q] = sent[q] /\ failed'[q] = failed[q]
  OBVIOUS
<1>6. Held(r)' \subseteq Held(r)
  BY <1>2, <1>3, <1>4, <1>5 DEF Held
<1>7. \A q \in Relays \ {r} : Held(q)' = Held(q)
  BY <1>3, <1>5 DEF Held
<1> QED BY <1>1, <1>3, <1>4, <1>5, <1>6, <1>7

\* When no relay comes to hold anything new and what is held stays pending,
\* there is still one sender per row.
LEMMA HoldLess ==
    ASSUME OneSender, \A q \in Relays : Held(q)' \subseteq Held(q),
           \A q \in Relays : \A e \in Held(q)' : row'[e] = "pending"
    PROVE  OneSender'
BY DEF OneSender, Locked

\* enqueue_event and COMMIT; BEGIN; ROLLBACK.
LEMMA UserStep ==
    ASSUME IInv, NEW t \in Txns, Begin(t) \/ Commit(t) \/ RollBack(t) PROVE IInv'
<1> USE DEF IInv, TypeOK, table, inner, users
<1>1. UNCHANGED inner /\ UNCHANGED log
  BY DEF Begin, Commit, RollBack
<1>3. CASE Begin(t) \/ RollBack(t)
  <2>1. TypeOK'
    <3>1. started' \in Seq(Txns)
      <4>1. Append(started, t) \in Seq(Txns)
        BY AppendProperties
      <4>2. started' = Append(started, t) \/ started' = started
        BY <1>3 DEF Begin, RollBack
      <4> QED BY <4>1, <4>2
    <3>2. ended' \subseteq Txns
      BY <1>3 DEF Begin, RollBack
    <3>3. UNCHANGED <<happened, row, waiting, scan, batch, sent, failed, log>>
      BY <1>3 DEF Begin, RollBack
    <3> QED BY <3>1, <3>2, <3>3
  <2>2. UNCHANGED <<row, happened, batch, sent, failed, log>>
    BY <1>3 DEF Begin, RollBack
  <2> QED
    BY <2>1, <2>2
    DEF OneSender, Locked, Held, NeverLost, NoPhantom, TableIsHistory, MarksAreBacked
<1>4. CASE Commit(t)
  <2>1. RowsOf[t] \in Seq(Rows) /\ Elems(RowsOf[t]) \subseteq Rows
    BY RelayAssumption DEF Rows
  <2>2. happened' \in Seq(Rows) /\ Elems(happened)' = Elems(happened) \cup Elems(RowsOf[t])
    BY <1>4, <2>1, ElemsConcat, ConcatProperties DEF Commit
  <2>3. row' = [e \in Rows |-> IF e \in Elems(RowsOf[t]) THEN "pending" ELSE row[e]]
    BY <1>4 DEF Commit
  <2>4. TypeOK'
    BY <1>1, <1>4, <2>2, <2>3 DEF Commit, Open
  <2>5. OneSender'
    <3>1. \A q \in Relays : Held(q)' = Held(q)
      BY <1>1 DEF Held
    <3>2. \A q \in Relays : \A e \in Held(q) : e \in Rows /\ row[e] = "pending"
      BY DEF OneSender, Locked, Held, Elems
    <3> QED BY <3>1, <3>2, <2>3, HoldLess
  <2>6. TableIsHistory'
    BY <2>2, <2>3 DEF TableIsHistory
  <2>7. NeverLost'
    <3>1. Elems(happened) \subseteq Rows
      BY DEF Elems
    <3>2. Elems(log)' = Elems(log)
      BY <1>1
    <3> QED BY <2>1, <2>2, <2>3, <3>1, <3>2 DEF NeverLost
  <2>8. NoPhantom' /\ MarksAreBacked'
    BY <1>1, <2>2 DEF NoPhantom, MarksAreBacked
  <2> QED BY <2>4, <2>5, <2>6, <2>7, <2>8
<1> QED BY <1>3, <1>4

\* lock_unpublished_batch, but for the locks themselves.
LEMMA ScanStep == ASSUME IInv, NEW r \in Relays, LockBatch(r) \/ SkipRow(r) PROVE IInv'
<1> USE DEF IInv, TypeOK, table, inner, users
<1>1. UNCHANGED <<started, happened, ended, row, waiting, batch, sent, failed, log>>
  BY DEF LockBatch, SkipRow
<1>2. scan' \in [Relays -> Seq(Rows)]
  <2>1. CASE LockBatch(r)
    BY <2>1, ScanRows DEF LockBatch
  <2>2. CASE SkipRow(r)
    <3>1. scan[r] \in Seq(Rows) /\ scan[r] # << >> /\ scan' = [scan EXCEPT ![r] = Tail(scan[r])]
      BY <2>2 DEF SkipRow
    <3>2. Tail(scan[r]) \in Seq(Rows)
      BY <3>1, ElemsTail
    <3> QED BY <3>1, <3>2
  <2> QED BY <2>1, <2>2
<1> QED
  BY <1>1, <1>2 DEF OneSender, Locked, Held, NeverLost, NoPhantom, TableIsHistory, MarksAreBacked

\* SKIP LOCKED is what keeps the senders apart.
LEMMA LockStep == ASSUME IInv, NEW r \in Relays, LockRow(r) PROVE IInv'
<1> USE DEF IInv, TypeOK, table, inner, users
<1>1. PICK e : e = Head(scan[r])
  OBVIOUS
<1>2. /\ scan[r] # << >> /\ e \in Eligible
      /\ batch' = [batch EXCEPT ![r] = Append(batch[r], e)]
      /\ scan' = [scan EXCEPT ![r] = IF Len(batch'[r]) = BatchSize THEN << >> ELSE Tail(scan[r])]
      /\ UNCHANGED <<started, happened, ended, row, waiting, sent, failed, log>>
  BY <1>1 DEF LockRow
<1>3. e \in Rows /\ row[e] = "pending" /\ e \notin Locked
  BY <1>2 DEF Eligible, Due
<1>4. Append(batch[r], e) \in Seq(Rows) /\ Elems(Append(batch[r], e)) = Elems(batch[r]) \cup {e}
  BY <1>3, ElemsAppend, AppendProperties
<1>5. batch' \in [Relays -> Seq(Rows)] /\ batch'[r] = Append(batch[r], e)
      /\ \A q \in Relays \ {r} : batch'[q] = batch[q]
  BY <1>2, <1>4
<1>6. scan' \in [Relays -> Seq(Rows)]
  <2>1. Tail(scan[r]) \in Seq(Rows) /\ << >> \in Seq(Rows)
    BY <1>2, ElemsTail
  <2> QED BY <1>2, <2>1
<1>7. Held(r)' = Held(r) \cup {e} /\ \A q \in Relays \ {r} : Held(q)' = Held(q)
  BY <1>2, <1>4, <1>5 DEF Held
<1>8. OneSender'
  <2>1. \A q \in Relays : e \notin Held(q)
    BY <1>3 DEF Locked
  <2>2. \A p, q \in Relays : p # q => Held(p) \cap Held(q) = {}
    BY DEF OneSender
  <2>3. \A p, q \in Relays : p # q => Held(p)' \cap Held(q)' = {}
    <3> SUFFICES ASSUME NEW p \in Relays, NEW q \in Relays, p # q
                 PROVE  Held(p)' \cap Held(q)' = {}
      OBVIOUS
    <3>1. CASE p = r
      BY <3>1, <1>7, <2>1, <2>2
    <3>2. CASE q = r
      BY <3>2, <1>7, <2>1, <2>2
    <3>3. CASE p # r /\ q # r
      BY <3>3, <1>7, <2>2
    <3> QED BY <3>1, <3>2, <3>3
  <2>4. \A q \in Relays : \A f \in Held(q) : row[f] = "pending"
    BY DEF OneSender, Locked
  <2>5. \A q \in Relays : Held(q)' \subseteq Held(q) \cup {e}
    BY <1>7
  <2>6. \A q \in Relays : \A f \in Held(q)' : row'[f] = "pending"
    BY <1>2, <1>3, <2>4, <2>5
  <2> QED BY <2>3, <2>6 DEF OneSender, Locked
<1>9. TypeOK'
  BY <1>2, <1>5, <1>6
<1> QED BY <1>2, <1>8, <1>9 DEF TableIsHistory, NeverLost, NoPhantom, MarksAreBacked

\* send_and_wait and the mark that follows it.
LEMMA SendStep ==
    ASSUME IInv, NEW r \in Relays, NEW e \in Rows,
           SendOk(r, e) \/ SendRefused(r, e) \/ SendAckLost(r, e)
    PROVE  IInv'
<1> USE DEF IInv, TypeOK, table, inner, users
<1>1. /\ Take(r, e)
      /\ \/ sent' = [sent EXCEPT ![r] = @ \cup {e}] /\ failed' = failed /\ Arrive(e)
         \/ failed' = [failed EXCEPT ![r] = @ \cup {e}] /\ sent' = sent
      /\ Arrive(e) \/ log' = log
      /\ UNCHANGED <<started, happened, ended, row, waiting>>
  BY DEF SendOk, SendRefused, SendAckLost, MarkFailed
<1>2. /\ batch' \in [Relays -> Seq(Rows)] /\ scan' = scan
      /\ sent' \in [Relays -> SUBSET Rows] /\ failed' \in [Relays -> SUBSET Rows]
      /\ e \in Held(r)
      /\ \A q \in Relays : Held(q)' \subseteq Held(q)
  BY <1>1, TakeHolds
<1>3. log' \in Seq(Rows) /\ Elems(log) \subseteq Elems(log)'
      /\ Elems(log)' \subseteq Elems(log) \cup {e} /\ (Arrive(e) => e \in Elems(log)')
  <2>1. CASE Arrive(e) /\ e \notin Elems(log)
    <3>1. log' = Append(log, e)
      BY <2>1 DEF Arrive
    <3>2. Append(log, e) \in Seq(Rows) /\ Elems(Append(log, e)) = Elems(log) \cup {e}
      BY ElemsAppend, AppendProperties
    <3>3. Elems(log)' = Elems(log) \cup {e}
      BY <3>1, <3>2
    <3> QED BY <3>1, <3>2, <3>3
  <2>2. CASE Arrive(e) /\ e \in Elems(log)
    BY <2>2 DEF Arrive
  <2>3. CASE log' = log /\ ~Arrive(e)
    BY <2>3
  <2> QED BY <1>1, <2>1, <2>2, <2>3
<1>4. row[e] = "pending"
  BY <1>2 DEF OneSender, Locked
<1>5. OneSender'
  <2>1. \A q \in Relays : \A f \in Held(q)' : row'[f] = "pending"
    BY <1>1, <1>2 DEF OneSender, Locked
  <2> QED BY <2>1, <1>2, HoldLess
<1>6. MarksAreBacked'
  <2>1. \A q \in Relays : sent'[q] \subseteq sent[q] \cup {e} /\ (sent'[q] # sent[q] => Arrive(e))
    BY <1>1
  <2> QED BY <2>1, <1>3 DEF MarksAreBacked
<1>7. NoPhantom' /\ NeverLost' /\ TableIsHistory'
  BY <1>1, <1>3, <1>4 DEF NoPhantom, NeverLost, TableIsHistory
<1>8. TypeOK'
  BY <1>1, <1>2, <1>3
<1> QED BY <1>5, <1>6, <1>7, <1>8

\* The end of a cycle.
LEMMA EndStep ==
    ASSUME IInv, NEW r \in Relays, CommitBatch(r) \/ AbortBatch(r) PROVE IInv'
<1> USE DEF IInv, TypeOK, table, inner, users
<1>1. \A S : << >> \in Seq(S) /\ Elems(<< >>) = {}
  BY DEF Elems
<1>2. /\ batch' \in [Relays -> Seq(Rows)] /\ batch'[r] = << >>
      /\ \A q \in Relays \ {r} : batch'[q] = batch[q]
  <2>1. CASE CommitBatch(r)
    BY <2>1 DEF CommitBatch
  <2>2. CASE AbortBatch(r)
    <3>1. batch' = [batch EXCEPT ![r] = << >>] /\ << >> \in Seq(Rows)
      BY <2>2 DEF AbortBatch
    <3> QED BY <3>1
  <2> QED BY <2>1, <2>2
<1>3. /\ sent' = [sent EXCEPT ![r] = {}] /\ failed' = [failed EXCEPT ![r] = {}]
      /\ UNCHANGED <<started, happened, ended, log>>
  BY DEF CommitBatch, AbortBatch
<1>4. Held(r)' = {} /\ \A q \in Relays \ {r} : Held(q)' = Held(q)
  BY <1>1, <1>2, <1>3 DEF Held
<1>5. /\ row' \in [Rows -> {"none", "pending", "published", "purged"}]
      /\ waiting' \subseteq Rows
      /\ \A e \in Rows : row'[e] # row[e] => e \in sent[r] /\ row'[e] = "published"
  BY DEF CommitBatch, AbortBatch
<1>6. sent[r] \subseteq Held(r)
  BY DEF Held
<1>7. OneSender'
  <2>1. \A q \in Relays : \A e \in Held(q)' : row'[e] = "pending"
    <3> SUFFICES ASSUME NEW q \in Relays, NEW e \in Held(q)' PROVE row'[e] = "pending"
      OBVIOUS
    <3>1. q # r /\ e \in Held(q) /\ row[e] = "pending"
      BY <1>4 DEF OneSender, Locked
    <3>2. e \notin sent[r]
      BY <3>1, <1>6 DEF OneSender
    <3>3. e \in Rows
      BY <3>1 DEF Held, Elems
    <3> QED BY <3>1, <3>2, <3>3, <1>5
  <2> QED BY <2>1, <1>4, HoldLess
<1>8. TableIsHistory'
  <2>1. \A e \in sent[r] : row[e] = "pending"
    BY <1>6 DEF OneSender, Locked
  <2> QED BY <2>1, <1>3, <1>5 DEF TableIsHistory
<1>9. NeverLost'
  <2>1. Elems(happened) \subseteq Rows
    BY DEF Elems
  <2> QED BY <2>1, <1>3, <1>5 DEF NeverLost, MarksAreBacked
<1>10. MarksAreBacked' /\ NoPhantom'
  BY <1>3 DEF MarksAreBacked, NoPhantom
<1>11. TypeOK'
  <2>1. scan' \in [Relays -> Seq(Rows)]
    <3>1. << >> \in Seq(Rows) /\ scan' \in {scan, [scan EXCEPT ![r] = << >>]}
      BY <1>1 DEF CommitBatch, AbortBatch
    <3> QED BY <3>1
  <2> QED BY <1>2, <1>3, <1>5, <2>1
<1> QED BY <1>7, <1>8, <1>9, <1>10, <1>11

\* Time: back-offs end and old published rows are purged.
LEMMA TimeStep ==
    ASSUME IInv, NEW e \in Rows, BackoffEnds(e) \/ Purge(e) PROVE IInv'
<1> USE DEF IInv, TypeOK, table, inner, users
<1>1. UNCHANGED <<started, happened, ended, scan, batch, sent, failed, log>>
  BY DEF BackoffEnds, Purge
<1>2. /\ row' \in [Rows -> {"none", "pending", "published", "purged"}]
      /\ waiting' \subseteq Rows
      /\ \A f \in Rows : row'[f] # row[f] => row[f] = "published" /\ row'[f] = "purged"
  BY DEF BackoffEnds, Purge
<1>3. OneSender'
  <2>1. \A q \in Relays : Held(q)' = Held(q)
    BY <1>1 DEF Held
  <2>2. \A q \in Relays : \A f \in Held(q) : f \in Rows /\ row[f] = "pending"
    BY DEF OneSender, Locked, Held, Elems
  <2> QED BY <2>1, <2>2, <1>2, HoldLess
<1>4. Elems(happened) \subseteq Rows
  BY DEF Elems
<1>5. TableIsHistory' /\ NeverLost'
  BY <1>1, <1>2, <1>4 DEF TableIsHistory, NeverLost
<1>6. MarksAreBacked' /\ NoPhantom' /\ TypeOK'
  BY <1>1, <1>2 DEF MarksAreBacked, NoPhantom
<1> QED BY <1>3, <1>5, <1>6

\* The invariant is inductive.
LEMMA Invariance == Spec => []IInv
<1>1. ASSUME IInv, [Next]_vars PROVE IInv'
  <2>1. CASE UNCHANGED vars
    BY <1>1, <2>1 DEF vars, IInv, TypeOK, TableIsHistory, MarksAreBacked, OneSender,
                      Locked, Held, NeverLost, NoPhantom
  <2>2. ASSUME NEW r \in Relays, Cycle(r) PROVE IInv'
    BY <1>1, <2>2, ScanStep, LockStep, SendStep, EndStep DEF Cycle
  <2>3. CASE Next
    BY <1>1, <2>2, <2>3, UserStep, EndStep, TimeStep DEF Next
  <2> QED BY <1>1, <2>1, <2>3
<1> QED BY <1>1, InitIInv, PTL DEF Spec

-----------------------------------------------------------------------------
(* The outbox implements AtLeastOnce: a COMMIT is a Happen, the first      *)
(* arrival of a row is its Deliver, every other step stutters.             *)

\* What a step of the outbox is to a consumer.
LEMMA UserStepKeepsPromise ==
    ASSUME IInv, NEW t \in Txns, Begin(t) \/ Commit(t) \/ RollBack(t)
    PROVE  [Promise!Next]_Promise!vars
<1>1. log' = log
  BY DEF Begin, Commit, RollBack
<1>2. CASE Begin(t) \/ RollBack(t)
  <2>1. happened' = happened
    BY <1>2 DEF Begin, RollBack
  <2> QED BY <1>1, <2>1 DEF Promise!vars
<1>3. CASE Commit(t)
  <2>1. RowsOf[t] \in Seq(Rows) /\ Elems(RowsOf[t]) \subseteq Rows
    BY RelayAssumption DEF Rows
  <2>2. Elems(happened)' = Elems(happened) \cup Elems(RowsOf[t])
    BY <1>3, <2>1, ElemsConcat DEF Commit, IInv, TypeOK
  <2>3. Elems(log)' = Elems(log)
    BY <1>1
  <2> QED BY <2>1, <2>2, <2>3 DEF Promise!Next, Promise!Happen
<1> QED BY <1>2, <1>3

LEMMA SendStepKeepsPromise ==
    ASSUME IInv, NEW r \in Relays, NEW e \in Rows,
           SendOk(r, e) \/ SendRefused(r, e) \/ SendAckLost(r, e)
    PROVE  [Promise!Next]_Promise!vars
<1>1. Take(r, e) /\ happened' = happened
  BY DEF SendOk, SendRefused, SendAckLost, users
<1>2. CASE log' = log
  BY <1>1, <1>2 DEF Promise!vars
<1>3. CASE log' = Append(log, e)
  <2>1. Elems(log)' = Elems(log) \cup {e}
    BY <1>3, ElemsAppend DEF IInv, TypeOK
  <2>2. e \in Held(r)
    BY <1>1, ElemsTail DEF Take, Held, IInv, TypeOK
  <2>3. e \in Elems(happened)
    BY <2>2 DEF IInv, OneSender, Locked, TableIsHistory
  <2>4. Elems(happened)' = Elems(happened)
    BY <1>1
  <2>5. Promise!Deliver(e)
    BY <2>1, <2>3, <2>4 DEF Promise!Deliver
  <2> QED BY <2>5 DEF Promise!Next
<1> QED BY <1>2, <1>3 DEF SendOk, SendRefused, SendAckLost, Arrive

LEMMA OtherStepsKeepPromise ==
    ASSUME \/ \E r \in Relays : \/ LockBatch(r) \/ LockRow(r) \/ SkipRow(r)
                               \/ CommitBatch(r) \/ AbortBatch(r)
           \/ \E e \in Rows : BackoffEnds(e) \/ Purge(e)
           \/ UNCHANGED vars
    PROVE  [Promise!Next]_Promise!vars
<1>1. happened' = happened /\ log' = log
  BY DEF LockBatch, LockRow, SkipRow, CommitBatch, AbortBatch, BackoffEnds, Purge, vars, users
<1> QED BY <1>1 DEF Promise!vars

-----------------------------------------------------------------------------
(* The order of a user's events, where it holds: one relay, transactions   *)
(* that follow one another, and no send that is refused.                   *)

Undelayed == Faults \subseteq {"crash", "ack_lost"} /\ \A r, q \in Relays : r = q

Sorted(s) == \A i, j \in DOMAIN s : i < j => CreatedAt(s[i]) <= CreatedAt(s[j])

\* A row that a consumer has still to see for the first time.
Ahead(e) == row[e] = "pending" /\ e \notin Elems(log)

\* Transactions begin one after the other, and every row is one of theirs.
Sequential ==
    /\ \A i, j \in DOMAIN started : started[i] = started[j] => i = j
    /\ \A i \in DOMAIN started : i # Len(started) => started[i] \in ended
    /\ \A e \in Rows : row[e] # "none" => TxnOf(e) \in Elems(started)

\* What r's SELECT has still to lock is of the table, and was created between
\* what it has locked and whatever else is ahead.
Scanned(r) ==
    /\ Elems(scan[r]) \subseteq {e \in Rows : row[e] # "none"}
    /\ Sorted(scan[r])
    /\ \A f \in Elems(batch[r]), g \in Elems(scan[r]) : CreatedAt(f) <= CreatedAt(g)
    /\ \A f \in Elems(scan[r]), e \in Rows :
          Ahead(e) /\ e \notin Elems(batch[r]) /\ e \notin Elems(scan[r]) =>
              CreatedAt(f) <= CreatedAt(e)

\* What is ahead was not created before what has arrived, nor before what the
\* relay has in hand; only what has arrived is put off.
Queued ==
    /\ Sorted(log)
    /\ \A f \in Elems(log), e \in Rows : Ahead(e) => CreatedAt(f) <= CreatedAt(e)
    /\ \A r \in Relays : Sorted(batch[r])
    /\ \A r \in Relays : \A f \in Elems(batch[r]), e \in Rows :
          Ahead(e) /\ e \notin Elems(batch[r]) => CreatedAt(f) <= CreatedAt(e)
    /\ \A r \in Relays : Scanned(r)
    /\ waiting \subseteq Elems(log)
    /\ \A r \in Relays : failed[r] \subseteq Elems(log)

OrderInv == Sequential /\ Queued

Known == {e \in Rows : row[e] # "none"}

LEMMA KnownRows ==
    ASSUME IInv
    PROVE  /\ Elems(log) \subseteq Known
           /\ \A r \in Relays : Elems(batch[r]) \subseteq Known
           /\ \A e \in Rows : Ahead(e) => e \in Known
<1>1. /\ log \in Seq(Rows) /\ \A r \in Relays : batch[r] \in Seq(Rows)
  BY DEF IInv, TypeOK
<1>2. Elems(log) \subseteq Rows /\ \A r \in Relays : Elems(batch[r]) \subseteq Rows
  BY <1>1 DEF Elems
<1>3. \A r \in Relays : Elems(batch[r]) \subseteq Locked
  BY DEF Locked, Held
<1> QED
  BY <1>2, <1>3 DEF IInv, NoPhantom, TableIsHistory, OneSender, Known, Ahead

\* created_at of a row is where its transaction stands among those that began.
LEMMA Dated ==
    ASSUME IInv, Sequential, NEW e \in Known
    PROVE  /\ CreatedAt(e) \in 1..Len(started) /\ started[CreatedAt(e)] = TxnOf(e)
           /\ \A i \in DOMAIN started : started[i] = TxnOf(e) => i = CreatedAt(e)
<1>1. DOMAIN started = 1..Len(started)
  BY LenProperties DEF IInv, TypeOK
<1>2. PICK i \in DOMAIN started : started[i] = TxnOf(e)
  BY DEF Sequential, Known, Elems
<1>3. CreatedAt(e) \in DOMAIN started /\ started[CreatedAt(e)] = TxnOf(e)
  BY <1>2 DEF CreatedAt
<1> QED BY <1>1, <1>3 DEF Sequential

LEMMA DatesStay ==
    ASSUME IInv, Sequential, NEW t \in Txns, t \notin Elems(started),
           started' = Append(started, t), NEW e \in Known
    PROVE  CreatedAt(e)' = CreatedAt(e)
<1>1. /\ DOMAIN started = 1..Len(started) /\ Len(started) \in Nat
      /\ Len(started') = Len(started) + 1 /\ started' \in Seq(Txns)
      /\ \A i \in 1..Len(started) : started'[i] = started[i]
      /\ started'[Len(started) + 1] = t
  BY AppendProperties, LenProperties DEF IInv, TypeOK
<1>2. DOMAIN started' = 1..Len(started) + 1
  BY <1>1, LenProperties
<1>3. TxnOf(e) \in Elems(started)
  BY DEF Sequential, Known
<1>4. PICK n : n = CreatedAt(e)
  OBVIOUS
<1>5. /\ n \in 1..Len(started) /\ started[n] = TxnOf(e)
      /\ \A i \in DOMAIN started : started[i] = TxnOf(e) => i = n
  BY <1>4, Dated
<1>6. n \in DOMAIN started' /\ started'[n] = TxnOf(e)
  BY <1>1, <1>2, <1>5
<1>7. ASSUME NEW i \in DOMAIN started', started'[i] = TxnOf(e) PROVE i = n
  <2>1. i # Len(started) + 1
    BY <1>1, <1>3, <1>7
  <2>2. i \in 1..Len(started)
    BY <1>1, <1>2, <2>1
  <2> QED BY <1>1, <1>5, <1>7, <2>2
<1>8. (CHOOSE i \in DOMAIN started' : started'[i] = TxnOf(e)) = n
  BY <1>6, <1>7
<1> QED BY <1>4, <1>8 DEF CreatedAt

LEMMA OrderInit == Init => OrderInv
BY DEF Init, OrderInv, Sequential, Queued, Scanned, Sorted, Ahead, Elems

LEMMA NothingToScan ==
    ASSUME NEW r \in Relays, scan'[r] = << >>
    PROVE  Scanned(r)'
<1>1. Elems(<< >>) = {} /\ DOMAIN << >> = {}
  BY DEF Elems
<1> QED BY <1>1 DEF Scanned, Sorted

\* A SELECT in progress, when something else happens: what comes to be ahead
\* was created after all there is.
LEMMA ScannedStays ==
    ASSUME NEW r \in Relays, Scanned(r), scan'[r] = scan[r], batch'[r] = batch[r],
           Elems(batch[r]) \subseteq Known,
           \A e \in Rows : row[e] # "none" => row'[e] # "none",
           \A e \in Known : CreatedAt(e)' = CreatedAt(e),
           \A e \in Rows : Ahead(e)' => \/ Ahead(e) /\ e \in Known
                                      \/ \A f \in Known : CreatedAt(f)' <= CreatedAt(e)'
    PROVE  Scanned(r)'
<1>1. /\ Elems(scan[r]) \subseteq Known
      /\ \A i \in DOMAIN scan[r] : scan[r][i] \in Known
  BY DEF Scanned, Known, Elems
<1>2. Elems(scan'[r]) \subseteq {e \in Rows : row'[e] # "none"}
  BY DEF Scanned
<1>3. Sorted(scan[r])'
  <2>1. PICK s : s = scan[r]
    OBVIOUS
  <2>2. \A i, j \in DOMAIN s : i < j => CreatedAt(s[i]) <= CreatedAt(s[j])
    BY <2>1 DEF Scanned, Sorted
  <2>3. \A i \in DOMAIN s : CreatedAt(s[i])' = CreatedAt(s[i])
    BY <1>1, <2>1
  <2> QED BY <2>1, <2>2, <2>3 DEF Sorted
<1>4. \A f \in Elems(batch'[r]), g \in Elems(scan'[r]) : CreatedAt(f)' <= CreatedAt(g)'
  BY <1>1 DEF Scanned
<1>5. ASSUME NEW f \in Elems(scan'[r]), NEW e \in Rows, Ahead(e)',
             e \notin Elems(batch'[r]), e \notin Elems(scan'[r])
      PROVE  CreatedAt(f)' <= CreatedAt(e)'
  <2>1. CASE Ahead(e) /\ e \in Known
    BY <1>1, <1>5, <2>1 DEF Scanned
  <2>2. CASE \A g \in Known : CreatedAt(g)' <= CreatedAt(e)'
    BY <1>1, <1>5, <2>2
  <2> QED BY <1>5, <2>1, <2>2
<1> QED BY <1>2, <1>3, <1>4, <1>5 DEF Scanned

\* A new transaction is created after every row there is.
LEMMA OrderUserStep ==
    ASSUME Undelayed, IInv, OrderInv, NEW t \in Txns, Begin(t) \/ Commit(t) \/ RollBack(t)
    PROVE  OrderInv'
<1> USE DEF table, inner, users
<1>1. /\ DOMAIN started = 1..Len(started) /\ Len(started) \in Nat
      /\ Sequential /\ Queued
  BY LenProperties DEF IInv, TypeOK, OrderInv
<1>2. UNCHANGED <<batch, sent, failed, log, waiting>>
  BY DEF Begin, Commit, RollBack
<1>6. /\ scan' = scan
      /\ \A r \in Relays : Scanned(r) /\ Elems(batch[r]) \subseteq Known
      /\ \A e \in Rows : Ahead(e) => e \in Known
  BY <1>1, KnownRows DEF Begin, Commit, RollBack, Queued
<1>3. CASE Begin(t)
  <2>1. /\ started' = Append(started, t) /\ t \notin Elems(started) /\ UNCHANGED <<ended, row>>
        /\ Elems(started) \subseteq ended
    BY <1>3 DEF Begin, Undelayed, Open
  <2>2. /\ Len(started') = Len(started) + 1 /\ started' \in Seq(Txns)
        /\ \A i \in 1..Len(started) : started'[i] = started[i]
        /\ started'[Len(started) + 1] = t
    BY <2>1, AppendProperties DEF IInv, TypeOK
  <2>3. DOMAIN started' = 1..Len(started) + 1
    BY <2>2, LenProperties
  <2>4. \A i \in 1..Len(started) : started[i] # t /\ started[i] \in ended
    BY <1>1, <2>1 DEF Elems
  <2>5. Elems(started) \subseteq Elems(started)'
    BY <1>1, <2>2, <2>3 DEF Elems
  <2>6. Sequential'
    <3>1. \A i, j \in DOMAIN started' : started'[i] = started'[j] => i = j
      BY <1>1, <2>2, <2>3, <2>4 DEF Sequential
    <3>2. \A i \in DOMAIN started' : i # Len(started') => started'[i] \in ended'
      BY <2>1, <2>2, <2>3, <2>4
    <3>3. \A e \in Rows : row'[e] # "none" => TxnOf(e) \in Elems(started)'
      BY <1>1, <2>1, <2>5 DEF Sequential
    <3> QED BY <3>1, <3>2, <3>3 DEF Sequential
  <2>7. \A e \in Known : CreatedAt(e)' = CreatedAt(e)
    BY <1>1, <2>1, DatesStay
  <2>8. \A e : Ahead(e)' <=> Ahead(e)
    BY <1>2, <2>1 DEF Ahead
  <2>9. /\ \A i \in DOMAIN log : log[i] \in Known
        /\ \A r \in Relays : \A i \in DOMAIN batch[r] : batch[r][i] \in Known
        /\ Elems(log) \subseteq Known /\ \A r \in Relays : Elems(batch[r]) \subseteq Known
        /\ \A e \in Rows : Ahead(e) => e \in Known
    BY KnownRows DEF Elems
  <2>10. \A r \in Relays : Scanned(r)'
    BY <1>2, <1>6, <2>1, <2>7, <2>8, ScannedStays
  <2>11. Queued'
    BY <1>1, <1>2, <2>7, <2>8, <2>9, <2>10 DEF Queued, Sorted
  <2> QED BY <2>6, <2>11 DEF OrderInv
<1>4. CASE Commit(t)
  <2>1. /\ t \in Elems(started) /\ t \notin ended /\ ended' = ended \cup {t} /\ started' = started
        /\ row' = [e \in Rows |-> IF e \in Elems(RowsOf[t]) THEN "pending" ELSE row[e]]
    BY <1>4 DEF Commit, Open
  <2>2. started[Len(started)] = t
    BY <1>1, <2>1 DEF Sequential, Elems
  <2>3. \A e \in Elems(RowsOf[t]) : TxnOf(e) = t
    <3> SUFFICES ASSUME NEW e \in Elems(RowsOf[t]) PROVE TxnOf(e) = t
      OBVIOUS
    <3>1. TxnOf(e) \in Txns /\ e \in Elems(RowsOf[TxnOf(e)])
      BY DEF TxnOf
    <3> QED BY <3>1, RelayAssumption
  <2>4. \A e : CreatedAt(e)' = CreatedAt(e)
    BY <2>1 DEF CreatedAt
  <2>5. ASSUME NEW e \in Elems(RowsOf[t]), e \in Rows PROVE CreatedAt(e) = Len(started)
    <3>1. CreatedAt(e) \in DOMAIN started /\ started[CreatedAt(e)] = t
      BY <1>1, <2>1, <2>2, <2>3 DEF CreatedAt, Elems
    <3> QED BY <1>1, <2>1, <2>2, <3>1 DEF Sequential, Elems
  <2>6. \A f \in Known : CreatedAt(f) <= Len(started)
    BY <1>1, Dated
  <2>7. \A e \in Rows : Ahead(e)' => Ahead(e) \/ e \in Elems(RowsOf[t])
    BY <1>2, <2>1 DEF Ahead
  <2>8. \A f \in Known, e \in Rows : Ahead(e)' /\ ~Ahead(e) => CreatedAt(f) <= CreatedAt(e)
    BY <2>5, <2>6, <2>7
  <2>9. Sequential'
    BY <1>1, <2>1, <2>3 DEF Sequential
  <2>10. Queued'
    <3>1. Elems(log) \subseteq Known /\ \A r \in Relays : Elems(batch[r]) \subseteq Known
      BY KnownRows
    <3>2. \A f \in Elems(log), e \in Rows : Ahead(e)' => CreatedAt(f) <= CreatedAt(e)
      BY <1>1, <2>8, <3>1 DEF Queued
    <3>3. \A r \in Relays : \A f \in Elems(batch[r]), e \in Rows :
             Ahead(e)' /\ e \notin Elems(batch[r]) => CreatedAt(f) <= CreatedAt(e)
      BY <1>1, <2>8, <3>1 DEF Queued
    <3>4. \A r \in Relays : Scanned(r)'
      <4>1. \A e \in Rows : row[e] # "none" => row'[e] # "none"
        BY <2>1
      <4>2. \A e \in Rows : Ahead(e)' => \/ Ahead(e) /\ e \in Known
                                       \/ \A f \in Known : CreatedAt(f)' <= CreatedAt(e)'
        BY <1>6, <2>4, <2>8
      <4> QED BY <1>2, <1>6, <2>4, <4>1, <4>2, ScannedStays
    <3> QED BY <1>1, <1>2, <2>4, <3>2, <3>3, <3>4 DEF Queued, Sorted
  <2> QED BY <2>9, <2>10 DEF OrderInv
<1>5. CASE RollBack(t)
  <2>1. UNCHANGED <<started, row>> /\ ended \subseteq ended'
    BY <1>5 DEF RollBack
  <2>2. (\A e : CreatedAt(e)' = CreatedAt(e)) /\ (\A e : Ahead(e)' <=> Ahead(e))
    BY <1>2, <2>1 DEF CreatedAt, Ahead
  <2>3. Sequential'
    BY <1>1, <2>1 DEF Sequential
  <2>4. \A r \in Relays : Scanned(r)'
    BY <1>2, <1>6, <2>1, <2>2, ScannedStays
  <2>5. Queued'
    BY <1>1, <1>2, <2>2, <2>4 DEF Queued, Sorted
  <2> QED BY <2>3, <2>5 DEF OrderInv
<1> QED BY <1>3, <1>4, <1>5

\* The only relay looks at the rows that have not arrived, the oldest first.
LEMMA OrderScanStep ==
    ASSUME Undelayed, IInv, OrderInv, NEW r \in Relays, LockBatch(r)
    PROVE  OrderInv'
<1>1. PICK s \in Scans : scan' = [scan EXCEPT ![r] = s]
  BY DEF LockBatch
<1>2. /\ Held(r) = {} /\ UNCHANGED <<started, ended, row, waiting, batch, failed, log>>
      /\ Queued /\ Sequential
  BY DEF LockBatch, users, table, OrderInv
<1>3. scan'[r] = s /\ \A q \in Relays : q = r
  BY <1>1 DEF Undelayed, IInv, TypeOK
<1>4. (\A e : CreatedAt(e)' = CreatedAt(e)) /\ (\A e : Ahead(e)' <=> Ahead(e))
  BY <1>2 DEF CreatedAt, Ahead
<1>5. Elems(s) = Due /\ Sorted(s)
  BY ScanRows DEF Scans, Sorted
<1>6. \A e \in Rows : Ahead(e) => e \in Due
  BY <1>2 DEF Due, Ahead, Queued
<1>7. Elems(batch[r]) = {}
  BY <1>2 DEF Held
<1>8. Scanned(r)'
  <2>1. Elems(scan'[r]) \subseteq {e \in Rows : row'[e] # "none"}
    BY <1>2, <1>3, <1>5 DEF Due
  <2>2. Sorted(scan[r])'
    BY <1>3, <1>4, <1>5 DEF Sorted
  <2> QED BY <1>2, <1>3, <1>4, <1>5, <1>6, <1>7, <2>1, <2>2 DEF Scanned
<1>9. Queued'
  BY <1>2, <1>3, <1>4, <1>8 DEF Queued, Sorted
<1>10. Sequential'
  BY <1>2 DEF Sequential
<1> QED BY <1>9, <1>10 DEF OrderInv

\* The first of a sequence and the others.
LEMMA HeadAndTail ==
    ASSUME NEW S, NEW b \in Seq(S), b # << >>
    PROVE  /\ Head(b) \in Elems(b)
           /\ Elems(Tail(b)) \subseteq Elems(b)
           /\ Elems(b) \subseteq Elems(Tail(b)) \cup {Head(b)}
           /\ Sorted(b) => Sorted(Tail(b))
           /\ Sorted(b) => \A f \in Elems(b) : f = Head(b) \/ CreatedAt(Head(b)) <= CreatedAt(f)
<1>5. /\ Len(b) \in Nat \ {0} /\ DOMAIN b = 1..Len(b) /\ b[1] = Head(b)
      /\ Tail(b) \in Seq(S) /\ Len(Tail(b)) = Len(b) - 1
      /\ \A i \in 1..Len(Tail(b)) : Tail(b)[i] = b[i + 1]
  BY HeadTailProperties, EmptySeq, LenProperties
<1>6. DOMAIN Tail(b) = 1..Len(Tail(b))
  BY <1>5, LenProperties
<1>7. /\ \A i \in DOMAIN Tail(b) : i + 1 \in DOMAIN b /\ Tail(b)[i] = b[i + 1]
      /\ \A i \in DOMAIN b : i = 1 \/ (i - 1 \in DOMAIN Tail(b) /\ Tail(b)[i - 1] = b[i])
  BY <1>5, <1>6
<1>8. 1 \in DOMAIN b /\ \A i \in DOMAIN b : i = 1 \/ 1 < i
  BY <1>5
<1>9. ASSUME NEW x \in Elems(Tail(b)) PROVE x \in Elems(b)
  <2>1. PICK i \in DOMAIN Tail(b) : x = Tail(b)[i]
    BY <1>9 DEF Elems
  <2> QED BY <1>7, <2>1 DEF Elems
<1>10. ASSUME NEW x \in Elems(b), x # Head(b) PROVE x \in Elems(Tail(b))
  <2>1. PICK i \in DOMAIN b : x = b[i]
    BY <1>10 DEF Elems
  <2>2. i # 1
    BY <1>5, <1>10, <2>1
  <2> QED BY <1>7, <2>1, <2>2 DEF Elems
<1>11. ASSUME Sorted(b) PROVE Sorted(Tail(b))
  <2> SUFFICES ASSUME NEW i \in DOMAIN Tail(b), NEW j \in DOMAIN Tail(b), i < j
               PROVE  CreatedAt(b[i + 1]) <= CreatedAt(b[j + 1])
    BY <1>7 DEF Sorted
  <2>1. i + 1 \in DOMAIN b /\ j + 1 \in DOMAIN b /\ i + 1 < j + 1
    BY <1>5, <1>6, <1>7
  <2> QED BY <1>11, <2>1 DEF Sorted
<1>12. ASSUME Sorted(b), NEW f \in Elems(b), f # Head(b)
       PROVE  CreatedAt(Head(b)) <= CreatedAt(f)
  <2>1. PICK i \in DOMAIN b : f = b[i]
    BY <1>12 DEF Elems
  <2> QED BY <1>5, <1>8, <1>12, <2>1 DEF Sorted
<1> QED BY <1>5, <1>8, <1>9, <1>10, <1>11, <1>12 DEF Elems

\* A row that the only relay skips has arrived already, or it has locked it.
LEMMA OrderSkipStep ==
    ASSUME Undelayed, IInv, OrderInv, NEW r \in Relays, SkipRow(r)
    PROVE  OrderInv'
<1>1. PICK s \in Seq(Rows) : s = scan[r]
  BY DEF IInv, TypeOK
<1>2. PICK e : e = Head(s)
  OBVIOUS
<1>3. /\ s # << >> /\ e \notin Eligible /\ scan' = [scan EXCEPT ![r] = Tail(s)]
      /\ UNCHANGED <<started, ended, row, waiting, batch, sent, failed, log>>
      /\ Queued /\ Sequential /\ Scanned(r)
  BY <1>1, <1>2 DEF SkipRow, users, table, OrderInv, Queued
<1>4. scan'[r] = Tail(s) /\ \A q \in Relays : q = r
  BY <1>3 DEF Undelayed, IInv, TypeOK
<1>5. (\A f : CreatedAt(f)' = CreatedAt(f)) /\ (\A f : Ahead(f)' <=> Ahead(f))
  BY <1>3 DEF CreatedAt, Ahead
<1>6. /\ e \in Elems(s) /\ Elems(Tail(s)) \subseteq Elems(s)
      /\ Elems(s) \subseteq Elems(Tail(s)) \cup {e} /\ Sorted(Tail(s))
  BY <1>1, <1>2, <1>3, HeadAndTail DEF Scanned
<1>7. e \in Rows
  BY <1>1, <1>3, <1>6 DEF Scanned
<1>8. Ahead(e) => e \in Elems(batch[r])
  <2>1. Ahead(e) => e \in Locked
    BY <1>3, <1>7 DEF Eligible, Due, Ahead, Queued
  <2>2. Ahead(e) => e \notin sent[r] /\ e \notin failed[r]
    BY <1>3 DEF Ahead, IInv, MarksAreBacked, Queued
  <2> QED BY <1>4, <2>1, <2>2 DEF Locked, Held
<1>9. Scanned(r)'
  <2>1. Elems(scan'[r]) \subseteq {f \in Rows : row'[f] # "none"}
    BY <1>1, <1>3, <1>4, <1>6 DEF Scanned
  <2>2. Sorted(scan[r])'
    BY <1>4, <1>5, <1>6 DEF Sorted
  <2>3. \A f \in Elems(batch'[r]), g \in Elems(scan'[r]) : CreatedAt(f) <= CreatedAt(g)
    BY <1>1, <1>3, <1>4, <1>6 DEF Scanned
  <2>4. \A f \in Elems(scan'[r]), g \in Rows :
           Ahead(g) /\ g \notin Elems(batch'[r]) /\ g \notin Elems(scan'[r]) =>
               CreatedAt(f) <= CreatedAt(g)
    BY <1>1, <1>3, <1>4, <1>6, <1>8 DEF Scanned
  <2> QED BY <1>5, <2>1, <2>2, <2>3, <2>4 DEF Scanned
<1>10. Queued'
  BY <1>3, <1>4, <1>5, <1>9 DEF Queued, Sorted
<1>11. Sequential'
  BY <1>3 DEF Sequential
<1> QED BY <1>10, <1>11 DEF OrderInv

\* The only relay takes up the oldest rows that have not arrived.
LEMMA OrderLockStep ==
    ASSUME Undelayed, IInv, OrderInv, NEW r \in Relays, LockRow(r)
    PROVE  OrderInv'
<1>1. PICK s \in Seq(Rows), b \in Seq(Rows) : s = scan[r] /\ b = batch[r]
  BY DEF IInv, TypeOK
<1>2. PICK e : e = Head(s)
  OBVIOUS
<1>3. /\ s # << >> /\ e \in Rows /\ batch' = [batch EXCEPT ![r] = Append(b, e)]
      /\ scan' = [scan EXCEPT ![r] = IF Len(batch'[r]) = BatchSize THEN << >> ELSE Tail(s)]
      /\ UNCHANGED <<started, ended, row, waiting, failed, log>>
      /\ Queued /\ Sequential /\ Scanned(r)
  BY <1>1, <1>2 DEF LockRow, Eligible, Due, users, table, OrderInv, Queued
<1>4. batch'[r] = Append(b, e) /\ scan'[r] \in {<< >>, Tail(s)} /\ \A q \in Relays : q = r
  BY <1>3 DEF Undelayed, IInv, TypeOK
<1>5. (\A f : CreatedAt(f)' = CreatedAt(f)) /\ (\A f : Ahead(f)' <=> Ahead(f))
  BY <1>3 DEF CreatedAt, Ahead
<1>6. /\ e \in Elems(s) /\ Elems(Tail(s)) \subseteq Elems(s)
      /\ Elems(s) \subseteq Elems(Tail(s)) \cup {e} /\ Sorted(Tail(s))
      /\ \A f \in Elems(s) : f = e \/ CreatedAt(e) <= CreatedAt(f)
  BY <1>1, <1>2, <1>3, HeadAndTail DEF Scanned
<1>7. Elems(Append(b, e)) = Elems(b) \cup {e}
  BY <1>3, ElemsAppend
<1>8. \A f \in Elems(b) : CreatedAt(f) <= CreatedAt(e)
  BY <1>1, <1>3, <1>6 DEF Scanned
<1>9. ASSUME NEW g \in Rows, Ahead(g), g \notin Elems(b), g # e
      PROVE  CreatedAt(e) <= CreatedAt(g)
  BY <1>1, <1>3, <1>6, <1>9 DEF Scanned
<1>10. Sorted(Append(b, e))
  <2>1. /\ Len(b) \in Nat /\ DOMAIN b = 1..Len(b) /\ Append(b, e) \in Seq(Rows)
        /\ Len(Append(b, e)) = Len(b) + 1 /\ Append(b, e)[Len(b) + 1] = e
        /\ \A i \in 1..Len(b) : Append(b, e)[i] = b[i]
    BY <1>3, AppendProperties, LenProperties
  <2>2. DOMAIN Append(b, e) = 1..Len(b) + 1
    BY <2>1, LenProperties
  <2>3. \A i \in 1..Len(b) : CreatedAt(b[i]) <= CreatedAt(e)
    BY <1>8, <2>1 DEF Elems
  <2>4. \A i, j \in 1..Len(b) : i < j => CreatedAt(b[i]) <= CreatedAt(b[j])
    BY <1>1, <1>3, <2>1 DEF Queued, Sorted
  <2> SUFFICES ASSUME NEW i \in DOMAIN Append(b, e), NEW j \in DOMAIN Append(b, e), i < j
               PROVE  CreatedAt(Append(b, e)[i]) <= CreatedAt(Append(b, e)[j])
    BY DEF Sorted
  <2>5. i \in 1..Len(b) /\ Append(b, e)[i] = b[i]
    BY <2>1, <2>2
  <2>6. CASE j = Len(b) + 1
    BY <2>1, <2>3, <2>5, <2>6
  <2>7. CASE j # Len(b) + 1
    <3>1. j \in 1..Len(b) /\ Append(b, e)[j] = b[j]
      BY <2>1, <2>2, <2>7
    <3> QED BY <2>4, <2>5, <3>1
  <2> QED BY <2>6, <2>7
<1>11. \A f \in Elems(batch'[r]), g \in Rows :
          Ahead(g) /\ g \notin Elems(batch'[r]) => CreatedAt(f) <= CreatedAt(g)
  <2>1. \A f \in Elems(b), g \in Rows :
           Ahead(g) /\ g \notin Elems(b) => CreatedAt(f) <= CreatedAt(g)
    BY <1>1, <1>3 DEF Queued
  <2> QED BY <1>4, <1>7, <1>9, <2>1
<1>12. Scanned(r)'
  <2>1. CASE scan'[r] = << >>
    BY <2>1, NothingToScan
  <2>2. CASE scan'[r] = Tail(s)
    <3>1. Elems(scan'[r]) \subseteq {f \in Rows : row'[f] # "none"}
      BY <1>1, <1>3, <1>6, <2>2 DEF Scanned
    <3>2. Sorted(scan[r])'
      BY <1>5, <1>6, <2>2 DEF Sorted
    <3>3. \A f \in Elems(batch'[r]), g \in Elems(scan'[r]) : CreatedAt(f) <= CreatedAt(g)
      <4>1. \A f \in Elems(b), g \in Elems(s) : CreatedAt(f) <= CreatedAt(g)
        BY <1>1, <1>3 DEF Scanned
      <4>2. ASSUME NEW g \in Elems(Tail(s)) PROVE CreatedAt(e) <= CreatedAt(g)
        <5>1. PICK i \in DOMAIN Tail(s) : g = Tail(s)[i]
          BY DEF Elems
        <5>2. CreatedAt(Head(s)) <= CreatedAt(Tail(s)[i])
          <6>1. /\ Len(s) \in Nat \ {0} /\ DOMAIN s = 1..Len(s) /\ s[1] = Head(s)
                /\ Tail(s) \in Seq(Rows) /\ Len(Tail(s)) = Len(s) - 1
                /\ \A k \in 1..Len(Tail(s)) : Tail(s)[k] = s[k + 1]
            BY <1>3, HeadTailProperties, EmptySeq, LenProperties
          <6>2. DOMAIN Tail(s) = 1..Len(Tail(s))
            BY <6>1, LenProperties
          <6>3. 1 \in DOMAIN s /\ i + 1 \in DOMAIN s /\ 1 < i + 1 /\ Tail(s)[i] = s[i + 1]
            BY <6>1, <6>2
          <6> QED BY <1>1, <1>3, <6>1, <6>3 DEF Scanned, Sorted
        <5> QED BY <1>2, <5>1, <5>2
      <4> QED BY <1>4, <1>6, <1>7, <2>2, <4>1, <4>2
    <3>4. \A f \in Elems(scan'[r]), g \in Rows :
             Ahead(g) /\ g \notin Elems(batch'[r]) /\ g \notin Elems(scan'[r]) =>
                 CreatedAt(f) <= CreatedAt(g)
      BY <1>1, <1>3, <1>4, <1>6, <1>7, <2>2 DEF Scanned
    <3> QED BY <1>5, <3>1, <3>2, <3>3, <3>4 DEF Scanned
  <2> QED BY <1>4, <2>1, <2>2
<1>13. Queued'
  <2>1. Sorted(batch[r])'
    BY <1>4, <1>5, <1>10 DEF Sorted
  <2>2. Sorted(log)'
    BY <1>3, <1>5 DEF Queued, Sorted
  <2> QED BY <1>3, <1>4, <1>5, <1>11, <1>12, <2>1, <2>2 DEF Queued
<1>14. Sequential'
  BY <1>3 DEF Sequential
<1> QED BY <1>13, <1>14 DEF OrderInv

\* The row that arrives is the oldest that had not.
LEMMA OrderSendStep ==
    ASSUME Undelayed, IInv, OrderInv, NEW r \in Relays, NEW e \in Rows,
           SendOk(r, e) \/ SendRefused(r, e) \/ SendAckLost(r, e)
    PROVE  OrderInv'
<1>1. /\ Take(r, e) /\ Arrive(e)
      /\ UNCHANGED <<started, ended, row, waiting>>
      /\ \/ failed' = failed
         \/ failed' = [failed EXCEPT ![r] = @ \cup {e}]
  BY DEF SendOk, SendRefused, SendAckLost, MarkFailed, Undelayed, users, table
<1>2. /\ Queued /\ Sequential /\ log \in Seq(Rows)
      /\ batch[r] \in Seq(Rows) /\ batch[r] # << >> /\ e = Head(batch[r])
      /\ batch' = [batch EXCEPT ![r] = Tail(batch[r])]
  BY <1>1 DEF Take, OrderInv, IInv, TypeOK
<1>3. PICK b \in Seq(Rows) : b = batch[r] /\ b # << >> /\ e = Head(b)
  BY <1>2
<1>4. batch'[r] = Tail(b) /\ \A q \in Relays : q = r
  BY <1>2, <1>3 DEF Undelayed, IInv, TypeOK
<1>5. Sorted(b)
  BY <1>2, <1>3 DEF Queued
<1>8. /\ e \in Elems(b) /\ Elems(Tail(b)) \subseteq Elems(b)
      /\ Elems(b) \subseteq Elems(Tail(b)) \cup {e}
      /\ Sorted(Tail(b)) /\ \A f \in Elems(b) : f = e \/ CreatedAt(e) <= CreatedAt(f)
  BY <1>3, <1>5, HeadAndTail
<1>9. Sorted(b) /\ \A f \in Elems(b), g \in Rows :
                      Ahead(g) /\ g \notin Elems(b) => CreatedAt(f) <= CreatedAt(g)
  BY <1>2, <1>3 DEF Queued
<1>10. ASSUME NEW g \in Rows, Ahead(g), g # e PROVE CreatedAt(e) <= CreatedAt(g)
  <2>1. CASE g \in Elems(b)
    BY <1>8, <1>10, <2>1
  <2>2. CASE g \notin Elems(b)
    BY <1>8, <1>9, <1>10, <2>2
  <2> QED BY <2>1, <2>2
<1>11. \A g : CreatedAt(g)' = CreatedAt(g)
  BY <1>1 DEF CreatedAt
<1>12. row[e] = "pending"
  <2>1. e \in Held(r)
    BY <1>3, <1>8 DEF Held
  <2> QED BY <2>1 DEF IInv, OneSender, Locked
<1>13. /\ Elems(log)' = Elems(log) \cup {e}
       /\ \A i, j \in DOMAIN log' : i < j => CreatedAt(log'[i]) <= CreatedAt(log'[j])
  <2>1. CASE e \in Elems(log)
    BY <1>1, <1>2, <2>1 DEF Arrive, Queued, Sorted
  <2>2. CASE e \notin Elems(log)
    <3>1. log' = Append(log, e) /\ Elems(log)' = Elems(log) \cup {e}
      <4>1. Elems(Append(log, e)) = Elems(log) \cup {e}
        BY <1>2, ElemsAppend
      <4> QED BY <1>1, <2>2, <4>1 DEF Arrive
    <3>2. /\ Len(log) \in Nat /\ DOMAIN log = 1..Len(log) /\ log' \in Seq(Rows)
          /\ Len(log') = Len(log) + 1 /\ log'[Len(log) + 1] = e
          /\ \A i \in 1..Len(log) : log'[i] = log[i]
      BY <1>2, <3>1, AppendProperties, LenProperties
    <3>3. DOMAIN log' = 1..Len(log) + 1
      BY <3>2, LenProperties
    <3>4. \A i \in 1..Len(log) : CreatedAt(log[i]) <= CreatedAt(e)
      BY <1>2, <1>12, <2>2, <3>2 DEF Queued, Ahead, Elems
    <3>5. \A i, j \in 1..Len(log) : i < j => CreatedAt(log[i]) <= CreatedAt(log[j])
      BY <1>2, <3>2 DEF Queued, Sorted
    <3>6. ASSUME NEW i \in DOMAIN log', NEW j \in DOMAIN log', i < j
          PROVE  CreatedAt(log'[i]) <= CreatedAt(log'[j])
      <4>1. i \in 1..Len(log) /\ log'[i] = log[i]
        BY <3>2, <3>3, <3>6
      <4>2. CASE j = Len(log) + 1
        BY <3>2, <3>4, <4>1, <4>2
      <4>3. CASE j # Len(log) + 1
        <5>1. j \in 1..Len(log) /\ log'[j] = log[j]
          BY <3>2, <3>3, <4>3
        <5> QED BY <3>5, <3>6, <4>1, <5>1
      <4> QED BY <4>2, <4>3
    <3> QED BY <3>1, <3>6
  <2> QED BY <2>1, <2>2
<1>14. \A g \in Rows : Ahead(g)' => Ahead(g) /\ g # e
  BY <1>1, <1>13 DEF Ahead
<1>15. \A i, j \in DOMAIN Tail(b) : i < j => CreatedAt(Tail(b)[i]) <= CreatedAt(Tail(b)[j])
  BY <1>8 DEF Sorted
<1>16. \A f \in Elems(Tail(b)), g \in Rows :
          Ahead(g)' /\ g \notin Elems(Tail(b)) => CreatedAt(f) <= CreatedAt(g)
  BY <1>8, <1>9, <1>14
<1>17. \A f \in Elems(log)', g \in Rows : Ahead(g)' => CreatedAt(f) <= CreatedAt(g)
  BY <1>2, <1>10, <1>13, <1>14 DEF Queued
<1>18. waiting' \subseteq Elems(log)' /\ \A q \in Relays : failed'[q] \subseteq Elems(log)'
  BY <1>1, <1>2, <1>4, <1>13 DEF Queued, IInv, TypeOK
<1>19. Queued'
  <2>1. Sorted(log)'
    BY <1>11, <1>13 DEF Sorted
  <2>2. \A q \in Relays : Sorted(batch[q])'
    BY <1>4, <1>11, <1>15 DEF Sorted
  <2>3. scan'[r] = << >>
    BY <1>1 DEF Take
  <2>4. \A q \in Relays : Scanned(q)'
    BY <1>4, <2>3, NothingToScan
  <2> QED BY <1>4, <1>11, <1>16, <1>17, <1>18, <2>1, <2>2, <2>4 DEF Queued
<1>20. Sequential'
  BY <1>1, <1>2 DEF Sequential
<1> QED BY <1>19, <1>20 DEF OrderInv

\* The end of a cycle, and time: nothing comes to be ahead.
LEMMA OrderOtherStep ==
    ASSUME Undelayed, IInv, OrderInv,
           \/ \E r \in Relays : CommitBatch(r) \/ AbortBatch(r)
           \/ \E e \in Rows : BackoffEnds(e) \/ Purge(e)
    PROVE  OrderInv'
<1>1. UNCHANGED <<started, ended, log>>
  BY DEF CommitBatch, AbortBatch, BackoffEnds, Purge, users
<1>2. \A e \in Rows : /\ row'[e] = "pending" => row[e] = "pending"
                      /\ row'[e] # "none" => row[e] # "none"
  <2>1. ASSUME NEW r \in Relays, CommitBatch(r)
        PROVE  \A e \in Rows : /\ row'[e] = "pending" => row[e] = "pending"
                               /\ row'[e] # "none" => row[e] # "none"
    <3>1. sent[r] \subseteq Locked
      BY DEF Locked, Held
    <3>2. \A e \in sent[r] : row[e] = "pending"
      BY <3>1 DEF IInv, OneSender
    <3> QED BY <2>1, <3>2 DEF CommitBatch
  <2>2. ASSUME NEW e \in Rows, Purge(e)
        PROVE  \A f \in Rows : /\ row'[f] = "pending" => row[f] = "pending"
                               /\ row'[f] # "none" => row[f] # "none"
    BY <2>2 DEF Purge, IInv, TypeOK
  <2>3. ASSUME NEW r \in Relays, AbortBatch(r) PROVE row' = row
    BY <2>3 DEF AbortBatch, table
  <2>4. ASSUME NEW e \in Rows, BackoffEnds(e) PROVE row' = row
    BY <2>4 DEF BackoffEnds
  <2> QED BY <2>1, <2>2, <2>3, <2>4
<1>3. \A r \in Relays : /\ batch'[r] = batch[r] \/ batch'[r] = << >>
                        /\ failed'[r] \subseteq failed[r]
  BY DEF CommitBatch, AbortBatch, BackoffEnds, Purge, inner, IInv, TypeOK
<1>4. waiting' \subseteq Elems(log)
  BY DEF CommitBatch, AbortBatch, BackoffEnds, Purge, table, OrderInv, Queued
<1>5. /\ \A e : CreatedAt(e)' = CreatedAt(e)
      /\ \A e \in Rows : Ahead(e)' => Ahead(e)
  BY <1>1, <1>2 DEF CreatedAt, Ahead
<1>6. Elems(<< >>) = {} /\ DOMAIN << >> = {}
  BY DEF Elems
<1>7. \A r \in Relays : /\ \A i, j \in DOMAIN batch'[r] :
                              i < j => CreatedAt(batch'[r][i]) <= CreatedAt(batch'[r][j])
                        /\ \A f \in Elems(batch'[r]), e \in Rows :
                              Ahead(e)' /\ e \notin Elems(batch'[r]) => CreatedAt(f) <= CreatedAt(e)
  <2> SUFFICES ASSUME NEW r \in Relays
               PROVE  /\ \A i, j \in DOMAIN batch'[r] :
                            i < j => CreatedAt(batch'[r][i]) <= CreatedAt(batch'[r][j])
                      /\ \A f \in Elems(batch'[r]), e \in Rows :
                            Ahead(e)' /\ e \notin Elems(batch'[r]) => CreatedAt(f) <= CreatedAt(e)
    OBVIOUS
  <2>1. CASE batch'[r] = << >>
    BY <1>6, <2>1
  <2>2. CASE batch'[r] = batch[r]
    BY <1>5, <2>2 DEF OrderInv, Queued, Sorted
  <2> QED BY <1>3, <2>1, <2>2
<1>8. Sorted(log)' /\ \A r \in Relays : Sorted(batch[r])'
  BY <1>1, <1>5, <1>7 DEF OrderInv, Queued, Sorted
<1>9. ASSUME NEW r \in Relays PROVE Scanned(r)'
  <2>1. Scanned(r) /\ Elems(batch[r]) \subseteq Known /\ \A e \in Rows : Ahead(e) => e \in Known
    BY KnownRows DEF OrderInv, Queued
  <2>2. scan'[r] = << >> \/ (scan'[r] = scan[r] /\ batch'[r] = batch[r])
    BY DEF CommitBatch, AbortBatch, BackoffEnds, Purge, inner, IInv, TypeOK
  <2>3. CASE scan'[r] = << >>
    BY <2>3, NothingToScan
  <2>4. CASE scan'[r] = scan[r] /\ batch'[r] = batch[r]
    <3>1. \A e \in Rows : row[e] # "none" => row'[e] # "none"
      BY DEF CommitBatch, AbortBatch, BackoffEnds, Purge, table, IInv, TypeOK
    <3> QED BY <1>5, <2>1, <2>4, <3>1, ScannedStays
  <2> QED BY <2>2, <2>3, <2>4
<1>10. Queued'
  BY <1>1, <1>3, <1>4, <1>5, <1>7, <1>8, <1>9 DEF OrderInv, Queued
<1>11. Sequential'
  BY <1>1, <1>2 DEF OrderInv, Sequential
<1> QED BY <1>10, <1>11 DEF OrderInv

LEMMA OrderInvariance == ASSUME Undelayed PROVE Spec => []OrderInv
<1>1. IInv /\ OrderInv /\ [Next]_vars => OrderInv'
  <2> SUFFICES ASSUME IInv, OrderInv, [Next]_vars PROVE OrderInv'
    OBVIOUS
  <2>1. ASSUME NEW r \in Relays, Cycle(r) PROVE OrderInv'
    BY <2>1, OrderScanStep, OrderLockStep, OrderSkipStep, OrderSendStep, OrderOtherStep DEF Cycle
  <2>2. CASE Next
    BY <2>1, <2>2, OrderUserStep, OrderOtherStep DEF Next
  <2>3. CASE UNCHANGED vars
    BY <2>3 DEF vars, OrderInv, Sequential, Queued, Scanned, Sorted, Ahead, CreatedAt
  <2> QED BY <2>2, <2>3
<1> QED BY <1>1, OrderInit, Invariance, PTL DEF Spec

-----------------------------------------------------------------------------
\* Type correctness of the outbox, its relays and the log.
THEOREM TypeCorrect == Spec => []TypeOK
<1>1. IInv => TypeOK
  BY DEF IInv
<1> QED BY <1>1, Invariance, PTL

\* mark_published and purge_published never lose an event: what the table no
\* longer holds as pending has been stored by Kafka, whatever failed.
THEOREM NoEventIsLost == Spec => []NeverLost
<1>1. IInv => NeverLost
  BY DEF IInv
<1> QED BY <1>1, Invariance, PTL

\* enqueue_event is part of the business transaction: nothing that rolled
\* back is ever announced.
THEOREM NoEventIsInvented == Spec => []NoPhantom
<1>1. IInv => NoPhantom
  BY DEF IInv
<1> QED BY <1>1, Invariance, PTL

\* FOR UPDATE SKIP LOCKED: however many relays run, a row has one sender.
THEOREM SendersAreApart == Spec => []OneSender
<1>1. IInv => OneSender
  BY DEF IInv
<1> QED BY <1>1, Invariance, PTL

\* "Deduplication" (contracts/events/README.md), its safety half: whatever
\* fails, a consumer reads only events of committed transactions, and what has
\* happened or been delivered once remains so.  That every one arrives is
\* DeliversAtLeastOnce, which needs fairness.
THEOREM KeepsPromise == Spec => Promise!Safety
<1>1. Init => Promise!Init
  <2>1. Elems(<< >>) = {}
    BY DEF Elems
  <2> QED BY <2>1 DEF Init, Promise!Init
<1>2. IInv /\ [Next]_vars => [Promise!Next]_Promise!vars
  <2> SUFFICES ASSUME IInv, [Next]_vars PROVE [Promise!Next]_Promise!vars
    OBVIOUS
  <2>1. ASSUME NEW r \in Relays, Cycle(r) PROVE [Promise!Next]_Promise!vars
    BY <2>1, SendStepKeepsPromise, OtherStepsKeepPromise DEF Cycle
  <2>2. CASE Next
    BY <2>1, <2>2, UserStepKeepsPromise, OtherStepsKeepPromise DEF Next
  <2>3. CASE UNCHANGED vars
    BY <2>3, OtherStepsKeepPromise
  <2> QED BY <2>2, <2>3
<1> QED BY <1>1, <1>2, Invariance, PTL DEF Spec, Promise!Safety

\* "This preserves the event order for a given user within a partition"
\* (contracts/events/README.md): so it does where transactions of a user do not
\* overlap, one relay runs and no send is refused; aborted cycles and lost
\* acknowledgements do no harm.  Rows of one transaction may come in any order.
InOrder == \A i, j \in DOMAIN log : i < j => CreatedAt(log[i]) <= CreatedAt(log[j])

THEOREM EventsInOrder == ASSUME Undelayed PROVE Spec => []InOrder
<1>1. OrderInv => InOrder
  BY DEF OrderInv, Queued, Sorted, InOrder
<1> QED BY <1>1, OrderInvariance, PTL
=============================================================================
