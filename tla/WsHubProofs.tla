---------------------------- MODULE WsHubProofs ----------------------------
(***************************************************************************)
(* Proofs about WsHub, for any connections, users, queue and slot limits.  *)
(* What a subscriber has yet to be sent is in the sender's hand or in its  *)
(* queue, in ascending order and above what it has been sent (Order); what *)
(* is in neither has been pushed out by QueueMax newer ones (Kept).        *)
(***************************************************************************)
EXTENDS WsHub, FiniteSetTheorems, SequenceTheorems, TLAPS

Places == {"idle", "accepting", "live", "unwinding", "closed"}
On     == {"live", "unwinding"}

\* Message k is one that c should be sent, and has not been.
Due(c, k) == /\ k \in 1..Len(published) /\ published[k] = UserOf[c]
             /\ k > since[c] /\ k > last[c]

Mine(c, n) == {k \in 1..Len(published) : k > n /\ published[k] = UserOf[c]}

Pending(c, k) == \/ hand[c] # << >> /\ hand[c][1] = k
                 \/ \E i \in 1..Len(queue[c]) : queue[c][i] = k

Types == /\ pc \in [Conns -> Places]
         /\ client \in [Conns -> {"here", "asleep", "gone"}]
         /\ published \in Seq(Users)
         /\ since \in [Conns -> Nat] /\ last \in [Conns -> Nat]
         /\ queue \in [Conns -> Seq(Nat)] /\ hand \in [Conns -> Seq(Nat)]
         /\ toClose \subseteq Conns /\ kicked \subseteq Conns /\ stopping \in BOOLEAN

Slots == /\ slots \subseteq Conns /\ IsFiniteSet(slots)
         /\ SlotsAreTrue

Quiet(c) == pc[c] \notin On => queue[c] = << >> /\ hand[c] = << >>

Order(c) ==
    /\ \A i \in 1..Len(queue[c]) : Due(c, queue[c][i])
    /\ \A i, j \in 1..Len(queue[c]) : i < j => queue[c][i] < queue[c][j]
    /\ hand[c] # << >> => /\ Len(hand[c]) = 1 /\ Due(c, hand[c][1])
                          /\ \A i \in 1..Len(queue[c]) : hand[c][1] < queue[c][i]
    /\ Len(queue[c]) <= QueueMax

Kept(c) == pc[c] \in On =>
              \A k \in 1..Len(published) :
                  Due(c, k) => Pending(c, k) \/ Cardinality(Mine(c, k)) >= QueueMax

\* Positions in published that exist, or 0.
Past == \A c \in Conns : since[c] <= Len(published) /\ last[c] <= Len(published)

IInv == Types /\ Past /\ Slots /\ \A c \in Conns : Quiet(c) /\ Order(c) /\ Kept(c)

-----------------------------------------------------------------------------
(* The slots.                                                              *)

LEMMA SlotsInit == Init => Slots
BY FS_EmptySet, HubAssumption DEF Init, Slots, SlotsAreTrue

LEMMA SlotsStep ==
    ASSUME Types, Slots, [Next]_vars
    PROVE  Slots'
<1>0. /\ Cardinality(slots) \in Nat /\ MaxConnections \in Nat /\ gauge = Cardinality(slots)
      /\ IsFiniteSet(slots) /\ slots \subseteq Conns
      /\ \A q \in slots : pc[q] \in {"accepting", "live", "unwinding"}
      /\ Cardinality(slots) <= MaxConnections
  BY FS_CardinalityType, HubAssumption DEF Slots, SlotsAreTrue
<1>1. ASSUME NEW c \in Conns, NEW l \in Places, Goto(c, l)
      PROVE  pc'[c] = l /\ \A q \in Conns : q # c => pc'[q] = pc[q]
  BY <1>1 DEF Goto, Types
<1>2. ASSUME UNCHANGED <<slots, gauge>>,
             \A q \in slots : pc'[q] \in {"accepting", "live", "unwinding"}
      PROVE  Slots'
  BY <1>0, <1>2 DEF Slots, SlotsAreTrue
<1>3. ASSUME NEW c \in Conns, Unregister(c), Leave(c) PROVE Slots'
  <2>1. pc'[c] = "closed" /\ \A q \in Conns : q # c => pc'[q] = pc[q]
    BY <1>1, <1>3 DEF Leave, Places
  <2>2. slots' = slots \ {c} /\ gauge' = IF c \in slots THEN gauge - 1 ELSE gauge
    BY <1>3 DEF Unregister
  <2>3. /\ IsFiniteSet(slots')
        /\ Cardinality(slots') = IF c \in slots THEN Cardinality(slots) - 1 ELSE Cardinality(slots)
    BY <1>0, <2>2, FS_RemoveElement
  <2>4. \A q \in slots' : pc'[q] \in {"accepting", "live", "unwinding"}
    BY <1>0, <2>1, <2>2
  <2>5. gauge' = Cardinality(slots') /\ Cardinality(slots') <= MaxConnections
    BY <1>0, <2>2, <2>3
  <2> QED BY <1>0, <2>2, <2>3, <2>4, <2>5 DEF Slots, SlotsAreTrue
<1>4. ASSUME NEW c \in Conns, Reject(c) PROVE Slots'
  <2>1. pc[c] = "idle" /\ Goto(c, "closed") /\ UNCHANGED <<slots, gauge>>
    BY <1>4 DEF Reject, Leave
  <2>2. \A q \in Conns : q # c => pc'[q] = pc[q]
    BY <1>1, <2>1 DEF Places
  <2> QED BY <1>0, <1>2, <2>1, <2>2
<1>5. ASSUME NEW c \in Conns, Register(c) PROVE Slots'
  <2>1. /\ pc[c] = "idle" /\ Goto(c, "accepting") /\ slots' = slots \cup {c} /\ gauge' = gauge + 1
        /\ Cardinality(slots) < MaxConnections
    BY <1>5 DEF Register
  <2>2. pc'[c] = "accepting" /\ \A q \in Conns : q # c => pc'[q] = pc[q]
    BY <1>1, <2>1 DEF Places
  <2>3. c \notin slots
    BY <1>0, <2>1
  <2>4. IsFiniteSet(slots') /\ Cardinality(slots') = Cardinality(slots) + 1
    BY <1>0, <2>1, <2>3, FS_AddElement
  <2>5. gauge' = Cardinality(slots') /\ Cardinality(slots') <= MaxConnections
    BY <1>0, <2>1, <2>4
  <2> QED BY <1>0, <2>1, <2>2, <2>4, <2>5 DEF Slots, SlotsAreTrue
<1>6. ASSUME NEW c \in Conns, Accept(c) \/ Finish(c) PROVE Slots'
  <2>1. UNCHANGED <<slots, gauge>> /\ \E l \in {"live", "unwinding"} : Goto(c, l)
    BY <1>6 DEF Accept, Finish
  <2>2. pc'[c] \in {"live", "unwinding"} /\ \A q \in Conns : q # c => pc'[q] = pc[q]
    BY <1>1, <2>1 DEF Places
  <2> QED BY <1>0, <1>2, <2>1, <2>2
<1>7. ASSUME NEW c \in Conns, AcceptFails(c) \/ Unwind(c) PROVE Slots'
  BY <1>3, <1>7 DEF AcceptFails, Unwind
<1>8. ASSUME UNCHANGED <<slots, gauge, pc>> PROVE Slots'
  BY <1>0, <1>2, <1>8
<1>9. ASSUME NEW c \in Conns, Sender(c) \/ Lapse(c) \/ CloseNext(c) PROVE Slots'
  BY <1>8, <1>9 DEF Sender, Take, Forward, Lapse, CloseNext
<1>10. ASSUME NEW u \in Users, Publish(u) PROVE Slots'
  BY <1>8, <1>10 DEF Publish
<1>11. CASE CloseAll
  <2>1. slots' = {} /\ gauge' = 0
    BY <1>0, <1>11 DEF CloseAll
  <2> QED BY <1>0, <2>1, FS_EmptySet DEF Slots, SlotsAreTrue
<1>12. CASE UNCHANGED vars
  BY <1>8, <1>12 DEF vars
<1> QED
  BY <1>4, <1>5, <1>6, <1>7, <1>9, <1>10, <1>11, <1>12 DEF Next, Handler

-----------------------------------------------------------------------------
(* The queues.                                                             *)

\* put_nowait after get_nowait on a full queue: a queue of at most QueueMax,
\* with n behind what is left of the old one.
LEMMA RoomProperties ==
    ASSUME NEW q \in Seq(Nat), NEW n \in Nat, Len(q) <= QueueMax
    PROVE  /\ Room(q, n) \in Seq(Nat) /\ Len(Room(q, n)) \in 1..QueueMax
           /\ Room(q, n)[Len(Room(q, n))] = n
           /\ \E d \in {0, 1} :
                 /\ Len(Room(q, n)) = Len(q) + 1 - d
                 /\ d = 1 => Len(q) = QueueMax
                 /\ \A i \in 1..(Len(Room(q, n)) - 1) : Room(q, n)[i] = q[i + d]
<1>0. QueueMax \in Nat \ {0} /\ Len(q) \in Nat
  BY HubAssumption, LenProperties
<1>1. CASE Len(q) = QueueMax
  <2>1. q # << >> /\ Room(q, n) = Append(Tail(q), n)
    BY <1>0, <1>1, EmptySeq DEF Room
  <2>2. /\ Tail(q) \in Seq(Nat) /\ Len(Tail(q)) = Len(q) - 1
        /\ \A i \in 1..Len(Tail(q)) : Tail(q)[i] = q[i + 1]
    BY <2>1, HeadTailProperties
  <2>3. /\ Append(Tail(q), n) \in Seq(Nat) /\ Len(Append(Tail(q), n)) = Len(q)
        /\ Append(Tail(q), n)[Len(q)] = n
        /\ \A i \in 1..(Len(q) - 1) : Append(Tail(q), n)[i] = Tail(q)[i]
    BY <1>0, <2>2, AppendProperties
  <2>4. \A i \in 1..(Len(Room(q, n)) - 1) : Room(q, n)[i] = q[i + 1]
    BY <1>0, <2>1, <2>2, <2>3
  <2> QED BY <1>0, <1>1, <2>1, <2>3, <2>4
<1>2. CASE Len(q) # QueueMax
  <2>1. Room(q, n) = Append(q, n)
    BY <1>2 DEF Room
  <2>2. /\ Append(q, n) \in Seq(Nat) /\ Len(Append(q, n)) = Len(q) + 1
        /\ Append(q, n)[Len(q) + 1] = n
        /\ \A i \in 1..Len(q) : Append(q, n)[i] = q[i]
    BY <1>0, AppendProperties
  <2>3. \A i \in 1..(Len(Room(q, n)) - 1) : Room(q, n)[i] = q[i + 0]
    BY <1>0, <2>1, <2>2
  <2> QED BY <1>0, <1>2, <2>1, <2>2, <2>3
<1> QED BY <1>1, <1>2

\* A connection none of whose own state changes, while nothing is published.
LEMMA SameConnection ==
    ASSUME NEW c \in Conns, Quiet(c), Order(c), Kept(c), published' = published,
           queue'[c] = queue[c], hand'[c] = hand[c], since'[c] = since[c], last'[c] = last[c],
           pc'[c] \in On <=> pc[c] \in On
    PROVE  Quiet(c)' /\ Order(c)' /\ Kept(c)'
<1>1. \A k : Due(c, k)' <=> Due(c, k)
  BY DEF Due
<1>2. \A k : (Pending(c, k)' <=> Pending(c, k)) /\ Mine(c, k)' = Mine(c, k)
  BY DEF Pending, Mine
<1>3. Quiet(c)'
  BY DEF Quiet
<1>4. Order(c)'
  BY <1>1 DEF Order
<1>5. Kept(c)'
  BY <1>1, <1>2 DEF Kept
<1> QED BY <1>3, <1>4, <1>5

\* A connection that has no handler, or whose handler is over.
LEMMA NoHandler ==
    ASSUME NEW c \in Conns, queue'[c] = << >>, hand'[c] = << >>, pc'[c] \notin On
    PROVE  Quiet(c)' /\ Order(c)' /\ Kept(c)'
<1>1. Len(queue'[c]) = 0 /\ QueueMax \in Nat
  BY HubAssumption, EmptySeq
<1> QED BY <1>1 DEF Quiet, Order, Kept

LEMMA LeaveKeeps ==
    ASSUME Types, NEW c \in Conns, Leave(c)
    PROVE  /\ Types'
           /\ pc'[c] = "closed" /\ queue'[c] = << >> /\ hand'[c] = << >> /\ published' = published
           /\ \A q \in Conns \ {c} : /\ pc'[q] = pc[q] /\ queue'[q] = queue[q] /\ hand'[q] = hand[q]
                                      /\ since'[q] = since[q] /\ last'[q] = last[q]
<1>1. << >> \in Seq(Nat)
  BY EmptySeq
<1> QED BY <1>1 DEF Leave, Goto, Types, Places

\* Finite sets of messages: those to come after k are at least as many when
\* more has been published, and QueueMax of them fill a queue.
LEMMA MineFinite ==
    ASSUME Types, NEW c \in Conns, NEW k
    PROVE  IsFiniteSet(Mine(c, k)) /\ Cardinality(Mine(c, k)) \in Nat
<1>1. Len(published) \in Nat
  BY LenProperties DEF Types
<1>2. IsFiniteSet(1..Len(published))
  BY <1>1, FS_Interval
<1>3. Mine(c, k) \in SUBSET (1..Len(published))
  BY DEF Mine
<1>4. IsFiniteSet(Mine(c, k))
  BY <1>2, <1>3, FS_Subset
<1> QED BY <1>4, FS_CardinalityType

LEMMA TypesStep ==
    ASSUME Types, Slots, \A c \in Conns : Order(c), [Next]_vars
    PROVE  Types'
<1>1. ASSUME NEW c \in Conns, Reject(c) \/ AcceptFails(c) \/ Unwind(c) PROVE Types'
  BY <1>1, LeaveKeeps DEF Reject, AcceptFails, Unwind
<1>2. ASSUME NEW c \in Conns, Register(c) \/ Finish(c) PROVE Types'
  <2>1. /\ \E l \in {"accepting", "unwinding"} : Goto(c, l)
        /\ UNCHANGED ends /\ UNCHANGED flow /\ UNCHANGED stop
    BY <1>2 DEF Register, Finish
  <2> QED BY <2>1 DEF Types, Goto, Places, ends, flow, stop
<1>3. ASSUME NEW c \in Conns, Accept(c) PROVE Types'
  <2>1. Len(published) \in Nat
    BY LenProperties DEF Types
  <2> QED BY <1>3, <2>1 DEF Accept, Types, Goto, Places, flow, stop
<1>4. ASSUME NEW c \in Conns, Take(c) PROVE Types'
  <2>1. queue[c] \in Seq(Nat) /\ queue[c] # << >>
    BY <1>4 DEF Take, Types
  <2>2. Tail(queue[c]) \in Seq(Nat) /\ Head(queue[c]) \in Nat
    BY <2>1, HeadTailProperties
  <2>3. <<Head(queue[c])>> \in Seq(Nat)
    BY <2>2
  <2> QED BY <1>4, <2>2, <2>3 DEF Take, Types, ends, stop
<1>5. ASSUME NEW c \in Conns, Forward(c) PROVE Types'
  <2>1. hand[c] \in Seq(Nat) /\ hand[c] # << >>
    BY <1>5 DEF Forward, Types
  <2>2. Head(hand[c]) \in Nat /\ << >> \in Seq(Nat)
    BY <2>1, HeadTailProperties, EmptySeq
  <2> QED BY <1>5, <2>2 DEF Forward, Types, ends, stop
<1>6. ASSUME NEW c \in Conns, Lapse(c) \/ CloseNext(c) PROVE Types'
  <2>1. CASE Lapse(c)
    <3>1. PICK w \in {"asleep", "gone"} : client' = [client EXCEPT ![c] = w]
      BY <2>1 DEF Lapse
    <3> QED BY <2>1, <3>1 DEF Lapse, Types, flow, stop
  <2>2. CASE CloseNext(c)
    BY <2>2 DEF CloseNext, Types, ends, flow
  <2> QED BY <1>6, <2>1, <2>2
<1>7. ASSUME NEW u \in Users, Publish(u) PROVE Types'
  <2>1. Len(published) + 1 \in Nat /\ published' \in Seq(Users)
    BY <1>7, LenProperties, AppendProperties DEF Types, Publish
  <2>2. \A c \in Conns : queue[c] \in Seq(Nat) /\ Len(queue[c]) <= QueueMax
    BY DEF Types, Order
  <2>3. \A c \in Conns : Room(queue[c], Len(published) + 1) \in Seq(Nat)
    BY <2>1, <2>2, RoomProperties
  <2>4. queue' \in [Conns -> Seq(Nat)]
    BY <1>7, <2>2, <2>3 DEF Publish, Enqueued
  <2> QED BY <1>7, <2>1, <2>4 DEF Publish, Types, stop
<1>8. CASE CloseAll
  BY <1>8 DEF CloseAll, Types, ends, flow, Slots
<1>9. CASE UNCHANGED vars
  BY <1>9 DEF vars, Types
<1> QED
  BY <1>1, <1>2, <1>3, <1>4, <1>5, <1>6, <1>7, <1>8, <1>9 DEF Next, Handler, Sender

\* Everything that is said of the queue of c.
Flow(c) == Quiet(c) /\ Order(c) /\ Kept(c)

\* _sender takes the oldest message of its queue into its hand.
LEMMA TakeKeeps ==
    ASSUME Types, NEW c \in Conns, Flow(c), Take(c)
    PROVE  Flow(c)'
<1>1. /\ pc[c] = "live" /\ pc' = pc /\ hand[c] = << >> /\ queue[c] # << >>
      /\ hand' = [hand EXCEPT ![c] = <<Head(queue[c])>>]
      /\ queue' = [queue EXCEPT ![c] = Tail(@)]
      /\ last' = last /\ since' = since /\ published' = published
  BY DEF Take, ends
<1>2. hand'[c] = <<Head(queue[c])>> /\ queue'[c] = Tail(queue[c])
  BY <1>1 DEF Types
<1>3. /\ queue[c] \in Seq(Nat) /\ Len(queue[c]) \in Nat \ {0} /\ Head(queue[c]) = queue[c][1]
      /\ Tail(queue[c]) \in Seq(Nat) /\ Len(Tail(queue[c])) = Len(queue[c]) - 1
      /\ \A i \in 1..Len(Tail(queue[c])) : Tail(queue[c])[i] = queue[c][i + 1]
  BY <1>1, EmptySeq, HeadTailProperties DEF Types
<1>4. hand'[c] # << >> /\ Len(hand'[c]) = 1 /\ hand'[c][1] = queue[c][1]
  BY <1>2, <1>3
<1>5. \A k : (Due(c, k)' <=> Due(c, k)) /\ Mine(c, k)' = Mine(c, k)
  BY <1>1 DEF Due, Mine
<1>6. /\ Len(queue'[c]) = Len(queue[c]) - 1 /\ Len(queue[c]) \in Nat \ {0}
      /\ \A i \in 1..Len(queue'[c]) : queue'[c][i] = queue[c][i + 1]
  BY <1>2, <1>3
<1>7. Quiet(c)'
  BY <1>1 DEF Quiet, On
<1>8. Order(c)'
  <2>0. Order(c) /\ QueueMax \in Nat BY HubAssumption DEF Flow
  <2>1. ASSUME NEW i \in 1..Len(queue'[c]) PROVE Due(c, queue[c][i])'
    <3>1. i + 1 \in 1..Len(queue[c]) /\ queue'[c][i] = queue[c][i + 1]
      BY <1>6
    <3>2. Due(c, queue[c][i + 1])
      BY <2>0, <3>1 DEF Order
    <3> QED BY <1>1, <3>1, <3>2 DEF Due
  <2>2. \A i, j \in 1..Len(queue'[c]) : i < j => queue'[c][i] < queue'[c][j]
    BY <1>3, <1>6, <2>0 DEF Order
  <2>3. Due(c, hand[c][1])' /\ \A i \in 1..Len(queue'[c]) : hand'[c][1] < queue'[c][i]
    <3>1. Due(c, queue[c][1])
      BY <1>3, <2>0 DEF Order
    <3>2. Due(c, hand[c][1])'
      BY <1>1, <1>4, <3>1 DEF Due
    <3>3. ASSUME NEW i \in 1..Len(queue'[c]) PROVE hand'[c][1] < queue'[c][i]
      <4>1. 1 \in 1..Len(queue[c]) /\ i + 1 \in 1..Len(queue[c]) /\ 1 < i + 1
        BY <1>6
      <4>2. queue[c][1] < queue[c][i + 1]
        BY <2>0, <4>1 DEF Order
      <4> QED BY <1>4, <1>6, <4>2
    <3> QED BY <3>2, <3>3
  <2>4. Len(queue'[c]) <= QueueMax
    BY <1>3, <1>6, <2>0 DEF Order
  <2> QED BY <1>4, <2>1, <2>2, <2>3, <2>4 DEF Order
<1>9. Kept(c)'
  <2>1. ASSUME NEW k, Pending(c, k) PROVE Pending(c, k)'
    <3>1. PICK i \in 1..Len(queue[c]) : queue[c][i] = k
      BY <1>1, <2>1 DEF Pending
    <3>2. CASE i = 1 BY <1>4, <3>1, <3>2 DEF Pending
    <3>3. CASE i # 1
      <4>1. i - 1 \in 1..Len(queue'[c]) /\ queue'[c][i - 1] = k
        BY <1>3, <1>6, <3>1, <3>3
      <4> QED BY <4>1 DEF Pending
    <3> QED BY <3>2, <3>3
  <2> QED BY <1>1, <1>5, <2>1 DEF Flow, Kept, On
<1> QED BY <1>7, <1>8, <1>9 DEF Flow

\* send_json returns.
LEMMA ForwardKeeps ==
    ASSUME Types, NEW c \in Conns, Flow(c), Forward(c)
    PROVE  Flow(c)'
<1>1. /\ pc[c] = "live" /\ pc' = pc /\ hand[c] # << >> /\ queue' = queue
      /\ last' = [last EXCEPT ![c] = Head(hand[c])]
      /\ hand' = [hand EXCEPT ![c] = << >>]
      /\ since' = since /\ published' = published
  BY DEF Forward, ends
<1>2. hand'[c] = << >> /\ last'[c] = Head(hand[c])
  BY <1>1 DEF Types
<1>3. /\ Head(hand[c]) = hand[c][1] /\ hand[c][1] \in Nat /\ last[c] \in Nat
      /\ \A i \in 1..Len(queue[c]) : queue[c][i] \in Nat
  <2>1. hand[c] \in Seq(Nat) /\ queue[c] \in Seq(Nat) /\ last[c] \in Nat
    BY DEF Types
  <2>2. Head(hand[c]) = hand[c][1] /\ Head(hand[c]) \in Nat
    BY <1>1, <2>1, HeadTailProperties
  <2> QED BY <2>1, <2>2, ElementOfSeq
<1>4. /\ Order(c) /\ Due(c, hand[c][1]) /\ Len(hand[c]) = 1
      /\ \A i \in 1..Len(queue[c]) : hand[c][1] < queue[c][i]
  BY <1>1 DEF Flow, Order
<1>5. hand[c][1] > last[c]
  BY <1>4 DEF Due
<1>6. ASSUME NEW k \in Nat
      PROVE  /\ Due(c, k)' => Due(c, k) /\ k > hand[c][1]
             /\ Due(c, k) /\ k > hand[c][1] => Due(c, k)'
             /\ Mine(c, k)' = Mine(c, k)
  BY <1>1, <1>2, <1>3, <1>5, <1>6 DEF Due, Mine
<1>7. Quiet(c)'
  BY <1>1 DEF Quiet, On
<1>8. Order(c)'
  BY <1>1, <1>2, <1>3, <1>4, <1>6 DEF Order
<1>9. Kept(c)'
  <2>1. ASSUME NEW k \in Nat, Pending(c, k), k > hand[c][1] PROVE Pending(c, k)'
    BY <1>1, <1>3, <2>1 DEF Pending
  <2>2. 1..Len(published) \subseteq Nat /\ published' = published
    <3>1. Len(published) \in Nat BY LenProperties DEF Types
    <3> QED BY <1>1, <3>1
  <2>3. ASSUME NEW k \in 1..Len(published), Due(c, k)'
        PROVE  Pending(c, k)' \/ Cardinality(Mine(c, k)') >= QueueMax
    <3>1. k \in Nat /\ Due(c, k) /\ k > hand[c][1] /\ Mine(c, k)' = Mine(c, k)
      BY <1>6, <2>2, <2>3
    <3>2. Pending(c, k) \/ Cardinality(Mine(c, k)) >= QueueMax
      BY <1>1, <3>1 DEF Flow, Kept, On
    <3> QED BY <2>1, <3>1, <3>2
  <2> QED BY <2>2, <2>3 DEF Kept
<1> QED BY <1>7, <1>8, <1>9 DEF Flow

\* Different members of a set, in a sequence: the set is as large.
LEMMA AsManyAs ==
    ASSUME NEW m \in Nat, NEW q \in Seq(Nat), Len(q) = m, NEW S, IsFiniteSet(S),
           \A i \in 1..m : q[i] \in S,
           \A i, j \in 1..m : i < j => q[i] < q[j]
    PROVE  Cardinality(S) >= m
<1>1. IsFiniteSet(1..m) /\ Cardinality(1..m) = m
  BY FS_Interval
<1>2. \A i \in 1..m : q[i] \in Nat
  BY ElementOfSeq
<1> DEFINE f == [i \in 1..m |-> q[i]]
<1>3. f \in [1..m -> S]
  OBVIOUS
<1>4. \A i, j \in 1..m : f[i] = f[j] => i = j
  BY <1>2
<1>5. f \in Injection(1..m, S)
  BY <1>3, <1>4 DEF Injection, IsInjective
<1>6. Cardinality(1..m) <= Cardinality(S)
  BY <1>5, FS_Injection
<1>7. Cardinality(S) \in Nat
  BY FS_CardinalityType
<1> QED BY <1>1, <1>6, <1>7

\* publish, for a subscriber of the user it is meant for and for the others.
LEMMA PublishKeeps ==
    ASSUME Types, Past, NEW c \in Conns, Flow(c), NEW u \in Users, Publish(u),
           NEW n \in Nat, n = Len(published) + 1
    PROVE  Flow(c)'
<1>1. /\ published' = Append(published, u) /\ queue' = Enqueued(u, n)
      /\ pc' = pc /\ hand' = hand /\ last' = last /\ since' = since
  BY DEF Publish
<1>2. /\ Len(published) \in Nat /\ n \in Nat /\ Len(published') = n /\ published'[n] = u
      /\ \A k \in 1..Len(published) : published'[k] = published[k]
  BY <1>1, LenProperties, AppendProperties DEF Types
<1>3. /\ queue[c] \in Seq(Nat) /\ Len(queue[c]) \in Nat /\ since[c] \in Nat /\ last[c] \in Nat
      /\ QueueMax \in Nat \ {0}
  BY LenProperties, HubAssumption DEF Types
<1>4. Quiet(c) /\ Order(c) /\ Kept(c)
  BY DEF Flow
<1>5. \A k : Due(c, k) => Due(c, k)' /\ k \in 1..Len(published)
  BY <1>1, <1>2 DEF Due
<1>6. \A k : Due(c, k)' => Due(c, k) \/ (k = n /\ UserOf[c] = u)
  BY <1>1, <1>2 DEF Due
<1>7. CASE pc[c] \notin On
  <2>1. c \notin Subscribed
    BY <1>7 DEF Subscribed, On
  <2>2. queue'[c] = << >> /\ hand'[c] = << >> /\ pc'[c] \notin On
    BY <1>1, <1>4, <1>7, <2>1 DEF Enqueued, Quiet
  <2> QED BY <2>2, NoHandler DEF Flow
<1>8. CASE pc[c] \in On /\ UserOf[c] # u
  <2>1. queue'[c] = queue[c]
    BY <1>1, <1>8 DEF Enqueued
  <2>2. Quiet(c)'
    BY <1>1, <1>8 DEF Quiet
  <2>3. Order(c)'
    BY <1>1, <1>4, <1>5, <2>1 DEF Order
  <2>4. \A k : Mine(c, k)' = Mine(c, k)
    BY <1>1, <1>2, <1>8 DEF Mine
  <2>5. \A k : Pending(c, k)' <=> Pending(c, k)
    BY <1>1, <2>1 DEF Pending
  <2>6. Kept(c)'
    BY <1>1, <1>4, <1>5, <1>6, <1>8, <2>4, <2>5 DEF Kept
  <2> QED BY <2>2, <2>3, <2>6 DEF Flow
<1>9. CASE pc[c] \in On /\ UserOf[c] = u
  <2>1. c \in Subscribed
    BY <1>9 DEF Subscribed, On
  <2>2. queue'[c] = Room(queue[c], n)
    BY <1>1, <1>9, <2>1 DEF Enqueued
  <2>3. Len(queue[c]) <= QueueMax
    BY <1>4 DEF Order
  <2> DEFINE r == Room(queue[c], n)
  <2>r. /\ r \in Seq(Nat) /\ Len(r) \in 1..QueueMax /\ r[Len(r)] = n
        /\ \E d \in {0, 1} :
              /\ Len(r) = Len(queue[c]) + 1 - d
              /\ d = 1 => Len(queue[c]) = QueueMax
              /\ \A i \in 1..(Len(r) - 1) : r[i] = queue[c][i + d]
    BY <1>3, <2>3, RoomProperties
  <2>q. queue'[c] = r
    BY <2>2
  <2> HIDE DEF r
  <2>4. /\ queue'[c] \in Seq(Nat) /\ Len(queue'[c]) \in 1..QueueMax
        /\ queue'[c][Len(queue'[c])] = n
    BY <2>q, <2>r
  <2>d. PICK d \in {0, 1} : /\ Len(r) = Len(queue[c]) + 1 - d
                            /\ d = 1 => Len(queue[c]) = QueueMax
                            /\ \A i \in 1..(Len(r) - 1) : r[i] = queue[c][i + d]
    BY <2>r
  <2>5. /\ Len(queue'[c]) = Len(queue[c]) + 1 - d
        /\ d = 1 => Len(queue[c]) = QueueMax
        /\ \A i \in 1..(Len(queue'[c]) - 1) : queue'[c][i] = queue[c][i + d]
    BY <2>q, <2>d
  <2>6. ASSUME NEW i \in 1..Len(queue[c])
        PROVE  queue[c][i] \in 1..Len(published) /\ queue[c][i] \in Nat /\ queue[c][i] < n
    <3>1. Due(c, queue[c][i])
      BY <1>4 DEF Order
    <3> QED BY <1>2, <3>1 DEF Due
  <2>7. Due(c, n)'
    BY <1>1, <1>2, <1>3, <1>9 DEF Due, Past
  <2>8. ASSUME NEW i \in 1..Len(queue'[c]), i # Len(queue'[c])
        PROVE  i + d \in 1..Len(queue[c]) /\ queue'[c][i] = queue[c][i + d]
    <3>1. Len(queue'[c]) \in Nat /\ i \in 1..(Len(queue'[c]) - 1)
      BY <1>3, <2>4, <2>8
    <3>2. queue'[c][i] = queue[c][i + d]
      BY <2>5, <3>1
    <3>3. CASE d = 0
      BY <1>3, <2>5, <3>1, <3>2, <3>3
    <3>4. CASE d = 1
      BY <1>3, <2>5, <3>1, <3>2, <3>4
    <3> QED BY <3>3, <3>4
  <2>9. \A i \in 1..Len(queue'[c]) : Due(c, queue[c][i])'
    <3> SUFFICES ASSUME NEW i \in 1..Len(queue'[c]) PROVE Due(c, queue[c][i])'
      OBVIOUS
    <3>1. CASE i = Len(queue'[c])
      BY <2>4, <2>7, <3>1 DEF Due
    <3>2. CASE i # Len(queue'[c])
      <4>1. i + d \in 1..Len(queue[c]) /\ queue'[c][i] = queue[c][i + d]
        BY <2>8, <3>2
      <4>2. Due(c, queue[c][i + d])
        BY <1>4, <4>1 DEF Order
      <4> QED BY <1>1, <1>2, <4>1, <4>2 DEF Due
    <3> QED BY <3>1, <3>2
  <2>10. \A i, j \in 1..Len(queue'[c]) : i < j => queue'[c][i] < queue'[c][j]
    <3> SUFFICES ASSUME NEW i \in 1..Len(queue'[c]), NEW j \in 1..Len(queue'[c]), i < j
                 PROVE  queue'[c][i] < queue'[c][j]
      OBVIOUS
    <3>1. i # Len(queue'[c]) /\ i \in Nat /\ j \in Nat
      BY <2>4
    <3>2. i + d \in 1..Len(queue[c]) /\ queue'[c][i] = queue[c][i + d]
      BY <2>8, <3>1
    <3>3. CASE j = Len(queue'[c])
      BY <2>4, <2>6, <3>2, <3>3
    <3>4. CASE j # Len(queue'[c])
      <4>1. j + d \in 1..Len(queue[c]) /\ queue'[c][j] = queue[c][j + d] /\ i + d < j + d
        BY <2>8, <3>1, <3>4
      <4> QED BY <1>4, <3>2, <4>1 DEF Order
    <3> QED BY <3>3, <3>4
  <2>11. hand'[c] # << >> => /\ Len(hand'[c]) = 1 /\ Due(c, hand[c][1])'
                            /\ \A i \in 1..Len(queue'[c]) : hand'[c][1] < queue'[c][i]
    <3> SUFFICES ASSUME hand[c] # << >>
                 PROVE  /\ Len(hand[c]) = 1 /\ Due(c, hand[c][1])'
                        /\ \A i \in 1..Len(queue'[c]) : hand[c][1] < queue'[c][i]
      BY <1>1
    <3>1. Len(hand[c]) = 1 /\ Due(c, hand[c][1])
      BY <1>4 DEF Order
    <3>2. Due(c, hand[c][1])'
      BY <1>1, <1>2, <3>1 DEF Due
    <3>3. ASSUME NEW i \in 1..Len(queue'[c]) PROVE hand[c][1] < queue'[c][i]
      <4>1. CASE i = Len(queue'[c])
        BY <1>2, <2>4, <3>1, <4>1 DEF Due
      <4>2. CASE i # Len(queue'[c])
        <5>1. i + d \in 1..Len(queue[c]) /\ queue'[c][i] = queue[c][i + d]
          BY <2>8, <4>2
        <5> QED BY <1>4, <5>1 DEF Order
      <4> QED BY <4>1, <4>2
    <3> QED BY <3>1, <3>2, <3>3
  <2>12. Order(c)'
    BY <2>4, <2>9, <2>10, <2>11 DEF Order
  <2>13. Quiet(c)'
    BY <1>1, <1>9 DEF Quiet
  <2>14. ASSUME NEW k
         PROVE  /\ IsFiniteSet(Mine(c, k)') /\ Cardinality(Mine(c, k)') \in Nat
                /\ Mine(c, k) \subseteq Mine(c, k)'
    <3>1. IsFiniteSet(1..n)
      BY <1>2, FS_Interval
    <3>2. Mine(c, k)' \in SUBSET (1..n)
      BY <1>2 DEF Mine
    <3>3. Mine(c, k) \subseteq Mine(c, k)'
      BY <1>2 DEF Mine
    <3>4. IsFiniteSet(Mine(c, k)')
      BY <3>1, <3>2, FS_Subset
    <3> QED BY <3>3, <3>4, FS_CardinalityType
  <2>15. ASSUME NEW i \in 1..Len(queue[c]), NEW k, queue[c][i] = k
         PROVE  Pending(c, k)' \/ Cardinality(Mine(c, k)') >= QueueMax
    <3>1. CASE i - d \in 1..Len(queue[c])
      <4>1. i - d \in 1..(Len(queue'[c]) - 1)
        BY <1>3, <2>5, <3>1
      <4>2. queue'[c][i - d] = k /\ i - d \in 1..Len(queue'[c])
        <5>1. Len(queue'[c]) \in Nat /\ i \in Nat /\ i - d + d = i
          BY <1>3, <2>4, <2>5
        <5>2. queue'[c][i - d] = queue[c][i - d + d]
          BY <2>5, <4>1
        <5> QED BY <2>15, <4>1, <5>1, <5>2
      <4> QED BY <1>1, <4>2 DEF Pending
    <3>2. CASE i - d \notin 1..Len(queue[c])
      <4>1. d = 1 /\ i = 1 /\ Len(queue'[c]) = QueueMax
        <5>1. i \in Nat /\ Len(queue[c]) \in Nat /\ 1 <= i /\ i <= Len(queue[c])
          BY <1>3
        <5>2. d = 1 /\ i = 1
          <6>1. CASE d = 0 BY <3>2, <5>1, <6>1
          <6>2. CASE d = 1 BY <3>2, <5>1, <6>2
          <6> QED BY <6>1, <6>2
        <5>3. Len(queue'[c]) = Len(queue[c]) + 1 - d /\ Len(queue[c]) = QueueMax
          BY <2>5, <5>2
        <5> QED BY <5>1, <5>2, <5>3
      <4>2. ASSUME NEW j \in 1..Len(queue'[c]) PROVE queue'[c][j] \in Mine(c, k)'
        <5>1. Due(c, queue[c][j])'
          BY <2>9
        <5>2. queue'[c][j] > k
          <6>1. CASE j = Len(queue'[c])
            <7>1. queue[c][1] < n /\ queue[c][1] = k /\ k \in Nat
              BY <2>6, <2>15, <4>1
            <7> QED BY <2>4, <6>1, <7>1
          <6>2. CASE j # Len(queue'[c])
            <7>1. j + d \in 1..Len(queue[c]) /\ queue'[c][j] = queue[c][j + d] /\ 1 < j + d
              BY <2>8, <4>1, <6>2
            <7>2. queue[c][1] < queue[c][j + d]
              BY <1>4, <4>1, <7>1 DEF Order
            <7>3. queue[c][1] \in Nat /\ queue[c][j + d] \in Nat /\ queue[c][1] = k
              BY <2>6, <2>15, <4>1, <7>1
            <7> QED BY <7>1, <7>2, <7>3
          <6> QED BY <6>1, <6>2
        <5> QED BY <1>1, <5>1, <5>2 DEF Due, Mine
      <4> QED BY <1>3, <2>4, <2>10, <2>14, <4>1, <4>2, AsManyAs
    <3> QED BY <3>1, <3>2
  <2>16. Kept(c)'
    <3> SUFFICES ASSUME NEW k \in 1..n, Due(c, k)'
                 PROVE  Pending(c, k)' \/ Cardinality(Mine(c, k)') >= QueueMax
      BY <1>2 DEF Kept
    <3>1. CASE k = n
      <4>1. Len(queue'[c]) \in 1..Len(queue'[c])
        BY <2>4
      <4> QED BY <2>4, <3>1, <4>1 DEF Pending
    <3>2. CASE k # n
      <4>1. Due(c, k)
        BY <1>6, <3>2
      <4>2. Pending(c, k) \/ Cardinality(Mine(c, k)) >= QueueMax
        BY <1>4, <1>5, <1>9, <4>1 DEF Kept
      <4>3. CASE hand[c] # << >> /\ hand[c][1] = k
        BY <1>1, <4>3 DEF Pending
      <4>4. ASSUME NEW i \in 1..Len(queue[c]), queue[c][i] = k
            PROVE  Pending(c, k)' \/ Cardinality(Mine(c, k)') >= QueueMax
        BY <2>15, <4>4
      <4>5. CASE Cardinality(Mine(c, k)) >= QueueMax
        <5>1. Cardinality(Mine(c, k)) \in Nat
          BY MineFinite
        <5>2. Cardinality(Mine(c, k)) <= Cardinality(Mine(c, k)')
          BY <2>14, FS_Subset
        <5> QED BY <1>3, <2>14, <4>5, <5>1, <5>2
      <4> QED BY <4>2, <4>3, <4>4, <4>5 DEF Pending
    <3> QED BY <3>1, <3>2
  <2> QED BY <2>12, <2>13, <2>16 DEF Flow
<1> QED BY <1>7, <1>8, <1>9

\* Every step, for every connection.
LEMMA PastStep ==
    ASSUME Types, Past, \A c \in Conns : Order(c), [Next]_vars
    PROVE  Past'
<1>0. Len(published) \in Nat
  BY LenProperties DEF Types
<1>1. ASSUME NEW c \in Conns, Leave(c) PROVE Past'
  BY <1>0, <1>1 DEF Leave, Past, Types
<1>2. ASSUME NEW c \in Conns, Accept(c) PROVE Past'
  BY <1>0, <1>2 DEF Accept, Past, Types, flow
<1>3. ASSUME NEW c \in Conns, Forward(c) PROVE Past'
  <2>1. /\ hand[c] \in Seq(Nat) /\ hand[c] # << >> /\ published' = published /\ since' = since
        /\ last' = [last EXCEPT ![c] = Head(hand[c])]
    BY <1>3 DEF Forward, ends, Types
  <2>2. Head(hand[c]) = hand[c][1]
    BY <2>1, HeadTailProperties
  <2>3. hand[c][1] <= Len(published)
    BY <1>0, <2>1 DEF Order, Due
  <2> QED BY <2>1, <2>2, <2>3 DEF Past, Types
<1>4. ASSUME NEW u \in Users, Publish(u) PROVE Past'
  <2>1. Len(published') = Len(published) + 1 /\ since' = since /\ last' = last
    BY <1>4, AppendProperties DEF Publish, Types
  <2> QED BY <1>0, <2>1 DEF Past, Types
<1>5. ASSUME UNCHANGED <<published, since, last>> PROVE Past'
  BY <1>5 DEF Past
<1>6. ASSUME NEW c \in Conns,
             Register(c) \/ Finish(c) \/ Take(c) \/ Lapse(c) \/ CloseNext(c)
      PROVE  Past'
  BY <1>5, <1>6 DEF Register, Finish, Take, Lapse, CloseNext, ends, flow
<1>7. CASE CloseAll \/ UNCHANGED vars
  BY <1>5, <1>7 DEF CloseAll, vars, ends, flow
<1> QED
  BY <1>1, <1>2, <1>3, <1>4, <1>6, <1>7
  DEF Next, Handler, Sender, Reject, AcceptFails, Unwind

LEMMA FlowStep ==
    ASSUME Types, Past, \A c \in Conns : Flow(c), [Next]_vars, NEW q \in Conns
    PROVE  Flow(q)'
<1>0. Flow(q) /\ Quiet(q) /\ Order(q) /\ Kept(q)
  BY DEF Flow
\* What leaves q alone.
<1>1. ASSUME published' = published, queue'[q] = queue[q], hand'[q] = hand[q],
             since'[q] = since[q], last'[q] = last[q], pc'[q] \in On <=> pc[q] \in On
      PROVE  Flow(q)'
  BY <1>0, <1>1, SameConnection DEF Flow
<1>2. ASSUME NEW c \in Conns, Leave(c) PROVE Flow(q)'
  <2>1. CASE q = c
    <3>1. queue'[q] = << >> /\ hand'[q] = << >> /\ pc'[q] \notin On
      BY <1>2, <2>1, LeaveKeeps DEF On
    <3> QED BY <3>1, NoHandler DEF Flow
  <2>2. CASE q # c
    BY <1>1, <1>2, <2>2, LeaveKeeps
  <2> QED BY <2>1, <2>2
<1>3. ASSUME NEW c \in Conns, Register(c) PROVE Flow(q)'
  <2>1. pc[c] = "idle" /\ pc' = [pc EXCEPT ![c] = "accepting"] /\ UNCHANGED ends /\ UNCHANGED flow
    BY <1>3 DEF Register, Goto
  <2>2. pc'[q] \in On <=> pc[q] \in On
    BY <2>1 DEF On, Types
  <2> QED BY <1>1, <2>1, <2>2 DEF ends, flow
<1>4. ASSUME NEW c \in Conns, Finish(c) PROVE Flow(q)'
  <2>1. pc[c] = "live" /\ pc' = [pc EXCEPT ![c] = "unwinding"] /\ UNCHANGED ends /\ UNCHANGED flow
    BY <1>4 DEF Finish, Goto
  <2>2. pc'[q] \in On <=> pc[q] \in On
    BY <2>1 DEF On, Types
  <2> QED BY <1>1, <2>1, <2>2 DEF ends, flow
\* A new subscriber: nothing was published since.
<1>5. ASSUME NEW c \in Conns, Accept(c) PROVE Flow(q)'
  <2>1. /\ pc[c] = "accepting" /\ pc' = [pc EXCEPT ![c] = "live"]
        /\ since' = [since EXCEPT ![c] = Len(published)]
        /\ published' = published /\ UNCHANGED flow
    BY <1>5 DEF Accept, Goto
  <2>2. CASE q = c
    <3>1. queue'[q] = << >> /\ hand'[q] = << >> /\ pc'[q] \in On /\ since'[q] = Len(published)
      BY <1>0, <2>1, <2>2 DEF Quiet, On, flow, Types
    <3>2. ASSUME NEW k \in 1..Len(published') PROVE ~Due(q, k)'
      <4>1. Len(published) \in Nat
        BY LenProperties DEF Types
      <4> QED BY <2>1, <3>1, <3>2, <4>1 DEF Due
    <3>3. Kept(q)'
      BY <3>2 DEF Kept
    <3>4. Order(q)'
      <4>1. Len(queue'[q]) = 0 /\ QueueMax \in Nat
        BY <3>1, HubAssumption, EmptySeq
      <4> QED BY <3>1, <4>1 DEF Order
    <3>5. Quiet(q)'
      BY <3>1 DEF Quiet
    <3> QED BY <3>3, <3>4, <3>5 DEF Flow
  <2>3. CASE q # c
    <3>1. pc'[q] = pc[q] /\ since'[q] = since[q]
      BY <2>1, <2>3 DEF Types
    <3> QED BY <1>1, <2>1, <3>1 DEF flow
  <2> QED BY <2>2, <2>3
<1>6. ASSUME NEW c \in Conns, Take(c) PROVE Flow(q)'
  <2>1. CASE q = c
    BY <1>0, <1>6, <2>1, TakeKeeps
  <2>2. CASE q # c
    <3>1. queue'[q] = queue[q] /\ hand'[q] = hand[q]
      BY <1>6, <2>2 DEF Take, Types
    <3>2. pc' = pc /\ last' = last /\ published' = published /\ since' = since
      BY <1>6 DEF Take, ends
    <3> QED BY <1>1, <3>1, <3>2
  <2> QED BY <2>1, <2>2
<1>7. ASSUME NEW c \in Conns, Forward(c) PROVE Flow(q)'
  <2>1. CASE q = c
    BY <1>0, <1>7, <2>1, ForwardKeeps
  <2>2. CASE q # c
    <3>1. last'[q] = last[q] /\ hand'[q] = hand[q]
      BY <1>7, <2>2 DEF Forward, Types
    <3>2. pc' = pc /\ queue' = queue /\ published' = published /\ since' = since
      BY <1>7 DEF Forward, ends
    <3> QED BY <1>1, <3>1, <3>2
  <2> QED BY <2>1, <2>2
<1>8. ASSUME NEW c \in Conns, Lapse(c) \/ CloseNext(c) PROVE Flow(q)'
  BY <1>1, <1>8 DEF Lapse, CloseNext, ends, flow
<1>9. ASSUME NEW u \in Users, Publish(u) PROVE Flow(q)'
  <2>1. Len(published) + 1 \in Nat
    BY LenProperties DEF Types
  <2>2. PICK n \in Nat : n = Len(published) + 1
    BY <2>1
  <2> QED BY <1>0, <1>9, <2>2, PublishKeeps
<1>10. CASE CloseAll \/ UNCHANGED vars
  BY <1>1, <1>10 DEF CloseAll, vars, ends, flow
<1> QED
  BY <1>2, <1>3, <1>4, <1>5, <1>6, <1>7, <1>8, <1>9, <1>10
  DEF Next, Handler, Sender, Reject, AcceptFails, Unwind

LEMMA InitHolds == Init => IInv
<1> SUFFICES ASSUME Init PROVE IInv
  OBVIOUS
<1>1. Len(published) = 0 /\ published \in Seq(Users) /\ << >> \in Seq(Nat)
  BY EmptySeq DEF Init
<1>2. Types
  BY <1>1 DEF Init, Types, Places
<1>3. Past
  BY <1>1 DEF Init, Past
<1>4. ASSUME NEW c \in Conns PROVE Quiet(c) /\ Order(c) /\ Kept(c)
  <2>1. queue[c] = << >> /\ hand[c] = << >> /\ pc[c] = "idle"
    BY DEF Init
  <2>2. Len(queue[c]) = 0 /\ QueueMax \in Nat
    BY <2>1, HubAssumption, EmptySeq
  <2> QED BY <2>1, <2>2 DEF Quiet, Order, Kept, On
<1> QED BY <1>2, <1>3, <1>4, SlotsInit DEF IInv

LEMMA AlwaysIInv == Spec => []IInv
<1>1. ASSUME IInv, [Next]_vars PROVE IInv'
  <2>1. Types /\ Past /\ Slots /\ (\A c \in Conns : Order(c)) /\ \A c \in Conns : Flow(c)
    BY <1>1 DEF IInv, Flow
  <2>2. Types' /\ Slots' /\ Past'
    BY <1>1, <2>1, TypesStep, SlotsStep, PastStep
  <2>3. \A c \in Conns : Flow(c)'
    BY <1>1, <2>1, FlowStep
  <2> QED BY <2>2, <2>3 DEF IInv, Flow
<1> QED BY <1>1, InitHolds, PTL DEF Spec

-----------------------------------------------------------------------------
(* What follows from the invariant.                                        *)

\* What is yet to be sent, as one sequence: the hand, then the queue.
Line(c) == hand[c] \o queue[c]

LEMMA LineIsPending ==
    ASSUME Types, NEW c \in Conns, Order(c)
    PROVE  /\ Line(c) \in Seq(Nat) /\ DOMAIN Line(c) = 1..Len(Line(c)) /\ Len(Line(c)) \in Nat
           /\ \A i \in 1..Len(Line(c)) : Due(c, Line(c)[i])
           /\ \A i, j \in 1..Len(Line(c)) : i < j => Line(c)[i] < Line(c)[j]
           /\ \A k \in Nat : Pending(c, k) => \E i \in 1..Len(Line(c)) : Line(c)[i] = k
<1>1. /\ hand[c] \in Seq(Nat) /\ queue[c] \in Seq(Nat)
      /\ Len(hand[c]) \in Nat /\ Len(queue[c]) \in Nat
  BY LenProperties DEF Types
<1> DEFINE h == hand[c]  q == queue[c]  s == Line(c)
<1>a. /\ h \o q \in Seq(Nat) /\ Len(h \o q) = Len(h) + Len(q)
      /\ \A i \in 1..(Len(h) + Len(q)) : (h \o q)[i] = IF i <= Len(h) THEN h[i] ELSE q[i - Len(h)]
  BY <1>1, ConcatProperties, Zenon
<1>b. s = h \o q
  BY DEF Line
<1> HIDE DEF s
<1>2. /\ s \in Seq(Nat) /\ Len(s) = Len(hand[c]) + Len(queue[c])
      /\ \A i \in 1..Len(s) : /\ i <= Len(hand[c]) => s[i] = hand[c][i]
                              /\ ~(i <= Len(hand[c])) => s[i] = queue[c][i - Len(hand[c])]
  <2>1. s \in Seq(Nat) /\ Len(s) = Len(h) + Len(q)
    BY <1>a, <1>b, Zenon
  <2>2. \A i \in 1..(Len(h) + Len(q)) : s[i] = IF i <= Len(h) THEN h[i] ELSE q[i - Len(h)]
    BY <1>a, <1>b, Zenon
  <2> HIDE DEF h, q
  <2>3. \A i \in 1..Len(s) : /\ i <= Len(h) => s[i] = h[i]
                             /\ ~(i <= Len(h)) => s[i] = q[i - Len(h)]
    BY <2>1, <2>2, Zenon
  <2> QED BY <2>1, <2>3 DEF h, q
<1>3. DOMAIN s = 1..Len(s) /\ Len(s) \in Nat
  BY <1>2, LenProperties
<1>4. CASE hand[c] = << >>
  <2>1. Len(s) = Len(queue[c]) /\ \A i \in 1..Len(s) : s[i] = queue[c][i]
    BY <1>1, <1>2, <1>4, EmptySeq
  <2> QED BY <1>2, <1>3, <1>4, <2>1 DEF Order, Pending, s
<1>5. CASE hand[c] # << >>
  <2>1. /\ Len(hand[c]) = 1 /\ Len(s) = Len(queue[c]) + 1
        /\ s[1] = hand[c][1] /\ Due(c, hand[c][1])
    <3>1. Len(hand[c]) = 1 /\ Due(c, hand[c][1])
      BY <1>5 DEF Order
    <3>2. Len(s) = Len(queue[c]) + 1 /\ 1 \in 1..Len(s)
      BY <1>1, <1>2, <3>1
    <3>3. s[1] = hand[c][1]
      <4>1. 1 <= Len(hand[c]) BY <3>1
      <4> QED BY <1>2, <3>2, <4>1
    <3> QED BY <3>1, <3>2, <3>3
  <2>2. \A i \in 1..Len(s) : i # 1 => i - 1 \in 1..Len(queue[c]) /\ s[i] = queue[c][i - 1]
    <3> SUFFICES ASSUME NEW i \in 1..Len(s), i # 1
                 PROVE  i - 1 \in 1..Len(queue[c]) /\ s[i] = queue[c][i - 1]
      OBVIOUS
    <3>1. Len(hand[c]) = 1
      BY <1>5 DEF Order
    <3>2. i \in Nat /\ ~(i <= 1) /\ i - 1 \in 1..Len(queue[c])
      BY <1>1, <2>1
    <3> QED BY <1>2, <3>1, <3>2
  <2>3. ASSUME NEW i \in 1..Len(s) PROVE Due(c, s[i])
    BY <2>1, <2>2 DEF Order
  <2>4. ASSUME NEW i \in 1..Len(s), NEW j \in 1..Len(s), i < j PROVE s[i] < s[j]
    <3>1. i \in Nat /\ j \in Nat /\ j # 1
      BY <2>4
    <3>2. j - 1 \in 1..Len(queue[c]) /\ s[j] = queue[c][j - 1]
      BY <2>2, <3>1
    <3>3. CASE i = 1
      BY <1>5, <2>1, <3>2, <3>3 DEF Order
    <3>4. CASE i # 1
      <4>1. i - 1 \in 1..Len(queue[c]) /\ s[i] = queue[c][i - 1] /\ i - 1 < j - 1
        <5>1. i - 1 < j - 1
          BY <2>4, <3>1
        <5> QED BY <2>2, <3>4, <5>1
      <4> QED BY <3>2, <4>1 DEF Order
    <3> QED BY <3>3, <3>4
  <2>5. ASSUME NEW k \in Nat, Pending(c, k) PROVE \E i \in 1..Len(s) : s[i] = k
    <3>1. CASE hand[c][1] = k
      <4>1. 1 \in 1..Len(s) BY <1>1, <2>1
      <4> QED BY <2>1, <3>1, <4>1
    <3>2. ASSUME NEW i \in 1..Len(queue[c]), queue[c][i] = k
          PROVE  \E j \in 1..Len(s) : s[j] = k
      <4>1. i + 1 \in 1..Len(s) /\ i + 1 # 1 /\ (i + 1) - 1 = i
        BY <1>1, <2>1
      <4>2. s[i + 1] = queue[c][i]
        BY <2>2, <4>1
      <4> QED BY <3>2, <4>1, <4>2
    <3> QED BY <2>5, <3>1, <3>2 DEF Pending
  <2> QED BY <1>2, <1>3, <2>3, <2>4, <2>5 DEF s
<1> QED BY <1>4, <1>5 DEF s

\* Type correctness: what is queued or being sent is a message that was published.
THEOREM TypeCorrect == Spec => []TypeOK
<1>1. ASSUME IInv PROVE TypeOK
  <2>1. Types /\ Slots /\ \A c \in Conns : Order(c)
    BY <1>1 DEF IInv
  <2>2. gauge \in Int
    BY <2>1, FS_CardinalityType DEF Slots, SlotsAreTrue
  <2>3. published \in Seq(Users) /\ DOMAIN published = 1..Len(published)
    BY <2>1, LenProperties DEF Types
  <2>4. ASSUME NEW c \in Conns
        PROVE  /\ queue[c] \in Seq(DOMAIN published) /\ Len(queue[c]) <= QueueMax
               /\ hand[c] \in Seq(DOMAIN published) /\ Len(hand[c]) <= 1
    <3>1. queue[c] \in Seq(Nat) /\ hand[c] \in Seq(Nat) /\ Order(c)
      BY <2>1 DEF Types
    <3>2. \A i \in 1..Len(queue[c]) : queue[c][i] \in DOMAIN published
      BY <2>3, <3>1 DEF Order, Due
    <3>3. Len(queue[c]) \in Nat /\ DOMAIN queue[c] = 1..Len(queue[c])
          /\ queue[c] = [i \in 1..Len(queue[c]) |-> queue[c][i]]
      BY <3>1, LenProperties
    <3>4. queue[c] \in [1..Len(queue[c]) -> DOMAIN published]
      BY <3>2, <3>3
    <3>5. queue[c] \in Seq(DOMAIN published)
      BY <3>3, <3>4, SeqDef
    <3>6. CASE hand[c] = << >>
      BY <3>1, <3>5, <3>6, EmptySeq DEF Order
    <3>7. CASE hand[c] # << >>
      <4>1. Len(hand[c]) = 1 /\ hand[c][1] \in DOMAIN published
        BY <2>3, <3>1, <3>7 DEF Order, Due
      <4>2. /\ DOMAIN hand[c] = 1..Len(hand[c]) /\ Len(hand[c]) \in Nat
            /\ hand[c] = [i \in 1..Len(hand[c]) |-> hand[c][i]]
        BY <3>1, LenProperties
      <4>3. hand[c] \in [1..Len(hand[c]) -> DOMAIN published]
        BY <4>1, <4>2
      <4>4. hand[c] \in Seq(DOMAIN published)
        BY <4>2, <4>3, SeqDef
      <4> QED BY <3>1, <3>5, <4>1, <4>4 DEF Order
    <3> QED BY <3>6, <3>7
  <2> QED BY <2>1, <2>2, <2>3, <2>4 DEF TypeOK, Types, Slots, Places
<1> QED BY <1>1, AlwaysIInv, PTL

\* SlotsAreTrue: no phantom slot, a true gauge, and never more than
\* MaxConnections, whatever close_all and the handlers' clean-ups do.
THEOREM SlotsStayTrue == Spec => []SlotsAreTrue
<1>1. IInv => SlotsAreTrue
  BY DEF IInv, Slots
<1> QED BY <1>1, AlwaysIInv, PTL

\* InOrder: a subscriber is sent its user's messages in order, none twice.
THEOREM DeliveredInOrder == Spec => []InOrder
<1>1. ASSUME IInv PROVE InOrder
  <2> SUFFICES ASSUME NEW c \in Conns
               PROVE  LET s == hand[c] \o queue[c]
                      IN  /\ \A i, j \in DOMAIN s : i < j => s[i] < s[j]
                          /\ \A i \in DOMAIN s : /\ s[i] > last[c] /\ s[i] > since[c]
                                                 /\ published[s[i]] = UserOf[c]
    BY DEF InOrder
  <2> DEFINE s == Line(c)
  <2>1. s = hand[c] \o queue[c]
    BY DEF Line
  <2>2. Types /\ Order(c)
    BY <1>1 DEF IInv
  <2>3. /\ DOMAIN s = 1..Len(s) /\ \A i \in 1..Len(s) : Due(c, s[i])
        /\ \A i, j \in 1..Len(s) : i < j => s[i] < s[j]
    BY <2>2, LineIsPending
  <2> HIDE DEF s
  <2>4. \A i \in DOMAIN s : s[i] > last[c] /\ s[i] > since[c] /\ published[s[i]] = UserOf[c]
    BY <2>3 DEF Due
  <2> QED BY <2>1, <2>3, <2>4
<1> QED BY <1>1, AlwaysIInv, PTL

\* LossOnlyWhenFull: a message a subscriber has not been sent is waiting for
\* it, or QueueMax newer ones have pushed it out.
THEOREM LossNeedsFullQueue == Spec => []LossOnlyWhenFull
<1>1. ASSUME IInv PROVE LossOnlyWhenFull
  <2>1. Types /\ \A c \in Conns : Order(c) /\ Kept(c)
    BY <1>1 DEF IInv
  <2>2. DOMAIN published = 1..Len(published)
    BY <2>1, LenProperties DEF Types
  <2>3. ASSUME NEW c \in Conns, c \in Subscribed,
               NEW k \in Mine(c, since[c]) \cap Mine(c, last[c])
        PROVE  \/ \E i \in DOMAIN (hand[c] \o queue[c]) : (hand[c] \o queue[c])[i] = k
               \/ Cardinality(Mine(c, k)) >= QueueMax
    <3>1. pc[c] \in On /\ Order(c) /\ Kept(c)
      BY <2>1, <2>3 DEF Subscribed, On
    <3>2. k \in 1..Len(published) /\ Due(c, k)
      BY DEF Mine, Due
    <3>3. Pending(c, k) \/ Cardinality(Mine(c, k)) >= QueueMax
      BY <3>1, <3>2 DEF Kept
    <3> DEFINE s == Line(c)
    <3>4. s = hand[c] \o queue[c]
      BY DEF Line
    <3>5. k \in Nat
      <4>1. Len(published) \in Nat
        BY <2>1, LenProperties DEF Types
      <4> QED BY <3>2, <4>1
    <3>6. DOMAIN s = 1..Len(s) /\ (Pending(c, k) => \E i \in 1..Len(s) : s[i] = k)
      BY <2>1, <3>1, <3>5, LineIsPending
    <3> HIDE DEF s
    <3> QED BY <3>3, <3>4, <3>5, <3>6
  <2> QED BY <2>2, <2>3 DEF LossOnlyWhenFull, Mine, Subscribed
<1> QED BY <1>1, AlwaysIInv, PTL
=============================================================================
