------------------------------- MODULE WsHub -------------------------------
(***************************************************************************)
(* Live notifications: the slots of ws/connections.py, the queues of       *)
(* ws/broadcaster.py, the handler of api/v1/ws.py with its sender and      *)
(* receiver tasks, and close_all at shutdown.  One event loop: a step is   *)
(* what runs between two awaits.                                           *)
(***************************************************************************)
EXTENDS Integers, Sequences, FiniteSets

CONSTANTS Conns,           \* WebSocket connections
          UserOf,          \* UserOf[c]: who c authenticates as
          MaxConnections,  \* WS_MAX_CONNECTIONS
          QueueMax,        \* QUEUE_MAXSIZE
          MaxPublished     \* bound: messages published in a behaviour

Users == {UserOf[c] : c \in Conns}

ASSUME HubAssumption ==
    MaxConnections \in Nat /\ QueueMax \in Nat \ {0} /\ MaxPublished \in Nat

VARIABLES slots,      \* ConnectionRegistry._connections
          gauge,      \* ws_connections_active
          pc,         \* the handler of each connection
          client,     \* what its client does
          published,  \* history: the user of each message, in order
          since,      \* since[c]: messages published before c subscribed
          queue,      \* queue[c]: positions in published
          hand,       \* hand[c]: what the sender is sending
          last,       \* last[c]: the last message its client has been sent
          toClose,    \* what close_all has left to close
          kicked,     \* running handlers whose connection it has closed
          stopping    \* close_all has been called

ends == <<client, published, since>>
flow == <<queue, hand, last>>
stop == <<toClose, kicked, stopping>>
vars == <<slots, gauge, pc, client, published, since, queue, hand, last,
          toClose, kicked, stopping>>

Subscribed == {c \in Conns : pc[c] \in {"live", "unwinding"}}

TypeOK == /\ slots \subseteq Conns
          /\ gauge \in Int
          /\ pc \in [Conns -> {"idle", "accepting", "live", "unwinding", "closed"}]
          /\ client \in [Conns -> {"here", "asleep", "gone"}]
          /\ published \in Seq(Users)
          /\ since \in [Conns -> Nat] /\ last \in [Conns -> Nat]
          /\ \A c \in Conns : /\ queue[c] \in Seq(DOMAIN published)
                              /\ Len(queue[c]) <= QueueMax
                              /\ hand[c] \in Seq(DOMAIN published) /\ Len(hand[c]) <= 1
          /\ toClose \subseteq Conns /\ kicked \subseteq Conns /\ stopping \in BOOLEAN

Init == /\ slots = {} /\ gauge = 0
        /\ pc = [c \in Conns |-> "idle"]
        /\ client = [c \in Conns |-> "here"]
        /\ published = << >>
        /\ since = [c \in Conns |-> 0]
        /\ queue = [c \in Conns |-> << >>]
        /\ hand = [c \in Conns |-> << >>]
        /\ last = [c \in Conns |-> 0]
        /\ toClose = {} /\ kicked = {} /\ stopping = FALSE

Goto(c, l) == pc' = [pc EXCEPT ![c] = l]

-----------------------------------------------------------------------------
(* ws_endpoint.                                                            *)

\* The handler is over: its queue is discarded.
Leave(c) ==
    /\ Goto(c, "closed")
    /\ queue' = [queue EXCEPT ![c] = << >>]
    /\ hand' = [hand EXCEPT ![c] = << >>]
    /\ last' = [last EXCEPT ![c] = 0]
    /\ since' = [since EXCEPT ![c] = 0]
    /\ client' = [client EXCEPT ![c] = "gone"]
    /\ kicked' = kicked \ {c}
    /\ UNCHANGED <<published, toClose, stopping>>

\* Turned away: too many attempts, a bad token, or no slot left.
Reject(c) ==
    /\ pc[c] = "idle"
    /\ Leave(c)
    /\ UNCHANGED <<slots, gauge>>

\* try_register, just after _authenticate.
Register(c) ==
    /\ pc[c] = "idle"
    /\ Cardinality(slots) < MaxConnections
    /\ slots' = slots \cup {c}
    /\ gauge' = gauge + 1
    /\ Goto(c, "accepting")
    /\ UNCHANGED ends /\ UNCHANGED flow /\ UNCHANGED stop

\* The handshake is over: subscribe, start the sender and the receiver.
Accept(c) ==
    /\ pc[c] = "accepting"
    /\ Goto(c, "live")
    /\ since' = [since EXCEPT ![c] = Len(published)]
    /\ UNCHANGED <<slots, gauge, client, published>> /\ UNCHANGED flow /\ UNCHANGED stop

\* unregister: nothing to give back when close_all has taken the slot.
Unregister(c) ==
    /\ slots' = slots \ {c}
    /\ gauge' = IF c \in slots THEN gauge - 1 ELSE gauge

\* accept() raises: the finally clause gives the slot back.
AcceptFails(c) ==
    /\ pc[c] = "accepting"
    /\ Unregister(c)
    /\ Leave(c)

\* _sender: queue.get() returns ...
Take(c) ==
    /\ pc[c] = "live"
    /\ hand[c] = << >> /\ queue[c] # << >>
    /\ hand' = [hand EXCEPT ![c] = <<Head(queue[c])>>]
    /\ queue' = [queue EXCEPT ![c] = Tail(@)]
    /\ UNCHANGED <<slots, gauge, pc, last>> /\ UNCHANGED ends /\ UNCHANGED stop

\* ... and send_json, which a client that is asleep may hold up for ever.
Forward(c) ==
    /\ pc[c] = "live"
    /\ hand[c] # << >>
    /\ client[c] # "gone"
    /\ last' = [last EXCEPT ![c] = Head(hand[c])]
    /\ hand' = [hand EXCEPT ![c] = << >>]
    /\ UNCHANGED <<slots, gauge, pc, queue>> /\ UNCHANGED ends /\ UNCHANGED stop

Finish_NoTimeout(c) ==
    /\ pc[c] = "live"
    /\ client[c] = "gone" \/ c \in kicked
    /\ Goto(c, "unwinding")
    /\ UNCHANGED <<slots, gauge>> /\ UNCHANGED ends /\ UNCHANGED flow /\ UNCHANGED stop

\* FIRST_COMPLETED: the client or close_all has closed the connection, or no
\* frame came within timeout_s.  Both tasks are cancelled, then awaited.
Finish(c) ==
    /\ pc[c] = "live"
    /\ client[c] # "here" \/ c \in kicked
    /\ Goto(c, "unwinding")
    /\ UNCHANGED <<slots, gauge>> /\ UNCHANGED ends /\ UNCHANGED flow /\ UNCHANGED stop

Unwind_Unconditional(c) ==
    /\ pc[c] = "unwinding"
    /\ slots' = slots \ {c}
    /\ gauge' = gauge - 1
    /\ Leave(c)

\* Both finally clauses: unsubscribe, unregister.
Unwind(c) ==
    /\ pc[c] = "unwinding"
    /\ Unregister(c)
    /\ Leave(c)

-----------------------------------------------------------------------------
(* The endpoints, after run_idempotent has returned a response or replayed *)
(* one: both are published.                                                *)

Room_Unbounded(q, n) == Append(q, n)

Room_DropNewest(q, n) == IF Len(q) = QueueMax THEN q ELSE Append(q, n)

Room_InPlace(q, n) == IF Len(q) = QueueMax THEN [q EXCEPT ![1] = n] ELSE Append(q, n)

\* A full queue gives up its oldest message.
Room(q, n) == Append(IF Len(q) = QueueMax THEN Tail(q) ELSE q, n)

\* publish has no await: every queue of the user gets the message at once.
Enqueued(u, n) ==
    [c \in Conns |-> IF c \in Subscribed /\ UserOf[c] = u THEN Room(queue[c], n) ELSE queue[c]]

\* The end of create_round and of deposit.
Publish(u) ==
    /\ Len(published) < MaxPublished
    /\ published' = Append(published, u)
    /\ queue' = Enqueued(u, Len(published) + 1)
    /\ UNCHANGED <<slots, gauge, pc, client, since, hand, last>> /\ UNCHANGED stop

-----------------------------------------------------------------------------
(* Clients and the end of the process.                                     *)

\* A phone falls asleep, a tab is closed.
Lapse(c) ==
    /\ \/ client[c] = "here"   /\ client' = [client EXCEPT ![c] = "asleep"]
       \/ client[c] # "gone"   /\ client' = [client EXCEPT ![c] = "gone"]
    /\ pc[c] \in {"accepting", "live"}
    /\ UNCHANGED <<slots, gauge, pc, published, since>> /\ UNCHANGED flow /\ UNCHANGED stop

\* close_all takes all the slots, then closes one connection at a time.
CloseAll ==
    /\ ~stopping /\ stopping' = TRUE
    /\ toClose' = slots
    /\ slots' = {}
    /\ gauge' = gauge - Cardinality(slots)
    /\ UNCHANGED <<pc, kicked>> /\ UNCHANGED ends /\ UNCHANGED flow

\* close() may raise: the exception is suppressed, the loop goes on.
CloseNext(c) ==
    /\ c \in toClose
    /\ kicked' = kicked \cup ({c} \cap {k \in Conns : pc[k] # "closed"})
    /\ toClose' = toClose \ {c}
    /\ UNCHANGED <<slots, gauge, pc, stopping>> /\ UNCHANGED ends /\ UNCHANGED flow

-----------------------------------------------------------------------------
Handler(c) == \/ Accept(c) \/ AcceptFails(c) \/ Finish(c) \/ Unwind(c)
Sender(c)  == Take(c) \/ Forward(c)

Next == \/ \E c \in Conns : \/ Reject(c) \/ Register(c) \/ Handler(c) \/ Sender(c)
                            \/ Lapse(c)  \/ CloseNext(c)
        \/ \E u \in Users : Publish(u)
        \/ CloseAll

Spec == Init /\ [][Next]_vars

\* The tasks of a connection are scheduled, and a send to a client that is
\* there gets through; close_all does not stop half-way.
FairSpec == /\ Spec
            /\ \A c \in Conns : /\ WF_vars(Handler(c))
                                /\ WF_vars(Take(c))
                                /\ WF_vars(client[c] = "here" /\ Forward(c))
                                /\ WF_vars(CloseNext(c))

-----------------------------------------------------------------------------
(* Properties.                                                             *)

\* "otherwise, every failed handshake would leave a phantom hole in
\* WS_MAX_CONNECTIONS forever": a taken slot is that of a running handler, and
\* ws_connections_active counts the slots taken, however the clean-up of the
\* handlers interleaves with close_all.
SlotsAreTrue ==
    /\ Cardinality(slots) <= MaxConnections
    /\ \A c \in slots : pc[c] \in {"accepting", "live", "unwinding"}
    /\ gauge = Cardinality(slots)

\* A client is sent the messages of its own user, those published since it
\* subscribed, in the order of their publication, none of them twice.
InOrder ==
    \A c \in Conns :
        LET s == hand[c] \o queue[c]
        IN  /\ \A i, j \in DOMAIN s : i < j => s[i] < s[j]
            /\ \A i \in DOMAIN s : /\ s[i] > last[c] /\ s[i] > since[c]
                                   /\ published[s[i]] = UserOf[c]

\* "Slow client: drop the oldest message": a message a subscriber is still to
\* get, unless at least QueueMax newer ones have pushed it out.
LossOnlyWhenFull ==
    \A c \in Subscribed :
        LET mine(n) == {k \in DOMAIN published : k > n /\ published[k] = UserOf[c]}
            s == hand[c] \o queue[c]
        IN  \A k \in mine(since[c]) \cap mine(last[c]) :
                (\E i \in DOMAIN s : s[i] = k) \/ Cardinality(mine(k)) >= QueueMax

\* A handler whose client has gone, with or without a word ("a zombie
\* connection is assumed"), or that close_all is to reach, ends and gives its
\* slot back, whatever the closes of the others do.
DoomedHandlersEnd ==
    \A c \in Conns : (pc[c] = "live" /\ (client[c] # "here" \/ c \in toClose))
                         ~> (pc[c] = "closed" /\ c \notin slots)
=============================================================================
