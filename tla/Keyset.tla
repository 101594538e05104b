------------------------------- MODULE Keyset -------------------------------
(***************************************************************************)
(* A client walks a player's history page by page (api/pagination.py; GET  *)
(* /wallet/transactions and list_by_wallet, GET /roulette/rounds and       *)
(* list_by_user) while transactions go on adding to it.                    *)
(*                                                                         *)
(* Rows are ordered by created_at and id, newest first.  created_at is     *)
(* now(), the START of the transaction, so it is shared by the rows of one *)
(* and its order is not the order of the commits; id is a random uuid.     *)
(* A page is a set here: its inner order is that of ORDER BY.              *)
(***************************************************************************)
EXTENDS Integers, FiniteSets, Sequences

CONSTANTS Txns,     \* transactions of the player
          RowsOf,   \* RowsOf[t]: the rows t inserts
          Limits,   \* what a client may ask for as limit
          NoCursor,
          LastTick  \* bound on the clock

Rows == UNION {RowsOf[t] : t \in Txns}

ASSUME KeysetAssumption ==
    /\ \A t, u \in Txns : t # u => RowsOf[t] \cap RowsOf[u] = {}
    /\ Limits \subseteq Nat \ {0}    \* Query(ge=1, le=100)
    /\ NoCursor \notin Rows
    /\ LastTick \in Nat

VARIABLES clock,      \* the database's
          pc,         \* of each transaction
          createdAt,  \* created_at of each row, once its transaction began
          id,         \* its uuid, as a number
          table,      \* the rows that are committed
          pages,      \* what the client has got
          cursor,     \* next_cursor of its last page
          walk,       \* of the client
          behind      \* history: rows committed where the walk had passed

writers == <<clock, pc, createdAt, id, table>>
reader  == <<pages, cursor, walk>>
vars    == <<clock, pc, createdAt, id, table, pages, cursor, walk, behind>>

TypeOK == /\ clock \in 0..LastTick
          /\ pc \in [Txns -> {"idle", "open", "committed", "rolled back"}]
          /\ createdAt \in [Rows -> 0..LastTick]
          /\ id \in [Rows -> Nat]
          /\ table \subseteq Rows
          /\ pages \in Seq(SUBSET Rows)
          /\ cursor \in Rows \cup {NoCursor}
          /\ walk \in {"going", "over"}
          /\ behind \subseteq table

\* gen_random_uuid() never collides.
Init == /\ clock = 0
        /\ pc = [t \in Txns |-> "idle"]
        /\ createdAt = [x \in Rows |-> 0]
        /\ id \in [Rows -> 1..Cardinality(Rows)]
        /\ \A x, y \in Rows : id[x] = id[y] => x = y
        /\ table = {}
        /\ pages = << >> /\ cursor = NoCursor /\ walk = "going"
        /\ behind = {}

\* ORDER BY created_at DESC, id DESC.
Newer(x, y) == \/ createdAt[x] > createdAt[y]
               \/ createdAt[x] = createdAt[y] /\ id[x] > id[y]

-----------------------------------------------------------------------------
(* The transactions that write the history.                                *)

Tick == /\ clock < LastTick
        /\ clock' = clock + 1
        /\ UNCHANGED <<pc, createdAt, id, table, behind>> /\ UNCHANGED reader

Begin_ClientClock(t) ==
    /\ pc[t] = "idle"
    /\ pc' = [pc EXCEPT ![t] = "open"]
    /\ createdAt' = [x \in Rows |-> IF x \in RowsOf[t] THEN clock + 1 ELSE createdAt[x]]
    /\ UNCHANGED <<clock, id, table, behind>> /\ UNCHANGED reader

\* Its first statement, which may then wait for the wallet's row.
Begin(t) ==
    /\ pc[t] = "idle"
    /\ pc' = [pc EXCEPT ![t] = "open"]
    /\ createdAt' = [x \in Rows |-> IF x \in RowsOf[t] THEN clock ELSE createdAt[x]]
    /\ UNCHANGED <<clock, id, table, behind>> /\ UNCHANGED reader

\* Rows that the walk can no longer come across.
Passed(S) == IF walk = "over" THEN S
             ELSE IF cursor = NoCursor THEN {}
             ELSE {x \in S : ~Newer(cursor, x)}

Commit(t) ==
    /\ pc[t] = "open"
    /\ pc' = [pc EXCEPT ![t] = "committed"]
    /\ table' = table \cup RowsOf[t]
    /\ behind' = behind \cup Passed(RowsOf[t])
    /\ UNCHANGED <<clock, createdAt, id>> /\ UNCHANGED reader

RollBack(t) ==
    /\ pc[t] = "open"
    /\ pc' = [pc EXCEPT ![t] = "rolled back"]
    /\ UNCHANGED <<clock, createdAt, id, table, behind>> /\ UNCHANGED reader

-----------------------------------------------------------------------------
(* The walk.                                                               *)

AfterCursor_TimeOnly(x) == cursor = NoCursor \/ createdAt[x] < createdAt[cursor]

\* The WHERE of a page: the first one has none.
AfterCursor(x) ==
    \/ cursor = NoCursor
    \/ createdAt[x] < createdAt[cursor]
    \/ createdAt[x] = createdAt[cursor] /\ id[x] < id[cursor]

\* ORDER BY ... LIMIT n, over S.
IsPage(P, S, n) == /\ P \subseteq S /\ Cardinality(P) <= n
                   /\ P = S \/ Cardinality(P) = n
                   /\ \A x \in P, y \in S \ P : Newer(x, y)

Page_Offset(P, n) ==
    LET got == Cardinality(UNION {pages[i] : i \in DOMAIN pages})
    IN  \E Q \in SUBSET table : IsPage(Q, table, got) /\ IsPage(P, table \ Q, n)

\* One request, one SELECT: what is committed by then.
Page(P, n) == IsPage(P, {x \in table : AfterCursor(x)}, n)

\* next_cursor: the last row of the page, only when the page is full.
IsCursor(c, P, n) ==
    IF Cardinality(P) = n THEN c \in P /\ \A y \in P : y = c \/ Newer(y, c)
                          ELSE c = NoCursor

\* The client asks for as many as it likes, and goes on while it is given a
\* cursor.
Fetch ==
    /\ walk = "going"
    /\ \E n \in Limits, P \in SUBSET table, c \in table \cup {NoCursor} :
          /\ Page(P, n) /\ IsCursor(c, P, n)
          /\ pages' = Append(pages, P)
          /\ cursor' = c
          /\ walk' = IF c = NoCursor THEN "over" ELSE "going"
    /\ UNCHANGED writers /\ UNCHANGED behind

-----------------------------------------------------------------------------
Next == \/ Tick \/ Fetch
        \/ \E t \in Txns : Begin(t) \/ Commit(t) \/ RollBack(t)

Spec == Init /\ [][Next]_vars

-----------------------------------------------------------------------------
(* Properties.                                                             *)

Got == UNION {pages[i] : i \in DOMAIN pages}

\* No "page drift": a page is older than every page before it, so the walk
\* goes one way and shows nothing twice, whatever is committed between two of
\* its requests (pagination.py).
PagesDescend ==
    \A i, j \in DOMAIN pages : i < j =>
        \A x \in pages[i], y \in pages[j] : Newer(x, y)

\* "Each page starts from the last item seen": at the end the client has been
\* shown every committed row that did not land behind it, including rows that
\* share their created_at across a page boundary, and only committed ones.
NothingMissed ==
    /\ Got \subseteq table
    /\ walk = "over" => table = Got \cup behind
=============================================================================
