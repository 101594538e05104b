---------------------------- MODULE KeysetProofs ----------------------------
(***************************************************************************)
(* What a walk over the pages shows, for any transactions, rows, limits    *)
(* and clock.  The argument: the keys of the committed rows never change   *)
(* (TableIsCommitted), so the pages and the cursor stand in a fixed order  *)
(* (CursorIsLowest); and a committed row that the walk has not shown is    *)
(* still ahead of it, unless it was committed behind it (RestIsAhead).     *)
(***************************************************************************)
EXTENDS Keyset, SequenceTheorems, TLAPS

TableIsCommitted ==
    /\ \A x \in table : \E t \in Txns : x \in RowsOf[t] /\ pc[t] = "committed"
    /\ \A i \in DOMAIN pages : pages[i] \subseteq table
    /\ cursor \in table \cup {NoCursor}

CursorIsLowest ==
    /\ (walk = "going" /\ cursor = NoCursor) => pages = << >>
    /\ cursor # NoCursor =>
          \A i \in DOMAIN pages : \A x \in pages[i] : x = cursor \/ Newer(x, cursor)

RestIsAhead ==
    \A x \in table : \/ x \in behind
                     \/ \E i \in DOMAIN pages : x \in pages[i]
                     \/ walk = "going" /\ AfterCursor(x)

IInv == TypeOK /\ TableIsCommitted /\ CursorIsLowest /\ PagesDescend /\ RestIsAhead

-----------------------------------------------------------------------------
(* The order of the rows.                                                  *)

LEMMA KeysAreNumbers ==
    ASSUME TypeOK, NEW x \in Rows
    PROVE  createdAt[x] \in Int /\ id[x] \in Int
<1>1. createdAt \in [Rows -> 0..LastTick] /\ id \in [Rows -> Nat]
  BY DEF TypeOK
<1>2. createdAt[x] \in 0..LastTick /\ id[x] \in Nat
  BY <1>1
<1> QED BY <1>2

LEMMA NewerIsTransitive ==
    ASSUME TypeOK, NEW x \in Rows, NEW y \in Rows, NEW z \in Rows,
           Newer(x, y), Newer(y, z)
    PROVE  Newer(x, z)
<1>1. /\ createdAt[x] \in Int /\ createdAt[y] \in Int /\ createdAt[z] \in Int
      /\ id[x] \in Int /\ id[y] \in Int /\ id[z] \in Int
  BY KeysAreNumbers
<1> QED BY <1>1 DEF Newer

\* The WHERE of a page says "older than the cursor".
LEMMA AfterIsOlder ==
    ASSUME TypeOK, NEW x \in Rows, cursor \in Rows \cup {NoCursor}
    PROVE  AfterCursor(x) <=> cursor = NoCursor \/ Newer(cursor, x)
<1>1. CASE cursor = NoCursor BY <1>1 DEF AfterCursor
<1>2. CASE cursor \in Rows
  <2>1. /\ createdAt[x] \in Int /\ createdAt[cursor] \in Int
        /\ id[x] \in Int /\ id[cursor] \in Int
    BY <1>2, KeysAreNumbers
  <2> QED BY <2>1 DEF AfterCursor, Newer
<1> QED BY <1>1, <1>2

LEMMA InitHolds == Init => IInv
<1> SUFFICES ASSUME Init PROVE IInv
  OBVIOUS
<1>1. TypeOK
  <2>1. id \in [Rows -> Nat]
    <3>1. id \in [Rows -> 1..Cardinality(Rows)]
      BY DEF Init
    <3>2. 1..Cardinality(Rows) \subseteq Nat
      OBVIOUS
    <3> QED BY <3>1, <3>2
  <2> QED BY <2>1, KeysetAssumption DEF Init, TypeOK
<1> QED BY <1>1 DEF Init, IInv, TableIsCommitted, CursorIsLowest, PagesDescend, RestIsAhead

-----------------------------------------------------------------------------
(* Steps that leave the committed rows, their keys and the walk alone.     *)

LEMMA SameView ==
    ASSUME IInv, TypeOK', UNCHANGED <<table, pages, cursor, walk, behind, id>>,
           \A x \in table : createdAt'[x] = createdAt[x],
           \A t \in Txns : pc[t] = "committed" => pc'[t] = "committed"
    PROVE  IInv'
<1>1. \A x, y \in table : Newer(x, y)' <=> Newer(x, y)
  BY DEF Newer
<1>2. TableIsCommitted'
  BY DEF IInv, TableIsCommitted
<1>3. \A x \in table : AfterCursor(x)' <=> AfterCursor(x)
  BY DEF IInv, TableIsCommitted, AfterCursor
<1>4. CursorIsLowest'
  <2> SUFFICES ASSUME cursor # NoCursor, NEW i \in DOMAIN pages, NEW x \in pages[i]
               PROVE  x = cursor \/ Newer(x, cursor)'
    BY DEF IInv, CursorIsLowest
  <2>1. x \in table /\ cursor \in table
    BY DEF IInv, TableIsCommitted
  <2> QED BY <2>1, <1>1 DEF IInv, CursorIsLowest
<1>5. PagesDescend'
  <2> SUFFICES ASSUME NEW i \in DOMAIN pages, NEW j \in DOMAIN pages, i < j,
                      NEW x \in pages[i], NEW y \in pages[j]
               PROVE  Newer(x, y)'
    BY DEF PagesDescend
  <2>1. x \in table /\ y \in table
    BY DEF IInv, TableIsCommitted
  <2> QED BY <2>1, <1>1 DEF IInv, PagesDescend
<1>6. RestIsAhead'
  BY <1>3 DEF IInv, RestIsAhead
<1> QED BY <1>2, <1>4, <1>5, <1>6 DEF IInv

LEMMA TickKeeps == IInv /\ Tick => IInv'
<1> SUFFICES ASSUME IInv, Tick PROVE IInv'
  OBVIOUS
<1>1. TypeOK'
  <2>1. clock \in 0..LastTick /\ LastTick \in Nat /\ clock < LastTick
    BY KeysetAssumption DEF IInv, TypeOK, Tick
  <2>2. clock + 1 \in 0..LastTick
    BY <2>1
  <2> QED BY <2>2 DEF IInv, TypeOK, Tick, reader
<1> QED BY <1>1, SameView DEF Tick, reader

LEMMA BeginKeeps == ASSUME IInv, NEW t \in Txns, Begin(t) PROVE IInv'
<1>1. TypeOK'
  <2>1. pc' \in [Txns -> {"idle", "open", "committed", "rolled back"}]
    BY DEF IInv, TypeOK, Begin
  <2>2. createdAt' \in [Rows -> 0..LastTick]
    BY DEF IInv, TypeOK, Begin
  <2> QED BY <2>1, <2>2 DEF IInv, TypeOK, Begin, reader
<1>2. \A x \in table : createdAt'[x] = createdAt[x]
  <2> SUFFICES ASSUME NEW x \in table PROVE createdAt'[x] = createdAt[x]
    OBVIOUS
  <2>1. PICK u \in Txns : x \in RowsOf[u] /\ pc[u] = "committed"
    BY DEF IInv, TableIsCommitted
  <2>2. u # t
    BY <2>1 DEF Begin
  <2>3. x \notin RowsOf[t] /\ x \in Rows
    BY <2>1, <2>2, KeysetAssumption DEF IInv, TypeOK
  <2> QED BY <2>3 DEF Begin
<1>3. \A u \in Txns : pc[u] = "committed" => pc'[u] = "committed"
  BY DEF Begin, IInv, TypeOK
<1> QED BY <1>1, <1>2, <1>3, SameView DEF Begin, reader

LEMMA RollBackKeeps == ASSUME IInv, NEW t \in Txns, RollBack(t) PROVE IInv'
<1>1. TypeOK'
  BY DEF IInv, TypeOK, RollBack, reader
<1>2. \A u \in Txns : pc[u] = "committed" => pc'[u] = "committed"
  BY DEF RollBack, IInv, TypeOK
<1> QED BY <1>1, <1>2, SameView DEF RollBack, reader

-----------------------------------------------------------------------------
(* A COMMIT adds rows, ahead of the walk or behind it.                     *)

LEMMA CommitKeeps == ASSUME IInv, NEW t \in Txns, Commit(t) PROVE IInv'
<1>1. RowsOf[t] \subseteq Rows
  BY DEF Rows
<1>2. TypeOK'
  <2>1. Passed(RowsOf[t]) \subseteq RowsOf[t]
    BY DEF Passed
  <2> QED BY <1>1, <2>1 DEF IInv, TypeOK, Commit, reader
<1>3. TableIsCommitted'
  <2>1. \A x \in table' : \E u \in Txns : x \in RowsOf[u] /\ pc'[u] = "committed"
    BY DEF IInv, TableIsCommitted, TypeOK, Commit
  <2> QED BY <2>1 DEF IInv, TableIsCommitted, Commit, reader
<1>4. CursorIsLowest' /\ PagesDescend'
  BY DEF IInv, CursorIsLowest, PagesDescend, Newer, Commit, reader
<1>5. RestIsAhead'
  <2> SUFFICES ASSUME NEW x \in table'
               PROVE  \/ x \in behind'
                      \/ \E i \in DOMAIN pages : x \in pages[i]
                      \/ walk = "going" /\ AfterCursor(x)
    BY DEF RestIsAhead, AfterCursor, Commit, reader
  <2>1. CASE x \in table
    BY <2>1 DEF IInv, RestIsAhead, Commit
  <2>2. CASE x \in RowsOf[t]
    <3>1. AfterCursor(x) <=> cursor = NoCursor \/ Newer(cursor, x)
      BY <2>2, <1>1, AfterIsOlder DEF IInv, TypeOK
    <3>2. walk \in {"going", "over"}
      BY DEF IInv, TypeOK
    <3> QED BY <2>2, <3>1, <3>2 DEF Commit, Passed
  <2> QED BY <2>1, <2>2 DEF Commit
<1> QED BY <1>2, <1>3, <1>4, <1>5 DEF IInv

-----------------------------------------------------------------------------
(* A page.                                                                 *)

LEMMA FetchKeeps ==
    ASSUME IInv, NEW n \in Limits, NEW P \in SUBSET table, NEW c \in table \cup {NoCursor},
           Page(P, n), IsCursor(c, P, n),
           pages' = Append(pages, P), cursor' = c,
           walk = "going", walk' = IF c = NoCursor THEN "over" ELSE "going",
           UNCHANGED writers, UNCHANGED behind
    PROVE  IInv'
<1> DEFINE k == Len(pages) + 1
<1>1. table \subseteq Rows /\ cursor \in Rows \cup {NoCursor} /\ NoCursor \notin Rows
  BY KeysetAssumption DEF IInv, TypeOK
<1>2. /\ pages \in Seq(SUBSET Rows) /\ Len(pages) \in Nat
      /\ pages' \in Seq(SUBSET Rows) /\ DOMAIN pages = 1..Len(pages)
      /\ DOMAIN pages' = DOMAIN pages \cup {k} /\ k \notin DOMAIN pages
      /\ pages'[k] = P /\ \A i \in DOMAIN pages : pages'[i] = pages[i]
      /\ \A i \in DOMAIN pages : i < k
  <2>1. pages \in Seq(SUBSET Rows) /\ P \in SUBSET Rows
    BY <1>1 DEF IInv, TypeOK
  <2>2. /\ pages' \in Seq(SUBSET Rows) /\ Len(pages') = k
        /\ \A i \in 1..Len(pages) : pages'[i] = pages[i]
        /\ pages'[k] = P
    BY <2>1, AppendProperties
  <2>3. /\ Len(pages) \in Nat /\ DOMAIN pages = 1..Len(pages)
        /\ DOMAIN pages' = 1..k
    BY <2>1, <2>2, LenProperties
  <2> QED BY <2>1, <2>2, <2>3
<1>3. TypeOK'
  BY <1>1, <1>2 DEF IInv, TypeOK, writers
<1>4. TableIsCommitted'
  BY <1>2 DEF IInv, TableIsCommitted, writers
<1>5. \A x, y \in Rows : Newer(x, y)' <=> Newer(x, y)
  BY DEF Newer, writers
<1>6. \A y \in P : y \in table /\ (cursor = NoCursor \/ Newer(cursor, y))
  <2> SUFFICES ASSUME NEW y \in P
               PROVE  y \in table /\ (cursor = NoCursor \/ Newer(cursor, y))
    OBVIOUS
  <2>1. y \in table /\ AfterCursor(y)
    BY DEF Page, IsPage
  <2> QED BY <2>1, <1>1, AfterIsOlder DEF IInv
<1>7. \A i \in DOMAIN pages : \A x \in pages[i], y \in P : x \in Rows /\ Newer(x, y)
  <2> SUFFICES ASSUME NEW i \in DOMAIN pages, NEW x \in pages[i], NEW y \in P
               PROVE  x \in Rows /\ Newer(x, y)
    OBVIOUS
  <2>1. x \in Rows
    BY <1>1 DEF IInv, TableIsCommitted
  <2>2. cursor \in Rows /\ y \in Rows /\ Newer(cursor, y)
    BY <1>1, <1>2, <1>6 DEF IInv, CursorIsLowest
  <2>3. x = cursor \/ Newer(x, cursor)
    BY <2>2, <1>1 DEF IInv, CursorIsLowest
  <2> QED BY <2>1, <2>2, <2>3, NewerIsTransitive DEF IInv
<1>8. PagesDescend'
  <2> SUFFICES ASSUME NEW i \in DOMAIN pages', NEW j \in DOMAIN pages', i < j,
                      NEW x \in pages'[i], NEW y \in pages'[j]
               PROVE  Newer(x, y)'
    BY DEF PagesDescend
  <2>1. i \in DOMAIN pages /\ x \in pages[i] /\ x \in table
    BY <1>2 DEF IInv, TableIsCommitted
  <2>2. CASE j = k
    BY <2>1, <2>2, <1>1, <1>2, <1>5, <1>7
  <2>3. CASE j \in DOMAIN pages
    <3>1. y \in pages[j] /\ y \in table
      BY <2>3, <1>2 DEF IInv, TableIsCommitted
    <3> QED BY <2>1, <2>3, <3>1, <1>1, <1>5 DEF IInv, PagesDescend
  <2> QED BY <1>2, <2>2, <2>3
<1>9. CursorIsLowest'
  <2>1. c # NoCursor => c \in P /\ \A y \in P : y = c \/ Newer(y, c)
    BY DEF IsCursor
  <2> SUFFICES ASSUME c # NoCursor, NEW i \in DOMAIN pages', NEW x \in pages'[i]
               PROVE  x = c \/ Newer(x, c)'
    BY DEF CursorIsLowest
  <2>2. CASE i = k
    BY <2>1, <2>2, <1>1, <1>2, <1>5
  <2>3. CASE i \in DOMAIN pages
    BY <2>1, <2>3, <1>1, <1>2, <1>5, <1>7
  <2> QED BY <1>2, <2>2, <2>3
<1>10. RestIsAhead'
  <2> SUFFICES ASSUME NEW x \in table
               PROVE  \/ x \in behind
                      \/ \E i \in DOMAIN pages' : x \in pages'[i]
                      \/ walk' = "going" /\ AfterCursor(x)'
    BY DEF RestIsAhead, writers
  <2>1. CASE x \in behind BY <2>1
  <2>2. CASE \E i \in DOMAIN pages : x \in pages[i]
    BY <2>2, <1>2
  <2>3. CASE x \in P
    BY <2>3, <1>2
  <2>4. CASE AfterCursor(x) /\ x \notin P
    <3>1. Cardinality(P) = n /\ \A y \in P : Newer(y, x)
      BY <2>4 DEF Page, IsPage
    <3>2. c \in P /\ c # NoCursor
      BY <3>1, <1>1 DEF IsCursor
    <3>3. Newer(c, x)' /\ x \in Rows /\ c \in Rows
      BY <3>1, <3>2, <1>1, <1>5
    <3>4. AfterCursor(x)'
      <4>1. /\ createdAt[x] \in Int /\ createdAt[c] \in Int
            /\ id[x] \in Int /\ id[c] \in Int
        BY <3>3, KeysAreNumbers DEF IInv
      <4>2. Newer(c, x) /\ createdAt' = createdAt /\ id' = id
        BY <3>1, <3>2 DEF writers
      <4> QED BY <4>1, <4>2 DEF AfterCursor, Newer
    <3> QED BY <3>2, <3>4
  <2> QED BY <2>1, <2>2, <2>3, <2>4 DEF IInv, RestIsAhead
<1> QED BY <1>3, <1>4, <1>8, <1>9, <1>10 DEF IInv

LEMMA StepKeeps == IInv /\ [Next]_vars => IInv'
<1> SUFFICES ASSUME IInv, [Next]_vars PROVE IInv'
  OBVIOUS
<1>1. CASE Tick BY <1>1, TickKeeps
<1>2. CASE Fetch
  <2>1. PICK n \in Limits, P \in SUBSET table, c \in table \cup {NoCursor} :
          /\ Page(P, n) /\ IsCursor(c, P, n)
          /\ pages' = Append(pages, P)
          /\ cursor' = c
          /\ walk' = IF c = NoCursor THEN "over" ELSE "going"
    BY <1>2 DEF Fetch
  <2> QED BY <2>1, <1>2, FetchKeeps DEF Fetch
<1>3. ASSUME NEW t \in Txns, Begin(t) PROVE IInv'
  BY <1>3, BeginKeeps
<1>4. ASSUME NEW t \in Txns, Commit(t) PROVE IInv'
  BY <1>4, CommitKeeps
<1>5. ASSUME NEW t \in Txns, RollBack(t) PROVE IInv'
  BY <1>5, RollBackKeeps
<1>6. CASE UNCHANGED vars
  <2>1. TypeOK'
    BY <1>6 DEF IInv, TypeOK, vars
  <2> QED BY <1>6, <2>1, SameView DEF vars
<1> QED BY <1>1, <1>2, <1>3, <1>4, <1>5, <1>6 DEF Next

LEMMA Invariance == Spec => []IInv
BY InitHolds, StepKeeps, PTL DEF Spec

-----------------------------------------------------------------------------
\* Type correctness, for any history and any limits.
THEOREM TypeCorrect == Spec => []TypeOK
<1>1. IInv => TypeOK
  BY DEF IInv
<1> QED BY <1>1, Invariance, PTL

\* The keyset's promise: the pages of a walk descend, so none shows a row of
\* another, whatever is committed in between.
THEOREM PagesGoDown == Spec => []PagesDescend
<1>1. IInv => PagesDescend
  BY DEF IInv
<1> QED BY <1>1, Invariance, PTL

\* A finished walk has shown every committed row, except those that were
\* committed where it had already been.
THEOREM NothingIsMissed == Spec => []NothingMissed
<1>1. IInv => NothingMissed
  <2> SUFFICES ASSUME IInv PROVE NothingMissed
    OBVIOUS
  <2>1. \A i \in DOMAIN pages : pages[i] \subseteq table
    BY DEF IInv, TableIsCommitted
  <2>2. Got \subseteq table /\ behind \subseteq table
    BY <2>1 DEF Got, IInv, TypeOK
  <2>3. walk = "over" => table \subseteq Got \cup behind
    BY DEF IInv, RestIsAhead, Got
  <2> QED BY <2>2, <2>3 DEF NothingMissed
<1> QED BY <1>1, Invariance, PTL
=============================================================================
