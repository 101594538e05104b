------------------------- MODULE RouletteRoundProofs -------------------------
(***************************************************************************)
(* Proofs about RouletteRound, for any limits of the table, any size of a  *)
(* block and any requests.  The control is a short invariant; the work is  *)
(* in the lemmas about the operators: how many numbers each figure covers, *)
(* what MapThenSumSet returns for a prize, which figures fit the grid, and *)
(* how many values of a block lead to a pocket.                            *)
(***************************************************************************)
EXTENDS RouletteRound, FiniteSetTheorems, TLAPS

-----------------------------------------------------------------------------
(* The grid: what a figure covers, and how many numbers that is.           *)

LEMMA StreetIsARun ==
    ASSUME NEW c \in 1..ColsN
    PROVE  Street(c) = (RowsN * c - 2)..(RowsN * c)
<1>1. Street(c) \subseteq (RowsN * c - 2)..(RowsN * c)
  BY DEF Street, NumberAt, RowsN, ColsN
<1>2. ASSUME NEW n \in (RowsN * c - 2)..(RowsN * c) PROVE n \in Street(c)
  <2>1. n - RowsN * (c - 1) \in 1..RowsN /\ n = NumberAt(n - RowsN * (c - 1), c)
    BY DEF NumberAt, RowsN, ColsN
  <2> QED BY <2>1 DEF Street
<1> QED BY <1>1, <1>2

\* The count of a set whose elements f numbers from 1 to n.
Numbers(f, n, S) == /\ f \in [1..n -> S]
                    /\ \A s \in S : \E k \in 1..n : f[k] = s
                    /\ \A j, k \in 1..n : f[j] = f[k] => j = k

LEMMA Counting ==
    ASSUME NEW f, NEW n \in Nat, NEW S, Numbers(f, n, S)
    PROVE  IsFiniteSet(S) /\ Cardinality(S) = n
<1>1. f \in Bijection(1..n, S)
  BY DEF Numbers, Bijection, Injection, Surjection, IsInjective
<1>2. IsFiniteSet(1..n) /\ Cardinality(1..n) = n
  BY FS_Interval
<1> QED BY <1>1, <1>2, FS_Bijection DEF ExistsBijection

LEMMA RunCount ==
    ASSUME NEW a \in Nat, NEW b \in Pockets, NEW n \in Nat \ {0}, b + 1 = a + n
    PROVE  a..b \subseteq Pockets /\ IsFiniteSet(a..b) /\ Cardinality(a..b) = n
<1>1. IsFiniteSet(a..b) /\ Cardinality(a..b) = IF a > b THEN 0 ELSE b - a + 1
  BY FS_Interval DEF Pockets
<1> QED BY <1>1 DEF Pockets

LEMMA PocketCount == IsFiniteSet(Pockets) /\ Cardinality(Pockets) = 37
<1>1. PICK a \in Nat, b \in Pockets, n \in Nat \ {0} : a = 0 /\ b = 36 /\ n = 37
  BY DEF Pockets
<1>2. b + 1 = a + n
  BY <1>1
<1>3. IsFiniteSet(a..b) /\ Cardinality(a..b) = n
  BY <1>2, RunCount
<1> QED BY <1>1, <1>3 DEF Pockets

LEMMA RedCount == RED_NUMBERS \subseteq Pockets /\ Cardinality(RED_NUMBERS) = 18
<1> DEFINE f == [k \in 1..18 |-> IF k \in 1..5 \cup 10..14 THEN 2 * k - 1 ELSE 2 * k]
<1>1. f \in [1..18 -> RED_NUMBERS]
  BY DEF RED_NUMBERS
<1>2. ASSUME NEW s \in RED_NUMBERS PROVE \E k \in 1..18 : f[k] = s
  <2>1. (s + 1) \div 2 \in 1..18 /\ f[(s + 1) \div 2] = s
    BY DEF RED_NUMBERS
  <2> QED BY <2>1
<1>3. \A j, k \in 1..18 : f[j] = f[k] => j = k
  OBVIOUS
<1>4. Numbers(f, 18, RED_NUMBERS)
  BY <1>1, <1>2, <1>3 DEF Numbers
<1> HIDE DEF f
<1>5. Cardinality(RED_NUMBERS) = 18
  BY <1>4, Counting
<1> QED BY <1>5 DEF RED_NUMBERS, Pockets

LEMMA BlackCount == BLACK_NUMBERS \subseteq Pockets /\ Cardinality(BLACK_NUMBERS) = 18
<1>1. IsFiniteSet(Grid) /\ Cardinality(Grid) = 36
  <2>1. PICK a \in Nat, b \in Pockets, n \in Nat \ {0} : a = 1 /\ b = 36 /\ n = 36
    BY DEF Pockets
  <2>2. b + 1 = a + n
    BY <2>1
  <2>3. IsFiniteSet(a..b) /\ Cardinality(a..b) = n
    BY <2>2, RunCount
  <2> QED BY <2>1, <2>3 DEF Grid
<1>2. Grid \cap RED_NUMBERS = RED_NUMBERS
  BY DEF Grid, RED_NUMBERS
<1>3. Cardinality(Grid \ RED_NUMBERS) = 36 - 18
  BY <1>1, <1>2, RedCount, FS_Difference
<1> QED BY <1>3 DEF BLACK_NUMBERS, Grid, Pockets

LEMMA OddCount == Cardinality({n \in 1..36 : n % 2 = 1}) = 18
<1> DEFINE f == [k \in 1..18 |-> 2 * k - 1]
           S == {n \in 1..36 : n % 2 = 1}
<1>1. f \in [1..18 -> S]
  OBVIOUS
<1>2. ASSUME NEW s \in S PROVE \E k \in 1..18 : f[k] = s
  <2>1. (s + 1) \div 2 \in 1..18 /\ f[(s + 1) \div 2] = s
    OBVIOUS
  <2> QED BY <2>1
<1>3. \A j, k \in 1..18 : f[j] = f[k] => j = k
  OBVIOUS
<1>4. Numbers(f, 18, S)
  BY <1>1, <1>2, <1>3 DEF Numbers
<1> HIDE DEF f, S
<1>5. Cardinality(S) = 18
  BY <1>4, Counting
<1> QED BY <1>5 DEF S

LEMMA EvenCount == Cardinality({n \in Pockets : n >= 2 /\ n % 2 = 0}) = 18
<1> DEFINE f == [k \in 1..18 |-> 2 * k]
           S == {n \in Pockets : n >= 2 /\ n % 2 = 0}
<1>1. f \in [1..18 -> S]
  BY DEF Pockets
<1>2. ASSUME NEW s \in S PROVE \E k \in 1..18 : f[k] = s
  <2>1. s \div 2 \in 1..18 /\ f[s \div 2] = s
    BY DEF Pockets
  <2> QED BY <2>1
<1>3. \A j, k \in 1..18 : f[j] = f[k] => j = k
  OBVIOUS
<1>4. Numbers(f, 18, S)
  BY <1>1, <1>2, <1>3 DEF Numbers
<1> HIDE DEF f, S
<1>5. Cardinality(S) = 18
  BY <1>4, Counting
<1> QED BY <1>5 DEF S

LEMMA ColumnCount ==
    ASSUME NEW r \in 1..RowsN
    PROVE  Column(r) \subseteq Pockets /\ Cardinality(Column(r)) = 12
<1> DEFINE f == [c \in 1..12 |-> NumberAt(r, c)]
<1>1. f \in [1..12 -> Column(r)]
  BY DEF Column, ColsN
<1>2. ASSUME NEW s \in Column(r) PROVE \E k \in 1..12 : f[k] = s
  BY DEF Column, ColsN
<1>3. \A j, k \in 1..12 : f[j] = f[k] => j = k
  BY DEF NumberAt, RowsN
<1>4. Column(r) \subseteq Pockets
  BY DEF Column, Pockets, NumberAt, RowsN, ColsN
<1>5. Numbers(f, 12, Column(r))
  BY <1>1, <1>2, <1>3 DEF Numbers
<1> HIDE DEF f
<1> QED BY <1>4, <1>5, Counting

LEMMA StraightCount ==
    ASSUME NEW n \in Pockets
    PROVE  {n} \subseteq Pockets /\ Cardinality({n}) = 1
BY FS_Singleton

LEMMA PairCount ==
    ASSUME NEW m, NEW n, m # n
    PROVE  IsFiniteSet({m, n}) /\ Cardinality({m, n}) = 2
<1>1. IsFiniteSet({m}) /\ Cardinality({m}) = 1
  BY FS_Singleton
<1>2. IsFiniteSet({m} \cup {n}) /\ Cardinality({m} \cup {n}) = 2
  BY <1>1, FS_AddElement
<1>3. {m, n} = {m} \cup {n}
  OBVIOUS
<1> QED BY <1>2, <1>3

LEMMA FourCount ==
    ASSUME NEW k, NEW l, NEW m, NEW n, k # l, m # n, k \notin {m, n}, l \notin {m, n}
    PROVE  Cardinality({k, l, m, n}) = 4
<1>1. /\ IsFiniteSet({k, l}) /\ Cardinality({k, l}) = 2
      /\ IsFiniteSet({m, n}) /\ Cardinality({m, n}) = 2
  BY PairCount
<1>2. {k, l} \cap {m, n} = {} /\ {k, l, m, n} = {k, l} \cup {m, n}
  OBVIOUS
<1>3. Cardinality({k, l} \cup {m, n}) = 2 + 2 - 0
  BY <1>1, <1>2, FS_Union, FS_EmptySet
<1> QED BY <1>2, <1>3

LEMMA SplitCount ==
    ASSUME NEW s \in VALID_SPLITS
    PROVE  s \subseteq Pockets /\ Cardinality(s) = 2
<1>1. ASSUME NEW n \in Grid, ColOf(n) < ColsN, s = {n, NumberAt(RowOf(n), ColOf(n) + 1)}
      PROVE  s \subseteq Pockets /\ Cardinality(s) = 2
  <2>1. NumberAt(RowOf(n), ColOf(n) + 1) = n + RowsN /\ n + RowsN \in Pockets /\ n \in Pockets
    BY <1>1 DEF Grid, Pockets, NumberAt, RowOf, ColOf, RowsN, ColsN
  <2>2. n # n + RowsN
    BY DEF Grid, RowsN
  <2> QED BY <1>1, <2>1, <2>2, PairCount
<1>2. ASSUME NEW n \in Grid, RowOf(n) < RowsN, s = {n, NumberAt(RowOf(n) + 1, ColOf(n))}
      PROVE  s \subseteq Pockets /\ Cardinality(s) = 2
  <2>1. NumberAt(RowOf(n) + 1, ColOf(n)) = n + 1 /\ n + 1 \in Pockets /\ n \in Pockets
    BY <1>2 DEF Grid, Pockets, NumberAt, RowOf, ColOf, RowsN, ColsN
  <2>2. n # n + 1
    BY DEF Grid
  <2> QED BY <1>2, <2>1, <2>2, PairCount
<1> QED BY <1>1, <1>2 DEF VALID_SPLITS

LEMMA StreetCount ==
    ASSUME NEW c \in 1..ColsN
    PROVE  Street(c) \subseteq Pockets /\ Cardinality(Street(c)) = 3
<1>1. PICK a \in Nat, b \in Pockets : a = RowsN * c - 2 /\ b = RowsN * c
  BY DEF RowsN, ColsN, Pockets
<1>2. b + 1 = a + 3
  BY <1>1 DEF RowsN, ColsN
<1>3. Street(c) = a..b
  BY <1>1, StreetIsARun
<1>4. a..b \subseteq Pockets /\ Cardinality(a..b) = 3
  BY <1>2, RunCount
<1> QED BY <1>3, <1>4

LEMMA CornerCount ==
    ASSUME NEW s \in VALID_CORNERS
    PROVE  s \subseteq Pockets /\ Cardinality(s) = 4
<1>1. PICK r \in 1..RowsN - 1, c \in 1..ColsN - 1 :
         s = {NumberAt(r, c), NumberAt(r + 1, c), NumberAt(r, c + 1), NumberAt(r + 1, c + 1)}
  BY DEF VALID_CORNERS
<1>2. PICK a \in 1..36 : a = NumberAt(r, c)
  BY DEF NumberAt, RowsN, ColsN
<1>3. PICK k \in 1..36, m \in 1..36, n \in 1..36 : k = a + 1 /\ m = a + 3 /\ n = a + 4
  <2>1. r \in 1..2 /\ c \in 1..11 /\ a = (c - 1) * 3 + r
    BY <1>1, <1>2 DEF NumberAt, RowsN, ColsN
  <2>2. a + 1 \in 1..36 /\ a + 3 \in 1..36 /\ a + 4 \in 1..36
    BY <2>1
  <2> QED BY <2>2
<1>4. s = {a, k, m, n}
  BY <1>1, <1>2, <1>3 DEF NumberAt, RowsN, ColsN
<1>5. a # k /\ m # n /\ a \notin {m, n} /\ k \notin {m, n}
  BY <1>3
<1>6. Cardinality({a, k, m, n}) = 4
  BY <1>5, FourCount
<1> QED BY <1>4, <1>6 DEF Pockets

LEMMA LineCount ==
    ASSUME NEW c \in 1..ColsN - 1
    PROVE  /\ Street(c) \cup Street(c + 1) \subseteq Pockets
           /\ Cardinality(Street(c) \cup Street(c + 1)) = 6
<1>1. PICK a \in Nat, b \in Pockets : a = RowsN * c - 2 /\ b = RowsN * c + 3
  BY DEF RowsN, ColsN, Pockets
<1>2. b + 1 = a + 6
  BY <1>1 DEF RowsN, ColsN
<1>3. c \in 1..ColsN /\ c + 1 \in 1..ColsN
  BY DEF ColsN
<1>4. Street(c) \cup Street(c + 1)
         = (RowsN * c - 2)..(RowsN * c) \cup (RowsN * (c + 1) - 2)..(RowsN * (c + 1))
  BY <1>3, StreetIsARun
<1>5. Street(c) \cup Street(c + 1) = a..b
  BY <1>1, <1>4 DEF RowsN, ColsN
<1>6. a..b \subseteq Pockets /\ Cardinality(a..b) = 6
  BY <1>2, RunCount
<1> QED BY <1>5, <1>6

LEMMA DozenCount ==
    ASSUME NEW i \in 1..3
    PROVE  Dozen(i) \subseteq Pockets /\ Cardinality(Dozen(i)) = 12
<1>1. PICK a \in Nat, b \in Pockets : a = 12 * (i - 1) + 1 /\ b = 12 * i
  BY DEF Pockets
<1>2. b + 1 = a + 12
  BY <1>1
<1> QED BY <1>1, <1>2, RunCount DEF Dozen

-----------------------------------------------------------------------------
(* What a bet may cover, type by type.                                     *)

LEMMA TypesOf ==
    /\ BetTypes = {"straight", "split", "street", "corner", "line", "dozen", "column",
                   "red", "black", "odd", "even", "high", "low"}
    /\ DOMAIN FixedSelections = {"red", "black", "odd", "even", "high", "low"}
    /\ DOMAIN NumbersSelections = {"straight", "split", "street", "corner", "line"}
BY DEF BetTypes, PayoutRatio, FixedSelections, NumbersSelections

\* A bet that is accepted covers one figure.
LEMMA OneFigure ==
    ASSUME NEW bet, WellFormed(bet)
    PROVE  Covered(bet) \in Covers(bet.type, bet.sel)
<1>1. PICK S : S \in Covers(bet.type, bet.sel)
  BY DEF WellFormed
<1>2. \A T \in Covers(bet.type, bet.sel) : T = S
  BY <1>1 DEF Covers
<1>3. Covers(bet.type, bet.sel) = {S}
  BY <1>1, <1>2
<1> HIDE DEF Covers
<1> QED BY <1>3 DEF Covered

\* coverage * (payout_ratio + 1) == 36 (test_uniform_house_edge_of_2_70_percent).
EvenlyPriced(type, S) == S \subseteq Pockets /\ Cardinality(S) * (PayoutRatio[type] + 1) = 36

LEMMA FixedPriced ==
    ASSUME NEW type \in DOMAIN FixedSelections
    PROVE  EvenlyPriced(type, FixedSelections[type])
<1>1. PayoutRatio[type] = 1
  BY TypesOf DEF PayoutRatio
<1>2. FixedSelections[type] \subseteq Pockets /\ Cardinality(FixedSelections[type]) = 18
  <2>1. CASE type = "red"
    BY <2>1, RedCount DEF FixedSelections
  <2>2. CASE type = "black"
    BY <2>2, BlackCount DEF FixedSelections
  <2>3. CASE type = "odd"
    BY <2>3, OddCount DEF FixedSelections, Pockets
  <2>4. CASE type = "even"
    BY <2>4, EvenCount DEF FixedSelections
  <2>5. CASE type = "high"
    <3>1. PICK a \in Nat, b \in Pockets, n \in Nat \ {0} : a = 19 /\ b = 36 /\ n = 18
      BY DEF Pockets
    <3>2. b + 1 = a + n /\ FixedSelections[type] = a..b
      BY <2>5, <3>1 DEF FixedSelections
    <3>3. a..b \subseteq Pockets /\ Cardinality(a..b) = n
      BY <3>2, RunCount
    <3> QED BY <3>1, <3>2, <3>3
  <2>6. CASE type = "low"
    <3>1. PICK a \in Nat, b \in Pockets, n \in Nat \ {0} : a = 1 /\ b = 18 /\ n = 18
      BY DEF Pockets
    <3>2. b + 1 = a + n /\ FixedSelections[type] = a..b
      BY <2>6, <3>1 DEF FixedSelections
    <3>3. a..b \subseteq Pockets /\ Cardinality(a..b) = n
      BY <3>2, RunCount
    <3> QED BY <3>1, <3>2, <3>3
  <2> QED BY <2>1, <2>2, <2>3, <2>4, <2>5, <2>6, TypesOf
<1> QED BY <1>1, <1>2 DEF EvenlyPriced

LEMMA NumbersPriced ==
    ASSUME NEW type \in DOMAIN NumbersSelections, NEW s \in NumbersSelections[type]
    PROVE  EvenlyPriced(type, s)
<1>1. CASE type = "straight"
  <2>1. s \subseteq Pockets /\ Cardinality(s) = 1 /\ PayoutRatio[type] = 35
    BY <1>1, StraightCount DEF NumbersSelections, PayoutRatio
  <2> QED BY <2>1 DEF EvenlyPriced
<1>2. CASE type = "split"
  <2>1. s \subseteq Pockets /\ Cardinality(s) = 2 /\ PayoutRatio[type] = 17
    BY <1>2, SplitCount DEF NumbersSelections, PayoutRatio
  <2> QED BY <2>1 DEF EvenlyPriced
<1>3. CASE type = "street"
  <2>1. s \subseteq Pockets /\ Cardinality(s) = 3 /\ PayoutRatio[type] = 11
    BY <1>3, StreetCount DEF NumbersSelections, PayoutRatio, VALID_STREETS
  <2> QED BY <2>1 DEF EvenlyPriced
<1>4. CASE type = "corner"
  <2>1. s \subseteq Pockets /\ Cardinality(s) = 4 /\ PayoutRatio[type] = 8
    BY <1>4, CornerCount DEF NumbersSelections, PayoutRatio
  <2> QED BY <2>1 DEF EvenlyPriced
<1>5. CASE type = "line"
  <2>1. s \subseteq Pockets /\ Cardinality(s) = 6 /\ PayoutRatio[type] = 5
    BY <1>5, LineCount DEF NumbersSelections, PayoutRatio, VALID_LINES
  <2> QED BY <2>1 DEF EvenlyPriced
<1> QED BY <1>1, <1>2, <1>3, <1>4, <1>5, TypesOf

LEMMA IndexPriced ==
    ASSUME NEW type \in {"dozen", "column"}, NEW i \in 1..3
    PROVE  EvenlyPriced(type, IndexSelections[type][i])
<1>1. PayoutRatio[type] = 2
  BY DEF PayoutRatio
<1>2. CASE type = "dozen"
  <2>1. IndexSelections[type][i] = Dozen(i)
    BY <1>2 DEF IndexSelections
  <2> QED BY <1>1, <2>1, DozenCount DEF EvenlyPriced
<1>3. CASE type = "column"
  <2>1. IndexSelections[type][i] = Column(i) /\ i \in 1..RowsN
    BY <1>3 DEF IndexSelections, RowsN
  <2> QED BY <1>1, <2>1, ColumnCount DEF EvenlyPriced
<1> QED BY <1>2, <1>3

\* The same for whatever covered_numbers accepts.
LEMMA AcceptedPriced ==
    ASSUME NEW bet, bet.type \in BetTypes, WellFormed(bet)
    PROVE  EvenlyPriced(bet.type, Covered(bet))
<1>1. Covered(bet) \in Covers(bet.type, bet.sel)
  BY OneFigure
<1>2. CASE bet.type \in DOMAIN FixedSelections
  BY <1>1, <1>2, FixedPriced DEF Covers
<1>3. CASE bet.type \in DOMAIN NumbersSelections
  <2>1. bet.type \notin DOMAIN FixedSelections
    BY <1>3, TypesOf
  <2> QED BY <1>1, <1>3, <2>1, NumbersPriced DEF Covers
<1>4. CASE bet.type \in {"dozen", "column"}
  <2>1. bet.type \notin DOMAIN FixedSelections /\ bet.type \notin DOMAIN NumbersSelections
    BY <1>4, TypesOf
  <2>2. PICK i \in 1..3 : Covered(bet) = IndexSelections[bet.type][i]
    BY <1>1, <2>1 DEF Covers
  <2> QED BY <1>4, <2>2, IndexPriced
<1> QED BY <1>2, <1>3, <1>4, TypesOf

-----------------------------------------------------------------------------
(* What a bet gets back over a set of pockets.  MapThenSumSet is the value *)
(* of a recursive function on the subsets: that one exists is shown by     *)
(* giving it, that it is the only one by a smallest subset on which        *)
(* another would differ.                                                   *)

Back(bet, S) == LET Paid(pocket) == Resolved(bet, pocket).payout IN MapThenSumSet(Paid, S)

IsSum(bet, S, f) ==
    f = [s \in SUBSET S |->
            IF s = {} THEN 0
            ELSE Resolved(bet, CHOOSE x \in s : TRUE).payout + f[s \ {CHOOSE x \in s : TRUE}]]

LEMMA BackUnfolds ==
    ASSUME NEW bet, NEW S
    PROVE  Back(bet, S) = (CHOOSE f : IsSum(bet, S, f))[S]
BY DEF Back, IsSum, MapThenSumSet, MapThenFoldSet

Prize(bet)    == bet.stake * (PayoutRatio[bet.type] + 1)
Winning(bet, s) == Cardinality(s \cap Covered(bet))

LEMMA WinningLessOne ==
    ASSUME NEW bet, NEW s, IsFiniteSet(s), NEW x \in s
    PROVE  /\ Winning(bet, s \ {x}) \in Nat
           /\ Winning(bet, s) = IF x \in Covered(bet) THEN Winning(bet, s \ {x}) + 1
                                                      ELSE Winning(bet, s \ {x})
<1>1. PICK W : W = s \cap Covered(bet)
  OBVIOUS
<1>2. IsFiniteSet(W) /\ IsFiniteSet(s \ {x})
  BY <1>1, FS_Intersection, FS_RemoveElement
<1>3. Cardinality(W \ {x}) = IF x \in W THEN Cardinality(W) - 1 ELSE Cardinality(W)
  BY <1>2, FS_RemoveElement
<1>4. (s \ {x}) \cap Covered(bet) = W \ {x} /\ IsFiniteSet(W \ {x})
  BY <1>1, <1>2, FS_RemoveElement
<1>5. Cardinality(W) \in Nat /\ Cardinality(W \ {x}) \in Nat
  BY <1>2, <1>4, FS_CardinalityType
<1>6. x \in W <=> x \in Covered(bet)
  BY <1>1
<1> QED BY <1>1, <1>3, <1>4, <1>5, <1>6 DEF Winning

LEMMA OneMore ==
    ASSUME NEW p \in Nat, NEW n \in Nat
    PROVE  p * (n + 1) = p + p * n /\ p * n \in Nat
OBVIOUS

LEMMA PrizePerNumber ==
    ASSUME NEW bet, Prize(bet) \in Nat, NEW s, IsFiniteSet(s), NEW x \in s
    PROVE  Prize(bet) * Winning(bet, s) = Resolved(bet, x).payout + Prize(bet) * Winning(bet, s \ {x})
<1>1. PICK p \in Nat : p = Prize(bet)
  OBVIOUS
<1>2. PICK n \in Nat : n = Winning(bet, s \ {x})
  BY WinningLessOne
<1>3. Winning(bet, s) = IF x \in Covered(bet) THEN n + 1 ELSE n
  BY <1>2, WinningLessOne
<1>4. Resolved(bet, x).payout = IF x \in Covered(bet) THEN p ELSE 0
  BY <1>1 DEF Resolved, Prize
<1>5. p * (n + 1) = p + p * n /\ p * n \in Nat
  BY OneMore
<1> QED BY <1>1, <1>2, <1>3, <1>4, <1>5

LEMMA NothingWon ==
    ASSUME NEW bet, Prize(bet) \in Nat
    PROVE  Prize(bet) * Winning(bet, {}) = 0
<1>1. Winning(bet, {}) = 0
  BY FS_EmptySet DEF Winning
<1> QED BY <1>1

LEMMA BackCounts ==
    ASSUME NEW bet, Prize(bet) \in Nat, NEW S, IsFiniteSet(S)
    PROVE  Back(bet, S) = Prize(bet) * Winning(bet, S)
<1> DEFINE g == [s \in SUBSET S |-> Prize(bet) * Winning(bet, s)]
           f == CHOOSE h : IsSum(bet, S, h)
<1>1. \A s \in SUBSET S : IsFiniteSet(s)
  BY FS_Subset
<1>2. IsSum(bet, S, g)
  <2>1. ASSUME NEW s \in SUBSET S, s # {}
        PROVE  LET x == CHOOSE x \in s : TRUE IN g[s] = Resolved(bet, x).payout + g[s \ {x}]
    <3>1. PICK x \in s : x = CHOOSE y \in s : TRUE
      BY <2>1
    <3>2. Prize(bet) * Winning(bet, s) = Resolved(bet, x).payout + Prize(bet) * Winning(bet, s \ {x})
      BY <1>1, PrizePerNumber
    <3>3. g[s] = Resolved(bet, x).payout + g[s \ {x}]
      BY <3>2
    <3> QED BY <3>1, <3>3
  <2>2. g[{}] = 0
    BY NothingWon
  <2>3. g = [s \in SUBSET S |-> g[s]]
    OBVIOUS
  <2> HIDE DEF g
  <2> QED BY <2>1, <2>2, <2>3 DEF IsSum
<1>3. IsSum(bet, S, f)
  BY <1>2
<1> HIDE DEF f, g
<1>4. \A s \in SUBSET S : f[s] = IF s = {} THEN 0
                                 ELSE Resolved(bet, CHOOSE x \in s : TRUE).payout
                                      + f[s \ {CHOOSE x \in s : TRUE}]
  BY <1>3 DEF IsSum
<1> DEFINE Bad == {s \in SUBSET S : f[s] # Prize(bet) * Winning(bet, s)}
<1>5. Bad = {}
  <2> SUFFICES ASSUME Bad # {} PROVE FALSE
    OBVIOUS
  <2>1. IsWellFoundedOn(StrictSubsetOrdering(S), FiniteSubsetsOf(S))
    BY FS_StrictSubsetOrderingWellFounded
  <2>2. Bad \subseteq FiniteSubsetsOf(S)
    BY <1>1 DEF FiniteSubsetsOf
  <2>3. PICK s \in Bad : \A t \in Bad : <<t, s>> \notin StrictSubsetOrdering(S)
    BY <2>1, <2>2, WFMin
  <2>4. s # {}
    BY <1>4, <2>3, NothingWon
  <2>5. PICK x \in s : x = CHOOSE y \in s : TRUE
    BY <2>4
  <2>6. s \ {x} \in SUBSET S /\ <<s \ {x}, s>> \in StrictSubsetOrdering(S)
    BY <2>3, <2>5 DEF StrictSubsetOrdering
  <2>7. f[s \ {x}] = Prize(bet) * Winning(bet, s \ {x})
    BY <2>3, <2>6
  <2>8. f[s] = Resolved(bet, x).payout + f[s \ {x}]
    BY <1>4, <2>4, <2>5
  <2>9. Prize(bet) * Winning(bet, s) = Resolved(bet, x).payout + Prize(bet) * Winning(bet, s \ {x})
    BY <1>1, PrizePerNumber
  <2> QED BY <2>3, <2>7, <2>8, <2>9
<1>6. f[S] = Prize(bet) * Winning(bet, S)
  BY <1>5
<1> QED BY <1>6, BackUnfolds DEF f

\* The 37 pockets pay an accepted bet 36 times its stake, whatever its figure.
LEMMA BackIs36Stakes ==
    ASSUME NEW bet, bet.type \in BetTypes, bet.stake \in Nat, WellFormed(bet)
    PROVE  Back(bet, Pockets) = 36 * bet.stake
<1>1. Covered(bet) \subseteq Pockets /\ Cardinality(Covered(bet)) * (PayoutRatio[bet.type] + 1) = 36
  BY AcceptedPriced DEF EvenlyPriced
<1>2. IsFiniteSet(Pockets) /\ IsFiniteSet(Covered(bet))
  BY <1>1, PocketCount, FS_Subset
<1>3. PICK n \in Nat : n = Cardinality(Covered(bet))
  BY <1>2, FS_CardinalityType
<1>4. PICK r \in Nat : r = PayoutRatio[bet.type]
  BY TypesOf DEF PayoutRatio
<1>5. PICK k \in Nat : k = bet.stake
  OBVIOUS
<1>6. (k * (r + 1)) * n = 36 * k /\ k * (r + 1) \in Nat
  <2>1. n * (r + 1) = 36
    BY <1>1, <1>3, <1>4
  <2>2. (k * (r + 1)) * n = k * (n * (r + 1)) /\ k * (r + 1) \in Nat
    OBVIOUS
  <2> QED BY <2>1, <2>2
<1>7. Prize(bet) = k * (r + 1)
  BY <1>4, <1>5 DEF Prize
<1>8. Winning(bet, Pockets) = n
  <2>1. Pockets \cap Covered(bet) = Covered(bet)
    BY <1>1
  <2> QED BY <1>3, <2>1 DEF Winning
<1>9. Back(bet, Pockets) = Prize(bet) * Winning(bet, Pockets)
  BY <1>2, <1>6, <1>7, BackCounts
<1> QED BY <1>5, <1>6, <1>7, <1>8, <1>9

-----------------------------------------------------------------------------
(* The figures inside the grid are the blocks of their shapes.             *)

InGrid(type, S) ==
    \E s \in Shapes[type] :
        \E r \in 1..RowsN + 1 - s[1], c \in 1..ColsN + 1 - s[2] : S = Block(r, c, s[1], s[2])

LEMMA ShapesOf ==
    /\ DOMAIN Shapes = {"split", "street", "corner", "line"}
    /\ Shapes["split"] = {<<1, 2>>, <<2, 1>>} /\ Shapes["street"] = {<<3, 1>>}
    /\ Shapes["corner"] = {<<2, 2>>} /\ Shapes["line"] = {<<3, 2>>}
BY DEF Shapes

\* _position and _number_at are each other's inverse.
LEMMA CellOfNumber ==
    ASSUME NEW n \in Grid
    PROVE  /\ RowOf(n) \in 1..RowsN /\ ColOf(n) \in 1..ColsN
           /\ NumberAt(RowOf(n), ColOf(n)) = n
BY DEF Grid, RowOf, ColOf, NumberAt, RowsN, ColsN

LEMMA NumberOfCell ==
    ASSUME NEW r \in 1..RowsN, NEW c \in 1..ColsN
    PROVE  /\ NumberAt(r, c) \in Grid
           /\ RowOf(NumberAt(r, c)) = r /\ ColOf(NumberAt(r, c)) = c
<1>1. r \in 1..3 /\ c \in 1..12 /\ NumberAt(r, c) = (c - 1) * 3 + r
  BY DEF NumberAt, RowsN, ColsN
<1> QED BY <1>1 DEF Grid, RowOf, ColOf, RowsN

LEMMA BlockCells ==
    ASSUME NEW r \in 1..RowsN, NEW c \in 1..ColsN
    PROVE  /\ Block(r, c, 1, 2) = {NumberAt(r, c), NumberAt(r, c + 1)}
           /\ Block(r, c, 2, 1) = {NumberAt(r, c), NumberAt(r + 1, c)}
           /\ Block(r, c, 2, 2) = {NumberAt(r, c), NumberAt(r + 1, c),
                                   NumberAt(r, c + 1), NumberAt(r + 1, c + 1)}
           /\ Block(1, c, 3, 1) = Street(c)
           /\ Block(1, c, 3, 2) = Street(c) \cup Street(c + 1)
<1>1. r \in Int /\ c \in Int
  BY DEF RowsN, ColsN
<1>2. r..r + 1 - 1 = {r} /\ r..r + 2 - 1 = {r, r + 1} /\ 1..1 + 3 - 1 = 1..RowsN
  BY <1>1 DEF RowsN
<1>3. c..c + 1 - 1 = {c} /\ c..c + 2 - 1 = {c, c + 1}
  BY <1>1
<1> QED BY <1>2, <1>3 DEF Block, Street

LEMMA SplitsFit == ASSUME NEW S PROVE S \in VALID_SPLITS <=> InGrid("split", S)
<1>1. ASSUME S \in VALID_SPLITS PROVE InGrid("split", S)
  <2>1. ASSUME NEW n \in Grid, ColOf(n) < ColsN, S = {n, NumberAt(RowOf(n), ColOf(n) + 1)}
        PROVE  InGrid("split", S)
    <3>1. PICK r \in 1..RowsN, c \in 1..ColsN - 1 : r = RowOf(n) /\ c = ColOf(n) /\ n = NumberAt(r, c)
      BY <2>1, CellOfNumber DEF ColsN
    <3>2. c \in 1..ColsN
      BY DEF ColsN
    <3>3. S = Block(r, c, 1, 2)
      BY <2>1, <3>1, <3>2, BlockCells
    <3> QED BY <3>3, ShapesOf DEF InGrid, RowsN, ColsN
  <2>2. ASSUME NEW n \in Grid, RowOf(n) < RowsN, S = {n, NumberAt(RowOf(n) + 1, ColOf(n))}
        PROVE  InGrid("split", S)
    <3>1. PICK r \in 1..RowsN - 1, c \in 1..ColsN : r = RowOf(n) /\ c = ColOf(n) /\ n = NumberAt(r, c)
      BY <2>2, CellOfNumber DEF RowsN
    <3>2. r \in 1..RowsN
      BY DEF RowsN
    <3>3. S = Block(r, c, 2, 1)
      BY <2>2, <3>1, <3>2, BlockCells
    <3> QED BY <3>3, ShapesOf DEF InGrid, RowsN, ColsN
  <2> QED BY <1>1, <2>1, <2>2 DEF VALID_SPLITS
<1>2. ASSUME InGrid("split", S) PROVE S \in VALID_SPLITS
  <2>1. ASSUME NEW r \in 1..RowsN, NEW c \in 1..ColsN - 1, S = Block(r, c, 1, 2)
        PROVE  S \in VALID_SPLITS
    <3>1. c \in 1..ColsN
      BY DEF ColsN
    <3>2. PICK n \in Grid : n = NumberAt(r, c) /\ RowOf(n) = r /\ ColOf(n) = c
      BY <3>1, NumberOfCell
    <3>3. S = {n, NumberAt(RowOf(n), ColOf(n) + 1)} /\ ColOf(n) < ColsN
      BY <2>1, <3>1, <3>2, BlockCells DEF ColsN
    <3> QED BY <3>3 DEF VALID_SPLITS
  <2>2. ASSUME NEW r \in 1..RowsN - 1, NEW c \in 1..ColsN, S = Block(r, c, 2, 1)
        PROVE  S \in VALID_SPLITS
    <3>1. r \in 1..RowsN
      BY DEF RowsN
    <3>2. PICK n \in Grid : n = NumberAt(r, c) /\ RowOf(n) = r /\ ColOf(n) = c
      BY <3>1, NumberOfCell
    <3>3. S = {n, NumberAt(RowOf(n) + 1, ColOf(n))} /\ RowOf(n) < RowsN
      BY <2>2, <3>1, <3>2, BlockCells DEF RowsN
    <3> QED BY <3>3 DEF VALID_SPLITS
  <2>3. \/ \E r \in 1..RowsN, c \in 1..ColsN - 1 : S = Block(r, c, 1, 2)
        \/ \E r \in 1..RowsN - 1, c \in 1..ColsN : S = Block(r, c, 2, 1)
    BY <1>2, ShapesOf DEF InGrid, RowsN, ColsN
  <2> QED BY <2>1, <2>2, <2>3
<1> QED BY <1>1, <1>2

LEMMA StreetsFit == ASSUME NEW S PROVE S \in VALID_STREETS <=> InGrid("street", S)
<1>1. InGrid("street", S) <=> \E c \in 1..ColsN : S = Block(1, c, 3, 1)
  BY ShapesOf DEF InGrid, RowsN, ColsN
<1>2. \A c \in 1..ColsN : Block(1, c, 3, 1) = Street(c)
  BY BlockCells DEF RowsN
<1> QED BY <1>1, <1>2 DEF VALID_STREETS

LEMMA CornersFit == ASSUME NEW S PROVE S \in VALID_CORNERS <=> InGrid("corner", S)
<1>1. InGrid("corner", S) <=> \E r \in 1..RowsN - 1, c \in 1..ColsN - 1 : S = Block(r, c, 2, 2)
  BY ShapesOf DEF InGrid, RowsN, ColsN
<1>2. \A r \in 1..RowsN - 1, c \in 1..ColsN - 1 :
         Block(r, c, 2, 2) = {NumberAt(r, c), NumberAt(r + 1, c),
                              NumberAt(r, c + 1), NumberAt(r + 1, c + 1)}
  BY BlockCells DEF RowsN, ColsN
<1>3. S \in VALID_CORNERS <=>
         \E r \in 1..RowsN - 1, c \in 1..ColsN - 1 :
            S = {NumberAt(r, c), NumberAt(r + 1, c), NumberAt(r, c + 1), NumberAt(r + 1, c + 1)}
  BY DEF VALID_CORNERS
<1> QED BY <1>1, <1>2, <1>3

LEMMA LinesFit == ASSUME NEW S PROVE S \in VALID_LINES <=> InGrid("line", S)
<1>1. InGrid("line", S) <=> \E c \in 1..ColsN - 1 : S = Block(1, c, 3, 2)
  BY ShapesOf DEF InGrid, RowsN, ColsN
<1>2. \A c \in 1..ColsN - 1 : Block(1, c, 3, 2) = Street(c) \cup Street(c + 1)
  BY BlockCells DEF RowsN, ColsN
<1> QED BY <1>1, <1>2 DEF VALID_LINES

\* covered_numbers accepts a bet of these types just when it is such a block.
LEMMA FiguresFit ==
    ASSUME NEW bet, bet.type \in DOMAIN Shapes
    PROVE  WellFormed(bet) <=> FitsTheGrid(bet)
<1>1. /\ bet.type \notin DOMAIN FixedSelections /\ bet.type \in DOMAIN NumbersSelections
      /\ bet.type \in {"split", "street", "corner", "line"}
  BY ShapesOf, TypesOf
<1>2. \A S : S \in NumbersSelections[bet.type] <=> InGrid(bet.type, S)
  BY <1>1, SplitsFit, StreetsFit, CornersFit, LinesFit DEF NumbersSelections
<1>3. WellFormed(bet) <=> \E S \in NumbersSelections[bet.type] : bet.sel = <<"numbers", S>>
  BY <1>1 DEF WellFormed, Covers
<1>4. FitsTheGrid(bet) <=> \E S : InGrid(bet.type, S) /\ bet.sel = <<"numbers", S>>
  BY DEF FitsTheGrid, InGrid
<1> QED BY <1>2, <1>3, <1>4

-----------------------------------------------------------------------------
(* _uniform_below: the values of a block that lead to each pocket.         *)

Ways(k) == {v \in 0..ChunkSpace - 1 : v < Limit /\ v % Modulus = k}

LEMMA AsManyWays ==
    \E q \in Nat \ {0} : \A k \in Pockets : IsFiniteSet(Ways(k)) /\ Cardinality(Ways(k)) = q
<1>1. Modulus = 37 /\ ChunkSpace \in Nat /\ 37 <= ChunkSpace
  BY PocketCount, RoundAssumption DEF Modulus
<1>2. PICK q \in Nat \ {0} : q = ChunkSpace \div 37
  BY <1>1
<1>3. Limit = q * 37 /\ q * 37 <= ChunkSpace
  BY <1>1, <1>2 DEF Limit
<1>4. ASSUME NEW k \in Pockets
      PROVE  IsFiniteSet(Ways(k)) /\ Cardinality(Ways(k)) = q
  <2> DEFINE f == [i \in 1..q |-> (i - 1) * 37 + k]
  <2>1. k \in 0..36
    BY DEF Pockets
  <2>2. ASSUME NEW i \in 1..q PROVE f[i] \in Ways(k)
    <3>1. f[i] \in Nat /\ f[i] < q * 37 /\ f[i] % 37 = k
      BY <2>1
    <3> QED BY <1>1, <1>3, <3>1 DEF Ways
  <2>3. ASSUME NEW v \in Ways(k) PROVE \E i \in 1..q : f[i] = v
    <3>1. v \in Nat /\ v < q * 37 /\ v % 37 = k
      BY <1>1, <1>3 DEF Ways
    <3>2. PICK d \in 0..q - 1 : d = v \div 37
      BY <3>1
    <3>3. d + 1 \in 1..q /\ (d + 1 - 1) * 37 + k = v
      BY <3>1, <3>2
    <3>4. f[d + 1] = (d + 1 - 1) * 37 + k
      BY <3>3
    <3> QED BY <3>3, <3>4
  <2>4. ASSUME NEW i \in 1..q, NEW j \in 1..q, f[i] = f[j] PROVE i = j
    <3>1. (i - 1) * 37 + k = (j - 1) * 37 + k
      BY <2>4
    <3> QED BY <2>1, <3>1
  <2>5. Numbers(f, q, Ways(k))
    BY <2>2, <2>3, <2>4 DEF Numbers
  <2> HIDE DEF f
  <2> QED BY <2>5, Counting
<1> QED BY <1>4

-----------------------------------------------------------------------------
(* The round.                                                              *)

Phases == {"validate", "spin", "invalid", "resolve", "settled"}

TypeOK == /\ phase \in Phases
          /\ bets \in Plays
          /\ digests \in 0..MaxDigests - 1
          /\ offset \in 0..ChunksPerDigest - 1
          /\ outcome \in Pockets \cup {-1}

\* Past validation every bet is valid, and a refused request has one that is not.
Checked == /\ phase \in {"spin", "resolve", "settled"} => \A i \in DOMAIN bets : Valid(bets[i])
           /\ phase = "invalid" => \E i \in DOMAIN bets : ~Valid(bets[i])

\* Nothing is resolved before there is an outcome, and then by that outcome.
Settled == /\ outcome = -1 <=> phase \notin {"resolve", "settled"}
           /\ phase = "settled" => resolved = [i \in DOMAIN bets |-> Resolved(bets[i], outcome)]

IInv == TypeOK /\ Checked /\ Settled

LEMMA InitHolds == Init => IInv
BY RoundAssumption DEF Init, IInv, TypeOK, Phases, Checked, Settled

LEMMA StepKeeps == IInv /\ [Next]_vars => IInv'
<1> SUFFICES ASSUME IInv, [Next]_vars PROVE IInv'
  OBVIOUS
<1> USE DEF IInv, Phases
<1>1. CASE Validate
  <2>1. bets' = bets /\ digests' = digests /\ offset' = offset /\ outcome' = outcome
    BY <1>1 DEF Validate
  <2>2. \/ phase' = "spin" /\ \A i \in DOMAIN bets : Valid(bets[i])
        \/ phase' = "invalid" /\ \E i \in DOMAIN bets : ~Valid(bets[i])
    BY <1>1 DEF Validate
  <2>3. phase = "validate"
    BY <1>1 DEF Validate
  <2> QED BY <2>1, <2>2, <2>3 DEF TypeOK, Checked, Settled, Valid, WellFormed
<1>2. ASSUME NEW v \in 0..ChunkSpace - 1, Accept(v) PROVE IInv'
  <2>1. /\ phase = "spin" /\ phase' = "resolve" /\ outcome' = v % Modulus
        /\ bets' = bets /\ digests' = digests /\ offset' = offset
    BY <1>2 DEF Accept
  <2>2. v % Modulus \in Pockets
    BY PocketCount, RoundAssumption DEF Modulus, Pockets
  <2>3. v % Modulus # -1
    BY <2>2 DEF Pockets
  <2> QED BY <2>1, <2>2, <2>3 DEF TypeOK, Checked, Settled, Valid, WellFormed
<1>3. ASSUME NEW v \in 0..ChunkSpace - 1, Reject(v) PROVE IInv'
  <2>1. /\ phase = "spin" /\ phase' = phase /\ bets' = bets /\ outcome' = outcome
        /\ resolved' = resolved
    BY <1>3 DEF Reject
  <2>2. digests' \in 0..MaxDigests - 1 /\ offset' \in 0..ChunksPerDigest - 1
    BY <1>3, RoundAssumption DEF Reject, TypeOK
  <2> QED BY <2>1, <2>2 DEF TypeOK, Checked, Settled, Valid, WellFormed
<1>4. CASE Resolve
  <2>1. /\ phase = "resolve" /\ phase' = "settled" /\ bets' = bets /\ outcome' = outcome
        /\ digests' = digests /\ offset' = offset
        /\ resolved' = [i \in DOMAIN bets |-> Resolved(bets[i], outcome)]
    BY <1>4 DEF Resolve
  <2> QED BY <2>1 DEF TypeOK, Checked, Settled, Valid, WellFormed
<1>5. CASE UNCHANGED vars
  BY <1>5 DEF vars, TypeOK, Checked, Settled, Valid, WellFormed
<1> QED BY <1>1, <1>2, <1>3, <1>4, <1>5 DEF Next

LEMMA AlwaysIInv == Spec => []IInv
BY InitHolds, StepKeeps, PTL DEF Spec

\* What a request may carry.
LEMMA BetsPlaced ==
    ASSUME IInv
    PROVE  /\ DOMAIN bets = 1..Len(bets) /\ Len(bets) \in Nat
           /\ \A i \in DOMAIN bets : bets[i].type \in BetTypes /\ bets[i].stake \in Int
<1>1. bets \in Seq(PlacedBet)
  BY RoundAssumption DEF IInv, TypeOK
<1>2. \A i \in DOMAIN bets : bets[i] \in PlacedBet
  BY <1>1
<1> QED BY <1>1, <1>2 DEF PlacedBet

-----------------------------------------------------------------------------
(* The theorems.                                                           *)

\* place_bet: the outcome is a pocket of the wheel, whatever the block it comes
\* from, and the scan of the digests stays within its bounds.
THEOREM TypeCorrect == Spec => []TypeOK
<1>1. IInv => TypeOK
  BY DEF IInv
<1> QED BY <1>1, AlwaysIInv, PTL

\* _uniform_below, for every size of a block and not only 2^32: the cut leaves
\* each of the 37 pockets the same number of values, and at least one.
THEOREM NoPocketIsFavoured == Spec => []OutcomeUnbiased
<1>1. IInv => OutcomeUnbiased
  <2> SUFFICES ASSUME IInv, outcome # -1, NEW k \in Pockets
               PROVE  /\ Cardinality(Ways(k)) = Cardinality(Ways(outcome))
                      /\ Cardinality(Ways(k)) > 0
    BY DEF OutcomeUnbiased, Ways
  <2>1. outcome \in Pockets
    BY DEF IInv, TypeOK
  <2> QED BY <2>1, AsManyWays
<1> QED BY <1>1, AlwaysIInv, PTL

\* BET_SPECS: on every figure that validate_bet lets through the house keeps
\* one stake in 37, for any stake between any two limits of the table.
THEOREM HouseKeepsOneIn37 == Spec => []HouseEdge
<1>1. IInv => HouseEdge
  <2> SUFFICES ASSUME IInv, phase = "settled", NEW i \in DOMAIN bets
               PROVE  Back(bets[i], Pockets) = 36 * bets[i].stake
    BY DEF HouseEdge, Back
  <2>1. Valid(bets[i])
    BY DEF IInv, Checked
  <2>2. bets[i].stake \in Nat
    BY <2>1, RoundAssumption DEF Valid
  <2>3. bets[i].type \in BetTypes
    BY BetsPlaced
  <2> QED BY <2>1, <2>2, <2>3, BackIs36Stakes DEF Valid
<1> QED BY <1>1, AlwaysIInv, PTL

\* table.py's lists of splits, streets, corners and lines are exactly the
\* blocks of the grid, so that validation accepts these and nothing else.
THEOREM FiguresFitTheTable == Spec => []FiguresAreBlocks
<1>1. IInv => FiguresAreBlocks
  <2> SUFFICES ASSUME IInv, NEW i \in DOMAIN bets, bets[i].type \in DOMAIN Shapes,
                      bets[i].stake \in MinBet..MaxBet
               PROVE  /\ phase \in {"spin", "resolve", "settled"} => FitsTheGrid(bets[i])
                      /\ (phase = "invalid" /\ Len(bets) = 1) => ~FitsTheGrid(bets[i])
    BY DEF FiguresAreBlocks
  <2>1. WellFormed(bets[i]) <=> FitsTheGrid(bets[i])
    BY FiguresFit
  <2>2. Len(bets) = 1 => \A j \in DOMAIN bets : j = i
    BY BetsPlaced
  <2>3. Valid(bets[i]) <=> WellFormed(bets[i])
    BY DEF Valid
  <2> QED BY <2>1, <2>2, <2>3 DEF IInv, Checked
<1> QED BY <1>1, AlwaysIInv, PTL
=============================================================================
