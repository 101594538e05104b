--------------------------- MODULE RouletteTable ---------------------------
(***************************************************************************)
(* domain/roulette/table.py and bets.py: the grid, the figures that can be *)
(* bet on, what they pay, and which numbers a bet covers.                  *)
(*                                                                         *)
(* A selection is <<"none">> (an empty dict), <<"numbers", S>> or          *)
(* <<"index", i>>.  The list under "numbers" is its set of numbers: the    *)
(* code turns it into a frozenset before it looks at it.                   *)
(***************************************************************************)
EXTENDS Integers

Pockets == 0..36
Grid    == 1..36
RowsN   == 3
ColsN   == 12

RED_NUMBERS   == {1, 3, 5, 7, 9, 12, 14, 16, 18, 19, 21, 23, 25, 27, 30, 32, 34, 36}
BLACK_NUMBERS == Grid \ RED_NUMBERS

RowOf(n)       == ((n - 1) % RowsN) + 1
ColOf(n)       == (n - 1) \div RowsN + 1
NumberAt(r, c) == (c - 1) * RowsN + r

Street(c) == {NumberAt(r, c) : r \in 1..RowsN}
Column(r) == {NumberAt(r, c) : c \in 1..ColsN}

VALID_STREETS == {Street(c) : c \in 1..ColsN}
VALID_CORNERS == {{NumberAt(r, c), NumberAt(r + 1, c),
                   NumberAt(r, c + 1), NumberAt(r + 1, c + 1)} :
                     r \in 1..RowsN - 1, c \in 1..ColsN - 1}
VALID_LINES   == {Street(c) \cup Street(c + 1) : c \in 1..ColsN - 1}

\* Neighbours in print order, not on the grid.
VALID_SPLITS_Wrapping ==
    {{n, n + RowsN} : n \in {m \in Grid : ColOf(m) < ColsN}} \cup {{n, n + 1} : n \in 1..35}

VALID_SPLITS ==
         {{n, NumberAt(RowOf(n), ColOf(n) + 1)} : n \in {m \in Grid : ColOf(m) < ColsN}}
    \cup {{n, NumberAt(RowOf(n) + 1, ColOf(n))} : n \in {m \in Grid : RowOf(m) < RowsN}}

Dozen(i) == (12 * (i - 1) + 1)..(12 * i)

\* As in a game whose six-line pays 6 to 1.
PayoutRatio_RichLine == [straight |-> 35, split |-> 17, street |-> 11, corner |-> 8,
                         line |-> 6, dozen |-> 2, column |-> 2, red |-> 1, black |-> 1,
                         odd |-> 1, even |-> 1, high |-> 1, low |-> 1]

\* BET_SPECS.
PayoutRatio == [straight |-> 35, split |-> 17, street |-> 11, corner |-> 8, line |-> 5,
                dozen |-> 2, column |-> 2, red |-> 1, black |-> 1,
                odd |-> 1, even |-> 1, high |-> 1, low |-> 1]

BetTypes == DOMAIN PayoutRatio

Selection == {<<"none">>} \cup ({"numbers"} \X SUBSET Int) \cup ({"index"} \X Int)
PlacedBet == [type : BetTypes, sel : Selection, stake : Int]

-----------------------------------------------------------------------------
(* covered_numbers.                                                        *)

FixedSelections == [red  |-> RED_NUMBERS,
                    black |-> BLACK_NUMBERS,
                    odd  |-> {n \in 1..36 : n % 2 = 1},
                    even |-> {n \in Pockets : n >= 2 /\ n % 2 = 0},
                    high |-> 19..36,
                    low  |-> 1..18]

NumbersSelections == [straight |-> {{n} : n \in Pockets},
                      split    |-> VALID_SPLITS,
                      street   |-> VALID_STREETS,
                      corner   |-> VALID_CORNERS,
                      line     |-> VALID_LINES]

IndexSelections == [dozen  |-> [i \in 1..3 |-> Dozen(i)],
                    column |-> [i \in 1..3 |-> Column(i)]]

\* The sets it may return; none of them is InvalidBetError.
Covers(type, sel) ==
    IF type \in DOMAIN FixedSelections
      THEN IF sel = <<"none">> THEN {FixedSelections[type]} ELSE {}
    ELSE IF type \in DOMAIN NumbersSelections
      THEN {s \in NumbersSelections[type] : sel = <<"numbers", s>>}
    ELSE {IndexSelections[type][i] : i \in {j \in 1..3 : sel = <<"index", j>>}}

WellFormed(bet) == Covers(bet.type, bet.sel) # {}
Covered(bet)    == UNION Covers(bet.type, bet.sel)
=============================================================================
