-------------------------- MODULE MCRouletteRound --------------------------
(* Requests for TLC: every valid figure, near misses of every kind, and some *)
(* rounds of several bets.                                                   *)
EXTENDS RouletteRound

Bet(type, sel, stake) == [type |-> type, sel |-> sel, stake |-> stake]
On(type, s) == Bet(type, <<"numbers", s>>, MinBet)

Runs(n) == {k..k + n - 1 : k \in 0..37 - n}
Squares == {{n, n + 1, n + 3, n + 4} : n \in 0..32}

Singles ==
         {On("straight", {n}) : n \in 0..37} \cup {On("straight", {1, 2})}
    \cup {On("split", {n, n + d}) : n \in Pockets, d \in 0..4}
    \cup {On("street", s) : s \in Runs(3)} \cup {On("corner", s) : s \in Squares \cup Runs(4)}
    \cup {On("line", s) : s \in Runs(6)}
    \cup {Bet(y, <<"index", i>>, MinBet) : y \in {"dozen", "column", "split"}, i \in 0..4}
    \cup {Bet(y, <<"none">>, s) : y \in BetTypes, s \in {MinBet - 1, MinBet, MaxBet, MaxBet + 1}}
    \cup {Bet("red", <<"index", 1>>, MinBet)}

Some == {Bet("even", <<"none">>, MaxBet), On("straight", {0}), On("line", 1..6),
         On("split", {3, 4}), On("corner", {2, 3, 5, 6})}

AllPlays == {<<b>> : b \in Singles} \cup {<<b, c>> : b, c \in Some}
=============================================================================
