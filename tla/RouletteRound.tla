--------------------------- MODULE RouletteRound ---------------------------
(***************************************************************************)
(* The part of place_bet between the request and the database: validate    *)
(* every bet, derive the outcome (domain/fairness.py), resolve the bets    *)
(* (domain/roulette/engine.py).  HMAC-SHA256 is external: a block of its   *)
(* digest may have any value below ChunkSpace.                             *)
(***************************************************************************)
EXTENDS RouletteTable, Sequences, FiniteSets, FiniteSetsExt

CONSTANTS Plays,            \* the lists of bets a request may carry
          MinBet, MaxBet,   \* TABLE_MIN_BET_MINOR, TABLE_MAX_BET_MINOR
          ChunkSpace,       \* _CHUNK_SPACE: the values of a block
          ChunksPerDigest,  \* blocks in one HMAC
          MaxDigests        \* bound: HMACs derive_outcome may ask for

Modulus == Cardinality(Pockets)

ASSUME RoundAssumption ==
    /\ Plays \subseteq Seq(PlacedBet)
    /\ MinBet \in Nat \ {0} /\ MaxBet \in Nat /\ MinBet <= MaxBet
    /\ ChunkSpace \in Nat /\ Modulus <= ChunkSpace
    /\ ChunksPerDigest \in Nat \ {0} /\ MaxDigests \in Nat \ {0}

VARIABLES phase,     \* how far place_bet has got
          bets,      \* placed_bets
          digests,   \* round_index: HMACs used up
          offset,    \* blocks of the current one already rejected
          outcome,   \* the pocket, or -1
          resolved   \* resolve_bets' result

vars == <<phase, bets, digests, offset, outcome, resolved>>

Init == /\ phase = "validate"
        /\ bets \in Plays
        /\ digests = 0
        /\ offset = 0
        /\ outcome = -1
        /\ resolved = << >>

-----------------------------------------------------------------------------
Valid(bet) == bet.stake \in MinBet..MaxBet /\ WellFormed(bet)

\* validate_bet on each bet; the first that fails fails the request.
Validate ==
    /\ phase = "validate"
    /\ phase' = IF \A i \in DOMAIN bets : Valid(bets[i]) THEN "spin" ELSE "invalid"
    /\ UNCHANGED <<bets, digests, offset, outcome, resolved>>

Limit_Whole == ChunkSpace

\* The largest multiple of Modulus that fits: blocks from here on are rejected.
Limit == (ChunkSpace \div Modulus) * Modulus

\* _uniform_below on the next block.
Accept(v) ==
    /\ phase = "spin"
    /\ v < Limit
    /\ outcome' = v % Modulus
    /\ phase' = "resolve"
    /\ UNCHANGED <<bets, digests, offset, resolved>>

\* The block is rejected; after the last one derive_outcome hashes again.
Reject(v) ==
    /\ phase = "spin"
    /\ v >= Limit
    /\ IF offset + 1 < ChunksPerDigest
         THEN offset' = offset + 1 /\ UNCHANGED digests
         ELSE offset' = 0 /\ digests + 1 < MaxDigests /\ digests' = digests + 1
    /\ UNCHANGED <<phase, bets, outcome, resolved>>

\* A ResolvedBet: what the player gets back, stake included.
Resolved(bet, pocket) ==
    IF pocket \in Covered(bet)
      THEN [won |-> TRUE, payout |-> bet.stake * (PayoutRatio[bet.type] + 1)]
      ELSE [won |-> FALSE, payout |-> 0]

\* resolve_bets.
Resolve ==
    /\ phase = "resolve"
    /\ resolved' = [i \in DOMAIN bets |-> Resolved(bets[i], outcome)]
    /\ phase' = "settled"
    /\ UNCHANGED <<bets, digests, offset, outcome>>

Next == \/ Validate
        \/ \E v \in 0..ChunkSpace - 1 : Accept(v) \/ Reject(v)
        \/ Resolve

Spec == Init /\ [][Next]_vars

-----------------------------------------------------------------------------
(* Properties.                                                             *)

\* "No remainder ends up overrepresented" (_uniform_below): as many values of
\* a block lead to the outcome that was drawn as to any other.
OutcomeUnbiased ==
    outcome # -1 =>
        LET Ways(k) == Cardinality({v \in 0..ChunkSpace - 1 : v < Limit /\ v % Modulus = k})
        IN  \A k \in Pockets : Ways(k) = Ways(outcome) /\ Ways(k) > 0

\* The house edge is 1/37 on every bet (test_uniform_house_edge_of_2_70_percent):
\* over the 37 pockets an accepted bet gets back 36 times its stake, whatever
\* figure it is on.  Relates the geometry of the grid to the payout table.
HouseEdge ==
    phase = "settled" =>
        \A i \in DOMAIN bets :
            LET Back(pocket) == Resolved(bets[i], pocket).payout
            IN  MapThenSumSet(Back, Pockets) = 36 * bets[i].stake

\* "A bet that doesn't fit geometrically rejects itself" (table.py): what is
\* accepted inside the grid is a block of cells of the bet's height and width,
\* and every such block within the limits is accepted.
Block(r, c, h, w) == {NumberAt(i, j) : i \in r..r + h - 1, j \in c..c + w - 1}
Shapes == [split |-> {<<1, 2>>, <<2, 1>>}, street |-> {<<3, 1>>},
           corner |-> {<<2, 2>>},          line   |-> {<<3, 2>>}]
FitsTheGrid(bet) ==
    \E s \in Shapes[bet.type] :
        \E r \in 1..RowsN + 1 - s[1], c \in 1..ColsN + 1 - s[2] :
            bet.sel = <<"numbers", Block(r, c, s[1], s[2])>>

FiguresAreBlocks ==
    \A i \in DOMAIN bets :
        (bets[i].type \in DOMAIN Shapes /\ bets[i].stake \in MinBet..MaxBet) =>
            /\ phase \in {"spin", "resolve", "settled"} => FitsTheGrid(bets[i])
            /\ (phase = "invalid" /\ Len(bets) = 1) => ~FitsTheGrid(bets[i])
=============================================================================
