--------------------------- MODULE AtomicBetting ---------------------------
(***************************************************************************)
(* What a player sees of place_bet, deposit and rotate_seed: operations    *)
(* that happen one at a time and all at once, or not at all.  A spin may   *)
(* use any pair that has been published, not only the active one: that is  *)
(* the most the code guarantees (NoSpinOnRevealedSeed in module Betting).  *)
(***************************************************************************)
EXTENDS Integers

CONSTANTS Bets, Deposits, Rotations, Amount, Payouts, FirstPair

VARIABLES balance,   \* the player's money
          status,    \* of each seed pair
          nonce,     \* how many spins each pair has served
          rounds,    \* the rounds played
          done       \* the operations that have happened

vars == <<balance, status, nonce, rounds, done>>

Pairs == Rotations \cup {FirstPair}

Init == /\ balance = 0
        /\ status = [p \in Pairs |-> IF p = FirstPair THEN "active" ELSE "unborn"]
        /\ nonce = [p \in Pairs |-> 0]
        /\ rounds = {}
        /\ done = {}

Happens(t) == t \notin done /\ done' = done \cup {t}

PlaceBet(t) ==
    /\ Happens(t)
    /\ balance >= Amount[t]
    /\ \E p \in Pairs, w \in Payouts :
          /\ status[p] # "unborn"
          /\ balance' = balance - Amount[t] + w
          /\ nonce' = [nonce EXCEPT ![p] = @ + 1]
          /\ rounds' = rounds \cup {[txn |-> t, pair |-> p, nonce |-> nonce[p] + 1,
                                     stake |-> Amount[t], payout |-> w]}
    /\ UNCHANGED status

MakeDeposit(t) ==
    /\ Happens(t)
    /\ balance' = balance + Amount[t]
    /\ UNCHANGED <<status, nonce, rounds>>

RotateSeed(t) ==
    /\ Happens(t)
    /\ \E p \in Pairs :
          /\ status[p] = "active"
          /\ status' = [status EXCEPT ![p] = "revealed", ![t] = "active"]
    /\ UNCHANGED <<balance, nonce, rounds>>

Next == \/ \E t \in Bets : PlaceBet(t)
        \/ \E t \in Deposits : MakeDeposit(t)
        \/ \E t \in Rotations : RotateSeed(t)

Spec == Init /\ [][Next]_vars
=============================================================================
