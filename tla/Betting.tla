------------------------------ MODULE Betting ------------------------------
(***************************************************************************)
(* One player's money and seeds: place_bet (services/roulette.py), deposit *)
(* (services/wallet.py) and rotate_seed (services/fairness.py), each one   *)
(* transaction over READ COMMITTED Postgres, interleaved statement by      *)
(* statement.  Players share no row, so one player is the whole system as  *)
(* far as these tables go.                                                 *)
(*                                                                         *)
(* A transaction reads what is committed when a statement runs, an UPDATE  *)
(* locks its row until the transaction ends, and what a transaction has    *)
(* written is private (draft) until it commits.                            *)
(***************************************************************************)
EXTENDS Integers, Sequences

CONSTANTS Bets, Deposits, Rotations,   \* the transactions, by operation
          Amount,      \* total_stake of a bet, amount_minor of a deposit
          Payouts,     \* what resolve_bets may sum up to, 0 for a lost round
          FirstPair,   \* the seed pair register_user creates
          NoTxn        \* the owner of an unlocked row

Txns  == Bets \cup Deposits \cup Rotations
Pairs == Rotations \cup {FirstPair}    \* a rotation creates one pair at most

ASSUME TxnsAssumption ==
    /\ Bets \cap Deposits = {} /\ Bets \cap Rotations = {}
    /\ Deposits \cap Rotations = {}
    /\ NoTxn \notin Txns /\ FirstPair \notin Txns

\* validate_bet, DepositRequest: stakes and deposits are positive.
ASSUME AmountsAssumption ==
    /\ Amount \in [Bets \cup Deposits -> Nat \ {0}]
    /\ Payouts \subseteq Nat

VARIABLES
    balance,      \* wallets.balance_minor
    ledger,       \* ledger_entries, in the order they were committed
    status,       \* seed_pairs.status; "unborn" is a row not there yet
    nonce,        \* seed_pairs.nonce
    rounds,       \* rounds (with their bets), all of them settled
    outbox,       \* outbox rows
    pc,           \* where each transaction is
    balanceAfter, \* its uncommitted wallet balance
    seedPair,     \* the pair it has read
    spent,        \* the nonce it has consumed, uncommitted
    payout,       \* its total_payout
    walletLock,   \* who holds the wallet row
    pairLock      \* who holds each seed_pairs row

db    == <<balance, ledger, status, nonce, rounds, outbox>>
draft == <<balanceAfter, seedPair, spent, payout>>
locks == <<walletLock, pairLock>>
vars  == <<balance, ledger, status, nonce, rounds, outbox,
           pc, balanceAfter, seedPair, spent, payout, walletLock, pairLock>>

Kinds   == {"deposit", "bet_stake", "bet_payout"}
Entries == [txn : Txns, kind : Kinds, amount : Int, after : Int]
Rounds  == [txn : Bets, pair : Pairs, nonce : Nat, stake : Nat, payout : Nat]
Events  == [type : {"bet.placed", "round.settled"}, round : Rounds]
             \cup [type : {"wallet.transaction"}, entry : Entries]

Over    == {"committed", "refused", "integrity", "aborted"}
Labels  == {"start", "debited", "paired", "locked", "settled"} \cup Over

TypeOK == /\ balance \in Int
          /\ ledger \in Seq(Entries)
          /\ status \in [Pairs -> {"unborn", "active", "revealed"}]
          /\ nonce \in [Pairs -> Nat]
          /\ rounds \subseteq Rounds
          /\ outbox \subseteq Events
          /\ pc \in [Txns -> Labels]
          /\ balanceAfter \in [Txns -> Int]
          /\ seedPair \in [Txns -> Pairs]
          /\ spent \in [Txns -> Nat]
          /\ payout \in [Txns -> Nat]
          /\ walletLock \in Txns \cup {NoTxn}
          /\ pairLock \in [Pairs -> Txns \cup {NoTxn}]

\* What register_user leaves behind.
Init == /\ balance = 0
        /\ ledger = << >>
        /\ status = [p \in Pairs |-> IF p = FirstPair THEN "active" ELSE "unborn"]
        /\ nonce = [p \in Pairs |-> 0]
        /\ rounds = {}
        /\ outbox = {}
        /\ pc = [t \in Txns |-> "start"]
        /\ balanceAfter = [t \in Txns |-> 0]
        /\ seedPair = [t \in Txns |-> FirstPair]
        /\ spent = [t \in Txns |-> 0]
        /\ payout = [t \in Txns |-> 0]
        /\ walletLock = NoTxn
        /\ pairLock = [p \in Pairs |-> NoTxn]

Goto(t, l) == pc' = [pc EXCEPT ![t] = l]

\* COMMIT and ROLLBACK release every row lock of the transaction.
Release(t) ==
    /\ walletLock' = IF walletLock = t THEN NoTxn ELSE walletLock
    /\ pairLock' = [p \in Pairs |-> IF pairLock[p] = t THEN NoTxn ELSE pairLock[p]]

\* The transaction ends without having written anything.
Rollback(t, why) == Goto(t, why) /\ Release(t) /\ UNCHANGED db /\ UNCHANGED draft

-----------------------------------------------------------------------------
(* Money: WalletRepository.debit and credit, deposit.                      *)

Debit_ReadModifyWrite(t) ==
    /\ pc[t] = "start" /\ balance >= Amount[t]
    /\ balanceAfter' = [balanceAfter EXCEPT ![t] = balance - Amount[t]]
    /\ Goto(t, "debited")
    /\ UNCHANGED db /\ UNCHANGED <<seedPair, spent, payout>> /\ UNCHANGED locks

Debit_Unconditional(t) ==
    /\ pc[t] = "start" /\ walletLock = NoTxn
    /\ walletLock' = t
    /\ balanceAfter' = [balanceAfter EXCEPT ![t] = balance - Amount[t]]
    /\ Goto(t, "debited")
    /\ UNCHANGED db /\ UNCHANGED <<seedPair, spent, payout, pairLock>>

\* UPDATE wallets SET balance = balance - amount WHERE balance >= amount:
\* waits for the row, then judges the balance that is committed by then.
Debit(t) ==
    /\ pc[t] = "start"
    /\ walletLock = NoTxn
    /\ balance >= Amount[t]
    /\ walletLock' = t
    /\ balanceAfter' = [balanceAfter EXCEPT ![t] = balance - Amount[t]]
    /\ Goto(t, "debited")
    /\ UNCHANGED db /\ UNCHANGED <<seedPair, spent, payout, pairLock>>

\* No row matches: InsufficientFundsError.  A committed balance that is too
\* small is not waited for, even if a deposit is about to commit.
DebitRefused(t) ==
    /\ pc[t] = "start"
    /\ balance < Amount[t]
    /\ Rollback(t, "refused")

\* deposit: the credit, and then nothing else that could wait.
Deposit(t) ==
    /\ pc[t] = "start"
    /\ walletLock = NoTxn
    /\ walletLock' = t
    /\ balanceAfter' = [balanceAfter EXCEPT ![t] = balance + Amount[t]]
    /\ Goto(t, "settled")
    /\ UNCHANGED db /\ UNCHANGED <<seedPair, spent, payout, pairLock>>

-----------------------------------------------------------------------------
(* Seeds: get_active_by_user_id, consume_nonce, the spin, rotate_seed.     *)

\* SELECT ... WHERE status = 'active', with no lock: the pair may be revealed
\* by the time it is used.  A bet gets here with its stake debited.
ReadActive(t) ==
    /\ \/ t \in Bets /\ pc[t] = "debited"
       \/ t \in Rotations /\ pc[t] = "start"
    /\ \E p \in Pairs : /\ status[p] = "active"
                        /\ seedPair' = [seedPair EXCEPT ![t] = p]
    /\ Goto(t, "paired")
    /\ UNCHANGED db /\ UNCHANGED <<balanceAfter, spent, payout>> /\ UNCHANGED locks

ConsumeNonce_ByOne(t) ==
    LET p == seedPair[t]
    IN  /\ pc[t] = "paired" /\ pairLock[p] = NoTxn
        /\ pairLock' = [pairLock EXCEPT ![p] = t]
        /\ spent' = [spent EXCEPT ![t] = nonce[p]]
        /\ Goto(t, "locked")
        /\ UNCHANGED db /\ UNCHANGED <<balanceAfter, seedPair, payout, walletLock>>

\* UPDATE seed_pairs SET nonce = nonce + 1 WHERE id = ...: by id alone.
ConsumeNonce(t) ==
    LET p == seedPair[t]
    IN  /\ pc[t] = "paired"
        /\ pairLock[p] = NoTxn
        /\ pairLock' = [pairLock EXCEPT ![p] = t]
        /\ spent' = [spent EXCEPT ![t] = nonce[p] + 1]
        /\ Goto(t, "locked")
        /\ UNCHANGED db /\ UNCHANGED <<balanceAfter, seedPair, payout, walletLock>>

\* spin, resolve_bets, credit of the winnings on the row already locked, and
\* the inserts of the round, its ledger entries and its events.  Nothing here
\* waits.  UNIQUE(seed_pair_id, nonce) is no guard: NoncesDense says that it
\* has nothing to refuse.
Settle(t) ==
    /\ pc[t] = "locked"
    /\ \E w \in Payouts : /\ payout' = [payout EXCEPT ![t] = w]
                          /\ balanceAfter' = [balanceAfter EXCEPT ![t] = @ + w]
    /\ Goto(t, "settled")
    /\ UNCHANGED db /\ UNCHANGED <<seedPair, spent>> /\ UNCHANGED locks

\* reveal_and_deactivate: UPDATE ... SET status = 'revealed' WHERE id = ...
Reveal(t) ==
    LET p == seedPair[t]
    IN  /\ pc[t] = "paired"
        /\ pairLock[p] = NoTxn
        /\ pairLock' = [pairLock EXCEPT ![p] = t]
        /\ Goto(t, "locked")
        /\ UNCHANGED db /\ UNCHANGED draft /\ UNCHANGED walletLock

\* Active pairs, other than the one t has just revealed, that the partial
\* unique index sees committed.
OtherActive(t) == {p \in Pairs : status[p] = "active" /\ p # seedPair[t]}

CreateActive_NoIndex(t) ==
    /\ pc[t] = "locked"
    /\ Goto(t, "settled")
    /\ UNCHANGED db /\ UNCHANGED draft /\ UNCHANGED locks

CreateActive(t) ==
    /\ pc[t] = "locked"
    /\ OtherActive(t) = {}
    /\ Goto(t, "settled")
    /\ UNCHANGED db /\ UNCHANGED draft /\ UNCHANGED locks

\* uq_one_active_seed_pair_per_user: IntegrityError, once whoever is
\* updating the other active pair has finished.
CreateCollides(t) ==
    /\ pc[t] = "locked"
    /\ OtherActive(t) # {}
    /\ \A p \in OtherActive(t) : pairLock[p] = NoTxn
    /\ Rollback(t, "integrity")

-----------------------------------------------------------------------------
(* What COMMIT makes visible.                                              *)

Entry(t, kind, amount, after) ==
    [txn |-> t, kind |-> kind, amount |-> amount, after |-> after]

\* The stake always, the payout when there is one.
BetEntries(t) ==
    << Entry(t, "bet_stake", -Amount[t], balanceAfter[t] - payout[t]) >>
    \o IF payout[t] > 0
         THEN << Entry(t, "bet_payout", payout[t], balanceAfter[t]) >>
         ELSE << >>

RoundOf(t) == [txn |-> t, pair |-> seedPair[t], nonce |-> spent[t],
               stake |-> Amount[t], payout |-> payout[t]]

WalletEvents(es) == {[type |-> "wallet.transaction", entry |-> es[i]] : i \in DOMAIN es}
GameEvents(r)    == {[type |-> y, round |-> r] : y \in {"bet.placed", "round.settled"}}

\* _enqueue_round_events.
RoundEvents(t) == GameEvents(RoundOf(t)) \cup WalletEvents(BetEntries(t))

CommitBet_KeepsNonce(t) ==
    /\ pc[t] = "settled"
    /\ balance' = balanceAfter[t]
    /\ ledger' = ledger \o BetEntries(t)
    /\ rounds' = rounds \cup {RoundOf(t)}
    /\ outbox' = outbox \cup RoundEvents(t)
    /\ Goto(t, "committed")
    /\ Release(t)
    /\ UNCHANGED <<status, nonce>> /\ UNCHANGED draft

CommitBet(t) ==
    /\ pc[t] = "settled"
    /\ balance' = balanceAfter[t]
    /\ ledger' = ledger \o BetEntries(t)
    /\ nonce' = [nonce EXCEPT ![seedPair[t]] = spent[t]]
    /\ rounds' = rounds \cup {RoundOf(t)}
    /\ outbox' = outbox \cup RoundEvents(t)
    /\ Goto(t, "committed")
    /\ Release(t)
    /\ UNCHANGED status /\ UNCHANGED draft

CommitDeposit(t) ==
    LET es == << Entry(t, "deposit", Amount[t], balanceAfter[t]) >>
    IN  /\ pc[t] = "settled"
        /\ balance' = balanceAfter[t]
        /\ ledger' = ledger \o es
        /\ outbox' = outbox \cup WalletEvents(es)
        /\ Goto(t, "committed")
        /\ Release(t)
        /\ UNCHANGED <<status, nonce, rounds>> /\ UNCHANGED draft

CommitRotation_Retired(t) ==
    /\ pc[t] = "settled"
    /\ status' = [status EXCEPT ![seedPair[t]] = "retired", ![t] = "active"]
    /\ Goto(t, "committed")
    /\ Release(t)
    /\ UNCHANGED <<balance, ledger, nonce, rounds, outbox>> /\ UNCHANGED draft

CommitRotation(t) ==
    /\ pc[t] = "settled"
    /\ status' = [status EXCEPT ![seedPair[t]] = "revealed", ![t] = "active"]
    /\ Goto(t, "committed")
    /\ Release(t)
    /\ UNCHANGED <<balance, ledger, nonce, rounds, outbox>> /\ UNCHANGED draft

Abort_KeepsLocks(t) ==
    /\ pc[t] \notin Over
    /\ Goto(t, "aborted")
    /\ UNCHANGED db /\ UNCHANGED draft /\ UNCHANGED locks

\* statement_timeout, a lost connection, a dying process: ROLLBACK.
Abort(t) ==
    /\ pc[t] \notin Over
    /\ Rollback(t, "aborted")

-----------------------------------------------------------------------------
PlaceBet(t) == \/ Debit(t)        \/ DebitRefused(t) \/ ReadActive(t)
               \/ ConsumeNonce(t) \/ Settle(t)       \/ CommitBet(t)

MakeDeposit(t) == Deposit(t) \/ CommitDeposit(t)

RotateSeed(t) == \/ ReadActive(t)   \/ Reveal(t)         \/ CreateActive(t)
                 \/ CreateCollides(t) \/ CommitRotation(t)

Next == \/ \E t \in Bets : PlaceBet(t)
        \/ \E t \in Deposits : MakeDeposit(t)
        \/ \E t \in Rotations : RotateSeed(t)
        \/ \E t \in Txns : Abort(t)

Spec == Init /\ [][Next]_vars

\* The event loop and Postgres keep serving every open transaction.
Fairness == /\ \A t \in Bets : WF_vars(PlaceBet(t))
            /\ \A t \in Deposits : WF_vars(MakeDeposit(t))
            /\ \A t \in Rotations : WF_vars(RotateSeed(t))

FairSpec == Spec /\ Fairness

-----------------------------------------------------------------------------
(* Properties.                                                             *)

\* "The ledger is the source of truth for money; the wallet's balance is a
\* cache of the sum of these rows" (models/ledger.py): each entry's
\* balance_after continues the previous one's, and the last is the balance.
LedgerExplainsBalance ==
    /\ \A i \in 1..Len(ledger) :
          ledger[i].after = ledger[i].amount + IF i = 1 THEN 0 ELSE ledger[i-1].after
    /\ balance = IF ledger = << >> THEN 0 ELSE ledger[Len(ledger)].after

\* "Two concurrent debits against the same wallet can never leave it
\* negative" (WalletRepository.debit), at no point of its history.
NeverNegative ==
    /\ balance >= 0
    /\ \A i \in 1..Len(ledger) : ledger[i].after >= 0

\* Two concurrent bets never get the same nonce (consume_nonce), and the
\* nonces a pair has spent are exactly the ones its rounds used: no gap is
\* left by an aborted bet, so a player can recompute every spin.
NoncesDense ==
    /\ \A r \in rounds : r.nonce \in 1..nonce[r.pair]
    /\ \A p \in Pairs : \A n \in 1..nonce[p] : \E r \in rounds : r.pair = p /\ r.nonce = n
    /\ \A r, s \in rounds : (r.pair = s.pair /\ r.nonce = s.nonce) => r = s

\* Exactly one pair is active at any moment (the partial unique index of
\* models/fairness.py): rotations never leave two, and never leave none for
\* get_active_by_user_id to fail on with DataIntegrityError.
OneActivePair ==
    \E p \in Pairs : status[p] = "active" /\ \A q \in Pairs : status[q] = "active" => q = p

\* The transactional outbox: there is an event for each round and each ledger
\* entry and for nothing else, so no event announces what was rolled back.
EventsMatchTables ==
    outbox = (UNION {GameEvents(r) : r \in rounds}) \cup WalletEvents(ledger)

\* A revealed pair stays revealed and a round, an entry, a nonce once
\* committed is never taken back: the history a player verifies only grows.
HistoryOnlyGrows ==
    [][/\ \A p \in Pairs : /\ status[p] = "revealed" => status'[p] = "revealed"
                           /\ nonce'[p] >= nonce[p]
       /\ rounds \subseteq rounds'
       /\ SubSeq(ledger', 1, Len(ledger)) = ledger]_vars

\* The lock order (wallet row, then seed pair row) has no cycle, and an
\* aborted transaction leaves no lock behind: every transaction ends.
EveryTransactionEnds == \A t \in Txns : <>(pc[t] \in Over)

\* rotate_seed's docstring: it "reveals the active server_seed (it can no
\* longer be used)": no round is settled with a pair already revealed.
NoSpinOnRevealedSeed ==
    [][\A r \in rounds' \ rounds : status[r.pair] = "active"]_vars

-----------------------------------------------------------------------------
(* Refinement: the interleaved statements implement atomic operations.     *)

Atomic == INSTANCE AtomicBetting WITH done <- {t \in Txns : pc[t] = "committed"}

\* READ COMMITTED, one UPDATE per row and locks held until COMMIT are enough
\* for money and nonces: what players see is a serial history of operations,
\* in the order of their commits.
Serializable == Atomic!Spec
=============================================================================
