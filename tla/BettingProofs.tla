--------------------------- MODULE BettingProofs ---------------------------
(***************************************************************************)
(* Proofs about Betting, for any bets, deposits, rotations and amounts.    *)
(***************************************************************************)
EXTENDS Betting, SequenceTheorems, TLAPS

(* The parts of the inductive invariant.                                   *)

\* From the statement that takes a row lock to the end of the transaction.
LocksHeld ==
    /\ \A t \in Bets : pc[t] \in {"debited", "paired", "locked", "settled"}
                          => walletLock = t
    /\ \A t \in Deposits : pc[t] = "settled" => walletLock = t
    /\ \A t \in Bets \cup Rotations : pc[t] \in {"locked", "settled"}
                                         => pairLock[seedPair[t]] = t

\* What a transaction computed from a locked row still holds of that row.
DraftsCurrent ==
    /\ \A t \in Bets :
          /\ pc[t] \in {"debited", "paired", "locked"} =>
                balanceAfter[t] = balance - Amount[t]
          /\ pc[t] = "settled" =>
                /\ balanceAfter[t] = balance - Amount[t] + payout[t]
                /\ payout[t] \in Payouts
          /\ pc[t] \in {"debited", "paired", "locked", "settled"} =>
                balance >= Amount[t]
          /\ pc[t] \in {"locked", "settled"} =>
                spent[t] = nonce[seedPair[t]] + 1
    /\ \A t \in Deposits :
          pc[t] = "settled" => balanceAfter[t] = balance + Amount[t]

\* A rotation about to commit is replacing the active pair: whoever else
\* wanted to replace it is waiting for its row.
SeedsInOrder ==
    /\ OneActivePair
    /\ \A t \in Bets \cup Rotations :
          pc[t] \in {"paired", "locked", "settled"} => status[seedPair[t]] # "unborn"
    /\ \A t \in Rotations :
          /\ pc[t] = "settled" => status[seedPair[t]] = "active"
          /\ pc[t] # "committed" => status[t] = "unborn"

Labelled == /\ \A t \in Deposits : pc[t] \in {"start", "settled"} \cup Over
            /\ \A t \in Rotations : pc[t] # "debited"

IInv == /\ TypeOK
        /\ Labelled
        /\ LocksHeld
        /\ DraftsCurrent
        /\ SeedsInOrder
        /\ LedgerExplainsBalance
        /\ NeverNegative
        /\ NoncesDense

USE TxnsAssumption, AmountsAssumption
USE DEF Txns, Pairs, Labels, Over, Goto

-----------------------------------------------------------------------------
\* A commit appends one entry or two, and they are of the right shape.
LEMMA EntryType ==
    ASSUME NEW t \in Txns, NEW k \in Kinds, NEW a \in Int, NEW b \in Int
    PROVE  Entry(t, k, a, b) \in Entries
BY DEF Entry, Entries

LEMMA ConcatType ==
    ASSUME NEW S, NEW a \in Seq(S), NEW b \in Seq(S) PROVE a \o b \in Seq(S)
OBVIOUS

LEMMA BetEntriesType ==
    ASSUME TypeOK, NEW t \in Bets PROVE BetEntries(t) \in Seq(Entries)
<1>1. balanceAfter[t] \in Int /\ payout[t] \in Nat /\ Amount[t] \in Nat
  BY DEF TypeOK
<1>2. /\ Entry(t, "bet_stake", -Amount[t], balanceAfter[t] - payout[t]) \in Entries
      /\ Entry(t, "bet_payout", payout[t], balanceAfter[t]) \in Entries
  BY <1>1, EntryType DEF Kinds
<1> QED
  BY <1>2 DEF BetEntries

LEMMA InitIInv == Init => IInv
<1> SUFFICES ASSUME Init PROVE IInv
  OBVIOUS
<1> USE DEF Init
<1>1. TypeOK
  BY DEF TypeOK
<1>2. Labelled /\ LocksHeld /\ DraftsCurrent /\ SeedsInOrder
  BY DEF Labelled, LocksHeld, DraftsCurrent, SeedsInOrder, OneActivePair
<1>3. LedgerExplainsBalance /\ NeverNegative
  BY DEF LedgerExplainsBalance, NeverNegative
<1>4. NoncesDense
  BY DEF NoncesDense
<1> QED
  BY <1>1, <1>2, <1>3, <1>4 DEF IInv

\* Types: only a commit writes to the tables.
LEMMA StepType == ASSUME IInv, [Next]_vars PROVE TypeOK'
<1> USE DEF IInv, TypeOK, Release, Rollback, db, draft, locks
<1>1. ASSUME NEW t \in Bets, CommitBet(t) PROVE TypeOK'
  <2>1. BetEntries(t) \in Seq(Entries)
    BY BetEntriesType
  <2>2. RoundOf(t) \in Rounds
    BY DEF RoundOf, Rounds
  <2>3. \A i \in DOMAIN BetEntries(t) : BetEntries(t)[i] \in Entries
    BY <2>1
  <2>4. RoundEvents(t) \subseteq Events
    BY <2>2, <2>3 DEF RoundEvents, GameEvents, WalletEvents, Events
  <2> QED
    BY <1>1, <2>1, <2>2, <2>4 DEF CommitBet
<1>2. ASSUME NEW t \in Deposits, CommitDeposit(t) PROVE TypeOK'
  <2> DEFINE e == Entry(t, "deposit", Amount[t], balanceAfter[t])
  <2>1. e \in Entries
    BY EntryType DEF Kinds
  <2>2. WalletEvents(<<e>>) \subseteq Events
    BY <2>1 DEF WalletEvents, Events
  <2>3. /\ ledger' = ledger \o <<e>>
        /\ outbox' = outbox \cup WalletEvents(<<e>>)
    BY <1>2 DEF CommitDeposit
  <2>4. ledger' \in Seq(Entries)
    <3>1. <<e>> \in Seq(Entries)
      BY <2>1
    <3> QED
      BY <2>3, <3>1, ConcatType
  <2>5. outbox' \subseteq Events
    BY <2>2, <2>3
  <2> QED
    BY <1>2, <2>4, <2>5 DEF CommitDeposit
<1>3. ASSUME NEW t \in Rotations, CommitRotation(t) PROVE TypeOK'
  BY <1>3 DEF CommitRotation
<1>4. ASSUME NEW t \in Bets, Debit(t) PROVE TypeOK'
  BY <1>4 DEF Debit
<1>5. ASSUME NEW t \in Bets, DebitRefused(t) PROVE TypeOK'
  BY <1>5 DEF DebitRefused
<1>6. ASSUME NEW t \in Deposits, Deposit(t) PROVE TypeOK'
  BY <1>6 DEF Deposit
<1>7. ASSUME NEW t \in Bets \cup Rotations, ReadActive(t) PROVE TypeOK'
  BY <1>7 DEF ReadActive
<1>8. ASSUME NEW t \in Bets, ConsumeNonce(t) PROVE TypeOK'
  BY <1>8 DEF ConsumeNonce
<1>9. ASSUME NEW t \in Bets, Settle(t) PROVE TypeOK'
  BY <1>9 DEF Settle
<1>10. ASSUME NEW t \in Rotations, Reveal(t) PROVE TypeOK'
  BY <1>10 DEF Reveal
<1>11. ASSUME NEW t \in Rotations, CreateActive(t) PROVE TypeOK'
  BY <1>11 DEF CreateActive
<1>12. ASSUME NEW t \in Rotations, CreateCollides(t) PROVE TypeOK'
  BY <1>12 DEF CreateCollides
<1>13. ASSUME NEW t \in Txns, Abort(t) PROVE TypeOK'
  BY <1>13 DEF Abort
<1>14. CASE UNCHANGED vars
  BY <1>14 DEF vars
<1> QED
  BY <1>1, <1>2, <1>3, <1>4, <1>5, <1>6, <1>7, <1>8, <1>9, <1>10, <1>11, <1>12,
     <1>13, <1>14
  DEF Next, PlaceBet, MakeDeposit, RotateSeed

\* Outside of COMMIT the tables do not change.
LEMMA OnlyCommitsWrite ==
    ASSUME [Next]_vars
    PROVE  \/ UNCHANGED db
           \/ \E t \in Bets : CommitBet(t)
           \/ \E t \in Deposits : CommitDeposit(t)
           \/ \E t \in Rotations : CommitRotation(t)
<1>1. CASE UNCHANGED vars
  BY <1>1 DEF vars, db
<1> QED
  BY <1>1
  DEF Next, PlaceBet, MakeDeposit, RotateSeed, Debit, DebitRefused, Deposit,
      ReadActive, ConsumeNonce, Settle, Reveal, CreateActive, CreateCollides,
      Abort, Rollback

\* Operations only reach their own programme points.
LEMMA StepLabelled == ASSUME IInv, [Next]_vars PROVE Labelled'
<1> USE DEF IInv, TypeOK, Labelled, Rollback
<1>1. ASSUME NEW t \in Bets, PlaceBet(t) PROVE Labelled'
  BY <1>1 DEF PlaceBet, Debit, DebitRefused, ReadActive, ConsumeNonce, Settle, CommitBet
<1>2. ASSUME NEW t \in Deposits, MakeDeposit(t) PROVE Labelled'
  BY <1>2 DEF MakeDeposit, Deposit, CommitDeposit
<1>3. ASSUME NEW t \in Rotations, RotateSeed(t) PROVE Labelled'
  BY <1>3
  DEF RotateSeed, ReadActive, Reveal, CreateActive, CreateCollides, CommitRotation
<1>4. ASSUME NEW t \in Txns, Abort(t) PROVE Labelled'
  BY <1>4 DEF Abort
<1>5. CASE UNCHANGED vars
  BY <1>5 DEF vars
<1> QED
  BY <1>1, <1>2, <1>3, <1>4, <1>5 DEF Next

\* Locks: taken when free, kept until COMMIT or ROLLBACK.
LEMMA StepLocks == ASSUME IInv, [Next]_vars PROVE LocksHeld'
<1> USE DEF IInv, TypeOK, Labelled, LocksHeld, draft, locks
<1>1. ASSUME NEW t \in Bets, Debit(t) PROVE LocksHeld'
  BY <1>1 DEF Debit
<1>2. ASSUME NEW t \in Deposits, Deposit(t) PROVE LocksHeld'
  BY <1>2 DEF Deposit
<1>3. ASSUME NEW t \in Bets \cup Rotations, ReadActive(t) PROVE LocksHeld'
  BY <1>3 DEF ReadActive
<1>4. ASSUME NEW t \in Bets, ConsumeNonce(t) PROVE LocksHeld'
  BY <1>4 DEF ConsumeNonce
<1>5. ASSUME NEW t \in Bets, Settle(t) PROVE LocksHeld'
  BY <1>5 DEF Settle
<1>6. ASSUME NEW t \in Rotations, Reveal(t) PROVE LocksHeld'
  BY <1>6 DEF Reveal
<1>7. ASSUME NEW t \in Rotations, CreateActive(t) PROVE LocksHeld'
  BY <1>7 DEF CreateActive
<1>8. ASSUME NEW t \in Txns, NEW l \in Over, Goto(t, l), Release(t), UNCHANGED draft
      PROVE LocksHeld'
  BY <1>8 DEF Release
<1>9. CASE UNCHANGED vars
  BY <1>9 DEF vars
<1> QED
  BY <1>1, <1>2, <1>3, <1>4, <1>5, <1>6, <1>7, <1>8, <1>9
  DEF Next, PlaceBet, MakeDeposit, RotateSeed, Rollback, DebitRefused, CommitBet,
      CommitDeposit, CommitRotation, CreateCollides, Abort

\* A row read under its lock is still what it was: DraftsCurrent survives.
LEMMA StepDrafts == ASSUME IInv, [Next]_vars PROVE DraftsCurrent'
<1> USE DEF IInv, TypeOK, Labelled, LocksHeld, DraftsCurrent, db, draft, locks
<1>1. ASSUME NEW t \in Bets, Debit(t) PROVE DraftsCurrent'
  BY <1>1 DEF Debit
<1>2. ASSUME NEW t \in Deposits, Deposit(t) PROVE DraftsCurrent'
  BY <1>2 DEF Deposit
<1>3. ASSUME NEW t \in Bets \cup Rotations, ReadActive(t) PROVE DraftsCurrent'
  BY <1>3 DEF ReadActive
<1>4. ASSUME NEW t \in Bets, ConsumeNonce(t) PROVE DraftsCurrent'
  BY <1>4 DEF ConsumeNonce
<1>5. ASSUME NEW t \in Bets, Settle(t) PROVE DraftsCurrent'
  BY <1>5 DEF Settle
<1>6. ASSUME NEW t \in Rotations, NEW l \in Labels, Goto(t, l), UNCHANGED db, UNCHANGED draft
      PROVE DraftsCurrent'
  BY <1>6
<1>7. ASSUME NEW t \in Txns, NEW l \in Over, Goto(t, l), UNCHANGED db, UNCHANGED draft
      PROVE DraftsCurrent'
  BY <1>7
<1>8. ASSUME NEW t \in Bets, CommitBet(t) PROVE DraftsCurrent'
  <2>1. \A u \in Bets \cup Deposits : u # t =>
           pc[u] \notin {"debited", "paired", "locked", "settled"}
    BY <1>8 DEF CommitBet
  <2> QED
    BY <1>8, <2>1 DEF CommitBet
<1>9. ASSUME NEW t \in Deposits, CommitDeposit(t) PROVE DraftsCurrent'
  <2>1. \A u \in Bets \cup Deposits : u # t =>
           pc[u] \notin {"debited", "paired", "locked", "settled"}
    BY <1>9 DEF CommitDeposit
  <2> QED
    BY <1>9, <2>1 DEF CommitDeposit
<1>10. ASSUME NEW t \in Rotations, CommitRotation(t) PROVE DraftsCurrent'
  BY <1>10 DEF CommitRotation
<1>11. CASE UNCHANGED vars
  BY <1>11 DEF vars
<1> HIDE DEF IInv, TypeOK, Labelled, LocksHeld, DraftsCurrent
<1> QED
  BY <1>1, <1>2, <1>3, <1>4, <1>5, <1>6, <1>7, <1>8, <1>9, <1>10, <1>11
  DEF Next, PlaceBet, MakeDeposit, RotateSeed, Rollback, DebitRefused, Reveal,
      CreateActive, CreateCollides, Abort

\* Seeds: the active pair is replaced, under its lock, by the new one.
LEMMA StepSeeds == ASSUME IInv, [Next]_vars PROVE SeedsInOrder'
<1> USE DEF IInv, TypeOK, Labelled, LocksHeld, SeedsInOrder, db, draft, locks
<1>0. UNCHANGED status => OneActivePair'
  BY DEF OneActivePair
<1>1. ASSUME NEW t \in Bets, Debit(t) PROVE SeedsInOrder'
  BY <1>0, <1>1 DEF Debit
<1>2. ASSUME NEW t \in Deposits, Deposit(t) PROVE SeedsInOrder'
  BY <1>0, <1>2 DEF Deposit
<1>3. ASSUME NEW t \in Bets \cup Rotations, ReadActive(t) PROVE SeedsInOrder'
  BY <1>0, <1>3 DEF ReadActive
<1>4. ASSUME NEW t \in Bets, ConsumeNonce(t) PROVE SeedsInOrder'
  BY <1>0, <1>4 DEF ConsumeNonce
<1>5. ASSUME NEW t \in Bets, Settle(t) PROVE SeedsInOrder'
  BY <1>0, <1>5 DEF Settle
<1>6. ASSUME NEW t \in Rotations, Reveal(t) PROVE SeedsInOrder'
  BY <1>0, <1>6 DEF Reveal
<1>7. ASSUME NEW t \in Rotations, CreateActive(t) PROVE SeedsInOrder'
  <2>1. PICK p \in Pairs : status[p] = "active"
    BY DEF OneActivePair
  <2>2. status[seedPair[t]] = "active"
    BY <1>7, <2>1 DEF CreateActive, OtherActive
  <2>3. pc[t] = "locked" /\ pc' = [pc EXCEPT ![t] = "settled"] /\ UNCHANGED db /\ UNCHANGED draft
    BY <1>7 DEF CreateActive
  <2> QED
    BY <1>0, <2>2, <2>3
<1>8. ASSUME NEW t \in Txns, NEW l \in Over, pc[t] \notin Over, l # "committed",
             Goto(t, l), UNCHANGED db, UNCHANGED draft
      PROVE SeedsInOrder'
  <2>1. \A u \in Txns : pc'[u] = IF u = t THEN l ELSE pc[u]
    BY <1>8
  <2> QED
    BY <1>0, <1>8, <2>1
<1>9. ASSUME NEW t \in Bets \cup Deposits, Goto(t, "committed"),
             UNCHANGED status, UNCHANGED draft
      PROVE SeedsInOrder'
  BY <1>0, <1>9
<1>10. ASSUME NEW t \in Rotations, CommitRotation(t) PROVE SeedsInOrder'
  <2>1. /\ status[seedPair[t]] = "active" /\ status[t] = "unborn"
        /\ pc' = [pc EXCEPT ![t] = "committed"]
        /\ status' = [status EXCEPT ![seedPair[t]] = "revealed", ![t] = "active"]
        /\ UNCHANGED draft
    BY <1>10 DEF CommitRotation
  <2>2. \A p \in Pairs : status'[p] = IF p = t THEN "active"
                                     ELSE IF p = seedPair[t] THEN "revealed"
                                     ELSE status[p]
    BY <2>1
  <2>3. OneActivePair'
    <3>1. \A p \in Pairs : status[p] = "active" => p = seedPair[t]
      BY <2>1 DEF OneActivePair
    <3>2. \A p \in Pairs : status'[p] = "active" => p = t
      BY <2>2, <3>1
    <3>3. status'[t] = "active" /\ t \in Pairs
      BY <2>2
    <3> QED
      BY <3>2, <3>3 DEF OneActivePair
  <2>4. \A u \in Rotations : u # t => pc[u] # "settled"
    <3>1. \A u \in Rotations : pc[u] = "settled" => seedPair[u] = seedPair[t]
      BY <2>1 DEF OneActivePair
    <3> QED
      BY <3>1, <1>10 DEF CommitRotation
  <2> QED
    BY <2>1, <2>2, <2>3, <2>4
<1>11. CASE UNCHANGED vars
  BY <1>0, <1>11 DEF vars
<1> HIDE DEF IInv, TypeOK, Labelled, LocksHeld, SeedsInOrder
<1> QED
  BY <1>1, <1>2, <1>3, <1>4, <1>5, <1>6, <1>7, <1>8, <1>9, <1>10, <1>11
  DEF Next, PlaceBet, MakeDeposit, RotateSeed, Rollback, DebitRefused, CommitBet,
      CommitDeposit, CreateCollides, Abort

-----------------------------------------------------------------------------
\* A ledger l that explains a balance b, and was never negative.
Chain(l, b) ==
    /\ \A i \in 1..Len(l) :
          /\ l[i].after = l[i].amount + IF i = 1 THEN 0 ELSE l[i-1].after
          /\ l[i].after >= 0
    /\ b = IF l = << >> THEN 0 ELSE l[Len(l)].after

LEMMA ChainIsMoney == Chain(ledger, balance) <=> LedgerExplainsBalance /\ NeverNegative
<1>1. ASSUME Chain(ledger, balance) PROVE balance >= 0
  <2>1. CASE ledger = << >>
    BY <1>1, <2>1 DEF Chain
  <2>2. CASE ledger # << >>
    BY <1>1, <2>2 DEF Chain
  <2> QED
    BY <2>1, <2>2
<1> QED
  BY <1>1 DEF Chain, LedgerExplainsBalance, NeverNegative

\* Appending an entry that continues the last one keeps the ledger a chain.
LEMMA ChainAppend ==
    ASSUME NEW l \in Seq(Entries), NEW b \in Int, Chain(l, b),
           NEW e \in Entries, e.after = e.amount + b, e.after >= 0
    PROVE  Chain(l \o <<e>>, e.after)
<1> DEFINE m == l \o <<e>>
<1>1. /\ m = Append(l, e)
      /\ m # << >>
      /\ Len(l) \in Nat
      /\ Len(m) = Len(l) + 1
      /\ \A i \in 1..Len(l) : m[i] = l[i]
      /\ m[Len(l) + 1] = e
  BY AppendProperties, AppendIsConcat, LenProperties
<1> HIDE DEF m
<1>2. l = << >> <=> Len(l) = 0
  OBVIOUS
<1>3. ASSUME NEW i \in 1..Len(m)
      PROVE  /\ m[i].after = m[i].amount + IF i = 1 THEN 0 ELSE m[i-1].after
             /\ m[i].after >= 0
  <2>1. CASE i \in 1..Len(l)
    <3>1. m[i] = l[i] /\ (i # 1 => m[i-1] = l[i-1])
      BY <1>1, <2>1
    <3> QED
      BY <2>1, <3>1 DEF Chain
  <2>2. CASE i = Len(l) + 1
    <3>1. m[i] = e /\ (i # 1 => m[i-1] = l[Len(l)])
      BY <1>1, <2>2
    <3>2. b = IF i = 1 THEN 0 ELSE l[Len(l)].after
      BY <1>2, <2>2 DEF Chain
    <3> QED
      BY <3>1, <3>2
  <2> QED
    BY <1>1, <2>1, <2>2
<1> QED
  BY <1>1, <1>3 DEF Chain, m

\* Money: the balance moves only together with the entries that explain it.
LEMMA StepMoney ==
    ASSUME IInv, [Next]_vars PROVE LedgerExplainsBalance' /\ NeverNegative'
<1> USE DEF IInv, TypeOK
<1>1. Chain(ledger, balance)
  BY ChainIsMoney
<1>2. SUFFICES Chain(ledger', balance')
  BY ChainIsMoney DEF Chain, LedgerExplainsBalance, NeverNegative
<1>3. CASE UNCHANGED <<balance, ledger>>
  BY <1>1, <1>3
<1>4. ASSUME NEW t \in Deposits, CommitDeposit(t) PROVE Chain(ledger', balance')
  <2> DEFINE e == Entry(t, "deposit", Amount[t], balanceAfter[t])
  <2>1. e \in Entries /\ e.after = balanceAfter[t] /\ e.amount = Amount[t]
    BY EntryType DEF Kinds, Entry
  <2>2. balanceAfter[t] = balance + Amount[t] /\ balance >= 0
    BY <1>4 DEF CommitDeposit, DraftsCurrent, NeverNegative
  <2>3. e.after = e.amount + balance /\ e.after >= 0
    BY <2>1, <2>2
  <2>4. ledger' = ledger \o <<e>> /\ balance' = e.after
    BY <1>4, <2>1 DEF CommitDeposit
  <2> HIDE DEF e
  <2>5. Chain(ledger \o <<e>>, e.after)
    BY <1>1, <2>1, <2>3, ChainAppend
  <2> QED
    BY <2>4, <2>5
<1>5. ASSUME NEW t \in Bets, CommitBet(t) PROVE Chain(ledger', balance')
  <2> DEFINE e == Entry(t, "bet_stake", -Amount[t], balanceAfter[t] - payout[t])
             f == Entry(t, "bet_payout", payout[t], balanceAfter[t])
  <2>1. /\ e \in Entries /\ e.after = balanceAfter[t] - payout[t] /\ e.amount = -Amount[t]
        /\ f \in Entries /\ f.after = balanceAfter[t] /\ f.amount = payout[t]
    BY EntryType DEF Kinds, Entry
  <2>2. /\ balanceAfter[t] = balance - Amount[t] + payout[t]
        /\ balance >= Amount[t]
        /\ payout[t] \in Nat /\ Amount[t] \in Nat
    BY <1>5 DEF CommitBet, DraftsCurrent
  <2>3. ledger' = ledger \o BetEntries(t) /\ balance' = balanceAfter[t]
    BY <1>5 DEF CommitBet
  <2>4. BetEntries(t) = <<e>> \o IF payout[t] > 0 THEN <<f>> ELSE << >>
    BY DEF BetEntries
  <2> HIDE DEF e, f
  <2>5. Chain(ledger \o <<e>>, e.after)
    <3>1. e.after = e.amount + balance /\ e.after >= 0
      BY <2>1, <2>2
    <3> QED
      BY <1>1, <2>1, <3>1, ChainAppend
  <2>6. <<e>> \in Seq(Entries) /\ <<f>> \in Seq(Entries) /\ ledger \o <<e>> \in Seq(Entries)
    BY <2>1, ConcatType
  <2>7. CASE payout[t] > 0
    <3>1. ledger' = (ledger \o <<e>>) \o <<f>>
      BY <2>3, <2>4, <2>6, <2>7, ConcatAssociative
    <3>2. f.after = f.amount + e.after /\ f.after >= 0 /\ e.after \in Int
      BY <2>1, <2>2
    <3>3. Chain((ledger \o <<e>>) \o <<f>>, f.after)
      BY <2>1, <2>5, <2>6, <3>2, ChainAppend
    <3> QED
      BY <2>1, <2>3, <3>1, <3>3
  <2>8. CASE ~(payout[t] > 0)
    <3>1. ledger' = ledger \o <<e>>
      BY <2>3, <2>4, <2>6, <2>8, ConcatEmptySeq
    <3>2. balance' = e.after
      BY <2>1, <2>2, <2>3, <2>8
    <3> QED
      BY <2>5, <3>1, <3>2
  <2> QED
    BY <2>7, <2>8
<1>6. ASSUME NEW t \in Rotations, CommitRotation(t) PROVE UNCHANGED <<balance, ledger>>
  BY <1>6 DEF CommitRotation
<1> QED
  BY <1>3, <1>4, <1>5, <1>6, OnlyCommitsWrite DEF db

-----------------------------------------------------------------------------
\* Nonces: a commit adds the one round that uses the next nonce of its pair.
LEMMA StepNonces == ASSUME IInv, [Next]_vars PROVE NoncesDense'
<1> USE DEF IInv, TypeOK
<1>1. CASE UNCHANGED <<nonce, rounds>>
  BY <1>1 DEF NoncesDense
<1>2. ASSUME NEW t \in Bets, CommitBet(t) PROVE NoncesDense'
  <2> DEFINE p == seedPair[t]
             R == RoundOf(t)
  <2>1. /\ p \in Pairs /\ nonce[p] \in Nat
        /\ R.pair = p /\ R.nonce = nonce[p] + 1
        /\ rounds' = rounds \cup {R}
        /\ nonce' = [nonce EXCEPT ![p] = nonce[p] + 1]
    BY <1>2 DEF CommitBet, DraftsCurrent, RoundOf
  <2>2. \A r \in rounds : r.pair \in Pairs /\ r.nonce \in Nat
    BY DEF Rounds
  <2> HIDE DEF R, p
  <2>3. \A q \in Pairs : nonce'[q] = IF q = p THEN nonce[p] + 1 ELSE nonce[q]
    BY <2>1
  <2>4. ASSUME NEW r \in rounds' PROVE r.nonce \in 1..nonce'[r.pair]
    <3>1. CASE r = R
      BY <2>1, <2>3, <3>1
    <3>2. CASE r \in rounds
      <4>1. r.nonce \in 1..nonce[r.pair]
        BY <3>2 DEF NoncesDense
      <4>2. nonce'[r.pair] \in Nat /\ nonce'[r.pair] >= nonce[r.pair]
        BY <2>1, <2>2, <2>3, <3>2
      <4>3. nonce[r.pair] \in Nat
        BY <2>2, <3>2
      <4> QED
        BY <2>2, <3>2, <4>1, <4>2, <4>3
    <3> QED
      BY <2>1, <3>1, <3>2
  <2>5. ASSUME NEW q \in Pairs, NEW n \in 1..nonce'[q]
        PROVE  \E r \in rounds' : r.pair = q /\ r.nonce = n
    <3>1. CASE q = p /\ n = nonce[p] + 1
      BY <2>1, <3>1
    <3>2. CASE ~(q = p /\ n = nonce[p] + 1)
      <4>1. n \in 1..nonce[q]
        BY <2>1, <2>3, <2>5, <3>2
      <4>2. PICK r \in rounds : r.pair = q /\ r.nonce = n
        BY <4>1 DEF NoncesDense
      <4> QED
        BY <2>1, <4>2
    <3> QED
      BY <3>1, <3>2
  <2>6. ASSUME NEW r \in rounds', NEW s \in rounds', r.pair = s.pair, r.nonce = s.nonce
        PROVE  r = s
    <3>1. \A x \in rounds : ~(x.pair = p /\ x.nonce = nonce[p] + 1)
      BY <2>1 DEF NoncesDense
    <3> QED
      BY <2>1, <2>6, <3>1 DEF NoncesDense
  <2> QED
    BY <2>4, <2>5, <2>6 DEF NoncesDense
<1>3. ASSUME NEW t \in Deposits, CommitDeposit(t) PROVE UNCHANGED <<nonce, rounds>>
  BY <1>3 DEF CommitDeposit
<1>4. ASSUME NEW t \in Rotations, CommitRotation(t) PROVE UNCHANGED <<nonce, rounds>>
  BY <1>4 DEF CommitRotation
<1> QED
  BY <1>1, <1>2, <1>3, <1>4, OnlyCommitsWrite DEF db

-----------------------------------------------------------------------------
\* The invariant holds in every reachable state.
LEMMA Invariance == Spec => []IInv
<1>1. ASSUME IInv, [Next]_vars PROVE IInv'
  BY <1>1, StepType, StepLabelled, StepLocks, StepDrafts, StepSeeds, StepMoney, StepNonces
  DEF IInv
<1> QED
  BY <1>1, InitIInv, PTL DEF Spec

\* Every table and every local variable keeps its type.
THEOREM TypeCorrect == Spec => []TypeOK
<1>1. IInv => TypeOK
  BY DEF IInv
<1> QED
  BY <1>1, Invariance, PTL

\* The wallet's balance is what the ledger adds up to, entry by entry.
THEOREM LedgerIsTheTruth == Spec => []LedgerExplainsBalance
<1>1. IInv => LedgerExplainsBalance
  BY DEF IInv
<1> QED
  BY <1>1, Invariance, PTL

\* No interleaving of debits overdraws the wallet, now or in its history.
THEOREM NoOverdraft == Spec => []NeverNegative
<1>1. IInv => NeverNegative
  BY DEF IInv
<1> QED
  BY <1>1, Invariance, PTL

\* Each nonce of a pair is spent by exactly one round, and none is skipped.
THEOREM EverySpinCanBeVerified == Spec => []NoncesDense
<1>1. IInv => NoncesDense
  BY DEF IInv
<1> QED
  BY <1>1, Invariance, PTL

\* At any moment the player has one active seed pair.
THEOREM OnePairIsActive == Spec => []OneActivePair
<1>1. IInv => OneActivePair
  BY DEF IInv, SeedsInOrder
<1> QED
  BY <1>1, Invariance, PTL

-----------------------------------------------------------------------------
(* The outbox and the history.                                             *)

LEMMA WalletEventsOfConcat ==
    ASSUME NEW a \in Seq(Entries), NEW b \in Seq(Entries)
    PROVE  WalletEvents(a \o b) = WalletEvents(a) \cup WalletEvents(b)
<1>1. /\ DOMAIN a = 1..Len(a) /\ DOMAIN b = 1..Len(b)
      /\ Len(a) \in Nat /\ Len(b) \in Nat
  BY LenProperties
<1>2. /\ DOMAIN (a \o b) = 1..(Len(a) + Len(b))
      /\ \A i \in 1..(Len(a) + Len(b)) :
            (a \o b)[i] = IF i <= Len(a) THEN a[i] ELSE b[i - Len(a)]
  <2>1. /\ a \o b \in Seq(Entries) /\ Len(a \o b) = Len(a) + Len(b)
        /\ \A i \in 1..(Len(a) + Len(b)) :
              (a \o b)[i] = IF i <= Len(a) THEN a[i] ELSE b[i - Len(a)]
    BY ConcatProperties
  <2>2. DOMAIN (a \o b) = 1..Len(a \o b)
    BY <2>1, LenProperties
  <2> QED BY <2>1, <2>2
<1> HIDE <1>1, <1>2
<1>3. \A i \in DOMAIN a : i \in DOMAIN (a \o b) /\ (a \o b)[i] = a[i]
  BY <1>1, <1>2
<1>4. \A i \in DOMAIN b : /\ i + Len(a) \in DOMAIN (a \o b)
                          /\ (a \o b)[i + Len(a)] = b[i]
  <2> TAKE i \in DOMAIN b
  <2>1. /\ i \in Nat /\ i + Len(a) \in 1..(Len(a) + Len(b))
        /\ ~(i + Len(a) <= Len(a)) /\ (i + Len(a)) - Len(a) = i
    BY <1>1
  <2> QED BY <1>2, <2>1
<1>5. \A i \in DOMAIN (a \o b) :
         \/ \E j \in DOMAIN a : (a \o b)[i] = a[j]
         \/ \E j \in DOMAIN b : (a \o b)[i] = b[j]
  <2> TAKE i \in DOMAIN (a \o b)
  <2>1. i \in 1..(Len(a) + Len(b))
    BY <1>2
  <2>2. CASE i <= Len(a)
    <3>1. i \in DOMAIN a /\ (a \o b)[i] = a[i]
      BY <1>1, <1>2, <2>1, <2>2
    <3> QED BY <3>1
  <2>3. CASE ~(i <= Len(a))
    <3>1. i - Len(a) \in DOMAIN b /\ (a \o b)[i] = b[i - Len(a)]
      BY <1>1, <1>2, <2>1, <2>3
    <3> QED BY <3>1
  <2> QED BY <2>2, <2>3
<1> DEFINE E(e) == [type |-> "wallet.transaction", entry |-> e]
           W(s) == {E(s[i]) : i \in DOMAIN s}
<1> HIDE DEF E
<1>6. W(a \o b) = W(a) \cup W(b)
  <2>1. \A i \in DOMAIN (a \o b) : E((a \o b)[i]) \in W(a) \cup W(b)
    BY <1>5
  <2>2. \A i \in DOMAIN a : E(a[i]) \in W(a \o b)
    BY <1>3
  <2>3. \A i \in DOMAIN b : E(b[i]) \in W(a \o b)
    BY <1>4
  <2> QED BY <2>1, <2>2, <2>3
<1> QED
  BY <1>6 DEF WalletEvents, E

\* A commit writes the events of the very rows it inserts.
LEMMA StepEvents ==
    ASSUME IInv, EventsMatchTables, [Next]_vars PROVE EventsMatchTables'
<1>1. ledger \in Seq(Entries)
  BY DEF IInv, TypeOK
<1>2. ASSUME NEW t \in Bets, CommitBet(t) PROVE EventsMatchTables'
  <2>1. WalletEvents(ledger \o BetEntries(t))
          = WalletEvents(ledger) \cup WalletEvents(BetEntries(t))
    BY <1>1, BetEntriesType, WalletEventsOfConcat DEF IInv
  <2>2. UNION {GameEvents(r) : r \in rounds \cup {RoundOf(t)}}
          = (UNION {GameEvents(r) : r \in rounds}) \cup GameEvents(RoundOf(t))
    OBVIOUS
  <2>3. /\ ledger' = ledger \o BetEntries(t) /\ rounds' = rounds \cup {RoundOf(t)}
        /\ outbox' = outbox \cup GameEvents(RoundOf(t)) \cup WalletEvents(BetEntries(t))
    BY <1>2 DEF CommitBet, RoundEvents
  <2> QED
    BY <2>1, <2>2, <2>3 DEF EventsMatchTables, WalletEvents, GameEvents
<1>3. ASSUME NEW t \in Deposits, CommitDeposit(t) PROVE EventsMatchTables'
  <2> DEFINE es == << Entry(t, "deposit", Amount[t], balanceAfter[t]) >>
  <2>1. es \in Seq(Entries)
    <3>1. balanceAfter[t] \in Int /\ Amount[t] \in Int
      BY DEF IInv, TypeOK
    <3>2. Entry(t, "deposit", Amount[t], balanceAfter[t]) \in Entries
      BY <3>1, EntryType DEF Kinds
    <3> QED BY <3>2
  <2>2. /\ ledger' = ledger \o es /\ rounds' = rounds
        /\ outbox' = outbox \cup WalletEvents(es)
    BY <1>3 DEF CommitDeposit
  <2> HIDE DEF es
  <2>3. WalletEvents(ledger \o es) = WalletEvents(ledger) \cup WalletEvents(es)
    BY <1>1, <2>1, WalletEventsOfConcat
  <2> QED
    BY <2>2, <2>3 DEF EventsMatchTables, WalletEvents, GameEvents
<1>4. ASSUME NEW t \in Rotations, CommitRotation(t) PROVE EventsMatchTables'
  BY <1>4 DEF CommitRotation, EventsMatchTables, WalletEvents, GameEvents
<1>5. CASE UNCHANGED db
  BY <1>5 DEF db, EventsMatchTables, WalletEvents, GameEvents
<1> QED
  BY <1>2, <1>3, <1>4, <1>5, OnlyCommitsWrite

\* There is an event for each round and each ledger entry, and for nothing
\* else: the transactional outbox.
THEOREM OutboxTellsTheTruth == Spec => []EventsMatchTables
<1>1. Init => EventsMatchTables
  BY DEF Init, EventsMatchTables, WalletEvents
<1> QED
  BY <1>1, StepEvents, Invariance, PTL DEF Spec

Grows == /\ \A p \in Pairs : /\ status[p] = "revealed" => status'[p] = "revealed"
                             /\ nonce'[p] >= nonce[p]
         /\ rounds \subseteq rounds'
         /\ SubSeq(ledger', 1, Len(ledger)) = ledger

LEMMA PrefixOfConcat ==
    ASSUME NEW a \in Seq(Entries), NEW b \in Seq(Entries)
    PROVE  SubSeq(a \o b, 1, Len(a)) = a
<1>1. CASE a = << >>
  BY <1>1, SubSeqEmpty, ConcatProperties, LenProperties
<1>2. CASE a # << >>
  <2>1. Len(a) \in Nat \ {0}
    BY <1>2, EmptySeq, LenProperties
  <2>2. 1 \in 1..Len(a) /\ Len(a) \in 1..Len(a)
    BY <2>1
  <2> QED BY <2>2, SubSeqFull, SubSeqOfConcat1
<1> QED BY <1>1, <1>2

LEMMA StepHistory == ASSUME IInv, [Next]_vars PROVE Grows
<1>1. ledger \in Seq(Entries) /\ nonce \in [Pairs -> Nat]
  BY DEF IInv, TypeOK
<1>2. SubSeq(ledger, 1, Len(ledger)) = ledger
  BY <1>1, SubSeqFull
<1>3. ASSUME NEW t \in Bets, CommitBet(t) PROVE Grows
  <2>1. /\ ledger' = ledger \o BetEntries(t) /\ rounds' = rounds \cup {RoundOf(t)}
        /\ status' = status /\ nonce' = [nonce EXCEPT ![seedPair[t]] = spent[t]]
    BY <1>3 DEF CommitBet
  <2>2. SubSeq(ledger', 1, Len(ledger)) = ledger
    BY <1>1, <2>1, PrefixOfConcat, BetEntriesType DEF IInv
  <2>3. spent[t] = nonce[seedPair[t]] + 1
    BY <1>3 DEF IInv, DraftsCurrent, CommitBet
  <2>4. \A p \in Pairs : nonce'[p] >= nonce[p]
    BY <1>1, <2>1, <2>3
  <2> QED
    BY <2>1, <2>2, <2>4 DEF Grows
<1>4. ASSUME NEW t \in Deposits, CommitDeposit(t) PROVE Grows
  <2> DEFINE es == << Entry(t, "deposit", Amount[t], balanceAfter[t]) >>
  <2>1. es \in Seq(Entries)
    <3>1. balanceAfter[t] \in Int /\ Amount[t] \in Int
      BY DEF IInv, TypeOK
    <3>2. Entry(t, "deposit", Amount[t], balanceAfter[t]) \in Entries
      BY <3>1, EntryType DEF Kinds
    <3> QED BY <3>2
  <2>2. ledger' = ledger \o es /\ UNCHANGED <<status, nonce, rounds>>
    BY <1>4 DEF CommitDeposit
  <2> HIDE DEF es
  <2>3. SubSeq(ledger', 1, Len(ledger)) = ledger
    BY <1>1, <2>1, <2>2, PrefixOfConcat
  <2>4. \A p \in Pairs : nonce[p] >= nonce[p]
    BY <1>1
  <2> QED
    BY <2>2, <2>3, <2>4 DEF Grows
<1>5. ASSUME NEW t \in Rotations, CommitRotation(t) PROVE Grows
  <2>1. /\ UNCHANGED <<ledger, nonce, rounds>>
        /\ status' = [status EXCEPT ![seedPair[t]] = "revealed", ![t] = "active"]
    BY <1>5 DEF CommitRotation
  <2>2. status[t] = "unborn" /\ status \in [Pairs -> {"unborn", "active", "revealed"}]
    BY <1>5 DEF CommitRotation, IInv, SeedsInOrder, TypeOK
  <2>3. \A p \in Pairs : status[p] = "revealed" => status'[p] = "revealed"
    BY <2>1, <2>2
  <2>4. \A p \in Pairs : nonce[p] >= nonce[p]
    BY <1>1
  <2> QED
    BY <1>2, <2>1, <2>3, <2>4 DEF Grows
<1>6. CASE UNCHANGED db
  <2>1. \A p \in Pairs : nonce[p] >= nonce[p]
    BY <1>1
  <2> QED
    BY <1>2, <1>6, <2>1 DEF db, Grows
<1> QED
  BY <1>3, <1>4, <1>5, <1>6, OnlyCommitsWrite

\* What a player verifies is never taken back: a revealed pair stays so, no
\* nonce goes back, no round and no ledger entry is removed or changed.
THEOREM HistoryIsKept == Spec => HistoryOnlyGrows
<1>1. IInv /\ [Next]_vars => [Grows]_vars
  BY StepHistory
<1> QED
  BY <1>1, Invariance, PTL DEF Spec, HistoryOnlyGrows, Grows

-----------------------------------------------------------------------------
(* Refinement: the operations are atomic, in the order of their commits.   *)

Done == {t \in Txns : pc[t] = "committed"}

\* Reaching "committed" is what adds an operation to the history.
LEMMA GotoDone ==
    ASSUME TypeOK, NEW t \in Txns, NEW l \in Labels, Goto(t, l), pc[t] # "committed"
    PROVE  Done' = IF l = "committed" THEN Done \cup {t} ELSE Done
BY DEF TypeOK, Done

LEMMA StepAtomic ==
    ASSUME IInv, [Next]_vars PROVE [Atomic!Next]_(Atomic!vars)
<1> USE DEF IInv, TypeOK
<1>1. ASSUME UNCHANGED db, Done' = Done PROVE UNCHANGED Atomic!vars
  BY <1>1 DEF Atomic!vars, db, Done
<1>2. ASSUME NEW t \in Bets, CommitBet(t) PROVE Atomic!PlaceBet(t)
  <2>1. Done' = Done \cup {t} /\ t \notin Done
    BY <1>2, GotoDone DEF CommitBet, Done
  <2>2. /\ seedPair[t] \in Pairs /\ payout[t] \in Payouts
        /\ status[seedPair[t]] # "unborn"
        /\ balance >= Amount[t]
        /\ balance' = balance - Amount[t] + payout[t]
        /\ UNCHANGED status
    BY <1>2 DEF CommitBet, DraftsCurrent, SeedsInOrder
  <2>3. /\ nonce' = [nonce EXCEPT ![seedPair[t]] = nonce[seedPair[t]] + 1]
        /\ rounds' = rounds \cup {[txn |-> t, pair |-> seedPair[t],
                                   nonce |-> nonce[seedPair[t]] + 1,
                                   stake |-> Amount[t], payout |-> payout[t]]}
    BY <1>2 DEF CommitBet, DraftsCurrent, RoundOf
  <2> QED
    BY <2>1, <2>2, <2>3 DEF Atomic!PlaceBet, Atomic!Happens, Atomic!Pairs, Done
<1>3. ASSUME NEW t \in Deposits, CommitDeposit(t) PROVE Atomic!MakeDeposit(t)
  <2>1. Done' = Done \cup {t} /\ t \notin Done
    BY <1>3, GotoDone DEF CommitDeposit, Done
  <2>2. balance' = balance + Amount[t] /\ UNCHANGED <<status, nonce, rounds>>
    BY <1>3 DEF CommitDeposit, DraftsCurrent
  <2> QED
    BY <2>1, <2>2 DEF Atomic!MakeDeposit, Atomic!Happens, Done
<1>4. ASSUME NEW t \in Rotations, CommitRotation(t) PROVE Atomic!RotateSeed(t)
  <2>1. Done' = Done \cup {t} /\ t \notin Done
    BY <1>4, GotoDone DEF CommitRotation, Done
  <2>2. /\ seedPair[t] \in Pairs /\ status[seedPair[t]] = "active"
        /\ status' = [status EXCEPT ![seedPair[t]] = "revealed", ![t] = "active"]
        /\ UNCHANGED <<balance, nonce, rounds>>
    BY <1>4 DEF CommitRotation, SeedsInOrder
  <2> QED
    BY <2>1, <2>2 DEF Atomic!RotateSeed, Atomic!Happens, Atomic!Pairs, Done
<1>5. ASSUME NEW t \in Txns, NEW l \in Labels, Goto(t, l), pc[t] \notin Over,
             l # "committed", UNCHANGED db
      PROVE UNCHANGED Atomic!vars
  BY <1>1, <1>5, GotoDone
<1>6. CASE UNCHANGED vars
  BY <1>1, <1>6 DEF vars, db, Done
<1> HIDE DEF IInv, TypeOK
<1> QED
  BY <1>2, <1>3, <1>4, <1>5, <1>6
  DEF Next, PlaceBet, MakeDeposit, RotateSeed, Debit, DebitRefused, Deposit,
      ReadActive, ConsumeNonce, Settle, Reveal, CreateActive, CreateCollides,
      Abort, Rollback, Atomic!Next

\* Row locks and single-statement updates make READ COMMITTED serializable
\* here: money, seeds and nonces evolve as if operations ran one by one.
THEOREM OperationsAreAtomic == Spec => Serializable
<1>1. Init => Atomic!Init
  BY DEF Init, Atomic!Init, Atomic!Pairs
<1>2. IInv /\ [Next]_vars => [Atomic!Next]_(Atomic!vars)
  BY StepAtomic
<1> QED
  BY <1>1, <1>2, Invariance, PTL DEF Spec, Serializable, Atomic!Spec
=============================================================================
