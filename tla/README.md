# The Club API: a TLA+ verification project

The Club is a roulette back end (FastAPI, PostgreSQL, Kafka, Redis, WebSockets).
Its hard part is not the wheel but everything that happens around a bet at the
same time: two bets on one wallet, a seed rotation during a spin, a client's
retry, a relay that dies between Kafka and its COMMIT, a refresh token presented
twice.  The modules here model that code statement by statement, TLC checks them
on small instances, and TLAPS proves the most important results for every value
of the constants.

All source paths are relative to the repository's `src/`.

## 1. Inventory

| Part | Code | State it keeps | Operations | What makes it correct |
|---|---|---|---|---|
| Idempotency keys | `app/services/idempotency.py`, `app/repositories/idempotency.py`, `app/models/idempotency.py` | `idempotency_keys` rows, UNIQUE(user_id, key) | reserve, work + mark, clean up, resolve, reclaim | at most one execution per key; success is honest; nobody is blocked for ever |
| Wallet and ledger | `app/services/wallet.py`, `app/repositories/{wallets,ledger}.py` | `wallets.balance_minor`, append-only `ledger_entries` | deposit, debit, credit | the ledger explains the balance; never negative |
| Seeds and rounds | `app/services/{roulette,fairness}.py`, `app/repositories/{seed_pairs,rounds}.py` | `seed_pairs` (status, nonce), `rounds`, `bets` | place_bet, rotate_seed | dense and unique nonces; one active pair; a revealed seed is not used |
| Outbox and relay | `app/events/{outbox,relay,outbox_cleanup}.py`, `app/repositories/outbox.py` | `outbox` rows, Kafka's partitions | enqueue, lock batch, send, mark, back off, purge | at least once, nothing invented, one sender per row, order |
| Roulette domain | `app/domain/roulette/*`, `app/domain/fairness.py` | none (pure) | validate, derive the outcome, resolve | unbiased outcome; uniform house edge; geometry of the figures |
| Accounts and refresh tokens | `app/services/auth.py`, `app/repositories/{users,refresh_tokens}.py` | `users`, `refresh_tokens` (families) | register, login, refresh, logout | one account per e-mail; exchanged tokens stay dead; reuse ends the family |
| WebSocket hub | `app/ws/{connections,broadcaster}.py`, `app/api/v1/ws.py` | slots, gauge, one bounded queue per subscriber | accept, send, time out, unwind, publish, close_all | no phantom slot; order; loss only to overflow |
| WebSocket rate limit | `app/ws/rate_limit.py` | a Redis counter per window | INCR, EXPIRE | a window ends |
| Access tokens | `app/infra/security.py` | none | encode, decode with rotated secrets | a token signed with any configured secret is accepted |
| HTTP layer | `app/api/deps.py`, `app/api/{errors,middleware}.py`, `app/api/v1/*` | the sessions of a request and their pooled connections | authorise, call a service, answer, commit, handle exceptions | no connection leaks; one response; what is answered about money has been committed; no request hangs |
| Pagination | `app/api/pagination.py`, `list_by_wallet`, `list_by_user` | none; the client keeps the cursor | fetch a page | pages never overlap; nothing committed ahead of the walk is missed |
| Lifespan and readiness | `app/main.py`, `app/api/health.py` | the producer, the engine, two background tasks | start, cancel, stop, dispose; probe | each resource outlives its users |
| Configuration, logging, metrics, Kafka and Redis wrappers, migrations, scripts | `app/config.py`, `app/infra/*`, `alembic/`, `scripts/` | none of their own | | |

### How the parts interact

* A money endpoint (`POST /roulette/rounds`, `POST /wallet/deposits`) calls
  `run_idempotent`, which opens up to three short transactions.  The second runs
  `place_bet` or `deposit` **and** `mark_completed`: the wallet, the ledger, the
  round, the outbox rows and the record of the key commit together.
* `place_bet` takes the wallet row (conditional UPDATE), then reads the active
  seed pair *without* a lock, then takes its row (`consume_nonce`).
  `rotate_seed` only touches seed pairs.
* `enqueue_event` inserts into `outbox` in the caller's transaction.  Relays poll
  with `FOR UPDATE SKIP LOCKED`, send to Kafka *inside* the cycle's transaction
  and commit their marks afterwards.  The cleanup deletes published rows.
* After `run_idempotent` returns, the endpoint publishes to the in-memory
  broadcaster, whether the response is new or replayed.
* `/auth` endpoints run in one request transaction (`deps.get_session`) that rolls
  back on an exception; a detected reuse therefore commits explicitly first.
* Requests, the readiness probe and the two loops share one engine.  A request under
  `get_current_user` keeps the connection of its own session until its response is sent, and
  `run_idempotent` asks the same pool for another, so a money request holds two.
* The session of `get_session` commits when the dependency is unwound, which FastAPI does *after*
  the response.  The money endpoints have committed in sessions of their own by then; `/auth` and
  `rotate_seed` have not.
* At shutdown the lifespan calls `close_all` on the WebSocket registry, cancels the relay and then
  the cleanup, stops the producer and disposes of the engine.

### What is hard here

Everything listed under "hazards" in `PROJECT.json`, each at its line.  The main
families: READ COMMITTED interleavings (a row read without a lock and written by
id), the unguarded DELETEs by id of the idempotency module, effects that escape a
transaction (Kafka), acknowledgements that are lost, a timeout that races the
answer (reclaim), back-offs that reorder, handlers that clean up while
`close_all` cleans up too, requests that wait for a connection while holding one, a COMMIT that
follows the response, and pages ordered by a time that is not the time of the commit.

## 2. Modules

```
OnceOnly       <--refined by--  Idempotency   <-- IdempotencyProofs,  MCIdempotency
AtomicBetting  <--refined by--  Betting       <-- BettingProofs,      MCBetting
AtLeastOnce    <--refined by--  OutboxRelay   <-- OutboxRelayProofs,  MCOutboxRelay
RouletteTable <--extended by-- RouletteRound  <-- RouletteRoundProofs, MCRouletteRound
                                Sessions      <-- SessionsProofs,     MCSessions
                                WsHub         <-- WsHubProofs,        MCWsHub
                                ApiServer     <-- ApiServerProofs,    MCApiServer
                                Keyset        <-- KeysetProofs,       MCKeyset
```

A module has one action per statement (or per stretch between two awaits) of the
code it models.  Definitions named `X_Something` next to `X` are deliberately
wrong variants: each shows that some property fails when the code is changed that way.

### Idempotency

A request is a process.  `row[r]` is the state of the row that `r` inserted, so
"DELETE by id" deletes exactly one request's row, as in the code.
`ReserveWins`/`ReserveLoses` are `_try_reserve`; the `Find…` actions are the unlocked
SELECT of `_resolve_existing` and its branches; `Reclaim` is the DELETE that follows
it, a separate step because anything may commit in between.  `CommitWork`,
`WorkFails`, `Cleanup` are transactions two and three.  `Age(r)` is the passing of
`PENDING_RECLAIM_SECONDS`; `Crash` is the end of a task at any await.
`Faults` names what an instance admits: `crash`, `cleanup_lost`, `slow` (a live owner
outlasts the reclaim window), `ack_lost` (COMMIT applied, reply lost).
The work itself is abstract: it happens once per member of `executed`.
`OnceOnly` is the promise: *Execute*, *Replay* or *Refuse*, each atomic.

### Betting

One player.  Players share no row of these tables, so one player is the whole
system as far as they go.  `Debit`, `ReadActive`, `ConsumeNonce`, `Settle`,
`CommitBet` are `place_bet`; `Deposit`, `CommitDeposit` are `deposit`; `ReadActive`,
`Reveal`, `CreateActive` or `CreateCollides`, `CommitRotation` are `rotate_seed`.
`walletLock` and `pairLock` are Postgres row locks; uncommitted values are private
(`balanceAfter`, `seedPair`, `spent`, `payout`) until COMMIT.  `Abort` is any rollback: a
statement timeout, a lost connection, a dying process.
`AtomicBetting` is what a player sees: each operation happens at once.

### OutboxRelay

The rows of one user and one topic (one partition).  `Begin`/`Commit`/`RollBack` are
business transactions; `started` keeps the order in which they began because
`created_at` is `now()`, the start of the transaction.  `LockBatch`, `LockRow`, `SkipRow`,
`SendOk`, `SendRefused`, `SendAckLost`, `CommitBatch`, `AbortBatch` are a relay's cycle.
`LockBatch` takes the snapshot of the SELECT: the rows that are due, ordered by `created_at`, ties in
any order (`Scans`).  The rows of this `scan` are then locked one by one, up to the `LIMIT`, and another relay
may lock, publish or put off rows in between; those are skipped.  `BackoffEnds` and `Purge` are time.
`log` is what a consumer that deduplicates by `event_id` sees.
`AtLeastOnce` is the promise: its `Safety`, and the liveness that makes `Spec` of it.

### RouletteTable and RouletteRound

The grid, its figures, `BET_SPECS`, the shape of a request (`Selection`, `PlacedBet`),
`covered_numbers`; then `place_bet` between the
request and the database: `Validate`, `Accept`/`Reject` of a block of the HMAC
(`_uniform_below` with `derive_outcome`'s re-hashing), `Resolve`.
HMAC-SHA256 is external: a block may have any value below `ChunkSpace`.

### Sessions

A call to `/auth` is one READ COMMITTED transaction.  A call stores at most one
token, so a token is named by the call that created it and a family by the call that
opened it.  `RegisterReads`/`RegisterInserts` are the check and the INSERT of
`register_user` (UNIQUE(email) makes the second wait, then raise);
`RefreshReads`/`Rotate`/`CommitRotation` are `refresh_access_token`;
`RevokeSelects`, `RevokeRow` for each row of its snapshot, and `CommitRevoke` are
`revoke_family`.  PostgreSQL promises no order in which an UPDATE visits its rows, so two of them can
deadlock on one family (`Deadlocked`).
A wrong password, a suspension, an unknown or expired token are refusals without a
cause.  `rivals` is history: the rotations that overlapped a revocation.

### WsHub

One event loop; a step is what runs between two awaits.  `Register` is `try_register`
(no await between the test and the insertion), `Accept` the end of the handshake
and `subscribe`, `AcceptFails` a handshake that raises; `Take`/`Forward` are `_sender`
before and after `queue.get()` returns; `Finish` is the end of `FIRST_COMPLETED` (a
client that left, the receiver's timeout, a connection that `close_all` closed), `Unwind`
the `finally` clauses.  `CloseAll` empties the registry, `CloseNext` closes one connection
at a time.  Pings, the rate limit and `_authenticate` are inside `Reject`.
When a handler ends, the history kept about its connection is reset, which only
makes the state space smaller.

### ApiServer

The process around the services.  `pc[r]` says where a request is, `conn[r]` whether its
innermost session has asked for a connection or has one, and `out` is the pool's own account of
what is checked out, by session: `<<r, "request">>` is the session of `get_session`, `<<r, "own">>`
the one `run_idempotent` or the probe has opened, `<<t, "own">>` that of a loop.  `Checkout` and
`PoolTimeout` are the pool.  `ReserveWins` to `CleanupFails` are `run_idempotent` again, seen from its
sessions.  As in Idempotency a COMMIT may be applied and its reply lost (`CommitAckLost`), and a pending row may be
taken for an orphan while its owner is still at work (`FindStuck`), which a wait of 30 s for a connection is enough
for; `Reclaim` then deletes it by id, whatever has become of it.  `unacked` and `overtaken` remember whom
either has happened to.  Bodies, the age of a row and a client that comes back are left to Idempotency.  `Raise` is any exception that leaves the endpoint, with the
unwinding of every session and the response of the handler or of
`UnhandledExceptionMiddleware`.  `Respond` comes before `CommitRequest` or `CommitFails`.
`Start` to `Dispose` are the lifespan; `Wake`, `BeginCycle`, `EndCycle` a loop, which logs whatever its
cycle raises and goes on.

### Keyset

`createdAt` is fixed by `Begin` (the clock of the database when the transaction starts, shared by
its rows) and becomes visible with `Commit`; `id` is a random uuid.  `Fetch` is one request: `AfterCursor` is
the WHERE of `list_by_wallet` and `list_by_user`, `IsPage` their ORDER BY and LIMIT, `IsCursor` the
`next_cursor` of the endpoint.  `behind` is history: the rows committed at or above the client's
cursor, or after its last page.

## 3. What is checked

| Run | Properties | Shows |
|---|---|---|
| `IdempotencyCrash` | `TypeOK` `AtMostOnce` `OwnerHoldsKey` `NoRecordLost` `ImplementsPromise` `NotBlockedForever` | with crashes and failed clean-ups a key is executed at most once, no late DELETE hits a record, `OnceOnly` is implemented, and a client that keeps asking gets a final answer |
| `IdempotencyAllFaults` | `HonestSuccess` | what survives slow owners and lost acknowledgements as well |
| `IdempotencySlow` | `AtMostOnce` is **violated** | finding 1 |
| `BettingSafety` | `TypeOK` `LedgerExplainsBalance` `NeverNegative` `NoncesDense` `OneActivePair` `Serializable` `EveryTransactionEnds` | money, nonces and seeds stay consistent under every interleaving and rollback; the statements implement atomic operations; there is no deadlock |
| `BettingRevealed` | `NoSpinOnRevealedSeed` is **violated** | finding 2 |
| `RelayFaults` | `TypeOK` `NeverLost` `OneSender` `DeliversAtLeastOnce` | two relays that lock row by row and the cleanup, under refused sends, lost acknowledgements and aborted cycles, lose no committed event, never handle a row both, and deliver every one |
| `RouletteRound` | `OutcomeUnbiased` `HouseEdge` `FiguresAreBlocks` | no pocket is favoured, each figure returns 36/37 of its stake, exactly the blocks of the grid are accepted |
| `Sessions` | `TypeOK` `ParentsStayRevoked` `SurvivorsRaced` `OnlyItsOwnEnds` `EveryCallEnds` | races of registrations, refreshes, reuse detection and logout, and a deadlock of two revocations |
| `SessionsReuse` | `ReuseEndsFamily` is **violated** | finding 3 |
| `WsHub` | `TypeOK` `SlotsAreTrue` `InOrder` `LossOnlyWhenFull` `DoomedHandlersEnd` | slots and gauge under concurrent clean-ups, order and overflow of the queues, the end of dead connections |
| `ApiServer` | `TypeOK` `PoolAccounted` `OneResponse` `MoneyAnswersAreTrue` `ResourcesOutliveUsers` `EveryRequestEnds` | requests, the probe and the loops that compete for connections while the process starts and stops: nothing leaks, a success about money is true and an error too unless the reply of its COMMIT was lost, nobody waits for ever |
| `Keyset` | `TypeOK` `PagesDescend` `NothingMissed` | a walk over the history while it grows: no page overlaps another, and what a walk may miss is exactly what was committed behind it |

Stated in the modules and proved (section 4) without a run of their own: `EffectIffRecorded`, `EventsMatchTables`,
`NoPhantom`, `Unrivalled`, `LoopsSurvive`, `InOrder` of the outbox, and the action property `HistoryOnlyGrows`.

### Bounds, and why they are enough

* *Idempotency*: four requests for one key, three identical and one with another
  body.  Keys do not interact.  Three identical requests are one owner, one that reclaims
  and one that arrives between the reclaimer's SELECT and its DELETE; the fourth is
  the body conflict.  A `ClientRetries` step starts a request again, so the number of
  attempts is not bounded.
* *Betting*: two bets, two deposits, two rotations; a deposit covers one of the
  bets, so the conditional debit both waits and is refused; a bet may win or lose;
  two rotations collide on the partial unique index.  Each may abort at every
  statement.  `BettingRevealed` needs one of each.
* *Relay*: two relays, batches of two, three rows of which two share a transaction:
  a full batch, a partial one, ties in `created_at`, and rows skipped because the
  other relay holds them.  The run admits `refused`, `ack_lost` and `crash`.  With `overlap`, which lets
transactions overlap, the same properties hold (386,847 states, close to five minutes); the run leaves it
out for the time it takes, and the safety theorems cover it.
* *RouletteRound*: every figure of the table, every number in and just outside it, and
  splits, streets, corners and lines that do not fit; pairs of bets for `resolve_bets`.  `ChunkSpace` = 80
  stands for 2^32: like 2^32 it is not a multiple of 37, and leaves a remainder to reject.
  `MaxDigests` = 2 covers the re-hash.
* *Sessions*: two scenes (`Scenes`, a constraint on which calls arrive; no fairness forces an arrival).  In one
  three registrations (two of one e-mail), a login, two refreshes and a logout; in the other one account,
  three refreshes and a logout, which is what two living tokens of one family and two revocations of them
  take.  Each call is free to present any token stored so far, by any owner.
* *WsHub*: two connections of different users contend for one slot; queues of two messages and three
  publications, so that a queue has an order and a choice of victim, and overflows.  `MaxPublished` bounds the
  publications.  That the queue overflows while its sender also holds a message takes a fourth
  (532,592 states, about two minutes, no error): left to the theorems, which have no such bound.
* *ApiServer*: a money request and its retry under one key, one request of another kind, one probe, of which any
  three arrive (`ThreeArrive`, a constraint; no fairness forces an arrival), both loops, and a pool of **three**.  Two
  money requests that hold one connection each and a loop in a cycle exhaust it and block each other; one connection
  less, and a retry could never run beside its owner.  With three, both exceptions of `MoneyAnswersAreTrue` happen: a
  key executed twice after a reclaim, and after a lost reply.  All four requests together: 183,220 states, two and a
  half minutes, no error.
* *Keyset*: three transactions, of which one (a winning round) inserts two rows of one `created_at`;
  pages of one or two rows, so that the boundary falls between the two; a clock of three values, with
  every assignment of ids.

`CHECK_DEADLOCK FALSE` is set in every configuration because the requests,
transactions or connections of an instance run out; a wait that never ends is what the
liveness properties (`NotBlockedForever`, `EveryTransactionEnds`, `EveryCallEnds`,
`DoomedHandlersEnd`, `EveryRequestEnds`) look for.

### Fairness, and what justifies it

* *Idempotency*: weak fairness of each request (asyncio schedules runnable tasks), of
  `Age` (clocks advance) and of `ClientRetries` (a client told 409 comes back:
  the promise is about such a client).  Faults are never forced.
* *Betting*: weak fairness per transaction.  Postgres grants a free row lock; each
  transaction visits a row once, so none can be overtaken for ever.
* *OutboxRelay*: weak fairness of the cycles (`relay_loop` runs until the process ends)
  and of the back-offs; strong fairness of a successful send of each row (outages
  end), and a time after which cycles are not aborted.  Without the last two Kafka, or the
  database, could simply be down for ever.
* *Sessions*: weak fairness of each call that has arrived, and PostgreSQL's `deadlock_timeout`: a call that stays
  in a deadlock is ended with an error.  Without the latter `EveryCallEnds` fails, with two revocations of one
  family.
* *WsHub*: weak fairness of the handler, of `Take`, of `Forward` to a client that is
  there, and of `close_all`'s loop.  A client that is asleep may hold up a send for
  ever, and then the receiver's timeout must end the handler.

* *ApiServer*: weak fairness of each request that has arrived.  Every wait in it ends: a statement at
  `statement_timeout`, a checkout at `pool_timeout`, the probe at its own two seconds.  Nothing is
  assumed of the loops, which may keep their connection for ever, nor of clients.

### Findings

1. `IdempotencySlow`.  `app/services/idempotency.py:1` promises "at most once per (user_id,
   key)".  A pending row older than 30 s is taken for an orphan whether or not its owner still works, and the
   retry's DELETE by id is not ordered with the owner's COMMIT.  TLC's traces have r2 read the stuck row
   (`FindStuck`); then either r1 commits, its row completed, and r2 deletes that completed record, or r2 deletes the
   pending row first and r1's `mark_completed` updates no row without complaint.  Either way r2 reserves the key again
   and executes the work a second time.
2. `BettingRevealed`.  `app/services/fairness.py:65`: the revealed seed "can no longer be used".
   `place_bet` reads the active pair without a lock and `consume_nonce` updates by id
   alone, so a rotation that commits in between leaves the bet to spin on a public seed.
3. `SessionsReuse`.  `app/services/auth.py:48`: "The entire family is revoked in response."
   `revoke_family` reaches the rows committed when its UPDATE starts; a rotation that
   overlaps it commits a live successor afterwards.  `SurvivorsRaced` (run `Sessions`) says
   that this is the only way a token survives, for a reuse as for a logout.

Remarks that no run is spent on:

* `contracts/events/README.md:15` promises the order of a user's events, as a consequence of the
  partition key.  A row whose send failed waits for `next_attempt_at` (`app/events/relay.py:52`) while the
  rows behind it go out, and `created_at` is not the order of the commits.  `EventsInOrder` (section 4)
  says where the promise does hold.
* `app/api/deps.py:34` says that a session commits "if the handler finishes cleanly"; it commits
  after the response.  When that COMMIT fails, a client of register, login or refresh has been sent
  tokens that do not exist, and one of `rotate_seed` the commitment of a pair that does not.  The money
  endpoints commit before they answer (`MoneyAnswersAreTrue`).
* `app/api/errors.py:70` calls an unmapped exception "a real bug — not something the client could have
  triggered".  `InvalidCursorError` (`app/api/pagination.py:12`) is raised for a cursor that a client
  made up and is mapped nowhere; the pool's `TimeoutError` is not mapped either.  Both are 500s.
* `app/api/pagination.py` promises pages without drift.  They do not overlap, but a row whose transaction began
  before the cursor's and commits after the page was served is never shown to that walk (`behind`).
* `app/ws/rate_limit.py` calls INCR and EXPIRE "a single atomic operation"; a lost EXPIRE leaves a key that
  nothing reads again, since its name holds the window.

* The loser of two concurrent rotations (`CreateCollides`) and of two concurrent
  registrations (label `unmapped`) ends in an `IntegrityError` that nothing maps, a 500,
  although `app/api/errors.py:70` calls an unmapped exception "a real bug".
* `README.md:19` says that the outbox "never loses or duplicates" events; the relay is
  at-least-once, as `contracts/events/README.md` says: a lost acknowledgement or an
  aborted cycle sends a row again, and consumers have to deduplicate.
* With `ack_lost`, `AtMostOnce` does not hold either, and an error no longer means that nothing
  happened: the `except` clause deletes the record of a success whose COMMIT reply was lost.  `IdempotencyAllFaults`
  checks what still holds, and `MoneyAnswersAreTrue` says that no other error follows a COMMIT: a success is of a
  committed execution, an error of a committed one only after a lost reply, and a key is executed twice only if
  one of the two lost its reply or was reclaimed.
* `app/repositories/outbox.py:16` speaks of 2, 4, 8 seconds; the first back-off is 4 s,
  since the exponent is `attempts` after the increment.

## 4. What is proved

For all values of the constants, with every assumption named.

**IdempotencyProofs.**  Under `Timely` (neither `slow` nor `ack_lost`; crashes and failed
clean-ups allowed): `TypeCorrect`, `RunsAtMostOnce`, `OwnershipIsExclusive`,
`RecordsAreKept`, and the refinement `KeepsPromise`.  The
properties are not inductive by themselves, because `Reclaim` deletes by id a row it
read earlier.  The strengthening `IInv` adds that an aged row, and a row somebody is about to
reclaim, belongs to a request that is over for good; that makes the late DELETE harmless.
It also ties each program point to the state of the request's own row.
`EffectsAreRecorded` adds that the work is committed exactly when the key is recorded as completed.
For **all** faults: `OneRowPerKey` (`OneReservation`, through every late DELETE) and `SuccessIsHonest`, from the smaller invariant
`Always`.  The run `IdempotencySlow` shows that the assumption is needed.

**BettingProofs.**  `TypeCorrect`, `LedgerIsTheTruth`, `NoOverdraft`, `EverySpinCanBeVerified`,
`OnePairIsActive`, `OutboxTellsTheTruth` (an event for each committed round and ledger entry and for
nothing else), `HistoryIsKept` (an action property: no step takes back a round, an entry, a spent nonce or a
revealed seed), and the refinement `OperationsAreAtomic`, for any sets of bets,
deposits, rotations, any positive amounts and any natural payouts.  The invariant has
four layers: row locks are held from the statement that takes them to the end (`LocksHeld`);
therefore what a transaction computed from a locked row still holds of it
(`DraftsCurrent`); a rotation about to commit is replacing *the* active pair
(`SeedsInOrder`); and then the money and the nonces.  The refinement maps each COMMIT
to one atomic operation and every other statement to a stutter.

**OutboxRelayProofs.**  `TypeCorrect`, `NoEventIsLost`, `NoEventIsInvented`,
`SendersAreApart`, for any transactions, relays and batch sizes and under all faults.
The invariant adds that uncommitted marks are backed by what Kafka has stored
(`MarksAreBacked`) and that the table is exactly the history of commits (`TableIsHistory`).
`KeepsPromise` is the safety half of the refinement: a COMMIT is a `Happen` of `AtLeastOnce`, the first arrival
of a row its `Deliver`, and every other step, a repeated send included, a stutter.
`EventsInOrder` is the order of a user's events as a consumer first sees them, under `Undelayed`: one relay,
transactions of the user that do not overlap, no refused send.  Aborted cycles and lost
acknowledgements are allowed, and do no harm because a cycle that is taken up again starts with the oldest
pending row.  Its invariant `OrderInv` says that what is ahead was created no earlier than what has arrived and what
the relay has in hand (`Queued`), and that what its SELECT has still to lock lies between the two (`Scanned`).  Each hypothesis is needed: TLC finds a
counterexample to `InOrder` as soon as `refused`, `overlap` or a second relay is admitted.

**KeysetProofs.**  `TypeCorrect`, `PagesGoDown`, `NothingIsMissed`, for any transactions, rows, limits and
clock.  The invariant ties the walk to the table: the table is what committed (`TableIsCommitted`), the
cursor is the lowest row shown (`CursorIsLowest`), and every committed row is shown, behind, or still ahead
of the cursor (`RestIsAhead`).  A transaction that commits while `createdAt` of its rows is above the cursor
is what makes `behind` necessary.

**ApiServerProofs.**  `TypeCorrect`, `PoolIsAccounted`, `AnsweredOnce`, `AnswersAreTrue`, `LifespanInOrder` and
`LoopsEndByCancellation` (`LoopsSurvive`: a loop ends only once the shutdown has cancelled it, whatever its cycles
run into), for any requests, keys and pool size.  The invariant has an account per request (`Connections`: the entries of
`out` that are its own follow from where it is) and per loop (`Loops`); the lemma `RequestFoot` shows that
a step of one request touches nobody else's account, so that each action needs to be looked at once.  `Paid`
ties a key's row to the request that executed it: a request that has executed owns the row until an
own clean-up after a lost reply, or a retry that took it for an orphan, takes it away.

**SessionsProofs.**  `TypeCorrect`, `ExchangedTokensStayDead` (`ParentsStayRevoked`) and
`SessionsAreTheirOwners` (`OnlyItsOwnEnds`, an action property), for any calls and any e-mails.  The invariant:
a call stores its token only once, when it ends well, and the token's family is fixed then (`Born`); so what
a call has read of a stored token's family and owner stays true although it holds no lock on it (`Aims`); the rows
that an UPDATE of a family has still to visit or has locked are stored rows of that family (`Locks`); and a stored successor has a
revoked parent (`Parent`).  `OthersKeep` says once what a step of one call leaves of the others.
`OnlyRivalsOutlive` (`SurvivorsRaced`) is the rule behind finding 3: a token that outlives a reuse or a logout
has in its line a rotation that overlapped the revocation.  The invariant `Raced` follows a `revoke_family` from its
SELECT on: each living token of the family is one that the UPDATE will lock, one that it has locked, or one whose line
has a rival in it.  A line is a recursive function.  That one exists is shown by giving it (`UpExists`), and
that the line of a stored token never changes (`LineStays`) rests on `Founded`: every set of calls has a
member whose parent is outside it.  `UnrivalledRevokeEndsFamily` states the other side: a
reuse or a logout that no rotation overlapped leaves the family without a living token and without a rotation
under way.

**WsHubProofs.**  `TypeCorrect`, `SlotsStayTrue` (`SlotsAreTrue`), `DeliveredInOrder` (`InOrder`),
`LossNeedsFullQueue` (`LossOnlyWhenFull`), for any connections, users, slot and queue limits, and
without a bound on what is published.  The invariant says of each connection that what it has still to be sent is in
its sender's hand or its queue, ascending and above what it has been sent (`Order`), that a connection without
a handler has neither (`Quiet`), and that a message which is in neither has `QueueMax` newer
ones behind it (`Kept`).  The step that matters is `Publish` into a full queue: the queue that is left holds
`QueueMax` different messages, all newer than the one dropped (`AsManyAs`, an injection).

**RouletteRoundProofs.**  `NoPocketIsFavoured` (`OutcomeUnbiased`), `HouseKeepsOneIn37` (`HouseEdge`),
`FiguresFitTheTable` (`FiguresAreBlocks`) and `TypeCorrect`, for any requests, any limits of the table, and any size of
a block from 37 up, of which 2^32 is one.  The invariant is short: past validation every bet is valid
(`Checked`), and the outcome is a pocket.  The work is in the lemmas about the operators.  `AsManyWays` numbers the
values of a block that lead to a pocket, from 1 to `ChunkSpace \div 37`.  `AcceptedPriced` counts the numbers of each
figure, and from the payout table that makes 36 divided by that count, whichever figure it is.  `BackCounts` says that
`MapThenSumSet` returns the prize as many times as the figure has numbers.  That fold is the value of a recursive
function, and the induction theorems of the library are out of reach, so the induction is done by hand: on a smallest
set of pockets for which the count would be wrong.  `SplitsFit`, `StreetsFit`, `CornersFit`
and `LinesFit` compare `table.py`'s lists with the blocks of the grid.

Assumptions on constants (`FaultsAssumption`, `TxnsAssumption`, `AmountsAssumption`,
`RelayAssumption`, `RoundAssumption`, `SessionsAssumption`, `HubAssumption`, `ServerAssumption`,
`KeysetAssumption`) are evaluated by
TLC in the runs that extend their modules.  `RelayAssumption` says among other things that the rows are finitely many,
so that a SELECT can put them in a sequence (`ScanRows`).  `RoundAssumption` also says what a request is: a list of bets whose type
Pydantic has checked, with any selection of a legal shape and any stake.

**Only model-checked.**  All liveness (`NotBlockedForever`, `EveryTransactionEnds`,
`DeliversAtLeastOnce` as a whole, `EveryCallEnds`, `DoomedHandlersEnd`, `EveryRequestEnds`):
fairness and ENABLED are out of the prover's reach.  Every invariant and every action property that a
run checks is also a theorem, as is the safety half of `DeliversAtLeastOnce`.  The three
disagreements of section 3 are TLC's counterexamples.

## 5. Not modelled, and why

* Access tokens and secret rotation (`app/infra/security.py`): pure functions over argon2 and PyJWT that
  keep no state; their outcome is a refusal without a cause in ApiServer, Sessions and WsHub.
* The WebSocket rate limit: one Redis counter per user and window, whose only effect is a refusal
  (`Reject` of WsHub).  slowapi's HTTP limit: configuration of a library (`CutShort` of ApiServer).
* JSON shapes, Pydantic validation, OpenAPI, error bodies, the base64 of a cursor, request ids, logging,
  metrics, settings: no shared state whose interleavings matter.
* aiokafka, redis-py, SQLAlchemy's pool beyond its limit and its timeout: libraries.
* Migrations and scripts: schema creation and tools run by hand; the constraints the
  models rely on are read from `app/models/`.
* Clock skew between the application and the database (the age test of
  `app/services/idempotency.py:104`), the order in which the ASGI server stops accepting and calls
  the lifespan's shutdown, the content of a replayed response that is published
  again (`app/api/v1/roulette.py:140`), the length of a back-off.

## 6. Plan

Done: Idempotency, Betting, OutboxRelay, RouletteTable and RouletteRound, Sessions, WsHub, ApiServer,
Keyset; the proofs of all of them but liveness.

Left, in order of importance:

1. A composition of Idempotency and Betting: a key's second transaction is a bet, so
   "at most once" becomes "the wallet is debited at most once".  `CommitWork` is the only action they share,
   and the two refinements together say as much.
2. The back-off schedule as numbers.

## 7. Running it

```
tlc -workers 2 -config BettingSafety.cfg MCBetting     # any run: its cfg, its MC module
tlapm BettingProofs.tla                                # the proofs of a component
```

The longest runs (`RelayFaults`, `RouletteRound`) take one to two minutes.
