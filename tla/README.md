# Wallet-App in TLA+

A specification of the wallet backend: how money moves between accounts, how a
requested transaction travels from the API through an outbox, Kafka and a
handler to its outcome, and what holds when replicas run side by side, crash,
and see messages twice.

## 1. The system

Three Go services share one PostgreSQL, one Redis and one Kafka topic.

| Part | State it keeps | Operations | Where |
|---|---|---|---|
| api-gateway | none; its tokens are with the clients | a route per operation: JWT check, checks of the request, one RPC | `api-gateway/` |
| auth-service | `users`, `user_auth`, token in Redis | RegisterUser, LoginUser | `auth-service/internal` |
| wallet-service, request side | lock per (user, account) in Redis, `transaction_outbox` | Deposit, Withdraw, Transfer (all through `OutboxInsert`), OpenAccount, GetBalance, ListTransactions | `wallet-service/internal/infra/grpc`, `services`, `repository` |
| wallet-service, relay | status, retry count, next attempt of an outbox row | `OutboxRelay.CheckAndRelay`, `readAndRelay` | `services/outbox_relay_service.go` |
| wallet-service, consumer | consumer group offsets, dead letter topic | `ConsumeMessage`, `EventDispatcher.Handle` | `shared/events/kafka.go`, `services/event_dispatcher.go` |
| wallet-service, handlers | `accounts.balance`, `transactions.status` | deposit, withdraw, transfer | `services/wallet-serice.go`, `repository/wallet_repository.go` |
| each service's `main` | connections, workers, the server | connect with backoff, serve, stop on a signal, close | `*/cmd/main.go`, `shared/db`, `shared/cache`, `shared/events`, `shared/retry` |
| balance cache | an entry per account in Redis, 5 minutes | GetOrStoreAccountBalance | `shared/cache/client.go` |

A request takes the account's lock (SETNX), writes an outbox row and is
answered. A relay claims the row, publishes it and marks it. A replica of the
consumer dispatches the event to a handler, which writes a pending ledger row,
moves the funds in a second transaction, and writes the outcome and frees the
lock in a third. Nothing but row locks, the lock in Redis, the claim of an
outbox row and the partition assignment keeps these apart.

What is hard in it, in the order the specification takes it up:

* each handler is three PostgreSQL transactions; a crash, an error or another
  delivery may come between any two statements, under READ COMMITTED;
* an account's balance is recomputed as a SUM over the ledger, so a SUM that a
  concurrent commit made stale would be written as the truth;
* a claimed outbox row is protected by nothing but a 30 second rule;
* Kafka redelivers; the consumer goes on after an error, and a commit of the
  next offset passes what failed;
* the lock in Redis is per account and is deleted by whoever ends *a*
  transaction of that account;
* checks and writes apart: the limit of accounts, the balance a withdrawal
  reads, the session a login looks for, the credentials the gateway looks at
  after it has registered them;
* pages are offsets into an order that changes between two of them, and page
  numbers, sizes and amounts are narrowed on their way;
* a signal may come at any moment, also while `main` connects, and the closes
  race with the relay, the consumer and the calls in progress.

`hazards` in `PROJECT.json` lists these at their lines, with the properties
that would catch them going wrong.

## 2. The modules

| Module | Models | State | Actions |
|---|---|---|---|
| `LedgerData` | payloads, lock order, the SUM of `reconcileBalance`, the table constraints | constants only | - |
| `AtomicLedger` | the promise: record, then settle or reject, once | `status`, `balance` | Record, Settle, Reject |
| `Ledger` | the handlers, one step per SQL statement | the two tables, row locks, staged writes, a program counter per replica | Deposit, Withdraw, Transfer, LockFirst ... CommitFunds, UpdateTransactionStatus, DbError, Crash |
| `Outbox` | outbox rows and relays with one goroutine per row | row status, retries, claims, goroutines, the topic | InsertRow, ClaimBatch, Start, PublishOk/Error, MarkPublished, MarkPublishFailure, MarkFailed, ReleaseIdempotency, time, crash |
| `Consumer` | `ConsumeMessage` in every replica, with the group | partitions, owners, offsets, dead letters | Assign, Revoke, FetchMessage, Dispatch*, AppendToDlq, CommitMessages, crash |
| `TransactionFlow` | `Outbox` and `Consumer` composed through the topic, with the lock in Redis | theirs, and request, lock, status | OutboxInsert in two steps, the relays, the replicas, the handler in two steps, expiry of the lock |
| `SerialTransactions` | the promise of that composition: the transactions of an account go one after the other | `phase`, `status` | Accept, Record, End |
| `AccountOpening` | OpenAccount calls side by side | accounts per currency, calls | Count, Insert, ReturnError |
| `BalanceCache` | GetBalance beside commits | balance, cache entry, calls | Call, FindAccount, GetEntry, SetEntry, CacheError, Expire, CommitBalance |
| `AccountCalls` | both, as the gRPC server runs them: each call in its own goroutine | theirs | CreateAccountStep, GetBalanceStep |
| `AuthSession` | RegisterUser and LoginUser of auth-service, side by side | users with their passwords, sessions, tokens in Redis, calls | RegisterUser, InsertUser, LoginUser, GetTokenByUserId, InsertToken, StoreToken, CallFails, TokenExpires |
| `Gateway` | every route of api-gateway before `AuthSession` | its variables, HTTP requests, access tokens, RPCs sent to wallet-service, time | Handle*, Protected (the middleware), RegisterReturns, LoginReturns, WalletReturns, GatewayExits |
| `Conversions` | text, int32 and int8 of a page; int64, JSON and float64 of an amount | constants only | - |
| `Listing` | a client that follows the pages while handlers record | rows with `created_at`, the client's page and what it has seen | RecordTransaction, Begin, ListTransactions, PageNotParsed, ListFails |
| `Backoff` | `WithBackoff` under its caller's deadline | attempt, wait, clock | OperationAsks/Succeeds/Fails, WaitIsOver, ContextDone, BackoffTick |
| `Lifecycle` | the three `main` functions, over `Backoff` | connections, server, relay, consumer, calls, where `main` is | one per statement of `main` that starts, stops or closes, ServeFails, Signal, the workers, the calls |

The theorems are in `LedgerProofs`, `OutboxProofs`, `ConsumerProofs`, `FlowProofs`
(about `TransactionFlow`), `GatewayProofs` (about `Gateway` and `AuthSession`),
`AccountOpeningProofs`, `LifecycleProofs` (about `Lifecycle` and `Backoff`) and
`ListingProofs`, each of which extends the module it is about and states the
inductive invariants it needs.

`MCx` instantiates `x` for TLC; the operators marked *Mutant* in a module are
plausible bugs of the code, each of which must break the property named beside
it in `PROJECT.json`.

### How the code is abstracted

*Ledger.* One step is one SQL statement. `acctLock` is `SELECT ... FOR UPDATE`,
`rowLock` the lock of the UPDATE that flips a pending row; a statement that
needs a lock another transaction holds is not enabled. `staged` are balances
written and not yet committed, `Rollback` drops them and the locks. What
`withdraw` reads of the balance at its start is kept (`overLimit`) because the
code uses it again after `CreatePendingTransaction`. A deposit and a withdrawal
name their account as both `from` and `to`, as the payload does. Account ids are
naturals because the code orders them to decide which to lock first. Currency,
timestamps and ids of rows are left out: every statement carries them through.

*Outbox.* Time is two facts of a row: its backoff is over (`due`), its claim is
older than 30 seconds (`stale`). Backoff lengths are left out. The payload is
malformed or not.

*Consumer.* Broker and group are external and modelled from their use: one owner
per partition, a new owner starts at the committed offset, a commit from a
replica that lost the partition is refused.

*TransactionFlow.* The handler is the pending row and the outcome; `Ledger`
shows what its statements do. The outbox and the consumer share the variable
`log` and the fault counter. A key that expires when nothing is left to do for its
transaction is the TTL at work; one that expires earlier is a fault and counted as one.
An INSERT may be refused, or take effect and be reported as an error
(`InsertOutboxAnswerLost`); the code frees the lock either way. The UPDATE of an
outcome may fail: its error is ignored for `completed`, and the lock then stays.

*BalanceCache.* A balance is the number of transactions it includes, so older and
newer can be told apart.

*AuthSession, Gateway.* An HTTP request makes at most one RPC, so request, call and
the id a registration makes up are one set. A password is its length and whether
it has all four classes; a hash is the password it is of, so what bcrypt refuses
(more than 72 bytes) is a guard. Name and email may refuse any registration. An
access token is its user and the time it was made, and nobody else can make one.
`log.Fatalf` in `HandleListTransactions` loses every request in progress; what
auth-service does for them goes on.

*Conversions, Listing.* Widths are constants, so that a few rows reach every edge.
A number is text only in that a text may be no number or one that does not fit. A
float64 keeps `MantissaBits` significant bits, rounds half to even, and is printed
as the shortest decimal that reads back as itself. A page is one SELECT.
`created_at` is the start of the recording transaction, so a new row may turn up
anywhere in the order. Rows with the same time come in any order, another one in
each SELECT, if `Ties`.

*Backoff, Lifecycle.* Time is a clock while a connection is tried, and elsewhere a
timer that may fire. A goroutine may run late, so a wait can be over and the
context done together; `select` then takes either. It is taken not to be held up for a
whole wait between `time.After` and the poll of `select`: then both would be ready
although no wait began before the deadline, and a second late attempt could begin
(`OneLateAttempt`). `pgxpool.New`, `Ping` and `kafka.DialContext` have the context
with the deadline; `conn.Brokers()` (`shared/events/kafka.go:62`) has none, and no
deadline is set on the connection, so Kafka's operation may stay in it (`asking`)
for ever. A server may fail at any time (`ServeFails`): what it accepted before goes
on, and calls still arrive over its connections. A call is running, waiting for
a connection's answer (for ever, unless it is cancelled), or answering. The 30
(gateway: 10) seconds of the graceful stop are one action.

Faults are sets named by constants: a run says which ones may happen, so that
every passing run states under which faults its property holds and every
violation names the one that breaks it.

## 3. The runs

### What holds

| Run | Bounds | Shows |
|---|---|---|
| `ledger_spending` | 2 replicas; 2 deposits, a transfer and a withdrawal over one account; 2 deliveries; failing statements and crashes | balances match the ledger between any two statements (`BalanceMatchesLedger`); what was computed before a commit is right at the commit although the balance was first read without a lock (`StagedIsFresh`); outcomes are final (`SettledIsFinal`); the statements implement the one-step ledger (`ImplementsAtomicLedger`) |
| `ledger_crossing` | 2 replicas; a deposit and 2 crossing transfers; every event delivered twice, also after it completed; crashes, failing DEL | no money moves twice, no handler hangs (`HandlingEnds`), recorded transactions settle (`PendingSettles`) |
| `ledger_ring` | 3 replicas; 2 deposits, 3 transfers in a ring, 3 events to refuse | no circle of handlers waiting for each other (`NoWaitCycle`), no bad event leaves a row (`RecordedIsValid`) |
| `outbox_relay` | 2 relays, 3 rows (1 malformed), batch of 2, one slot, 2 attempts, 1 crash or failing UPDATE | one relay per row, terminal rows stay terminal, outcomes are earned, every row ends; until a fault occurs, a freed lock belongs to a transaction the broker never got |
| `consumer_group` | 2 replicas, a partition of 3, good and invalid messages, 2 faults of any kind | no committed offset passes a message no handler saw, a fault costs at most one message, every message reaches a handler |
| `flow` | 3 requests for one account, 2 relays, 1 replica, 2 attempts, refused publishes, 2 dying requests, refused INSERTs or failing handlers, failing UPDATEs of the outcome | the lock of an account is that of its transaction in flight (`LockCoversFlight`, hence at most one is); requests, relays and handlers together implement transactions that never overlap, each with one outcome given when it ends (`TransactionsAreSerial`); what was given up is never executed, accepted transactions end, the account is freed |
| `flow_overlap` | 4 requests for one account, 1 relay, 1 replica, 1 attempt, 2 faults: Redis or PostgreSQL away, an answer of the broker or to the INSERT lost, dying requests, failing handlers and commits, locks that expire early | locks are now lost, but the loss does not spread: each fault lets at most one more transaction of the account in (`OverlapBounded`), although the extra one's end deletes the lock of another |
| `account_calls` | 3 calls that open an account (limit 2), 2 that read a balance, 2 commits | the limit is overrun by less than the number of concurrent calls; once commits stop, the cache is right or empty |
| `gateway` | 4 requests (symmetric), a username typed 3 ways, 5 passwords, tokens of 1 tick in 2, failing statements, an exiting gateway | one registration and one login per username pass (`OneOfEach`); a registration the gateway refuses after its RPC has left no user (`RefusedLeavesNoUser`), and every user auth-service took gets past the gateway (`StoredCanLogIn`): the two sets of rules agree; an RPC in a user's name comes by an unexpired token of a stored user (`CallsAreOwned`) |
| `listing` | 5 transactions in any order of `created_at`, pages of 2 or 3, sizes that are no number, do not fit or wrap, page numbers of 2 bits, amounts of 8 bits in floats of 4 | no row of the beginning is missed, repetitions are paid for by new rows, the walk ends and never in a token that cannot be parsed; amounts are exact up to 2^53 (here 2^4), beyond that off by at most the unit of their float (the small one prints 92 as 100: rounding takes half of the unit of 8, the shortest decimal another half), never change their sign, and one that no longer fits is not recorded |
| `lifecycle` | each of the 3 services, 3 retries with waits 1, 2, 3 and a deadline of 8, 2 calls, 2 messages | attempts are spread and at most one begins after the deadline; handlers and answered calls keep their connections to the end; `main` returns with everything closed, and leaves calls unanswered only after a forced stop or, in the gateway, when the server failed; if the broker answers what it is asked, `main` serves or exits and a signal ends it, with connections and calls that never come back |

*Types.* Each module states its type invariant; that of the ledger (`TypeOK`, with no
negative balance) is checked by a run. The others (`ATypeOK`, `BTypeOK`, `CTypeOK`,
`FTypeOK`, `GTypeOK`, `LTypeOK`, `OTypeOK`, `PTypeOK`) hold in the same configurations and are
left out of them in favour of the properties above. All but `BTypeOK` are proved.

*Why the bounds are enough.* Every hazard needs at most two or three actors: two
writers of one account, a holder and a waiter (three for a circle that is not a
pair), a relay and the one that takes over, an old owner of a partition and the
new one, a transaction in flight with its predecessor and its successor. Two
deliveries, attempts or faults let each fault hit once and be recovered from.
Amounts are chosen so that a transfer succeeds or fails depending on what ran
before it. In `flow` one replica is enough: the account's events share a
partition, and partitions do not move under its faults; `flow_overlap` needs a fourth
request, since two faults may put three transactions in flight and the bound must
hold against one more. For the safety properties the proofs below drop the bounds. In `gateway` four requests are a registration, a
login, a rival of either, and a call with the token. In `listing` five rows and
pages of two give a first, a middle and a last page, one of them at the last page
number, with a row recorded before, between and behind; a deadline of 8 against
waits of 1, 3 and 6 in `lifecycle` falls before, at and after an attempt.

*`EveryAcceptedEnds` under crashes.* The faults of `flow` are those under which its
safety properties hold, so no relay or replica crashes in it after a request was
accepted; for each of the two alone this is in `outbox_relay` (`EveryRowEnds`) and
`consumer_group` (`EveryMessageTried`). TLC also finds `EveryAcceptedEnds` true in
`MCTransactionFlow` with 2 requests, 2 replicas, `OutboxFaults = {"crash"}` and
`ConsumerFaults = {"handlerError", "rebalance"}`, checked by itself.

*Fairness.* Weak fairness of a replica's or relay's own steps (its goroutine is
not starved and PostgreSQL grants a lock that stays free), of redelivery of what
is not committed, of partition assignment, and of time (backoff, age of a claim,
TTL). In `listing` a client that began goes on asking. In `lifecycle` goroutines
run, timers fire, the relay and the handler come back (their statements have the
context the signal cancels), what a call waits for comes back only once the
server has cancelled it, and an attempt to connect returns at its deadline as far as
it has the context. Nothing is assumed of the broker that `conn.Brokers()` asks: that it
answers is the hypothesis `BrokersAnswer` of `SignalEnds` and `StartUpEnds`, and
without it both fail. None is assumed of a fault, of a publish succeeding or of a request being
made. The deliveries of an event are bounded, so the last one the bound allows is
not crashed: a replica that crashes for ever would settle nothing.

*Identifiers.* The gateway makes up a fresh id for every HTTP request
(`api-gateway/internal/services/wallet_service.go`), so no event is requested
twice; what comes twice comes from Kafka or from the relay.

### What does not hold

`ledger_retry_failed` checks a property that a comment of the repository states,
and TLC finds the behaviour of the code that breaks it: the event of a failed
transaction comes again, the flip hits no row, the reconcile is skipped, and the
row is set to completed without its money. The quotation is under `findings` in
`PROJECT.json`.

The modules show more when the constants of a configuration are widened. Each
row is one change to a configuration and the property TLC then finds violated:

| Configuration | Change | Property | What happens |
|---|---|---|---|
| `MCLedgerRetryFailed` | `Faults = {"ambiguousCommit"}`, one delivery | `BalanceMatchesLedger` | COMMIT applied but reported as an error: the row is set to failed, the money has moved |
| `MCLedgerRetryFailed` | `Faults = {"overlap", "dbError"}` | `BalanceMatchesLedger` | two replicas handle one event around a rebalance, and failed and completed overwrite each other |
| `MCLedgerRetryFailed` | `Txns <- LiftingTxns`, `Payload <- Lifting`, `HighBalance = 2`, `Faults = {"retryCompleted"}` | `SettledIsFinal` | a completed withdrawal comes again while the balance is above the limit: its row is set to failed |
| `MCLedgerSpending` | `FairSpec`, `HighBalance = 9`, `Faults = {}` | `PendingSettles` | a withdrawal recorded before a crash no longer finds its balance and stays pending |
| `MCLedgerSpending` | `HighBalance = 9`, one delivery, `Faults = {}` | `HandledIsReleased` | an early return keeps the account locked until the key's 24 hours are over |
| `MCOutboxRelay` | `Faults = {"pause"}` | `OneRelayPerRow` | a relay held up for 30 seconds and its successor both work on a row |
| `MCConsumerGroup` | none | `CommittedWasHandled` | the commit of the next message passes one whose handler failed (a known limitation in `src/README.md`) or whose dead letter could not be written |
| `MCTransactionFlow` | `FSpec`, `ConsumerFaults = {"commitError", "rebalance"}`, `FlowFaults = {}` | `OneInFlight` | a redelivered event deletes the lock of a later transaction of the account, and a third one is accepted beside it, although `repository/wallet_repository.go:474` says that only one may be in flight |
| `MCTransactionFlow` | `FSpec`, `OutboxFaults = {"ambiguousPublish"}` | `OneInFlight` | a publish that timed out but arrived is given up and its lock freed |
| `MCTransactionFlow` | `FSpec`, `FlowFaults = {"cacheError"}`, `ConsumerFaults = {}` | `OneInFlight` | without Redis, the check in PostgreSQL does not see a transaction that is still queued |
| `MCTransactionFlow` | `FSpec`, `FlowFaults = {"ambiguousInsert"}` | `OneInFlight` | the outbox row is written but the answer lost: the lock is freed and the next transaction let in, although `repository/wallet_repository.go:529` says that no message will reach the consumer |
| `MCTransactionOverlap` | `OutboxFaults = {"crash"}`, `MaxRetries = 2` | `OverlapBounded` | Redis does not answer and two transactions are in one batch; the relay dies after it published both and publishes both again, in vain; it gives them up and frees the account once for each, while their messages wait in the topic |
| `MCAccountCalls` | none | `AtMostLimit` | two calls find room for one more account and both open it |
| `MCAccountCalls` | none | `NoStaleBalance` | `InvalidateAccountBalance` has no caller, so the old balance is answered after a transaction |
| `MCGateway` | none | `LoggedInHasSession` | nothing clears `is_currently_logged_in` when the session expires: the user has none and cannot open one, although `shared/cache/contract.go:16` speaks of session termination by the TTL |
| `MCGateway` | none | `LoginsAreAnswered` | a login that fails after `InsertToken`, or whose gateway exits, leaves the user logged in without a token |
| `MCLedgerCrossing` | `Spec`, `Faults = {"overlap"}` | `NoWaitCycle` | of two handlers of one event, one has flipped its row and waits for an account, the other has the accounts and waits for the row |
| `MCListing` | `Ties = TRUE` | `NoneMissed` | rows with the same `created_at` have no order, and one can be on no page |
| `MCLifecycle` | none | `FailedServerExits` | the error of `Serve` is only logged: wallet-service and auth-service stay without a server |
| `MCLifecycle` | none | `NoCallIsDropped` | `ListenAndServe` of the gateway fails while requests are running: `main` returns on the error, without `Shutdown` |
| `MCLifecycle` | none | `SignalAlwaysEnds`, `StartUpAlwaysEnds` | a broker accepts the connection and never answers `conn.Brokers()`: wallet-service stays in `Connect`, past its 30 seconds and past a signal |

An account with 2^15 pages ends in a token the gateway cannot parse, and exits on;
`Listable` in `Listing` names this bound, and `WalkEnds` holds below it.

## 4. The proofs

Every safety property of the passing runs is a theorem for all values of the
constants; so are the action properties and both refinements. A theorem is `Spec => []P`, or `H => (Spec => []P)` where `H` says which
faults do not occur; section 3 shows faults excluded by `H` that do break `P`. Each
invariant that strengthens a property was checked with TLC on the run's
configuration before it was proved.

| Module | Theorems | Under | Inductive invariant |
|---|---|---|---|
| `LedgerProofs` | `TypeCorrect`, `RecordsAreValid` | any faults | `TypeOK`, `ValidInv` |
| | `BalancesCorrect`, `StagedStaysFresh`, `OutcomesFinal`, `LedgerImplementsAtomic` | `SafeFaults` | `IndInv` |
| | `HandlersNeverDeadlock` | `NoOverlap` | `LockInv` |
| `OutboxProofs` | `OutboxTyped`, `RelaysDisjoint`, `OutcomesAreEarned`, `TerminalRowsFinal` | `NotPaused` | `RelayInv` |
| | `FreedAreUndelivered` | any faults | `RelayInv` while `faults = 0` |
| `ConsumerProofs` | `ConsumerTyped`, `CommittedTried`, `LossesAreBounded` | any faults | `OrderInv`, `ConsumeInv` |
| `FlowProofs` | `LockCovers`, `AtMostOneInFlight`, `GivenUpStaysUnexecuted`, `FlowIsSerial` | `Orderly` | `FlowInv` |
| | `FlowIsTyped` | `Orderly`, `RoomForAll` | `FlowInv` |
| | `OverlapIsBounded` | `Steady` | `OverlapInv` |
| `GatewayProofs` | `GatewayTyped`, `OneCallOfEach`, `RefusalLeavesNoUser`, `StoredUsersCanLogIn`, `RPCsAreOwned` | any faults | `GatewayInv` with `AuthInv` |
| `AccountOpeningProofs` | `OpeningTyped`, `OverrunIsBounded` | any faults | themselves |
| `LifecycleProofs` | `LifecycleTyped`, `AtMostOneLateAttempt`, `WorkHasConnections`, `MainReturnsClean` | any faults | `LifeInv` = `BackoffInv` and `StageInv` |
| | `AttemptsAreSpread` | any faults | `SpreadInv` beside `LifeInv` |
| `ListingProofs` | `NothingIsMissed`, `RepeatsAreBounded` | `NoTies` | `WalkInv` |
| | `ListingTyped`, `AmountsAreCarried` | any faults, also with ties | `AmountInv` |

### Assumptions

*On the constants.* The named `ASSUME`s of the modules, which TLC evaluates in every
run. They are typing facts, that a "none" value is none of the others, and what the
code guarantees of its data: account ids are ordered and the table is finite
(`DataAssumption`); `from` and `to` may name accounts that do not exist and amounts
may be zero or negative; an event has one partition, the topic finitely many; a
well-formed username is not empty and trimming leaves the empty one empty
(`AuthAssumption`; `usernameRegex` asks for three characters).

*On the faults.*

* `SafeFaults` excludes overlapping handlers, redelivery of failed events and
  ambiguous commits, and allows redelivery of completed events where there is
  neither a failing statement nor a withdrawal. It still has failing statements,
  crashes, failing DELs and redelivery of what did not settle.
* `NoOverlap`: no event has two handlers at once. All other faults may occur.
* `NotPaused`: no relay is held up for longer than the 30 seconds its claim lasts.
  It may crash, its UPDATEs may fail, and a publish may arrive and be reported lost.
* `Orderly`: in the composition, publishes are refused, handlers, commits and dead
  letters fail, requests die, INSERTs and UPDATEs of the outcome are refused; but relays
  run on, partitions stay where they are, Redis answers, an INSERT that failed has left
  no row and the lock outlives its transaction.
* `Steady`: relays neither crash nor are held up and partitions stay where they are.
  Everything else may fail: Redis, PostgreSQL, the answers of the broker and to the
  INSERT, requests, handlers, dead letters and commits, and locks may expire under their transactions.
  A crash does break the bound (section 3). For pauses and moving partitions TLC finds
  no violation in this configuration, but the argument does not cover them: a rebalance
  delivers again everything whose commit failed, and a second one does so once more.
* `RoomForAll`: the bound `MaxLength` on a partition leaves no event out.
* `NoTies`: no two rows have the same `created_at`.

### Arguments

*Ledger, balances.* `BalanceMatchesLedger` alone is not inductive: a commit writes what
an earlier statement computed, so the invariant must say that it is still right.
`IndInv` adds:

1. `OneHandler`: no transaction has two handlers.
2. `RowLocks`: a flipped row is still pending for everyone else, and a worker past
   its flip holds its row.
3. `RowState(w)`: what the handler knows of its row at each statement: it is not
   failed, its accounts exist from the flip on, a flip that hit no row means
   completed, and at the end the UPDATE finds the status it writes or pending.
4. `StagedSoFar(w)`: which accounts a worker has staged at each statement; at the
   commit of a flipped row it is exactly the accounts the transaction touches.
5. `StagedIsFresh`: a staged balance is the SUM over what is committed now and the
   worker's own transaction, and the account is still locked by it.

At a commit (`CommitKeeps`) the touched accounts get staged balances that are
fresh, the others keep a sum the transaction does not enter (`SumUntouched`), and
nobody else has staged a touched account because it is locked. A rollback
(`EndFrame`, `AbortKeeps`) takes nothing from the others. The refinement
(`LedgerStep`) is then a reading of each statement: INSERT is Record, COMMIT of a
flipped row is Settle, the UPDATE to failed is Reject, all others stutter.

*Ledger, deadlock.* `LockInv` says which accounts a worker may hold at each statement
(`MayHold`) and which it does hold before its second lock and its INSERT
(`DoesHold`). Then who waits, waits for an account above all it holds
(`WaitsUpwards`): the INSERT's foreign keys ask only for accounts it has, or it has
none, and a row is never waited for because its event has one handler. In a circle
the holder of the greatest account held would wait for a greater one
(`GreatestAccount`, by well-foundedness of the subsets of a finite set).

*Ledger, records.* `ValidInv` remembers that a withdrawal in progress passed the owner's
check, and that whoever moves funds or writes an outcome has a recorded row: the
unconditional UPDATE at the end never brings a row into being.

*Outbox.* `RelayInv`: a goroutine is at work only on a row that is claimed, its claim
not yet stale (`ClaimsHeld`), so that a second relay cannot claim it; what a
goroutine is about to write was achieved (`Achieved`); a row that is not failed has
attempts left. `FreedAreUndelivered` needs `NotPaused` nowhere: a pause is a fault, so
before the first fault there was none.

*Consumer.* Below a replica's position, and below the committed offset, everything was
tried (`HandsInOrder`, `FetchedWasTried`): a new owner starts at the committed offset,
so a rebalance only repeats. `LossesBounded` is not inductive, as a message is lost
long before its offset is committed. `ConsumeInv` counts the messages at risk from the
moment the handler or the dead letter fails (`AtRisk`), each of which has its own
fault.

*Flow.* `FlowInv` follows a transaction through request, row, topic, partition and
handler: which rows exist (`RowKnows`), that the topic has each event once and only
what the relay sent (`LogKnows`), where the group stands (`GroupKnows`), what a
replica has in hand (`HandKnows`), and that until it ends its account's lock is its own
(`LocksHeld`). A lock is deleted only by its holder's end, so the next request of the
account finds it taken until then. The refinement of `SerialTransactions` maps the
flight of an event to its phase; every step of the composition accepts, records or
ends one transaction, or stutters.

*Flow, lost locks.* Once a lock is lost, `LocksHeld` is gone for good: a transaction that
ends deletes whatever lock its account has, which lets in another, whose end deletes the
next. What does not grow is the number of releases still to come. Each of them is a
ticket (`Ticket`): one for an event the request or the relay has not done with, and one
for each message of it in the log that no handler has had. `Counted` says that an
account has no more tickets than faults have occurred, and one more while its lock is
fresh (`LockFresh`: held by an event all of whose tickets are still there). A request
that takes the lock brings a ticket and makes the lock fresh; a release uses up a ticket,
also when the lock it deletes is another's; a fault pays for the ticket of whoever gets in
without the lock, for the second message of a publish that was not acknowledged, or for
the freshness of a lock that expires or is freed while its row was written after all. An event in flight has a ticket, so there are at
most `1 + faults`. `SteadyInv` is what is left of `FlowInv` when messages come twice
(`TableKnows`, `LogSorted`); the two share the lemmas about the replica's loop
(`FetchReads`, `CommitReads`, `AssignReads`, `HandlerReads`). A crashed relay is not
paid for by one fault, because all rows of its batch are published again.

*Gateway.* `AuthInv` is what a call of auth-service knows at its next statement
(`CallKnows`); the unique username and the conditional upsert of `InsertToken` are the
points where one of several rivals wins. `GatewayInv` adds that a request refused by the gateway's rules
would have been refused by auth-service, for every username and password.

*Account opening.* The accounts and the calls that have counted below the limit
together never reach the limit plus the number of callers.

*Lifecycle.* `StageInv` says for each statement `main` is at what is open, who is
working, whether the server serves or has failed, and why calls may be left; `BackoffInv` that no wait begins once the
context is done. `SpreadInv` ties the wait the loop has computed to the number of waits
behind it. That `EarliestStart` has the value its recursion gives is shown by extending
a function for one retry less (`EarliestExists`, by the least number without one), and
that waits double by counting subsets (`PowerDoubles`).

*Listing.* A row the client still has to see has at least as many newer rows as the
pages have gone over (`NotBehind`): new rows only push it back, and a page it is not on
lies before it altogether. On a page without token nothing lies behind. For the
repetitions, the showings so far are no more than the rows gone over, each of which
is seen or new (`ShowingsPaidFor`). A page has at least one row to give, also when
the size asked for wraps (`PageSizePositive`).

*Amounts.* `AmountInv` says that a row has what the conversions made of its request; the
rest is about the conversions, for any width of the mantissa and of the amount. `Ulp`
finds the one power of two that is the unit of a number's size (`HasScale`, `UlpScale`,
from the doubling of powers), `ToFloat` moves to a multiple of it by at most half
(`ToFloatRounds`), and the shortest decimal that reads back as this float lies within
another half (`PrintedReads`, the least number of digits left out for which one does:
leaving out none always will). Below 2^53 the unit is one and both are exact. The two
halves can add up: 92 in the small float of `listing` shows that the bound is reached.

### Only model-checked

* Liveness under fairness (`HandlingEnds`, `PendingSettles`, `EveryRowEnds`,
  `EveryMessageTried`, `EveryAcceptedEnds`, `AccountIsFreed`, `CacheConverges`,
  `WalkEnds`, `SignalEnds`, `StartUpEnds`), which this prover does not do.
* The value of the SUM itself is a fold, about which only what the argument needs is
  proved.
* `BTypeOK` of `BalanceCache`, whose one property is liveness.

## 5. Not modelled

* Environment variables, log lines (but for `LogFatal`, in `Lifecycle`), health
  answers' contents, migrations and topic creation: one-off I/O without state.
* Generated protobuf code, and the mapping functions that only copy fields; the
  two that convert (`ToListTransactionsDomain`'s int8, the payload's JSON map) are in
  `Conversions`.
* bcrypt and the signature of a JWT: libraries, taken at their word.
* `OutboxDelete`, `OutboxGet`, `DeleteToken`, `DeleteTokenByUserId`,
  `FindTokenByUserId`, `UpdateUser`, `AuthorizeUser` of auth-service,
  `ValidateRefreshToken`, `services/authenticator_service.go`: no caller.
  `RefreshToken`, `StreamTransactions`, `UpdateAccount`: no implementation (their
  routes are in `Gateway`).

## 6. Plan

Done: all components with their runs; the theorems of section 4. What is left:

1. A bound like `OverlapBounded` for crashes of relays and moving partitions, which would
   count the rows of a batch and the messages above the committed offset.
2. Liveness, once the prover has it.
