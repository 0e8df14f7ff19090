------------------------------- MODULE Ledger -------------------------------
(***************************************************************************)
(* The consumer side of wallet-service: replicas of the consumer (Workers) *)
(* run the handlers deposit, withdraw and transfer of WalletService, each  *)
(* a sequence of PostgreSQL transactions of WalletRepository.  One step is *)
(* one SQL statement, so handlers interleave as READ COMMITTED lets them:  *)
(* row locks make a statement wait, uncommitted writes are private, and a  *)
(* statement sees what is committed when it runs.                          *)
(*                                                                         *)
(* Faults names what the environment may do besides crashing a worker:     *)
(*   dbError          a statement fails, be it as the victim PostgreSQL    *)
(*                    picks in a deadlock; the transaction rolls back      *)
(*   ambiguousCommit  COMMIT takes effect but its caller gets an error     *)
(*   cacheError       Redis refuses the DEL that frees the account         *)
(*   retryFailed      Kafka redelivers the event of a failed transaction   *)
(*   retryCompleted   ... of a completed one                               *)
(*   overlap          ... of one another replica is still handling, which  *)
(*                    a rebalance during a handler does                    *)
(***************************************************************************)
EXTENDS LedgerData

CONSTANTS
    Workers,
    NoWorker,
    NoTxn,
    HighBalance,     \* withdrawals are refused above it (600000 in the code)
    MaxDeliveries,   \* bound: deliveries of one event
    Faults

FaultKinds == {"dbError", "ambiguousCommit", "cacheError",
               "retryFailed", "retryCompleted", "overlap"}

ASSUME LedgerAssumption ==
    /\ NoWorker \notin Workers
    /\ NoTxn \notin Txns
    /\ HighBalance \in Nat
    /\ MaxDeliveries \in Nat
    /\ Faults \subseteq FaultKinds

VARIABLES
    status,      \* committed transactions.status, or "absent"
    balance,     \* committed accounts.balance
    acctLock,    \* which worker's transaction holds an account FOR UPDATE
    rowLock,     \* which worker's transaction has flipped a ledger row
    pc,          \* the next statement of each worker
    cur,         \* the transaction it handles
    overLimit,   \* what withdraw found of the balance it read at its start
    staged,      \* balances written but not committed, per worker
    delivered,   \* how often each event was delivered
    released     \* transactions whose handler freed the idempotency lock

vars == <<status, balance, acctLock, rowLock, pc, cur, overLimit, staged,
          delivered, released>>

Statuses == {"absent", "pending", "completed", "failed"}

PendingSteps == {"lockA", "lockB", "insert"}
FundsSteps == {"flip", "recA", "sumA", "recB", "sumB", "commit"}
FinalSteps == {"completed", "failed"}
Steps == {"idle"} \cup PendingSteps \cup FundsSteps \cup FinalSteps

Unstaged == -1

TypeOK ==
    /\ status \in [Txns -> Statuses]
    /\ balance \in [Accounts -> Nat]
    /\ acctLock \in [Accounts -> Workers \cup {NoWorker}]
    /\ rowLock \in [Txns -> Workers \cup {NoWorker}]
    /\ pc \in [Workers -> Steps]
    /\ cur \in [Workers -> Txns \cup {NoTxn}]
    /\ overLimit \in [Workers -> BOOLEAN]
    /\ staged \in [Workers -> [Accounts -> Nat \cup {Unstaged}]]
    /\ delivered \in [Txns -> 0..MaxDeliveries]
    /\ released \in SUBSET Txns
    /\ \A w \in Workers : pc[w] = "idle" <=> cur[w] = NoTxn

NothingStaged == [a \in Accounts |-> Unstaged]

Completed == {t \in Txns : status[t] = "completed"}

Handlers(t) == {w \in Workers : cur[w] = t}

Init ==
    /\ status = [t \in Txns |-> "absent"]
    /\ balance = [a \in Accounts |-> 0]
    /\ acctLock = [a \in Accounts |-> NoWorker]
    /\ rowLock = [t \in Txns |-> NoWorker]
    /\ pc = [w \in Workers |-> "idle"]
    /\ cur = [w \in Workers |-> NoTxn]
    /\ overLimit = [w \in Workers |-> FALSE]
    /\ staged = [w \in Workers |-> NothingStaged]
    /\ delivered = [t \in Txns |-> 0]
    /\ released = {}

-----------------------------------------------------------------------------
(* The start of a handler, up to its first transaction.                    *)

Deliverable(t) ==
    /\ delivered[t] < MaxDeliveries
    /\ Handlers(t) # {} => "overlap" \in Faults
    /\ status[t] = "failed" => "retryFailed" \in Faults
    /\ status[t] = "completed" => "retryCompleted" \in Faults

Receive(w, t) ==
    /\ pc[w] = "idle"
    /\ Deliverable(t)
    /\ delivered' = [delivered EXCEPT ![t] = @ + 1]
    /\ UNCHANGED <<status, balance, acctLock, rowLock, staged, released>>

(* CreatePendingTransaction locks the accounts only when they differ. *)
Proceed(w, t, high) ==
    /\ pc' = [pc EXCEPT ![w] = IF From(t) # To(t) THEN "lockA" ELSE "insert"]
    /\ cur' = [cur EXCEPT ![w] = t]
    /\ overLimit' = [overLimit EXCEPT ![w] = high]

(* An early return: nothing was written and nothing is freed. *)
Refuse == UNCHANGED <<pc, cur, overLimit>>

(* All that deposit and transfer check before CreatePendingTransaction. *)
CheckAmount(w, t) ==
    \/ Amount(t) > 0 /\ Proceed(w, t, FALSE)
    \/ Amount(t) <= 0 /\ Refuse

Deposit(w, t) ==
    /\ Payload[t].type = "deposit"
    /\ Receive(w, t)
    /\ CheckAmount(w, t)

Transfer(w, t) ==
    /\ Payload[t].type = "transfer"
    /\ Receive(w, t)
    /\ CheckAmount(w, t)

(* Mutant: any existing account will do. *)
Exists(t) == To(t) \in Accounts

(* checkUserAccountCompatibility *)
Owns(t) == To(t) \in Accounts /\ Owner[To(t)] = Payload[t].user

(* The account is read without a lock; what is read decides now and later. *)
Withdraw(w, t) ==
    LET sufficient == Amount(t) > 0 /\ Owns(t) /\ balance[To(t)] >= Amount(t)
    IN  /\ Payload[t].type = "withdrawal"
        /\ Receive(w, t)
        /\ \/ sufficient /\ Proceed(w, t, balance[To(t)] > HighBalance)
           \/ (~sufficient \/ "dbError" \in Faults) /\ Refuse

-----------------------------------------------------------------------------
(* Ending a transaction and ending a handler.                              *)

(* Mutant: the transaction ends without giving its accounts back. *)
RollbackKeepsLocks(w) ==
    /\ UNCHANGED acctLock
    /\ rowLock' = [t \in Txns |->
                       IF rowLock[t] = w THEN NoWorker ELSE rowLock[t]]
    /\ staged' = [staged EXCEPT ![w] = NothingStaged]

(* The transaction's locks and uncommitted writes are gone; a commit ends
   the same way. *)
Rollback(w) ==
    /\ acctLock' = [a \in Accounts |->
                       IF acctLock[a] = w THEN NoWorker ELSE acctLock[a]]
    /\ rowLock' = [t \in Txns |->
                       IF rowLock[t] = w THEN NoWorker ELSE rowLock[t]]
    /\ staged' = [staged EXCEPT ![w] = NothingStaged]

Goto(w, step) ==
    /\ pc' = [pc EXCEPT ![w] = step]
    /\ UNCHANGED <<cur, overLimit, delivered>>

Return(w) ==
    /\ pc' = [pc EXCEPT ![w] = "idle"]
    /\ cur' = [cur EXCEPT ![w] = NoTxn]
    /\ overLimit' = [overLimit EXCEPT ![w] = FALSE]
    /\ UNCHANGED delivered

(* Mutant: a SELECT without FOR UPDATE. *)
SelectUnlocked(w, a) ==
    UNCHANGED <<status, balance, acctLock, rowLock, staged, released>>

(* SELECT id FROM accounts WHERE id = a FOR UPDATE; no row, no lock. *)
LockForUpdate(w, a) ==
    /\ a \in Accounts => acctLock[a] \in {NoWorker, w}
    /\ acctLock' = [x \in Accounts |-> IF x = a THEN w ELSE acctLock[x]]
    /\ UNCHANGED <<status, balance, rowLock, staged, released>>

-----------------------------------------------------------------------------
(* CreatePendingTransaction                                                *)

LockFirst(w) ==
    /\ pc[w] = "lockA"
    /\ LockForUpdate(w, FirstId(cur[w]))
    /\ Goto(w, "lockB")

LockSecond(w) ==
    /\ pc[w] = "lockB"
    /\ LockForUpdate(w, SecondId(cur[w]))
    /\ Goto(w, "insert")

(* The INSERT waits for a transaction that is writing the row with the same
   id; a row it does insert also needs its accounts (foreign keys), which
   another transaction's FOR UPDATE keeps from it. *)
InsertUnblocked(w) ==
    LET t == cur[w]
    IN  /\ rowLock[t] \in {NoWorker, w}
        /\ status[t] = "absent" =>
              \A a \in Accounts : Touches(t, a) => acctLock[a] \in {NoWorker, w}

(* Mutant: ON CONFLICT (id) DO UPDATE SET status = 'pending'. *)
InsertOrReset(w) ==
    /\ pc[w] = "insert"
    /\ InsertUnblocked(w)
    /\ Rollback(w)
    /\ status' = [status EXCEPT ![cur[w]] = "pending"]
    /\ Goto(w, "flip")
    /\ UNCHANGED <<balance, released>>

(* INSERT ... ON CONFLICT (id) DO NOTHING and COMMIT, then withdraw's check
   of the balance it read before. *)
InsertPending(w) ==
    LET t == cur[w]
        high == Payload[t].type = "withdrawal" /\ overLimit[w]
    IN  /\ pc[w] = "insert"
        /\ InsertUnblocked(w)
        /\ Rollback(w)
        /\ UNCHANGED <<balance, released>>
        /\ \/ /\ Insertable(t)
              /\ status' = [status EXCEPT ![t] =
                               IF @ = "absent" THEN "pending" ELSE @]
              /\ Goto(w, IF high THEN "failed" ELSE "flip")
           \/ /\ ~Insertable(t)
              /\ UNCHANGED status
              /\ Return(w)

-----------------------------------------------------------------------------
(* DepositFunds, WithdrawFunds, TransferFunds                              *)

(* UPDATE ... SET status = 'completed' WHERE id = t AND status = 'pending':
   with 0 rows nothing is reconciled. *)
FlipPending(w) ==
    LET t == cur[w]
    IN  /\ pc[w] = "flip"
        /\ rowLock[t] = NoWorker
        /\ \/ /\ status[t] = "pending"
              /\ rowLock' = [rowLock EXCEPT ![t] = w]
              /\ Goto(w, "recA")
           \/ /\ status[t] # "pending"
              /\ UNCHANGED rowLock
              /\ Goto(w, "commit")
        /\ UNCHANGED <<status, balance, acctLock, staged, released>>

LockReconciledFirst(w) ==
    /\ pc[w] = "recA"
    /\ LockForUpdate(w, FirstId(cur[w]))
    /\ Goto(w, "sumA")

LockReconciledSecond(w) ==
    /\ pc[w] = "recB"
    /\ LockForUpdate(w, SecondId(cur[w]))
    /\ Goto(w, "sumB")

(* Mutant: a negative balance is written as it is. *)
ReconcileUnchecked(w, a, next) ==
    /\ staged' = [staged EXCEPT ![w] = [x \in Accounts |->
                     IF x = a THEN LedgerSum(a, Completed \cup {cur[w]}) ELSE @[x]]]
    /\ Goto(w, next)
    /\ UNCHANGED <<status, balance, acctLock, rowLock, released>>

(* Mutant: a negative balance is written as 0. *)
ReconcileClamped(w, a, next) ==
    LET sum == LedgerSum(a, Completed \cup {cur[w]})
    IN  /\ staged' = [staged EXCEPT ![w] = [x \in Accounts |->
                         IF x # a THEN @[x] ELSE IF sum < 0 THEN 0 ELSE sum]]
        /\ Goto(w, next)
        /\ UNCHANGED <<status, balance, acctLock, rowLock, released>>

(* The SUM sees the committed rows and the transaction's own flip.  Below
   zero, reconcileBalance reports 0 rows and the caller rolls back. *)
ReconcileBalance(w, a, next) ==
    LET sum == LedgerSum(a, Completed \cup {cur[w]})
    IN  /\ UNCHANGED <<status, balance, released>>
        /\ \/ /\ sum \in Nat
              /\ staged' = [staged EXCEPT ![w] =
                               [x \in Accounts |-> IF x = a THEN sum ELSE @[x]]]
              /\ UNCHANGED <<acctLock, rowLock>>
              /\ Goto(w, next)
           \/ /\ sum \notin Nat
              /\ Rollback(w)
              /\ Goto(w, "failed")

(* Mutant: only one account of a transfer is reconciled. *)
ReconcileOnlyFirst(w) ==
    /\ pc[w] = "sumA"
    /\ ReconcileBalance(w, FirstId(cur[w]), "commit")

ReconcileFirst(w) ==
    /\ pc[w] = "sumA"
    /\ ReconcileBalance(w, FirstId(cur[w]),
                        IF From(cur[w]) # To(cur[w]) THEN "recB" ELSE "commit")

ReconcileSecond(w) ==
    /\ pc[w] = "sumB"
    /\ ReconcileBalance(w, SecondId(cur[w]), "commit")

(* The row is read back and the transaction commits. *)
CommitFunds(w) ==
    LET t == cur[w]
    IN  /\ pc[w] = "commit"
        /\ status' = [status EXCEPT ![t] = IF rowLock[t] = w
                                           THEN "completed" ELSE @]
        /\ balance' = [a \in Accounts |-> IF staged[w][a] # Unstaged
                                          THEN staged[w][a] ELSE balance[a]]
        /\ Rollback(w)
        /\ \/ Goto(w, "completed")
           \/ "ambiguousCommit" \in Faults /\ Goto(w, "failed")
        /\ UNCHANGED released

(* Mutant: a failure is not recorded. *)
UpdateStatusOfCompleted(w) ==
    /\ pc[w] \in FinalSteps
    /\ rowLock[cur[w]] = NoWorker
    /\ status' = [status EXCEPT ![cur[w]] = IF pc[w] = "completed"
                                            THEN "completed" ELSE @]
    /\ released' = released \cup {cur[w]}
    /\ Return(w)
    /\ UNCHANGED <<balance, acctLock, rowLock, staged>>

(* The outcome is written over whatever status the row has; then the lock
   of the user's account is deleted, and a failure to do so only logged. *)
UpdateTransactionStatus(w) ==
    LET t == cur[w]
    IN  /\ pc[w] \in FinalSteps
        /\ rowLock[t] = NoWorker
        /\ status' = [status EXCEPT ![t] = pc[w]]
        /\ \/ released' = released \cup {t}
           \/ "cacheError" \in Faults /\ UNCHANGED released
        /\ Return(w)
        /\ UNCHANGED <<balance, acctLock, rowLock, staged>>

-----------------------------------------------------------------------------

(* Mutant: the error of any statement marks the transaction failed. *)
DbErrorAlwaysFails(w) ==
    /\ "dbError" \in Faults
    /\ pc[w] # "idle"
    /\ Rollback(w)
    /\ Goto(w, "failed")
    /\ UNCHANGED <<status, balance, released>>

(* A failing statement rolls its transaction back.  A funds transaction is
   then marked failed; the errors of the other two end the handler. *)
DbError(w) ==
    /\ "dbError" \in Faults
    /\ pc[w] # "idle"
    /\ Rollback(w)
    /\ \/ pc[w] \in FundsSteps /\ Goto(w, "failed")
       \/ pc[w] \notin FundsSteps /\ Return(w)
    /\ UNCHANGED <<status, balance, released>>

(* The process dies and PostgreSQL rolls back what it had open.  The event
   was not committed, so it comes again: the last delivery the bound allows
   is not crashed. *)
Crash(w) ==
    /\ pc[w] # "idle"
    /\ delivered[cur[w]] < MaxDeliveries
    /\ Rollback(w)
    /\ Return(w)
    /\ UNCHANGED <<status, balance, released>>

Drained ==
    /\ \A w \in Workers : pc[w] = "idle"
    /\ \A t \in Txns : ~Deliverable(t)
    /\ UNCHANGED vars

Deliver(w, t) == Deposit(w, t) \/ Withdraw(w, t) \/ Transfer(w, t)

Step(w) ==
    \/ LockFirst(w) \/ LockSecond(w) \/ InsertPending(w)
    \/ FlipPending(w)
    \/ LockReconciledFirst(w) \/ ReconcileFirst(w)
    \/ LockReconciledSecond(w) \/ ReconcileSecond(w)
    \/ CommitFunds(w)
    \/ UpdateTransactionStatus(w)

Next ==
    \/ \E w \in Workers :
          \/ \E t \in Txns : Deliver(w, t)
          \/ Step(w)
          \/ DbError(w)
          \/ Crash(w)
    \/ Drained

Spec == Init /\ [][Next]_vars

(* A handler's goroutine and its statements are not starved, and Kafka goes
   on delivering what is not committed.  Crashes and errors need not occur. *)
Fairness ==
    /\ \A w \in Workers : WF_vars(Step(w))
    /\ \A t \in Txns : WF_vars(\E w \in Workers : Deliver(w, t))

FairSpec == Spec /\ Fairness

-----------------------------------------------------------------------------
(* Properties                                                              *)

(* Every committed balance is what reconcileBalance would compute from the
   committed ledger, between any two statements of any two handlers: nobody
   writes a SUM that a concurrent commit made stale, and no status changes
   without its balances. *)
BalanceMatchesLedger ==
    \A a \in Accounts : balance[a] = LedgerSum(a, Completed)

(* A balance a transaction has staged and not yet committed is still the
   right one: since its SUM nobody else completed a transaction on that
   account, because the account stays locked until the commit. *)
StagedIsFresh ==
    \A w \in Workers : \A a \in Accounts :
        staged[w][a] # Unstaged =>
            /\ acctLock[a] = w
            /\ staged[w][a] = LedgerSum(a, Completed \cup {cur[w]})

(* The statement w is at waits for a lock that v's transaction holds. *)
WaitsFor(w, v) ==
    LET t == cur[w]
        Blocked(a) == a \in Accounts /\ acctLock[a] = v
    IN  /\ w # v
        /\ \/ pc[w] \in {"lockA", "recA"} /\ Blocked(FirstId(t))
           \/ pc[w] \in {"lockB", "recB"} /\ Blocked(SecondId(t))
           \/ pc[w] \in {"insert", "flip"} \cup FinalSteps /\ rowLock[t] = v
           \/ /\ pc[w] = "insert" /\ status[t] = "absent"
              /\ Blocked(From(t)) \/ Blocked(To(t))

(* Handlers never wait for each other in a circle, whichever accounts they
   move money between: PostgreSQL never has a deadlock to break. *)
NoWaitCycle ==
    \A ws \in (SUBSET Workers) \ {{}} :
        \E w \in ws : \A v \in ws : ~WaitsFor(w, v)

(* An outcome is never taken back: the unconditional UPDATE at the end of a
   handler finds the row pending, or with that very status. *)
SettledIsFinal ==
    [][\A t \in Txns : status[t] \in {"completed", "failed"} =>
                           status'[t] = status[t]]_vars

(* Only events the handlers must accept leave a row in the ledger, and a
   withdrawal only one of the account's owner. *)
RecordedIsValid ==
    \A t \in Txns : status[t] # "absent" =>
        /\ Insertable(t)
        /\ Payload[t].type = "withdrawal" => Owner[To(t)] = Payload[t].user

(* Statement by statement, the handlers do what AtomicLedger does in one
   step per transaction. *)
Atomic == INSTANCE AtomicLedger
ImplementsAtomicLedger == Atomic!ASpec

(* No handler hangs, whatever the others lock. *)
HandlingEnds ==
    \A w \in Workers : pc[w] # "idle" ~> pc[w] = "idle"

(* A recorded transaction gets a final status, crashes notwithstanding. *)
PendingSettles ==
    \A t \in Txns : status[t] = "pending" ~> status[t] \in {"completed", "failed"}

(* Once a transaction's event was handled and nobody handles it any more,
   the idempotency lock of the account has been freed. *)
HandledIsReleased ==
    \A t \in Txns : delivered[t] > 0 /\ Handlers(t) = {} => t \in released

-----------------------------------------------------------------------------
(* Why the balances match: the inductive invariant of LedgerProofs         *)

(* The faults under which balances are safe: MCLedgerRetryFailed shows how
   redelivery of a failed event breaks them, and the README how each of the
   others does. *)
SafeFaults ==
    /\ Faults \cap {"overlap", "retryFailed", "ambiguousCommit"} = {}
    /\ "retryCompleted" \in Faults =>
          /\ "dbError" \notin Faults
          /\ \A t \in Txns : Payload[t].type # "withdrawal"

FlippedSteps == {"recA", "sumA", "recB", "sumB"}

(* Nobody handles a transaction another worker handles. *)
OneHandler ==
    \A w, v \in Workers : cur[w] = cur[v] => w = v \/ cur[w] = NoTxn

(* A flipped row is pending for everyone but the worker that flipped it. *)
RowLocks ==
    /\ \A t \in Txns : rowLock[t] # NoWorker =>
          /\ cur[rowLock[t]] = t
          /\ pc[rowLock[t]] \in FlippedSteps \cup {"commit"}
          /\ status[t] = "pending"
    /\ \A w \in Workers : pc[w] \in FlippedSteps => rowLock[cur[w]] = w

(* What a worker knows of the row it handles. *)
RowState(w) ==
    LET t == cur[w]
    IN  /\ pc[w] # "idle" /\ pc[w] \notin FinalSteps =>
              /\ status[t] # "failed"
              /\ status[t] = "completed" => "retryCompleted" \in Faults
        /\ pc[w] \in FundsSteps \cup FinalSteps =>
              Insertable(t) /\ status[t] # "absent"
        /\ pc[w] = "completed" => status[t] = "completed"
        /\ pc[w] = "failed" => status[t] = "pending"
        /\ pc[w] = "commit" /\ rowLock[t] # w => status[t] = "completed"

(* Which balances a worker has staged, step by step, and that it holds the
   account whose balance it is about to compute. *)
StagedSoFar(w) ==
    LET t == cur[w]
        Staged == {a \in Accounts : staged[w][a] # Unstaged}
    IN  /\ Staged = CASE pc[w] \in {"recB", "sumB"} -> {FirstId(t)}
                      [] pc[w] = "commit" /\ rowLock[t] = w -> {From(t), To(t)}
                      [] OTHER -> {}
        /\ pc[w] = "sumA" => acctLock[FirstId(t)] = w
        /\ pc[w] = "sumB" => acctLock[SecondId(t)] = w

IndInv ==
    /\ TypeOK
    /\ OneHandler
    /\ RowLocks
    /\ \A w \in Workers : RowState(w) /\ StagedSoFar(w)
    /\ StagedIsFresh
    /\ BalanceMatchesLedger

=============================================================================
