---------------------------- MODULE LedgerProofs ----------------------------
(***************************************************************************)
(* Proofs about Ledger, for any accounts, transactions, payloads, number   *)
(* of replicas and number of deliveries.                                   *)
(***************************************************************************)
EXTENDS Ledger, FiniteSetTheorems, TLAPS

(* The empty tables and idle replicas are well typed. *)
LEMMA InitTypeOK == Init => TypeOK
BY DataAssumption, LedgerAssumption
   DEF Init, TypeOK, Statuses, Steps, NothingStaged, Unstaged

(* Ending a transaction leaves well-typed locks and staged balances. *)
LEMMA RollbackType ==
    ASSUME TypeOK, NEW w \in Workers, Rollback(w)
    PROVE  /\ acctLock' \in [Accounts -> Workers \cup {NoWorker}]
           /\ rowLock' \in [Txns -> Workers \cup {NoWorker}]
           /\ staged' \in [Workers -> [Accounts -> Nat \cup {Unstaged}]]
BY DEF TypeOK, Rollback, NothingStaged, Unstaged

(* Going on to another statement of the same handler keeps the worker's own
   state well typed. *)
LEMMA GotoType ==
    ASSUME TypeOK, NEW w \in Workers, NEW s \in Steps, Goto(w, s),
           pc[w] # "idle", s # "idle"
    PROVE  /\ pc' \in [Workers -> Steps]
           /\ cur' \in [Workers -> Txns \cup {NoTxn}]
           /\ overLimit' \in [Workers -> BOOLEAN]
           /\ delivered' \in [Txns -> 0..MaxDeliveries]
           /\ \A v \in Workers : pc'[v] = "idle" <=> cur'[v] = NoTxn
BY DEF TypeOK, Goto

(* A handler that returns leaves its worker well typed and idle. *)
LEMMA ReturnType ==
    ASSUME TypeOK, NEW w \in Workers, Return(w)
    PROVE  /\ pc' \in [Workers -> Steps]
           /\ cur' \in [Workers -> Txns \cup {NoTxn}]
           /\ overLimit' \in [Workers -> BOOLEAN]
           /\ delivered' \in [Txns -> 0..MaxDeliveries]
           /\ \A v \in Workers : pc'[v] = "idle" <=> cur'[v] = NoTxn
BY DEF TypeOK, Return, Steps

(* SELECT ... FOR UPDATE, also of an account that has no row, only changes who
   holds which account. *)
LEMMA LockType ==
    ASSUME TypeOK, NEW w \in Workers, NEW a, LockForUpdate(w, a)
    PROVE  /\ acctLock' \in [Accounts -> Workers \cup {NoWorker}]
           /\ UNCHANGED <<status, balance, rowLock, staged, released>>
BY DEF TypeOK, LockForUpdate

(* reconcileBalance stages a natural number or rolls back: it never writes a
   negative balance. *)
LEMMA ReconcileType ==
    ASSUME TypeOK, NEW w \in Workers, NEW a, NEW s \in Steps,
           pc[w] # "idle", s # "idle", ReconcileBalance(w, a, s)
    PROVE  TypeOK'
<1> DEFINE sum == LedgerSum(a, Completed \cup {cur[w]})
<1> UNCHANGED <<status, balance, released>>
  BY DEF ReconcileBalance
<1>1. CASE /\ sum \in Nat
           /\ staged' = [staged EXCEPT ![w] =
                           [x \in Accounts |-> IF x = a THEN sum ELSE @[x]]]
           /\ UNCHANGED <<acctLock, rowLock>>
           /\ Goto(w, s)
  <2> HIDE DEF sum
  <2>1. staged' \in [Workers -> [Accounts -> Nat \cup {Unstaged}]]
    BY <1>1 DEF TypeOK
  <2> QED BY <1>1, <2>1, GotoType DEF TypeOK
<1>2. CASE Rollback(w) /\ Goto(w, "failed")
  BY <1>2, RollbackType, GotoType, "failed" \in Steps DEF TypeOK, Steps, FinalSteps
<1> QED BY <1>1, <1>2 DEF ReconcileBalance

(* A delivery is counted within its bound and touches no table. *)
LEMMA ReceiveType ==
    ASSUME TypeOK, NEW w \in Workers, NEW t \in Txns, Receive(w, t)
    PROVE  /\ delivered' \in [Txns -> 0..MaxDeliveries]
           /\ UNCHANGED <<status, balance, acctLock, rowLock, staged, released>>
BY LedgerAssumption DEF TypeOK, Receive, Deliverable

(* The statement a handler starts with is one of CreatePendingTransaction. *)
LEMMA ProceedType ==
    ASSUME TypeOK, NEW w \in Workers, NEW t \in Txns, NEW h \in BOOLEAN,
           Proceed(w, t, h)
    PROVE  /\ pc' \in [Workers -> Steps]
           /\ cur' \in [Workers -> Txns \cup {NoTxn}]
           /\ overLimit' \in [Workers -> BOOLEAN]
           /\ \A v \in Workers : pc'[v] = "idle" <=> cur'[v] = NoTxn
BY LedgerAssumption DEF TypeOK, Proceed, Steps, PendingSteps

(* The start of deposit, withdraw and transfer keeps the types. *)
LEMMA DeliverType ==
    ASSUME TypeOK, NEW w \in Workers, NEW t \in Txns, Deliver(w, t)
    PROVE  TypeOK'
<1>1. Receive(w, t)
  BY DEF Deliver, Deposit, Transfer, Withdraw
<1>2. Refuse \/ \E h \in BOOLEAN : Proceed(w, t, h)
  <2>1. CASE Deposit(w, t) BY <2>1 DEF Deposit, CheckAmount
  <2>2. CASE Transfer(w, t) BY <2>2 DEF Transfer, CheckAmount
  <2>3. CASE Withdraw(w, t)
    <3>1. (balance[To(t)] > HighBalance) \in BOOLEAN
      OBVIOUS
    <3> QED BY <2>3, <3>1 DEF Withdraw
  <2> QED BY <2>1, <2>2, <2>3 DEF Deliver
<1> QED BY <1>1, <1>2, ReceiveType, ProceedType DEF Refuse, TypeOK

(* Every statement of a handler keeps the types. *)
LEMMA StepType ==
    ASSUME TypeOK, NEW w \in Workers, Step(w)
    PROVE  TypeOK'
<1> USE DEF Steps, PendingSteps, FundsSteps, FinalSteps
<1>1. CASE LockFirst(w)
  BY <1>1, LockType, GotoType DEF LockFirst, TypeOK
<1>2. CASE LockSecond(w)
  BY <1>2, LockType, GotoType DEF LockSecond, TypeOK
<1>3. CASE InsertPending(w)
  <2>1. status' \in [Txns -> Statuses]
    BY <1>3 DEF InsertPending, TypeOK, Statuses
  <2>2. Return(w) \/ Goto(w, "failed") \/ Goto(w, "flip")
    BY <1>3 DEF InsertPending
  <2> QED
    BY <1>3, <2>1, <2>2, RollbackType, GotoType, ReturnType
       DEF InsertPending, TypeOK
<1>4. CASE FlipPending(w)
  <2>1. rowLock' \in [Txns -> Workers \cup {NoWorker}]
    BY <1>4 DEF FlipPending, TypeOK
  <2> QED BY <1>4, <2>1, GotoType DEF FlipPending, TypeOK
<1>5. CASE LockReconciledFirst(w)
  BY <1>5, LockType, GotoType DEF LockReconciledFirst, TypeOK
<1>6. CASE LockReconciledSecond(w)
  BY <1>6, LockType, GotoType DEF LockReconciledSecond, TypeOK
<1>7. CASE ReconcileFirst(w)
  BY <1>7, ReconcileType DEF ReconcileFirst
<1>8. CASE ReconcileSecond(w)
  BY <1>8, ReconcileType DEF ReconcileSecond
<1>9. CASE CommitFunds(w)
  <2>1. status' \in [Txns -> Statuses]
    BY <1>9 DEF CommitFunds, TypeOK, Statuses
  <2>2. balance' \in [Accounts -> Nat]
    BY <1>9 DEF CommitFunds, TypeOK, Unstaged
  <2> QED
    BY <1>9, <2>1, <2>2, RollbackType, GotoType DEF CommitFunds, TypeOK
<1>10. CASE UpdateTransactionStatus(w)
  <2>1. status' \in [Txns -> Statuses]
    BY <1>10 DEF UpdateTransactionStatus, TypeOK, Statuses
  <2>2. released' \in SUBSET Txns
    <3>1. cur[w] \in Txns
      BY <1>10 DEF UpdateTransactionStatus, TypeOK
    <3> QED BY <1>10, <3>1 DEF UpdateTransactionStatus, TypeOK
  <2> QED BY <1>10, <2>1, <2>2, ReturnType DEF UpdateTransactionStatus, TypeOK
<1> QED
  BY <1>1, <1>2, <1>3, <1>4, <1>5, <1>6, <1>7, <1>8, <1>9, <1>10 DEF Step

(* Every step of the system keeps the types. *)
LEMMA NextType == TypeOK /\ [Next]_vars => TypeOK'
<1> SUFFICES ASSUME TypeOK, [Next]_vars PROVE TypeOK'
  OBVIOUS
<1>1. ASSUME NEW w \in Workers, NEW t \in Txns, Deliver(w, t) PROVE TypeOK'
  BY <1>1, DeliverType
<1>2. ASSUME NEW w \in Workers, Step(w) PROVE TypeOK'
  BY <1>2, StepType
<1>3. ASSUME NEW w \in Workers, DbError(w) PROVE TypeOK'
  BY <1>3, RollbackType, GotoType, ReturnType
     DEF DbError, TypeOK, Steps, FinalSteps
<1>4. ASSUME NEW w \in Workers, Crash(w) PROVE TypeOK'
  BY <1>4, RollbackType, ReturnType DEF Crash, TypeOK
<1>5. CASE Drained \/ UNCHANGED vars
  BY <1>5 DEF Drained, vars, TypeOK
<1> QED BY <1>1, <1>2, <1>3, <1>4, <1>5 DEF Next

(* Every variable keeps its type whatever faults occur; in particular no
   committed balance is ever negative. *)
THEOREM TypeCorrect == Spec => []TypeOK
<1>1. Init => TypeOK
  BY InitTypeOK
<1>2. TypeOK /\ [Next]_vars => TypeOK'
  BY NextType
<1> QED BY <1>1, <1>2, PTL DEF Spec

-----------------------------------------------------------------------------
(* The sum over the ledger. *)

(* COALESCE(SUM(...), 0) over no rows is 0. *)
LEMMA SumOfNothing == \A a : LedgerSum(a, {}) = 0
<1> TAKE a
<1>1. {t \in {} : Touches(t, a)} = {}
  OBVIOUS
<1> QED BY <1>1 DEF LedgerSum, RowSum

(* A transaction that does not touch an account leaves its sum alone. *)
LEMMA SumUntouched ==
    ASSUME NEW a, NEW c, NEW t, ~Touches(t, a)
    PROVE  LedgerSum(a, c \cup {t}) = LedgerSum(a, c)
<1>1. {u \in c \cup {t} : Touches(u, a)} = {u \in c : Touches(u, a)}
  OBVIOUS
<1> QED BY <1>1 DEF LedgerSum

(* The two ids, in lock order, are the two accounts of the transaction. *)
LEMMA OrderedIds ==
    ASSUME NEW t \in Txns
    PROVE  /\ {FirstId(t), SecondId(t)} = {From(t), To(t)}
           /\ From(t) \in Nat /\ To(t) \in Nat
           /\ From(t) = To(t) => FirstId(t) = From(t)
           /\ From(t) # To(t) => FirstId(t) < SecondId(t)
<1>1. From(t) \in Nat /\ To(t) \in Nat
  BY DataAssumption DEF From, To
<1> QED BY <1>1 DEF FirstId, SecondId, LockOrder

-----------------------------------------------------------------------------
(* The inductive invariant, one lemma per statement. *)

(* From its flip on, a handler's accounts exist. *)
LEMMA FundsAccounts ==
    ASSUME IndInv, NEW v \in Workers, pc[v] \in FundsSteps
    PROVE  /\ cur[v] \in Txns
           /\ FirstId(cur[v]) \in Accounts /\ SecondId(cur[v]) \in Accounts
           /\ {FirstId(cur[v]), SecondId(cur[v])} = {From(cur[v]), To(cur[v])}
           /\ From(cur[v]) = To(cur[v]) => FirstId(cur[v]) = From(cur[v])
<1>1. cur[v] \in Txns
  BY DEF IndInv, TypeOK, FundsSteps
<1>2. RowState(v)
  BY DEF IndInv
<1>3. {From(cur[v]), To(cur[v])} \subseteq Accounts
  BY <1>2 DEF RowState, Insertable
<1> QED BY <1>1, <1>3, OrderedIds

(* What a step keeps when no row becomes or stops being completed. *)
LEMMA SameCompleted ==
    ASSUME IndInv, Completed' = Completed, UNCHANGED balance,
           \A v \in Workers : \A a \in Accounts :
               staged'[v][a] # Unstaged =>
                   /\ staged'[v][a] = staged[v][a]
                   /\ acctLock'[a] = acctLock[a]
                   /\ cur'[v] = cur[v]
    PROVE  StagedIsFresh' /\ BalanceMatchesLedger'
<1>1. StagedIsFresh'
  BY DEF IndInv, StagedIsFresh
<1>2. BalanceMatchesLedger'
  BY DEF IndInv, BalanceMatchesLedger
<1> QED BY <1>1, <1>2

(* Locking an account keeps the invariant: what the others hold they keep. *)
LEMMA LockKeeps ==
    ASSUME IndInv, NEW w \in Workers, NEW a \in Nat, NEW s \in Steps,
           LockForUpdate(w, a), Goto(w, s), TypeOK',
           \/ pc[w] = "lockA" /\ s = "lockB"
           \/ pc[w] = "lockB" /\ s = "insert"
           \/ pc[w] = "recA" /\ s = "sumA" /\ a = FirstId(cur[w])
           \/ pc[w] = "recB" /\ s = "sumB" /\ a = SecondId(cur[w])
    PROVE  IndInv'
<1> USE DEF LockForUpdate, Goto
<1>t. TypeOK BY DEF IndInv
<1>1. OneHandler'
  BY DEF IndInv, OneHandler
<1>2. RowLocks'
  BY <1>t DEF IndInv, RowLocks, TypeOK, FlippedSteps
<1>3. ASSUME NEW v \in Workers PROVE RowState(v)'
  BY <1>3, <1>t DEF IndInv, RowState, TypeOK, FundsSteps, FinalSteps
<1>4. ASSUME NEW v \in Workers PROVE StagedSoFar(v)'
  <2>1. CASE v = w
    <3>1. StagedSoFar(w) /\ RowState(w)
      BY DEF IndInv
    <3>2. s \in {"sumA", "sumB"} => a \in Accounts
      BY FundsAccounts DEF FundsSteps
    <3> QED BY <2>1, <3>1, <3>2, <1>t DEF StagedSoFar, TypeOK
  <2>2. CASE v # w
    <3>1. StagedSoFar(v) /\ RowState(v)
      BY DEF IndInv
    <3>2. /\ pc'[v] = pc[v] /\ cur'[v] = cur[v] /\ staged'[v] = staged[v]
          /\ rowLock' = rowLock
      BY <2>2, <1>t DEF TypeOK
    <3>3. \A x \in Accounts : acctLock[x] = v => acctLock'[x] = v
      BY <2>2, LedgerAssumption
    <3>4. pc[v] \in {"sumA", "sumB"} =>
             {FirstId(cur[v]), SecondId(cur[v])} \subseteq Accounts
      BY FundsAccounts DEF FundsSteps
    <3> QED BY <3>1, <3>2, <3>3, <3>4 DEF StagedSoFar
  <2> QED BY <2>1, <2>2
<1>5. StagedIsFresh' /\ BalanceMatchesLedger'
  <2>1. Completed' = Completed BY DEF Completed
  <2>2. ASSUME NEW v \in Workers, NEW x \in Accounts, staged'[v][x] # Unstaged
        PROVE  acctLock'[x] = acctLock[x]
    <3>1. acctLock[x] = v
      BY <2>2 DEF IndInv, StagedIsFresh
    <3> QED BY <3>1, LedgerAssumption
  <2> QED BY <2>1, <2>2, SameCompleted
<1> QED BY <1>1, <1>2, <1>3, <1>4, <1>5 DEF IndInv

(* w has no transaction open after the step, and what the others have locked
   or staged they still have. *)
OutOfTransaction(w) ==
    /\ \A a \in Accounts : staged'[w][a] = Unstaged
    /\ \A t \in Txns : rowLock'[t] # w
    /\ \A v \in Workers \ {w} :
          /\ staged'[v] = staged[v]
          /\ \A a \in Accounts : acctLock[a] = v => acctLock'[a] = v
          /\ \A t \in Txns : rowLock[t] = v <=> rowLock'[t] = v

(* A rollback ends its own transaction and nobody else's. *)
LEMMA RollbackEnds ==
    ASSUME TypeOK, NEW w \in Workers, Rollback(w)
    PROVE  OutOfTransaction(w)
BY LedgerAssumption DEF TypeOK, Rollback, OutOfTransaction, NothingStaged

(* The worker that gives its transaction up; the others do not move. *)
LEMMA EndFrame ==
    ASSUME IndInv, NEW w \in Workers, OutOfTransaction(w), TypeOK',
           \A t \in Txns : t # cur[w] => status'[t] = status[t],
           pc[w] # "idle",
           cur' = cur \/ cur' = [cur EXCEPT ![w] = NoTxn],
           \A v \in Workers \ {w} : pc'[v] = pc[v],
           pc'[w] \in {"idle", "flip", "completed", "failed"},
           RowState(w)'
    PROVE  /\ OneHandler' /\ RowLocks'
           /\ \A v \in Workers : RowState(v)' /\ StagedSoFar(v)'
           /\ \A v \in Workers \ {w} : cur'[v] = cur[v]
<1>t. TypeOK /\ OneHandler /\ RowLocks
  BY DEF IndInv
<1>o. \A v \in Workers \ {w} : cur'[v] = cur[v] /\ (cur[v] # cur[w] \/ cur[v] = NoTxn)
  BY <1>t DEF TypeOK, OneHandler
<1>1. OneHandler'
  BY <1>t DEF OneHandler, TypeOK
<1>2. RowLocks'
  <2>1. ASSUME NEW t \in Txns, rowLock'[t] # NoWorker
        PROVE  /\ cur'[rowLock'[t]] = t
               /\ pc'[rowLock'[t]] \in FlippedSteps \cup {"commit"}
               /\ status'[t] = "pending"
    <3>1. rowLock'[t] \in Workers \ {w} /\ rowLock'[t] = rowLock[t]
      BY <2>1 DEF TypeOK, OutOfTransaction
    <3>2. /\ cur[rowLock[t]] = t
          /\ pc[rowLock[t]] \in FlippedSteps \cup {"commit"}
          /\ status[t] = "pending"
      BY <1>t, <3>1, <2>1 DEF RowLocks
    <3>3. t # cur[w]
      BY <1>o, <3>1, <3>2, LedgerAssumption
    <3> QED BY <1>o, <3>1, <3>2, <3>3
  <2>2. ASSUME NEW v \in Workers, pc'[v] \in FlippedSteps
        PROVE  rowLock'[cur'[v]] = v
    <3>1. v # w /\ pc[v] \in FlippedSteps
      BY <2>2 DEF FlippedSteps
    <3>2. rowLock[cur[v]] = v /\ cur[v] \in Txns
      BY <3>1, <1>t DEF RowLocks, TypeOK, FlippedSteps
    <3> QED BY <3>1, <3>2, <1>o DEF OutOfTransaction
  <2> QED BY <2>1, <2>2 DEF RowLocks
<1>3. ASSUME NEW v \in Workers PROVE RowState(v)'
  <2>1. CASE v = w BY <2>1
  <2>2. CASE v # w
    <3>1. RowState(v) BY DEF IndInv
    <3>2. pc'[v] = pc[v] /\ cur'[v] = cur[v]
      BY <1>o, <2>2
    <3>3. CASE pc[v] = "idle"
      BY <3>2, <3>3 DEF RowState, FundsSteps, FinalSteps
    <3>4. CASE pc[v] # "idle"
      <4>1. cur[v] \in Txns /\ cur[v] # cur[w]
        BY <3>4, <2>2, <1>t, <1>o DEF TypeOK
      <4>2. status'[cur[v]] = status[cur[v]] /\ (rowLock'[cur[v]] = v <=> rowLock[cur[v]] = v)
        BY <4>1, <2>2 DEF OutOfTransaction
      <4> QED BY <3>1, <3>2, <4>2 DEF RowState
    <3> QED BY <3>3, <3>4
  <2> QED BY <2>1, <2>2
<1>4. ASSUME NEW v \in Workers PROVE StagedSoFar(v)'
  <2>1. CASE v = w
    BY <2>1 DEF StagedSoFar, OutOfTransaction
  <2>2. CASE v # w
    <3>1. StagedSoFar(v) BY DEF IndInv
    <3>2. pc'[v] = pc[v] /\ cur'[v] = cur[v] /\ staged'[v] = staged[v]
      BY <1>o, <2>2 DEF OutOfTransaction
    <3>3. CASE pc[v] \in FundsSteps
      <4>1. /\ cur[v] \in Txns
            /\ FirstId(cur[v]) \in Accounts /\ SecondId(cur[v]) \in Accounts
        BY <3>3, FundsAccounts
      <4>2. rowLock'[cur[v]] = v <=> rowLock[cur[v]] = v
        BY <4>1, <2>2 DEF OutOfTransaction
      <4>3. \A a \in Accounts : acctLock[a] = v => acctLock'[a] = v
        BY <2>2 DEF OutOfTransaction
      <4> QED BY <3>1, <3>2, <4>1, <4>2, <4>3 DEF StagedSoFar
    <3>4. CASE pc[v] \notin FundsSteps
      BY <3>1, <3>2, <3>4 DEF StagedSoFar, FundsSteps
    <3> QED BY <3>3, <3>4
  <2> QED BY <2>1, <2>2
<1> QED BY <1>o, <1>1, <1>2, <1>3, <1>4

(* ... and when it completed nothing. *)
LEMMA EndKeeps ==
    ASSUME IndInv, NEW w \in Workers, OutOfTransaction(w), TypeOK',
           Completed' = Completed, UNCHANGED balance,
           \A t \in Txns : t # cur[w] => status'[t] = status[t],
           pc[w] # "idle",
           cur' = cur \/ cur' = [cur EXCEPT ![w] = NoTxn],
           \A v \in Workers \ {w} : pc'[v] = pc[v],
           pc'[w] \in {"idle", "flip", "completed", "failed"},
           RowState(w)'
    PROVE  IndInv'
<1>o. /\ OneHandler' /\ RowLocks'
      /\ \A v \in Workers : RowState(v)' /\ StagedSoFar(v)'
      /\ \A v \in Workers \ {w} : cur'[v] = cur[v]
  BY EndFrame
<1>5. StagedIsFresh' /\ BalanceMatchesLedger'
  <2>1. ASSUME NEW v \in Workers, NEW a \in Accounts, staged'[v][a] # Unstaged
        PROVE  /\ staged'[v][a] = staged[v][a]
               /\ acctLock'[a] = acctLock[a]
               /\ cur'[v] = cur[v]
    <3>1. v # w
      BY <2>1 DEF OutOfTransaction
    <3>2. staged'[v] = staged[v] /\ cur'[v] = cur[v]
      BY <3>1, <1>o DEF OutOfTransaction
    <3>3. acctLock[a] = v
      <4>1. staged[v][a] # Unstaged
        BY <2>1, <3>2
      <4> QED BY <4>1 DEF IndInv, StagedIsFresh
    <3> QED BY <3>1, <3>2, <3>3 DEF OutOfTransaction
  <2> QED BY <2>1, SameCompleted
<1> QED BY <1>o, <1>5 DEF IndInv

(* The INSERT of CreatePendingTransaction keeps the invariant. *)
LEMMA InsertKeeps ==
    ASSUME SafeFaults, IndInv, NEW w \in Workers, InsertPending(w), TypeOK'
    PROVE  IndInv'
<1>t. TypeOK /\ RowState(w) /\ pc[w] = "insert" /\ cur[w] \in Txns
  BY DEF IndInv, InsertPending, TypeOK
<1>1. OutOfTransaction(w)
  BY <1>t, RollbackEnds DEF InsertPending
<1>2. Completed' = Completed
  BY <1>t DEF InsertPending, Completed, TypeOK
<1>3. \A t \in Txns : t # cur[w] => status'[t] = status[t]
  BY <1>t DEF InsertPending, TypeOK
<1>4. RowState(w)'
  <2>1. CASE Return(w)
    BY <2>1, <1>t DEF Return, RowState, TypeOK, FundsSteps, FinalSteps
  <2>2. CASE /\ Insertable(cur[w])
             /\ status' = [status EXCEPT ![cur[w]] =
                              IF @ = "absent" THEN "pending" ELSE @]
             /\ \/ Goto(w, "flip")
                \/ Goto(w, "failed") /\ Payload[cur[w]].type = "withdrawal"
    <3>1. status[cur[w]] \in {"absent", "pending", "completed"}
      BY <1>t DEF RowState, FinalSteps, TypeOK, Statuses
    <3>2. status[cur[w]] = "completed" => "retryCompleted" \in Faults
      BY <1>t DEF RowState, FinalSteps
    <3>3. Payload[cur[w]].type = "withdrawal" => status[cur[w]] # "completed"
      BY <3>2, <1>t DEF SafeFaults
    <3>4. cur'[w] = cur[w]
      BY <2>2 DEF Goto
    <3>5. status'[cur[w]] = IF status[cur[w]] = "absent" THEN "pending"
                                                         ELSE status[cur[w]]
      BY <2>2, <1>t DEF TypeOK
    <3>6. CASE Goto(w, "flip")
      <4>1. pc'[w] = "flip"
        BY <3>6, <1>t DEF Goto, TypeOK
      <4> QED BY <4>1, <2>2, <3>1, <3>2, <3>4, <3>5
              DEF RowState, FundsSteps, FinalSteps
    <3>7. CASE Goto(w, "failed") /\ Payload[cur[w]].type = "withdrawal"
      <4>1. pc'[w] = "failed"
        BY <3>7, <1>t DEF Goto, TypeOK
      <4> QED BY <3>7, <4>1, <2>2, <3>1, <3>3, <3>4, <3>5
              DEF RowState, FundsSteps, FinalSteps
    <3> QED BY <2>2, <3>6, <3>7
  <2> QED BY <2>1, <2>2 DEF InsertPending
<1>5. /\ cur' = cur \/ cur' = [cur EXCEPT ![w] = NoTxn]
      /\ \A v \in Workers \ {w} : pc'[v] = pc[v]
      /\ pc'[w] \in {"idle", "flip", "failed"}
      /\ UNCHANGED balance
  BY <1>t DEF InsertPending, Goto, Return, TypeOK
<1> QED BY <1>t, <1>1, <1>2, <1>3, <1>4, <1>5, EndKeeps

(* A transaction that fails, in the repository or with its process. *)
LEMMA AbortKeeps ==
    ASSUME IndInv, NEW w \in Workers, pc[w] # "idle", Rollback(w), TypeOK',
           UNCHANGED <<status, balance>>,
           \/ Return(w)
           \/ /\ Goto(w, "failed")
              /\ pc[w] \in FundsSteps
              /\ rowLock[cur[w]] = w \/ status[cur[w]] # "completed"
    PROVE  IndInv'
<1>t. TypeOK /\ RowState(w) /\ cur[w] \in Txns /\ RowLocks
  BY DEF IndInv, TypeOK
<1>1. OutOfTransaction(w)
  BY <1>t, RollbackEnds
<1>2. Completed' = Completed
  BY DEF Completed
<1>3. RowState(w)'
  <2>1. CASE Return(w)
    BY <2>1, <1>t DEF Return, RowState, TypeOK, FundsSteps, FinalSteps
  <2>2. CASE /\ Goto(w, "failed")
             /\ pc[w] \in FundsSteps
             /\ rowLock[cur[w]] = w \/ status[cur[w]] # "completed"
    <3>1. status[cur[w]] = "pending"
      <4>1. rowLock[cur[w]] = w => status[cur[w]] = "pending"
        BY <1>t, LedgerAssumption DEF RowLocks
      <4>2. status[cur[w]] \notin {"failed", "absent"}
        BY <2>2, <1>t DEF RowState, FundsSteps, FinalSteps
      <4> QED BY <2>2, <4>1, <4>2, <1>t DEF TypeOK, Statuses
    <3>2. pc'[w] = "failed" /\ cur'[w] = cur[w]
      BY <2>2, <1>t DEF Goto, TypeOK
    <3>3. Insertable(cur[w])
      BY <2>2, <1>t DEF RowState
    <3> QED BY <3>1, <3>2, <3>3 DEF RowState, FundsSteps, FinalSteps
  <2> QED BY <2>1, <2>2
<1>4. /\ cur' = cur \/ cur' = [cur EXCEPT ![w] = NoTxn]
      /\ \A v \in Workers \ {w} : pc'[v] = pc[v]
      /\ pc'[w] \in {"idle", "flip", "failed"}
  BY <1>t DEF Goto, Return, TypeOK
<1> QED BY <1>1, <1>2, <1>3, <1>4, EndKeeps

(* The unconditional UPDATE at the end of a handler keeps the invariant: it
   finds a completed row completed, and a failed one still pending. *)
LEMMA UpdateStatusKeeps ==
    ASSUME IndInv, NEW w \in Workers, UpdateTransactionStatus(w), TypeOK'
    PROVE  IndInv'
<1>t. /\ TypeOK /\ RowState(w) /\ StagedSoFar(w) /\ RowLocks
      /\ pc[w] \in FinalSteps /\ cur[w] \in Txns
  BY DEF IndInv, UpdateTransactionStatus, TypeOK, FinalSteps
<1>1. OutOfTransaction(w)
  <2>1. \A a \in Accounts : staged[w][a] = Unstaged
    BY <1>t DEF StagedSoFar, FinalSteps
  <2>2. \A t \in Txns : rowLock[t] # w
    BY <1>t, LedgerAssumption DEF RowLocks, FlippedSteps, FinalSteps
  <2> QED BY <2>1, <2>2 DEF UpdateTransactionStatus, OutOfTransaction
<1>2. Completed' = Completed
  <2>1. \A t \in Txns : status'[t] = "completed" <=> status[t] = "completed"
    BY <1>t DEF UpdateTransactionStatus, RowState, FinalSteps, TypeOK
  <2> QED BY <2>1 DEF Completed
<1>3. RowState(w)'
  BY <1>t DEF UpdateTransactionStatus, Return, RowState, TypeOK, FundsSteps, FinalSteps
<1>4. /\ cur' = [cur EXCEPT ![w] = NoTxn]
      /\ \A v \in Workers \ {w} : pc'[v] = pc[v]
      /\ pc'[w] = "idle"
      /\ UNCHANGED balance
      /\ \A t \in Txns : t # cur[w] => status'[t] = status[t]
  BY <1>t DEF UpdateTransactionStatus, Return, TypeOK
<1> QED BY <1>t, <1>1, <1>2, <1>3, <1>4, EndKeeps DEF FinalSteps

(* The conditional UPDATE that flips a pending row keeps the invariant. *)
LEMMA FlipKeeps ==
    ASSUME IndInv, NEW w \in Workers, FlipPending(w), TypeOK'
    PROVE  IndInv'
<1>t. /\ TypeOK /\ RowState(w) /\ StagedSoFar(w) /\ RowLocks /\ OneHandler
      /\ pc[w] = "flip" /\ cur[w] \in Txns
      /\ UNCHANGED <<status, balance, acctLock, staged, cur>>
  BY DEF IndInv, FlipPending, Goto, TypeOK
<1>o. \A v \in Workers \ {w} : pc'[v] = pc[v] /\ (cur[v] # cur[w])
  BY <1>t, LedgerAssumption DEF FlipPending, Goto, OneHandler, TypeOK
<1>n. rowLock[cur[w]] = NoWorker /\ \A t \in Txns : t # cur[w] => rowLock'[t] = rowLock[t]
  BY <1>t DEF FlipPending, TypeOK
<1>w. \/ status[cur[w]] = "pending" /\ pc'[w] = "recA" /\ rowLock'[cur[w]] = w
      \/ status[cur[w]] = "completed" /\ pc'[w] = "commit" /\ rowLock' = rowLock
  <2>1. status[cur[w]] \in {"pending", "completed"}
    BY <1>t DEF RowState, FundsSteps, FinalSteps, TypeOK, Statuses
  <2> QED BY <1>t, <2>1 DEF FlipPending, Goto, TypeOK
<1>1. OneHandler'
  BY <1>t DEF OneHandler
<1>2. RowLocks'
  <2>1. ASSUME NEW t \in Txns, rowLock'[t] # NoWorker
        PROVE  /\ cur'[rowLock'[t]] = t
               /\ pc'[rowLock'[t]] \in FlippedSteps \cup {"commit"}
               /\ status'[t] = "pending"
    <3>1. CASE t = cur[w]
      BY <3>1, <2>1, <1>t, <1>n, <1>w DEF FlippedSteps
    <3>2. CASE t # cur[w]
      <4>1. rowLock'[t] = rowLock[t] /\ cur[rowLock[t]] = t
        BY <3>2, <2>1, <1>n, <1>t DEF RowLocks
      <4>2. rowLock[t] \in Workers \ {w}
        BY <4>1, <3>2, <2>1, <1>t DEF TypeOK
      <4> QED BY <4>1, <4>2, <2>1, <1>t, <1>o DEF RowLocks
    <3> QED BY <3>1, <3>2
  <2>2. ASSUME NEW v \in Workers, pc'[v] \in FlippedSteps
        PROVE  rowLock'[cur'[v]] = v
    <3>1. CASE v = w BY <3>1, <2>2, <1>t, <1>w DEF FlippedSteps
    <3>2. CASE v # w
      <4>1. rowLock[cur[v]] = v /\ cur[v] \in Txns
        BY <3>2, <2>2, <1>t, <1>o DEF RowLocks, TypeOK, FlippedSteps
      <4> QED BY <4>1, <3>2, <1>n, <1>o, <1>t
    <3> QED BY <3>1, <3>2
  <2> QED BY <2>1, <2>2 DEF RowLocks
<1>3. ASSUME NEW v \in Workers PROVE RowState(v)'
  <2>1. CASE v = w
    BY <2>1, <1>t, <1>w DEF RowState, FundsSteps, FinalSteps
  <2>2. CASE v # w
    <3>1. RowState(v) BY DEF IndInv
    <3>2. pc[v] = "idle" \/ (cur[v] \in Txns /\ rowLock'[cur[v]] = rowLock[cur[v]])
      BY <2>2, <1>t, <1>n, <1>o DEF TypeOK
    <3> QED BY <3>1, <3>2, <2>2, <1>t, <1>o DEF RowState, FundsSteps, FinalSteps
  <2> QED BY <2>1, <2>2
<1>4. ASSUME NEW v \in Workers PROVE StagedSoFar(v)'
  <2>1. CASE v = w
    <3>1. \A a \in Accounts : staged[w][a] = Unstaged
      BY <1>t DEF StagedSoFar
    <3>2. rowLock[cur[w]] # w
      BY <1>n, LedgerAssumption
    <3> QED BY <2>1, <3>1, <3>2, <1>t, <1>w DEF StagedSoFar
  <2>2. CASE v # w
    <3>1. StagedSoFar(v) BY DEF IndInv
    <3>2. pc[v] = "idle" \/ (cur[v] \in Txns /\ rowLock'[cur[v]] = rowLock[cur[v]])
      BY <2>2, <1>t, <1>n, <1>o DEF TypeOK
    <3> QED BY <3>1, <3>2, <2>2, <1>t, <1>o DEF StagedSoFar
  <2> QED BY <2>1, <2>2
<1>5. StagedIsFresh' /\ BalanceMatchesLedger'
  BY <1>t, SameCompleted DEF Completed
<1> QED BY <1>1, <1>2, <1>3, <1>4, <1>5 DEF IndInv

(* The start of a handler keeps the invariant. *)
LEMMA DeliverKeeps ==
    ASSUME SafeFaults, IndInv, NEW w \in Workers, NEW t \in Txns,
           Deliver(w, t), TypeOK'
    PROVE  IndInv'
<1>t. TypeOK /\ RowLocks /\ OneHandler /\ StagedSoFar(w) /\ RowState(w)
  BY DEF IndInv
<1>r. Receive(w, t)
  BY DEF Deliver, Deposit, Transfer, Withdraw
<1>d. /\ pc[w] = "idle" /\ cur[w] = NoTxn
      /\ UNCHANGED <<status, balance, acctLock, rowLock, staged>>
      /\ \A v \in Workers : cur[v] # t
      /\ status[t] # "failed"
      /\ status[t] = "completed" => "retryCompleted" \in Faults
  BY <1>t, <1>r DEF Receive, Deliverable, Handlers, SafeFaults, TypeOK
<1>c. Completed' = Completed BY <1>d DEF Completed
<1>p. Refuse \/ \E h \in BOOLEAN : Proceed(w, t, h)
  <2>1. CASE Deposit(w, t) BY <2>1 DEF Deposit, CheckAmount
  <2>2. CASE Transfer(w, t) BY <2>2 DEF Transfer, CheckAmount
  <2>3. CASE Withdraw(w, t)
    <3>1. (balance[To(t)] > HighBalance) \in BOOLEAN
      OBVIOUS
    <3> QED BY <2>3, <3>1 DEF Withdraw
  <2> QED BY <2>1, <2>2, <2>3 DEF Deliver
<1>1. CASE Refuse
  <2> UNCHANGED <<pc, cur>> BY <1>1 DEF Refuse
  <2>1. OneHandler' /\ RowLocks'
    BY <1>t, <1>d DEF OneHandler, RowLocks
  <2>2. ASSUME NEW v \in Workers PROVE RowState(v)' /\ StagedSoFar(v)'
    BY <1>d DEF IndInv, RowState, StagedSoFar
  <2>3. StagedIsFresh' /\ BalanceMatchesLedger'
    BY <1>d, <1>c, SameCompleted
  <2> QED BY <2>1, <2>2, <2>3 DEF IndInv
<1>2. CASE \E h \in BOOLEAN : Proceed(w, t, h)
  <2>1. /\ pc'[w] \in {"lockA", "insert"} /\ cur'[w] = t
        /\ \A v \in Workers \ {w} : pc'[v] = pc[v] /\ cur'[v] = cur[v]
    BY <1>2, <1>t DEF Proceed, TypeOK
  <2>2. OneHandler'
    BY <2>1, <1>t, <1>d DEF OneHandler
  <2>3. RowLocks'
    <3>1. ASSUME NEW u \in Txns, rowLock[u] # NoWorker
          PROVE  rowLock[u] \in Workers \ {w}
      <4>1. rowLock[u] \in Workers
        BY <3>1, <1>t DEF TypeOK
      <4>2. pc[rowLock[u]] # "idle"
        BY <3>1, <1>t DEF RowLocks, FlippedSteps
      <4> QED BY <4>1, <4>2, <1>d
    <3>2. \A v \in Workers : pc'[v] \in FlippedSteps => v # w
      BY <2>1 DEF FlippedSteps
    <3> QED BY <3>1, <3>2, <2>1, <1>t, <1>d DEF RowLocks
  <2>4. ASSUME NEW v \in Workers PROVE RowState(v)' /\ StagedSoFar(v)'
    <3>1. CASE v = w
      <4>1. RowState(w)'
        BY <2>1, <1>d DEF RowState, FundsSteps, FinalSteps
      <4>2. \A a \in Accounts : staged[w][a] = Unstaged
        BY <1>t, <1>d DEF StagedSoFar
      <4>3. StagedSoFar(w)'
        BY <4>2, <2>1, <1>d DEF StagedSoFar
      <4> QED BY <3>1, <4>1, <4>3
    <3>2. CASE v # w
      BY <3>2, <2>1, <1>d DEF IndInv, RowState, StagedSoFar
    <3> QED BY <3>1, <3>2
  <2>5. StagedIsFresh' /\ BalanceMatchesLedger'
    <3>1. \A a \in Accounts : staged[w][a] = Unstaged
      BY <1>t, <1>d DEF StagedSoFar
    <3> QED BY <3>1, <2>1, <1>d, <1>c, SameCompleted
  <2> QED BY <2>2, <2>3, <2>4, <2>5 DEF IndInv
<1> QED BY <1>p, <1>1, <1>2

(* Staging a balance, or rolling back because it would be negative, keeps the
   invariant. *)
LEMMA ReconcileKeeps ==
    ASSUME IndInv, NEW w \in Workers, NEW a, NEW s \in Steps,
           ReconcileBalance(w, a, s), TypeOK',
           \/ /\ pc[w] = "sumA" /\ a = FirstId(cur[w])
              /\ s = IF From(cur[w]) # To(cur[w]) THEN "recB" ELSE "commit"
           \/ pc[w] = "sumB" /\ a = SecondId(cur[w]) /\ s = "commit"
    PROVE  IndInv'
<1> DEFINE sum == LedgerSum(a, Completed \cup {cur[w]})
<1>t. /\ TypeOK /\ RowState(w) /\ StagedSoFar(w) /\ RowLocks /\ OneHandler
      /\ pc[w] \in {"sumA", "sumB"}
  BY DEF IndInv
<1>f. /\ cur[w] \in Txns
      /\ FirstId(cur[w]) \in Accounts /\ SecondId(cur[w]) \in Accounts
      /\ {FirstId(cur[w]), SecondId(cur[w])} = {From(cur[w]), To(cur[w])}
      /\ From(cur[w]) = To(cur[w]) => FirstId(cur[w]) = From(cur[w])
  BY <1>t, FundsAccounts DEF FundsSteps
<1>l. rowLock[cur[w]] = w
  BY <1>t DEF RowLocks, FlippedSteps
<1>1. CASE Rollback(w) /\ Goto(w, "failed")
  BY <1>1, <1>t, <1>l, AbortKeeps DEF ReconcileBalance, FundsSteps
<1>2. CASE /\ sum \in Nat
           /\ staged' = [staged EXCEPT ![w] =
                           [x \in Accounts |-> IF x = a THEN sum ELSE @[x]]]
           /\ UNCHANGED <<acctLock, rowLock>>
           /\ Goto(w, s)
  <2>u. UNCHANGED <<status, balance, acctLock, rowLock, cur>>
    BY <1>2 DEF ReconcileBalance, Goto
  <2>w. pc'[w] = s /\ \A v \in Workers \ {w} : pc'[v] = pc[v] /\ staged'[v] = staged[v]
    BY <1>2, <1>t DEF Goto, TypeOK
  <2>s. \A x \in Accounts : staged'[w][x] = IF x = a THEN sum ELSE staged[w][x]
    <3> HIDE DEF sum
    <3> QED BY <1>2, <1>t DEF TypeOK
  <2>n. sum # Unstaged
    <3> HIDE DEF sum
    <3> QED BY <1>2 DEF Unstaged
  <2>1. OneHandler'
    BY <2>u, <1>t DEF OneHandler
  <2>2. RowLocks'
    <3>1. \A v \in Workers : pc'[v] = pc[v] \/ (v = w /\ pc'[w] \in FlippedSteps \cup {"commit"})
      BY <2>w DEF FlippedSteps
    <3>2. \A v \in Workers : pc'[v] \in FlippedSteps => pc[v] \in FlippedSteps
      BY <2>w, <1>t DEF FlippedSteps
    <3>3. ASSUME NEW t \in Txns, rowLock[t] # NoWorker
          PROVE  pc'[rowLock[t]] \in FlippedSteps \cup {"commit"}
      <4>1. rowLock[t] \in Workers
        BY <3>3, <1>t DEF TypeOK
      <4>2. pc[rowLock[t]] \in FlippedSteps \cup {"commit"}
        BY <3>3, <1>t DEF RowLocks
      <4> QED BY <4>1, <4>2, <3>1
    <3> QED BY <2>u, <3>2, <3>3, <1>t DEF RowLocks
  <2>3. ASSUME NEW v \in Workers PROVE RowState(v)'
    <3>1. CASE v = w
      BY <3>1, <2>u, <2>w, <1>t, <1>l DEF RowState, FundsSteps, FinalSteps
    <3>2. CASE v # w
      BY <3>2, <2>u, <2>w DEF IndInv, RowState
    <3> QED BY <3>1, <3>2
  <2>4. ASSUME NEW v \in Workers PROVE StagedSoFar(v)'
    <3>1. CASE v = w
      <4> DEFINE Before == {x \in Accounts : staged[w][x] # Unstaged}
                 After == {x \in Accounts : staged'[w][x] # Unstaged}
      <4>1. After = Before \cup {a}
        <5> HIDE DEF sum
        <5> QED BY <2>s, <2>n, <1>f
      <4>2. CASE pc[w] = "sumA"
        <5>1. Before = {}
          BY <4>2, <1>t DEF StagedSoFar
        <5>2. After = {FirstId(cur[w])}
          BY <4>1, <4>2, <5>1
        <5> HIDE DEF After
        <5>3. CASE s = "recB"
          <6>1. After = {FirstId(cur[w])} /\ pc'[w] = "recB" /\ cur'[w] = cur[w]
            BY <5>2, <5>3, <2>w, <2>u
          <6> QED BY <3>1, <6>1 DEF StagedSoFar, After
        <5>4. CASE s = "commit"
          <6>1. /\ After = {From(cur[w]), To(cur[w])} /\ pc'[w] = "commit"
                /\ cur'[w] = cur[w] /\ rowLock'[cur[w]] = w
            BY <4>2, <5>2, <5>4, <2>w, <2>u, <1>l, <1>f
          <6> QED BY <3>1, <6>1 DEF StagedSoFar, After
        <5> QED BY <4>2, <5>3, <5>4
      <4>3. CASE pc[w] = "sumB"
        <5>1. Before = {FirstId(cur[w])}
          BY <4>3, <1>t DEF StagedSoFar
        <5>2. After = {From(cur[w]), To(cur[w])}
          BY <4>1, <4>3, <5>1, <1>f
        <5> HIDE DEF After
        <5>3. pc'[w] = "commit" /\ cur'[w] = cur[w] /\ rowLock'[cur[w]] = w
          BY <4>3, <2>w, <2>u, <1>l
        <5> QED BY <3>1, <5>2, <5>3 DEF StagedSoFar, After
      <4> QED BY <4>2, <4>3, <1>t
    <3>2. CASE v # w
      BY <3>2, <2>u, <2>w DEF IndInv, StagedSoFar
    <3> QED BY <3>1, <3>2
  <2>c. Completed' = Completed
    BY <2>u DEF Completed
  <2>5. StagedIsFresh'
    <3> SUFFICES ASSUME NEW v \in Workers, NEW x \in Accounts,
                        staged'[v][x] # Unstaged
                 PROVE  /\ acctLock'[x] = v
                        /\ staged'[v][x] = LedgerSum(x, Completed' \cup {cur'[v]})
      BY DEF StagedIsFresh
    <3>1. CASE v = w /\ x = a
      <4>1. acctLock[a] = w
        BY <1>t DEF StagedSoFar
      <4>2. staged'[w][a] = LedgerSum(a, Completed \cup {cur[w]})
        BY <2>s, <3>1
      <4> QED BY <3>1, <4>1, <4>2, <2>u, <2>c
    <3>2. CASE ~(v = w /\ x = a)
      <4>1. staged'[v][x] = staged[v][x]
        BY <3>2, <2>s, <2>w
      <4> QED BY <4>1, <2>u, <2>c DEF IndInv, StagedIsFresh
    <3> QED BY <3>1, <3>2
  <2>6. BalanceMatchesLedger'
    BY <2>u, <2>c DEF IndInv, BalanceMatchesLedger
  <2> QED BY <2>1, <2>2, <2>3, <2>4, <2>5, <2>6 DEF IndInv
<1> QED BY <1>1, <1>2 DEF ReconcileBalance

(* The COMMIT of a funds transaction keeps the invariant: the status and the
   balances change together. *)
LEMMA CommitKeeps ==
    ASSUME SafeFaults, IndInv, NEW w \in Workers, CommitFunds(w), TypeOK'
    PROVE  IndInv'
<1> DEFINE t == cur[w]
<1>t. /\ TypeOK /\ RowState(w) /\ StagedSoFar(w) /\ RowLocks /\ OneHandler
      /\ pc[w] = "commit" /\ t \in Txns
  BY DEF IndInv, CommitFunds, TypeOK
<1>g. /\ cur' = cur /\ pc'[w] = "completed"
      /\ \A v \in Workers \ {w} : pc'[v] = pc[v]
  BY <1>t DEF CommitFunds, Goto, SafeFaults, TypeOK
<1>o. OutOfTransaction(w)
  BY <1>t, RollbackEnds DEF CommitFunds
<1>s. /\ \A u \in Txns : u # t => status'[u] = status[u]
      /\ status'[t] = "completed"
  BY <1>t DEF CommitFunds, RowState, TypeOK
<1>r. RowState(w)'
  BY <1>t, <1>g, <1>s DEF RowState, FundsSteps, FinalSteps
<1>1. CASE rowLock[t] # w
  <2>1. Completed' = Completed
    BY <1>1, <1>t, <1>s DEF RowState, Completed
  <2>2. UNCHANGED balance
    <3>1. \A a \in Accounts : staged[w][a] = Unstaged
      BY <1>1, <1>t DEF StagedSoFar
    <3> QED BY <3>1, <1>t DEF CommitFunds, TypeOK
  <2> QED BY <2>1, <2>2, <1>t, <1>g, <1>o, <1>s, <1>r, EndKeeps
<1>2. CASE rowLock[t] = w
  <2>1. Completed' = Completed \cup {t}
    BY <1>t, <1>s DEF Completed
  <2>2. \A a \in Accounts : staged[w][a] # Unstaged <=> Touches(t, a)
    BY <1>2, <1>t DEF StagedSoFar, Touches
  <2>3. BalanceMatchesLedger'
    <3> SUFFICES ASSUME NEW a \in Accounts
                 PROVE  balance'[a] = LedgerSum(a, Completed \cup {t})
      BY <2>1 DEF BalanceMatchesLedger
    <3>1. CASE Touches(t, a)
      BY <3>1, <2>2 DEF CommitFunds, IndInv, StagedIsFresh
    <3>2. CASE ~Touches(t, a)
      <4>1. balance'[a] = LedgerSum(a, Completed)
        BY <3>2, <2>2 DEF CommitFunds, IndInv, BalanceMatchesLedger
      <4> QED BY <4>1, <3>2, SumUntouched
    <3> QED BY <3>1, <3>2
  <2>4. StagedIsFresh'
    <3> SUFFICES ASSUME NEW v \in Workers, NEW a \in Accounts,
                        staged'[v][a] # Unstaged
                 PROVE  /\ acctLock'[a] = v
                        /\ staged'[v][a] = LedgerSum(a, Completed' \cup {cur'[v]})
      BY DEF StagedIsFresh
    <3>1. v # w /\ staged'[v] = staged[v]
      BY <1>o DEF OutOfTransaction
    <3>2. acctLock[a] = v /\ staged[v][a] = LedgerSum(a, Completed \cup {cur[v]})
      BY <3>1 DEF IndInv, StagedIsFresh
    <3>3. ~Touches(t, a)
      BY <3>1, <3>2, <2>2 DEF IndInv, StagedIsFresh
    <3>4. Completed' \cup {cur'[v]} = (Completed \cup {cur[v]}) \cup {t}
      BY <2>1, <1>g
    <3>5. LedgerSum(a, (Completed \cup {cur[v]}) \cup {t})
             = LedgerSum(a, Completed \cup {cur[v]})
      BY <3>3, SumUntouched
    <3> QED BY <3>1, <3>2, <3>4, <3>5, <1>o DEF OutOfTransaction
  <2>5. OneHandler' /\ RowLocks' /\ \A v \in Workers : RowState(v)' /\ StagedSoFar(v)'
    BY <1>t, <1>g, <1>o, <1>s, <1>r, EndFrame
  <2> QED BY <2>3, <2>4, <2>5 DEF IndInv
<1> QED BY <1>1, <1>2

(* The invariant holds of the empty ledger. *)
LEMMA InitInv == Init => IndInv
<1> SUFFICES ASSUME Init PROVE IndInv
  OBVIOUS
<1>1. TypeOK
  BY InitTypeOK
<1>2. OneHandler /\ RowLocks
  BY DEF Init, OneHandler, RowLocks, FlippedSteps
<1>3. ASSUME NEW w \in Workers PROVE RowState(w) /\ StagedSoFar(w)
  BY DEF Init, RowState, StagedSoFar, FundsSteps, FinalSteps, NothingStaged
<1>4. StagedIsFresh
  BY DEF Init, StagedIsFresh, NothingStaged
<1>5. BalanceMatchesLedger
  <2>1. Completed = {}
    BY DEF Init, Completed
  <2> QED BY <2>1, SumOfNothing DEF Init, BalanceMatchesLedger
<1> QED BY <1>1, <1>2, <1>3, <1>4, <1>5 DEF IndInv

(* Every statement of a handler keeps the invariant. *)
LEMMA StepKeeps ==
    ASSUME SafeFaults, IndInv, NEW w \in Workers, Step(w), TypeOK'
    PROVE  IndInv'
<1> USE DEF Steps, PendingSteps, FundsSteps, FinalSteps
<1>t. TypeOK /\ (pc[w] # "idle" => cur[w] \in Txns)
  BY DEF IndInv, TypeOK
<1>i. pc[w] # "idle" => FirstId(cur[w]) \in Nat /\ SecondId(cur[w]) \in Nat
  BY <1>t, OrderedIds DEF FirstId, SecondId, LockOrder
<1>1. CASE LockFirst(w) BY <1>1, <1>i, LockKeeps DEF LockFirst
<1>2. CASE LockSecond(w) BY <1>2, <1>i, LockKeeps DEF LockSecond
<1>3. CASE InsertPending(w) BY <1>3, InsertKeeps
<1>4. CASE FlipPending(w) BY <1>4, FlipKeeps
<1>5. CASE LockReconciledFirst(w) BY <1>5, <1>i, LockKeeps DEF LockReconciledFirst
<1>6. CASE LockReconciledSecond(w) BY <1>6, <1>i, LockKeeps DEF LockReconciledSecond
<1>7. CASE ReconcileFirst(w) BY <1>7, ReconcileKeeps DEF ReconcileFirst
<1>8. CASE ReconcileSecond(w) BY <1>8, ReconcileKeeps DEF ReconcileSecond
<1>9. CASE CommitFunds(w) BY <1>9, CommitKeeps
<1>10. CASE UpdateTransactionStatus(w) BY <1>10, UpdateStatusKeeps
<1> QED
  BY <1>1, <1>2, <1>3, <1>4, <1>5, <1>6, <1>7, <1>8, <1>9, <1>10 DEF Step

(* Under the safe faults every step of the system keeps the invariant. *)
LEMMA NextKeeps == SafeFaults /\ IndInv /\ [Next]_vars => IndInv'
<1> SUFFICES ASSUME SafeFaults, IndInv, [Next]_vars PROVE IndInv'
  OBVIOUS
<1>t. TypeOK /\ TypeOK'
  BY NextType DEF IndInv
<1>1. ASSUME NEW w \in Workers, NEW t \in Txns, Deliver(w, t) PROVE IndInv'
  BY <1>1, <1>t, DeliverKeeps
<1>2. ASSUME NEW w \in Workers, Step(w) PROVE IndInv'
  BY <1>2, <1>t, StepKeeps
<1>3. ASSUME NEW w \in Workers, DbError(w) PROVE IndInv'
  <2>1. pc[w] \in FundsSteps => status[cur[w]] # "completed"
    BY <1>3 DEF DbError, IndInv, RowState, SafeFaults, FundsSteps, FinalSteps
  <2> QED BY <1>3, <1>t, <2>1, AbortKeeps DEF DbError
<1>4. ASSUME NEW w \in Workers, Crash(w) PROVE IndInv'
  BY <1>4, <1>t, AbortKeeps DEF Crash
<1>5. CASE Drained \/ UNCHANGED vars
  <2> UNCHANGED vars BY <1>5 DEF Drained
  <2>1. OneHandler' /\ RowLocks'
    BY DEF vars, IndInv, OneHandler, RowLocks
  <2>2. ASSUME NEW w \in Workers PROVE RowState(w)' /\ StagedSoFar(w)'
    BY DEF vars, IndInv, RowState, StagedSoFar
  <2>3. StagedIsFresh' /\ BalanceMatchesLedger'
    BY SameCompleted DEF vars, Completed
  <2> QED BY <1>t, <2>1, <2>2, <2>3 DEF IndInv
<1> QED BY <1>1, <1>2, <1>3, <1>4, <1>5 DEF Next

(* Under the safe faults every committed balance always equals what the
   committed ledger adds up to. *)
THEOREM BalancesCorrect == SafeFaults => (Spec => []BalanceMatchesLedger)
<1> SUFFICES ASSUME SafeFaults PROVE Spec => []BalanceMatchesLedger
  OBVIOUS
<1>1. Init => IndInv
  BY InitInv
<1>2. IndInv /\ [Next]_vars => IndInv'
  BY NextKeeps
<1>3. IndInv => BalanceMatchesLedger
  BY DEF IndInv
<1> QED BY <1>1, <1>2, <1>3, PTL DEF Spec

(* Under the safe faults a balance written and not yet committed is still the
   right one, and its account still locked by the transaction that wrote it. *)
THEOREM StagedStaysFresh == SafeFaults => (Spec => []StagedIsFresh)
<1> SUFFICES ASSUME SafeFaults PROVE Spec => []StagedIsFresh
  OBVIOUS
<1>1. Init => IndInv
  BY InitInv
<1>2. IndInv /\ [Next]_vars => IndInv'
  BY NextKeeps
<1>3. IndInv => StagedIsFresh
  BY DEF IndInv
<1> QED BY <1>1, <1>2, <1>3, PTL DEF Spec

-----------------------------------------------------------------------------
(* What a step does to the ledger, as AtomicLedger sees it. *)

(* Every step records, settles or rejects one transaction, or leaves the ledger
   and the balances alone. *)
LEMMA LedgerStep ==
    ASSUME SafeFaults, IndInv, [Next]_vars
    PROVE  \/ UNCHANGED <<status, balance>>
           \/ \E t \in Txns : Atomic!Record(t) \/ Atomic!Settle(t) \/ Atomic!Reject(t)
<1> DEFINE Goal == \/ UNCHANGED <<status, balance>>
                   \/ \E t \in Txns : \/ Atomic!Record(t) \/ Atomic!Settle(t)
                                       \/ Atomic!Reject(t)
<1>t. TypeOK BY DEF IndInv
<1>c. \A w \in Workers : pc[w] # "idle" => cur[w] \in Txns
  BY <1>t DEF TypeOK
<1>1. ASSUME NEW w \in Workers, NEW t \in Txns, Deliver(w, t) PROVE Goal
  BY <1>1 DEF Deliver, Deposit, Transfer, Withdraw, Receive
<1>2. ASSUME NEW w \in Workers, Step(w) PROVE Goal
  <2>1. CASE LockFirst(w) BY <2>1 DEF LockFirst, LockForUpdate
  <2>2. CASE LockSecond(w) BY <2>2 DEF LockSecond, LockForUpdate
  <2>3. CASE InsertPending(w)
    <3>1. cur[w] \in Txns
      BY <2>3, <1>c DEF InsertPending
    <3>2. CASE UNCHANGED status BY <2>3, <3>2 DEF InsertPending
    <3>3. CASE /\ Insertable(cur[w])
               /\ status' = [status EXCEPT ![cur[w]] =
                                IF @ = "absent" THEN "pending" ELSE @]
      <4>1. CASE status[cur[w]] = "absent"
        BY <4>1, <3>1, <3>3, <2>3 DEF InsertPending, Atomic!Record
      <4>2. CASE status[cur[w]] # "absent"
        <5>1. UNCHANGED status BY <4>2, <3>1, <3>3, <1>t DEF TypeOK
        <5> QED BY <5>1, <2>3 DEF InsertPending
      <4> QED BY <4>1, <4>2
    <3> QED BY <2>3, <3>2, <3>3 DEF InsertPending
  <2>4. CASE FlipPending(w) BY <2>4 DEF FlipPending
  <2>5. CASE LockReconciledFirst(w) BY <2>5 DEF LockReconciledFirst, LockForUpdate
  <2>6. CASE LockReconciledSecond(w) BY <2>6 DEF LockReconciledSecond, LockForUpdate
  <2>7. CASE ReconcileFirst(w) BY <2>7 DEF ReconcileFirst, ReconcileBalance
  <2>8. CASE ReconcileSecond(w) BY <2>8 DEF ReconcileSecond, ReconcileBalance
  <2>9. CASE CommitFunds(w)
    <3> DEFINE t == cur[w]
    <3>1. /\ t \in Txns /\ pc[w] = "commit"
          /\ StagedSoFar(w) /\ RowLocks /\ StagedIsFresh
      BY <2>9, <1>c DEF CommitFunds, IndInv
    <3>2. CASE rowLock[t] # w
      <4>1. \A a \in Accounts : staged[w][a] = Unstaged
        BY <3>1, <3>2 DEF StagedSoFar
      <4>2. UNCHANGED balance
        BY <4>1, <2>9, <1>t DEF CommitFunds, TypeOK
      <4>3. UNCHANGED status
        BY <3>1, <3>2, <2>9, <1>t DEF CommitFunds, TypeOK
      <4> QED BY <4>2, <4>3
    <3>3. CASE rowLock[t] = w
      <4>1. status[t] = "pending"
        BY <3>1, <3>3, LedgerAssumption DEF RowLocks
      <4>2. \A a \in Accounts : staged[w][a] # Unstaged <=> Touches(t, a)
        BY <3>1, <3>3 DEF StagedSoFar, Touches
      <4>3. \A a \in Accounts : Touches(t, a) =>
                  /\ staged[w][a] = LedgerSum(a, Completed \cup {t})
                  /\ staged[w][a] \in Nat
        BY <4>2, <3>1, <1>t DEF StagedIsFresh, TypeOK
      <4>4. status' = [status EXCEPT ![t] = "completed"]
        BY <3>3, <2>9 DEF CommitFunds
      <4>5. balance' = [a \in Accounts |->
                           IF Touches(t, a) THEN LedgerSum(a, Completed \cup {t})
                                            ELSE balance[a]]
        BY <4>2, <4>3, <2>9 DEF CommitFunds
      <4>6. Atomic!Completed = Completed
        BY DEF Completed, Atomic!Completed
      <4>7. Atomic!Settle(t)
        BY <4>1, <4>3, <4>4, <4>5, <4>6 DEF Atomic!Settle
      <4> QED BY <3>1, <4>7
    <3> QED BY <3>2, <3>3
  <2>10. CASE UpdateTransactionStatus(w)
    <3>1. cur[w] \in Txns /\ RowState(w)
      BY <2>10, <1>c DEF UpdateTransactionStatus, FinalSteps, IndInv
    <3>2. CASE pc[w] = "completed"
      <4>1. UNCHANGED status
        BY <3>1, <3>2, <2>10, <1>t DEF UpdateTransactionStatus, RowState, TypeOK
      <4> QED BY <4>1, <2>10 DEF UpdateTransactionStatus
    <3>3. CASE pc[w] = "failed"
      <4>1. Atomic!Reject(cur[w])
        BY <3>1, <3>3, <2>10 DEF UpdateTransactionStatus, RowState, Atomic!Reject
      <4> QED BY <4>1, <3>1
    <3> QED BY <3>2, <3>3, <2>10 DEF UpdateTransactionStatus, FinalSteps
  <2> QED
    BY <1>2, <2>1, <2>2, <2>3, <2>4, <2>5, <2>6, <2>7, <2>8, <2>9, <2>10 DEF Step
<1>3. ASSUME NEW w \in Workers, DbError(w) \/ Crash(w) PROVE Goal
  BY <1>3 DEF DbError, Crash
<1>4. CASE Drained \/ UNCHANGED vars
  BY <1>4 DEF Drained, vars
<1> QED BY <1>1, <1>2, <1>3, <1>4 DEF Next

(* Statement by statement, with row locks, rollbacks, crashes, database
   errors and redelivery, the handlers implement the atomic ledger. *)
THEOREM LedgerImplementsAtomic == SafeFaults => (Spec => ImplementsAtomicLedger)
<1> SUFFICES ASSUME SafeFaults PROVE Spec => ImplementsAtomicLedger
  OBVIOUS
<1>1. Init => IndInv
  BY InitInv
<1>2. IndInv /\ [Next]_vars => IndInv'
  BY NextKeeps
<1>3. Init => Atomic!AInit
  BY DEF Init, Atomic!AInit
<1>4. IndInv /\ [Next]_vars => [Atomic!ANext]_(Atomic!avars)
  <2> SUFFICES ASSUME IndInv, [Next]_vars PROVE [Atomic!ANext]_(Atomic!avars)
    OBVIOUS
  <2> QED BY LedgerStep DEF Atomic!ANext, Atomic!avars
<1> QED BY <1>1, <1>2, <1>3, <1>4, PTL DEF Spec, ImplementsAtomicLedger, Atomic!ASpec

(* Under the safe faults no outcome is ever taken back. *)
THEOREM OutcomesFinal == SafeFaults => (Spec => SettledIsFinal)
<1> SUFFICES ASSUME SafeFaults PROVE Spec => SettledIsFinal
  OBVIOUS
<1>1. Init => IndInv
  BY InitInv
<1>2. IndInv /\ [Next]_vars => IndInv'
  BY NextKeeps
<1>3. IndInv /\ [Next]_vars =>
        [\A t \in Txns : status[t] \in {"completed", "failed"} =>
                            status'[t] = status[t]]_vars
  <2> SUFFICES ASSUME IndInv, [Next]_vars, NEW t \in Txns,
                      status[t] \in {"completed", "failed"}
               PROVE  status'[t] = status[t]
    OBVIOUS
  <2>1. TypeOK BY DEF IndInv
  <2> QED BY <2>1, LedgerStep
          DEF Atomic!Record, Atomic!Settle, Atomic!Reject, TypeOK
<1> QED BY <1>1, <1>2, <1>3, PTL DEF Spec, SettledIsFinal

-----------------------------------------------------------------------------
(* What is recorded, whatever the faults.                                  *)

(* A withdrawal in progress passed checkUserAccountCompatibility, and what a
   worker moves funds for or gives an outcome has been recorded. *)
HandlesValid(w) ==
    /\ pc[w] # "idle" /\ Payload[cur[w]].type = "withdrawal" => Owns(cur[w])
    /\ pc[w] \in FundsSteps \cup FinalSteps => status[cur[w]] # "absent"

(* The inductive invariant of RecordsAreValid. *)
ValidInv ==
    /\ TypeOK
    /\ \A w \in Workers : HandlesValid(w)
    /\ RecordedIsValid

(* A step that records nothing new and starts no handler: the worker goes on
   or returns, and if it comes to move funds its row is there. *)
LEMMA ValidFrame ==
    ASSUME ValidInv, TypeOK', NEW w \in Workers, pc[w] # "idle",
           \A t \in Txns : status'[t] = "absent" <=> status[t] = "absent",
           Return(w) \/ \E s \in Steps :
               /\ Goto(w, s)
               /\ s \in FundsSteps \cup FinalSteps => status[cur[w]] # "absent"
    PROVE  ValidInv'
<1>1. cur[w] \in Txns
  BY DEF ValidInv, TypeOK
<1>2. \A v \in Workers : pc'[v] # "idle" => cur[v] \in Txns /\ cur'[v] = cur[v]
  BY DEF ValidInv, TypeOK, Goto, Return
<1>3. ASSUME NEW v \in Workers PROVE HandlesValid(v)'
  <2>1. CASE v = w
    BY <1>1, <1>2, <2>1 DEF ValidInv, HandlesValid, TypeOK, Goto, Return, Owns,
                            FundsSteps, FinalSteps
  <2>2. CASE v # w
    <3>1. pc'[v] = pc[v] /\ cur'[v] = cur[v]
      BY <2>2 DEF ValidInv, TypeOK, Goto, Return
    <3>2. pc[v] # "idle" => cur[v] \in Txns
      BY DEF ValidInv, TypeOK
    <3> QED BY <3>1, <3>2 DEF ValidInv, HandlesValid, Owns, FundsSteps, FinalSteps
  <2> QED BY <2>1, <2>2
<1>4. RecordedIsValid'
  BY DEF ValidInv, RecordedIsValid
<1> QED BY <1>3, <1>4 DEF ValidInv

(* The INSERT records only what the constraints admit; of a withdrawal it is
   known by then that its user owns the account. *)
LEMMA ValidInsert ==
    ASSUME ValidInv, TypeOK', NEW w \in Workers, InsertPending(w)
    PROVE  ValidInv'
<1>1. pc[w] = "insert" /\ cur[w] \in Txns /\ HandlesValid(w)
  BY DEF ValidInv, TypeOK, InsertPending
<1>2. CASE UNCHANGED status /\ Return(w)
  BY <1>1, <1>2, ValidFrame
<1>3. CASE /\ Insertable(cur[w])
           /\ status' = [status EXCEPT ![cur[w]] =
                            IF @ = "absent" THEN "pending" ELSE @]
           /\ Goto(w, "failed") \/ Goto(w, "flip")
  <2>1. status'[cur[w]] # "absent"
    BY <1>1, <1>3 DEF ValidInv, TypeOK
  <2>2. \A t \in Txns : t # cur[w] => status'[t] = status[t]
    BY <1>1, <1>3 DEF ValidInv, TypeOK
  <2>3. RecordedIsValid'
    BY <1>1, <1>3, <2>2 DEF ValidInv, RecordedIsValid, HandlesValid, Owns
  <2>4. ASSUME NEW v \in Workers PROVE HandlesValid(v)'
    <3>1. cur'[v] = cur[v] /\ (pc[v] # "idle" => cur[v] \in Txns)
      BY <1>3 DEF ValidInv, TypeOK, Goto
    <3>2. CASE v = w
      BY <1>1, <2>1, <3>1, <3>2 DEF HandlesValid, Owns
    <3>3. CASE v # w
      <4>1. pc'[v] = pc[v]
        BY <1>3, <3>3 DEF ValidInv, TypeOK, Goto
      <4>2. pc[v] # "idle" /\ status[cur[v]] # "absent" =>
                status'[cur[v]] # "absent"
        BY <2>1, <2>2, <3>1
      <4>3. HandlesValid(v)
        BY DEF ValidInv
      <4> QED BY <3>1, <4>1, <4>2, <4>3
              DEF HandlesValid, Owns, FundsSteps, FinalSteps
    <3> QED BY <3>2, <3>3
  <2> QED BY <2>3, <2>4 DEF ValidInv
<1> QED BY <1>2, <1>3 DEF InsertPending

(* Only a withdrawal of the account's owner gets beyond the checks. *)
LEMMA ValidDeliver ==
    ASSUME ValidInv, TypeOK', NEW w \in Workers, NEW t \in Txns, Deliver(w, t)
    PROVE  ValidInv'
<1>1. UNCHANGED status
  BY DEF Deliver, Deposit, Transfer, Withdraw, Receive
<1>2. \/ Refuse
      \/ \E h : Proceed(w, t, h) /\ (Payload[t].type = "withdrawal" => Owns(t))
  <2>1. CASE Deposit(w, t) BY <2>1 DEF Deposit, CheckAmount
  <2>2. CASE Transfer(w, t) BY <2>2 DEF Transfer, CheckAmount
  <2>3. CASE Withdraw(w, t) BY <2>3 DEF Withdraw
  <2> QED BY <2>1, <2>2, <2>3 DEF Deliver
<1>3. ASSUME NEW v \in Workers PROVE HandlesValid(v)'
  <2>1. HandlesValid(v) BY DEF ValidInv
  <2>2. CASE Refuse BY <1>1, <2>1, <2>2 DEF Refuse, HandlesValid, Owns
  <2>3. CASE ~Refuse
    <3>1. PICK h : Proceed(w, t, h) /\ (Payload[t].type = "withdrawal" => Owns(t))
      BY <1>2, <2>3
    <3>2. CASE v = w
      <4>1. cur'[w] = t /\ pc'[w] \in {"lockA", "insert"}
        BY <3>1 DEF Proceed, ValidInv, TypeOK
      <4> QED BY <3>1, <3>2, <4>1 DEF HandlesValid, Owns, FundsSteps, FinalSteps
    <3>3. CASE v # w
      <4>1. cur'[v] = cur[v] /\ pc'[v] = pc[v]
        BY <3>1, <3>3 DEF Proceed, ValidInv, TypeOK
      <4> QED BY <1>1, <2>1, <4>1 DEF HandlesValid, Owns
    <3> QED BY <3>2, <3>3
  <2> QED BY <2>2, <2>3
<1>4. RecordedIsValid'
  BY <1>1 DEF ValidInv, RecordedIsValid
<1> QED BY <1>3, <1>4 DEF ValidInv

(* Every other statement of a handler leaves recorded what was. *)
LEMMA ValidStep ==
    ASSUME ValidInv, TypeOK', NEW w \in Workers, Step(w)
    PROVE  ValidInv'
<1> DEFINE Kept == \A t \in Txns : status'[t] = "absent" <=> status[t] = "absent"
<1> DEFINE t == cur[w]
<1> USE DEF Steps, PendingSteps, FundsSteps, FinalSteps
<1>0. pc[w] # "idle" /\ t \in Txns /\ HandlesValid(w)
  BY DEF Step, LockFirst, LockSecond, InsertPending, FlipPending,
         LockReconciledFirst, LockReconciledSecond, ReconcileFirst,
         ReconcileSecond, CommitFunds, UpdateTransactionStatus, ValidInv, TypeOK
<1>1. CASE LockFirst(w)
  BY <1>0, <1>1, ValidFrame DEF LockFirst, LockForUpdate
<1>2. CASE LockSecond(w)
  BY <1>0, <1>2, ValidFrame DEF LockSecond, LockForUpdate
<1>3. CASE InsertPending(w)
  BY <1>3, ValidInsert
<1>4. CASE FlipPending(w)
  <2>1. status[t] # "absent" BY <1>0, <1>4 DEF FlipPending, HandlesValid
  <2> QED BY <1>0, <1>4, <2>1, ValidFrame DEF FlipPending
<1>5. CASE LockReconciledFirst(w)
  <2>1. status[t] # "absent" BY <1>0, <1>5 DEF LockReconciledFirst, HandlesValid
  <2> QED BY <1>0, <1>5, <2>1, ValidFrame DEF LockReconciledFirst, LockForUpdate
<1>6. CASE LockReconciledSecond(w)
  <2>1. status[t] # "absent" BY <1>0, <1>6 DEF LockReconciledSecond, HandlesValid
  <2> QED BY <1>0, <1>6, <2>1, ValidFrame DEF LockReconciledSecond, LockForUpdate
<1>7. CASE ReconcileFirst(w) \/ ReconcileSecond(w)
  <2>1. status[t] # "absent"
    BY <1>0, <1>7 DEF ReconcileFirst, ReconcileSecond, HandlesValid
  <2>2. \E s \in {"recB", "commit", "failed"} : Goto(w, s)
    BY <1>7 DEF ReconcileFirst, ReconcileSecond, ReconcileBalance
  <2>3. UNCHANGED status
    BY <1>7 DEF ReconcileFirst, ReconcileSecond, ReconcileBalance
  <2> QED BY <1>0, <2>1, <2>2, <2>3, ValidFrame
<1>8. CASE CommitFunds(w)
  <2>1. status[t] # "absent" BY <1>0, <1>8 DEF CommitFunds, HandlesValid
  <2>2. Kept BY <1>0, <1>8, <2>1 DEF CommitFunds, ValidInv, TypeOK
  <2>3. Goto(w, "completed") \/ Goto(w, "failed") BY <1>8 DEF CommitFunds
  <2> QED BY <1>0, <2>1, <2>2, <2>3, ValidFrame
<1>9. CASE UpdateTransactionStatus(w)
  <2>1. status[t] # "absent" BY <1>0, <1>9 DEF UpdateTransactionStatus, HandlesValid
  <2>2. Kept BY <1>0, <1>9, <2>1 DEF UpdateTransactionStatus, ValidInv, TypeOK
  <2>3. Return(w) BY <1>9 DEF UpdateTransactionStatus
  <2> QED BY <1>0, <2>2, <2>3, ValidFrame
<1> QED BY <1>1, <1>2, <1>3, <1>4, <1>5, <1>6, <1>7, <1>8, <1>9 DEF Step

(* Every step keeps the invariant, crashes and all faults included. *)
LEMMA NextValid == ValidInv /\ [Next]_vars => ValidInv'
<1> SUFFICES ASSUME ValidInv, [Next]_vars PROVE ValidInv'
  OBVIOUS
<1>t. TypeOK' BY NextType DEF ValidInv
<1>1. ASSUME NEW w \in Workers, NEW t \in Txns, Deliver(w, t) PROVE ValidInv'
  BY <1>1, <1>t, ValidDeliver
<1>2. ASSUME NEW w \in Workers, Step(w) PROVE ValidInv'
  BY <1>2, <1>t, ValidStep
<1>3. ASSUME NEW w \in Workers, DbError(w) \/ Crash(w) PROVE ValidInv'
  <2>1. pc[w] # "idle" /\ UNCHANGED status
    BY <1>3 DEF DbError, Crash
  <2>2. Return(w) \/ (pc[w] \in FundsSteps /\ Goto(w, "failed"))
    BY <1>3 DEF DbError, Crash
  <2>3. pc[w] \in FundsSteps => status[cur[w]] # "absent"
    BY DEF ValidInv, HandlesValid
  <2>4. "failed" \in Steps BY DEF Steps, FinalSteps
  <2> QED BY <1>t, <2>1, <2>2, <2>3, <2>4, ValidFrame
<1>4. CASE Drained \/ UNCHANGED vars
  BY <1>4, <1>t DEF Drained, vars, ValidInv, HandlesValid, RecordedIsValid, Owns
<1> QED BY <1>1, <1>2, <1>3, <1>4 DEF Next

(* Whatever is delivered, redelivered, fails or crashes, the ledger only ever
   holds rows the handlers must accept, and withdrawals of the owner. *)
THEOREM RecordsAreValid == Spec => []RecordedIsValid
<1>1. Init => ValidInv
  BY InitTypeOK DEF Init, ValidInv, HandlesValid, RecordedIsValid,
                    FundsSteps, FinalSteps
<1>2. ValidInv /\ [Next]_vars => ValidInv'
  BY NextValid
<1>3. ValidInv => RecordedIsValid
  BY DEF ValidInv
<1> QED BY <1>1, <1>2, <1>3, PTL DEF Spec

-----------------------------------------------------------------------------
(* Why there is no deadlock: accounts are locked in ascending order.       *)

(* No two replicas handle the same event: the only fault that lets handlers
   deadlock, one holding a flipped row and the other its accounts. *)
NoOverlap == "overlap" \notin Faults

(* Which accounts a worker may hold at each of its statements. *)
MayHold(w, a) ==
    \/ pc[w] \in {"lockB", "sumA", "recB"} /\ a = FirstId(cur[w])
    \/ pc[w] \in {"insert", "sumB", "commit"} /\ a \in {FirstId(cur[w]), SecondId(cur[w])}

(* The accounts a worker does hold before it locks the second one and before
   it inserts, if they have rows. *)
DoesHold(w) ==
    LET t == cur[w]
    IN  /\ pc[w] = "lockB" /\ FirstId(t) \in Accounts => acctLock[FirstId(t)] = w
        /\ pc[w] = "insert" /\ From(t) # To(t) =>
              \A a \in Accounts : Touches(t, a) => acctLock[a] = w

(* The inductive invariant of HandlersNeverDeadlock. *)
LockInv ==
    /\ TypeOK
    /\ OneHandler
    /\ \A t \in Txns : rowLock[t] # NoWorker => cur[rowLock[t]] = t
    /\ \A w \in Workers :
          /\ \A a \in Accounts : acctLock[a] = w => MayHold(w, a)
          /\ DoesHold(w)

(* What a step of w leaves to the others. *)
OthersKeep(w) ==
    /\ \A v \in Workers \ {w} :
          /\ pc'[v] = pc[v] /\ cur'[v] = cur[v]
          /\ \A a \in Accounts : acctLock'[a] = v <=> acctLock[a] = v
          /\ \A t \in Txns : rowLock'[t] = v <=> rowLock[t] = v
    /\ cur'[w] \in {cur[w], NoTxn}

(* If the others keep what they have, it is enough to look at the worker that
   made the step. *)
LEMMA LockFrame ==
    ASSUME LockInv, TypeOK', NEW w \in Workers, OthersKeep(w),
           \A t \in Txns : rowLock'[t] = w => cur'[w] = t,
           \A a \in Accounts : acctLock'[a] = w => MayHold(w, a)',
           DoesHold(w)'
    PROVE  LockInv'
<1>1. OneHandler'
  <2> SUFFICES ASSUME NEW u \in Workers, NEW v \in Workers,
                      cur'[u] = cur'[v], u # v
               PROVE  cur'[u] = NoTxn
    BY DEF OneHandler
  <2> QED BY DEF OthersKeep, LockInv, OneHandler
<1>2. ASSUME NEW t \in Txns, rowLock'[t] # NoWorker PROVE cur'[rowLock'[t]] = t
  <2>1. rowLock'[t] \in Workers
    BY <1>2 DEF TypeOK
  <2>2. PICK v \in Workers : rowLock'[t] = v
    BY <2>1
  <2>3. CASE v # w
    BY <2>2, <2>3, LedgerAssumption DEF OthersKeep, LockInv
  <2> QED BY <2>2, <2>3
<1>3. ASSUME NEW v \in Workers, v # w, NEW a \in Accounts, acctLock'[a] = v
      PROVE  MayHold(v, a)'
  <2>1. pc'[v] = pc[v] /\ cur'[v] = cur[v] /\ acctLock[a] = v
    BY <1>3 DEF OthersKeep
  <2>2. MayHold(v, a)
    BY <2>1 DEF LockInv
  <2> QED BY <2>1, <2>2 DEF MayHold
<1>4. ASSUME NEW v \in Workers, v # w PROVE DoesHold(v)'
  <2>1. DoesHold(v)
    BY DEF LockInv
  <2>2. pc'[v] = pc[v] /\ cur'[v] = cur[v]
    BY <1>4 DEF OthersKeep
  <2> QED BY <1>4, <2>1, <2>2 DEF OthersKeep, DoesHold
<1> QED BY <1>1, <1>2, <1>3, <1>4 DEF LockInv

(* A transaction that ends gives up all its locks, and nobody else's. *)
LEMMA LockEnd ==
    ASSUME LockInv, TypeOK', NEW w \in Workers, Rollback(w),
           Return(w) \/ \E s \in FinalSteps \cup {"flip"} : Goto(w, s)
    PROVE  LockInv'
<1>1. OthersKeep(w)
  BY LedgerAssumption DEF OthersKeep, LockInv, TypeOK, Rollback, Return, Goto
<1>2. \A a \in Accounts : acctLock'[a] # w
  BY LedgerAssumption DEF Rollback
<1>3. \A t \in Txns : rowLock'[t] # w
  BY LedgerAssumption DEF Rollback
<1>4. pc'[w] \notin {"lockB", "insert"}
  BY DEF LockInv, TypeOK, Return, Goto, FinalSteps
<1>5. DoesHold(w)'
  BY <1>4 DEF DoesHold
<1> QED BY <1>1, <1>2, <1>3, <1>5, LockFrame

(* SELECT ... FOR UPDATE takes the account only from nobody. *)
LEMMA LockTaken ==
    ASSUME LockInv, TypeOK', NEW w \in Workers, NEW a, LockForUpdate(w, a),
           NEW s, Goto(w, s),
           \/ pc[w] = "lockA" /\ s = "lockB" /\ a = FirstId(cur[w])
           \/ pc[w] = "lockB" /\ s = "insert" /\ a = SecondId(cur[w])
           \/ pc[w] = "recA" /\ s = "sumA" /\ a = FirstId(cur[w])
           \/ pc[w] = "recB" /\ s = "sumB" /\ a = SecondId(cur[w])
    PROVE  LockInv'
<1>1. OthersKeep(w)
  BY LedgerAssumption DEF OthersKeep, LockInv, TypeOK, LockForUpdate, Goto
<1>2. pc'[w] = s /\ cur'[w] = cur[w] /\ UNCHANGED rowLock
  BY DEF LockInv, TypeOK, Goto, LockForUpdate
<1>3. ASSUME NEW x \in Accounts, acctLock'[x] = w PROVE MayHold(w, x)'
  <2>1. x = a \/ acctLock[x] = w
    BY <1>3 DEF LockForUpdate
  <2>2. acctLock[x] = w => MayHold(w, x)
    BY LedgerAssumption DEF LockInv
  <2> QED BY <1>2, <2>1, <2>2 DEF MayHold
<1>4. DoesHold(w)'
  <2>1. DoesHold(w) BY DEF LockInv
  <2>2. \A x \in Accounts : x = a \/ acctLock[x] = w => acctLock'[x] = w
    BY DEF LockForUpdate
  <2>3. \A x : Touches(cur[w], x) => x \in {FirstId(cur[w]), SecondId(cur[w])}
    BY DEF Touches, FirstId, SecondId, LockOrder
  <2> QED BY <1>2, <2>1, <2>2, <2>3 DEF DoesHold
<1>5. \A t \in Txns : rowLock'[t] = w => cur'[w] = t
  BY <1>2, LedgerAssumption DEF LockInv
<1> QED BY <1>1, <1>3, <1>4, <1>5, LockFrame

(* An event nobody handles gets one handler, which holds nothing yet. *)
LEMMA LockDeliver ==
    ASSUME NoOverlap, LockInv, TypeOK', NEW w \in Workers, NEW t \in Txns,
           Deliver(w, t)
    PROVE  LockInv'
<1>1. Receive(w, t) /\ (Refuse \/ \E h : Proceed(w, t, h))
  BY DEF Deliver, Deposit, Transfer, Withdraw, CheckAmount
<1>2. UNCHANGED <<acctLock, rowLock>> /\ Handlers(t) = {} /\ pc[w] = "idle"
  BY <1>1 DEF Receive, Deliverable, NoOverlap
<1>3. CASE Refuse
  BY <1>2, <1>3 DEF Refuse, LockInv, OneHandler, MayHold, DoesHold
<1>4. CASE ~Refuse
  <2>1. PICK h : Proceed(w, t, h)
    BY <1>1, <1>4
  <2>2. /\ cur' = [cur EXCEPT ![w] = t]
        /\ pc' = [pc EXCEPT ![w] = IF From(t) # To(t) THEN "lockA" ELSE "insert"]
    BY <2>1 DEF Proceed
  <2>3. cur[w] = NoTxn
    BY <1>2 DEF LockInv, TypeOK
  <2>4. OneHandler'
    BY <1>2, <2>2 DEF Handlers, LockInv, TypeOK, OneHandler
  <2>5. ASSUME NEW x \in Txns, rowLock'[x] # NoWorker PROVE cur'[rowLock'[x]] = x
    BY <1>2, <2>2, <2>3, <2>5, LedgerAssumption DEF LockInv, TypeOK
  <2>6. ASSUME NEW v \in Workers, NEW a \in Accounts, acctLock'[a] = v
        PROVE  MayHold(v, a)'
    <3>1. MayHold(v, a)
      BY <1>2, <2>6 DEF LockInv
    <3>2. v # w
      BY <1>2, <3>1 DEF MayHold
    <3>3. pc'[v] = pc[v] /\ cur'[v] = cur[v]
      BY <2>2, <3>2 DEF LockInv, TypeOK
    <3> QED BY <3>1, <3>3 DEF MayHold
  <2>7. ASSUME NEW v \in Workers PROVE DoesHold(v)'
    <3>1. CASE v = w
      <4>1. cur'[w] = t /\ pc'[w] = IF From(t) # To(t) THEN "lockA" ELSE "insert"
        BY <2>2 DEF LockInv, TypeOK
      <4> QED BY <3>1, <4>1 DEF DoesHold
    <3>2. CASE v # w
      <4>1. pc'[v] = pc[v] /\ cur'[v] = cur[v] /\ DoesHold(v)
        BY <2>2, <3>2 DEF LockInv, TypeOK
      <4> QED BY <1>2, <4>1 DEF DoesHold
    <3> QED BY <3>1, <3>2
  <2> QED BY <2>4, <2>5, <2>6, <2>7 DEF LockInv
<1> QED BY <1>3, <1>4

(* Every statement of a handler keeps the lock discipline. *)
LEMMA LockStep ==
    ASSUME LockInv, TypeOK', NEW w \in Workers, Step(w)
    PROVE  LockInv'
<1> DEFINE t == cur[w]
<1>o. \A x \in Txns : rowLock[x] = w => t = x
  BY LedgerAssumption DEF LockInv
<1>m. \A a \in Accounts : acctLock[a] = w => MayHold(w, a)
  BY LedgerAssumption DEF LockInv
<1>1. CASE LockFirst(w) BY <1>1, LockTaken DEF LockFirst
<1>2. CASE LockSecond(w) BY <1>2, LockTaken DEF LockSecond
<1>3. CASE LockReconciledFirst(w) BY <1>3, LockTaken DEF LockReconciledFirst
<1>4. CASE LockReconciledSecond(w) BY <1>4, LockTaken DEF LockReconciledSecond
<1>5. CASE InsertPending(w)
  BY <1>5, LockEnd DEF InsertPending, FinalSteps
<1>6. CASE CommitFunds(w)
  BY <1>6, LockEnd DEF CommitFunds, FinalSteps
<1>7. CASE FlipPending(w)
  <2>1. PICK s \in {"recA", "commit"} : Goto(w, s)
    BY <1>7 DEF FlipPending
  <2>2. pc'[w] = s /\ cur'[w] = t /\ t \in Txns
    BY <1>7, <2>1 DEF LockInv, TypeOK, Goto, FlipPending
  <2>3. OthersKeep(w)
    BY <1>7, <2>1, LedgerAssumption DEF OthersKeep, FlipPending, LockInv, TypeOK, Goto
  <2>4. \A a \in Accounts : acctLock'[a] # w
    BY <1>7, <1>m DEF FlipPending, MayHold
  <2>5. \A x \in Txns : rowLock'[x] = w => cur'[w] = x
    BY <1>7, <1>o, <2>2 DEF FlipPending, LockInv, TypeOK
  <2>6. DoesHold(w)'
    BY <2>2 DEF DoesHold
  <2> QED BY <2>3, <2>4, <2>5, <2>6, LockFrame
<1>8. CASE ReconcileFirst(w) \/ ReconcileSecond(w)
  <2>1. CASE Rollback(w) /\ Goto(w, "failed")
    BY <2>1, LockEnd DEF FinalSteps
  <2>2. CASE /\ UNCHANGED <<acctLock, rowLock>>
             /\ \/ pc[w] = "sumA" /\ (Goto(w, "recB") \/ Goto(w, "commit"))
                \/ pc[w] = "sumB" /\ Goto(w, "commit")
    <3>1. cur'[w] = t /\ \/ pc[w] = "sumA" /\ pc'[w] \in {"recB", "commit"}
                         \/ pc[w] = "sumB" /\ pc'[w] = "commit"
      BY <2>2 DEF LockInv, TypeOK, Goto
    <3>2. OthersKeep(w)
      BY <2>2 DEF OthersKeep, LockInv, TypeOK, Goto
    <3>3. \A a \in Accounts : acctLock'[a] = w => MayHold(w, a)'
      BY <1>m, <2>2, <3>1 DEF MayHold
    <3>4. DoesHold(w)'
      BY <3>1 DEF DoesHold
    <3> QED BY <1>o, <2>2, <3>1, <3>2, <3>3, <3>4, LockFrame
  <2> QED BY <1>8, <2>1, <2>2 DEF ReconcileFirst, ReconcileSecond, ReconcileBalance
<1>9. CASE UpdateTransactionStatus(w)
  <2>1. pc'[w] = "idle" /\ t \in Txns /\ UNCHANGED <<acctLock, rowLock>>
    BY <1>9 DEF UpdateTransactionStatus, Return, LockInv, TypeOK, FinalSteps
  <2>2. OthersKeep(w)
    BY <1>9 DEF UpdateTransactionStatus, Return, OthersKeep, LockInv, TypeOK
  <2>3. \A x \in Txns : rowLock'[x] # w
    BY <1>9, <1>o, <2>1, LedgerAssumption DEF UpdateTransactionStatus
  <2>4. \A a \in Accounts : acctLock'[a] # w
    BY <1>9, <1>m, <2>1 DEF UpdateTransactionStatus, MayHold, FinalSteps
  <2>5. DoesHold(w)'
    BY <2>1 DEF DoesHold
  <2> QED BY <2>2, <2>3, <2>4, <2>5, LockFrame
<1> QED BY <1>1, <1>2, <1>3, <1>4, <1>5, <1>6, <1>7, <1>8, <1>9 DEF Step

(* Every step keeps the lock discipline. *)
LEMMA NextLock == NoOverlap /\ LockInv /\ [Next]_vars => LockInv'
<1> SUFFICES ASSUME NoOverlap, LockInv, [Next]_vars PROVE LockInv'
  OBVIOUS
<1>t. TypeOK' BY NextType DEF LockInv
<1>1. ASSUME NEW w \in Workers, NEW t \in Txns, Deliver(w, t) PROVE LockInv'
  BY <1>1, <1>t, LockDeliver
<1>2. ASSUME NEW w \in Workers, Step(w) PROVE LockInv'
  BY <1>2, <1>t, LockStep
<1>3. ASSUME NEW w \in Workers, DbError(w) \/ Crash(w) PROVE LockInv'
  BY <1>3, <1>t, LockEnd DEF DbError, Crash, FinalSteps
<1>4. CASE Drained \/ UNCHANGED vars
  BY <1>4, <1>t DEF Drained, vars, LockInv, OneHandler, MayHold, DoesHold
<1> QED BY <1>1, <1>2, <1>3, <1>4 DEF Next

(* A worker that waits for another waits for an account above every one it
   holds itself. *)
LEMMA WaitsUpwards ==
    ASSUME LockInv, NEW w \in Workers, NEW v \in Workers, WaitsFor(w, v)
    PROVE  \E a \in Accounts :
              /\ acctLock[a] = v
              /\ \A b \in Accounts : acctLock[b] = w => b < a
<1> DEFINE t == cur[w]
<1>w. w # v BY DEF WaitsFor
<1>t. t \in Txns
  BY DEF WaitsFor, LockInv, TypeOK, FinalSteps
<1>m. \A b \in Accounts : acctLock[b] = w => MayHold(w, b)
  BY LedgerAssumption DEF LockInv
<1>i. FirstId(t) \in Nat /\ SecondId(t) \in Nat /\ FirstId(t) <= SecondId(t)
  BY <1>t, DataAssumption DEF FirstId, SecondId, LockOrder, From, To
<1>1. CASE pc[w] \in {"lockA", "recA"} /\ FirstId(t) \in Accounts /\ acctLock[FirstId(t)] = v
  BY <1>1, <1>m DEF MayHold
<1>2. CASE pc[w] \in {"lockB", "recB"} /\ SecondId(t) \in Accounts /\ acctLock[SecondId(t)] = v
  <2>1. \A b \in Accounts : acctLock[b] = w => b = FirstId(t)
    BY <1>2, <1>m DEF MayHold
  <2>2. \A b \in Accounts : acctLock[b] = w => b < SecondId(t)
    BY <1>2, <1>w, <1>i, <2>1
  <2> QED BY <1>2, <2>2
<1>3. CASE rowLock[t] = v
  BY <1>3, <1>t, <1>w, LedgerAssumption DEF LockInv, OneHandler
<1>4. CASE /\ pc[w] = "insert"
           /\ \/ From(t) \in Accounts /\ acctLock[From(t)] = v
              \/ To(t) \in Accounts /\ acctLock[To(t)] = v
  <2>1. PICK a \in Accounts : Touches(t, a) /\ acctLock[a] = v
    BY <1>4 DEF Touches
  <2>2. From(t) = To(t)
    BY <1>4, <1>w, <2>1 DEF LockInv, DoesHold
  <2>3. FirstId(t) = a /\ SecondId(t) = a
    BY <2>1, <2>2 DEF Touches, FirstId, SecondId, LockOrder
  <2>4. \A b \in Accounts : acctLock[b] # w
    BY <1>4, <1>m, <1>w, <2>1, <2>3 DEF MayHold
  <2> QED BY <2>1, <2>4
<1> QED BY <1>1, <1>2, <1>3, <1>4 DEF WaitsFor

(* A finite set of account ids has a greatest one: the fewest ids lie above
   it. *)
LEMMA GreatestAccount ==
    ASSUME NEW H, H \subseteq Accounts, H # {}
    PROVE  \E a \in H : \A b \in H : ~(a < b)
<1> DEFINE Above(a) == {b \in H : a < b}
           T == {Above(a) : a \in H}
           R == StrictSubsetOrdering(H)
<1>1. IsFiniteSet(H)
  BY DataAssumption, FS_Subset
<1>2. FiniteSubsetsOf(H) = SUBSET H
  BY <1>1, FS_FiniteSubsetsOfFinite
<1>3. IsWellFoundedOn(R, SUBSET H)
  BY <1>2, FS_StrictSubsetOrderingWellFounded
<1>4. T \subseteq SUBSET H /\ T # {}
  OBVIOUS
<1>5. \E x \in T : \A y \in T : ~(<<y, x>> \in R)
  <2> HIDE DEF T, R
  <2> QED BY <1>3, <1>4, WFMin
<1>6. PICK a \in H : \A y \in T : ~(<<y, Above(a)>> \in R)
  BY <1>5
<1>7. ASSUME NEW b \in H, a < b PROVE FALSE
  <2>1. a \in Nat /\ b \in Nat /\ H \subseteq Nat
    BY DataAssumption
  <2>2. Above(b) \subseteq Above(a)
    <3>1. \A c \in H : b < c => a < c
      BY <1>7, <2>1
    <3> QED BY <3>1
  <2>3. b \in Above(a) /\ b \notin Above(b)
    BY <1>7, <2>1
  <2>4. <<Above(b), Above(a)>> \in R
    BY <2>2, <2>3 DEF StrictSubsetOrdering
  <2> QED BY <1>6, <2>4
<1> QED BY <1>7

(* As long as no event has two handlers at once, however many replicas run and
   whatever fails or crashes, handlers never wait for each other in a circle. *)
THEOREM HandlersNeverDeadlock == NoOverlap => (Spec => []NoWaitCycle)
<1> SUFFICES ASSUME NoOverlap PROVE Spec => []NoWaitCycle
  OBVIOUS
<1>1. Init => LockInv
  BY InitTypeOK, LedgerAssumption DEF Init, LockInv, OneHandler, DoesHold
<1>2. LockInv /\ [Next]_vars => LockInv'
  BY NextLock
<1>3. LockInv => NoWaitCycle
  <2> SUFFICES ASSUME LockInv, NEW ws \in SUBSET Workers, ws # {},
                      \A w \in ws : \E v \in ws : WaitsFor(w, v)
               PROVE  FALSE
    BY DEF NoWaitCycle
  <2> DEFINE H == {a \in Accounts : acctLock[a] \in ws}
  <2>1. \A w \in ws : \E a \in H : \A b \in Accounts : acctLock[b] = w => b < a
    BY WaitsUpwards
  <2>2. H # {}
    BY <2>1
  <2>3. PICK a \in H : \A b \in H : ~(a < b)
    BY <2>2, GreatestAccount
  <2>4. PICK b \in H : a < b
    BY <2>1
  <2> QED BY <2>3, <2>4
<1> QED BY <1>1, <1>2, <1>3, PTL DEF Spec

=============================================================================
