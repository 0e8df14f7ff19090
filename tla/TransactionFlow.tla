-------------------------- MODULE TransactionFlow ---------------------------
(***************************************************************************)
(* A transaction from the request to its outcome: OutboxInsert takes the   *)
(* idempotency lock of the (user, account) pair in Redis and writes the    *)
(* outbox row, the relays (Outbox) publish it, the replicas (Consumer)     *)
(* dispatch it to a handler, and whoever ends the transaction deletes the  *)
(* lock.  The handler is two steps here, the pending row and the outcome;  *)
(* Ledger shows what its statements do to the money.                       *)
(*                                                                         *)
(* FlowFaults: cacheError (Redis does not answer the SETNX or the DEL),    *)
(* dbError (PostgreSQL refuses the outbox row or the outcome),             *)
(* ambiguousInsert (the outbox row is written and the answer lost),        *)
(* apiCrash (the request dies between the lock and the row), lockExpires   *)
(* (the 24 hours of a lock are over while its transaction is in flight).   *)
(***************************************************************************)
EXTENDS Naturals, Sequences, FiniteSets

CONSTANTS
    Events,
    Keys,            \* (user, account) pairs
    KeyOf,
    NoEvent,
    Relays, Partitions, PartitionOf, MaxRetries, BatchSize, MaxConcurrency,
    OutboxFaults,
    Consumers, NoConsumer, NoMessage, MaxLength,
    ConsumerFaults,
    FlowFaults,
    MaxFaults

ASSUME FlowAssumption ==
    /\ KeyOf \in [Events -> Keys]
    /\ NoEvent \notin Events
    /\ PartitionOf \in [Events -> Partitions]
    /\ NoConsumer \notin Consumers
    /\ {MaxRetries, MaxLength, MaxFaults} \subseteq Nat
    /\ FlowFaults \subseteq {"cacheError", "dbError", "ambiguousInsert", "apiCrash",
                             "lockExpires"}

VARIABLES
    row, created, retries, due, stale, task, log, freed, faults,
    owner, position, committed, cpc, hand, handled, tried, dlq,
    request,   \* how far each event's OutboxInsert is
    lock,      \* the event that took each lock, while the key is in Redis
    status     \* transactions.status, or "absent"

O == INSTANCE Outbox WITH Malformed <- {}, Faults <- OutboxFaults

C == INSTANCE Consumer WITH
        Messages <- Events, Invalid <- {}, Faults <- ConsumerFaults,
        cfaults <- faults

consumerOnly == <<owner, position, committed, cpc, hand, handled, tried, dlq>>
outboxOnly == <<row, created, retries, due, stale, task, log, freed>>

fvars == <<outboxOnly, faults, consumerOnly, request, lock, status>>

FTypeOK ==
    /\ O!OTypeOK
    /\ C!CTypeOK
    /\ request \in [Events -> {"new", "checked", "accepted", "refused"}]
    /\ lock \in [Keys -> Events \cup {NoEvent}]
    /\ status \in [Events -> {"absent", "pending", "completed", "failed"}]
    /\ \A e \in Events : request[e] = "accepted" => row[e] # "none"
    /\ \A e \in Events : row[e] # "none" => request[e] \in {"accepted", "refused"}

FInit ==
    /\ O!OInit
    /\ C!CInit
    /\ request = [e \in Events |-> "new"]
    /\ lock = [k \in Keys |-> NoEvent]
    /\ status = [e \in Events |-> "absent"]

FFault(kind) ==
    /\ kind \in FlowFaults
    /\ faults < MaxFaults
    /\ faults' = faults + 1

(* TransactionIdempotencyRelease deletes the key, whoever set it; its errors
   are logged. *)
Del(k) ==
    \/ lock' = [lock EXCEPT ![k] = NoEvent]
    \/ "cacheError" \in FlowFaults /\ UNCHANGED lock

-----------------------------------------------------------------------------
(* OutboxInsert                                                            *)

Answer(e, a) == request' = [request EXCEPT ![e] = a]

(* outboxIdempotencyCheck: an outbox row of the key whose ledger row exists
   and is pending. *)
PendingInLedger(k) ==
    \E f \in Events : KeyOf[f] = k /\ row[f] # "none" /\ status[f] = "pending"

(* Mutant: the lock is looked at, not taken. *)
GetInsteadOfSetnx(e) ==
    /\ request[e] = "new"
    /\ Answer(e, IF lock[KeyOf[e]] = NoEvent THEN "checked" ELSE "refused")
    /\ UNCHANGED <<outboxOnly, faults, consumerOnly, lock, status>>

(* SETNX; when Redis fails, PostgreSQL is asked instead, and when that fails
   too the request goes on. *)
IdempotencyCheck(e) ==
    LET k == KeyOf[e]
    IN  /\ request[e] = "new"
        /\ \/ /\ lock[k] = NoEvent
              /\ lock' = [lock EXCEPT ![k] = e]
              /\ Answer(e, "checked")
              /\ UNCHANGED faults
           \/ /\ lock[k] # NoEvent
              /\ Answer(e, "refused")
              /\ UNCHANGED <<lock, faults>>
           \/ /\ FFault("cacheError")
              /\ Answer(e, IF PendingInLedger(k) THEN "refused" ELSE "checked")
              /\ UNCHANGED lock
           \/ /\ FFault("cacheError") /\ "dbError" \in FlowFaults
              /\ Answer(e, "checked")
              /\ UNCHANGED lock
        /\ UNCHANGED <<outboxOnly, consumerOnly, status>>

InsertOutbox(e) ==
    /\ request[e] = "checked"
    /\ O!InsertRow(e)
    /\ Answer(e, "accepted")
    /\ UNCHANGED <<consumerOnly, lock, status>>

(* The lock is freed after a failed INSERT, also when this request never
   took it. *)
InsertOutboxError(e) ==
    /\ request[e] = "checked"
    /\ FFault("dbError")
    /\ Answer(e, "refused")
    /\ Del(KeyOf[e])
    /\ UNCHANGED <<outboxOnly, consumerOnly, status>>

(* The row is there, but the request saw an error: the lock is freed, and a
   message will reach the consumer all the same. *)
InsertOutboxAnswerLost(e) ==
    /\ request[e] = "checked"
    /\ FFault("ambiguousInsert")
    /\ O!WriteRow(e)
    /\ Answer(e, "refused")
    /\ Del(KeyOf[e])
    /\ UNCHANGED <<consumerOnly, status>>

RequestDies(e) ==
    /\ request[e] = "checked"
    /\ FFault("apiCrash")
    /\ Answer(e, "refused")
    /\ UNCHANGED <<outboxOnly, consumerOnly, lock, status>>

-----------------------------------------------------------------------------
(* The relays                                                              *)

RelayWorks(r) ==
    /\ O!RelayWork(r)
    /\ UNCHANGED <<consumerOnly, request, lock, status>>

RelayFrees(r, e) ==
    /\ O!ReleaseIdempotency(r, e)
    /\ Del(KeyOf[e])
    /\ UNCHANGED <<consumerOnly, request, status>>

OutboxEnvironment ==
    /\ \/ \E e \in Events : O!BackoffElapses(e) \/ O!ClaimAges(e)
       \/ \E r \in Relays : O!RelayCrash(r)
    /\ UNCHANGED <<consumerOnly, request, lock, status>>

-----------------------------------------------------------------------------
(* The consumers and the handler                                           *)

ConsumerLoop(c) ==
    /\ UNCHANGED <<outboxOnly, request, lock, status>>
    /\ \/ \E p \in Partitions : C!FetchMessage(c, p)
       \/ C!CommitMessages(c)

InHand(c) == log[hand[c][1]][hand[c][2]]

(* Mutant: the lock is freed as soon as the pending row is written. *)
HandlerRecordsAndFrees(c) ==
    /\ cpc[c] = "dispatch"
    /\ status[InHand(c)] = "absent"
    /\ status' = [status EXCEPT ![InHand(c)] = "pending"]
    /\ Del(KeyOf[InHand(c)])
    /\ UNCHANGED <<outboxOnly, faults, consumerOnly, request>>

(* CreatePendingTransaction *)
HandlerRecords(c) ==
    /\ cpc[c] = "dispatch"
    /\ status[InHand(c)] = "absent"
    /\ status' = [status EXCEPT ![InHand(c)] = "pending"]
    /\ UNCHANGED <<outboxOnly, faults, consumerOnly, request, lock>>

(* The funds moved now, with the pending row, or in an earlier delivery:
   UpdateTransactionStatus says completed either way and frees the lock.  The
   error of its UPDATE is ignored, and then the lock stays. *)
HandlerCompletes(c) ==
    /\ UNCHANGED <<outboxOnly, request>>
    /\ cpc[c] = "dispatch"
    /\ status[InHand(c)] # "absent"
    /\ \/ /\ status' = [status EXCEPT ![InHand(c)] = "completed"]
          /\ Del(KeyOf[InHand(c)])
       \/ /\ "dbError" \in FlowFaults
          /\ status' = [status EXCEPT ![InHand(c)] =
                            IF @ = "pending" THEN "completed" ELSE @]
          /\ UNCHANGED lock
    /\ C!DispatchOk(c)

HandlerFails(c) ==
    /\ UNCHANGED <<outboxOnly, request>>
    /\ cpc[c] = "dispatch"
    /\ status[InHand(c)] # "absent"
    /\ status' = [status EXCEPT ![InHand(c)] = "failed"]
    /\ Del(KeyOf[InHand(c)])
    /\ C!DispatchError(c)

(* An early return, or an error before UpdateTransactionStatus succeeded:
   the lock stays. *)
HandlerReturnsEarly(c) ==
    /\ UNCHANGED <<outboxOnly, request, lock, status>>
    /\ C!DispatchError(c)

ConsumerEnvironment ==
    /\ UNCHANGED <<outboxOnly, request, lock, status>>
    /\ \/ \E p \in Partitions :
             C!Revoke(p) \/ \E c \in Consumers : C!Assign(p, c)
       \/ \E c \in Consumers : C!ConsumerCrash(c)

(* Accepted, and neither given up for good nor through its handler. *)
InFlight(e) ==
    LET p == PartitionOf[e]
        Delivered == {i \in DOMAIN log[p] : log[p][i] = e}
    IN  /\ row[e] # "none"
        /\ row[e] = "failed" => Delivered # {}
        /\ \A i \in Delivered : <<p, i>> \notin tried

(* Mutant: the key has no TTL. *)
NeverExpires(k) == FALSE /\ UNCHANGED fvars

(* Somebody still works on e, or has to. *)
Busy(e) ==
    \/ request[e] = "checked"
    \/ InFlight(e)
    \/ \E r \in Relays : task[r][e] # "none"
    \/ \E c \in Consumers : hand[c] # NoMessage /\ InHand(c) = e

(* The TTL of the key passes: normally long after its transaction. *)
LockExpires(k) ==
    LET e == lock[k]
    IN  /\ e # NoEvent
        /\ \/ ~Busy(e) /\ UNCHANGED faults
           \/ Busy(e) /\ FFault("lockExpires")
        /\ lock' = [lock EXCEPT ![k] = NoEvent]
        /\ UNCHANGED <<outboxOnly, consumerOnly, request, status>>

Quiet ==
    /\ \A e \in Events : request[e] \in {"accepted", "refused"}
    /\ \A e \in Events : row[e] \in {"none", "published", "failed"}
    /\ \A r \in Relays : task[r] = O!Idle
    /\ \A p \in Partitions : owner[p] # NoConsumer /\ position[p] = Len(log[p])
    /\ \A c \in Consumers : cpc[c] = "fetch"
    /\ UNCHANGED fvars

FNext ==
    \/ \E e \in Events :
          \/ IdempotencyCheck(e) \/ InsertOutbox(e)
          \/ InsertOutboxError(e) \/ InsertOutboxAnswerLost(e) \/ RequestDies(e)
    \/ \E r \in Relays : RelayWorks(r) \/ \E e \in Events : RelayFrees(r, e)
    \/ OutboxEnvironment
    \/ \E c \in Consumers :
          \/ ConsumerLoop(c) \/ HandlerRecords(c) \/ HandlerCompletes(c)
          \/ HandlerFails(c) \/ HandlerReturnsEarly(c)
    \/ ConsumerEnvironment
    \/ \E k \in Keys : LockExpires(k)
    \/ Quiet

FSpec == FInit /\ [][FNext]_fvars

(* Requests, relays and replicas run, partitions find an owner, and time
   passes; no fault is assumed to happen. *)
FFairness ==
    /\ \A e \in Events : WF_fvars(InsertOutbox(e))
    /\ \A r \in Relays :
          WF_fvars(RelayWorks(r) \/ \E e \in Events : RelayFrees(r, e))
    /\ \A c \in Consumers :
          WF_fvars(ConsumerLoop(c) \/ HandlerRecords(c) \/ HandlerCompletes(c))
    /\ WF_fvars(OutboxEnvironment /\ UNCHANGED faults)
    /\ WF_fvars(ConsumerEnvironment /\ UNCHANGED faults)
    /\ \A k \in Keys : WF_fvars(LockExpires(k) /\ UNCHANGED faults)

FFairSpec == FSpec /\ FFairness

-----------------------------------------------------------------------------
(* Properties                                                              *)

(* At most one transaction of a user's account is in flight. *)
OneInFlight ==
    \A e, f \in Events :
        KeyOf[e] = KeyOf[f] /\ InFlight(e) /\ InFlight(f) => e = f

(* A lost lock does not spread: when locks are lost, because Redis is away, a
   key expires or the answer to the INSERT is lost, or messages come twice,
   because the relay gets no answer from the broker or PostgreSQL, every such fault lets at most one more transaction of the
   account in, however many locks of others the extra one's handler deletes. *)
OverlapBounded ==
    \A k \in Keys :
        Cardinality({e \in Events : KeyOf[e] = k /\ InFlight(e)}) <= 1 + faults

(* While a transaction is in flight its own lock protects it: no release
   meant for another transaction takes it away. *)
LockCoversFlight ==
    \A e \in Events : InFlight(e) => lock[KeyOf[e]] = e

(* The composition implements SerialTransactions: requests that race, relays
   that try again and handlers that fail, seen through the account's lock, are
   transactions that never overlap, each with one outcome, given when it
   ends. *)
Serial == INSTANCE SerialTransactions WITH
            phase <- [e \in Events |-> CASE row[e] = "none" -> "none"
                                         [] InFlight(e) -> "inFlight"
                                         [] OTHER -> "ended"]

TransactionsAreSerial == Serial!TSpec

(* A row the relay gave up, freeing the lock, is never executed. *)
GivenUpIsNotExecuted ==
    \A e \in Events : row[e] = "failed" => status[e] = "absent"

(* An accepted transaction is given up or reaches its handler, whatever the
   broker refuses and the handlers before it return. *)
EveryAcceptedEnds ==
    \A e \in Events : InFlight(e) ~> ~InFlight(e)

(* No account is locked for ever: a lock that a dead request, an early
   return or a failed UPDATE of the outcome leaves behind goes in the end. *)
AccountIsFreed ==
    \A k \in Keys : lock[k] # NoEvent ~> lock[k] = NoEvent

=============================================================================
