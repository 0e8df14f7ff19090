------------------------------- MODULE Outbox -------------------------------
(***************************************************************************)
(* The transactional outbox of wallet-service: rows of transaction_outbox  *)
(* and the relays (one OutboxRelay per replica) that claim batches of them *)
(* and publish them to Kafka, one goroutine per row.  A relay polls again  *)
(* only when every goroutine of its batch has ended.                       *)
(*                                                                         *)
(* Time is two facts about a row: its backoff is over (due), and its claim *)
(* is older than the 30 seconds after which it may be taken over (stale).  *)
(*                                                                         *)
(* Faults: crash (a relay's process dies), dbError (an UPDATE after the    *)
(* publish fails), pause (a live relay is held up until its claim is       *)
(* stale), ambiguousPublish (Publish times out but the broker has the      *)
(* message).  At most MaxFaults of them happen.                            *)
(***************************************************************************)
EXTENDS Naturals, Sequences, FiniteSets

CONSTANTS
    Events,          \* aggregate ids
    Malformed,       \* those whose payload cannot be marshalled
    Relays,
    Partitions,
    PartitionOf,     \* where the key of an event sends it, by its hash
    MaxRetries,      \* OUTBOX_MAX_REPUBLISH_RETRIES
    BatchSize,
    MaxConcurrency,  \* maxRelayConcurrency
    Faults,
    MaxFaults        \* bound: faults in one behaviour

FaultKinds == {"crash", "dbError", "pause", "ambiguousPublish"}

ASSUME OutboxAssumption ==
    /\ Malformed \subseteq Events
    /\ PartitionOf \in [Events -> Partitions]
    /\ {MaxRetries, BatchSize, MaxConcurrency} \subseteq Nat \ {0}
    /\ Faults \subseteq FaultKinds
    /\ MaxFaults \in Nat

VARIABLES
    row,        \* transaction_outbox.status, or "none"
    created,    \* the rows in the order of created_at
    retries,    \* retry_count
    due,        \* rows with next_attempt_at <= now()
    stale,      \* claimed rows untouched for 30 seconds
    task,       \* what each relay's goroutine does with each row
    log,        \* what the broker has, per partition, in order
    freed,      \* rows for which a relay freed the idempotency lock
    faults      \* faults so far

ovars == <<row, created, retries, due, stale, task, log, freed, faults>>

RowStates == {"none", "pending", "claimed", "published", "failed"}
TaskStates == {"none", "queued", "publish", "markPublished", "markFailure",
               "markFailed", "release"}

OTypeOK ==
    /\ row \in [Events -> RowStates]
    /\ created \in Seq(Events)
    /\ retries \in [Events -> Nat]
    /\ due \subseteq Events
    /\ stale \subseteq {e \in Events : row[e] = "claimed"}
    /\ task \in [Relays -> [Events -> TaskStates]]
    /\ log \in [Partitions -> Seq(Events)]
    /\ freed \subseteq Events
    /\ faults \in 0..MaxFaults

Idle == [e \in Events |-> "none"]

OInit ==
    /\ row = [e \in Events |-> "none"]
    /\ created = << >>
    /\ retries = [e \in Events |-> 0]
    /\ due = {}
    /\ stale = {}
    /\ task = [r \in Relays |-> Idle]
    /\ log = [p \in Partitions |-> << >>]
    /\ freed = {}
    /\ faults = 0

Fault(kind) ==
    /\ kind \in Faults
    /\ faults < MaxFaults
    /\ faults' = faults + 1

-----------------------------------------------------------------------------

(* The INSERT of OutboxInsert; aggregate_id is unique. *)
WriteRow(e) ==
    /\ row[e] = "none"
    /\ row' = [row EXCEPT ![e] = "pending"]
    /\ created' = Append(created, e)
    /\ due' = due \cup {e}
    /\ UNCHANGED <<retries, stale, task, log, freed>>

InsertRow(e) == WriteRow(e) /\ UNCHANGED faults

Older(e, f) ==
    \E i, j \in DOMAIN created : i < j /\ created[i] = e /\ created[j] = f

(* Mutants: every claim is taken over at once, or none ever is. *)
ReclaimAtOnce == {e \in Events : row[e] = "claimed"}
ReclaimNever == {}

(* Claims whose relay is taken for dead. *)
Reclaimed == {e \in Events : row[e] = "claimed" /\ e \in stale}

(* Mutant: WHERE status <> 'published'. *)
ReadyUnlessPublished ==
    {e \in Events : row[e] \notin {"none", "published"}} \cap due

Ready == {e \in Events : row[e] = "pending" \/ e \in Reclaimed} \cap due

(* ORDER BY created_at LIMIT BatchSize *)
Batch == {e \in Ready : Cardinality({f \in Ready : Older(f, e)}) < BatchSize}

TouchedClaims == stale \ (Reclaimed \cup Batch)

(* OutboxPendingGetBatch: stale claims go back to pending, then the oldest
   due rows are claimed, in one transaction. *)
ClaimBatch(r) ==
    /\ task[r] = Idle
    /\ Batch # {}
    /\ row' = [e \in Events |->
                  IF e \in Batch THEN "claimed"
                  ELSE IF e \in Reclaimed THEN "pending" ELSE row[e]]
    /\ stale' = TouchedClaims
    /\ task' = [task EXCEPT ![r] =
                   [e \in Events |-> IF e \in Batch THEN "queued" ELSE "none"]]
    /\ UNCHANGED <<created, retries, due, log, freed, faults>>

SetTask(r, e, t) == task' = [task EXCEPT ![r][e] = t]

(* The goroutine gets one of the slots of the channel and builds the
   envelope. *)
Start(r, e) ==
    /\ task[r][e] = "queued"
    /\ Cardinality({f \in Events : task[r][f] \notin {"none", "queued"}})
          < MaxConcurrency
    /\ SetTask(r, e, IF e \in Malformed THEN "markFailed" ELSE "publish")
    /\ UNCHANGED <<row, created, retries, due, stale, log, freed, faults>>

Send(e) == log' = [log EXCEPT ![PartitionOf[e]] = Append(@, e)]

InTopic(e) ==
    \E i \in DOMAIN log[PartitionOf[e]] : log[PartitionOf[e]][i] = e

(* Mutant: the error check is inverted. *)
PublishOkAsError(r, e) ==
    /\ task[r][e] = "publish"
    /\ Send(e)
    /\ SetTask(r, e, "markFailure")
    /\ UNCHANGED <<row, created, retries, due, stale, freed, faults>>

(* Publish, under its timeout of 5 seconds. *)
PublishOk(r, e) ==
    /\ task[r][e] = "publish"
    /\ Send(e)
    /\ SetTask(r, e, "markPublished")
    /\ UNCHANGED <<row, created, retries, due, stale, freed, faults>>

PublishError(r, e) ==
    /\ task[r][e] = "publish"
    /\ SetTask(r, e, "markFailure")
    /\ \/ UNCHANGED <<log, faults>>
       \/ Fault("ambiguousPublish") /\ Send(e)
    /\ UNCHANGED <<row, created, retries, due, stale, freed>>

(* An UPDATE of the row, which also sets updated_at. *)
Update(e, s) ==
    /\ row' = [row EXCEPT ![e] = s]
    /\ stale' = stale \ {e}

(* OutboxUpdate(published), whatever the row's status is now. *)
MarkPublished(r, e) ==
    /\ task[r][e] = "markPublished"
    /\ SetTask(r, e, "none")
    /\ \/ Update(e, "published") /\ UNCHANGED faults
       \/ Fault("dbError") /\ UNCHANGED <<row, stale>>
    /\ UNCHANGED <<created, retries, due, log, freed>>

(* Mutant: one attempt too many. *)
ExhaustedLate(e) == retries[e] + 1 > MaxRetries

Exhausted(e) == retries[e] + 1 >= MaxRetries

(* Mutant: the lock is freed after every failed attempt. *)
FreeAlways(e) == "release"

(* The lock is freed when the row has used up its attempts. *)
AfterFailure(e) == IF Exhausted(e) THEN "release" ELSE "none"

(* OutboxMarkPublishFailure, again whatever the status. *)
MarkPublishFailure(r, e) ==
    /\ task[r][e] = "markFailure"
    /\ \/ /\ retries' = [retries EXCEPT ![e] = @ + 1]
          /\ Update(e, IF Exhausted(e) THEN "failed" ELSE "pending")
          /\ due' = due \ {e}
          /\ SetTask(r, e, AfterFailure(e))
          /\ UNCHANGED faults
       \/ /\ Fault("dbError")
          /\ SetTask(r, e, "none")
          /\ UNCHANGED <<retries, row, due, stale>>
    /\ UNCHANGED <<created, log, freed>>

(* markFailed frees the lock even when its UPDATE fails. *)
MarkFailed(r, e) ==
    /\ task[r][e] = "markFailed"
    /\ SetTask(r, e, "release")
    /\ \/ Update(e, "failed") /\ UNCHANGED faults
       \/ Fault("dbError") /\ UNCHANGED <<row, stale>>
    /\ UNCHANGED <<created, retries, due, log, freed>>

ReleaseIdempotency(r, e) ==
    /\ task[r][e] = "release"
    /\ freed' = freed \cup {e}
    /\ SetTask(r, e, "none")
    /\ UNCHANGED <<row, created, retries, due, stale, log, faults>>

RelayWork(r) ==
    \/ ClaimBatch(r)
    \/ \E e \in Events :
          \/ Start(r, e) \/ PublishOk(r, e) \/ PublishError(r, e)
          \/ MarkPublished(r, e) \/ MarkPublishFailure(r, e)
          \/ MarkFailed(r, e)

RelayStep(r) == RelayWork(r) \/ \E e \in Events : ReleaseIdempotency(r, e)

-----------------------------------------------------------------------------

(* Mutant: next_attempt_at is never reached. *)
BackoffNever(e) == FALSE /\ UNCHANGED ovars

BackoffElapses(e) ==
    /\ row[e] = "pending" /\ e \notin due
    /\ due' = due \cup {e}
    /\ UNCHANGED <<row, created, retries, stale, task, log, freed, faults>>

Abandoned(e) == \A r \in Relays : task[r][e] = "none"

(* Thirty seconds pass: normally no goroutine of a claim is still at work
   by then, unless its process was paused. *)
ClaimAges(e) ==
    /\ row[e] = "claimed" /\ e \notin stale
    /\ \/ Abandoned(e) /\ UNCHANGED faults
       \/ ~Abandoned(e) /\ Fault("pause")
    /\ stale' = stale \cup {e}
    /\ UNCHANGED <<row, created, retries, due, task, log, freed>>

RelayCrash(r) ==
    /\ task[r] # Idle
    /\ Fault("crash")
    /\ task' = [task EXCEPT ![r] = Idle]
    /\ UNCHANGED <<row, created, retries, due, stale, log, freed>>

Relayed ==
    /\ \A e \in Events : row[e] \in {"published", "failed"}
    /\ \A r \in Relays : task[r] = Idle
    /\ UNCHANGED ovars

ONext ==
    \/ \E e \in Events : InsertRow(e) \/ BackoffElapses(e) \/ ClaimAges(e)
    \/ \E r \in Relays : RelayStep(r) \/ RelayCrash(r)
    \/ Relayed

OSpec == OInit /\ [][ONext]_ovars

(* Goroutines run, the ticker polls, and time passes.  That a publish ever
   succeeds is not assumed. *)
OFairness ==
    /\ \A r \in Relays : WF_ovars(RelayStep(r))
    /\ \A e \in Events : WF_ovars(BackoffElapses(e)) /\ WF_ovars(ClaimAges(e))

OFairSpec == OSpec /\ OFairness

-----------------------------------------------------------------------------
(* Properties                                                              *)

(* Two relays never work on the same row, although a claim is no longer
   protected by any lock once OutboxPendingGetBatch has committed. *)
OneRelayPerRow ==
    \A e \in Events : \A r, q \in Relays :
        task[r][e] # "none" /\ task[q][e] # "none" => r = q

(* A row that reached published or failed stays so: the unconditional
   UPDATEs of a late goroutine never reopen it. *)
TerminalIsFinal ==
    [][\A e \in Events : row[e] \in {"published", "failed"} =>
                             row'[e] = row[e]]_ovars

(* A row is only called published when the broker has its message, and only
   given up after MaxRetries attempts, none lost and none counted twice. *)
OutcomesEarned ==
    \A e \in Events :
        /\ row[e] = "published" => InTopic(e)
        /\ row[e] = "failed" => e \in Malformed \/ retries[e] = MaxRetries
        /\ retries[e] <= MaxRetries

(* A transaction whose lock the relay frees has never been delivered: as long
   as only publishes were refused, giving up means the broker has nothing. *)
FreedNeverDelivered ==
    faults = 0 => \A e \in freed : ~InTopic(e)

(* Every row is relayed or given up in the end, whoever crashed with it. *)
EveryRowEnds ==
    \A e \in Events : row[e] = "pending" ~> row[e] \in {"published", "failed"}

=============================================================================
