---------------------------- MODULE OutboxProofs ----------------------------
(***************************************************************************)
(* Proofs about Outbox, for any rows, relays, partitions, retries, batch   *)
(* sizes and number of faults.  What depends on a claim outliving its      *)
(* 30 seconds is proved for relays that are not paused for so long; they   *)
(* may crash, their UPDATEs may fail, and a publish may be ambiguous.      *)
(***************************************************************************)
EXTENDS Outbox, TLAPS

NotPaused == "pause" \notin Faults

-----------------------------------------------------------------------------
(* The inductive invariant                                                 *)

(* A goroutine is at work on a row only while the row is claimed and the
   claim is fresh, or to free the lock of a row that has failed. *)
ClaimsHeld ==
    \A r \in Relays : \A e \in Events : task[r][e] # "none" =>
        /\ e \notin stale
        /\ row[e] = "claimed" \/ (row[e] = "failed" /\ task[r][e] = "release")

(* What a goroutine has done so far. *)
Achieved ==
    \A r \in Relays : \A e \in Events :
        /\ task[r][e] = "markPublished" => InTopic(e)
        /\ task[r][e] \in {"publish", "markPublished", "markFailure"} =>
              e \notin Malformed
        /\ task[r][e] = "markFailed" => e \in Malformed

(* Only a row that has failed has used up its attempts. *)
AttemptsLeft ==
    \A e \in Events : row[e] # "failed" => retries[e] < MaxRetries

(* As long as nothing but publishes failed, a message in the topic is that of
   a row called published, or about to be; a lock is freed for failed rows. *)
Undelivered ==
    faults = 0 =>
        /\ \A e \in Events : InTopic(e) =>
              row[e] = "published" \/ \E r \in Relays : task[r][e] = "markPublished"
        /\ \A r \in Relays : \A e \in Events :
              task[r][e] = "release" => row[e] = "failed"
        /\ \A e \in freed : row[e] = "failed"

RelayInv ==
    /\ OTypeOK
    /\ ClaimsHeld
    /\ OneRelayPerRow
    /\ Achieved
    /\ OutcomesEarned
    /\ AttemptsLeft
    /\ Undelivered

-----------------------------------------------------------------------------
(* Types                                                                   *)

(* The empty table and idle relays are well typed. *)
LEMMA InitTyped == OInit => OTypeOK
BY OutboxAssumption
   DEF OInit, OTypeOK, RowStates, TaskStates, Idle

(* A publish only appends to the log of one partition. *)
LEMMA SendAppends ==
    ASSUME OTypeOK, NEW e \in Events, Send(e)
    PROVE  /\ log' \in [Partitions -> Seq(Events)]
           /\ InTopic(e)'
           /\ \A f \in Events : InTopic(f) => InTopic(f)'
           /\ \A f \in Events : InTopic(f)' => InTopic(f) \/ f = e
<1> DEFINE p == PartitionOf[e]
<1>1. p \in Partitions /\ log[p] \in Seq(Events)
  BY OutboxAssumption DEF OTypeOK
<1>2. /\ log'[p] = Append(log[p], e)
      /\ \A q \in Partitions : q # p => log'[q] = log[q]
  BY <1>1 DEF Send, OTypeOK
<1>3. log' \in [Partitions -> Seq(Events)]
  BY <1>1 DEF Send, OTypeOK
<1>4. /\ DOMAIN log'[p] = 1..Len(log[p]) + 1
      /\ DOMAIN log[p] = 1..Len(log[p])
      /\ Len(log[p]) \in Nat
      /\ log'[p][Len(log[p]) + 1] = e
      /\ \A i \in 1..Len(log[p]) : log'[p][i] = log[p][i]
  BY <1>1, <1>2
<1>5. InTopic(e)'
  BY <1>4 DEF InTopic
<1>6. ASSUME NEW f \in Events
      PROVE  (InTopic(f) => InTopic(f)') /\ (InTopic(f)' => InTopic(f) \/ f = e)
  <2>1. CASE PartitionOf[f] # p
    BY <2>1, <1>2, OutboxAssumption DEF InTopic
  <2>2. CASE PartitionOf[f] = p
    <3>1. \A i \in DOMAIN log[p] : i \in DOMAIN log'[p] /\ log'[p][i] = log[p][i]
      BY <1>4
    <3>2. \A i \in DOMAIN log'[p] : i \in DOMAIN log[p] \/ log'[p][i] = e
      BY <1>4
    <3> QED
      BY <2>2, <3>1, <3>2 DEF InTopic
  <2> QED
    BY <2>1, <2>2
<1> QED
  BY <1>3, <1>5, <1>6

(* A goroutine's next step is a step. *)
LEMMA SetTaskTyped ==
    ASSUME OTypeOK, NEW r \in Relays, NEW e \in Events, NEW t \in TaskStates,
           SetTask(r, e, t)
    PROVE  /\ task' \in [Relays -> [Events -> TaskStates]]
           /\ task'[r][e] = t
           /\ \A q \in Relays, f \in Events :
                 q # r \/ f # e => task'[q][f] = task[q][f]
BY DEF OTypeOK, SetTask

(* An UPDATE of a row also renews its claim. *)
LEMMA UpdateTyped ==
    ASSUME OTypeOK, NEW e \in Events, NEW s \in RowStates, Update(e, s)
    PROVE  /\ row' \in [Events -> RowStates]
           /\ row'[e] = s
           /\ \A f \in Events : f # e => row'[f] = row[f]
           /\ stale' \subseteq {f \in Events : row'[f] = "claimed"}
           /\ e \notin stale'
BY DEF OTypeOK, Update

-----------------------------------------------------------------------------
(* The steps                                                               *)

(* A step of one goroutine on its row: what it has to establish about this row
   and this goroutine for the invariant to hold; no other row or goroutine is
   concerned, because no other relay works on the row. *)
LEMMA GoroutineKeeps ==
    ASSUME RelayInv, NEW r \in Relays, NEW e \in Events, NEW t \in TaskStates,
           task[r][e] # "none",
           SetTask(r, e, t),
           UNCHANGED created,
           OTypeOK',
           \A f \in Events : f # e =>
               /\ row'[f] = row[f] /\ retries'[f] = retries[f]
               /\ f \in stale' => f \in stale
               /\ f \in freed' => f \in freed
               /\ InTopic(f)' <=> InTopic(f),
           InTopic(e) => InTopic(e)',
           faults' = 0 => faults = 0,
           t # "none" =>
               /\ e \notin stale'
               /\ row'[e] = "claimed" \/ (row'[e] = "failed" /\ t = "release"),
           t = "markPublished" => InTopic(e)',
           t \in {"publish", "markPublished", "markFailure"} => e \notin Malformed,
           t = "markFailed" => e \in Malformed,
           row'[e] = "published" => InTopic(e)',
           row'[e] = "failed" => e \in Malformed \/ retries'[e] = MaxRetries,
           retries'[e] <= MaxRetries,
           row'[e] # "failed" => retries'[e] < MaxRetries,
           faults' = 0 =>
               /\ InTopic(e)' => row'[e] = "published" \/ t = "markPublished"
               /\ t = "release" => row'[e] = "failed"
               /\ e \in freed' => row'[e] = "failed"
    PROVE  RelayInv'
<1> USE DEF RelayInv
<1>1. /\ task'[r][e] = t
      /\ \A q \in Relays, f \in Events :
            q # r \/ f # e => task'[q][f] = task[q][f]
  BY SetTaskTyped
<1>2. \A q \in Relays : q # r => task'[q][e] = "none"
  BY <1>1 DEF OneRelayPerRow
<1>3. ClaimsHeld'
  BY <1>1, <1>2 DEF ClaimsHeld
<1>4. OneRelayPerRow'
  BY <1>1, <1>2 DEF OneRelayPerRow
<1>5. Achieved'
  BY <1>1, <1>2 DEF Achieved
<1>6. OutcomesEarned'
  BY DEF OutcomesEarned
<1>7. AttemptsLeft'
  BY DEF AttemptsLeft
<1>8. Undelivered'
  <2> SUFFICES ASSUME faults' = 0
               PROVE  /\ \A f \in Events : InTopic(f)' =>
                            \/ row'[f] = "published"
                            \/ \E q \in Relays : task'[q][f] = "markPublished"
                      /\ \A q \in Relays : \A f \in Events :
                            task'[q][f] = "release" => row'[f] = "failed"
                      /\ \A f \in freed' : row'[f] = "failed"
    BY DEF Undelivered
  <2>1. \A f \in Events : InTopic(f)' =>
            \/ row'[f] = "published"
            \/ \E q \in Relays : task'[q][f] = "markPublished"
    BY <1>1 DEF Undelivered
  <2>2. \A q \in Relays : \A f \in Events :
            task'[q][f] = "release" => row'[f] = "failed"
    BY <1>1, <1>2 DEF Undelivered
  <2>3. \A f \in freed' : row'[f] = "failed"
    BY DEF Undelivered, OTypeOK
  <2> QED
    BY <2>1, <2>2, <2>3
<1> QED
  BY <1>3, <1>4, <1>5, <1>6, <1>7, <1>8

(* The topic changes only with the log. *)
LEMMA SameTopic == UNCHANGED log => \A f : InTopic(f)' <=> InTopic(f)
BY DEF InTopic

(* What the invariant says about the goroutine of r for row e. *)
LEMMA GoroutineState ==
    ASSUME RelayInv, NEW r \in Relays, NEW e \in Events, task[r][e] # "none"
    PROVE  /\ row[e] = "claimed" \/ (row[e] = "failed" /\ task[r][e] = "release")
           /\ e \notin stale
           /\ retries[e] \in Nat /\ MaxRetries \in Nat /\ retries[e] <= MaxRetries
           /\ row[e] # "failed" => retries[e] < MaxRetries
           /\ row[e] = "failed" => e \in Malformed \/ retries[e] = MaxRetries
           /\ faults \in Nat
BY OutboxAssumption
   DEF RelayInv, OTypeOK, ClaimsHeld, OutcomesEarned, AttemptsLeft

(* A goroutine gets its slot: nothing was published for its row before. *)
LEMMA StartKeeps ==
    ASSUME RelayInv, NEW r \in Relays, NEW e \in Events, Start(r, e)
    PROVE  RelayInv'
<1> DEFINE t == IF e \in Malformed THEN "markFailed" ELSE "publish"
<1>1. /\ task[r][e] = "queued" /\ SetTask(r, e, t) /\ t \in TaskStates
      /\ UNCHANGED <<row, created, retries, due, stale, log, freed, faults>>
  BY DEF Start, TaskStates
<1>2. OTypeOK'
  BY <1>1, SetTaskTyped DEF RelayInv, OTypeOK
<1>3. faults = 0 => (InTopic(e) => FALSE) /\ (e \in freed => FALSE)
  <2>1. row[e] = "claimed" /\ \A q \in Relays : task[q][e] # "markPublished"
    BY <1>1, GoroutineState DEF RelayInv, OneRelayPerRow
  <2> QED
    BY <2>1 DEF RelayInv, Undelivered
<1> QED
  <2> HIDE DEF t
  <2> t \in {"markFailed", "publish"} /\ (t = "markFailed" <=> e \in Malformed)
    BY DEF t
  <2> QED
    BY <1>1, <1>2, <1>3, SameTopic, GoroutineState, GoroutineKeeps

(* A publish that succeeds, fails, or fails with the message in the broker. *)
LEMMA PublishKeeps ==
    ASSUME RelayInv, NEW r \in Relays, NEW e \in Events,
           PublishOk(r, e) \/ PublishError(r, e)
    PROVE  RelayInv'
<1>1. /\ task[r][e] = "publish" /\ e \notin Malformed
      /\ UNCHANGED <<row, created, retries, due, stale, freed>>
  BY DEF PublishOk, PublishError, RelayInv, Achieved
<1>2. faults = 0 => ~InTopic(e) /\ e \notin freed
  <2>1. row[e] = "claimed" /\ \A q \in Relays : task[q][e] # "markPublished"
    BY <1>1, GoroutineState DEF RelayInv, OneRelayPerRow
  <2> QED
    BY <2>1 DEF RelayInv, Undelivered
<1>3. CASE PublishOk(r, e)
  <2>1. Send(e) /\ SetTask(r, e, "markPublished") /\ faults' = faults
    BY <1>3 DEF PublishOk
  <2>2. /\ log' \in [Partitions -> Seq(Events)]
        /\ InTopic(e)'
        /\ \A f \in Events : f # e => (InTopic(f)' <=> InTopic(f))
    BY <2>1, SendAppends DEF RelayInv
  <2>3. "markPublished" \in TaskStates
    BY DEF TaskStates
  <2>4. OTypeOK'
    BY <1>1, <2>1, <2>2, <2>3, SetTaskTyped DEF RelayInv, OTypeOK
  <2> QED
    BY <1>1, <1>2, <2>1, <2>2, <2>3, <2>4, GoroutineState, GoroutineKeeps
<1>4. CASE PublishError(r, e)
  <2>1. /\ SetTask(r, e, "markFailure") /\ "markFailure" \in TaskStates
        /\ \/ UNCHANGED <<log, faults>>
           \/ Send(e) /\ faults' = faults + 1 /\ faults < MaxFaults
    BY <1>4 DEF PublishError, Fault, TaskStates
  <2>2. /\ log' \in [Partitions -> Seq(Events)]
        /\ InTopic(e) => InTopic(e)'
        /\ \A f \in Events : f # e => (InTopic(f)' <=> InTopic(f))
        /\ faults' \in 0..MaxFaults
        /\ faults' = 0 => faults = 0 /\ (InTopic(e)' <=> InTopic(e))
    <3>1. CASE UNCHANGED <<log, faults>>
      BY <3>1, SameTopic DEF RelayInv, OTypeOK
    <3>2. CASE Send(e) /\ faults' = faults + 1 /\ faults < MaxFaults
      <4>1. faults' # 0 /\ faults' \in 0..MaxFaults
        BY <3>2, OutboxAssumption DEF RelayInv, OTypeOK
      <4> QED
        BY <3>2, <4>1, SendAppends DEF RelayInv
    <3> QED
      BY <2>1, <3>1, <3>2
  <2>3. OTypeOK'
    BY <1>1, <2>1, <2>2, SetTaskTyped DEF RelayInv, OTypeOK
  <2> QED
    BY <1>1, <1>2, <2>1, <2>2, <2>3, GoroutineState, GoroutineKeeps
<1> QED
  BY <1>3, <1>4

(* The first fault is no longer no fault. *)
LEMMA FaultCounts ==
    ASSUME OTypeOK, NEW kind, Fault(kind)
    PROVE  faults' \in 0..MaxFaults /\ faults' # 0
BY OutboxAssumption DEF OTypeOK, Fault

(* The UPDATE to published finds the row claimed. *)
LEMMA MarkPublishedKeeps ==
    ASSUME RelayInv, NEW r \in Relays, NEW e \in Events, MarkPublished(r, e)
    PROVE  RelayInv'
<1>1. /\ task[r][e] = "markPublished" /\ SetTask(r, e, "none")
      /\ "none" \in TaskStates /\ "published" \in RowStates
      /\ UNCHANGED <<created, retries, due, log, freed>>
      /\ InTopic(e)
  BY DEF MarkPublished, TaskStates, RowStates, RelayInv, Achieved
<1>2. row[e] = "claimed"
  BY <1>1, GoroutineState
<1>3. CASE Update(e, "published") /\ UNCHANGED faults
  <2>1. OTypeOK'
    BY <1>1, <1>3, SetTaskTyped, UpdateTyped DEF RelayInv, OTypeOK
  <2>2. e \in freed => faults # 0
    BY <1>2 DEF RelayInv, Undelivered
  <2>3. \A f \in Events : f \in stale' => f \in stale
    BY <1>3 DEF Update
  <2> QED
    BY <1>1, <1>2, <1>3, <2>1, <2>2, <2>3, UpdateTyped, SameTopic,
       GoroutineState, GoroutineKeeps DEF RelayInv
<1>4. CASE Fault("dbError") /\ UNCHANGED <<row, stale>>
  <2>1. faults' # 0 /\ OTypeOK'
    BY <1>1, <1>4, SetTaskTyped, FaultCounts DEF RelayInv, OTypeOK
  <2> QED
    BY <1>1, <1>2, <1>4, <2>1, SameTopic, GoroutineState, GoroutineKeeps
<1> QED
  BY <1>3, <1>4 DEF MarkPublished

(* A failed publish costs the row one of its attempts, the last one fails it
   and has its lock freed. *)
LEMMA MarkPublishFailureKeeps ==
    ASSUME RelayInv, NEW r \in Relays, NEW e \in Events, MarkPublishFailure(r, e)
    PROVE  RelayInv'
<1>1. /\ task[r][e] = "markFailure" /\ "none" \in TaskStates
      /\ UNCHANGED <<created, log, freed>> /\ e \notin Malformed
  BY DEF MarkPublishFailure, TaskStates, RelayInv, Achieved
<1>2. row[e] = "claimed"
  BY <1>1, GoroutineState
<1>3. faults = 0 => ~InTopic(e) /\ e \notin freed
  <2>1. \A q \in Relays : task[q][e] # "markPublished"
    BY <1>1 DEF RelayInv, OneRelayPerRow
  <2> QED
    BY <1>2, <2>1 DEF RelayInv, Undelivered
<1>4. CASE /\ retries' = [retries EXCEPT ![e] = @ + 1]
           /\ Update(e, IF Exhausted(e) THEN "failed" ELSE "pending")
           /\ due' = due \ {e}
           /\ SetTask(r, e, AfterFailure(e))
           /\ UNCHANGED faults
  <2> DEFINE s == IF Exhausted(e) THEN "failed" ELSE "pending"
             t == AfterFailure(e)
  <2>1. /\ s \in RowStates /\ t \in TaskStates
        /\ \/ Exhausted(e) /\ s = "failed" /\ t = "release"
           \/ ~Exhausted(e) /\ s = "pending" /\ t = "none"
    BY DEF RowStates, TaskStates, AfterFailure
  <2>2. /\ retries' \in [Events -> Nat]
        /\ retries'[e] = retries[e] + 1
        /\ \A f \in Events : f # e => retries'[f] = retries[f]
    BY <1>4 DEF RelayInv, OTypeOK
  <2>3. /\ Exhausted(e) => retries'[e] = MaxRetries
        /\ ~Exhausted(e) => retries'[e] < MaxRetries
    BY <1>2, <2>2, <1>1, GoroutineState DEF Exhausted
  <2> HIDE DEF s, t
  <2>4. Update(e, s) /\ SetTask(r, e, t)
    BY <1>4 DEF s, t
  <2>5. OTypeOK'
    BY <1>1, <1>4, <2>1, <2>2, <2>4, SetTaskTyped, UpdateTyped DEF RelayInv, OTypeOK
  <2>6. /\ row'[e] = s /\ e \notin stale'
        /\ \A f \in Events : f # e => row'[f] = row[f]
        /\ \A f \in Events : f \in stale' => f \in stale
    BY <2>1, <2>4, UpdateTyped DEF RelayInv, Update
  <2>7. retries'[e] <= MaxRetries /\ faults' = faults
    BY <2>2, <2>3, <1>1, <1>4, GoroutineState
  <2>8. \A f \in Events : InTopic(f)' <=> InTopic(f)
    BY <1>1, SameTopic
  <2>9. CASE Exhausted(e) /\ s = "failed" /\ t = "release"
    BY <1>1, <1>3, <2>1, <2>2, <2>3, <2>4, <2>5, <2>6, <2>7, <2>8, <2>9,
       GoroutineKeeps
  <2>10. CASE ~Exhausted(e) /\ s = "pending" /\ t = "none"
    BY <1>1, <1>3, <2>1, <2>2, <2>3, <2>4, <2>5, <2>6, <2>7, <2>8, <2>10,
       GoroutineKeeps
  <2> QED
    BY <2>1, <2>9, <2>10
<1>5. CASE /\ Fault("dbError") /\ SetTask(r, e, "none")
           /\ UNCHANGED <<retries, row, due, stale>>
  <2>1. faults' # 0 /\ OTypeOK'
    BY <1>1, <1>5, SetTaskTyped, FaultCounts DEF RelayInv, OTypeOK
  <2> QED
    BY <1>1, <1>2, <1>5, <2>1, SameTopic, GoroutineState, GoroutineKeeps
<1> QED
  BY <1>4, <1>5 DEF MarkPublishFailure

(* A row that cannot be marshalled fails at once. *)
LEMMA MarkFailedKeeps ==
    ASSUME RelayInv, NEW r \in Relays, NEW e \in Events, MarkFailed(r, e)
    PROVE  RelayInv'
<1>1. /\ task[r][e] = "markFailed" /\ SetTask(r, e, "release")
      /\ "release" \in TaskStates /\ "failed" \in RowStates
      /\ UNCHANGED <<created, retries, due, log, freed>>
      /\ e \in Malformed
  BY DEF MarkFailed, TaskStates, RowStates, RelayInv, Achieved
<1>2. row[e] = "claimed"
  BY <1>1, GoroutineState
<1>3. CASE Update(e, "failed") /\ UNCHANGED faults
  <2>1. OTypeOK'
    BY <1>1, <1>3, SetTaskTyped, UpdateTyped DEF RelayInv, OTypeOK
  <2>2. faults = 0 => ~InTopic(e)
    <3>1. \A q \in Relays : task[q][e] # "markPublished"
      BY <1>1 DEF RelayInv, OneRelayPerRow
    <3> QED
      BY <1>2, <3>1 DEF RelayInv, Undelivered
  <2>3. \A f \in Events : f \in stale' => f \in stale
    BY <1>3 DEF Update
  <2> QED
    BY <1>1, <1>2, <1>3, <2>1, <2>2, <2>3, UpdateTyped, SameTopic,
       GoroutineState, GoroutineKeeps DEF RelayInv
<1>4. CASE Fault("dbError") /\ UNCHANGED <<row, stale>>
  <2>1. faults' # 0 /\ OTypeOK'
    BY <1>1, <1>4, SetTaskTyped, FaultCounts DEF RelayInv, OTypeOK
  <2> QED
    BY <1>1, <1>2, <1>4, <2>1, SameTopic, GoroutineState, GoroutineKeeps
<1> QED
  BY <1>3, <1>4 DEF MarkFailed

(* The lock is freed for a row that has failed, as far as nothing but publishes
   failed before. *)
LEMMA ReleaseKeeps ==
    ASSUME RelayInv, NEW r \in Relays, NEW e \in Events, ReleaseIdempotency(r, e)
    PROVE  RelayInv'
<1>1. /\ task[r][e] = "release" /\ SetTask(r, e, "none") /\ "none" \in TaskStates
      /\ freed' = freed \cup {e}
      /\ UNCHANGED <<row, created, retries, due, stale, log, faults>>
  BY DEF ReleaseIdempotency, TaskStates
<1>2. OTypeOK'
  BY <1>1, SetTaskTyped DEF RelayInv, OTypeOK
<1>3. faults = 0 => row[e] = "failed" /\ ~InTopic(e)
  <2>1. \A q \in Relays : task[q][e] # "markPublished"
    BY <1>1 DEF RelayInv, OneRelayPerRow
  <2> QED
    BY <1>1, <2>1 DEF RelayInv, Undelivered
<1>4. row[e] # "published"
  BY <1>1, GoroutineState
<1> QED
  BY <1>1, <1>2, <1>3, <1>4, SameTopic, GoroutineState, GoroutineKeeps

(* OutboxPendingGetBatch takes rows nobody works on: they are pending, or
   their claim is stale. *)
LEMMA ClaimKeeps ==
    ASSUME RelayInv, NEW r \in Relays, ClaimBatch(r)
    PROVE  RelayInv'
<1> USE DEF RelayInv
<1>1. /\ task[r] = Idle
      /\ row' = [e \in Events |->
                    IF e \in Batch THEN "claimed"
                    ELSE IF e \in Reclaimed THEN "pending" ELSE row[e]]
      /\ stale' = TouchedClaims
      /\ task' = [task EXCEPT ![r] =
                     [e \in Events |-> IF e \in Batch THEN "queued" ELSE "none"]]
      /\ UNCHANGED <<created, retries, due, log, freed, faults>>
  BY DEF ClaimBatch
<1>2. /\ Batch \subseteq {e \in Events : row[e] = "pending" \/ e \in stale}
      /\ Reclaimed = stale
  BY DEF Batch, Ready, Reclaimed, OTypeOK
<1>3. \A e \in Events : e \in Batch \/ e \in Reclaimed =>
          row[e] \in {"pending", "claimed"} /\ \A q \in Relays : task[q][e] = "none"
  BY <1>2 DEF ClaimsHeld, OTypeOK
<1> HIDE DEF RelayInv
<1>4. /\ stale' = {}
      /\ \A e \in Events : row'[e] = IF e \in Batch THEN "claimed"
                               ELSE IF e \in Reclaimed THEN "pending" ELSE row[e]
      /\ \A e \in Events : task'[r][e] = IF e \in Batch THEN "queued" ELSE "none"
      /\ \A q \in Relays : q # r => task'[q] = task[q]
      /\ \A e \in Events : task[r][e] = "none"
  BY <1>1, <1>2 DEF TouchedClaims, RelayInv, OTypeOK, Idle
<1>5. OTypeOK'
  BY <1>1, <1>4 DEF RelayInv, OTypeOK, RowStates, TaskStates
<1>6. ClaimsHeld' /\ OneRelayPerRow'
  BY <1>3, <1>4 DEF RelayInv, ClaimsHeld, OneRelayPerRow
<1>7. Achieved'
  BY <1>1, <1>4, SameTopic DEF RelayInv, Achieved
<1>8. OutcomesEarned' /\ AttemptsLeft'
  BY <1>1, <1>3, <1>4, SameTopic DEF RelayInv, OutcomesEarned, AttemptsLeft
<1>9. Undelivered'
  <2> SUFFICES ASSUME faults = 0
               PROVE  /\ \A f \in Events : InTopic(f)' =>
                            \/ row'[f] = "published"
                            \/ \E q \in Relays : task'[q][f] = "markPublished"
                      /\ \A q \in Relays : \A f \in Events :
                            task'[q][f] = "release" => row'[f] = "failed"
                      /\ \A f \in freed' : row'[f] = "failed"
    BY <1>1 DEF Undelivered
  <2>1. \A f \in Events : InTopic(f)' =>
            \/ row'[f] = "published"
            \/ \E q \in Relays : task'[q][f] = "markPublished"
    <3> SUFFICES ASSUME NEW f \in Events, InTopic(f)
                 PROVE  \/ row'[f] = "published"
                        \/ \E q \in Relays : task'[q][f] = "markPublished"
      BY <1>1, SameTopic
    <3>1. CASE row[f] = "published"
      BY <3>1, <1>3, <1>4
    <3>2. CASE \E q \in Relays : task[q][f] = "markPublished"
      BY <3>2, <1>3, <1>4
    <3> QED
      BY <3>1, <3>2 DEF RelayInv, Undelivered
  <2>2. \A q \in Relays : \A f \in Events :
            task'[q][f] = "release" => row'[f] = "failed"
    BY <1>3, <1>4 DEF RelayInv, Undelivered
  <2>3. \A f \in freed' : row'[f] = "failed"
    BY <1>1, <1>3, <1>4 DEF RelayInv, Undelivered, OTypeOK
  <2> QED
    BY <2>1, <2>2, <2>3
<1> QED
  BY <1>5, <1>6, <1>7, <1>8, <1>9 DEF RelayInv

(* A new row. *)
LEMMA InsertKeeps ==
    ASSUME RelayInv, NEW e \in Events, InsertRow(e)
    PROVE  RelayInv'
<1>1. /\ row[e] = "none"
      /\ row' \in [Events -> RowStates] /\ row'[e] = "pending"
      /\ \A f \in Events : f # e => row'[f] = row[f]
      /\ created' = Append(created, e) /\ due' = due \cup {e}
      /\ UNCHANGED <<retries, stale, task, log, freed, faults>>
  BY DEF InsertRow, WriteRow, RelayInv, OTypeOK, RowStates
<1>2. OTypeOK'
  <2>1. created' \in Seq(Events)
    BY <1>1 DEF RelayInv, OTypeOK
  <2>2. stale' \subseteq {f \in Events : row'[f] = "claimed"}
    BY <1>1 DEF RelayInv, OTypeOK
  <2> QED
    BY <1>1, <2>1, <2>2 DEF RelayInv, OTypeOK
<1>3. \A r \in Relays : task[r][e] = "none"
  BY <1>1 DEF RelayInv, ClaimsHeld
<1>4. ClaimsHeld' /\ OneRelayPerRow'
  BY <1>1, <1>3 DEF RelayInv, ClaimsHeld, OneRelayPerRow
<1>5. Achieved' /\ OutcomesEarned' /\ AttemptsLeft'
  BY <1>1, SameTopic DEF RelayInv, Achieved, OutcomesEarned, AttemptsLeft
<1>6. Undelivered'
  BY <1>1, SameTopic DEF RelayInv, OTypeOK, Undelivered
<1> QED
  BY <1>2, <1>4, <1>5, <1>6 DEF RelayInv

(* Time passes for a row that waits, or whose claim nobody works on. *)
LEMMA TimeKeeps ==
    ASSUME RelayInv, NotPaused \/ faults' = 0,
           NEW e \in Events, BackoffElapses(e) \/ ClaimAges(e)
    PROVE  RelayInv'
<1>1. UNCHANGED <<row, created, retries, task, log, freed>>
  BY DEF BackoffElapses, ClaimAges
<1>2. \/ UNCHANGED <<stale, faults>> /\ due' = due \cup {e}
      \/ /\ row[e] = "claimed" /\ stale' = stale \cup {e} /\ UNCHANGED <<due, faults>>
         /\ \A r \in Relays : task[r][e] = "none"
  <2>1. Fault("pause") => "pause" \in Faults /\ faults' # 0
    BY FaultCounts DEF Fault, RelayInv
  <2> QED
    BY <2>1 DEF NotPaused, BackoffElapses, ClaimAges, Abandoned
<1>3. OTypeOK'
  BY <1>1, <1>2 DEF RelayInv, OTypeOK
<1>4. ClaimsHeld' /\ OneRelayPerRow'
  BY <1>1, <1>2 DEF RelayInv, ClaimsHeld, OneRelayPerRow
<1>5. Achieved' /\ OutcomesEarned' /\ AttemptsLeft'
  BY <1>1, SameTopic DEF RelayInv, Achieved, OutcomesEarned, AttemptsLeft
<1>6. Undelivered'
  BY <1>1, <1>2, SameTopic DEF RelayInv, Undelivered
<1> QED
  BY <1>3, <1>4, <1>5, <1>6 DEF RelayInv

(* A relay that crashes leaves its claims behind. *)
LEMMA CrashKeeps ==
    ASSUME RelayInv, NEW r \in Relays, RelayCrash(r)
    PROVE  RelayInv'
<1>1. /\ Fault("crash")
      /\ task' = [task EXCEPT ![r] = Idle]
      /\ UNCHANGED <<row, created, retries, due, stale, log, freed>>
  BY DEF RelayCrash
<1>2. /\ \A e \in Events : task'[r][e] = "none"
      /\ \A q \in Relays : q # r => task'[q] = task[q]
      /\ faults' # 0
      /\ OTypeOK'
  BY <1>1, FaultCounts DEF RelayInv, OTypeOK, Idle, TaskStates
<1>3. ClaimsHeld' /\ OneRelayPerRow'
  BY <1>1, <1>2 DEF RelayInv, ClaimsHeld, OneRelayPerRow
<1>4. Achieved' /\ OutcomesEarned' /\ AttemptsLeft'
  BY <1>1, <1>2, SameTopic DEF RelayInv, Achieved, OutcomesEarned, AttemptsLeft
<1>5. Undelivered'
  BY <1>2 DEF Undelivered
<1> QED
  BY <1>2, <1>3, <1>4, <1>5 DEF RelayInv

(* Whatever a relay does next. *)
LEMMA RelayStepKeeps ==
    ASSUME RelayInv, NEW r \in Relays, RelayStep(r)
    PROVE  RelayInv'
BY ClaimKeeps, StartKeeps, PublishKeeps, MarkPublishedKeeps,
   MarkPublishFailureKeeps, MarkFailedKeeps, ReleaseKeeps
   DEF RelayStep, RelayWork

(* No step leads out of the invariant. *)
LEMMA OutboxStepKeeps ==
    RelayInv /\ [ONext]_ovars /\ (NotPaused \/ faults' = 0) => RelayInv'
<1> SUFFICES ASSUME RelayInv, [ONext]_ovars, NotPaused \/ faults' = 0
             PROVE  RelayInv'
  OBVIOUS
<1>1. ASSUME UNCHANGED ovars PROVE RelayInv'
  BY <1>1, SameTopic
     DEF ovars, RelayInv, OTypeOK, ClaimsHeld, OneRelayPerRow, Achieved,
         OutcomesEarned, AttemptsLeft, Undelivered
<1>2. ASSUME NEW e \in Events, InsertRow(e) \/ BackoffElapses(e) \/ ClaimAges(e)
      PROVE  RelayInv'
  BY <1>2, InsertKeeps, TimeKeeps
<1>3. ASSUME NEW r \in Relays, RelayStep(r) \/ RelayCrash(r)
      PROVE  RelayInv'
  BY <1>3, RelayStepKeeps, CrashKeeps
<1> QED
  BY <1>1, <1>2, <1>3 DEF ONext, Relayed

(* The invariant holds before the first row. *)
LEMMA InitRelayInv == OInit => RelayInv
<1> SUFFICES ASSUME OInit PROVE RelayInv
  OBVIOUS
<1>1. OTypeOK
  BY InitTyped
<1>2. \A e \in Events : ~InTopic(e)
  BY OutboxAssumption DEF OInit, InTopic
<1>3. ClaimsHeld /\ OneRelayPerRow /\ Achieved
  BY DEF OInit, Idle, ClaimsHeld, OneRelayPerRow, Achieved
<1>4. OutcomesEarned /\ AttemptsLeft
  BY OutboxAssumption DEF OInit, OutcomesEarned, AttemptsLeft
<1>5. Undelivered
  BY <1>2 DEF OInit, Undelivered, Idle
<1> QED
  BY <1>1, <1>3, <1>4, <1>5 DEF RelayInv

-----------------------------------------------------------------------------
(* The theorems                                                            *)

(* With relays that are not paused for 30 seconds the invariant always
   holds. *)
LEMMA RelayInvariant == NotPaused => (OSpec => []RelayInv)
<1> SUFFICES ASSUME NotPaused PROVE OSpec => []RelayInv
  OBVIOUS
<1>1. RelayInv /\ [ONext]_ovars => RelayInv'
  BY OutboxStepKeeps
<1> QED
  BY <1>1, InitRelayInv, PTL DEF OSpec

(* Rows, retry counts, goroutines and the topic keep their types, and only a
   row that is still claimed has a stale claim. *)
THEOREM OutboxTyped == NotPaused => (OSpec => []OTypeOK)
<1>1. RelayInv => OTypeOK
  BY DEF RelayInv
<1> QED
  BY <1>1, RelayInvariant, PTL

(* Two relays never work on the same row, although no lock protects a claim
   once OutboxPendingGetBatch has committed. *)
THEOREM RelaysDisjoint == NotPaused => (OSpec => []OneRelayPerRow)
<1>1. RelayInv => OneRelayPerRow
  BY DEF RelayInv
<1> QED
  BY <1>1, RelayInvariant, PTL

(* Rows are published only with their message in the topic and given up only
   after MaxRetries attempts, with crashes, failed UPDATEs and ambiguous
   publishes. *)
THEOREM OutcomesAreEarned == NotPaused => (OSpec => []OutcomesEarned)
<1>1. RelayInv => OutcomesEarned
  BY DEF RelayInv
<1> QED
  BY <1>1, RelayInvariant, PTL

(* The unconditional UPDATEs of the relays never reopen a row that is
   published or failed: they find it claimed. *)
THEOREM TerminalRowsFinal == NotPaused => (OSpec => TerminalIsFinal)
<1>1. ASSUME RelayInv, ONext, NEW e \in Events, row[e] \in {"published", "failed"}
      PROVE  row'[e] = row[e]
  <2>1. ASSUME NEW r \in Relays, ClaimBatch(r)
        PROVE  row'[e] = row[e]
    BY <1>1, <2>1 DEF ClaimBatch, Batch, Ready, Reclaimed
  <2>2. ASSUME NEW r \in Relays, NEW f \in Events,
               MarkPublished(r, f) \/ MarkPublishFailure(r, f) \/ MarkFailed(r, f)
        PROVE  row'[e] = row[e]
    <3>1. task[r][f] \in {"markPublished", "markFailure", "markFailed"}
      BY <2>2 DEF MarkPublished, MarkPublishFailure, MarkFailed
    <3>2. f # e
      BY <1>1, <3>1, GoroutineState
    <3>3. \/ row' = row
          \/ \E s : row' = [row EXCEPT ![f] = s]
      BY <2>2 DEF MarkPublished, MarkPublishFailure, MarkFailed, Update
    <3> QED
      BY <1>1, <3>2, <3>3 DEF RelayInv, OTypeOK
  <2>3. ASSUME NEW f \in Events, InsertRow(f)
        PROVE  row'[e] = row[e]
    BY <1>1, <2>3 DEF InsertRow, WriteRow, RelayInv, OTypeOK
  <2> QED
    BY <1>1, <2>1, <2>2, <2>3
       DEF ONext, RelayStep, RelayWork, Start, PublishOk, PublishError,
           ReleaseIdempotency, BackoffElapses, ClaimAges, RelayCrash, Relayed, ovars
<1>2. RelayInv /\ [ONext]_ovars =>
        [\A e \in Events : row[e] \in {"published", "failed"} =>
                               row'[e] = row[e]]_ovars
  BY <1>1
<1> QED
  BY <1>2, RelayInvariant, PTL DEF OSpec, TerminalIsFinal

(* As long as nothing but publishes failed, a lock the relay frees belongs to
   a transaction the broker has never had.  Here no kind of fault is ruled
   out: none has happened yet. *)
THEOREM FreedAreUndelivered == OSpec => []FreedNeverDelivered
<1> DEFINE Inv == faults \in Nat /\ (faults = 0 => RelayInv)
<1>1. OInit => Inv
  BY InitRelayInv DEF OInit
<1>2. Inv /\ [ONext]_ovars => Inv'
  <2> SUFFICES ASSUME Inv, [ONext]_ovars PROVE Inv'
    OBVIOUS
  <2>1. faults' = faults \/ faults' = faults + 1
    BY DEF ONext, RelayStep, RelayWork, ClaimBatch, Start, PublishOk, PublishError,
           MarkPublished, MarkPublishFailure, MarkFailed, ReleaseIdempotency,
           InsertRow, WriteRow, BackoffElapses, ClaimAges, RelayCrash, Relayed,
           Fault, ovars
  <2>2. faults' \in Nat /\ (faults' = 0 => faults = 0)
    BY <2>1
  <2> QED
    BY <2>2, OutboxStepKeeps
<1>3. Inv => FreedNeverDelivered
  <2> SUFFICES ASSUME RelayInv, faults = 0, NEW e \in freed, InTopic(e)
               PROVE  FALSE
    BY DEF FreedNeverDelivered
  <2>1. e \in Events /\ row[e] = "failed"
    BY DEF RelayInv, OTypeOK, Undelivered
  <2>2. \A r \in Relays : task[r][e] # "markPublished"
    BY <2>1 DEF RelayInv, ClaimsHeld
  <2> QED
    BY <2>1, <2>2 DEF RelayInv, Undelivered
<1> QED
  BY <1>1, <1>2, <1>3, PTL DEF OSpec

=============================================================================
