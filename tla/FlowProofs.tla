----------------------------- MODULE FlowProofs -----------------------------
(***************************************************************************)
(* Proofs about TransactionFlow, for any events, accounts, relays,         *)
(* replicas, partitions, retries and number of faults.                     *)
(***************************************************************************)
EXTENDS TransactionFlow, FiniteSetTheorems, TLAPS

(* The failures the lock of an account is made for: publishes that are
   refused, handlers and commits that fail, requests that die and INSERTs that
   are refused.  Redis answers, the lock outlives its transaction, an INSERT
   that failed has left no row, relays run on, and partitions stay where they are: each of the others may deliver a
   message twice or lose a lock, and OneInFlight is then not promised. *)
Orderly ==
    /\ OutboxFaults = {}
    /\ "rebalance" \notin ConsumerFaults
    /\ {"cacheError", "ambiguousInsert", "lockExpires"} \cap FlowFaults = {}

-----------------------------------------------------------------------------
(* The inductive invariant                                                 *)

Delivered(e) == {i \in DOMAIN log[PartitionOf[e]] : log[PartitionOf[e]][i] = e}

(* FTypeOK without the bound on the logs. *)
FlowTyped ==
    /\ O!OTypeOK
    /\ owner \in [Partitions -> Consumers \cup {NoConsumer}]
    /\ position \in [Partitions -> Nat]
    /\ committed \in [Partitions -> Nat]
    /\ cpc \in [Consumers -> {"fetch", "dispatch", "dlq", "commit"}]
    /\ hand \in [Consumers -> (Partitions \X Nat) \cup {NoMessage}]
    /\ handled \subseteq Partitions \X Nat /\ tried \subseteq Partitions \X Nat
    /\ dlq = {}
    /\ request \in [Events -> {"new", "checked", "accepted", "refused"}]
    /\ lock \in [Keys -> Events \cup {NoEvent}]
    /\ status \in [Events -> {"absent", "pending", "completed", "failed"}]

(* A row is in the table once its request is accepted; at most one goroutine
   is at work on it, on a fresh claim or to free its lock; its message is
   delivered when it is published, or about to be called so. *)
RowKnows(e) ==
    /\ request[e] = "accepted" <=> row[e] # "none"
    /\ \A r \in Relays : task[r][e] # "none" =>
          /\ e \notin stale
          /\ row[e] = IF task[r][e] = "release" THEN "failed" ELSE "claimed"
    /\ \A r \in Relays : task[r][e] # "markFailed"
    /\ \A r, q \in Relays : task[r][e] # "none" /\ task[q][e] # "none" => r = q
    /\ \A r \in Relays : task[r][e] = "markPublished" => Delivered(e) # {}
    /\ row[e] = "published" => Delivered(e) # {}
    /\ Delivered(e) # {} =>
          row[e] = "published" \/ \E r \in Relays : task[r][e] = "markPublished"

(* No message is in the topic twice. *)
LogKnows ==
    \A p \in Partitions : \A i \in DOMAIN log[p] :
        /\ PartitionOf[log[p][i]] = p
        /\ \A j \in DOMAIN log[p] : log[p][i] = log[p][j] => i = j

(* A partition keeps its first owner, who goes through it in order; nobody
   sees a message a second time. *)
GroupKnows(p) ==
    /\ position[p] <= Len(log[p]) /\ committed[p] <= position[p]
    /\ owner[p] = NoConsumer => position[p] = 0
    /\ \A i \in Nat : <<p, i>> \in tried \cup handled => 1 <= i /\ i <= position[p]

HandKnows(c) ==
    /\ cpc[c] = "fetch" => hand[c] = NoMessage
    /\ cpc[c] # "fetch" => \E p \in Partitions : \E i \in Nat :
          /\ hand[c] = <<p, i>>
          /\ owner[p] = c
          /\ 1 <= i /\ i <= position[p]
          /\ cpc[c] = "dispatch" => <<p, i>> \notin tried

(* Who still relies on the lock of the account. *)
NeedsLock(e) ==
    \/ request[e] = "checked"
    \/ InFlight(e)
    \/ \E r \in Relays : task[r][e] = "release"

LocksHeld == \A e \in Events : NeedsLock(e) => lock[KeyOf[e]] = e

(* Only what was delivered is recorded, and the outcome is given together with
   the end of the flight. *)
StatusKnows(e) ==
    /\ status[e] # "absent" => Delivered(e) # {}
    /\ status[e] \in {"completed", "failed"} => ~InFlight(e)

FlowInv ==
    /\ FlowTyped
    /\ \A e \in Events : RowKnows(e)
    /\ LogKnows
    /\ \A p \in Partitions : GroupKnows(p)
    /\ \A c \in Consumers : HandKnows(c)
    /\ LocksHeld
    /\ \A e \in Events : StatusKnows(e)

-----------------------------------------------------------------------------
(* What a step shows of SerialTransactions                                 *)

SameFlight(f) ==
    /\ InFlight(f)' <=> InFlight(f)
    /\ row'[f] = "none" <=> row[f] = "none"

Unseen == UNCHANGED status /\ \A f \in Events : SameFlight(f)

Accepts(e) ==
    /\ row[e] = "none" /\ row'[e] # "none" /\ InFlight(e)'
    /\ \A f \in Events : KeyOf[f] = KeyOf[e] => ~InFlight(f)
    /\ \A f \in Events \ {e} : SameFlight(f)
    /\ UNCHANGED status

Records(e) ==
    /\ InFlight(e) /\ status[e] = "absent"
    /\ status' = [status EXCEPT ![e] = "pending"]
    /\ \A f \in Events : SameFlight(f)

Ends(e) ==
    /\ InFlight(e) /\ ~InFlight(e)' /\ row'[e] # "none"
    /\ \A f \in Events \ {e} : SameFlight(f)
    /\ \/ UNCHANGED status
       \/ /\ status[e] = "pending"
          /\ \E outcome \in {"completed", "failed"} :
                status' = [status EXCEPT ![e] = outcome]

Overt == Unseen \/ \E e \in Events : Accepts(e) \/ Records(e) \/ Ends(e)

-----------------------------------------------------------------------------
(* Frames                                                                  *)

(* In flight, in terms of the places of the message. *)
LEMMA FlightIs ==
    \A e : InFlight(e) <=>
        /\ row[e] # "none"
        /\ row[e] = "failed" => Delivered(e) # {}
        /\ \A i \in Delivered(e) : <<PartitionOf[e], i>> \notin tried
BY DEF InFlight, Delivered

(* The same after a step. *)
LEMMA FlightIsNext ==
    \A e : InFlight(e)' <=>
        /\ row'[e] # "none"
        /\ row'[e] = "failed" => Delivered(e)' # {}
        /\ \A i \in Delivered(e)' : <<PartitionOf[e], i>> \notin tried'
BY DEF InFlight, Delivered

(* Whoever needed the lock and still does. *)
LEMMA LockStays ==
    ASSUME LocksHeld, UNCHANGED lock,
           \A f \in Events : NeedsLock(f)' => NeedsLock(f)
    PROVE  LocksHeld'
BY DEF LocksHeld

(* A DEL on behalf of e, who held the lock and needs it no more, takes it away
   from nobody else. *)
LEMMA LockGoes ==
    ASSUME FlowTyped, LocksHeld, NEW e \in Events, lock[KeyOf[e]] = e,
           lock' = [lock EXCEPT ![KeyOf[e]] = NoEvent],
           ~NeedsLock(e)',
           \A f \in Events : f # e => (NeedsLock(f)' => NeedsLock(f))
    PROVE  LocksHeld' /\ lock' \in [Keys -> Events \cup {NoEvent}]
<1>1. lock' \in [Keys -> Events \cup {NoEvent}]
  BY DEF FlowTyped
<1>2. ASSUME NEW f \in Events, NeedsLock(f)' PROVE lock'[KeyOf[f]] = f
  <2>1. f # e /\ lock[KeyOf[f]] = f
    BY <1>2 DEF LocksHeld
  <2>2. KeyOf[f] \in Keys /\ KeyOf[f] # KeyOf[e]
    BY <2>1, FlowAssumption
  <2> QED
    BY <2>1, <2>2 DEF FlowTyped
<1> QED
  BY <1>1, <1>2 DEF LocksHeld

(* Redis answers. *)
LEMMA DelDeletes ==
    ASSUME Orderly, NEW k, Del(k)
    PROVE  lock' = [lock EXCEPT ![k] = NoEvent]
BY DEF Orderly, Del

(* What a replica has in hand stays as it is. *)
LEMMA HandStays ==
    ASSUME NEW c \in Consumers, HandKnows(c),
           UNCHANGED <<owner, position, cpc, hand, tried>>
    PROVE  HandKnows(c)'
BY DEF HandKnows

(* Steps beside the broker and the consumers leave what is known of them. *)
LEMMA TopicStays ==
    ASSUME FlowInv, UNCHANGED <<log, consumerOnly>>
    PROVE  /\ \A f : Delivered(f)' = Delivered(f)
           /\ LogKnows'
           /\ \A p \in Partitions : GroupKnows(p)'
           /\ \A c \in Consumers : HandKnows(c)'
           /\ \A f : row'[f] = row[f] => SameFlight(f)
<1>1. UNCHANGED <<log, owner, position, committed, cpc, hand, handled, tried, dlq>>
  BY DEF consumerOnly
<1>2. \A f : Delivered(f)' = Delivered(f)
  BY <1>1 DEF Delivered
<1>3. LogKnows'
  BY <1>1 DEF FlowInv, LogKnows
<1>4. \A p \in Partitions : GroupKnows(p)'
  BY <1>1 DEF FlowInv, GroupKnows
<1>5. \A c \in Consumers : HandKnows(c)'
  BY <1>1, HandStays DEF FlowInv
<1>6. \A f : row'[f] = row[f] => SameFlight(f)
  BY <1>1, <1>2, FlightIs, FlightIsNext DEF SameFlight
<1> QED
  BY <1>2, <1>3, <1>4, <1>5, <1>6

(* Steps beside the table and the relays leave what is known of a row, if
   they publish nothing. *)
LEMMA RowStays ==
    ASSUME FlowInv, NEW f \in Events, request'[f] = request[f], row'[f] = row[f],
           \A r \in Relays : task'[r][f] = task[r][f],
           f \in stale' => f \in stale,
           Delivered(f)' = Delivered(f)
    PROVE  RowKnows(f)'
BY DEF FlowInv, RowKnows

(* Who needs the lock, by request, flight and goroutine. *)
LEMMA NeedStays ==
    ASSUME NEW f, request'[f] = request[f], InFlight(f)' => InFlight(f),
           \A r \in Relays : task'[r][f] = "release" => task[r][f] = "release"
    PROVE  NeedsLock(f)' => NeedsLock(f)
BY DEF NeedsLock

-----------------------------------------------------------------------------
(* The request                                                             *)

(* A request whose row is not there yet has no message, no goroutine and no
   outcome. *)
LEMMA NotYetThere ==
    ASSUME FlowInv, NEW e \in Events, request[e] # "accepted"
    PROVE  /\ row[e] = "none" /\ Delivered(e) = {} /\ status[e] = "absent"
           /\ ~InFlight(e)
           /\ \A r \in Relays : task[r][e] = "none"
<1>1. row[e] = "none" /\ \A r \in Relays : task[r][e] = "none"
  BY DEF FlowInv, RowKnows
<1>2. Delivered(e) = {}
  BY <1>1 DEF FlowInv, RowKnows
<1> QED
  BY <1>1, <1>2, FlightIs DEF FlowInv, StatusKnows

(* A step of OutboxInsert before the row is written: what remains to be shown
   is that locks are held. *)
LEMMA RequestMoves ==
    ASSUME FlowInv, NEW e \in Events, NEW a \in {"checked", "refused"},
           request[e] \in {"new", "checked"}, Answer(e, a),
           UNCHANGED <<outboxOnly, consumerOnly, status>>,
           faults' \in 0..MaxFaults,
           lock' \in [Keys -> Events \cup {NoEvent}],
           LocksHeld'
    PROVE  FlowInv' /\ Unseen
<1>1. UNCHANGED <<row, created, retries, due, stale, task, log, freed, owner, position,
                  committed, cpc, hand, handled, tried, dlq, status>>
  BY DEF outboxOnly, consumerOnly
<1>2. /\ request' \in [Events -> {"new", "checked", "accepted", "refused"}]
      /\ request'[e] = a
      /\ \A f \in Events : f # e => request'[f] = request[f]
  BY DEF Answer, FlowInv, FlowTyped
<1>3. FlowTyped'
  BY <1>1, <1>2 DEF FlowInv, FlowTyped, O!OTypeOK
<1>4. /\ \A f : Delivered(f)' = Delivered(f)
      /\ LogKnows' /\ \A p \in Partitions : GroupKnows(p)'
      /\ \A c \in Consumers : HandKnows(c)'
      /\ \A f \in Events : SameFlight(f)
  BY <1>1, TopicStays
<1>5. ASSUME NEW f \in Events PROVE RowKnows(f)'
  <2>1. CASE f = e
    BY <2>1, <1>1, <1>2, <1>4 DEF FlowInv, RowKnows
  <2>2. CASE f # e
    BY <2>2, <1>1, <1>2, <1>4, RowStays
  <2> QED
    BY <2>1, <2>2
<1>6. \A f \in Events : StatusKnows(f)'
  BY <1>1, <1>4 DEF FlowInv, StatusKnows, SameFlight
<1> QED
  BY <1>1, <1>3, <1>4, <1>5, <1>6 DEF FlowInv, Unseen

(* The SETNX finds no lock, and so nobody who needs it; or the request is
   refused. *)
LEMMA CheckKeeps ==
    ASSUME Orderly, FlowInv, NEW e \in Events, IdempotencyCheck(e)
    PROVE  FlowInv' /\ Unseen
<1>1. /\ request[e] = "new"
      /\ UNCHANGED <<outboxOnly, consumerOnly, status>> /\ faults' = faults
      /\ \/ lock[KeyOf[e]] = NoEvent /\ lock' = [lock EXCEPT ![KeyOf[e]] = e]
            /\ Answer(e, "checked")
         \/ Answer(e, "refused") /\ UNCHANGED lock
  BY DEF Orderly, IdempotencyCheck, FFault
<1>2. faults' \in 0..MaxFaults /\ KeyOf[e] \in Keys
  BY <1>1, FlowAssumption DEF FlowInv, FlowTyped, O!OTypeOK
<1>3. \A f \in Events : SameFlight(f)
  BY <1>1, TopicStays DEF outboxOnly
<1>4. ASSUME NEW f \in Events, f # e, Answer(e, "checked") \/ Answer(e, "refused")
      PROVE  NeedsLock(f)' => NeedsLock(f)
  <2>1. request'[f] = request[f]
    BY <1>4 DEF Answer, FlowInv, FlowTyped
  <2> QED
    BY <2>1, <1>1, <1>3, NeedStays DEF SameFlight, outboxOnly
<1>5. CASE /\ lock[KeyOf[e]] = NoEvent /\ lock' = [lock EXCEPT ![KeyOf[e]] = e]
           /\ Answer(e, "checked")
  <2>1. lock' \in [Keys -> Events \cup {NoEvent}] /\ lock'[KeyOf[e]] = e
    BY <1>2, <1>5 DEF FlowInv, FlowTyped
  <2>2. ASSUME NEW f \in Events, NeedsLock(f)' PROVE lock'[KeyOf[f]] = f
    <3>1. CASE f = e
      BY <2>1, <3>1
    <3>2. CASE f # e
      <4>1. lock[KeyOf[f]] = f
        BY <1>4, <1>5, <2>2, <3>2 DEF FlowInv, LocksHeld
      <4>2. KeyOf[f] \in Keys /\ KeyOf[f] # KeyOf[e]
        BY <4>1, <1>5, FlowAssumption
      <4> QED
        BY <4>1, <4>2, <1>5 DEF FlowInv, FlowTyped
    <3> QED
      BY <3>1, <3>2
  <2>3. LocksHeld'
    BY <2>2 DEF LocksHeld
  <2> QED
    BY <2>1, <2>3, <1>1, <1>2, <1>5, RequestMoves
<1>6. CASE Answer(e, "refused") /\ UNCHANGED lock
  <2>1. ~NeedsLock(e)'
    <3>1. request'[e] = "refused"
      BY <1>6 DEF Answer, FlowInv, FlowTyped
    <3>2. ~InFlight(e) /\ \A r \in Relays : task[r][e] = "none"
      BY <1>1, NotYetThere
    <3> QED
      BY <3>1, <3>2, <1>1, <1>3 DEF NeedsLock, SameFlight, outboxOnly
  <2>2. LocksHeld'
    BY <2>1, <1>4, <1>6, LockStays DEF FlowInv
  <2> QED
    BY <2>2, <1>1, <1>2, <1>6, RequestMoves DEF FlowInv, FlowTyped
<1> QED
  BY <1>1, <1>5, <1>6

(* The INSERT is refused, and the lock given back by the request that took it;
   or the request dies and leaves the lock to expire. *)
LEMMA RequestEndsKeeps ==
    ASSUME Orderly, FlowInv, NEW e \in Events, InsertOutboxError(e) \/ RequestDies(e)
    PROVE  FlowInv' /\ Unseen
<1>1. /\ request[e] = "checked" /\ Answer(e, "refused")
      /\ UNCHANGED <<outboxOnly, consumerOnly, status>>
      /\ faults < MaxFaults /\ faults' = faults + 1
      /\ lock' = [lock EXCEPT ![KeyOf[e]] = NoEvent] \/ UNCHANGED lock
  BY DelDeletes DEF InsertOutboxError, RequestDies, FFault
<1>2. faults' \in 0..MaxFaults
  BY <1>1, FlowAssumption DEF FlowInv, FlowTyped, O!OTypeOK
<1>3. \A f \in Events : SameFlight(f)
  BY <1>1, TopicStays DEF outboxOnly
<1>4. /\ request'[e] = "refused"
      /\ \A f \in Events : f # e => request'[f] = request[f]
  BY <1>1 DEF Answer, FlowInv, FlowTyped
<1>5. \A f \in Events : f # e => (NeedsLock(f)' => NeedsLock(f))
  BY <1>1, <1>3, <1>4, NeedStays DEF SameFlight, outboxOnly
<1>6. ~NeedsLock(e)'
  <2>1. ~InFlight(e) /\ \A r \in Relays : task[r][e] = "none"
    BY <1>1, NotYetThere
  <2> QED
    BY <2>1, <1>1, <1>3, <1>4 DEF NeedsLock, SameFlight, outboxOnly
<1>7. lock[KeyOf[e]] = e
  BY <1>1 DEF FlowInv, LocksHeld, NeedsLock
<1>8. LocksHeld' /\ lock' \in [Keys -> Events \cup {NoEvent}]
  BY <1>1, <1>5, <1>6, <1>7, LockStays, LockGoes DEF FlowInv, FlowTyped
<1> QED
  BY <1>1, <1>2, <1>8, RequestMoves

(* The row is written under the lock its request has taken. *)
LEMMA InsertKeeps ==
    ASSUME FlowInv, NEW e \in Events, InsertOutbox(e)
    PROVE  FlowInv' /\ Accepts(e)
<1>1. /\ request[e] = "checked" /\ Answer(e, "accepted")
      /\ row' = [row EXCEPT ![e] = "pending"]
      /\ created' = Append(created, e) /\ due' = due \cup {e}
      /\ UNCHANGED <<retries, stale, task, log, freed, faults, lock, status>>
      /\ UNCHANGED consumerOnly
  BY DEF InsertOutbox, O!InsertRow, O!WriteRow
<1>2. /\ row[e] = "none" /\ Delivered(e) = {} /\ status[e] = "absent" /\ ~InFlight(e)
      /\ \A r \in Relays : task[r][e] = "none"
  BY <1>1, NotYetThere
<1>3. /\ row'[e] = "pending" /\ request'[e] = "accepted"
      /\ \A f \in Events : f # e => row'[f] = row[f] /\ request'[f] = request[f]
  BY <1>1 DEF Answer, FlowInv, FlowTyped, O!OTypeOK
<1>4. FlowTyped'
  <2>1. row' \in [Events -> O!RowStates]
    BY <1>1 DEF FlowInv, FlowTyped, O!OTypeOK, O!RowStates
  <2>2. created' \in Seq(Events) /\ due' \subseteq Events
    BY <1>1 DEF FlowInv, FlowTyped, O!OTypeOK
  <2>3. stale' \subseteq {f \in Events : row'[f] = "claimed"}
    BY <1>1, <1>2, <1>3 DEF FlowInv, FlowTyped, O!OTypeOK
  <2>4. O!OTypeOK'
    BY <2>1, <2>2, <2>3, <1>1 DEF FlowInv, FlowTyped, O!OTypeOK
  <2>5. request' \in [Events -> {"new", "checked", "accepted", "refused"}]
    BY <1>1 DEF Answer, FlowInv, FlowTyped
  <2> QED
    BY <2>4, <2>5, <1>1 DEF FlowInv, FlowTyped, consumerOnly
<1>5. /\ \A f : Delivered(f)' = Delivered(f)
      /\ LogKnows' /\ \A p \in Partitions : GroupKnows(p)'
      /\ \A c \in Consumers : HandKnows(c)'
      /\ \A f \in Events : f # e => SameFlight(f)
  BY <1>1, <1>3, TopicStays
<1>6. InFlight(e)'
  BY <1>2, <1>3, <1>5, FlightIsNext
<1>7. ASSUME NEW f \in Events PROVE RowKnows(f)'
  <2>1. CASE f = e
    BY <2>1, <1>1, <1>2, <1>3, <1>5 DEF RowKnows
  <2>2. CASE f # e
    BY <2>2, <1>1, <1>3, <1>5, RowStays
  <2> QED
    BY <2>1, <2>2
<1>8. lock[KeyOf[e]] = e
  BY <1>1 DEF FlowInv, LocksHeld, NeedsLock
<1>9. LocksHeld'
  <2>1. \A f \in Events : f # e => (NeedsLock(f)' => NeedsLock(f))
    BY <1>1, <1>3, <1>5, NeedStays DEF SameFlight
  <2> QED
    BY <2>1, <1>1, <1>8 DEF FlowInv, LocksHeld
<1>10. \A f \in Events : StatusKnows(f)'
  BY <1>1, <1>2, <1>5 DEF FlowInv, StatusKnows, SameFlight
<1>11. Accepts(e)
  <2>1. \A f \in Events : KeyOf[f] = KeyOf[e] => ~InFlight(f)
    BY <1>2, <1>8 DEF FlowInv, LocksHeld, NeedsLock
  <2> QED
    BY <2>1, <1>1, <1>2, <1>3, <1>5, <1>6 DEF Accepts
<1> QED
  BY <1>4, <1>5, <1>7, <1>9, <1>10, <1>11 DEF FlowInv

-----------------------------------------------------------------------------
(* The relays                                                              *)

(* A goroutine is the only one at work on its row; the row is claimed, and its
   message not in the topic unless this goroutine has published it. *)
LEMMA GoroutineState ==
    ASSUME FlowInv, NEW r \in Relays, NEW e \in Events, task[r][e] # "none"
    PROVE  /\ \A q \in Relays : q # r => task[q][e] = "none"
           /\ row[e] # "none" /\ request[e] = "accepted"
           /\ e \notin stale
           /\ task[r][e] # "release" => row[e] = "claimed"
           /\ task[r][e] # "markPublished" => Delivered(e) = {}
           /\ task[r][e] \notin {"markPublished", "release"} => InFlight(e)
<1>1. /\ \A q \in Relays : q # r => task[q][e] = "none"
      /\ row[e] # "none" /\ request[e] = "accepted" /\ e \notin stale
      /\ task[r][e] # "release" => row[e] = "claimed"
      /\ row[e] # "published"
  BY DEF FlowInv, RowKnows
<1>2. task[r][e] # "markPublished" => Delivered(e) = {}
  BY <1>1 DEF FlowInv, RowKnows
<1> QED
  BY <1>1, <1>2, FlightIs

(* A step of a goroutine: what it has to establish about its own row; the
   others are as they were. *)
LEMMA GoroutineMoves ==
    ASSUME FlowInv, NEW r \in Relays, NEW e \in Events, NEW t \in O!TaskStates,
           task[r][e] # "none", O!SetTask(r, e, t),
           O!OTypeOK', UNCHANGED <<consumerOnly, request, status>>,
           lock' \in [Keys -> Events \cup {NoEvent}],
           \A f \in Events : f # e =>
               /\ row'[f] = row[f] /\ (f \in stale' => f \in stale)
               /\ Delivered(f)' = Delivered(f),
           LogKnows', \A p \in Partitions : Len(log[p]) <= Len(log'[p]),
           t # "none" =>
               /\ e \notin stale' /\ t # "markFailed"
               /\ row'[e] = IF t = "release" THEN "failed" ELSE "claimed",
           row'[e] # "none",
           t = "markPublished" \/ row'[e] = "published" <=> Delivered(e)' # {},
           Delivered(e) # {} => Delivered(e)' # {},
           InFlight(e)' => InFlight(e),
           LocksHeld'
    PROVE  /\ FlowInv'
           /\ \A f \in Events : f # e => SameFlight(f)
<1>1. UNCHANGED <<owner, position, committed, cpc, hand, handled, tried, dlq>>
  BY DEF consumerOnly
<1>2. /\ task'[r][e] = t
      /\ \A q \in Relays, f \in Events : q # r \/ f # e => task'[q][f] = task[q][f]
  BY DEF O!SetTask, FlowInv, FlowTyped, O!OTypeOK
<1>3. FlowTyped'
  BY <1>1 DEF FlowInv, FlowTyped
<1>4. \A f \in Events : f # e => SameFlight(f)
  BY <1>1, FlightIs, FlightIsNext DEF SameFlight
<1>5. ASSUME NEW f \in Events PROVE RowKnows(f)'
  <2>1. CASE f = e
    <3>1. \A q \in Relays : q # r => task'[q][e] = "none"
      BY <1>2, GoroutineState
    <3>2. request'[e] = "accepted"
      BY GoroutineState
    <3> QED
      BY <2>1, <3>1, <3>2, <1>2 DEF RowKnows
  <2>2. CASE f # e
    BY <2>2, <1>2, RowStays
  <2> QED
    BY <2>1, <2>2
<1>6. ASSUME NEW p \in Partitions PROVE GroupKnows(p)'
  <2>1. /\ Len(log[p]) \in Nat /\ Len(log'[p]) \in Nat
        /\ position[p] \in Nat /\ committed[p] \in Nat
    BY DEF FlowInv, FlowTyped, O!OTypeOK
  <2> QED
    BY <2>1, <1>1 DEF FlowInv, GroupKnows
<1>7. \A c \in Consumers : HandKnows(c)'
  BY <1>1, HandStays DEF FlowInv
<1>8. ASSUME NEW f \in Events PROVE StatusKnows(f)'
  <2>1. CASE f = e
    BY <2>1 DEF FlowInv, StatusKnows
  <2>2. CASE f # e
    BY <2>2, <1>4 DEF FlowInv, StatusKnows, SameFlight
  <2> QED
    BY <2>1, <2>2
<1> QED
  BY <1>3, <1>4, <1>5, <1>6, <1>7, <1>8 DEF FlowInv

(* A goroutine's next step is a step. *)
LEMMA TaskTyped ==
    ASSUME FlowInv, NEW r \in Relays, NEW e \in Events, NEW t \in O!TaskStates,
           O!SetTask(r, e, t)
    PROVE  /\ task' \in [Relays -> [Events -> O!TaskStates]]
           /\ task'[r][e] = t
           /\ \A q \in Relays, f \in Events : q # r \/ f # e => task'[q][f] = task[q][f]
BY DEF FlowInv, FlowTyped, O!OTypeOK, O!SetTask

(* A goroutine that publishes nothing and leaves its row alone. *)
LEMMA QuietGoroutineKeeps ==
    ASSUME Orderly, FlowInv, NEW r \in Relays, NEW e \in Events,
           O!Start(r, e) \/ O!PublishError(r, e),
           UNCHANGED <<consumerOnly, request, lock, status>>
    PROVE  FlowInv' /\ Unseen
<1>1. PICK t \in {"publish", "markFailure"} :
        /\ O!SetTask(r, e, t)
        /\ task[r][e] \in {"queued", "publish"}
        /\ UNCHANGED <<row, created, retries, due, stale, log, freed, faults>>
  BY DEF Orderly, O!Start, O!PublishError, O!Fault
<1>2. t \in O!TaskStates
  BY <1>1 DEF O!TaskStates
<1>3. O!OTypeOK'
  BY <1>1, <1>2, TaskTyped DEF FlowInv, FlowTyped, O!OTypeOK
<1>4. /\ \A f : Delivered(f)' = Delivered(f)
      /\ LogKnows' /\ \A f \in Events : SameFlight(f)
  BY <1>1, TopicStays
<1>5. row[e] = "claimed" /\ e \notin stale /\ Delivered(e) = {}
  BY <1>1, GoroutineState
<1>6. LocksHeld'
  <2>1. \A q \in Relays, f \in Events : task'[q][f] = "release" => task[q][f] = "release"
    BY <1>1, <1>2, TaskTyped
  <2> QED
    BY <2>1, <1>4, NeedStays, LockStays DEF FlowInv, SameFlight
<1>7. \A p \in Partitions : Len(log[p]) <= Len(log'[p])
  <2>1. \A p \in Partitions : Len(log[p]) \in Nat
    BY DEF FlowInv, FlowTyped, O!OTypeOK
  <2> QED
    BY <2>1, <1>1
<1>8. FlowInv'
  BY <1>1, <1>2, <1>3, <1>4, <1>5, <1>6, <1>7, GoroutineMoves
     DEF FlowInv, FlowTyped, SameFlight
<1> QED
  BY <1>4, <1>8 DEF Unseen

(* A publish puts the message of a row in flight behind everything that was
   fetched, and nowhere else. *)
LEMMA PublishKeeps ==
    ASSUME FlowInv, NEW r \in Relays, NEW e \in Events, O!PublishOk(r, e),
           UNCHANGED <<consumerOnly, request, lock, status>>
    PROVE  FlowInv' /\ Unseen
<1>1. /\ task[r][e] = "publish" /\ O!SetTask(r, e, "markPublished")
      /\ log' = [log EXCEPT ![PartitionOf[e]] = Append(@, e)]
      /\ UNCHANGED <<row, created, retries, due, stale, freed, faults, tried, position>>
  BY DEF O!PublishOk, O!Send, consumerOnly
<1>2. PICK p \in Partitions : p = PartitionOf[e]
  BY FlowAssumption
<1>3. PICK n \in Nat : n = Len(log[p])
  BY DEF FlowInv, FlowTyped, O!OTypeOK
<1>4. log[p] \in Seq(Events)
  BY DEF FlowInv, FlowTyped, O!OTypeOK
<1>5. /\ log'[p] = Append(log[p], e)
      /\ \A q \in Partitions : q # p => log'[q] = log[q]
      /\ log' \in [Partitions -> Seq(Events)]
  BY <1>1, <1>2, <1>4 DEF FlowInv, FlowTyped, O!OTypeOK
<1>6. /\ DOMAIN log'[p] = 1..n + 1 /\ DOMAIN log[p] = 1..n /\ Len(log'[p]) = n + 1
      /\ log'[p][n + 1] = e
      /\ \A i \in 1..n : log'[p][i] = log[p][i]
  BY <1>3, <1>4, <1>5
<1>7. /\ row[e] = "claimed" /\ e \notin stale /\ Delivered(e) = {} /\ InFlight(e)
      /\ row[e] # "none"
  BY <1>1, GoroutineState
<1>8. \A i \in 1..n : log[p][i] # e
  BY <1>2, <1>6, <1>7 DEF Delivered
<1>9. Delivered(e)' = {n + 1}
  <2>1. Delivered(e)' = {i \in 1..n + 1 : log'[p][i] = e}
    BY <1>2, <1>6 DEF Delivered
  <2>2. \A i \in 1..n + 1 : i \in 1..n \/ i = n + 1
    BY <1>3
  <2>3. n + 1 \in 1..n + 1
    BY <1>3
  <2> QED
    BY <2>1, <2>2, <2>3, <1>6, <1>8
<1>10. ASSUME NEW f \in Events, f # e PROVE Delivered(f)' = Delivered(f)
  <2>1. CASE PartitionOf[f] = p
    <3>1. /\ Delivered(f)' = {i \in 1..n + 1 : log'[p][i] = f}
          /\ Delivered(f) = {i \in 1..n : log[p][i] = f}
      BY <2>1, <1>6 DEF Delivered
    <3>2. /\ \A i \in 1..n + 1 : i \in 1..n \/ i = n + 1
          /\ \A i \in 1..n : i \in 1..n + 1
      BY <1>3
    <3> QED
      BY <3>1, <3>2, <1>6, <1>10
  <2>2. CASE PartitionOf[f] # p
    BY <2>2, <1>5, FlowAssumption DEF Delivered
  <2> QED
    BY <2>1, <2>2
<1>11. LogKnows'
  <2>1. ASSUME NEW q \in Partitions, NEW i \in DOMAIN log'[q]
        PROVE  /\ PartitionOf[log'[q][i]] = q
               /\ \A j \in DOMAIN log'[q] : log'[q][i] = log'[q][j] => i = j
    <3>1. CASE q # p
      BY <3>1, <1>5 DEF FlowInv, LogKnows
    <3>2. CASE q = p
      <4>1. \A j \in 1..n + 1 : j \in 1..n \/ j = n + 1
        BY <1>3
      <4>2. \A j \in 1..n : /\ PartitionOf[log[p][j]] = p
                            /\ \A k \in 1..n : log[p][j] = log[p][k] => j = k
        BY <1>6 DEF FlowInv, LogKnows
      <4> QED
        BY <3>2, <4>1, <4>2, <1>2, <1>6, <1>8
    <3> QED
      BY <3>1, <3>2
  <2> QED
    BY <2>1 DEF LogKnows
<1>12. \A q \in Partitions : Len(log[q]) <= Len(log'[q])
  <2>1. \A q \in Partitions : Len(log[q]) \in Nat
    BY DEF FlowInv, FlowTyped, O!OTypeOK
  <2> QED
    BY <2>1, <1>3, <1>5, <1>6
<1>13. InFlight(e)'
  <2>1. <<p, n + 1>> \notin tried
    <3>1. position[p] <= n /\ position[p] \in Nat /\ n + 1 \in Nat
      BY <1>3 DEF FlowInv, FlowTyped, GroupKnows
    <3>2. <<p, n + 1>> \in tried => n + 1 <= position[p]
      BY <3>1 DEF FlowInv, GroupKnows
    <3> QED
      BY <3>1, <3>2
  <2> QED
    BY <2>1, <1>1, <1>2, <1>7, <1>9, FlightIsNext
<1>14. "markPublished" \in O!TaskStates
  BY DEF O!TaskStates
<1>15. O!OTypeOK'
  BY <1>1, <1>5, <1>14, TaskTyped DEF FlowInv, FlowTyped, O!OTypeOK
<1>16. \A f \in Events : SameFlight(f)
  BY <1>1, <1>7, <1>10, <1>13, FlightIs, FlightIsNext DEF SameFlight
<1>17. LocksHeld'
  <2>1. \A q \in Relays, f \in Events : task'[q][f] = "release" => task[q][f] = "release"
    BY <1>1, <1>14, TaskTyped
  <2> QED
    BY <2>1, <1>16, NeedStays, LockStays DEF FlowInv, SameFlight
<1>18. FlowInv'
  BY <1>1, <1>7, <1>9, <1>10, <1>11, <1>12, <1>14, <1>15, <1>17, GoroutineMoves
     DEF FlowInv, FlowTyped
<1> QED
  BY <1>16, <1>18 DEF Unseen

(* An UPDATE of the row of a goroutine, as to the types. *)
LEMMA UpdateTyped ==
    ASSUME FlowInv, NEW e \in Events, NEW s \in O!RowStates, O!Update(e, s)
    PROVE  /\ row' \in [Events -> O!RowStates]
           /\ row'[e] = s
           /\ \A f \in Events : f # e => row'[f] = row[f] /\ (f \in stale' => f \in stale)
           /\ stale' \subseteq {f \in Events : row'[f] = "claimed"}
           /\ e \notin stale'
BY DEF FlowInv, FlowTyped, O!OTypeOK, O!Update

(* The row is called published. *)
LEMMA MarkPublishedKeeps ==
    ASSUME Orderly, FlowInv, NEW r \in Relays, NEW e \in Events, O!MarkPublished(r, e),
           UNCHANGED <<consumerOnly, request, lock, status>>
    PROVE  FlowInv' /\ Unseen
<1>1. /\ task[r][e] = "markPublished" /\ O!SetTask(r, e, "none")
      /\ O!Update(e, "published")
      /\ UNCHANGED <<created, retries, due, log, freed, faults>>
  BY DEF Orderly, O!MarkPublished, O!Fault
<1>2. "none" \in O!TaskStates /\ "published" \in O!RowStates
  BY DEF O!TaskStates, O!RowStates
<1>3. /\ row' \in [Events -> O!RowStates] /\ row'[e] = "published"
      /\ \A f \in Events : f # e => row'[f] = row[f] /\ (f \in stale' => f \in stale)
      /\ stale' \subseteq {f \in Events : row'[f] = "claimed"}
  BY <1>1, <1>2, UpdateTyped
<1>4. O!OTypeOK'
  BY <1>1, <1>2, <1>3, TaskTyped DEF FlowInv, FlowTyped, O!OTypeOK
<1>5. /\ \A f : Delivered(f)' = Delivered(f)
      /\ LogKnows' /\ \A f \in Events : f # e => SameFlight(f)
  BY <1>1, <1>3, TopicStays
<1>6. row[e] = "claimed" /\ Delivered(e) # {}
  BY <1>1, GoroutineState DEF FlowInv, RowKnows
<1>7. SameFlight(e)
  BY <1>3, <1>5, <1>6, FlightIs, FlightIsNext DEF SameFlight, consumerOnly
<1>8. LocksHeld'
  <2>1. \A q \in Relays, f \in Events : task'[q][f] = "release" => task[q][f] = "release"
    BY <1>1, <1>2, TaskTyped
  <2> QED
    BY <2>1, <1>5, <1>7, NeedStays, LockStays DEF FlowInv, SameFlight
<1>9. \A p \in Partitions : Len(log[p]) <= Len(log'[p])
  <2>1. \A p \in Partitions : Len(log[p]) \in Nat
    BY DEF FlowInv, FlowTyped, O!OTypeOK
  <2> QED
    BY <2>1, <1>1
<1>10. FlowInv'
  BY <1>1, <1>2, <1>3, <1>4, <1>5, <1>6, <1>7, <1>8, <1>9, GoroutineMoves
     DEF FlowInv, FlowTyped, SameFlight
<1> QED
  BY <1>5, <1>7, <1>10 DEF Unseen

(* A refused publish: the row goes back, or its flight ends and the goroutine
   still holds the lock it is about to free. *)
LEMMA MarkPublishFailureKeeps ==
    ASSUME Orderly, FlowInv, NEW r \in Relays, NEW e \in Events,
           O!MarkPublishFailure(r, e),
           UNCHANGED <<consumerOnly, request, lock, status>>
    PROVE  FlowInv' /\ (Unseen \/ Ends(e))
<1>1. /\ task[r][e] = "markFailure"
      /\ retries' = [retries EXCEPT ![e] = @ + 1]
      /\ due' = due \ {e}
      /\ UNCHANGED <<created, log, freed, faults>>
  BY DEF Orderly, O!MarkPublishFailure, O!Fault
<1>2. PICK s \in {"failed", "pending"}, t \in {"release", "none"} :
         /\ O!Update(e, s) /\ O!SetTask(r, e, t)
         /\ s = "failed" <=> t = "release"
  BY DEF Orderly, O!MarkPublishFailure, O!Fault, O!AfterFailure
<1>3. t \in O!TaskStates /\ s \in O!RowStates
  BY <1>2 DEF O!TaskStates, O!RowStates
<1>4. /\ row' \in [Events -> O!RowStates] /\ row'[e] = s
      /\ \A f \in Events : f # e => row'[f] = row[f] /\ (f \in stale' => f \in stale)
      /\ stale' \subseteq {f \in Events : row'[f] = "claimed"}
      /\ e \notin stale'
  BY <1>2, <1>3, UpdateTyped
<1>5. O!OTypeOK'
  <2>1. retries' \in [Events -> Nat] /\ due' \subseteq Events
    BY <1>1 DEF FlowInv, FlowTyped, O!OTypeOK
  <2> QED
    BY <2>1, <1>1, <1>2, <1>3, <1>4, TaskTyped DEF FlowInv, FlowTyped, O!OTypeOK
<1>6. /\ \A f : Delivered(f)' = Delivered(f)
      /\ LogKnows' /\ \A f \in Events : f # e => SameFlight(f)
  BY <1>1, <1>4, TopicStays
<1>7. row[e] = "claimed" /\ Delivered(e) = {} /\ InFlight(e)
  BY <1>1, GoroutineState
<1>8. /\ row'[e] # "none" /\ row'[e] # "published"
      /\ s = "pending" => SameFlight(e)
      /\ s = "failed" => ~InFlight(e)'
  BY <1>2, <1>4, <1>6, <1>7, FlightIs, FlightIsNext DEF SameFlight, consumerOnly
<1>9. LocksHeld'
  <2>1. \A q \in Relays, f \in Events :
           f # e /\ task'[q][f] = "release" => task[q][f] = "release"
    BY <1>2, <1>3, TaskTyped
  <2>2. \A f \in Events : f # e => (NeedsLock(f)' => NeedsLock(f))
    BY <2>1, <1>6, NeedStays DEF SameFlight
  <2>3. NeedsLock(e)
    BY <1>7 DEF NeedsLock
  <2> QED
    BY <2>2, <2>3, LockStays DEF FlowInv
<1>10. \A p \in Partitions : Len(log[p]) <= Len(log'[p])
  <2>1. \A p \in Partitions : Len(log[p]) \in Nat
    BY DEF FlowInv, FlowTyped, O!OTypeOK
  <2> QED
    BY <2>1, <1>1
<1>11. FlowInv'
  <2>1. t # "none" => e \notin stale' /\ t # "markFailed" /\ row'[e] = "failed"
    BY <1>2, <1>4
  <2>2. t # "markPublished"
    BY <1>2
  <2> QED
    BY <2>1, <2>2, <1>1, <1>2, <1>3, <1>4, <1>5, <1>6, <1>7, <1>8, <1>9, <1>10,
       GoroutineMoves
       DEF FlowInv, FlowTyped
<1>12. Unseen \/ Ends(e)
  <2>1. CASE s = "pending"
    BY <2>1, <1>6, <1>8 DEF Unseen
  <2>2. CASE s = "failed"
    BY <2>2, <1>6, <1>7, <1>8 DEF Ends
  <2> QED
    BY <2>1, <2>2, <1>2
<1> QED
  BY <1>11, <1>12

(* The lock the goroutine frees is still the one of its own transaction. *)
LEMMA ReleaseKeeps ==
    ASSUME Orderly, FlowInv, NEW r \in Relays, NEW e \in Events, RelayFrees(r, e)
    PROVE  FlowInv' /\ Unseen
<1>1. /\ task[r][e] = "release" /\ O!SetTask(r, e, "none")
      /\ freed' = freed \cup {e}
      /\ lock' = [lock EXCEPT ![KeyOf[e]] = NoEvent]
      /\ UNCHANGED <<row, created, retries, due, stale, log, faults>>
      /\ UNCHANGED <<consumerOnly, request, status>>
  BY DelDeletes DEF RelayFrees, O!ReleaseIdempotency
<1>2. "none" \in O!TaskStates
  BY DEF O!TaskStates
<1>3. /\ task'[r][e] = "none"
      /\ \A q \in Relays, f \in Events : q # r \/ f # e => task'[q][f] = task[q][f]
  BY <1>1, <1>2, TaskTyped
<1>4. O!OTypeOK'
  BY <1>1, <1>2, TaskTyped DEF FlowInv, FlowTyped, O!OTypeOK
<1>5. /\ \A f : Delivered(f)' = Delivered(f)
      /\ LogKnows' /\ \A f \in Events : SameFlight(f)
  BY <1>1, TopicStays
<1>6. /\ Delivered(e) = {} /\ row[e] = "failed" /\ request[e] = "accepted"
      /\ \A q \in Relays : q # r => task[q][e] = "none"
  BY <1>1, GoroutineState DEF FlowInv, RowKnows
<1>7. LocksHeld' /\ lock' \in [Keys -> Events \cup {NoEvent}]
  <2>1. lock[KeyOf[e]] = e
    BY <1>1 DEF FlowInv, LocksHeld, NeedsLock
  <2>2. ~InFlight(e)'
    BY <1>5, <1>6, FlightIs DEF SameFlight
  <2>3. ~NeedsLock(e)'
    BY <2>2, <1>1, <1>3, <1>6 DEF NeedsLock
  <2>4. \A f \in Events : f # e => (NeedsLock(f)' => NeedsLock(f))
    BY <1>1, <1>3, <1>5, NeedStays DEF SameFlight
  <2> QED
    BY <2>1, <2>3, <2>4, <1>1, LockGoes DEF FlowInv
<1>8. \A p \in Partitions : Len(log[p]) <= Len(log'[p])
  <2>1. \A p \in Partitions : Len(log[p]) \in Nat
    BY DEF FlowInv, FlowTyped, O!OTypeOK
  <2> QED
    BY <2>1, <1>1
<1>9. FlowInv'
  BY <1>1, <1>2, <1>4, <1>5, <1>6, <1>7, <1>8, GoroutineMoves DEF SameFlight
<1> QED
  BY <1>1, <1>5, <1>9 DEF Unseen

(* A batch is claimed: rows nobody is at work on and whose message is not in
   the topic. *)
LEMMA ClaimKeeps ==
    ASSUME FlowInv, NEW r \in Relays, O!ClaimBatch(r),
           UNCHANGED <<consumerOnly, request, lock, status>>
    PROVE  FlowInv' /\ Unseen
<1> DEFINE B == O!Batch
<1>1. /\ task[r] = O!Idle
      /\ row' = [e \in Events |-> IF e \in B THEN "claimed"
                   ELSE IF e \in O!Reclaimed THEN "pending" ELSE row[e]]
      /\ stale' = stale \ (O!Reclaimed \cup B)
      /\ task' = [task EXCEPT ![r] =
                     [e \in Events |-> IF e \in B THEN "queued" ELSE "none"]]
      /\ UNCHANGED <<created, retries, due, log, freed, faults>>
  BY DEF O!ClaimBatch, O!TouchedClaims
<1>2. \A e \in B : row[e] = "pending" \/ (row[e] = "claimed" /\ e \in stale)
  BY DEF O!Batch, O!Ready, O!Reclaimed
<1>3. \A e \in O!Reclaimed : row[e] = "claimed" /\ e \in stale
  BY DEF O!Reclaimed
<1>4. B \subseteq Events
  BY DEF O!Batch, O!Ready
<1> HIDE DEF B
<1>5. \A e \in Events : \A q \in Relays :
         task'[q][e] = IF q = r THEN (IF e \in B THEN "queued" ELSE "none")
                       ELSE task[q][e]
  BY <1>1 DEF FlowInv, FlowTyped, O!OTypeOK
<1>6. \A e \in Events : task[r][e] = "none"
  BY <1>1 DEF O!Idle
<1>7. ASSUME NEW e \in Events, row'[e] # row[e] \/ e \in B
      PROVE  /\ row[e] \in {"pending", "claimed"} /\ row'[e] \in {"pending", "claimed"}
             /\ \A q \in Relays : task[q][e] = "none"
             /\ e \notin stale' /\ (e \in B => row'[e] = "claimed")
  <2>1. /\ row'[e] = IF e \in B THEN "claimed"
                     ELSE IF e \in O!Reclaimed THEN "pending" ELSE row[e]
        /\ e \in B \/ e \in O!Reclaimed
    BY <1>1, <1>7
  <2>2. row[e] = "pending" \/ (row[e] = "claimed" /\ e \in stale)
    BY <2>1, <1>2, <1>3
  <2>3. \A q \in Relays : task[q][e] = "none"
    BY <2>2 DEF FlowInv, RowKnows
  <2> QED
    BY <2>1, <2>2, <2>3, <1>1
<1>8. O!OTypeOK'
  <2>1. row' \in [Events -> O!RowStates]
    BY <1>1 DEF FlowInv, FlowTyped, O!OTypeOK, O!RowStates
  <2>2. task' \in [Relays -> [Events -> O!TaskStates]]
    BY <1>1 DEF FlowInv, FlowTyped, O!OTypeOK, O!TaskStates
  <2>3. stale' \subseteq {e \in Events : row'[e] = "claimed"}
    BY <1>1, <1>7 DEF FlowInv, FlowTyped, O!OTypeOK
  <2> QED
    BY <2>1, <2>2, <2>3, <1>1 DEF FlowInv, FlowTyped, O!OTypeOK
<1>9. FlowTyped'
  BY <1>8 DEF FlowInv, FlowTyped, consumerOnly
<1>10. /\ \A f : Delivered(f)' = Delivered(f)
       /\ LogKnows' /\ \A p \in Partitions : GroupKnows(p)'
       /\ \A c \in Consumers : HandKnows(c)'
       /\ \A f : row'[f] = row[f] => SameFlight(f)
  BY <1>1, TopicStays
<1>11. ASSUME NEW f \in Events PROVE SameFlight(f)
  <2>1. CASE row'[f] = row[f]
    BY <2>1, <1>10
  <2>2. CASE row'[f] # row[f]
    BY <2>2, <1>7, <1>10, FlightIs, FlightIsNext DEF SameFlight, consumerOnly
  <2> QED
    BY <2>1, <2>2
<1>12. ASSUME NEW f \in Events PROVE RowKnows(f)'
  <2>1. CASE row'[f] # row[f] \/ f \in B
    <3>1. request[f] = "accepted" /\ Delivered(f) = {}
      BY <2>1, <1>7 DEF FlowInv, RowKnows
    <3> QED
      BY <2>1, <3>1, <1>5, <1>7, <1>10 DEF RowKnows
  <2>2. CASE row'[f] = row[f] /\ f \notin B
    BY <2>2, <1>1, <1>5, <1>6, <1>10, RowStays
  <2> QED
    BY <2>1, <2>2
<1>13. LocksHeld'
  <2>1. \A q \in Relays, f \in Events : task'[q][f] = "release" => task[q][f] = "release"
    BY <1>5
  <2> QED
    BY <2>1, <1>11, NeedStays, LockStays DEF FlowInv, SameFlight
<1>14. \A f \in Events : StatusKnows(f)'
  BY <1>10, <1>11 DEF FlowInv, StatusKnows, SameFlight
<1> QED
  BY <1>9, <1>10, <1>11, <1>12, <1>13, <1>14 DEF FlowInv, Unseen

(* Backoffs end; a claim grows old when nobody is at work on it. *)
LEMMA OutboxTimeKeeps ==
    ASSUME Orderly, FlowInv, OutboxEnvironment
    PROVE  FlowInv' /\ Unseen
<1>1. PICK e \in Events : O!BackoffElapses(e) \/ (O!ClaimAges(e) /\ O!Abandoned(e))
  BY DEF Orderly, OutboxEnvironment, O!ClaimAges, O!RelayCrash, O!Fault
<1>2. /\ UNCHANGED <<row, created, retries, task, log, freed, faults>>
      /\ UNCHANGED <<consumerOnly, request, lock, status>>
      /\ due' \subseteq due \cup {e}
      /\ stale' = stale
            \/ /\ stale' = stale \cup {e} /\ row[e] = "claimed"
               /\ \A r \in Relays : task[r][e] = "none"
  BY <1>1 DEF Orderly, OutboxEnvironment, O!BackoffElapses, O!ClaimAges, O!Abandoned,
              O!Fault
<1>3. O!OTypeOK'
  BY <1>2 DEF FlowInv, FlowTyped, O!OTypeOK
<1>4. FlowTyped'
  BY <1>2, <1>3 DEF FlowInv, FlowTyped, consumerOnly
<1>5. /\ \A f : Delivered(f)' = Delivered(f)
      /\ LogKnows' /\ \A p \in Partitions : GroupKnows(p)'
      /\ \A c \in Consumers : HandKnows(c)'
      /\ \A f \in Events : SameFlight(f)
  BY <1>2, TopicStays
<1>6. \A f \in Events : RowKnows(f)'
  BY <1>2, <1>5 DEF FlowInv, RowKnows
<1>7. LocksHeld'
  BY <1>2, <1>5, NeedStays, LockStays DEF FlowInv, SameFlight
<1>8. \A f \in Events : StatusKnows(f)'
  BY <1>2, <1>5 DEF FlowInv, StatusKnows, SameFlight
<1> QED
  BY <1>2, <1>4, <1>5, <1>6, <1>7, <1>8 DEF FlowInv, Unseen

(* Every step of a relay. *)
LEMMA RelayKeeps ==
    ASSUME Orderly, FlowInv, NEW r \in Relays,
           RelayWorks(r) \/ \E e \in Events : RelayFrees(r, e)
    PROVE  FlowInv' /\ Overt
<1>1. ASSUME NEW e \in Events, RelayFrees(r, e) PROVE FlowInv' /\ Overt
  BY <1>1, ReleaseKeeps DEF Overt
<1>2. CASE RelayWorks(r)
  <2>1. UNCHANGED <<consumerOnly, request, lock, status>> /\ O!RelayWork(r)
    BY <1>2 DEF RelayWorks
  <2>2. CASE O!ClaimBatch(r)
    BY <2>1, <2>2, ClaimKeeps DEF Overt
  <2>3. ASSUME NEW e \in Events,
               \/ O!Start(r, e) \/ O!PublishOk(r, e) \/ O!PublishError(r, e)
               \/ O!MarkPublished(r, e) \/ O!MarkPublishFailure(r, e)
        PROVE  FlowInv' /\ Overt
    BY <2>1, <2>3, QuietGoroutineKeeps, PublishKeeps, MarkPublishedKeeps,
       MarkPublishFailureKeeps
       DEF Overt
  <2>4. \A e \in Events : ~O!MarkFailed(r, e)
    BY DEF O!MarkFailed, FlowInv, RowKnows
  <2> QED
    BY <2>1, <2>2, <2>3, <2>4 DEF O!RelayWork
<1> QED
  BY <1>1, <1>2

-----------------------------------------------------------------------------
(* The replicas, whatever their messages mean                              *)

(* What is known of the consumer group. *)
GroupInv ==
    /\ FlowTyped
    /\ \A p \in Partitions : GroupKnows(p)
    /\ \A c \in Consumers : HandKnows(c)

(* The next message of the partition has not been seen. *)
LEMMA FetchReads ==
    ASSUME GroupInv, NEW c \in Consumers, NEW p \in Partitions, C!FetchMessage(c, p),
           UNCHANGED <<outboxOnly, request, lock, status>>
    PROVE  GroupInv' /\ UNCHANGED <<tried, handled, dlq, faults>>
<1>1. PICK n \in Nat : n = position[p]
  BY DEF GroupInv, FlowTyped
<1>2. /\ cpc[c] = "fetch" /\ owner[p] = c /\ n < Len(log[p])
      /\ position' = [position EXCEPT ![p] = n + 1]
      /\ hand' = [hand EXCEPT ![c] = <<p, n + 1>>]
      /\ cpc' = [cpc EXCEPT ![c] = "dispatch"]
      /\ UNCHANGED <<log, owner, committed, handled, tried, dlq, faults>>
  BY <1>1 DEF C!FetchMessage
<1>3. /\ position' \in [Partitions -> Nat] /\ position'[p] = n + 1
      /\ \A q \in Partitions : q # p => position'[q] = position[q]
      /\ hand' \in [Consumers -> (Partitions \X Nat) \cup {NoMessage}]
      /\ hand'[c] = <<p, n + 1>> /\ cpc'[c] = "dispatch"
      /\ \A d \in Consumers : d # c => cpc'[d] = cpc[d] /\ hand'[d] = hand[d]
      /\ cpc' \in [Consumers -> {"fetch", "dispatch", "dlq", "commit"}]
  BY <1>1, <1>2 DEF GroupInv, FlowTyped
<1>4. /\ Len(log[p]) \in Nat /\ committed[p] \in Nat
      /\ committed[p] <= n
      /\ \A j \in Nat : <<p, j>> \in tried \cup handled => 1 <= j /\ j <= n
  BY <1>1 DEF GroupInv, FlowTyped, O!OTypeOK, GroupKnows
<1>5. owner[p] # NoConsumer
  BY <1>2, FlowAssumption
<1>6. ASSUME NEW q \in Partitions PROVE GroupKnows(q)'
  <2>1. CASE q = p
    BY <2>1, <1>1, <1>2, <1>3, <1>4, <1>5 DEF GroupKnows
  <2>2. CASE q # p
    BY <2>2, <1>2, <1>3 DEF GroupInv, GroupKnows
  <2> QED
    BY <2>1, <2>2
<1>7. ASSUME NEW d \in Consumers PROVE HandKnows(d)'
  <2>1. CASE d = c
    <3>1. n + 1 \in Nat /\ 1 <= n + 1 /\ <<p, n + 1>> \notin tried
      BY <1>1, <1>4
    <3>2. /\ hand'[c] = <<p, n + 1>> /\ owner'[p] = c /\ n + 1 <= position'[p]
          /\ <<p, n + 1>> \notin tried'
      BY <3>1, <1>2, <1>3
    <3>3. \E q \in Partitions : \E i \in Nat :
             /\ hand'[c] = <<q, i>> /\ owner'[q] = c /\ 1 <= i /\ i <= position'[q]
             /\ <<q, i>> \notin tried'
      BY <3>1, <3>2
    <3> QED
      BY <2>1, <3>3, <1>3 DEF HandKnows
  <2>2. CASE d # c /\ cpc[d] # "fetch"
    <3>1. PICK q \in Partitions, j \in Nat :
             /\ hand[d] = <<q, j>> /\ owner[q] = d /\ 1 <= j /\ j <= position[q]
             /\ cpc[d] = "dispatch" => <<q, j>> \notin tried
      BY <2>2 DEF GroupInv, HandKnows
    <3>2. position'[q] = position[q]
      BY <2>2, <3>1, <1>2, <1>3
    <3> QED
      BY <2>2, <3>1, <3>2, <1>2, <1>3 DEF HandKnows
  <2>3. CASE d # c /\ cpc[d] = "fetch"
    BY <2>3, <1>3 DEF GroupInv, HandKnows
  <2> QED
    BY <2>1, <2>2, <2>3
<1>8. /\ faults' \in 0..MaxFaults /\ owner' \in [Partitions -> Consumers \cup {NoConsumer}]
      /\ committed' \in [Partitions -> Nat]
  BY <1>2 DEF GroupInv, FlowTyped, O!OTypeOK
<1> QED
  BY <1>2, <1>3, <1>6, <1>7, <1>8 DEF GroupInv, FlowTyped, O!OTypeOK, outboxOnly

(* The commit, or its failure. *)
LEMMA CommitReads ==
    ASSUME GroupInv, NEW c \in Consumers, C!CommitMessages(c),
           UNCHANGED <<outboxOnly, request, lock, status>>
    PROVE  /\ GroupInv' /\ UNCHANGED <<tried, handled, dlq>>
           /\ faults' = faults \/ (faults < MaxFaults /\ faults' = faults + 1)
<1>1. cpc[c] = "commit"
  BY DEF C!CommitMessages
<1>2. PICK p \in Partitions, i \in Nat :
         hand[c] = <<p, i>> /\ owner[p] = c /\ 1 <= i /\ i <= position[p]
  BY <1>1 DEF GroupInv, HandKnows
<1>3. /\ C!NextMessage(c)
      /\ UNCHANGED <<log, owner, position, handled, tried, dlq>>
      /\ committed' = [committed EXCEPT ![p] = i] \/ UNCHANGED committed
      /\ faults' = faults \/ (faults < MaxFaults /\ faults' = faults + 1)
  BY <1>2 DEF C!CommitMessages, C!OffsetAfter, C!CFault
<1>4. faults' \in 0..MaxFaults
  BY <1>3, FlowAssumption DEF GroupInv, FlowTyped, O!OTypeOK
<1>5. /\ cpc' \in [Consumers -> {"fetch", "dispatch", "dlq", "commit"}]
      /\ hand' \in [Consumers -> (Partitions \X Nat) \cup {NoMessage}]
      /\ cpc'[c] = "fetch" /\ hand'[c] = NoMessage
      /\ \A d \in Consumers : d # c => cpc'[d] = cpc[d] /\ hand'[d] = hand[d]
  BY <1>3 DEF C!NextMessage, GroupInv, FlowTyped
<1>6. /\ committed' \in [Partitions -> Nat]
      /\ committed'[p] = i \/ committed'[p] = committed[p]
      /\ \A q \in Partitions : q # p => committed'[q] = committed[q]
  BY <1>3 DEF GroupInv, FlowTyped
<1>7. ASSUME NEW q \in Partitions PROVE GroupKnows(q)'
  BY <1>2, <1>3, <1>6 DEF GroupInv, GroupKnows
<1>8. ASSUME NEW d \in Consumers PROVE HandKnows(d)'
  BY <1>3, <1>5 DEF GroupInv, HandKnows
<1> QED
  BY <1>3, <1>4, <1>5, <1>6, <1>7, <1>8 DEF GroupInv, FlowTyped, O!OTypeOK, outboxOnly

(* A partition nobody has owned yet finds its owner. *)
LEMMA AssignReads ==
    ASSUME GroupInv, NEW c \in Consumers, NEW p \in Partitions, C!Assign(p, c),
           UNCHANGED <<outboxOnly, request, lock, status>>
    PROVE  GroupInv' /\ UNCHANGED <<tried, handled, dlq, faults>>
<1>1. /\ owner[p] = NoConsumer /\ owner' = [owner EXCEPT ![p] = c]
      /\ position' = [position EXCEPT ![p] = committed[p]]
      /\ UNCHANGED <<log, committed, cpc, hand, handled, tried, dlq, faults>>
  BY DEF C!Assign, C!StartOffset
<1>2. position[p] = 0 /\ committed[p] = 0
  BY <1>1 DEF GroupInv, FlowTyped, GroupKnows
<1>3. position' = position
  BY <1>1, <1>2 DEF GroupInv, FlowTyped
<1>4. /\ owner' \in [Partitions -> Consumers \cup {NoConsumer}] /\ owner'[p] = c
      /\ \A q \in Partitions : q # p => owner'[q] = owner[q]
  BY <1>1 DEF GroupInv, FlowTyped
<1>5. ASSUME NEW q \in Partitions PROVE GroupKnows(q)'
  BY <1>1, <1>2, <1>3, <1>4 DEF GroupInv, GroupKnows
<1>6. ASSUME NEW d \in Consumers PROVE HandKnows(d)'
  <2>1. CASE cpc[d] # "fetch"
    <3>1. PICK q \in Partitions, j \in Nat :
             /\ hand[d] = <<q, j>> /\ owner[q] = d /\ 1 <= j /\ j <= position[q]
             /\ cpc[d] = "dispatch" => <<q, j>> \notin tried
      BY <2>1 DEF GroupInv, HandKnows
    <3>2. owner'[q] = d
      BY <3>1, <1>1, <1>4, FlowAssumption
    <3> QED
      BY <2>1, <3>1, <3>2, <1>1, <1>3 DEF HandKnows
  <2>2. CASE cpc[d] = "fetch"
    BY <2>2, <1>1 DEF GroupInv, HandKnows
  <2> QED
    BY <2>1, <2>2
<1> QED
  BY <1>1, <1>3, <1>4, <1>5, <1>6 DEF GroupInv, FlowTyped, O!OTypeOK, outboxOnly

(* The handler of c returns: the place it held is tried. *)
LEMMA HandlerReads ==
    ASSUME GroupInv, NEW c \in Consumers, cpc[c] = "dispatch",
           UNCHANGED <<outboxOnly, request, owner, position, committed, dlq>>,
           faults' \in 0..MaxFaults,
           tried' = tried \cup {hand[c]}, handled' \subseteq handled \cup {hand[c]},
           \/ cpc' = [cpc EXCEPT ![c] = "commit"] /\ hand' = hand
           \/ C!NextMessage(c),
           lock' \in [Keys -> Events \cup {NoEvent}],
           status' \in [Events -> {"absent", "pending", "completed", "failed"}]
    PROVE  GroupInv'
<1>1. PICK p \in Partitions, i \in Nat :
         /\ hand[c] = <<p, i>> /\ owner[p] = c /\ 1 <= i /\ i <= position[p]
         /\ <<p, i>> \notin tried
  BY DEF GroupInv, HandKnows
<1>2. UNCHANGED <<row, created, retries, due, stale, task, log, freed>>
  BY DEF outboxOnly
<1>3. /\ cpc' \in [Consumers -> {"fetch", "dispatch", "dlq", "commit"}]
      /\ hand' \in [Consumers -> (Partitions \X Nat) \cup {NoMessage}]
      /\ \/ cpc'[c] = "fetch" /\ hand'[c] = NoMessage
         \/ cpc'[c] = "commit" /\ hand'[c] = hand[c]
      /\ \A d \in Consumers : d # c => cpc'[d] = cpc[d] /\ hand'[d] = hand[d]
  BY DEF C!NextMessage, GroupInv, FlowTyped
<1>4. FlowTyped'
  <2>1. O!OTypeOK'
    BY <1>2 DEF GroupInv, FlowTyped, O!OTypeOK
  <2>2. tried' \subseteq Partitions \X Nat /\ handled' \subseteq Partitions \X Nat
    BY <1>1 DEF GroupInv, FlowTyped
  <2> QED
    BY <2>1, <2>2, <1>3 DEF GroupInv, FlowTyped
<1>5. ASSUME NEW q \in Partitions PROVE GroupKnows(q)'
  BY <1>1, <1>2 DEF GroupInv, GroupKnows
<1>6. ASSUME NEW d \in Consumers PROVE HandKnows(d)'
  <2>1. CASE d = c
    BY <2>1, <1>1, <1>3 DEF HandKnows
  <2>2. CASE d # c /\ cpc[d] # "fetch"
    <3>1. PICK q \in Partitions, j \in Nat :
             /\ hand[d] = <<q, j>> /\ owner[q] = d /\ 1 <= j /\ j <= position[q]
             /\ cpc[d] = "dispatch" => <<q, j>> \notin tried
      BY <2>2 DEF GroupInv, HandKnows
    <3>2. q # p
      BY <2>2, <3>1, <1>1
    <3>3. <<q, j>> \in tried' => <<q, j>> \in tried
      BY <3>2, <1>1
    <3> QED
      BY <2>2, <3>1, <3>3, <1>3 DEF HandKnows
  <2>3. CASE d # c /\ cpc[d] = "fetch"
    BY <2>3, <1>3 DEF GroupInv, HandKnows
  <2> QED
    BY <2>1, <2>2, <2>3
<1> QED
  BY <1>4, <1>5, <1>6 DEF GroupInv

-----------------------------------------------------------------------------
(* The consumers and the handler                                           *)

(* The message a handler is given is in flight, and nowhere else. *)
LEMMA InHandFlies ==
    ASSUME FlowInv, NEW c \in Consumers, cpc[c] = "dispatch"
    PROVE  \E e \in Events, p \in Partitions, i \in Nat :
              /\ hand[c] = <<p, i>> /\ owner[p] = c /\ 1 <= i /\ i <= position[p]
              /\ <<p, i>> \notin tried
              /\ InHand(c) = e /\ PartitionOf[e] = p /\ Delivered(e) = {i}
              /\ row[e] \notin {"none", "failed"} /\ InFlight(e)
              /\ request[e] = "accepted"
              /\ \A r \in Relays : task[r][e] # "release"
<1>1. PICK p \in Partitions, i \in Nat :
         /\ hand[c] = <<p, i>> /\ owner[p] = c /\ 1 <= i /\ i <= position[p]
         /\ <<p, i>> \notin tried
  BY DEF FlowInv, HandKnows
<1>2. log[p] \in Seq(Events) /\ position[p] \in Nat /\ position[p] <= Len(log[p])
  BY DEF FlowInv, FlowTyped, O!OTypeOK, GroupKnows
<1>3. i \in DOMAIN log[p]
  BY <1>1, <1>2
<1>4. PICK e \in Events : e = log[p][i]
  BY <1>2, <1>3
<1>5. InHand(c) = e
  BY <1>1, <1>4 DEF InHand
<1>6. PartitionOf[e] = p /\ \A j \in DOMAIN log[p] : log[p][j] = e => j = i
  BY <1>3, <1>4 DEF FlowInv, LogKnows
<1>7. Delivered(e) = {i}
  BY <1>3, <1>4, <1>6 DEF Delivered
<1>8. row[e] = "published" \/ \E r \in Relays : task[r][e] = "markPublished"
  BY <1>7 DEF FlowInv, RowKnows
<1>9. /\ row[e] \notin {"none", "failed"} /\ request[e] = "accepted"
      /\ \A r \in Relays : task[r][e] # "release"
  BY <1>8 DEF FlowInv, RowKnows
<1>10. InFlight(e)
  BY <1>1, <1>6, <1>7, <1>9, FlightIs
<1> QED
  BY <1>1, <1>5, <1>6, <1>7, <1>9, <1>10

(* The handler of c returns: its transaction's flight ends, and with it the
   claim to the lock. *)
LEMMA HandlerReturns ==
    ASSUME FlowInv, NEW c \in Consumers, cpc[c] = "dispatch",
           NEW e \in Events, e = InHand(c),
           UNCHANGED <<outboxOnly, request, owner, position, committed, dlq>>,
           faults' \in 0..MaxFaults,
           tried' = tried \cup {hand[c]}, handled' \subseteq handled \cup {hand[c]},
           \/ cpc' = [cpc EXCEPT ![c] = "commit"] /\ hand' = hand
           \/ C!NextMessage(c),
           lock' = [lock EXCEPT ![KeyOf[e]] = NoEvent] \/ UNCHANGED lock,
           \/ UNCHANGED status
           \/ status[e] # "absent" /\ \E outcome \in {"completed", "failed"} :
                 status' = [status EXCEPT ![e] = outcome]
    PROVE  FlowInv' /\ Ends(e)
<1>1. PICK p \in Partitions, i \in Nat :
         /\ hand[c] = <<p, i>> /\ owner[p] = c /\ 1 <= i /\ i <= position[p]
         /\ <<p, i>> \notin tried
         /\ PartitionOf[e] = p /\ Delivered(e) = {i}
         /\ row[e] \notin {"none", "failed"} /\ InFlight(e)
         /\ request[e] = "accepted"
         /\ \A r \in Relays : task[r][e] # "release"
  BY InHandFlies
<1>2. UNCHANGED <<row, created, retries, due, stale, task, log, freed>>
  BY DEF outboxOnly
<1>3. \A f : Delivered(f)' = Delivered(f)
  BY <1>2 DEF Delivered
<1>4. ~InFlight(e)'
  BY <1>1, <1>3, FlightIsNext
<1>5. ASSUME NEW f \in Events, f # e PROVE SameFlight(f)
  <2>1. \A j \in Delivered(f) : <<PartitionOf[f], j>> # <<p, i>>
    <3>1. i \in DOMAIN log[p] /\ log[p][i] = e
      BY <1>1 DEF Delivered
    <3> QED
      BY <3>1, <1>5 DEF Delivered
  <2>2. \A j \in Delivered(f) : <<PartitionOf[f], j>> \in tried'
                                   <=> <<PartitionOf[f], j>> \in tried
    BY <2>1, <1>1
  <2> QED
    BY <2>2, <1>2, <1>3, FlightIs, FlightIsNext DEF SameFlight
<1>6. lock[KeyOf[e]] = e
  BY <1>1 DEF FlowInv, LocksHeld, NeedsLock
<1>7. LocksHeld' /\ lock' \in [Keys -> Events \cup {NoEvent}]
  <2>1. ~NeedsLock(e)'
    BY <1>1, <1>2, <1>4 DEF NeedsLock
  <2>2. \A f \in Events : f # e => (NeedsLock(f)' => NeedsLock(f))
    BY <1>2, <1>5, NeedStays DEF SameFlight
  <2> QED
    BY <2>1, <2>2, <1>6, LockStays, LockGoes DEF FlowInv, FlowTyped
<1>8. GroupInv'
  <2>1. status' \in [Events -> {"absent", "pending", "completed", "failed"}]
    BY DEF FlowInv, FlowTyped
  <2> QED
    BY <2>1, <1>7, HandlerReads DEF FlowInv, GroupInv
<1>9. \A f \in Events : RowKnows(f)'
  BY <1>2, <1>3, RowStays
<1>10. LogKnows'
  BY <1>2 DEF FlowInv, LogKnows
<1>11. ASSUME NEW f \in Events PROVE StatusKnows(f)'
  <2>1. CASE f = e
    BY <2>1, <1>1, <1>3, <1>4 DEF StatusKnows
  <2>2. CASE f # e
    <3>1. status'[f] = status[f]
      BY <2>2 DEF FlowInv, FlowTyped
    <3> QED
      BY <2>2, <3>1, <1>3, <1>5 DEF FlowInv, StatusKnows, SameFlight
  <2> QED
    BY <2>1, <2>2
<1>12. Ends(e)
  <2>1. status[e] # "absent" => status[e] = "pending"
    BY <1>1 DEF FlowInv, FlowTyped, StatusKnows
  <2> QED
    BY <2>1, <1>1, <1>2, <1>4, <1>5 DEF Ends
<1> QED
  BY <1>7, <1>8, <1>9, <1>10, <1>11, <1>12 DEF FlowInv, GroupInv

(* The ways a handler returns. *)
LEMMA HandlerEndsKeeps ==
    ASSUME Orderly, FlowInv, NEW c \in Consumers,
           HandlerCompletes(c) \/ HandlerFails(c) \/ HandlerReturnsEarly(c)
    PROVE  FlowInv' /\ Overt
<1>1. /\ cpc[c] = "dispatch"
      /\ UNCHANGED <<outboxOnly, request, owner, position, committed, dlq>>
      /\ tried' = tried \cup {hand[c]} /\ handled' \subseteq handled \cup {hand[c]}
      /\ \/ cpc' = [cpc EXCEPT ![c] = "commit"] /\ hand' = hand
         \/ C!NextMessage(c)
  BY DEF HandlerCompletes, HandlerFails, HandlerReturnsEarly, C!DispatchOk,
         C!DispatchError
<1>2. faults' \in 0..MaxFaults
  <2>1. faults' = faults \/ (faults < MaxFaults /\ faults' = faults + 1)
    BY DEF HandlerCompletes, HandlerFails, HandlerReturnsEarly, C!DispatchOk,
           C!DispatchError, C!CFault
  <2> QED
    BY <2>1, FlowAssumption DEF FlowInv, FlowTyped, O!OTypeOK
<1>3. PICK e \in Events : e = InHand(c) /\ InFlight(e)
  BY <1>1, InHandFlies
<1>4. lock' = [lock EXCEPT ![KeyOf[e]] = NoEvent] \/ UNCHANGED lock
  BY <1>3, DelDeletes DEF HandlerCompletes, HandlerFails, HandlerReturnsEarly
<1>5. \/ UNCHANGED status
      \/ status[e] # "absent" /\ \E outcome \in {"completed", "failed"} :
            status' = [status EXCEPT ![e] = outcome]
  <2>1. CASE HandlerCompletes(c)
    <3>1. status[e] # "absent"
      BY <1>3, <2>1 DEF HandlerCompletes
    <3>2. status[e] = "pending"
      BY <1>3, <3>1 DEF FlowInv, FlowTyped, StatusKnows
    <3>3. status' = [status EXCEPT ![e] = "completed"]
      BY <1>3, <2>1, <3>2 DEF HandlerCompletes
    <3> QED
      BY <3>1, <3>3
  <2>2. CASE HandlerFails(c) \/ HandlerReturnsEarly(c)
    BY <1>3, <2>2 DEF HandlerFails, HandlerReturnsEarly
  <2> QED
    BY <2>1, <2>2
<1>6. FlowInv' /\ Ends(e)
  BY <1>1, <1>2, <1>3, <1>4, <1>5, HandlerReturns
<1> QED
  BY <1>6 DEF Overt

(* The pending row of a transaction in flight. *)
LEMMA HandlerRecordsKeeps ==
    ASSUME FlowInv, NEW c \in Consumers, HandlerRecords(c)
    PROVE  FlowInv' /\ Overt
<1>1. cpc[c] = "dispatch" /\ UNCHANGED <<outboxOnly, faults, consumerOnly, request, lock>>
  BY DEF HandlerRecords
<1>2. PICK e \in Events : e = InHand(c) /\ Delivered(e) # {} /\ InFlight(e)
  BY <1>1, InHandFlies
<1>3. status[e] = "absent" /\ status' = [status EXCEPT ![e] = "pending"]
  BY <1>2 DEF HandlerRecords
<1>4. UNCHANGED <<row, created, retries, due, stale, task, log, freed>>
  BY <1>1 DEF outboxOnly
<1>5. /\ \A f : Delivered(f)' = Delivered(f)
      /\ LogKnows' /\ \A p \in Partitions : GroupKnows(p)'
      /\ \A d \in Consumers : HandKnows(d)'
      /\ \A f \in Events : SameFlight(f)
  BY <1>1, <1>4, TopicStays
<1>6. /\ status' \in [Events -> {"absent", "pending", "completed", "failed"}]
      /\ status'[e] = "pending"
      /\ \A f \in Events : f # e => status'[f] = status[f]
  BY <1>3 DEF FlowInv, FlowTyped
<1>7. FlowTyped'
  BY <1>1, <1>4, <1>6 DEF FlowInv, FlowTyped, O!OTypeOK, consumerOnly
<1>8. \A f \in Events : RowKnows(f)'
  BY <1>1, <1>4, <1>5, RowStays
<1>9. LocksHeld'
  BY <1>1, <1>4, <1>5, NeedStays, LockStays DEF FlowInv, SameFlight
<1>10. ASSUME NEW f \in Events PROVE StatusKnows(f)'
  <2>1. CASE f = e
    BY <2>1, <1>2, <1>5, <1>6 DEF StatusKnows
  <2>2. CASE f # e
    BY <2>2, <1>5, <1>6 DEF FlowInv, StatusKnows, SameFlight
  <2> QED
    BY <2>1, <2>2
<1>11. Records(e)
  BY <1>2, <1>3, <1>5 DEF Records
<1> QED
  BY <1>5, <1>7, <1>8, <1>9, <1>10, <1>11 DEF FlowInv, Overt

(* The consumers beside their handlers: nothing of the transactions changes. *)
LEMMA LoopMoves ==
    ASSUME FlowInv, GroupInv',
           UNCHANGED <<outboxOnly, request, lock, status, handled, tried, dlq>>
    PROVE  FlowInv' /\ Unseen
<1>1. UNCHANGED <<row, created, retries, due, stale, task, log, freed>>
  BY DEF outboxOnly
<1>2. \A f : Delivered(f)' = Delivered(f)
  BY <1>1 DEF Delivered
<1>3. \A f \in Events : SameFlight(f)
  BY <1>1, <1>2, FlightIs, FlightIsNext DEF SameFlight
<1>4. \A f \in Events : RowKnows(f)'
  BY <1>1, <1>2, RowStays
<1>5. LogKnows'
  BY <1>1 DEF FlowInv, LogKnows
<1>6. LocksHeld'
  BY <1>1, <1>3, NeedStays, LockStays DEF FlowInv, SameFlight
<1>7. \A f \in Events : StatusKnows(f)'
  BY <1>2, <1>3 DEF FlowInv, StatusKnows, SameFlight
<1> QED
  BY <1>3, <1>4, <1>5, <1>6, <1>7 DEF FlowInv, GroupInv, Unseen

(* Fetching the next message keeps the invariant of the flow. *)
LEMMA FetchKeeps ==
    ASSUME FlowInv, NEW c \in Consumers, NEW p \in Partitions, C!FetchMessage(c, p),
           UNCHANGED <<outboxOnly, request, lock, status>>
    PROVE  FlowInv' /\ Unseen
<1>1. GroupInv' /\ UNCHANGED <<tried, handled, dlq>>
  BY FetchReads DEF FlowInv, GroupInv
<1> QED
  BY <1>1, LoopMoves

(* Neither a commit nor its failure touches a flight. *)
LEMMA CommitKeeps ==
    ASSUME FlowInv, NEW c \in Consumers, C!CommitMessages(c),
           UNCHANGED <<outboxOnly, request, lock, status>>
    PROVE  FlowInv' /\ Unseen
<1>1. GroupInv' /\ UNCHANGED <<tried, handled, dlq>>
  BY CommitReads DEF FlowInv, GroupInv
<1> QED
  BY <1>1, LoopMoves

(* Nor does the assignment of a partition. *)
LEMMA AssignKeeps ==
    ASSUME FlowInv, NEW c \in Consumers, NEW p \in Partitions, C!Assign(p, c),
           UNCHANGED <<outboxOnly, request, lock, status>>
    PROVE  FlowInv' /\ Unseen
<1>1. GroupInv' /\ UNCHANGED <<tried, handled, dlq>>
  BY AssignReads DEF FlowInv, GroupInv
<1> QED
  BY <1>1, LoopMoves

(* A lock expires when nobody relies on it. *)
LEMMA ExpiryKeeps ==
    ASSUME Orderly, FlowInv, NEW k \in Keys, LockExpires(k)
    PROVE  FlowInv' /\ Unseen
<1>1. PICK e : e = lock[k]
  OBVIOUS
<1>2. /\ e # NoEvent /\ ~Busy(e)
      /\ lock' = [lock EXCEPT ![k] = NoEvent]
      /\ UNCHANGED <<outboxOnly, faults, consumerOnly, request, status>>
  BY <1>1 DEF Orderly, LockExpires, FFault
<1>3. UNCHANGED <<row, created, retries, due, stale, task, log, freed>>
  BY <1>2 DEF outboxOnly
<1>4. /\ \A f : Delivered(f)' = Delivered(f)
      /\ LogKnows' /\ \A p \in Partitions : GroupKnows(p)'
      /\ \A c \in Consumers : HandKnows(c)'
      /\ \A f \in Events : SameFlight(f)
  BY <1>2, <1>3, TopicStays
<1>5. lock' \in [Keys -> Events \cup {NoEvent}]
  BY <1>2 DEF FlowInv, FlowTyped
<1>6. FlowTyped'
  BY <1>2, <1>3, <1>5 DEF FlowInv, FlowTyped, O!OTypeOK, consumerOnly
<1>7. \A f \in Events : RowKnows(f)'
  BY <1>2, <1>3, <1>4, RowStays
<1>8. ASSUME NEW f \in Events, NeedsLock(f)' PROVE lock'[KeyOf[f]] = f
  <2>1. NeedsLock(f)
    BY <1>2, <1>3, <1>4, <1>8, NeedStays DEF SameFlight
  <2>2. lock[KeyOf[f]] = f /\ KeyOf[f] \in Keys
    BY <2>1, FlowAssumption DEF FlowInv, LocksHeld
  <2>3. Busy(f)
    BY <2>1 DEF NeedsLock, Busy
  <2>4. KeyOf[f] # k
    BY <2>2, <2>3, <1>1, <1>2
  <2> QED
    BY <2>2, <2>4, <1>2 DEF FlowInv, FlowTyped
<1>9. LocksHeld'
  BY <1>8 DEF LocksHeld
<1>10. \A f \in Events : StatusKnows(f)'
  BY <1>2, <1>4 DEF FlowInv, StatusKnows, SameFlight
<1> QED
  BY <1>2, <1>4, <1>6, <1>7, <1>9, <1>10 DEF FlowInv, Unseen

(* Nothing happens. *)
LEMMA StutterKeeps ==
    ASSUME FlowInv, UNCHANGED fvars
    PROVE  FlowInv' /\ Unseen
<1>1. UNCHANGED <<outboxOnly, faults, consumerOnly, request, lock, status>>
  BY DEF fvars
<1>2. UNCHANGED <<row, created, retries, due, stale, task, log, freed, owner, position,
                  committed, cpc, hand, handled, tried, dlq>>
  BY <1>1 DEF consumerOnly, outboxOnly
<1>3. FlowTyped'
  BY <1>1, <1>2 DEF FlowInv, FlowTyped, O!OTypeOK
<1>4. GroupInv'
  BY <1>1, <1>2, <1>3, TopicStays DEF GroupInv
<1> QED
  BY <1>1, <1>2, <1>4, LoopMoves

(* Every step keeps the invariant and is one that SerialTransactions allows. *)
LEMMA FlowStep ==
    ASSUME Orderly, FlowInv, [FNext]_fvars
    PROVE  FlowInv' /\ Overt
<1>1. ASSUME NEW e \in Events,
             \/ IdempotencyCheck(e) \/ InsertOutbox(e)
             \/ InsertOutboxError(e) \/ InsertOutboxAnswerLost(e) \/ RequestDies(e)
      PROVE  FlowInv' /\ Overt
  <2>1. ~InsertOutboxAnswerLost(e)
    BY DEF Orderly, InsertOutboxAnswerLost, FFault
  <2> QED
    BY <1>1, <2>1, CheckKeeps, InsertKeeps, RequestEndsKeeps DEF Overt
<1>2. ASSUME NEW r \in Relays, RelayWorks(r) \/ \E e \in Events : RelayFrees(r, e)
      PROVE  FlowInv' /\ Overt
  BY <1>2, RelayKeeps
<1>3. CASE OutboxEnvironment
  BY <1>3, OutboxTimeKeeps DEF Overt
<1>4. ASSUME NEW c \in Consumers,
             ConsumerLoop(c) \/ HandlerRecords(c) \/ HandlerCompletes(c)
                 \/ HandlerFails(c) \/ HandlerReturnsEarly(c)
      PROVE  FlowInv' /\ Overt
  <2>1. CASE ConsumerLoop(c)
    BY <2>1, FetchKeeps, CommitKeeps DEF ConsumerLoop, Overt
  <2> QED
    BY <1>4, <2>1, HandlerRecordsKeeps, HandlerEndsKeeps
<1>5. CASE ConsumerEnvironment
  <2>1. PICK p \in Partitions, c \in Consumers :
           C!Assign(p, c) /\ UNCHANGED <<outboxOnly, request, lock, status>>
    BY <1>5 DEF Orderly, ConsumerEnvironment, C!Revoke, C!ConsumerCrash, C!CFault
  <2> QED
    BY <2>1, AssignKeeps DEF Overt
<1>6. ASSUME NEW k \in Keys, LockExpires(k) PROVE FlowInv' /\ Overt
  BY <1>6, ExpiryKeeps DEF Overt
<1>7. CASE Quiet \/ UNCHANGED fvars
  BY <1>7, StutterKeeps DEF Quiet, Overt
<1> QED
  BY <1>1, <1>2, <1>3, <1>4, <1>5, <1>6, <1>7 DEF FNext

(* Nothing is requested yet. *)
LEMMA FlowStarts == FInit => FlowInv
<1> SUFFICES ASSUME FInit PROVE FlowInv
  OBVIOUS
<1>1. /\ row = [e \in Events |-> "none"] /\ created = << >>
      /\ retries = [e \in Events |-> 0] /\ due = {} /\ stale = {} /\ freed = {}
      /\ task = [r \in Relays |-> [e \in Events |-> "none"]]
      /\ log = [p \in Partitions |-> << >>] /\ faults = 0
  BY DEF FInit, O!OInit, O!Idle
<1>2. /\ owner = [p \in Partitions |-> NoConsumer]
      /\ position = [p \in Partitions |-> 0] /\ committed = [p \in Partitions |-> 0]
      /\ cpc = [c \in Consumers |-> "fetch"] /\ hand = [c \in Consumers |-> NoMessage]
      /\ handled = {} /\ tried = {} /\ dlq = {}
  BY DEF FInit, C!CInit
<1>3. /\ request = [e \in Events |-> "new"] /\ lock = [k \in Keys |-> NoEvent]
      /\ status = [e \in Events |-> "absent"]
  BY DEF FInit
<1>4. O!OTypeOK
  BY <1>1, FlowAssumption DEF O!OTypeOK, O!RowStates, O!TaskStates
<1>5. FlowTyped
  BY <1>2, <1>3, <1>4 DEF FlowTyped
<1>6. \A e \in Events : Delivered(e) = {}
  BY <1>1, FlowAssumption DEF Delivered
<1>7. \A e \in Events : RowKnows(e)
  BY <1>1, <1>3, <1>6 DEF RowKnows
<1>8. LogKnows
  BY <1>1 DEF LogKnows
<1>9. \A p \in Partitions : GroupKnows(p)
  BY <1>1, <1>2 DEF GroupKnows
<1>10. \A c \in Consumers : HandKnows(c)
  BY <1>2 DEF HandKnows
<1>11. LocksHeld
  BY <1>1, <1>3, FlightIs DEF LocksHeld, NeedsLock
<1>12. \A e \in Events : StatusKnows(e)
  BY <1>3 DEF StatusKnows
<1> QED
  BY <1>5, <1>7, <1>8, <1>9, <1>10, <1>11, <1>12 DEF FlowInv

(* The invariant holds throughout. *)
LEMMA FlowInvariant == Orderly => (FSpec => []FlowInv)
<1> SUFFICES ASSUME Orderly PROVE FSpec => []FlowInv
  OBVIOUS
<1>1. FlowInv /\ [FNext]_fvars => FlowInv'
  BY FlowStep
<1> QED
  BY <1>1, FlowStarts, PTL DEF FSpec

-----------------------------------------------------------------------------
(* The theorems                                                            *)

(* While a transaction is in flight the lock of its account is its own, for
   any number of requests, accounts, relays and replicas. *)
THEOREM LockCovers == Orderly => (FSpec => []LockCoversFlight)
<1> SUFFICES ASSUME Orderly PROVE FSpec => []LockCoversFlight
  OBVIOUS
<1>1. FlowInv => LockCoversFlight
  BY DEF FlowInv, LocksHeld, NeedsLock, LockCoversFlight
<1> QED
  BY <1>1, FlowInvariant, PTL

(* A row the relay gave up was never recorded by a handler. *)
THEOREM GivenUpStaysUnexecuted == Orderly => (FSpec => []GivenUpIsNotExecuted)
<1> SUFFICES ASSUME Orderly PROVE FSpec => []GivenUpIsNotExecuted
  OBVIOUS
<1>1. FlowInv => GivenUpIsNotExecuted
  BY DEF FlowInv, RowKnows, StatusKnows, GivenUpIsNotExecuted
<1> QED
  BY <1>1, FlowInvariant, PTL

(* No account ever has two transactions in flight. *)
THEOREM AtMostOneInFlight == Orderly => (FSpec => []OneInFlight)
<1> SUFFICES ASSUME Orderly PROVE FSpec => []OneInFlight
  OBVIOUS
<1>1. FlowInv => OneInFlight
  BY DEF FlowInv, LocksHeld, NeedsLock, OneInFlight
<1> QED
  BY <1>1, FlowInvariant, PTL

-----------------------------------------------------------------------------
(* The refinement                                                          *)

(* The phases SerialTransactions sees. *)
Phase == [e \in Events |-> CASE row[e] = "none" -> "none"
                             [] InFlight(e) -> "inFlight"
                             [] OTHER -> "ended"]

(* A phase by the row and the flight. *)
LEMMA PhaseIs ==
    \A e \in Events :
        Phase[e] = IF row[e] = "none" THEN "none"
                   ELSE IF InFlight(e) THEN "inFlight" ELSE "ended"
<1> SUFFICES ASSUME NEW e \in Events
             PROVE  Phase[e] = IF row[e] = "none" THEN "none"
                               ELSE IF InFlight(e) THEN "inFlight" ELSE "ended"
  OBVIOUS
<1>1. InFlight(e) => row[e] # "none"
  BY FlightIs
<1>2. CASE row[e] = "none"
  BY <1>1, <1>2 DEF Phase
<1>3. CASE row[e] # "none" /\ InFlight(e)
  BY <1>3 DEF Phase
<1>4. CASE row[e] # "none" /\ ~InFlight(e)
  BY <1>4 DEF Phase
<1> QED
  BY <1>2, <1>3, <1>4

(* The same after a step. *)
LEMMA PhaseIsNext ==
    \A e \in Events :
        Phase'[e] = IF row'[e] = "none" THEN "none"
                    ELSE IF InFlight(e)' THEN "inFlight" ELSE "ended"
<1> SUFFICES ASSUME NEW e \in Events
             PROVE  Phase'[e] = IF row'[e] = "none" THEN "none"
                                ELSE IF InFlight(e)' THEN "inFlight" ELSE "ended"
  OBVIOUS
<1>1. InFlight(e)' => row'[e] # "none"
  BY FlightIsNext
<1>2. CASE row'[e] = "none"
  BY <1>1, <1>2 DEF Phase
<1>3. CASE row'[e] # "none" /\ InFlight(e)'
  BY <1>3 DEF Phase
<1>4. CASE row'[e] # "none" /\ ~InFlight(e)'
  BY <1>4 DEF Phase
<1> QED
  BY <1>2, <1>3, <1>4

(* Two functions on the events. *)
LEMMA OneChanges ==
    ASSUME NEW F, NEW G, F = [x \in Events |-> F[x]], G = [x \in Events |-> G[x]],
           NEW e \in Events, NEW v, G[e] = v,
           \A f \in Events \ {e} : G[f] = F[f]
    PROVE  G = [F EXCEPT ![e] = v]
OBVIOUS

(* Phases are a function on the events, before and after a step. *)
LEMMA PhaseTyped ==
    /\ Phase = [x \in Events |-> Phase[x]]
    /\ Phase' = [x \in Events |-> Phase'[x]]
BY DEF Phase

(* A transaction whose row and flight are what they were keeps its phase. *)
LEMMA PhaseStays ==
    \A f \in Events : SameFlight(f) => Phase'[f] = Phase[f]
BY PhaseIs, PhaseIsNext DEF SameFlight

(* Accepted, with nothing of the account in flight. *)
LEMMA AcceptIsSerial ==
    ASSUME NEW e \in Events, Accepts(e)
    PROVE  Serial!Accept(e)
<1>1. /\ Phase[e] = "none" /\ Phase'[e] = "inFlight"
      /\ \A f \in Events : KeyOf[f] = KeyOf[e] => Phase[f] # "inFlight"
      /\ \A f \in Events \ {e} : Phase'[f] = Phase[f]
  BY PhaseIs, PhaseIsNext, PhaseStays DEF Accepts
<1>2. Phase' = [Phase EXCEPT ![e] = "inFlight"]
  BY <1>1, PhaseTyped, OneChanges
<1>3. UNCHANGED status
  BY DEF Accepts
<1> QED
  BY <1>1, <1>2, <1>3 DEF Serial!Accept, Phase

(* Recorded in flight. *)
LEMMA RecordIsSerial ==
    ASSUME NEW e \in Events, Records(e)
    PROVE  Serial!Record(e)
<1>1. Phase[e] = "inFlight" /\ \A f \in Events : Phase'[f] = Phase[f]
  BY PhaseIs, PhaseStays, FlightIs DEF Records
<1>2. Phase' = Phase
  BY <1>1, PhaseTyped
<1> QED
  BY <1>1, <1>2 DEF Serial!Record, Phase, Records

(* Ended, with its outcome or without. *)
LEMMA EndIsSerial ==
    ASSUME NEW e \in Events, Ends(e)
    PROVE  Serial!End(e)
<1>1. /\ Phase[e] = "inFlight" /\ Phase'[e] = "ended"
      /\ \A f \in Events \ {e} : Phase'[f] = Phase[f]
  BY PhaseIs, PhaseIsNext, PhaseStays, FlightIs DEF Ends
<1>2. Phase' = [Phase EXCEPT ![e] = "ended"]
  BY <1>1, PhaseTyped, OneChanges
<1> QED
  BY <1>1, <1>2 DEF Serial!End, Phase, Ends

(* The composition implements SerialTransactions: the transactions of an
   account never overlap, and each gets its outcome in the step that ends
   it. *)
THEOREM FlowIsSerial == Orderly => (FSpec => TransactionsAreSerial)
<1> SUFFICES ASSUME Orderly PROVE FSpec => TransactionsAreSerial
  OBVIOUS
<1>1. FInit => Serial!TInit
  <2> SUFFICES ASSUME FInit PROVE Serial!TInit
    OBVIOUS
  <2>1. row = [e \in Events |-> "none"] /\ status = [e \in Events |-> "absent"]
    BY DEF FInit, O!OInit
  <2>2. \A e \in Events : Phase[e] = "none"
    BY <2>1, PhaseIs
  <2>3. Phase = [e \in Events |-> "none"]
    BY <2>2, PhaseTyped
  <2> QED
    BY <2>1, <2>3 DEF Serial!TInit, Phase
<1>2. FlowInv /\ [FNext]_fvars => [Serial!TNext]_(Serial!tvars)
  <2> SUFFICES ASSUME FlowInv, [FNext]_fvars
               PROVE  [Serial!TNext]_(Serial!tvars)
    OBVIOUS
  <2>1. Overt
    BY FlowStep
  <2>2. CASE Unseen
    <3>1. Phase' = Phase
      BY <2>2, PhaseStays, PhaseTyped DEF Unseen
    <3> QED
      BY <2>2, <3>1 DEF Unseen, Serial!tvars, Phase
  <2>3. ASSUME NEW e \in Events, Accepts(e) \/ Records(e) \/ Ends(e)
        PROVE  [Serial!TNext]_(Serial!tvars)
    BY <2>3, AcceptIsSerial, RecordIsSerial, EndIsSerial DEF Serial!TNext
  <2> QED
    BY <2>1, <2>2, <2>3 DEF Overt
<1> QED
  BY <1>1, <1>2, FlowInvariant, PTL DEF FSpec, TransactionsAreSerial, Serial!TSpec

-----------------------------------------------------------------------------
(* The types                                                               *)

(* The logs of the model are long enough for a message of every event: the
   bound MaxLength leaves nothing out. *)
RoomForAll == IsFiniteSet(Events) /\ Cardinality(Events) <= MaxLength

(* A log without repetition is no longer than there are events. *)
LEMMA LogsFit ==
    ASSUME RoomForAll, FlowInv, NEW p \in Partitions
    PROVE  Len(log[p]) <= MaxLength
<1>1. log[p] \in Seq(Events) /\ Len(log[p]) \in Nat
  BY DEF FlowInv, FlowTyped, O!OTypeOK
<1>2. PICK n \in Nat : n = Len(log[p])
  BY <1>1
<1>3. DOMAIN log[p] = 1..n
  BY <1>1, <1>2
<1>4. log[p] \in Injection(1..n, Events)
  <2>1. log[p] \in [1..n -> Events]
    BY <1>1, <1>2
  <2>2. \A i, j \in 1..n : log[p][i] = log[p][j] => i = j
    BY <1>3 DEF FlowInv, LogKnows
  <2> QED
    BY <2>1, <2>2 DEF Injection, IsInjective
<1>5. Cardinality(1..n) <= Cardinality(Events)
  BY <1>4, FS_Injection DEF RoomForAll
<1>6. Cardinality(1..n) = n
  BY <1>2, FS_Interval
<1>7. Cardinality(Events) \in Nat /\ MaxLength \in Nat
  BY FS_CardinalityType, FlowAssumption DEF RoomForAll
<1> QED
  BY <1>2, <1>5, <1>6, <1>7 DEF RoomForAll

(* The composed state is well typed; the row of an accepted request is there,
   and no row before its request has ended. *)
THEOREM FlowIsTyped == Orderly /\ RoomForAll => (FSpec => []FTypeOK)
<1> SUFFICES ASSUME Orderly, RoomForAll PROVE FSpec => []FTypeOK
  OBVIOUS
<1>1. ASSUME FlowInv PROVE FTypeOK
  <2>1. \A p \in Partitions :
           /\ Len(log[p]) <= MaxLength
           /\ position[p] \in 0..MaxLength /\ committed[p] \in 0..MaxLength
    <3> SUFFICES ASSUME NEW p \in Partitions
                 PROVE  /\ Len(log[p]) <= MaxLength
                        /\ position[p] \in 0..MaxLength /\ committed[p] \in 0..MaxLength
      OBVIOUS
    <3>1. /\ Len(log[p]) \in Nat /\ position[p] \in Nat /\ committed[p] \in Nat
          /\ position[p] <= Len(log[p]) /\ committed[p] <= position[p]
      BY <1>1 DEF FlowInv, FlowTyped, O!OTypeOK, GroupKnows
    <3>2. Len(log[p]) <= MaxLength /\ MaxLength \in Nat
      BY <1>1, LogsFit, FlowAssumption
    <3> QED
      BY <3>1, <3>2
  <2>2. \A p \in Partitions, i \in Nat : 1 <= i /\ i <= position[p] => <<p, i>> \in C!Places
    BY <2>1, FlowAssumption DEF C!Places
  <2>3. tried \subseteq C!Places /\ handled \subseteq C!Places /\ dlq \subseteq C!Places
    BY <1>1, <2>2 DEF FlowInv, FlowTyped, GroupKnows
  <2>4. hand \in [Consumers -> C!Places \cup {NoMessage}]
    <3>1. \A c \in Consumers : hand[c] \in C!Places \cup {NoMessage}
      <4> SUFFICES ASSUME NEW c \in Consumers
                   PROVE  hand[c] \in C!Places \cup {NoMessage}
        OBVIOUS
      <4>1. CASE cpc[c] = "fetch"
        BY <1>1, <4>1 DEF FlowInv, HandKnows
      <4>2. CASE cpc[c] # "fetch"
        <5>1. PICK p \in Partitions, i \in Nat :
                 hand[c] = <<p, i>> /\ 1 <= i /\ i <= position[p]
          BY <1>1, <4>2 DEF FlowInv, HandKnows
        <5> QED
          BY <5>1, <2>2
      <4> QED
        BY <4>1, <4>2
    <3> QED
      BY <1>1, <3>1 DEF FlowInv, FlowTyped
  <2>5. C!CTypeOK
    BY <1>1, <2>1, <2>3, <2>4 DEF FlowInv, FlowTyped, O!OTypeOK, C!CTypeOK
  <2> QED
    BY <1>1, <2>5 DEF FlowInv, FlowTyped, RowKnows, FTypeOK
<1> QED
  BY <1>1, FlowInvariant, PTL

-----------------------------------------------------------------------------
(* When locks are lost                                                     *)

(* Relays run on, partitions stay where they are; everything else may fail:
   Redis, PostgreSQL, the answer of the broker, requests, handlers, commits, and
   locks may expire under their transactions. *)
Steady ==
    /\ "crash" \notin OutboxFaults /\ "pause" \notin OutboxFaults
    /\ "rebalance" \notin ConsumerFaults

(* RowKnows when a message may come twice, and the row of a request that was
   told of an error be there. *)
TableKnows(e) ==
    /\ request[e] = "accepted" => row[e] # "none"
    /\ row[e] # "none" => request[e] \in {"accepted", "refused"}
    /\ \A r \in Relays : task[r][e] # "none" =>
          /\ e \notin stale
          /\ row[e] = IF task[r][e] = "release" THEN "failed" ELSE "claimed"
    /\ \A r \in Relays : task[r][e] # "markFailed"
    /\ \A r, q \in Relays : task[r][e] # "none" /\ task[q][e] # "none" => r = q
    /\ \A r \in Relays : task[r][e] = "markPublished" => Delivered(e) # {}
    /\ row[e] = "published" => Delivered(e) # {}
    /\ Delivered(e) # {} => row[e] # "none"

(* Every message is in the partition of its key. *)
LogSorted == \A p \in Partitions : \A i \in DOMAIN log[p] : PartitionOf[log[p][i]] = p

(* What the request or the relay still has to do with e. *)
Open(e) ==
    \/ request[e] = "checked"
    \/ row[e] \in {"pending", "claimed"} /\ \A r \in Relays : task[r][e] # "markPublished"
    \/ \E r \in Relays : task[r][e] = "release"

(* Each ticket stands for one release of a lock still to come: place 0 for the
   request or the relay, a place in the log for the handler of the message
   there. *)
Ticket(e, i) ==
    \/ i = 0 /\ Open(e)
    \/ i \in Delivered(e) /\ <<PartitionOf[e], i>> \notin tried

Tickets(k) == {t \in Events \X Nat : KeyOf[t[1]] = k /\ Ticket(t[1], t[2])}

(* The lock is held by a transaction that has not released it yet. *)
LockFresh(k) ==
    /\ lock[k] \in Events /\ KeyOf[lock[k]] = k
    /\ \E i \in Nat : Ticket(lock[k], i)
    /\ \A i \in Delivered(lock[k]) : <<PartitionOf[lock[k]], i>> \notin tried

Counted(k) ==
    /\ IsFiniteSet(Tickets(k))
    /\ Cardinality(Tickets(k)) <= faults + (IF LockFresh(k) THEN 1 ELSE 0)

SteadyInv ==
    /\ FlowTyped
    /\ \A e \in Events : TableKnows(e)
    /\ LogSorted
    /\ \A p \in Partitions : GroupKnows(p)
    /\ \A c \in Consumers : HandKnows(c)

(* The tickets of f are what they were. *)
SameTickets(f) ==
    /\ Open(f)' <=> Open(f)
    /\ Delivered(f)' = Delivered(f)
    /\ \A i \in Delivered(f) :
          <<PartitionOf[f], i>> \in tried' <=> <<PartitionOf[f], i>> \in tried

-----------------------------------------------------------------------------
(* Counting                                                                *)

(* Tickets given back, tickets used, tickets handed out. *)
LEMMA TicketsCounted ==
    ASSUME NEW S, NEW T, IsFiniteSet(S), NEW t, NEW u
    PROVE  /\ T \subseteq S => IsFiniteSet(T) /\ Cardinality(T) <= Cardinality(S)
           /\ T \subseteq S \cup {u} => IsFiniteSet(T) /\ Cardinality(T) <= Cardinality(S) + 1
           /\ t \in S /\ T \subseteq S \ {t} =>
                 IsFiniteSet(T) /\ Cardinality(T) <= Cardinality(S) - 1
           /\ t \in S /\ T \subseteq (S \ {t}) \cup {u} =>
                 IsFiniteSet(T) /\ Cardinality(T) <= Cardinality(S)
<1>1. Cardinality(S) \in Nat
  BY FS_CardinalityType
<1>2. ASSUME NEW A, IsFiniteSet(A), T \subseteq A
      PROVE  IsFiniteSet(T) /\ Cardinality(T) <= Cardinality(A)
  BY <1>2, FS_Subset
<1>3. IsFiniteSet(S \cup {u}) /\ Cardinality(S \cup {u}) <= Cardinality(S) + 1
  BY <1>1, FS_AddElement
<1>4. ASSUME t \in S PROVE IsFiniteSet(S \ {t}) /\ Cardinality(S \ {t}) = Cardinality(S) - 1
  BY <1>4, FS_RemoveElement
<1>5. ASSUME t \in S
      PROVE  /\ IsFiniteSet((S \ {t}) \cup {u})
             /\ Cardinality((S \ {t}) \cup {u}) <= Cardinality(S)
  <2>1. /\ IsFiniteSet((S \ {t}) \cup {u})
        /\ Cardinality((S \ {t}) \cup {u}) = IF u \in S \ {t} THEN Cardinality(S \ {t})
                                            ELSE Cardinality(S \ {t}) + 1
    BY <1>4, <1>5, FS_AddElement
  <2> QED
    BY <2>1, <1>1, <1>4, <1>5
<1>6. IsFiniteSet(T) => Cardinality(T) \in Nat
  BY FS_CardinalityType
<1>7. T \subseteq S => IsFiniteSet(T) /\ Cardinality(T) <= Cardinality(S)
  BY <1>2
<1>8. ASSUME T \subseteq S \cup {u}
      PROVE  IsFiniteSet(T) /\ Cardinality(T) <= Cardinality(S) + 1
  <2>1. IsFiniteSet(T) /\ Cardinality(T) <= Cardinality(S \cup {u})
    BY <1>2, <1>3, <1>8
  <2>2. Cardinality(S \cup {u}) \in Nat
    BY <1>3, FS_CardinalityType
  <2> QED
    BY <2>1, <2>2, <1>1, <1>3, <1>6
<1>9. ASSUME t \in S, T \subseteq S \ {t}
      PROVE  IsFiniteSet(T) /\ Cardinality(T) <= Cardinality(S) - 1
  BY <1>2, <1>4, <1>9
<1>10. ASSUME t \in S, T \subseteq (S \ {t}) \cup {u}
       PROVE  IsFiniteSet(T) /\ Cardinality(T) <= Cardinality(S)
  <2>1. IsFiniteSet(T) /\ Cardinality(T) <= Cardinality((S \ {t}) \cup {u})
    BY <1>2, <1>5, <1>10
  <2>2. Cardinality((S \ {t}) \cup {u}) \in Nat
    BY <1>5, <1>10, FS_CardinalityType
  <2> QED
    BY <2>1, <2>2, <1>1, <1>5, <1>6, <1>10
<1> QED
  BY <1>7, <1>8, <1>9, <1>10

(* How a step may change the tickets of an account, and what it costs. *)
LEMMA CountKept ==
    ASSUME NEW k, Counted(k), faults \in Nat, faults' \in Nat, NEW t, NEW u,
           \/ /\ Tickets(k)' \subseteq Tickets(k) /\ faults <= faults'
              /\ LockFresh(k) => LockFresh(k)'
           \/ Tickets(k)' \subseteq Tickets(k) /\ faults' = faults + 1
           \/ /\ t \in Tickets(k) /\ Tickets(k)' \subseteq Tickets(k) \ {t}
              /\ faults <= faults'
           \/ /\ Tickets(k)' \subseteq Tickets(k) \cup {u} /\ faults' = faults + 1
              /\ LockFresh(k) => LockFresh(k)'
           \/ /\ Tickets(k)' \subseteq Tickets(k) \cup {u} /\ faults <= faults'
              /\ ~LockFresh(k) /\ LockFresh(k)'
           \/ /\ t \in Tickets(k) /\ Tickets(k)' \subseteq (Tickets(k) \ {t}) \cup {u}
              /\ faults <= faults' /\ (LockFresh(k) => LockFresh(k)')
    PROVE  Counted(k)'
<1>1. PICK S : S = Tickets(k)
  OBVIOUS
<1>2. PICK T : T = Tickets(k)'
  OBVIOUS
<1>3. /\ IsFiniteSet(S) /\ Cardinality(S) \in Nat
      /\ Cardinality(S) <= faults + (IF LockFresh(k) THEN 1 ELSE 0)
  BY <1>1, FS_CardinalityType DEF Counted
<1>4. /\ T \subseteq S => IsFiniteSet(T) /\ Cardinality(T) <= Cardinality(S)
      /\ T \subseteq S \cup {u} => IsFiniteSet(T) /\ Cardinality(T) <= Cardinality(S) + 1
      /\ t \in S /\ T \subseteq S \ {t} =>
            IsFiniteSet(T) /\ Cardinality(T) <= Cardinality(S) - 1
      /\ t \in S /\ T \subseteq (S \ {t}) \cup {u} =>
            IsFiniteSet(T) /\ Cardinality(T) <= Cardinality(S)
  BY <1>3, TicketsCounted
<1>5. IsFiniteSet(T) => Cardinality(T) \in Nat
  BY FS_CardinalityType
<1>6. /\ IsFiniteSet(T)
      /\ Cardinality(T) <= faults' + (IF LockFresh(k)' THEN 1 ELSE 0)
  <2>1. PICK a \in BOOLEAN : a <=> LockFresh(k)
    OBVIOUS
  <2>2. PICK b \in BOOLEAN : b <=> LockFresh(k)'
    OBVIOUS
  <2>3. PICK n \in Nat : n = Cardinality(S)
    BY <1>3
  <2>4. n <= faults + (IF a THEN 1 ELSE 0)
    BY <1>3, <2>1, <2>3
  <2>5. /\ IsFiniteSet(T)
        /\ \/ Cardinality(T) <= n /\ faults <= faults' /\ (a => b)
           \/ Cardinality(T) <= n /\ faults' = faults + 1
           \/ Cardinality(T) <= n - 1 /\ faults <= faults'
           \/ Cardinality(T) <= n + 1 /\ faults' = faults + 1 /\ (a => b)
           \/ Cardinality(T) <= n + 1 /\ faults <= faults' /\ ~a /\ b
    BY <1>1, <1>2, <1>4, <2>1, <2>2, <2>3
  <2>6. PICK m \in Nat : m = Cardinality(T)
    BY <2>5, <1>5
  <2>7. m <= faults' + (IF b THEN 1 ELSE 0)
    BY <2>4, <2>5, <2>6
  <2> QED
    BY <2>2, <2>5, <2>6, <2>7
<1> QED
  BY <1>2, <1>6 DEF Counted

(* Nobody's tickets of the account change, nor its lock. *)
LEMMA TicketsStay ==
    ASSUME NEW k \in Keys, lock'[k] = lock[k],
           \A f \in Events : KeyOf[f] = k => SameTickets(f)
    PROVE  Tickets(k)' = Tickets(k) /\ (LockFresh(k)' <=> LockFresh(k))
<1>1. ASSUME NEW f \in Events, KeyOf[f] = k, NEW i \in Nat
      PROVE  Ticket(f, i)' <=> Ticket(f, i)
  BY <1>1 DEF SameTickets, Ticket
<1>2. Tickets(k)' = Tickets(k)
  BY <1>1 DEF Tickets
<1>3. ASSUME NEW f \in Events, KeyOf[f] = k, f = lock[k]
      PROVE  LockFresh(k)' <=> LockFresh(k)
  <2>1. \A i \in Delivered(f) : <<PartitionOf[f], i>> \in tried'
                                   <=> <<PartitionOf[f], i>> \in tried
    BY <1>3 DEF SameTickets
  <2>2. Delivered(f)' = Delivered(f)
    BY <1>3 DEF SameTickets
  <2>3. Delivered(lock[k])' = Delivered(f)' /\ Delivered(lock[k]) = Delivered(f)
    BY <1>3 DEF Delivered
  <2>4. \A i \in Nat : /\ Ticket(lock[k], i)' <=> Ticket(f, i)'
                       /\ Ticket(lock[k], i) <=> Ticket(f, i)
    BY <1>3, <2>3 DEF Ticket, Open
  <2> QED
    BY <1>1, <1>3, <2>1, <2>2, <2>3, <2>4 DEF LockFresh
<1> QED
  BY <1>2, <1>3 DEF LockFresh

(* A step that changes no ticket and no lock. *)
LEMMA QuietCount ==
    ASSUME \A f \in Events : SameTickets(f), UNCHANGED lock,
           faults \in Nat, faults' \in Nat, faults <= faults',
           \A k \in Keys : Counted(k)
    PROVE  \A k \in Keys : Counted(k)'
<1> SUFFICES ASSUME NEW k \in Keys PROVE Counted(k)'
  OBVIOUS
<1>1. Tickets(k)' \subseteq Tickets(k) /\ (LockFresh(k) => LockFresh(k)')
  BY TicketsStay
<1> QED
  BY <1>1, CountKept

(* A step of one transaction: the other accounts are as they were. *)
LEMMA OthersCount ==
    ASSUME NEW e \in Events, \A f \in Events : f # e => SameTickets(f),
           \A k \in Keys : k # KeyOf[e] => lock'[k] = lock[k],
           faults \in Nat, faults' \in Nat, faults <= faults',
           \A k \in Keys : Counted(k), Counted(KeyOf[e])'
    PROVE  \A k \in Keys : Counted(k)'
<1> SUFFICES ASSUME NEW k \in Keys PROVE Counted(k)'
  OBVIOUS
<1>1. CASE k = KeyOf[e]
  BY <1>1 DEF Counted, Tickets, LockFresh, Ticket, Open, Delivered
<1>2. CASE k # KeyOf[e]
  <2>1. Tickets(k)' \subseteq Tickets(k) /\ (LockFresh(k) => LockFresh(k)')
    BY <1>2, TicketsStay
  <2> QED
    BY <2>1, CountKept
<1> QED
  BY <1>1, <1>2

(* The tickets of an account after a step of one of its transactions. *)
LEMMA TicketsOfOne ==
    ASSUME NEW e \in Events, \A f \in Events : f # e => SameTickets(f),
           NEW k \in Keys, k = KeyOf[e]
    PROVE  /\ \A f \in Events, i \in Nat :
                 <<f, i>> \in Tickets(k) <=> KeyOf[f] = k /\ Ticket(f, i)
           /\ \A x \in Tickets(k)' : \E f \in Events, i \in Nat :
                 /\ x = <<f, i>> /\ Ticket(f, i)'
                 /\ f # e => x \in Tickets(k)
<1>1. \A f \in Events, i \in Nat : <<f, i>> \in Tickets(k) <=> KeyOf[f] = k /\ Ticket(f, i)
  BY DEF Tickets
<1>2. ASSUME NEW x \in Tickets(k)'
      PROVE  \E f \in Events, i \in Nat :
                 /\ x = <<f, i>> /\ Ticket(f, i)'
                 /\ f # e => x \in Tickets(k)
  <2>1. PICK f \in Events, i \in Nat : x = <<f, i>> /\ KeyOf[f] = k /\ Ticket(f, i)'
    BY DEF Tickets
  <2>2. f # e => Ticket(f, i)
    BY <2>1 DEF SameTickets, Ticket
  <2> QED
    BY <2>1, <2>2, <1>1
<1> QED
  BY <1>1, <1>2

(* A transaction uses a ticket, or gives one back in a fault. *)
LEMMA TicketGone ==
    ASSUME NEW e \in Events, \A f \in Events : f # e => SameTickets(f),
           NEW k \in Keys, k = KeyOf[e], Counted(k),
           faults \in Nat, faults' \in Nat, faults <= faults',
           \A i \in Nat : Ticket(e, i)' => Ticket(e, i),
           \/ faults' = faults + 1
           \/ \E j \in Nat : Ticket(e, j) /\ ~Ticket(e, j)'
    PROVE  Counted(k)'
<1>1. Tickets(k)' \subseteq Tickets(k)
  BY TicketsOfOne
<1>2. CASE faults' = faults + 1
  BY <1>1, <1>2, CountKept
<1>3. ASSUME NEW j \in Nat, Ticket(e, j), ~Ticket(e, j)' PROVE Counted(k)'
  <2>1. <<e, j>> \in Tickets(k)
    BY <1>3, TicketsOfOne
  <2>2. <<e, j>> \notin Tickets(k)'
    <3>1. ASSUME NEW f \in Events, NEW i \in Nat, <<e, j>> = <<f, i>>, Ticket(f, i)'
          PROVE  FALSE
      BY <3>1, <1>3
    <3> QED
      BY <3>1, TicketsOfOne
  <2> QED
    BY <1>1, <2>1, <2>2, CountKept
<1> QED
  BY <1>2, <1>3

(* A transaction gets a ticket, for a fault or with the lock, or one in place
   of another. *)
LEMMA TicketTaken ==
    ASSUME NEW e \in Events, \A f \in Events : f # e => SameTickets(f),
           NEW k \in Keys, k = KeyOf[e], Counted(k),
           faults \in Nat, faults' \in Nat, faults <= faults', NEW n \in Nat,
           \A i \in Nat : Ticket(e, i)' => Ticket(e, i) \/ i = n,
           \/ faults' = faults + 1 /\ (LockFresh(k) => LockFresh(k)')
           \/ ~LockFresh(k) /\ LockFresh(k)'
           \/ /\ LockFresh(k) => LockFresh(k)'
              /\ \E j \in Nat : Ticket(e, j) /\ ~Ticket(e, j)'
    PROVE  Counted(k)'
<1>1. Tickets(k)' \subseteq Tickets(k) \cup {<<e, n>>}
  BY TicketsOfOne
<1>2. CASE \/ faults' = faults + 1 /\ (LockFresh(k) => LockFresh(k)')
           \/ ~LockFresh(k) /\ LockFresh(k)'
  BY <1>1, <1>2, CountKept
<1>3. ASSUME NEW j \in Nat, Ticket(e, j), ~Ticket(e, j)', LockFresh(k) => LockFresh(k)'
      PROVE  Counted(k)'
  <2>1. <<e, j>> \in Tickets(k)
    BY <1>3, TicketsOfOne
  <2>2. <<e, j>> \notin Tickets(k)'
    <3>1. ASSUME NEW f \in Events, NEW i \in Nat, <<e, j>> = <<f, i>>, Ticket(f, i)'
          PROVE  FALSE
      BY <3>1, <1>3
    <3> QED
      BY <3>1, TicketsOfOne
  <2>3. Tickets(k)' \subseteq (Tickets(k) \ {<<e, j>>}) \cup {<<e, n>>}
    BY <1>1, <2>2
  <2> QED
    BY <2>1, <2>3, <1>3, CountKept
<1> QED
  BY <1>2, <1>3

(* A fresh lock stays fresh while its holder has a ticket and no handler. *)
LEMMA FreshStays ==
    ASSUME NEW e \in Events, \A f \in Events : f # e => SameTickets(f),
           NEW k \in Keys, lock'[k] = lock[k], LockFresh(k),
           lock[k] = e =>
               /\ \E i \in Nat : Ticket(e, i)'
               /\ \A i \in Delivered(e)' : <<PartitionOf[e], i>> \notin tried'
    PROVE  LockFresh(k)'
<1>1. PICK f \in Events : f = lock[k] /\ KeyOf[f] = k
  BY DEF LockFresh
<1>2. /\ \E i \in Nat : Ticket(f, i)
      /\ \A i \in Delivered(f) : <<PartitionOf[f], i>> \notin tried
  BY <1>1 DEF LockFresh
<1>3. /\ \E i \in Nat : Ticket(f, i)'
      /\ \A i \in Delivered(f)' : <<PartitionOf[f], i>> \notin tried'
  <2>1. CASE f = e
    BY <1>1, <2>1 DEF Ticket, Open, Delivered
  <2>2. CASE f # e
    BY <2>2, <1>2 DEF SameTickets, Ticket
  <2> QED
    BY <2>1, <2>2
<1>4. lock'[k] = f
  BY <1>1
<1> QED
  BY <1>1, <1>3, <1>4 DEF LockFresh, Ticket, Open, Delivered

-----------------------------------------------------------------------------
(* What the invariant says, and what leaves it alone                       *)

(* Faults only grow. *)
LEMMA FaultsGrow ==
    ASSUME FlowTyped, faults' = faults \/ (faults < MaxFaults /\ faults' = faults + 1)
    PROVE  faults' \in 0..MaxFaults /\ faults \in Nat /\ faults' \in Nat /\ faults <= faults'
BY FlowAssumption DEF FlowTyped, O!OTypeOK

(* Steps beside the broker and the consumers leave what is known of them. *)
LEMMA BrokerStays ==
    ASSUME SteadyInv, UNCHANGED <<log, consumerOnly>>
    PROVE  /\ \A f : Delivered(f)' = Delivered(f)
           /\ LogSorted'
           /\ \A p \in Partitions : GroupKnows(p)'
           /\ \A c \in Consumers : HandKnows(c)'
           /\ tried' = tried
<1>1. UNCHANGED <<log, owner, position, committed, cpc, hand, handled, tried, dlq>>
  BY DEF consumerOnly
<1>2. \A f : Delivered(f)' = Delivered(f)
  BY <1>1 DEF Delivered
<1>3. LogSorted'
  BY <1>1 DEF SteadyInv, LogSorted
<1>4. \A p \in Partitions : GroupKnows(p)'
  BY <1>1 DEF SteadyInv, GroupKnows
<1>5. \A c \in Consumers : HandKnows(c)'
  BY <1>1, HandStays DEF SteadyInv
<1> QED
  BY <1>1, <1>2, <1>3, <1>4, <1>5

(* Steps beside the table and the relays leave what is known of a row. *)
LEMMA TableStays ==
    ASSUME NEW f \in Events, TableKnows(f), request'[f] = request[f], row'[f] = row[f],
           \A r \in Relays : task'[r][f] = task[r][f],
           f \in stale' => f \in stale,
           Delivered(f)' = Delivered(f)
    PROVE  TableKnows(f)' /\ (Open(f)' <=> Open(f))
<1>1. TableKnows(f)'
  BY DEF TableKnows
<1> QED
  BY <1>1 DEF Open

(* A request whose row is not there yet has no message and no goroutine. *)
LEMMA NoRowYet ==
    ASSUME SteadyInv, NEW e \in Events, request[e] \in {"new", "checked"}
    PROVE  /\ row[e] = "none" /\ Delivered(e) = {}
           /\ \A r \in Relays : task[r][e] = "none"
           /\ Open(e) <=> request[e] = "checked"
<1>1. row[e] = "none" /\ \A r \in Relays : task[r][e] = "none"
  BY DEF SteadyInv, TableKnows
<1>2. Delivered(e) = {}
  BY <1>1 DEF SteadyInv, TableKnows
<1> QED
  BY <1>1, <1>2 DEF Open

-----------------------------------------------------------------------------
(* The request                                                             *)

(* A step of OutboxInsert before the row is written. *)
LEMMA RequestTickets ==
    ASSUME SteadyInv, NEW e \in Events, NEW a \in {"checked", "refused"},
           request[e] \in {"new", "checked"}, Answer(e, a),
           UNCHANGED <<outboxOnly, consumerOnly, status>>,
           faults' \in 0..MaxFaults,
           lock' \in [Keys -> Events \cup {NoEvent}]
    PROVE  /\ SteadyInv'
           /\ \A f \in Events : f # e => SameTickets(f)
           /\ Delivered(e) = {} /\ Delivered(e)' = {}
           /\ Open(e) <=> request[e] = "checked"
           /\ Open(e)' <=> a = "checked"
<1>1. UNCHANGED <<row, created, retries, due, stale, task, log, freed, owner, position,
                  committed, cpc, hand, handled, tried, dlq, status>>
  BY DEF outboxOnly, consumerOnly
<1>2. /\ request' \in [Events -> {"new", "checked", "accepted", "refused"}]
      /\ request'[e] = a
      /\ \A f \in Events : f # e => request'[f] = request[f]
  BY DEF Answer, SteadyInv, FlowTyped
<1>3. FlowTyped'
  BY <1>1, <1>2 DEF SteadyInv, FlowTyped, O!OTypeOK
<1>4. /\ \A f : Delivered(f)' = Delivered(f)
      /\ LogSorted' /\ \A p \in Partitions : GroupKnows(p)'
      /\ \A c \in Consumers : HandKnows(c)'
  BY <1>1, BrokerStays
<1>5. /\ row[e] = "none" /\ Delivered(e) = {}
      /\ \A r \in Relays : task[r][e] = "none"
      /\ Open(e) <=> request[e] = "checked"
  BY NoRowYet
<1>6. TableKnows(e)' /\ (Open(e)' <=> a = "checked")
  <2>1. TableKnows(e)'
    BY <1>1, <1>2, <1>4, <1>5 DEF TableKnows
  <2> QED
    BY <2>1, <1>1, <1>2, <1>5 DEF Open
<1>7. \A f \in Events : f # e => TableKnows(f)' /\ (Open(f)' <=> Open(f))
  BY <1>1, <1>2, <1>4, TableStays DEF SteadyInv
<1>8. \A f \in Events : f # e => SameTickets(f)
  BY <1>1, <1>4, <1>7 DEF SameTickets
<1> QED
  BY <1>3, <1>4, <1>5, <1>6, <1>7, <1>8 DEF SteadyInv

(* The SETNX finds no lock, and its request is the first with a ticket and the
   lock; a request that Redis did not answer has a ticket for the fault; or the
   request is refused. *)
LEMMA CheckCounts ==
    ASSUME SteadyInv, \A k \in Keys : Counted(k), NEW e \in Events, IdempotencyCheck(e)
    PROVE  SteadyInv' /\ \A k \in Keys : Counted(k)'
<1>1. PICK k \in Keys : k = KeyOf[e]
  BY FlowAssumption
<1>2. PICK a \in {"checked", "refused"} :
         /\ request[e] = "new" /\ Answer(e, a)
         /\ UNCHANGED <<outboxOnly, consumerOnly, status>>
         /\ \/ /\ a = "checked" /\ faults' = faults
               /\ lock[k] = NoEvent /\ lock' = [lock EXCEPT ![k] = e]
            \/ /\ a = "refused" /\ lock' = lock
               /\ faults' = faults \/ (faults < MaxFaults /\ faults' = faults + 1)
            \/ /\ a = "checked" /\ lock' = lock
               /\ faults < MaxFaults /\ faults' = faults + 1
  BY <1>1 DEF IdempotencyCheck, FFault
<1>3. faults' \in 0..MaxFaults /\ faults \in Nat /\ faults' \in Nat /\ faults <= faults'
  BY <1>2, FaultsGrow DEF SteadyInv
<1>4. /\ lock' \in [Keys -> Events \cup {NoEvent}]
      /\ \A l \in Keys : l # k => lock'[l] = lock[l]
  BY <1>2 DEF SteadyInv, FlowTyped
<1>5. /\ SteadyInv'
      /\ \A f \in Events : f # e => SameTickets(f)
      /\ Delivered(e) = {} /\ Delivered(e)' = {}
      /\ ~Open(e)
      /\ Open(e)' <=> a = "checked"
  BY <1>2, <1>3, <1>4, RequestTickets
<1>6. CASE a = "refused"
  <2>1. UNCHANGED lock
    BY <1>2, <1>6
  <2>2. SameTickets(e)
    BY <1>5, <1>6 DEF SameTickets
  <2> QED
    BY <2>1, <2>2, <1>3, <1>5, QuietCount
<1>7. CASE a = "checked"
  <2>1. \A i \in Nat : Ticket(e, i)' => i = 0
    BY <1>5 DEF Ticket
  <2>2. Ticket(e, 0)'
    BY <1>5, <1>7 DEF Ticket
  <2>3. CASE lock[k] = NoEvent /\ lock' = [lock EXCEPT ![k] = e]
    <3>1. ~LockFresh(k)
      BY <2>3, FlowAssumption DEF LockFresh
    <3>2. lock'[k] = e
      BY <2>3 DEF SteadyInv, FlowTyped
    <3>3. LockFresh(k)'
      BY <3>2, <2>2, <1>1, <1>5 DEF LockFresh, Ticket, Open, Delivered
    <3>4. Counted(k)'
      BY <3>1, <3>3, <2>1, <1>1, <1>3, <1>5, TicketTaken
    <3> QED
      BY <3>4, <1>1, <1>3, <1>4, <1>5, OthersCount
  <2>4. CASE lock' = lock /\ faults' = faults + 1
    <3>1. LockFresh(k) => LockFresh(k)'
      BY <2>2, <2>4, <1>5, FreshStays
    <3>2. Counted(k)'
      BY <3>1, <2>1, <2>4, <1>1, <1>3, <1>5, TicketTaken
    <3> QED
      BY <3>2, <1>1, <1>3, <1>4, <1>5, OthersCount
  <2> QED
    BY <2>3, <2>4, <1>2, <1>7
<1> QED
  BY <1>5, <1>6, <1>7

(* Whatever a DEL does, the other accounts keep their locks. *)
LEMMA DelTyped ==
    ASSUME FlowTyped, NEW k \in Keys, Del(k)
    PROVE  /\ lock' \in [Keys -> Events \cup {NoEvent}]
           /\ \A l \in Keys : l # k => lock'[l] = lock[l]
BY DEF FlowTyped, Del

(* A request fails, in a fault, and may take the lock of another with it. *)
LEMMA RequestEndsCounts ==
    ASSUME SteadyInv, \A k \in Keys : Counted(k), NEW e \in Events,
           InsertOutboxError(e) \/ RequestDies(e)
    PROVE  SteadyInv' /\ \A k \in Keys : Counted(k)'
<1>1. PICK k \in Keys : k = KeyOf[e]
  BY FlowAssumption
<1>2. /\ request[e] = "checked" /\ Answer(e, "refused")
      /\ UNCHANGED <<outboxOnly, consumerOnly, status>>
      /\ faults < MaxFaults /\ faults' = faults + 1
      /\ Del(k) \/ UNCHANGED lock
  BY <1>1 DEF InsertOutboxError, RequestDies, FFault
<1>3. faults' \in 0..MaxFaults /\ faults \in Nat /\ faults' \in Nat /\ faults <= faults'
  BY <1>2, FaultsGrow DEF SteadyInv
<1>4. /\ lock' \in [Keys -> Events \cup {NoEvent}]
      /\ \A l \in Keys : l # k => lock'[l] = lock[l]
  BY <1>2, DelTyped DEF SteadyInv, FlowTyped
<1>5. /\ SteadyInv'
      /\ \A f \in Events : f # e => SameTickets(f)
      /\ Delivered(e)' = {} /\ ~Open(e)'
  BY <1>2, <1>3, <1>4, RequestTickets
<1>6. \A i \in Nat : ~Ticket(e, i)'
  BY <1>5 DEF Ticket
<1>7. Counted(k)'
  BY <1>1, <1>2, <1>3, <1>5, <1>6, TicketGone
<1> QED
  BY <1>1, <1>3, <1>4, <1>5, <1>7, OthersCount

(* The row is written: the ticket of the request is now that of the relay. *)
LEMMA InsertTickets ==
    ASSUME SteadyInv, NEW e \in Events, NEW a \in {"accepted", "refused"},
           request[e] = "checked", Answer(e, a), O!WriteRow(e),
           UNCHANGED <<consumerOnly, status>>,
           faults' \in 0..MaxFaults,
           lock' \in [Keys -> Events \cup {NoEvent}]
    PROVE  SteadyInv' /\ \A f \in Events : SameTickets(f)
<1>1. /\ row' = [row EXCEPT ![e] = "pending"]
      /\ created' = Append(created, e) /\ due' = due \cup {e}
      /\ UNCHANGED <<retries, stale, task, log, freed, status>>
      /\ UNCHANGED consumerOnly
  BY DEF O!WriteRow
<1>2. /\ row[e] = "none" /\ Delivered(e) = {} /\ Open(e)
      /\ \A r \in Relays : task[r][e] = "none"
  BY NoRowYet
<1>3. /\ row'[e] = "pending" /\ request'[e] = a
      /\ \A f \in Events : f # e => row'[f] = row[f] /\ request'[f] = request[f]
  BY <1>1 DEF Answer, SteadyInv, FlowTyped, O!OTypeOK
<1>4. FlowTyped'
  <2>1. row' \in [Events -> O!RowStates]
    BY <1>1 DEF SteadyInv, FlowTyped, O!OTypeOK, O!RowStates
  <2>2. created' \in Seq(Events) /\ due' \subseteq Events
    BY <1>1 DEF SteadyInv, FlowTyped, O!OTypeOK
  <2>3. stale' \subseteq {f \in Events : row'[f] = "claimed"}
    BY <1>1, <1>2, <1>3 DEF SteadyInv, FlowTyped, O!OTypeOK
  <2>4. O!OTypeOK'
    BY <2>1, <2>2, <2>3, <1>1 DEF SteadyInv, FlowTyped, O!OTypeOK
  <2>5. request' \in [Events -> {"new", "checked", "accepted", "refused"}]
    BY DEF Answer, SteadyInv, FlowTyped
  <2> QED
    BY <2>4, <2>5, <1>1 DEF SteadyInv, FlowTyped, consumerOnly
<1>5. /\ \A f : Delivered(f)' = Delivered(f)
      /\ LogSorted' /\ \A p \in Partitions : GroupKnows(p)'
      /\ \A c \in Consumers : HandKnows(c)'
      /\ tried' = tried
  BY <1>1, BrokerStays
<1>6. TableKnows(e)' /\ Open(e)'
  <2>1. TableKnows(e)'
    BY <1>1, <1>2, <1>3, <1>5 DEF TableKnows
  <2> QED
    BY <2>1, <1>1, <1>2, <1>3 DEF Open
<1>7. \A f \in Events : f # e => TableKnows(f)' /\ (Open(f)' <=> Open(f))
  BY <1>1, <1>3, <1>5, TableStays DEF SteadyInv
<1>8. \A f \in Events : SameTickets(f)
  BY <1>2, <1>5, <1>6, <1>7 DEF SameTickets
<1> QED
  BY <1>4, <1>5, <1>6, <1>7, <1>8 DEF SteadyInv

(* Written and accepted: the lock is the one it was. *)
LEMMA InsertCounts ==
    ASSUME SteadyInv, \A k \in Keys : Counted(k), NEW e \in Events, InsertOutbox(e)
    PROVE  SteadyInv' /\ \A k \in Keys : Counted(k)'
<1>1. /\ request[e] = "checked" /\ Answer(e, "accepted") /\ O!WriteRow(e)
      /\ UNCHANGED <<faults, lock>> /\ UNCHANGED <<consumerOnly, status>>
  BY DEF InsertOutbox, O!InsertRow
<1>2. faults' \in 0..MaxFaults /\ faults \in Nat /\ faults' \in Nat /\ faults <= faults'
  BY <1>1, FaultsGrow DEF SteadyInv
<1>3. SteadyInv' /\ \A f \in Events : SameTickets(f)
  BY <1>1, <1>2, InsertTickets DEF SteadyInv, FlowTyped
<1> QED
  BY <1>1, <1>2, <1>3, QuietCount

(* Written and not known to be: the lock is freed, in a fault. *)
LEMMA LostInsertCounts ==
    ASSUME SteadyInv, \A k \in Keys : Counted(k), NEW e \in Events,
           InsertOutboxAnswerLost(e)
    PROVE  SteadyInv' /\ \A k \in Keys : Counted(k)'
<1>1. PICK k \in Keys : k = KeyOf[e]
  BY FlowAssumption
<1>2. /\ request[e] = "checked" /\ Answer(e, "refused") /\ O!WriteRow(e)
      /\ faults < MaxFaults /\ faults' = faults + 1 /\ Del(k)
      /\ UNCHANGED <<consumerOnly, status>>
  BY <1>1 DEF InsertOutboxAnswerLost, FFault
<1>3. faults' \in 0..MaxFaults /\ faults \in Nat /\ faults' \in Nat /\ faults <= faults'
  BY <1>2, FaultsGrow DEF SteadyInv
<1>4. /\ lock' \in [Keys -> Events \cup {NoEvent}]
      /\ \A l \in Keys : l # k => lock'[l] = lock[l]
  BY <1>2, DelTyped DEF SteadyInv
<1>5. SteadyInv' /\ \A f \in Events : SameTickets(f)
  BY <1>2, <1>3, <1>4, InsertTickets
<1>6. \A i \in Nat : Ticket(e, i)' => Ticket(e, i)
  BY <1>5 DEF SameTickets, Ticket
<1>7. Counted(k)'
  BY <1>1, <1>2, <1>3, <1>5, <1>6, TicketGone
<1> QED
  BY <1>1, <1>3, <1>4, <1>5, <1>7, OthersCount

-----------------------------------------------------------------------------
(* The relays                                                              *)

(* A step of a goroutine: what it has to establish about its own row, and what
   its ticket was and is. *)
LEMMA GoroutineTickets ==
    ASSUME SteadyInv, NEW r \in Relays, NEW e \in Events, NEW t \in O!TaskStates,
           task[r][e] # "none", O!SetTask(r, e, t),
           O!OTypeOK', UNCHANGED <<consumerOnly, request, status>>,
           lock' \in [Keys -> Events \cup {NoEvent}],
           \A f \in Events : f # e =>
               /\ row'[f] = row[f] /\ (f \in stale' => f \in stale)
               /\ Delivered(f)' = Delivered(f),
           LogSorted', \A p \in Partitions : Len(log[p]) <= Len(log'[p]),
           t # "none" =>
               /\ e \notin stale' /\ t # "markFailed"
               /\ row'[e] = IF t = "release" THEN "failed" ELSE "claimed",
           row'[e] # "none",
           t = "markPublished" \/ row'[e] = "published" => Delivered(e)' # {}
    PROVE  /\ SteadyInv'
           /\ \A f \in Events : f # e => SameTickets(f)
           /\ Open(e) <=> task[r][e] # "markPublished"
           /\ Open(e)' <=> \/ row'[e] \in {"pending", "claimed"} /\ t # "markPublished"
                           \/ t = "release"
           /\ tried' = tried
<1>1. UNCHANGED <<owner, position, committed, cpc, hand, handled, tried, dlq>>
  BY DEF consumerOnly
<1>2. /\ task'[r][e] = t
      /\ \A q \in Relays, f \in Events : q # r \/ f # e => task'[q][f] = task[q][f]
  BY DEF O!SetTask, SteadyInv, FlowTyped, O!OTypeOK
<1>3. FlowTyped'
  BY <1>1 DEF SteadyInv, FlowTyped
<1>4. /\ \A q \in Relays : q # r => task[q][e] = "none" /\ task'[q][e] = "none"
      /\ request[e] \in {"accepted", "refused"}
      /\ row[e] = IF task[r][e] = "release" THEN "failed" ELSE "claimed"
  BY <1>2 DEF SteadyInv, TableKnows
<1>5. TableKnows(e)'
  BY <1>2, <1>4 DEF TableKnows
<1>6. Open(e) <=> task[r][e] # "markPublished"
  BY <1>4 DEF Open
<1>7. Open(e)' <=> \/ row'[e] \in {"pending", "claimed"} /\ t # "markPublished"
                   \/ t = "release"
  BY <1>2, <1>4 DEF Open
<1>8. \A f \in Events : f # e => TableKnows(f)' /\ (Open(f)' <=> Open(f))
  BY <1>2, TableStays DEF SteadyInv
<1>9. \A f \in Events : f # e => SameTickets(f)
  BY <1>1, <1>8 DEF SameTickets
<1>10. ASSUME NEW p \in Partitions PROVE GroupKnows(p)'
  <2>1. /\ Len(log[p]) \in Nat /\ Len(log'[p]) \in Nat
        /\ position[p] \in Nat /\ committed[p] \in Nat
    BY DEF SteadyInv, FlowTyped, O!OTypeOK
  <2> QED
    BY <2>1, <1>1 DEF SteadyInv, GroupKnows
<1>11. \A c \in Consumers : HandKnows(c)'
  BY <1>1, HandStays DEF SteadyInv
<1> QED
  BY <1>1, <1>3, <1>5, <1>6, <1>7, <1>8, <1>9, <1>10, <1>11 DEF SteadyInv

(* A goroutine's next step is a step. *)
LEMMA TaskIsTyped ==
    ASSUME FlowTyped, NEW r \in Relays, NEW e \in Events, NEW t \in O!TaskStates,
           O!SetTask(r, e, t)
    PROVE  /\ task' \in [Relays -> [Events -> O!TaskStates]]
           /\ \A q \in Relays, f \in Events : q # r \/ f # e => task'[q][f] = task[q][f]
BY DEF FlowTyped, O!OTypeOK, O!SetTask

(* A goroutine that publishes nothing. *)
LEMMA SilentTickets ==
    ASSUME SteadyInv, NEW r \in Relays, NEW e \in Events, NEW t \in O!TaskStates,
           task[r][e] # "none", O!SetTask(r, e, t),
           retries' \in [Events -> Nat], due' \subseteq Events, freed' \subseteq Events,
           UNCHANGED <<created, log, consumerOnly, request, status>>,
           faults' \in 0..MaxFaults,
           lock' \in [Keys -> Events \cup {NoEvent}],
           \/ UNCHANGED <<row, stale>>
           \/ \E s \in O!RowStates \ {"none"} : O!Update(e, s),
           t # "none" =>
               /\ t # "markFailed"
               /\ row'[e] = IF t = "release" THEN "failed" ELSE "claimed",
           t = "markPublished" \/ row'[e] = "published" => Delivered(e) # {}
    PROVE  /\ SteadyInv'
           /\ \A f \in Events : f # e => SameTickets(f)
           /\ Open(e) <=> task[r][e] # "markPublished"
           /\ Open(e)' <=> \/ row'[e] \in {"pending", "claimed"} /\ t # "markPublished"
                           \/ t = "release"
           /\ Delivered(e)' = Delivered(e) /\ tried' = tried
<1>1. /\ \A f : Delivered(f)' = Delivered(f)
      /\ LogSorted'
  BY BrokerStays
<1>2. e \notin stale /\ row[e] # "none"
  BY DEF SteadyInv, TableKnows
<1>3. /\ row' \in [Events -> O!RowStates] /\ row'[e] # "none"
      /\ \A f \in Events : f # e => row'[f] = row[f] /\ (f \in stale' => f \in stale)
      /\ stale' \subseteq {f \in Events : row'[f] = "claimed"}
      /\ e \notin stale'
  <2>1. CASE UNCHANGED <<row, stale>>
    BY <2>1, <1>2 DEF SteadyInv, FlowTyped, O!OTypeOK
  <2>2. ASSUME NEW s \in O!RowStates \ {"none"}, O!Update(e, s)
        PROVE  /\ row' \in [Events -> O!RowStates] /\ row'[e] # "none"
               /\ \A f \in Events : f # e => row'[f] = row[f] /\ (f \in stale' => f \in stale)
               /\ stale' \subseteq {f \in Events : row'[f] = "claimed"}
               /\ e \notin stale'
    BY <2>2 DEF SteadyInv, FlowTyped, O!OTypeOK, O!Update
  <2> QED
    BY <2>1, <2>2
<1>4. O!OTypeOK'
  BY <1>3, TaskIsTyped DEF SteadyInv, FlowTyped, O!OTypeOK
<1>5. \A p \in Partitions : Len(log[p]) <= Len(log'[p])
  <2>1. \A p \in Partitions : Len(log[p]) \in Nat
    BY DEF SteadyInv, FlowTyped, O!OTypeOK
  <2> QED
    BY <2>1
<1> QED
  BY <1>1, <1>3, <1>4, <1>5, GoroutineTickets

(* A goroutine starts, or its publish is refused, or its row goes back, or is
   given up with the lock still to free, or is called published: every ticket
   stays with its holder.  An UPDATE that fails after the publish costs a fault
   and leaves the row to be published once more. *)
LEMMA SilentCounts ==
    ASSUME SteadyInv, \A k \in Keys : Counted(k), NEW r \in Relays, NEW e \in Events,
           \/ O!Start(r, e) \/ (O!PublishError(r, e) /\ UNCHANGED <<log, faults>>)
           \/ O!MarkPublished(r, e) \/ O!MarkPublishFailure(r, e),
           UNCHANGED <<consumerOnly, request, lock, status>>
    PROVE  SteadyInv' /\ \A k \in Keys : Counted(k)'
<1>1. PICK k \in Keys : k = KeyOf[e]
  BY FlowAssumption
<1>2. lock' \in [Keys -> Events \cup {NoEvent}]
  BY DEF SteadyInv, FlowTyped
<1>3. /\ retries \in [Events -> Nat] /\ due \subseteq Events /\ freed \subseteq Events
  BY DEF SteadyInv, FlowTyped, O!OTypeOK
<1>4. task[r][e] # "none" => row[e] = IF task[r][e] = "release" THEN "failed" ELSE "claimed"
  BY DEF SteadyInv, TableKnows
<1>5. ASSUME NEW t \in {"publish", "markFailure"}, task[r][e] \in {"queued", "publish"},
             O!SetTask(r, e, t),
             UNCHANGED <<row, created, retries, due, stale, log, freed, faults>>
      PROVE  SteadyInv' /\ \A l \in Keys : Counted(l)'
  <2>1. t \in O!TaskStates /\ t \notin {"none", "markFailed", "release", "markPublished"}
    BY <1>5 DEF O!TaskStates
  <2>2. row[e] = "claimed" /\ task[r][e] \notin {"none", "markPublished"}
    BY <1>4, <1>5
  <2>3. faults' \in 0..MaxFaults /\ faults \in Nat /\ faults' \in Nat /\ faults <= faults'
    BY <1>5, FaultsGrow DEF SteadyInv
  <2>4. /\ SteadyInv'
        /\ \A f \in Events : f # e => SameTickets(f)
        /\ Open(e) /\ Open(e)'
        /\ Delivered(e)' = Delivered(e) /\ tried' = tried
    BY <1>2, <1>3, <1>5, <2>1, <2>2, <2>3, SilentTickets
  <2>5. SameTickets(e)
    BY <2>4 DEF SameTickets
  <2> QED
    BY <2>3, <2>4, <2>5, QuietCount
<1>6. CASE O!Start(r, e)
  BY <1>5, <1>6 DEF O!Start
<1>7. CASE O!PublishError(r, e) /\ UNCHANGED <<log, faults>>
  BY <1>5, <1>7 DEF O!PublishError
<1>8. CASE O!MarkPublished(r, e)
  <2>1. /\ task[r][e] = "markPublished" /\ O!SetTask(r, e, "none")
        /\ UNCHANGED <<created, retries, due, log, freed>>
    BY <1>8 DEF O!MarkPublished
  <2>2. "none" \in O!TaskStates /\ "published" \in O!RowStates \ {"none"}
    BY DEF O!TaskStates, O!RowStates
  <2>3. row[e] = "claimed" /\ Delivered(e) # {}
    BY <1>4, <2>1 DEF SteadyInv, TableKnows
  <2>4. CASE O!Update(e, "published") /\ UNCHANGED faults
    <3>1. faults' \in 0..MaxFaults /\ faults \in Nat /\ faults' \in Nat /\ faults <= faults'
      BY <2>4, FaultsGrow DEF SteadyInv
    <3>2. row'[e] = "published" /\ row' = [row EXCEPT ![e] = "published"]
      BY <2>4 DEF O!Update, SteadyInv, FlowTyped, O!OTypeOK
    <3>3. /\ SteadyInv'
          /\ \A f \in Events : f # e => SameTickets(f)
          /\ ~Open(e) /\ ~Open(e)'
          /\ Delivered(e)' = Delivered(e) /\ tried' = tried
      BY <1>2, <1>3, <2>1, <2>2, <2>3, <2>4, <3>1, <3>2, SilentTickets
    <3>4. SameTickets(e)
      BY <3>3 DEF SameTickets
    <3> QED
      BY <3>1, <3>3, <3>4, QuietCount
  <2>5. CASE UNCHANGED <<row, stale>> /\ faults < MaxFaults /\ faults' = faults + 1
    <3>1. faults' \in 0..MaxFaults /\ faults \in Nat /\ faults' \in Nat /\ faults <= faults'
      BY <2>5, FaultsGrow DEF SteadyInv
    <3>2. /\ SteadyInv'
          /\ \A f \in Events : f # e => SameTickets(f)
          /\ Open(e)'
          /\ Delivered(e)' = Delivered(e) /\ tried' = tried
      BY <1>2, <1>3, <2>1, <2>2, <2>3, <2>5, <3>1, SilentTickets
    <3>3. Ticket(e, 0)' /\ \A i \in Nat : Ticket(e, i)' => Ticket(e, i) \/ i = 0
      BY <3>2 DEF Ticket
    <3>4. LockFresh(k) => LockFresh(k)'
      <4>1. ASSUME LockFresh(k), lock[k] = e
            PROVE  \A i \in Delivered(e) : <<PartitionOf[e], i>> \notin tried
        BY <4>1 DEF LockFresh, Delivered
      <4> QED
        BY <4>1, <3>2, <3>3, FreshStays
    <3>5. Counted(k)'
      BY <3>1, <3>2, <3>3, <3>4, <2>5, <1>1, TicketTaken
    <3> QED
      BY <3>1, <3>2, <3>5, <1>1, OthersCount
  <2> QED
    BY <1>8, <2>4, <2>5 DEF O!MarkPublished, O!Fault
<1>9. CASE O!MarkPublishFailure(r, e)
  <2>1. /\ task[r][e] = "markFailure"
        /\ UNCHANGED <<created, log, freed>>
    BY <1>9 DEF O!MarkPublishFailure
  <2>2. PICK t \in {"release", "none"} :
           /\ O!SetTask(r, e, t)
           /\ retries' = [retries EXCEPT ![e] = @ + 1] \/ UNCHANGED retries
           /\ due' = due \ {e} \/ UNCHANGED due
           /\ \/ /\ UNCHANGED <<row, stale>> /\ t = "none"
                 /\ faults < MaxFaults /\ faults' = faults + 1
              \/ /\ faults' = faults
                 /\ \E s \in {"failed", "pending"} :
                       O!Update(e, s) /\ (s = "failed" <=> t = "release")
    BY <1>9 DEF O!MarkPublishFailure, O!Fault, O!AfterFailure
  <2>3. t \in O!TaskStates /\ {"failed", "pending"} \subseteq O!RowStates \ {"none"}
    BY <2>2 DEF O!TaskStates, O!RowStates
  <2>4. faults' \in 0..MaxFaults /\ faults \in Nat /\ faults' \in Nat /\ faults <= faults'
    BY <2>2, FaultsGrow DEF SteadyInv
  <2>5. retries' \in [Events -> Nat] /\ due' \subseteq Events
    BY <2>2, <1>3
  <2>6. row[e] = "claimed"
    BY <1>4, <2>1
  <2>7. /\ \/ UNCHANGED <<row, stale>>
           \/ \E s \in O!RowStates \ {"none"} : O!Update(e, s)
        /\ t = "release" => row'[e] = "failed"
        /\ t = "none" => row'[e] \in {"pending", "claimed"}
        /\ row'[e] # "published"
    <3>1. CASE UNCHANGED <<row, stale>> /\ t = "none"
      BY <3>1, <2>6
    <3>2. ASSUME NEW s \in {"failed", "pending"}, O!Update(e, s),
                 s = "failed" <=> t = "release"
          PROVE  /\ O!Update(e, s) /\ row' = [row EXCEPT ![e] = s]
                 /\ t = "release" => row'[e] = "failed"
                 /\ t = "none" => row'[e] \in {"pending", "claimed"}
                 /\ row'[e] # "published"
      BY <3>2 DEF O!Update, SteadyInv, FlowTyped, O!OTypeOK
    <3> QED
      BY <3>1, <3>2, <2>2, <2>3
  <2>8. /\ SteadyInv'
        /\ \A f \in Events : f # e => SameTickets(f)
        /\ Open(e) /\ Open(e)'
        /\ Delivered(e)' = Delivered(e) /\ tried' = tried
    <3>1. t # "markFailed" /\ t # "markPublished"
      BY <2>2
    <3>2. freed' \subseteq Events
      BY <2>1, <1>3
    <3> QED
      BY <3>1, <3>2, <1>2, <2>1, <2>2, <2>3, <2>4, <2>5, <2>7, SilentTickets
  <2>9. SameTickets(e)
    BY <2>8 DEF SameTickets
  <2> QED
    BY <2>4, <2>8, <2>9, QuietCount
<1> QED
  BY <1>6, <1>7, <1>8, <1>9

(* What the broker appends is behind everything that was fetched, in the
   partition of its key. *)
LEMMA SendAppends ==
    ASSUME SteadyInv, NEW e \in Events, O!Send(e)
    PROVE  \E n \in Nat :
              /\ n # 0 /\ <<PartitionOf[e], n>> \notin tried
              /\ Delivered(e)' = Delivered(e) \cup {n}
              /\ \A f \in Events : f # e => Delivered(f)' = Delivered(f)
              /\ LogSorted' /\ log' \in [Partitions -> Seq(Events)]
              /\ \A p \in Partitions : Len(log[p]) <= Len(log'[p])
<1>1. log' = [log EXCEPT ![PartitionOf[e]] = Append(@, e)]
  BY DEF O!Send
<1>2. PICK p \in Partitions : p = PartitionOf[e]
  BY FlowAssumption
<1>3. PICK n \in Nat : n = Len(log[p])
  BY DEF SteadyInv, FlowTyped, O!OTypeOK
<1>4. log[p] \in Seq(Events)
  BY DEF SteadyInv, FlowTyped, O!OTypeOK
<1>5. /\ log'[p] = Append(log[p], e)
      /\ \A q \in Partitions : q # p => log'[q] = log[q]
      /\ log' \in [Partitions -> Seq(Events)]
  BY <1>1, <1>2, <1>4 DEF SteadyInv, FlowTyped, O!OTypeOK
<1>6. /\ DOMAIN log'[p] = 1..n + 1 /\ DOMAIN log[p] = 1..n /\ Len(log'[p]) = n + 1
      /\ log'[p][n + 1] = e
      /\ \A i \in 1..n : log'[p][i] = log[p][i]
  BY <1>3, <1>4, <1>5
<1>7. /\ \A i \in 1..n + 1 : i \in 1..n \/ i = n + 1
      /\ \A i \in 1..n : i \in 1..n + 1
      /\ n + 1 \in 1..n + 1 /\ n + 1 \in Nat /\ n + 1 # 0
  BY <1>3
<1>8. ASSUME NEW f \in Events, PartitionOf[f] = p
      PROVE  Delivered(f)' = IF f = e THEN Delivered(f) \cup {n + 1} ELSE Delivered(f)
  <2>1. /\ Delivered(f)' = {i \in 1..n + 1 : log'[p][i] = f}
        /\ Delivered(f) = {i \in 1..n : log[p][i] = f}
    BY <1>6, <1>8 DEF Delivered
  <2>2. CASE f = e
    BY <2>1, <2>2, <1>6, <1>7
  <2>3. CASE f # e
    BY <2>1, <2>3, <1>6, <1>7
  <2> QED
    BY <2>2, <2>3
<1>9. Delivered(e)' = Delivered(e) \cup {n + 1}
  BY <1>2, <1>8
<1>10. ASSUME NEW f \in Events, f # e PROVE Delivered(f)' = Delivered(f)
  <2>1. CASE PartitionOf[f] = p
    BY <2>1, <1>8, <1>10
  <2>2. CASE PartitionOf[f] # p
    BY <2>2, <1>5, FlowAssumption DEF Delivered
  <2> QED
    BY <2>1, <2>2
<1>11. LogSorted'
  <2>1. ASSUME NEW q \in Partitions, NEW i \in DOMAIN log'[q] PROVE PartitionOf[log'[q][i]] = q
    <3>1. CASE q # p
      BY <3>1, <1>5 DEF SteadyInv, LogSorted
    <3>2. CASE q = p
      BY <3>2, <1>2, <1>6, <1>7 DEF SteadyInv, LogSorted
    <3> QED
      BY <3>1, <3>2
  <2> QED
    BY <2>1 DEF LogSorted
<1>12. \A q \in Partitions : Len(log[q]) <= Len(log'[q])
  <2>1. \A q \in Partitions : Len(log[q]) \in Nat
    BY DEF SteadyInv, FlowTyped, O!OTypeOK
  <2> QED
    BY <2>1, <1>3, <1>5, <1>6
<1>13. <<p, n + 1>> \notin tried
  <2>1. position[p] <= n /\ position[p] \in Nat /\ n + 1 \in Nat
    BY <1>3 DEF SteadyInv, FlowTyped, GroupKnows
  <2>2. <<p, n + 1>> \in tried => n + 1 <= position[p]
    BY <2>1 DEF SteadyInv, GroupKnows
  <2> QED
    BY <2>1, <2>2
<1> QED
  BY <1>2, <1>5, <1>7, <1>9, <1>10, <1>11, <1>12, <1>13

(* The log is longer for it. *)
LEMMA SendGrows ==
    ASSUME SteadyInv, NEW e \in Events, O!Send(e)
    PROVE  log' # log
<1>1. PICK p \in Partitions : p = PartitionOf[e]
  BY FlowAssumption
<1>2. log[p] \in Seq(Events) /\ log'[p] = Append(log[p], e)
  BY <1>1 DEF O!Send, SteadyInv, FlowTyped, O!OTypeOK
<1>3. Len(log'[p]) = Len(log[p]) + 1 /\ Len(log[p]) \in Nat
  BY <1>2
<1> QED
  BY <1>3

(* A publish hands the ticket of the relay on to the handler of the message;
   one that only seemed to fail leaves the relay its own, for a fault. *)
LEMMA PublishCounts ==
    ASSUME SteadyInv, \A k \in Keys : Counted(k), NEW r \in Relays, NEW e \in Events,
           O!PublishOk(r, e) \/ O!PublishError(r, e), O!Send(e),
           UNCHANGED <<consumerOnly, request, lock, status>>
    PROVE  SteadyInv' /\ \A k \in Keys : Counted(k)'
<1>1. PICK k \in Keys : k = KeyOf[e]
  BY FlowAssumption
<1>2. PICK n \in Nat :
         /\ n # 0 /\ <<PartitionOf[e], n>> \notin tried
         /\ Delivered(e)' = Delivered(e) \cup {n}
         /\ \A f \in Events : f # e => Delivered(f)' = Delivered(f)
         /\ LogSorted' /\ log' \in [Partitions -> Seq(Events)]
         /\ \A p \in Partitions : Len(log[p]) <= Len(log'[p])
  BY SendAppends
<1>3. log' # log
  BY <1>2, SendGrows
<1>4. PICK t \in {"markPublished", "markFailure"} :
         /\ task[r][e] = "publish" /\ O!SetTask(r, e, t)
         /\ UNCHANGED <<row, created, retries, due, stale, freed>>
         /\ \/ t = "markPublished" /\ faults' = faults
            \/ t = "markFailure" /\ faults < MaxFaults /\ faults' = faults + 1
  BY <1>3 DEF O!PublishOk, O!PublishError, O!Fault
<1>5. t \in O!TaskStates /\ t \notin {"none", "markFailed", "release"}
  BY <1>4 DEF O!TaskStates
<1>6. faults' \in 0..MaxFaults /\ faults \in Nat /\ faults' \in Nat /\ faults <= faults'
  BY <1>4, FaultsGrow DEF SteadyInv
<1>7. O!OTypeOK'
  BY <1>2, <1>4, <1>5, <1>6, TaskIsTyped DEF SteadyInv, FlowTyped, O!OTypeOK
<1>8. row[e] = "claimed" /\ e \notin stale
  BY <1>4 DEF SteadyInv, TableKnows
<1>9. lock' \in [Keys -> Events \cup {NoEvent}]
  BY DEF SteadyInv, FlowTyped
<1>10. /\ SteadyInv'
       /\ \A f \in Events : f # e => SameTickets(f)
       /\ Open(e) /\ (Open(e)' <=> t = "markFailure")
       /\ tried' = tried
  BY <1>2, <1>4, <1>5, <1>7, <1>8, <1>9, GoroutineTickets
<1>11. /\ Ticket(e, n)' /\ Ticket(e, 0)
       /\ \A i \in Nat : Ticket(e, i)' => Ticket(e, i) \/ i = n
  BY <1>2, <1>10 DEF Ticket
<1>12. LockFresh(k) => LockFresh(k)'
  <2>1. ASSUME LockFresh(k), lock[k] = e
        PROVE  \A i \in Delivered(e)' : <<PartitionOf[e], i>> \notin tried'
    BY <2>1, <1>2, <1>10 DEF LockFresh, Delivered
  <2> QED
    BY <2>1, <1>10, <1>11, FreshStays
<1>13. t = "markPublished" => ~Ticket(e, 0)'
  <2>1. 0 \notin Delivered(e)'
    BY <1>2, <1>7, FlowAssumption DEF Delivered, O!OTypeOK
  <2> QED
    BY <2>1, <1>4, <1>10 DEF Ticket
<1>14. Counted(k)'
  BY <1>1, <1>4, <1>6, <1>10, <1>11, <1>12, <1>13, TicketTaken
<1> QED
  BY <1>1, <1>6, <1>10, <1>14, OthersCount

(* The relay uses its ticket: whose lock it frees does not matter. *)
LEMMA ReleaseCounts ==
    ASSUME SteadyInv, \A k \in Keys : Counted(k), NEW r \in Relays, NEW e \in Events,
           RelayFrees(r, e)
    PROVE  SteadyInv' /\ \A k \in Keys : Counted(k)'
<1>1. PICK k \in Keys : k = KeyOf[e]
  BY FlowAssumption
<1>2. /\ task[r][e] = "release" /\ O!SetTask(r, e, "none")
      /\ freed' = freed \cup {e}
      /\ Del(k)
      /\ UNCHANGED <<row, created, retries, due, stale, log, faults>>
      /\ UNCHANGED <<consumerOnly, request, status>>
  BY <1>1 DEF RelayFrees, O!ReleaseIdempotency
<1>3. /\ lock' \in [Keys -> Events \cup {NoEvent}]
      /\ \A l \in Keys : l # k => lock'[l] = lock[l]
  BY <1>2, DelTyped DEF SteadyInv
<1>4. faults' \in 0..MaxFaults /\ faults \in Nat /\ faults' \in Nat /\ faults <= faults'
  BY <1>2, FaultsGrow DEF SteadyInv
<1>5. /\ retries' \in [Events -> Nat] /\ due' \subseteq Events /\ freed' \subseteq Events
  BY <1>2 DEF SteadyInv, FlowTyped, O!OTypeOK
<1>6. "none" \in O!TaskStates /\ row[e] = "failed"
  BY <1>2 DEF SteadyInv, TableKnows, O!TaskStates
<1>7. /\ SteadyInv'
      /\ \A f \in Events : f # e => SameTickets(f)
      /\ Open(e) /\ ~Open(e)'
      /\ Delivered(e)' = Delivered(e) /\ tried' = tried
  BY <1>2, <1>3, <1>4, <1>5, <1>6, SilentTickets
<1>8. 0 \notin Delivered(e)
  BY FlowAssumption DEF SteadyInv, FlowTyped, O!OTypeOK, Delivered
<1>9. /\ Ticket(e, 0) /\ ~Ticket(e, 0)'
      /\ \A i \in Nat : Ticket(e, i)' => Ticket(e, i)
  BY <1>7, <1>8 DEF Ticket
<1>10. Counted(k)'
  BY <1>1, <1>4, <1>7, <1>9, TicketGone
<1> QED
  BY <1>1, <1>3, <1>4, <1>7, <1>10, OthersCount

(* A batch is claimed: rows nobody is at work on. *)
LEMMA ClaimCounts ==
    ASSUME SteadyInv, \A k \in Keys : Counted(k), NEW r \in Relays, O!ClaimBatch(r),
           UNCHANGED <<consumerOnly, request, lock, status>>
    PROVE  SteadyInv' /\ \A k \in Keys : Counted(k)'
<1> DEFINE B == O!Batch
<1>1. /\ task[r] = O!Idle
      /\ row' = [e \in Events |-> IF e \in B THEN "claimed"
                   ELSE IF e \in O!Reclaimed THEN "pending" ELSE row[e]]
      /\ stale' = stale \ (O!Reclaimed \cup B)
      /\ task' = [task EXCEPT ![r] =
                     [e \in Events |-> IF e \in B THEN "queued" ELSE "none"]]
      /\ UNCHANGED <<created, retries, due, log, freed, faults>>
  BY DEF O!ClaimBatch, O!TouchedClaims
<1>2. \A e \in B : row[e] = "pending" \/ (row[e] = "claimed" /\ e \in stale)
  BY DEF O!Batch, O!Ready, O!Reclaimed
<1>3. \A e \in O!Reclaimed : row[e] = "claimed" /\ e \in stale
  BY DEF O!Reclaimed
<1> HIDE DEF B
<1>4. \A e \in Events : \A q \in Relays :
         task'[q][e] = IF q = r THEN (IF e \in B THEN "queued" ELSE "none")
                       ELSE task[q][e]
  BY <1>1 DEF SteadyInv, FlowTyped, O!OTypeOK
<1>5. \A e \in Events : task[r][e] = "none"
  BY <1>1 DEF O!Idle
<1>6. ASSUME NEW e \in Events, row'[e] # row[e] \/ e \in B
      PROVE  /\ row[e] \in {"pending", "claimed"} /\ row'[e] \in {"pending", "claimed"}
             /\ \A q \in Relays : task[q][e] = "none"
             /\ e \notin stale' /\ (e \in B => row'[e] = "claimed")
  <2>1. /\ row'[e] = IF e \in B THEN "claimed"
                     ELSE IF e \in O!Reclaimed THEN "pending" ELSE row[e]
        /\ e \in B \/ e \in O!Reclaimed
    BY <1>1, <1>6
  <2>2. row[e] = "pending" \/ (row[e] = "claimed" /\ e \in stale)
    BY <2>1, <1>2, <1>3
  <2>3. \A q \in Relays : task[q][e] = "none"
    BY <2>2 DEF SteadyInv, TableKnows
  <2> QED
    BY <2>1, <2>2, <2>3, <1>1
<1>7. O!OTypeOK'
  <2>1. row' \in [Events -> O!RowStates]
    BY <1>1 DEF SteadyInv, FlowTyped, O!OTypeOK, O!RowStates
  <2>2. task' \in [Relays -> [Events -> O!TaskStates]]
    BY <1>1 DEF SteadyInv, FlowTyped, O!OTypeOK, O!TaskStates
  <2>3. stale' \subseteq {e \in Events : row'[e] = "claimed"}
    BY <1>1, <1>6 DEF SteadyInv, FlowTyped, O!OTypeOK
  <2> QED
    BY <2>1, <2>2, <2>3, <1>1 DEF SteadyInv, FlowTyped, O!OTypeOK
<1>8. FlowTyped'
  BY <1>7 DEF SteadyInv, FlowTyped, consumerOnly
<1>9. /\ \A f : Delivered(f)' = Delivered(f)
      /\ LogSorted' /\ \A p \in Partitions : GroupKnows(p)'
      /\ \A c \in Consumers : HandKnows(c)'
      /\ tried' = tried
  BY <1>1, BrokerStays
<1>10. ASSUME NEW f \in Events PROVE TableKnows(f)' /\ (Open(f)' <=> Open(f))
  <2>1. CASE row'[f] # row[f] \/ f \in B
    <3>1. request[f] \in {"accepted", "refused"}
      BY <2>1, <1>6 DEF SteadyInv, TableKnows
    <3>2. \A q \in Relays : task'[q][f] = IF q = r /\ f \in B THEN "queued" ELSE "none"
      BY <2>1, <1>4, <1>6
    <3>3. TableKnows(f)'
      BY <2>1, <3>1, <3>2, <1>6, <1>9 DEF TableKnows
    <3>4. Open(f) /\ Open(f)'
      BY <2>1, <3>2, <1>6 DEF Open
    <3> QED
      BY <3>3, <3>4
  <2>2. CASE row'[f] = row[f] /\ f \notin B
    BY <2>2, <1>1, <1>4, <1>5, <1>9, TableStays DEF SteadyInv
  <2> QED
    BY <2>1, <2>2
<1>11. \A f \in Events : SameTickets(f)
  BY <1>9, <1>10 DEF SameTickets
<1>12. faults \in Nat /\ faults' \in Nat /\ faults <= faults'
  BY <1>1, FaultsGrow DEF SteadyInv
<1> QED
  BY <1>8, <1>9, <1>10, <1>11, <1>12, QuietCount DEF SteadyInv

(* Backoffs end; a claim grows old when nobody is at work on it. *)
LEMMA OutboxTimeCounts ==
    ASSUME Steady, SteadyInv, \A k \in Keys : Counted(k), OutboxEnvironment
    PROVE  SteadyInv' /\ \A k \in Keys : Counted(k)'
<1>1. PICK e \in Events : O!BackoffElapses(e) \/ (O!ClaimAges(e) /\ O!Abandoned(e))
  BY DEF Steady, OutboxEnvironment, O!ClaimAges, O!RelayCrash, O!Fault
<1>2. /\ UNCHANGED <<row, created, retries, task, log, freed, faults>>
      /\ UNCHANGED <<consumerOnly, request, lock, status>>
      /\ due' \subseteq due \cup {e}
      /\ stale' = stale
            \/ /\ stale' = stale \cup {e} /\ row[e] = "claimed"
               /\ \A r \in Relays : task[r][e] = "none"
  BY <1>1 DEF Steady, OutboxEnvironment, O!BackoffElapses, O!ClaimAges, O!Abandoned,
              O!Fault
<1>3. O!OTypeOK'
  BY <1>2 DEF SteadyInv, FlowTyped, O!OTypeOK
<1>4. FlowTyped'
  BY <1>2, <1>3 DEF SteadyInv, FlowTyped, consumerOnly
<1>5. /\ \A f : Delivered(f)' = Delivered(f)
      /\ LogSorted' /\ \A p \in Partitions : GroupKnows(p)'
      /\ \A c \in Consumers : HandKnows(c)'
      /\ tried' = tried
  BY <1>2, BrokerStays
<1>6. \A f \in Events : TableKnows(f)'
  BY <1>2, <1>5 DEF SteadyInv, TableKnows
<1>7. \A f \in Events : SameTickets(f)
  BY <1>2, <1>5 DEF SameTickets, Open
<1>8. faults \in Nat /\ faults' \in Nat /\ faults <= faults'
  BY <1>2, FaultsGrow DEF SteadyInv
<1> QED
  BY <1>2, <1>4, <1>5, <1>6, <1>7, <1>8, QuietCount DEF SteadyInv

-----------------------------------------------------------------------------
(* The consumers and the handler                                           *)

(* The consumers beside their handlers: nobody's ticket changes. *)
LEMMA LoopCounts ==
    ASSUME SteadyInv, \A k \in Keys : Counted(k), GroupInv',
           UNCHANGED <<outboxOnly, request, lock, tried>>,
           faults' = faults \/ (faults < MaxFaults /\ faults' = faults + 1)
    PROVE  SteadyInv' /\ \A k \in Keys : Counted(k)'
<1>1. UNCHANGED <<row, created, retries, due, stale, task, log, freed>>
  BY DEF outboxOnly
<1>2. \A f : Delivered(f)' = Delivered(f)
  BY <1>1 DEF Delivered
<1>3. \A f \in Events : TableKnows(f)' /\ (Open(f)' <=> Open(f))
  BY <1>1, <1>2, TableStays DEF SteadyInv
<1>4. \A f \in Events : SameTickets(f)
  BY <1>2, <1>3 DEF SameTickets
<1>5. LogSorted'
  BY <1>1 DEF SteadyInv, LogSorted
<1>6. faults \in Nat /\ faults' \in Nat /\ faults <= faults'
  BY FaultsGrow DEF SteadyInv
<1> QED
  BY <1>3, <1>4, <1>5, <1>6, QuietCount DEF SteadyInv, GroupInv

(* What a handler is given is a message of the partition it was sent to. *)
LEMMA InHandTicket ==
    ASSUME SteadyInv, NEW c \in Consumers, cpc[c] = "dispatch"
    PROVE  \E e \in Events, i \in Nat :
              /\ e = InHand(c) /\ hand[c] = <<PartitionOf[e], i>>
              /\ i # 0 /\ i \in Delivered(e) /\ <<PartitionOf[e], i>> \notin tried
<1>1. PICK p \in Partitions, i \in Nat :
         /\ hand[c] = <<p, i>> /\ owner[p] = c /\ 1 <= i /\ i <= position[p]
         /\ <<p, i>> \notin tried
  BY DEF SteadyInv, HandKnows
<1>2. log[p] \in Seq(Events) /\ position[p] \in Nat /\ position[p] <= Len(log[p])
  BY DEF SteadyInv, FlowTyped, O!OTypeOK, GroupKnows
<1>3. i \in DOMAIN log[p] /\ i # 0
  BY <1>1, <1>2
<1>4. PICK e \in Events : e = log[p][i]
  BY <1>2, <1>3
<1>5. InHand(c) = e
  BY <1>1, <1>4 DEF InHand
<1>6. PartitionOf[e] = p
  BY <1>3, <1>4 DEF SteadyInv, LogSorted
<1>7. i \in Delivered(e)
  BY <1>3, <1>4, <1>6 DEF Delivered
<1> QED
  BY <1>1, <1>3, <1>5, <1>6, <1>7

(* A handler returns and uses its ticket: whose lock it deletes, if it deletes
   one at all, does not matter. *)
LEMMA HandlerCounts ==
    ASSUME SteadyInv, \A k \in Keys : Counted(k), NEW c \in Consumers,
           HandlerCompletes(c) \/ HandlerFails(c) \/ HandlerReturnsEarly(c)
    PROVE  SteadyInv' /\ \A k \in Keys : Counted(k)'
<1>1. /\ cpc[c] = "dispatch"
      /\ UNCHANGED <<outboxOnly, request, owner, position, committed, dlq>>
      /\ tried' = tried \cup {hand[c]} /\ handled' \subseteq handled \cup {hand[c]}
      /\ \/ cpc' = [cpc EXCEPT ![c] = "commit"] /\ hand' = hand
         \/ C!NextMessage(c)
  BY DEF HandlerCompletes, HandlerFails, HandlerReturnsEarly, C!DispatchOk,
         C!DispatchError
<1>2. faults' = faults \/ (faults < MaxFaults /\ faults' = faults + 1)
  BY DEF HandlerCompletes, HandlerFails, HandlerReturnsEarly, C!DispatchOk,
         C!DispatchError, C!CFault
<1>3. faults' \in 0..MaxFaults /\ faults \in Nat /\ faults' \in Nat /\ faults <= faults'
  BY <1>2, FaultsGrow DEF SteadyInv
<1>4. PICK e \in Events, j \in Nat :
         /\ e = InHand(c) /\ hand[c] = <<PartitionOf[e], j>>
         /\ j # 0 /\ j \in Delivered(e) /\ <<PartitionOf[e], j>> \notin tried
  BY <1>1, InHandTicket
<1>5. PICK k \in Keys : k = KeyOf[e]
  BY FlowAssumption
<1>6. Del(k) \/ UNCHANGED lock
  BY <1>4, <1>5 DEF HandlerCompletes, HandlerFails, HandlerReturnsEarly
<1>7. /\ lock' \in [Keys -> Events \cup {NoEvent}]
      /\ \A l \in Keys : l # k => lock'[l] = lock[l]
  BY <1>6, DelTyped DEF SteadyInv, FlowTyped
<1>8. status' \in [Events -> {"absent", "pending", "completed", "failed"}]
  BY DEF HandlerCompletes, HandlerFails, HandlerReturnsEarly, SteadyInv, FlowTyped
<1>9. GroupInv'
  BY <1>1, <1>3, <1>7, <1>8, HandlerReads DEF SteadyInv, GroupInv
<1>10. UNCHANGED <<row, created, retries, due, stale, task, log, freed>>
  BY <1>1 DEF outboxOnly
<1>11. \A f : Delivered(f)' = Delivered(f)
  BY <1>10 DEF Delivered
<1>12. \A f \in Events : TableKnows(f)' /\ (Open(f)' <=> Open(f))
  BY <1>1, <1>10, <1>11, TableStays DEF SteadyInv
<1>13. LogSorted'
  BY <1>10 DEF SteadyInv, LogSorted
<1>14. SteadyInv'
  BY <1>9, <1>12, <1>13 DEF SteadyInv, GroupInv
<1>15. ASSUME NEW f \in Events, f # e PROVE SameTickets(f)
  <2>1. ASSUME NEW i \in Delivered(f) PROVE <<PartitionOf[f], i>> # hand[c]
    BY <1>4, <1>15 DEF Delivered
  <2> QED
    BY <2>1, <1>1, <1>11, <1>12 DEF SameTickets
<1>16. \A i \in Nat : Ticket(e, i)' => Ticket(e, i)
  BY <1>1, <1>11, <1>12 DEF Ticket
<1>17. Ticket(e, j) /\ ~Ticket(e, j)'
  BY <1>1, <1>4, <1>11 DEF Ticket
<1>18. Counted(k)'
  BY <1>3, <1>5, <1>15, <1>16, <1>17, TicketGone
<1> QED
  BY <1>3, <1>5, <1>7, <1>14, <1>15, <1>18, OthersCount

(* The pending row of a transaction. *)
LEMMA HandlerRecordsCounts ==
    ASSUME SteadyInv, \A k \in Keys : Counted(k), NEW c \in Consumers, HandlerRecords(c)
    PROVE  SteadyInv' /\ \A k \in Keys : Counted(k)'
<1>1. /\ UNCHANGED <<outboxOnly, faults, consumerOnly, request, lock>>
      /\ status' \in [Events -> {"absent", "pending", "completed", "failed"}]
  BY DEF HandlerRecords, SteadyInv, FlowTyped
<1>2. UNCHANGED <<row, created, retries, due, stale, task, log, freed, owner, position,
                  committed, cpc, hand, handled, tried, dlq>>
  BY <1>1 DEF outboxOnly, consumerOnly
<1>3. FlowTyped'
  BY <1>1, <1>2 DEF SteadyInv, FlowTyped, O!OTypeOK
<1>4. GroupInv'
  BY <1>1, <1>2, <1>3, BrokerStays DEF GroupInv
<1> QED
  BY <1>1, <1>2, <1>4, LoopCounts

(* A lock expires: after the last work on its transaction, when it was no longer
   fresh, or before, in a fault. *)
LEMMA ExpiryCounts ==
    ASSUME SteadyInv, \A k \in Keys : Counted(k), NEW k \in Keys, LockExpires(k)
    PROVE  SteadyInv' /\ \A l \in Keys : Counted(l)'
<1>1. PICK e : e = lock[k]
  OBVIOUS
<1>2. /\ e # NoEvent /\ lock' = [lock EXCEPT ![k] = NoEvent]
      /\ UNCHANGED <<outboxOnly, consumerOnly, request, status>>
      /\ \/ ~Busy(e) /\ faults' = faults
         \/ faults < MaxFaults /\ faults' = faults + 1
  BY <1>1 DEF LockExpires, FFault
<1>3. faults' \in 0..MaxFaults /\ faults \in Nat /\ faults' \in Nat /\ faults <= faults'
  BY <1>2, FaultsGrow DEF SteadyInv
<1>4. UNCHANGED <<row, created, retries, due, stale, task, log, freed, owner, position,
                  committed, cpc, hand, handled, tried, dlq>>
  BY <1>2 DEF outboxOnly, consumerOnly
<1>5. /\ lock' \in [Keys -> Events \cup {NoEvent}]
      /\ \A l \in Keys : l # k => lock'[l] = lock[l]
  BY <1>2 DEF SteadyInv, FlowTyped
<1>6. /\ \A f : Delivered(f)' = Delivered(f)
      /\ LogSorted' /\ \A p \in Partitions : GroupKnows(p)'
      /\ \A c \in Consumers : HandKnows(c)'
  BY <1>4, <1>2, BrokerStays
<1>7. FlowTyped'
  BY <1>2, <1>3, <1>4, <1>5 DEF SteadyInv, FlowTyped, O!OTypeOK
<1>8. \A f \in Events : TableKnows(f)' /\ (Open(f)' <=> Open(f))
  BY <1>2, <1>4, <1>6, TableStays DEF SteadyInv
<1>9. SteadyInv'
  BY <1>6, <1>7, <1>8 DEF SteadyInv
<1>10. \A f \in Events : SameTickets(f)
  BY <1>4, <1>6, <1>8 DEF SameTickets
<1>11. ASSUME LockFresh(k) PROVE Busy(e)
  <2>1. PICK i \in Nat : e \in Events /\ Ticket(e, i)
    BY <1>1, <1>11 DEF LockFresh, Ticket, Open, Delivered
  <2>2. \A j \in Delivered(e) : <<PartitionOf[e], j>> \notin tried
    BY <1>1, <1>11 DEF LockFresh, Delivered
  <2>3. CASE i \in Delivered(e)
    <3>1. row[e] # "none"
      BY <2>1, <2>3 DEF SteadyInv, TableKnows
    <3> QED
      BY <3>1, <2>2, <2>3, FlightIs DEF Busy
  <2>4. CASE Open(e)
    <3>1. CASE row[e] \in {"pending", "claimed"}
      BY <3>1, <2>2, FlightIs DEF Busy
    <3> QED
      BY <2>4, <3>1 DEF Open, Busy
  <2> QED
    BY <2>1, <2>3, <2>4 DEF Ticket
<1>12. ASSUME NEW l \in Keys PROVE Counted(l)'
  <2>1. CASE l # k
    <3>1. Tickets(l)' \subseteq Tickets(l) /\ (LockFresh(l) => LockFresh(l)')
      BY <2>1, <1>5, <1>10, TicketsStay
    <3> QED
      BY <3>1, <1>3, CountKept
  <2>2. CASE l = k
    <3>1. Tickets(k)' \subseteq Tickets(k)
      <4>1. ASSUME NEW f \in Events, NEW i \in Nat PROVE Ticket(f, i)' <=> Ticket(f, i)
        BY <1>10 DEF SameTickets, Ticket
      <4> QED
        BY <4>1 DEF Tickets
    <3>2. Counted(k)'
      BY <3>1, <1>2, <1>3, <1>11, CountKept
    <3> QED
      BY <2>2, <3>2
  <2> QED
    BY <2>1, <2>2
<1> QED
  BY <1>9, <1>12

-----------------------------------------------------------------------------
(* The theorem                                                             *)

OverlapInv == SteadyInv /\ \A k \in Keys : Counted(k)

(* Every step of a relay. *)
LEMMA RelayCounts ==
    ASSUME OverlapInv, NEW r \in Relays,
           RelayWorks(r) \/ \E e \in Events : RelayFrees(r, e)
    PROVE  OverlapInv'
<1>1. ASSUME NEW e \in Events, RelayFrees(r, e) PROVE OverlapInv'
  BY <1>1, ReleaseCounts DEF OverlapInv
<1>2. CASE RelayWorks(r)
  <2>1. UNCHANGED <<consumerOnly, request, lock, status>> /\ O!RelayWork(r)
    BY <1>2 DEF RelayWorks
  <2>2. CASE O!ClaimBatch(r)
    BY <2>1, <2>2, ClaimCounts DEF OverlapInv
  <2>3. ASSUME NEW e \in Events,
               O!Start(r, e) \/ O!MarkPublished(r, e) \/ O!MarkPublishFailure(r, e)
        PROVE  OverlapInv'
    BY <2>1, <2>3, SilentCounts DEF OverlapInv
  <2>4. ASSUME NEW e \in Events, O!PublishOk(r, e) \/ O!PublishError(r, e)
        PROVE  OverlapInv'
    <3>1. O!Send(e) \/ (O!PublishError(r, e) /\ UNCHANGED <<log, faults>>)
      BY <2>4 DEF O!PublishOk, O!PublishError
    <3> QED
      BY <2>1, <2>4, <3>1, SilentCounts, PublishCounts DEF OverlapInv
  <2>5. \A e \in Events : ~O!MarkFailed(r, e)
    BY DEF O!MarkFailed, OverlapInv, SteadyInv, TableKnows
  <2> QED
    BY <2>1, <2>2, <2>3, <2>4, <2>5 DEF O!RelayWork
<1> QED
  BY <1>1, <1>2

(* Every step keeps the count. *)
LEMMA OverlapStep ==
    ASSUME Steady, OverlapInv, [FNext]_fvars
    PROVE  OverlapInv'
<1>1. ASSUME NEW e \in Events,
             \/ IdempotencyCheck(e) \/ InsertOutbox(e)
             \/ InsertOutboxError(e) \/ InsertOutboxAnswerLost(e) \/ RequestDies(e)
      PROVE  OverlapInv'
  BY <1>1, CheckCounts, InsertCounts, RequestEndsCounts, LostInsertCounts
     DEF OverlapInv
<1>2. ASSUME NEW r \in Relays, RelayWorks(r) \/ \E e \in Events : RelayFrees(r, e)
      PROVE  OverlapInv'
  BY <1>2, RelayCounts
<1>3. CASE OutboxEnvironment
  BY <1>3, OutboxTimeCounts DEF OverlapInv
<1>4. ASSUME NEW c \in Consumers,
             ConsumerLoop(c) \/ HandlerRecords(c) \/ HandlerCompletes(c)
                 \/ HandlerFails(c) \/ HandlerReturnsEarly(c)
      PROVE  OverlapInv'
  <2>1. CASE ConsumerLoop(c)
    <3>1. GroupInv
      BY DEF OverlapInv, SteadyInv, GroupInv
    <3>2. /\ GroupInv' /\ UNCHANGED tried
          /\ faults' = faults \/ (faults < MaxFaults /\ faults' = faults + 1)
      BY <2>1, <3>1, FetchReads, CommitReads DEF ConsumerLoop
    <3> QED
      BY <2>1, <3>2, LoopCounts DEF OverlapInv, ConsumerLoop
  <2> QED
    BY <1>4, <2>1, HandlerRecordsCounts, HandlerCounts DEF OverlapInv
<1>5. CASE ConsumerEnvironment
  <2>1. PICK p \in Partitions, c \in Consumers :
           C!Assign(p, c) /\ UNCHANGED <<outboxOnly, request, lock, status>>
    BY <1>5 DEF Steady, ConsumerEnvironment, C!Revoke, C!ConsumerCrash, C!CFault
  <2>2. GroupInv
    BY DEF OverlapInv, SteadyInv, GroupInv
  <2>3. GroupInv' /\ UNCHANGED <<tried, faults>>
    BY <2>1, <2>2, AssignReads
  <2> QED
    BY <2>1, <2>3, LoopCounts DEF OverlapInv
<1>6. ASSUME NEW k \in Keys, LockExpires(k) PROVE OverlapInv'
  BY <1>6, ExpiryCounts DEF OverlapInv
<1>7. CASE Quiet \/ UNCHANGED fvars
  <2>1. UNCHANGED <<outboxOnly, faults, consumerOnly, request, lock, status>>
    BY <1>7 DEF Quiet, fvars
  <2>2. UNCHANGED <<row, created, retries, due, stale, task, log, freed, owner, position,
                    committed, cpc, hand, handled, tried, dlq>>
    BY <2>1 DEF outboxOnly, consumerOnly
  <2>3. FlowTyped'
    BY <2>1, <2>2 DEF OverlapInv, SteadyInv, FlowTyped, O!OTypeOK
  <2>4. GroupInv'
    BY <2>1, <2>2, <2>3, BrokerStays DEF OverlapInv, GroupInv
  <2> QED
    BY <2>1, <2>2, <2>4, LoopCounts DEF OverlapInv
<1> QED
  BY <1>1, <1>2, <1>3, <1>4, <1>5, <1>6, <1>7 DEF FNext

(* Nobody has a ticket yet. *)
LEMMA OverlapStarts == FInit => OverlapInv
<1> SUFFICES ASSUME FInit PROVE OverlapInv
  OBVIOUS
<1>1. FlowInv
  BY FlowStarts
<1>2. \A e \in Events : row[e] = "none" /\ request[e] = "new"
  BY DEF FInit, O!OInit
<1>3. \A e \in Events : Delivered(e) = {} /\ \A r \in Relays : task[r][e] = "none"
  BY <1>1, <1>2, NotYetThere
<1>4. \A e \in Events : TableKnows(e)
  BY <1>2, <1>3 DEF TableKnows
<1>5. LogSorted
  BY <1>1 DEF FlowInv, LogKnows, LogSorted
<1>6. SteadyInv
  BY <1>1, <1>4, <1>5 DEF SteadyInv, FlowInv
<1>7. \A e \in Events, i \in Nat : ~Ticket(e, i)
  BY <1>2, <1>3 DEF Ticket, Open
<1>8. ASSUME NEW k \in Keys PROVE Counted(k)
  <2>1. Tickets(k) = {}
    BY <1>7 DEF Tickets
  <2>2. faults = 0
    BY DEF FInit, O!OInit
  <2>3. IsFiniteSet(Tickets(k)) /\ Cardinality(Tickets(k)) = 0
    BY <2>1, FS_EmptySet
  <2> QED
    BY <2>2, <2>3 DEF Counted
<1> QED
  BY <1>6, <1>8 DEF OverlapInv

(* Whoever is in flight has a ticket. *)
LEMMA FlightHasTicket ==
    ASSUME SteadyInv, NEW e \in Events, InFlight(e)
    PROVE  \E i \in Nat : Ticket(e, i)
<1>1. /\ row[e] # "none"
      /\ row[e] = "failed" => Delivered(e) # {}
      /\ \A i \in Delivered(e) : <<PartitionOf[e], i>> \notin tried
  BY FlightIs
<1>2. Delivered(e) \subseteq Nat
  BY FlowAssumption DEF SteadyInv, FlowTyped, O!OTypeOK, Delivered
<1>3. CASE Delivered(e) # {}
  BY <1>1, <1>2, <1>3 DEF Ticket
<1>4. CASE Delivered(e) = {}
  <2>1. /\ row[e] # "published" /\ row[e] # "failed"
        /\ \A r \in Relays : task[r][e] # "markPublished"
    BY <1>1, <1>4 DEF SteadyInv, TableKnows
  <2>2. row[e] \in O!RowStates
    BY DEF SteadyInv, FlowTyped, O!OTypeOK
  <2>3. row[e] \in {"pending", "claimed"}
    BY <1>1, <2>1, <2>2 DEF O!RowStates
  <2> QED
    BY <2>1, <2>3 DEF Ticket, Open
<1> QED
  BY <1>3, <1>4

(* When locks are lost and messages come twice, at most one more transaction
   of an account is in flight for every fault, for any number of requests,
   accounts, relays and replicas. *)
THEOREM OverlapIsBounded == Steady => (FSpec => []OverlapBounded)
<1> SUFFICES ASSUME Steady PROVE FSpec => []OverlapBounded
  OBVIOUS
<1>1. OverlapInv /\ [FNext]_fvars => OverlapInv'
  BY OverlapStep
<1>2. ASSUME OverlapInv PROVE OverlapBounded
  <2> SUFFICES ASSUME NEW k \in Keys
               PROVE  Cardinality({e \in Events : KeyOf[e] = k /\ InFlight(e)}) <= 1 + faults
    BY DEF OverlapBounded
  <2> DEFINE F == {e \in Events : KeyOf[e] = k /\ InFlight(e)}
             g == [e \in F |-> <<e, CHOOSE i \in Nat : Ticket(e, i)>>]
  <2>1. ASSUME NEW e \in F PROVE g[e] \in Tickets(k) /\ g[e][1] = e
    <3>1. \E i \in Nat : Ticket(e, i)
      BY <1>2, FlightHasTicket DEF OverlapInv
    <3>2. PICK i \in Nat : i = (CHOOSE j \in Nat : Ticket(e, j)) /\ Ticket(e, i)
      BY <3>1
    <3>3. g[e] = <<e, i>>
      BY <3>2
    <3> QED
      BY <3>2, <3>3 DEF Tickets
  <2>2. g \in Injection(F, Tickets(k))
    <3>1. g \in [F -> Tickets(k)]
      BY <2>1
    <3>2. \A a, b \in F : g[a] = g[b] => a = b
      BY <2>1
    <3> HIDE DEF g
    <3> QED
      BY <3>1, <3>2 DEF Injection, IsInjective
  <2>3. /\ IsFiniteSet(Tickets(k)) /\ Cardinality(Tickets(k)) \in Nat
        /\ faults \in Nat /\ Cardinality(Tickets(k)) <= faults + 1
    <3>1. IsFiniteSet(Tickets(k))
      BY <1>2 DEF OverlapInv, Counted
    <3>2. Cardinality(Tickets(k)) \in Nat
      BY <3>1, FS_CardinalityType
    <3>3. faults \in Nat
      BY <1>2, FlowAssumption DEF OverlapInv, SteadyInv, FlowTyped, O!OTypeOK
    <3>4. Cardinality(Tickets(k)) <= faults + (IF LockFresh(k) THEN 1 ELSE 0)
      BY <1>2 DEF OverlapInv, Counted
    <3> QED
      BY <3>1, <3>2, <3>3, <3>4
  <2> HIDE DEF g, F
  <2>4. IsFiniteSet(F) /\ Cardinality(F) <= Cardinality(Tickets(k))
    BY <2>2, <2>3, FS_Injection
  <2>5. Cardinality(F) \in Nat
    BY <2>4, FS_CardinalityType
  <2>6. Cardinality(F) <= 1 + faults
    BY <2>3, <2>4, <2>5
  <2> QED
    BY <2>6 DEF F
<1> QED
  BY <1>1, <1>2, OverlapStarts, PTL DEF FSpec

=============================================================================
