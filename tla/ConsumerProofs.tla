--------------------------- MODULE ConsumerProofs ---------------------------
(***************************************************************************)
(* Proofs about Consumer, for any replicas, partitions, messages and       *)
(* faults: handlers and commits that fail, dead letters that are refused,  *)
(* rebalances and crashes, in any number and order.                        *)
(***************************************************************************)
EXTENDS Consumer, FiniteSetTheorems, TLAPS

-----------------------------------------------------------------------------
(* The inductive invariant                                                 *)

(* A replica has a message in hand unless it is about to fetch one; every
   message before it in the partition has been given to a handler, and itself
   too once the handler has returned. *)
HandsInOrder ==
    \A c \in Consumers :
        /\ cpc[c] # "fetch" =>
              /\ hand[c] \in Places
              /\ \A i \in 1..hand[c][2] - 1 : <<hand[c][1], i>> \in tried
        /\ cpc[c] \in {"dlq", "commit"} => hand[c] \in tried

(* What the owner of a partition has fetched was given to a handler, but for
   the message in its hand. *)
FetchedWasTried ==
    \A p \in Partitions : owner[p] # NoConsumer =>
        \A i \in 1..position[p] :
            \/ <<p, i>> \in tried
            \/ hand[owner[p]] = <<p, i>> /\ cpc[owner[p]] = "dispatch"

(* The message is in the hand of the owner of its partition, which has not
   committed it: whatever becomes of it is still up to this replica. *)
InGoodHands(place) ==
    \E c \in Consumers :
        /\ owner[place[1]] = c
        /\ hand[c] = place
        /\ cpc[c] \in {"dispatch", "dlq"}
        /\ committed[place[1]] < place[2]

(* Messages somebody has or had in hand, that are neither handled nor dead
   letters, and that nobody may ever see again. *)
AtRisk ==
    {place \in Places :
        /\ place \notin handled \cup dlq
        /\ \/ place \in tried
           \/ \E c \in Consumers : hand[c] = place /\ cpc[c] \in {"dispatch", "dlq"}
        /\ ~InGoodHands(place)}

(* Every message at risk has cost a fault of its own. *)
RisksBounded == Cardinality(AtRisk) <= cfaults

ConsumeInv ==
    /\ CTypeOK
    /\ HandsInOrder
    /\ FetchedWasTried
    /\ CommittedWasTried
    /\ RisksBounded

-----------------------------------------------------------------------------
(* Order                                                                   *)

OrderInv == CTypeOK /\ HandsInOrder /\ FetchedWasTried /\ CommittedWasTried

(* A place is a partition and a number. *)
LEMMA PlaceParts ==
    ASSUME NEW place \in Places
    PROVE  /\ place[1] \in Partitions /\ place[2] \in 1..MaxLength
           /\ place = <<place[1], place[2]>>
BY DEF Places

(* The loop of c goes back to its start. *)
LEMMA NextMessageTyped ==
    ASSUME CTypeOK, NEW c \in Consumers, NextMessage(c)
    PROVE  /\ cpc' \in [Consumers -> {"fetch", "dispatch", "dlq", "commit"}]
           /\ hand' \in [Consumers -> Places \cup {NoMessage}]
           /\ cpc'[c] = "fetch" /\ hand'[c] = NoMessage
           /\ \A d \in Consumers : d # c => cpc'[d] = cpc[d] /\ hand'[d] = hand[d]
BY DEF CTypeOK, NextMessage

(* Faults are counted up to the bound. *)
LEMMA CFaultCounts ==
    ASSUME CTypeOK, NEW kind, CFault(kind)
    PROVE  cfaults' \in 0..MaxFaults /\ cfaults' = cfaults + 1
BY ConsumerAssumption DEF CTypeOK, CFault

(* Before the first message there is nothing to be said. *)
LEMMA InitOrder == CInit => OrderInv
<1> SUFFICES ASSUME CInit PROVE OrderInv
  OBVIOUS
<1>1. CTypeOK
  BY ConsumerAssumption DEF CInit, CTypeOK
<1> QED
  BY <1>1 DEF CInit, OrderInv, HandsInOrder, FetchedWasTried, CommittedWasTried

(* The group: a new owner begins after what was committed, and one that lost
   its partition may keep its message. *)
LEMMA GroupKeepsOrder ==
    ASSUME OrderInv, NEW p \in Partitions,
           \/ \E m \in Messages : Produce(p, m)
           \/ \E c \in Consumers : Assign(p, c)
           \/ Revoke(p)
    PROVE  OrderInv'
<1> USE DEF OrderInv
<1>1. ASSUME NEW m \in Messages, Produce(p, m) PROVE OrderInv'
  <2>1. UNCHANGED <<owner, position, committed, cpc, hand, handled, tried, dlq, cfaults>>
    BY <1>1 DEF Produce
  <2>2. /\ log' \in [Partitions -> Seq(Messages)]
        /\ \A q \in Partitions : Len(log'[q]) <= MaxLength
    <3>1. Len(log[p]) \in Nat /\ log[p] \in Seq(Messages)
      BY DEF CTypeOK
    <3>2. Len(Append(log[p], m)) = Len(log[p]) + 1 /\ Append(log[p], m) \in Seq(Messages)
      BY <3>1
    <3> QED
      BY <1>1, <3>1, <3>2, ConsumerAssumption DEF Produce, CTypeOK
  <2> QED
    BY <2>1, <2>2 DEF CTypeOK, HandsInOrder, FetchedWasTried, CommittedWasTried
<1>2. ASSUME NEW c \in Consumers, Assign(p, c) PROVE OrderInv'
  <2>1. /\ owner' \in [Partitions -> Consumers \cup {NoConsumer}]
        /\ position' \in [Partitions -> 0..MaxLength]
        /\ position'[p] = committed[p]
        /\ \A q \in Partitions : q # p => owner'[q] = owner[q] /\ position'[q] = position[q]
        /\ UNCHANGED <<log, committed, cpc, hand, handled, tried, dlq, cfaults>>
    BY <1>2 DEF Assign, StartOffset, CTypeOK
  <2>2. CTypeOK'
    BY <2>1 DEF CTypeOK
  <2>3. HandsInOrder' /\ CommittedWasTried'
    BY <2>1 DEF HandsInOrder, CommittedWasTried
  <2>4. FetchedWasTried'
    BY <2>1 DEF FetchedWasTried, CommittedWasTried
  <2> QED
    BY <2>2, <2>3, <2>4
<1>3. ASSUME Revoke(p) PROVE OrderInv'
  <2>1. /\ owner' \in [Partitions -> Consumers \cup {NoConsumer}]
        /\ owner'[p] = NoConsumer /\ \A q \in Partitions : q # p => owner'[q] = owner[q]
        /\ UNCHANGED <<log, position, committed, cpc, hand, handled, tried, dlq>>
        /\ cfaults' \in 0..MaxFaults
    BY <1>3, CFaultCounts DEF Revoke, CTypeOK
  <2> QED
    BY <2>1 DEF CTypeOK, HandsInOrder, FetchedWasTried, CommittedWasTried
<1> QED
  BY <1>1, <1>2, <1>3

(* A replica that dies loses its message and all its partitions. *)
LEMMA CrashKeepsOrder ==
    ASSUME OrderInv, NEW c \in Consumers, ConsumerCrash(c)
    PROVE  OrderInv'
<1>1. /\ NextMessage(c) /\ cfaults' \in 0..MaxFaults
      /\ owner' \in [Partitions -> Consumers \cup {NoConsumer}]
      /\ \A p \in Partitions : owner'[p] # NoConsumer =>
            owner'[p] = owner[p] /\ owner[p] \in Consumers \ {c}
      /\ UNCHANGED <<log, position, committed, handled, tried, dlq>>
  BY CFaultCounts DEF ConsumerCrash, OrderInv, CTypeOK
<1>2. CTypeOK'
  BY <1>1, NextMessageTyped DEF OrderInv, CTypeOK
<1>3. HandsInOrder'
  BY <1>1, NextMessageTyped DEF OrderInv, HandsInOrder
<1>4. FetchedWasTried'
  BY <1>1, NextMessageTyped DEF OrderInv, FetchedWasTried
<1>5. CommittedWasTried'
  BY <1>1 DEF OrderInv, CommittedWasTried
<1> QED
  BY <1>2, <1>3, <1>4, <1>5 DEF OrderInv

(* The next message follows those the owner has fetched, and these have been
   given to a handler: the loop takes one message at a time. *)
LEMMA FetchKeepsOrder ==
    ASSUME OrderInv, NEW c \in Consumers, NEW p \in Partitions, FetchMessage(c, p)
    PROVE  OrderInv'
<1> DEFINE place == <<p, position[p] + 1>>
<1>1. /\ cpc[c] = "fetch" /\ owner[p] = c /\ position[p] < Len(log[p])
      /\ UNCHANGED <<log, owner, committed, handled, tried, dlq, cfaults>>
  BY DEF FetchMessage
<1>2. position[p] \in Nat /\ position[p] + 1 \in 1..MaxLength /\ place \in Places
  BY <1>1, ConsumerAssumption DEF OrderInv, CTypeOK, Places
<1>3. /\ position' \in [Partitions -> 0..MaxLength]
      /\ position'[p] = position[p] + 1
      /\ \A q \in Partitions : q # p => position'[q] = position[q]
  BY <1>2 DEF FetchMessage, OrderInv, CTypeOK
<1>4. /\ hand' \in [Consumers -> Places \cup {NoMessage}]
      /\ cpc' \in [Consumers -> {"fetch", "dispatch", "dlq", "commit"}]
      /\ hand'[c] = place /\ cpc'[c] = "dispatch"
      /\ \A d \in Consumers : d # c => cpc'[d] = cpc[d] /\ hand'[d] = hand[d]
  BY <1>2 DEF FetchMessage, OrderInv, CTypeOK
<1>5. c # NoConsumer
  BY ConsumerAssumption
<1>6. \A i \in 1..position[p] : <<p, i>> \in tried
  BY <1>1, <1>5 DEF OrderInv, FetchedWasTried
<1>7. CTypeOK'
  BY <1>1, <1>3, <1>4 DEF OrderInv, CTypeOK
<1>8. HandsInOrder'
  <2>1. place[1] = p /\ place[2] - 1 = position[p]
    BY <1>2
  <2>2. \A i \in 1..place[2] - 1 : <<place[1], i>> \in tried
    BY <1>6, <2>1
  <2> HIDE DEF place
  <2> QED
    BY <1>1, <1>2, <1>4, <2>2 DEF OrderInv, HandsInOrder
<1>9. FetchedWasTried'
  <2> SUFFICES ASSUME NEW q \in Partitions, owner[q] # NoConsumer,
                      NEW i \in 1..position'[q]
               PROVE  \/ <<q, i>> \in tried
                      \/ hand'[owner[q]] = <<q, i>> /\ cpc'[owner[q]] = "dispatch"
    BY <1>1 DEF FetchedWasTried
  <2>1. CASE q = p
    BY <2>1, <1>1, <1>2, <1>3, <1>4, <1>6
  <2>2. CASE q # p
    <3>1. owner[q] \in Consumers
      BY DEF OrderInv, CTypeOK
    <3> QED
      BY <2>2, <3>1, <1>1, <1>3, <1>4 DEF OrderInv, FetchedWasTried
  <2> QED
    BY <2>1, <2>2
<1>10. CommittedWasTried'
  BY <1>1 DEF OrderInv, CommittedWasTried
<1> QED
  BY <1>7, <1>8, <1>9, <1>10 DEF OrderInv

(* The handler returns, in one of its ways, or the dead letter is written. *)
LEMMA DispatchKeepsOrder ==
    ASSUME OrderInv, NEW c \in Consumers,
           \/ DispatchOk(c) \/ DispatchInvalid(c) \/ DispatchError(c)
           \/ AppendToDlq(c)
    PROVE  OrderInv'
<1>1. /\ cpc[c] \in {"dispatch", "dlq"}
      /\ tried' = tried \cup {hand[c]}
      /\ UNCHANGED <<log, owner, position, committed>>
      /\ \/ NextMessage(c)
         \/ hand' = hand /\ \E s \in {"dlq", "commit"} : cpc' = [cpc EXCEPT ![c] = s]
      /\ handled' \subseteq handled \cup {hand[c]}
      /\ dlq' \subseteq dlq \cup {hand[c]}
      /\ cfaults' \in 0..MaxFaults
  <2>1. OrderInv => CTypeOK /\ cfaults \in 0..MaxFaults
    BY DEF OrderInv, CTypeOK
  <2>2. cpc[c] = "dlq" => tried = tried \cup {hand[c]}
    BY DEF OrderInv, HandsInOrder
  <2>3. \A kind : CFault(kind) => cfaults' \in 0..MaxFaults
    BY <2>1, CFaultCounts
  <2>4. CASE DispatchOk(c)
    BY <2>1, <2>4 DEF DispatchOk
  <2>5. CASE DispatchInvalid(c)
    BY <2>1, <2>5 DEF DispatchInvalid
  <2>6. CASE DispatchError(c)
    BY <2>3, <2>6 DEF DispatchError
  <2>7. CASE AppendToDlq(c)
    BY <2>1, <2>2, <2>3, <2>7 DEF AppendToDlq
  <2> QED
    BY <2>4, <2>5, <2>6, <2>7
<1>2. /\ cpc' \in [Consumers -> {"fetch", "dispatch", "dlq", "commit"}]
      /\ hand' \in [Consumers -> Places \cup {NoMessage}]
      /\ cpc'[c] \in {"fetch", "dlq", "commit"}
      /\ cpc'[c] # "fetch" => hand'[c] = hand[c]
      /\ \A d \in Consumers : d # c => cpc'[d] = cpc[d] /\ hand'[d] = hand[d]
  <2>1. CASE NextMessage(c)
    BY <2>1, NextMessageTyped DEF OrderInv
  <2>2. CASE hand' = hand /\ \E s \in {"dlq", "commit"} : cpc' = [cpc EXCEPT ![c] = s]
    BY <2>2 DEF OrderInv, CTypeOK
  <2> QED
    BY <1>1, <2>1, <2>2
<1>3. hand[c] \in Places
  BY <1>1 DEF OrderInv, HandsInOrder
<1>4. CTypeOK'
  BY <1>1, <1>2, <1>3 DEF OrderInv, CTypeOK
<1>5. HandsInOrder'
  BY <1>1, <1>2, <1>3 DEF OrderInv, HandsInOrder
<1>6. FetchedWasTried'
  <2> SUFFICES ASSUME NEW p \in Partitions, owner[p] # NoConsumer,
                      NEW i \in 1..position[p]
               PROVE  \/ <<p, i>> \in tried'
                      \/ hand'[owner[p]] = <<p, i>> /\ cpc'[owner[p]] = "dispatch"
    BY <1>1 DEF FetchedWasTried
  <2>1. \/ <<p, i>> \in tried
        \/ hand[owner[p]] = <<p, i>> /\ cpc[owner[p]] = "dispatch"
    BY DEF OrderInv, FetchedWasTried
  <2>2. owner[p] \in Consumers
    BY DEF OrderInv, CTypeOK
  <2> QED
    BY <1>1, <1>2, <2>1, <2>2
<1>7. CommittedWasTried'
  BY <1>1 DEF OrderInv, CommittedWasTried
<1> QED
  BY <1>4, <1>5, <1>6, <1>7 DEF OrderInv

(* A commit, accepted, refused or failed: everything up to the message was
   given to a handler, though the offset may go backwards. *)
LEMMA CommitKeepsOrder ==
    ASSUME OrderInv, NEW c \in Consumers, CommitMessages(c)
    PROVE  OrderInv'
<1> DEFINE p == hand[c][1]
<1>1. /\ cpc[c] = "commit" /\ NextMessage(c)
      /\ UNCHANGED <<log, owner, position, handled, tried, dlq>>
      /\ \/ UNCHANGED committed
         \/ committed' = [committed EXCEPT ![p] = hand[c][2]]
  BY DEF CommitMessages, OffsetAfter
<1>2. cfaults' \in 0..MaxFaults
  <2>1. \/ cfaults' = cfaults
        \/ CFault("commitError")
    BY DEF CommitMessages
  <2> QED
    BY <2>1, CFaultCounts DEF OrderInv, CTypeOK
<1>3. /\ hand[c] \in Places /\ hand[c] \in tried
      /\ p \in Partitions /\ hand[c][2] \in 1..MaxLength
      /\ hand[c] = <<p, hand[c][2]>>
      /\ \A i \in 1..hand[c][2] - 1 : <<p, i>> \in tried
  BY <1>1, PlaceParts DEF OrderInv, HandsInOrder
<1>4. \A i \in 1..hand[c][2] : <<p, i>> \in tried
  <2> SUFFICES ASSUME NEW i \in 1..hand[c][2] PROVE <<p, i>> \in tried
    OBVIOUS
  <2>1. i = hand[c][2] \/ i \in 1..hand[c][2] - 1
    BY <1>3
  <2> QED
    BY <1>3, <2>1
<1> HIDE DEF p
<1>5. committed' \in [Partitions -> 0..MaxLength] /\ CommittedWasTried'
  <2>1. CASE UNCHANGED committed
    BY <1>1, <2>1 DEF OrderInv, CTypeOK, CommittedWasTried
  <2>2. CASE committed' = [committed EXCEPT ![p] = hand[c][2]]
    <3>1. /\ committed' \in [Partitions -> 0..MaxLength]
          /\ committed'[p] = hand[c][2]
          /\ \A q \in Partitions : q # p => committed'[q] = committed[q]
      BY <1>3, <2>2 DEF OrderInv, CTypeOK
    <3> QED
      BY <1>1, <1>4, <3>1 DEF OrderInv, CommittedWasTried
  <2> QED
    BY <1>1, <2>1, <2>2
<1>6. CTypeOK'
  BY <1>1, <1>2, <1>5, NextMessageTyped DEF OrderInv, CTypeOK
<1>7. HandsInOrder'
  BY <1>1, NextMessageTyped DEF OrderInv, HandsInOrder
<1>8. FetchedWasTried'
  <2> SUFFICES ASSUME NEW q \in Partitions, owner[q] # NoConsumer,
                      NEW i \in 1..position[q]
               PROVE  \/ <<q, i>> \in tried
                      \/ hand'[owner[q]] = <<q, i>> /\ cpc'[owner[q]] = "dispatch"
    BY <1>1 DEF FetchedWasTried
  <2>1. \/ <<q, i>> \in tried
        \/ hand[owner[q]] = <<q, i>> /\ cpc[owner[q]] = "dispatch"
    BY DEF OrderInv, FetchedWasTried
  <2>2. owner[q] \in Consumers
    BY DEF OrderInv, CTypeOK
  <2> QED
    BY <1>1, <2>1, <2>2, NextMessageTyped DEF OrderInv
<1> QED
  BY <1>5, <1>6, <1>7, <1>8 DEF OrderInv

(* No step of the group or of a replica breaks the order. *)
LEMMA StepKeepsOrder == OrderInv /\ [CNext]_cvars => OrderInv'
<1> SUFFICES ASSUME OrderInv, [CNext]_cvars PROVE OrderInv'
  OBVIOUS
<1>1. CASE UNCHANGED cvars
  BY <1>1 DEF cvars, OrderInv, CTypeOK, HandsInOrder, FetchedWasTried, CommittedWasTried
<1> QED
  BY <1>1, GroupKeepsOrder, CrashKeepsOrder, FetchKeepsOrder, DispatchKeepsOrder,
     CommitKeepsOrder
     DEF CNext, Loop, Consumed

(* Offsets, positions, dead letters and what a replica has in hand keep their
   types, whatever is revoked, crashes or fails. *)
THEOREM ConsumerTyped == CSpec => []CTypeOK
<1>1. OrderInv => CTypeOK
  BY DEF OrderInv
<1> QED
  BY <1>1, InitOrder, StepKeepsOrder, PTL DEF CSpec

(* Nothing is committed before it was given to a handler: every message below
   the committed offset has been, whatever is revoked, crashes or fails. *)
THEOREM CommittedTried == CSpec => []CommittedWasTried
<1>1. OrderInv => CommittedWasTried
  BY DEF OrderInv
<1> QED
  BY <1>1, InitOrder, StepKeepsOrder, PTL DEF CSpec

-----------------------------------------------------------------------------
(* Losses                                                                  *)

(* There are finitely many places. *)
LEMMA AtRiskIsFinite ==
    /\ IsFiniteSet(Places)
    /\ \A S \in SUBSET Places : IsFiniteSet(S) /\ Cardinality(S) \in Nat
    /\ AtRisk \in SUBSET Places
<1>1. IsFiniteSet(1..MaxLength)
  BY ConsumerAssumption, FS_Interval
<1>2. IsFiniteSet(Places)
  BY <1>1, ConsumerAssumption, FS_Product DEF Places
<1> QED
  BY <1>2, FS_Subset, FS_CardinalityType DEF AtRisk

(* A step without a fault puts nothing more at risk. *)
LEMMA NoNewRisk ==
    ASSUME ConsumeInv, AtRisk' \subseteq AtRisk, cfaults' = cfaults
    PROVE  RisksBounded'
<1>1. Cardinality(AtRisk') <= Cardinality(AtRisk) /\ Cardinality(AtRisk') \in Nat
  BY AtRiskIsFinite, FS_Subset
<1>2. Cardinality(AtRisk) \in Nat /\ Cardinality(AtRisk) <= cfaults /\ cfaults \in Nat
  BY AtRiskIsFinite DEF ConsumeInv, RisksBounded, CTypeOK
<1> QED
  BY <1>1, <1>2 DEF RisksBounded

(* A fault puts at most one more message at risk. *)
LEMMA OneNewRisk ==
    ASSUME ConsumeInv, NEW place, AtRisk' \subseteq AtRisk \cup {place},
           cfaults' = cfaults + 1
    PROVE  RisksBounded'
<1>1. /\ IsFiniteSet(AtRisk \cup {place})
      /\ Cardinality(AtRisk \cup {place}) <= Cardinality(AtRisk) + 1
      /\ Cardinality(AtRisk) \in Nat
  BY AtRiskIsFinite, FS_AddElement
<1>2. Cardinality(AtRisk') <= Cardinality(AtRisk \cup {place})
  BY <1>1, FS_Subset
<1>3. Cardinality(AtRisk') \in Nat /\ Cardinality(AtRisk \cup {place}) \in Nat
  BY <1>1, FS_Subset, FS_CardinalityType
<1>4. Cardinality(AtRisk) <= cfaults /\ cfaults \in Nat
  BY DEF ConsumeInv, RisksBounded, CTypeOK
<1> QED
  BY <1>1, <1>2, <1>3, <1>4 DEF RisksBounded

(* Messages that arrive and partitions that find an owner put nothing at risk;
   one that is taken away may do so with the message in its owner's hand. *)
LEMMA GroupRisk ==
    ASSUME ConsumeInv, NEW p \in Partitions,
           \/ \E m \in Messages : Produce(p, m)
           \/ \E c \in Consumers : Assign(p, c)
           \/ Revoke(p)
    PROVE  RisksBounded'
<1>1. UNCHANGED <<committed, cpc, hand, handled, tried, dlq>>
  BY DEF Produce, Assign, Revoke
<1>2. ASSUME NEW m \in Messages, Produce(p, m) PROVE RisksBounded'
  <2>1. UNCHANGED <<owner, cfaults>>
    BY <1>2 DEF Produce
  <2>2. AtRisk' = AtRisk
    BY <1>1, <2>1 DEF AtRisk, InGoodHands
  <2> QED
    BY <2>1, <2>2, NoNewRisk
<1>3. ASSUME NEW c \in Consumers, Assign(p, c) PROVE RisksBounded'
  <2>1. /\ UNCHANGED cfaults /\ owner[p] = NoConsumer
        /\ \A q \in Partitions : q # p => owner'[q] = owner[q]
    BY <1>3 DEF Assign, ConsumeInv, CTypeOK
  <2>2. \A place \in Places : InGoodHands(place) => InGoodHands(place)'
    BY <1>1, <2>1, PlaceParts, ConsumerAssumption DEF InGoodHands
  <2>3. AtRisk' \subseteq AtRisk
    BY <1>1, <2>2 DEF AtRisk
  <2> QED
    BY <2>1, <2>3, NoNewRisk
<1>4. ASSUME Revoke(p) PROVE RisksBounded'
  <2>1. /\ CFault("rebalance")
        /\ \A q \in Partitions : q # p => owner'[q] = owner[q]
    BY <1>4 DEF Revoke, ConsumeInv, CTypeOK
  <2>2. cfaults' = cfaults + 1
    BY <2>1, CFaultCounts DEF ConsumeInv
  <2>3. \A place \in Places :
            InGoodHands(place) => InGoodHands(place)' \/ place = hand[owner[p]]
    BY <1>1, <2>1, PlaceParts DEF InGoodHands
  <2>4. AtRisk' \subseteq AtRisk \cup {hand[owner[p]]}
    BY <1>1, <2>3 DEF AtRisk
  <2> QED
    BY <2>2, <2>4, OneNewRisk
<1> QED
  BY <1>2, <1>3, <1>4

(* A crash costs at most the message in hand. *)
LEMMA CrashRisk ==
    ASSUME ConsumeInv, NEW c \in Consumers, ConsumerCrash(c)
    PROVE  RisksBounded'
<1>1. /\ CFault("rebalance") /\ NextMessage(c)
      /\ \A q \in Partitions : owner[q] # c => owner'[q] = owner[q]
      /\ UNCHANGED <<committed, handled, tried, dlq>>
  BY DEF ConsumerCrash, ConsumeInv, CTypeOK
<1>2. cfaults' = cfaults + 1
  BY <1>1, CFaultCounts DEF ConsumeInv
<1>3. /\ cpc'[c] = "fetch"
      /\ \A d \in Consumers : d # c => cpc'[d] = cpc[d] /\ hand'[d] = hand[d]
  BY <1>1, NextMessageTyped DEF ConsumeInv
<1>4. \A place \in Places :
          InGoodHands(place) => InGoodHands(place)' \/ place = hand[c]
  BY <1>1, <1>3, PlaceParts DEF InGoodHands
<1>5. AtRisk' \subseteq AtRisk \cup {hand[c]}
  BY <1>1, <1>3, <1>4 DEF AtRisk
<1> QED
  BY <1>2, <1>5, OneNewRisk

(* A message that is fetched is in good hands; one that was committed before
   is fetched again only after it was given to a handler. *)
LEMMA FetchRisk ==
    ASSUME ConsumeInv, NEW c \in Consumers, NEW p \in Partitions, FetchMessage(c, p)
    PROVE  RisksBounded'
<1>1. /\ cpc[c] = "fetch" /\ owner[p] = c /\ position[p] < Len(log[p])
      /\ UNCHANGED <<log, owner, committed, handled, tried, dlq, cfaults>>
      /\ hand'[c] = <<p, position[p] + 1>> /\ cpc'[c] = "dispatch"
      /\ \A d \in Consumers : d # c => cpc'[d] = cpc[d] /\ hand'[d] = hand[d]
  BY DEF FetchMessage, ConsumeInv, CTypeOK
<1>2. position[p] \in Nat /\ committed[p] \in Nat /\ position[p] + 1 \in 1..MaxLength
  BY <1>1, ConsumerAssumption DEF ConsumeInv, CTypeOK
<1>3. PICK place \in Places : place = <<p, position[p] + 1>>
  BY <1>2 DEF Places
<1>4. place[1] = p /\ place[2] = position[p] + 1
  BY <1>3
<1>5. \/ committed[p] < place[2]
      \/ place \in tried
  BY <1>2, <1>3, <1>4 DEF ConsumeInv, CommittedWasTried
<1>6. InGoodHands(place)' \/ place \in tried
  BY <1>1, <1>3, <1>4, <1>5 DEF InGoodHands
<1>7. \A other \in Places : InGoodHands(other) => InGoodHands(other)'
  BY <1>1, PlaceParts DEF InGoodHands
<1>8. AtRisk' \subseteq AtRisk
  BY <1>1, <1>3, <1>6, <1>7 DEF AtRisk
<1> QED
  BY <1>1, <1>8, NoNewRisk

(* The handler succeeds or the dead letter is written: the message is safe.
   They fail: it is at risk, at the price of that fault. *)
LEMMA DispatchRisk ==
    ASSUME ConsumeInv, NEW c \in Consumers,
           \/ DispatchOk(c) \/ DispatchInvalid(c) \/ DispatchError(c)
           \/ AppendToDlq(c)
    PROVE  RisksBounded'
<1>1. /\ cpc[c] \in {"dispatch", "dlq"}
      /\ UNCHANGED <<owner, committed>>
      /\ handled \subseteq handled' /\ dlq \subseteq dlq'
      /\ tried' \subseteq tried \cup {hand[c]}
      /\ \A d \in Consumers : d # c => cpc'[d] = cpc[d] /\ hand'[d] = hand[d]
  BY NextMessageTyped
     DEF DispatchOk, DispatchInvalid, DispatchError, AppendToDlq, ConsumeInv, CTypeOK
<1>2. \A place \in Places :
          InGoodHands(place) => InGoodHands(place)' \/ place = hand[c]
  BY <1>1, PlaceParts DEF InGoodHands
<1>3. CASE cfaults' = cfaults + 1
  <2>1. cpc'[c] # "commit" => hand'[c] = hand[c] \/ cpc'[c] = "fetch"
    BY NextMessageTyped
       DEF DispatchOk, DispatchInvalid, DispatchError, AppendToDlq, ConsumeInv, CTypeOK
  <2>2. AtRisk' \subseteq AtRisk \cup {hand[c]}
    BY <1>1, <1>2, <2>1 DEF AtRisk
  <2> QED
    BY <1>3, <2>2, OneNewRisk
<1>4. CASE cfaults' = cfaults /\ hand[c] \in handled' \cup dlq' /\ cpc'[c] = "commit"
  <2>1. AtRisk' \subseteq AtRisk
    BY <1>1, <1>2, <1>4 DEF AtRisk
  <2> QED
    BY <1>4, <2>1, NoNewRisk
<1>5. CASE cfaults' = cfaults /\ hand' = hand /\ cpc'[c] = "dlq"
  <2>1. \A place \in Places : InGoodHands(place) => InGoodHands(place)'
    BY <1>1, <1>5, PlaceParts DEF InGoodHands
  <2>2. AtRisk' \subseteq AtRisk
    BY <1>1, <1>5, <2>1 DEF AtRisk
  <2> QED
    BY <1>5, <2>2, NoNewRisk
<1>6. \A kind : CFault(kind) => cfaults' = cfaults + 1
  BY DEF CFault
<1> QED
  BY <1>3, <1>4, <1>5, <1>6
     DEF DispatchOk, DispatchInvalid, DispatchError, AppendToDlq, ConsumeInv, CTypeOK

(* A commit puts nothing at risk: what it commits has been handled, or is at
   risk already. *)
LEMMA CommitRisk ==
    ASSUME ConsumeInv, NEW c \in Consumers, CommitMessages(c)
    PROVE  RisksBounded'
<1> DEFINE p == hand[c][1]
<1>1. /\ cpc[c] = "commit" /\ NextMessage(c)
      /\ UNCHANGED <<owner, handled, tried, dlq>>
      /\ \/ UNCHANGED committed
         \/ owner[p] = c /\ committed' = [committed EXCEPT ![p] = hand[c][2]]
      /\ cfaults' = cfaults \/ cfaults' = cfaults + 1
  BY DEF CommitMessages, OffsetAfter, CFault
<1>2. /\ cpc'[c] = "fetch"
      /\ \A d \in Consumers : d # c => cpc'[d] = cpc[d] /\ hand'[d] = hand[d]
  BY <1>1, NextMessageTyped DEF ConsumeInv
<1>3. \A q \in Partitions : committed'[q] # committed[q] => owner[q] = c
  BY <1>1 DEF ConsumeInv, CTypeOK
<1>4. \A place \in Places : InGoodHands(place) => InGoodHands(place)'
  BY <1>1, <1>2, <1>3, PlaceParts DEF InGoodHands
<1>5. AtRisk' \subseteq AtRisk
  BY <1>1, <1>2, <1>4 DEF AtRisk
<1> QED
  BY <1>1, <1>5, NoNewRisk, OneNewRisk

(* No step puts more at risk than its faults account for. *)
LEMMA StepRisk == ConsumeInv /\ [CNext]_cvars => RisksBounded'
<1> SUFFICES ASSUME ConsumeInv, [CNext]_cvars PROVE RisksBounded'
  OBVIOUS
<1>1. CASE UNCHANGED cvars
  <2>1. AtRisk' = AtRisk /\ cfaults' = cfaults
    BY <1>1 DEF cvars, AtRisk, InGoodHands
  <2> QED
    BY <2>1, NoNewRisk
<1> QED
  BY <1>1, GroupRisk, CrashRisk, FetchRisk, DispatchRisk, CommitRisk
     DEF CNext, Loop, Consumed

(* One fault costs at most one message: those that the group has passed and
   that were neither handled nor made a dead letter are no more than the
   faults. *)
THEOREM LossesAreBounded == CSpec => []LossesBounded
<1>1. CInit => ConsumeInv
  <2> SUFFICES ASSUME CInit PROVE ConsumeInv
    OBVIOUS
  <2>1. AtRisk = {}
    BY DEF CInit, AtRisk
  <2> QED
    BY <2>1, InitOrder, FS_EmptySet DEF CInit, OrderInv, ConsumeInv, RisksBounded
<1>2. ConsumeInv /\ [CNext]_cvars => ConsumeInv'
  BY StepKeepsOrder, StepRisk DEF OrderInv, ConsumeInv
<1>3. ConsumeInv => LossesBounded
  <2> SUFFICES ASSUME ConsumeInv PROVE LossesBounded
    OBVIOUS
  <2> DEFINE Lost == {place \in Places :
                        /\ place[2] <= committed[place[1]]
                        /\ place \notin handled \cup dlq}
  <2>1. Lost \subseteq AtRisk
    <3> SUFFICES ASSUME NEW place \in Places, place[2] <= committed[place[1]],
                        place \notin handled \cup dlq
                 PROVE  place \in AtRisk
      OBVIOUS
    <3>1. committed[place[1]] \in Nat /\ place[2] \in Nat
      BY PlaceParts DEF ConsumeInv, CTypeOK
    <3>2. place \in tried
      BY <3>1, PlaceParts DEF ConsumeInv, CommittedWasTried
    <3>3. ~InGoodHands(place)
      BY <3>1 DEF InGoodHands
    <3> QED
      BY <3>2, <3>3 DEF AtRisk
  <2>2. Cardinality(Lost) <= Cardinality(AtRisk)
    BY <2>1, AtRiskIsFinite, FS_Subset
  <2>3. Cardinality(Lost) \in Nat /\ Cardinality(AtRisk) \in Nat
    BY <2>1, AtRiskIsFinite
  <2>4. Cardinality(AtRisk) <= cfaults /\ cfaults \in Nat
    BY DEF ConsumeInv, RisksBounded, CTypeOK
  <2> QED
    BY <2>2, <2>3, <2>4 DEF LossesBounded
<1> QED
  BY <1>1, <1>2, <1>3, PTL DEF CSpec

=============================================================================
