------------------------------ MODULE Consumer ------------------------------
(***************************************************************************)
(* KafkaMessaging.ConsumeMessage in every replica of wallet-service: one   *)
(* goroutine per replica fetches a message, dispatches it to the handler,  *)
(* routes an invalid one to the dead letter topic, and commits its offset. *)
(* The broker side (partitions, consumer group, committed offsets) is      *)
(* modelled from how the code uses it: a partition has one owner at a      *)
(* time, a new owner starts at the committed offset, and a commit from a   *)
(* replica that lost the partition is refused.                             *)
(*                                                                         *)
(* Faults: handlerError (the handler returns an error or panics),          *)
(* dlqError, commitError, rebalance (a partition moves, or its owner dies).*)
(***************************************************************************)
EXTENDS Naturals, Sequences, FiniteSets

CONSTANTS
    Consumers,
    NoConsumer,
    Partitions,
    Messages,
    Invalid,         \* messages no handler can decode (ErrInvalidMessage)
    Faults,
    MaxLength,       \* bound: messages per partition
    MaxFaults        \* bound: faults in one behaviour

CONSTANT NoMessage

FaultKinds == {"handlerError", "dlqError", "commitError", "rebalance"}

ASSUME ConsumerAssumption ==
    /\ NoConsumer \notin Consumers
    /\ IsFiniteSet(Partitions)
    /\ NoMessage \notin Partitions \X (1..MaxLength)
    /\ Invalid \subseteq Messages
    /\ Faults \subseteq FaultKinds
    /\ {MaxLength, MaxFaults} \subseteq Nat

VARIABLES
    log,         \* the messages of each partition
    owner,       \* the replica a partition is assigned to
    position,    \* how many of its messages the owner has fetched
    committed,   \* how many the group has committed
    cpc,         \* where each replica's loop is
    hand,        \* the message it holds: partition and place in the log
    handled,     \* places in the logs whose handler succeeded
    tried,       \* ... whose handler ran
    dlq,         \* ... whose message is in the dead letter topic
    cfaults

cvars == <<log, owner, position, committed, cpc, hand, handled, tried, dlq,
           cfaults>>

Places == Partitions \X (1..MaxLength)

CTypeOK ==
    /\ log \in [Partitions -> Seq(Messages)]
    /\ \A p \in Partitions : Len(log[p]) <= MaxLength
    /\ owner \in [Partitions -> Consumers \cup {NoConsumer}]
    /\ position \in [Partitions -> 0..MaxLength]
    /\ committed \in [Partitions -> 0..MaxLength]
    /\ cpc \in [Consumers -> {"fetch", "dispatch", "dlq", "commit"}]
    /\ hand \in [Consumers -> Places \cup {NoMessage}]
    /\ handled \subseteq Places /\ tried \subseteq Places /\ dlq \subseteq Places
    /\ cfaults \in 0..MaxFaults

CInit ==
    /\ log = [p \in Partitions |-> << >>]
    /\ owner = [p \in Partitions |-> NoConsumer]
    /\ position = [p \in Partitions |-> 0]
    /\ committed = [p \in Partitions |-> 0]
    /\ cpc = [c \in Consumers |-> "fetch"]
    /\ hand = [c \in Consumers |-> NoMessage]
    /\ handled = {} /\ tried = {} /\ dlq = {}
    /\ cfaults = 0

CFault(kind) ==
    /\ kind \in Faults
    /\ cfaults < MaxFaults
    /\ cfaults' = cfaults + 1

MessageAt(place) == log[place[1]][place[2]]

NextMessage(c) ==
    /\ cpc' = [cpc EXCEPT ![c] = "fetch"]
    /\ hand' = [hand EXCEPT ![c] = NoMessage]

-----------------------------------------------------------------------------

Produce(p, m) ==
    /\ Len(log[p]) < MaxLength
    /\ log' = [log EXCEPT ![p] = Append(@, m)]
    /\ UNCHANGED <<owner, position, committed, cpc, hand, handled, tried, dlq,
                   cfaults>>

(* Mutant: a new owner starts at the end of the partition. *)
StartAtEnd(p) == Len(log[p])

(* A new owner starts after what the group committed (FirstOffset when it
   committed nothing). *)
StartOffset(p) == committed[p]

(* The group assigns a partition nobody owns. *)
Assign(p, c) ==
    /\ owner[p] = NoConsumer
    /\ owner' = [owner EXCEPT ![p] = c]
    /\ position' = [position EXCEPT ![p] = StartOffset(p)]
    /\ UNCHANGED <<log, committed, cpc, hand, handled, tried, dlq, cfaults>>

(* The partition is taken away; its replica may still be in a handler. *)
Revoke(p) ==
    /\ owner[p] # NoConsumer
    /\ CFault("rebalance")
    /\ owner' = [owner EXCEPT ![p] = NoConsumer]
    /\ UNCHANGED <<log, position, committed, cpc, hand, handled, tried, dlq>>

(* The replica dies with the message it holds and starts again. *)
ConsumerCrash(c) ==
    /\ \E p \in Partitions : owner[p] = c
    /\ CFault("rebalance")
    /\ owner' = [p \in Partitions |-> IF owner[p] = c THEN NoConsumer ELSE owner[p]]
    /\ NextMessage(c)
    /\ UNCHANGED <<log, position, committed, handled, tried, dlq>>

(* A fetch that fails is tried again after a backoff. *)
FetchMessage(c, p) ==
    /\ cpc[c] = "fetch"
    /\ owner[p] = c
    /\ position[p] < Len(log[p])
    /\ position' = [position EXCEPT ![p] = @ + 1]
    /\ hand' = [hand EXCEPT ![c] = <<p, position[p] + 1>>]
    /\ cpc' = [cpc EXCEPT ![c] = "dispatch"]
    /\ UNCHANGED <<log, owner, committed, handled, tried, dlq, cfaults>>

(* The three ways dispatch returns.  After an error that is not
   ErrInvalidMessage the loop goes on to the next message. *)
DispatchOk(c) ==
    /\ cpc[c] = "dispatch"
    /\ MessageAt(hand[c]) \notin Invalid
    /\ handled' = handled \cup {hand[c]}
    /\ tried' = tried \cup {hand[c]}
    /\ cpc' = [cpc EXCEPT ![c] = "commit"]
    /\ UNCHANGED <<log, owner, position, committed, hand, dlq, cfaults>>

(* Mutant: an invalid message is committed and dropped. *)
DropInvalid(c) ==
    /\ cpc[c] = "dispatch"
    /\ MessageAt(hand[c]) \in Invalid
    /\ tried' = tried \cup {hand[c]}
    /\ cpc' = [cpc EXCEPT ![c] = "commit"]
    /\ UNCHANGED <<log, owner, position, committed, hand, handled, dlq, cfaults>>

DispatchInvalid(c) ==
    /\ cpc[c] = "dispatch"
    /\ MessageAt(hand[c]) \in Invalid
    /\ tried' = tried \cup {hand[c]}
    /\ cpc' = [cpc EXCEPT ![c] = "dlq"]
    /\ UNCHANGED <<log, owner, position, committed, hand, handled, dlq, cfaults>>

DispatchError(c) ==
    /\ cpc[c] = "dispatch"
    /\ MessageAt(hand[c]) \notin Invalid
    /\ CFault("handlerError")
    /\ tried' = tried \cup {hand[c]}
    /\ NextMessage(c)
    /\ UNCHANGED <<log, owner, position, committed, handled, dlq>>

AppendToDlq(c) ==
    /\ cpc[c] = "dlq"
    /\ \/ /\ dlq' = dlq \cup {hand[c]}
          /\ cpc' = [cpc EXCEPT ![c] = "commit"]
          /\ UNCHANGED <<hand, cfaults>>
       \/ /\ CFault("dlqError")
          /\ NextMessage(c)
          /\ UNCHANGED dlq
    /\ UNCHANGED <<log, owner, position, committed, handled, tried>>

OffsetAfter(place) == place[2]

(* The committed offset is the one after the message; the message need not
   follow the last committed one. *)
CommitMessages(c) ==
    LET p == hand[c][1]
    IN  /\ cpc[c] = "commit"
        /\ NextMessage(c)
        /\ \/ /\ owner[p] = c
              /\ committed' = [committed EXCEPT ![p] = OffsetAfter(hand[c])]
              /\ UNCHANGED cfaults
           \/ /\ owner[p] # c
              /\ UNCHANGED <<committed, cfaults>>
           \/ /\ CFault("commitError")
              /\ UNCHANGED committed
        /\ UNCHANGED <<log, owner, position, handled, tried, dlq>>

Loop(c) ==
    \/ \E p \in Partitions : FetchMessage(c, p)
    \/ DispatchOk(c) \/ DispatchInvalid(c)
    \/ AppendToDlq(c) \/ CommitMessages(c)

Consumed ==
    /\ \A p \in Partitions : Len(log[p]) = MaxLength /\ position[p] = MaxLength
    /\ \A p \in Partitions : owner[p] # NoConsumer
    /\ \A c \in Consumers : cpc[c] = "fetch"
    /\ UNCHANGED cvars

CNext ==
    \/ \E p \in Partitions :
          \/ \E m \in Messages : Produce(p, m)
          \/ \E c \in Consumers : Assign(p, c)
          \/ Revoke(p)
    \/ \E c \in Consumers : Loop(c) \/ DispatchError(c) \/ ConsumerCrash(c)
    \/ Consumed

CSpec == CInit /\ [][CNext]_cvars

CFairness ==
    /\ \A c \in Consumers : WF_cvars(Loop(c))
    /\ \A p \in Partitions : WF_cvars(\E c \in Consumers : Assign(p, c))

CFairSpec == CSpec /\ CFairness

-----------------------------------------------------------------------------
(* Properties                                                              *)

(* Nothing is committed before it: every message below the committed offset
   was given to the handler, across rebalances and crashes. *)
CommittedWasTried ==
    \A p \in Partitions : \A i \in 1..committed[p] : <<p, i>> \in tried

(* Once an offset is committed every message up to it was handled, or was
   invalid and is in the dead letter topic. *)
CommittedWasHandled ==
    \A p \in Partitions : \A i \in 1..committed[p] :
        <<p, i>> \in handled \/ <<p, i>> \in dlq

(* One fault costs at most one message: those the group has passed although
   they were neither handled nor made a dead letter are no more than the
   errors that happened, and rebalances, crashes and refused commits do not
   multiply them. *)
LossesBounded ==
    Cardinality({place \in Places :
        /\ place[2] <= committed[place[1]]
        /\ place \notin handled \cup dlq}) <= cfaults

(* Every message is given to the handler in the end. *)
EveryMessageTried ==
    \A place \in Places :
        place[2] <= Len(log[place[1]]) ~> place \in tried

=============================================================================
