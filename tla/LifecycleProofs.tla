--------------------------- MODULE LifecycleProofs --------------------------
(***************************************************************************)
(* Proofs about Backoff and Lifecycle, for any number of retries, waits,   *)
(* deadline, calls and messages.                                           *)
(***************************************************************************)
EXTENDS Lifecycle, FiniteSetTheorems, TLAPS

-----------------------------------------------------------------------------
(* retry.WithBackoff                                                       *)

(* No wait begins when the context is done, and the attempt after a wait is
   the only one that may begin then. *)
BackoffInv ==
    /\ BackoffTypeOK
    /\ OneLateAttempt
    /\ trying = "waiting" => late = 0
    /\ late > 0 => clock >= Timeout

(* A step of the loop keeps this. *)
LEMMA BackoffKeeps ==
    ASSUME NEW last, BackoffInv, BackoffNext(last)
    PROVE  BackoffInv'
<1> USE BackoffAssumption DEF BackoffInv, BackoffTypeOK, OneLateAttempt, Trying, Tried
<1>1. CASE OperationAsks(last) \/ OperationSucceeds(last)
  BY <1>1 DEF OperationAsks, OperationSucceeds
<1>2. CASE OperationFails
  BY <1>2 DEF OperationFails
<1>3. CASE WaitIsOver
  BY <1>3 DEF WaitIsOver, NextWait
<1>4. CASE ContextDone
  BY <1>4 DEF ContextDone
<1>5. CASE BackoffTick
  BY <1>5 DEF BackoffTick
<1> QED
  BY <1>1, <1>2, <1>3, <1>4, <1>5 DEF BackoffNext

(* So does the caller, who starts the loop or leaves it, or does not touch
   it. *)
LEMMA CallerKeeps ==
    BackoffInv /\ (WithBackoff \/ Connected \/ UNCHANGED bvars) => BackoffInv'
<1> SUFFICES ASSUME BackoffInv, WithBackoff \/ Connected \/ UNCHANGED bvars
             PROVE  BackoffInv'
  OBVIOUS
<1> USE BackoffAssumption DEF BackoffInv, BackoffTypeOK, OneLateAttempt, Trying, Tried
<1>1. CASE WithBackoff \/ Connected
  BY <1>1 DEF WithBackoff, Connected, Afresh
<1>2. CASE UNCHANGED bvars
  BY <1>2 DEF bvars
<1> QED
  BY <1>1, <1>2

(* A step of the loop, whichever operation it tries, or of its caller. *)
LoopStep ==
    \/ \E last \in {"operation", "asking"} : BackoffNext(last)
    \/ WithBackoff \/ Connected \/ UNCHANGED bvars

(* The loop by itself: of the attempts that WithBackoff makes at most one
   begins after its context is done. *)
LEMMA BackoffSteps == BackoffInv /\ LoopStep => BackoffInv'
BY BackoffKeeps, CallerKeeps DEF LoopStep

-----------------------------------------------------------------------------
(* The waits                                                               *)

(* A set of natural numbers has a least one. *)
LEMMA LeastNatural ==
    ASSUME NEW S \in SUBSET Nat, S # {}
    PROVE  \E m \in S : \A k \in S : m <= k
<1> DEFINE R == OpToRel(<, Nat)
<1>1. \E m \in S : \A k \in S : ~(<<k, m>> \in R)
  <2>1. IsWellFoundedOn(R, Nat)
    BY NatLessThanWellFounded
  <2> HIDE DEF R
  <2> QED BY <2>1, WFMin
<1>2. \A k, m \in Nat : <<k, m>> \in R <=> k < m
  BY DEF OpToRel
<1>3. \A k, m \in Nat : ~(k < m) => m <= k
  OBVIOUS
<1> QED BY <1>1, <1>2, <1>3

(* A power of two counts the subsets of an interval. *)
LEMMA PowerCounts ==
    ASSUME NEW n \in Nat
    PROVE  /\ IsFiniteSet(SUBSET (1..n))
           /\ Cardinality(SUBSET (1..n)) = 2 ^ n
           /\ 2 ^ n \in Nat /\ 2 ^ n > 0
<1>1. IsFiniteSet(1..n) /\ Cardinality(1..n) = n
  BY FS_Interval
<1>2. IsFiniteSet(SUBSET (1..n)) /\ Cardinality(SUBSET (1..n)) = 2 ^ n
  BY <1>1, FS_SUBSET
<1>3. SUBSET (1..n) # {}
  OBVIOUS
<1>4. Cardinality(SUBSET (1..n)) \in Nat /\ Cardinality(SUBSET (1..n)) # 0
  BY <1>2, <1>3, FS_CardinalityType, FS_EmptySet
<1> QED BY <1>2, <1>4

(* The next power is the double: each subset comes with and without the new
   element. *)
LEMMA PowerDoubles ==
    ASSUME NEW n \in Nat
    PROVE  2 ^ (n + 1) = 2 * 2 ^ n
<1> DEFINE A == SUBSET (1..n)
           f == [T \in A |-> T \cup {n + 1}]
           B == {T \cup {n + 1} : T \in A}
<1>1. IsFiniteSet(A) /\ Cardinality(A) = 2 ^ n /\ 2 ^ n \in Nat
  BY PowerCounts
<1>2. \A T \in A : n + 1 \notin T
  OBVIOUS
<1>3. f \in Bijection(A, B)
  <2>1. f \in [A -> B]
    OBVIOUS
  <2>2. \A T, U \in A : f[T] = f[U] => T = U
    <3> SUFFICES ASSUME NEW T \in A, NEW U \in A, T \cup {n + 1} = U \cup {n + 1}
                 PROVE  T = U
      OBVIOUS
    <3>1. \A x : x \in T <=> x \in U
      BY <1>2
    <3> QED BY <3>1
  <2>3. \A V \in B : \E T \in A : f[T] = V
    OBVIOUS
  <2> HIDE DEF A, B, f
  <2> QED BY <2>1, <2>2, <2>3 DEF Bijection, Injection, Surjection, IsInjective
<1>4. IsFiniteSet(B) /\ Cardinality(B) = 2 ^ n
  <2>1. ExistsBijection(A, B)
    BY <1>3 DEF ExistsBijection
  <2> HIDE DEF A, B
  <2> QED BY <1>1, <2>1, FS_Bijection
<1>5. A \cap B = {}
  BY <1>2
<1>6. SUBSET (1..n + 1) = A \cup B
  <2>1. ASSUME NEW T \in SUBSET (1..n + 1) PROVE T \in A \cup B
    <3>1. CASE n + 1 \notin T
      BY <3>1
    <3>2. CASE n + 1 \in T
      <4>1. T \ {n + 1} \in A
        OBVIOUS
      <4>2. T = (T \ {n + 1}) \cup {n + 1}
        BY <3>2
      <4> QED BY <4>1, <4>2
    <3> QED BY <3>1, <3>2
  <2>2. ASSUME NEW T \in A \cup B PROVE T \in SUBSET (1..n + 1)
    OBVIOUS
  <2> QED BY <2>1, <2>2
<1>7. Cardinality(A \cup B) = 2 ^ n + 2 ^ n
  <2> HIDE DEF A, B
  <2>1. Cardinality(A \cup B) = Cardinality(A) + Cardinality(B) - Cardinality(A \cap B)
    BY <1>1, <1>4, FS_Union
  <2> QED BY <1>1, <1>4, <1>5, <2>1, FS_EmptySet
<1>8. Cardinality(SUBSET (1..n + 1)) = 2 ^ (n + 1)
  <2>1. n + 1 \in Nat
    OBVIOUS
  <2>2. \A k \in Nat : Cardinality(SUBSET (1..k)) = 2 ^ k
    BY PowerCounts
  <2> QED BY <2>1, <2>2, Zenon
<1>9. 2 ^ (n + 1) = 2 ^ n + 2 ^ n
  <2> HIDE DEF A, B
  <2> QED BY <1>6, <1>7, <1>8, Zenon
<1> QED BY <1>1, <1>9

(* The wait after n waits: doubled each time, and capped but for the first. *)
WaitAfter(n) ==
    LET doubled == InitialWait * 2 ^ n
    IN  IF n > 0 /\ doubled > MaxWait THEN MaxWait ELSE doubled

(* The loop computes each wait from the one before. *)
LEMMA WaitsDouble ==
    ASSUME NEW n \in Nat
    PROVE  /\ WaitAfter(n) \in Nat
           /\ WaitAfter(0) = InitialWait
           /\ NextWait(WaitAfter(n)) = WaitAfter(n + 1)
<1> DEFINE d == InitialWait * 2 ^ n
<1>1. InitialWait \in Nat /\ MaxWait \in Nat
  BY BackoffAssumption
<1>2. 2 ^ n \in Nat /\ 2 ^ (n + 1) = 2 * 2 ^ n
  BY PowerCounts, PowerDoubles
<1>3. d \in Nat
  BY <1>1, <1>2
<1>4. InitialWait * 2 ^ (n + 1) = 2 * d
  <2>1. \A i, k \in Nat : i * (2 * k) = 2 * (i * k)
    OBVIOUS
  <2> QED BY <1>1, <1>2, <2>1
<1>5. WaitAfter(n) = IF n > 0 /\ d > MaxWait THEN MaxWait ELSE d
  BY DEF WaitAfter
<1>6. WaitAfter(n + 1) = IF 2 * d > MaxWait THEN MaxWait ELSE 2 * d
  <2>1. WaitAfter(n + 1) =
           IF n + 1 > 0 /\ InitialWait * 2 ^ (n + 1) > MaxWait
           THEN MaxWait ELSE InitialWait * 2 ^ (n + 1)
    BY DEF WaitAfter
  <2> QED BY <1>4, <2>1
<1>7. WaitAfter(0) = InitialWait
  <2>1. 2 ^ 0 = 1
    OBVIOUS
  <2>2. InitialWait * 1 = InitialWait
    BY <1>1
  <2>3. WaitAfter(0) = InitialWait * 2 ^ 0
    BY DEF WaitAfter
  <2> QED BY <2>1, <2>2, <2>3
<1> HIDE DEF d
<1> QED BY <1>1, <1>3, <1>5, <1>6, <1>7 DEF NextWait

(* The waits before an attempt add up as EarliestStart says: there is such a
   function for every number of retries, by extending the one for one less. *)
LEMMA EarliestExists ==
    ASSUME NEW N \in Nat
    PROVE  \E f : f = [n \in 0..N |->
                          IF n = 0 THEN 0 ELSE f[n - 1] + WaitAfter(n - 1)]
<1> DEFINE Sums(m, f) == f = [n \in 0..m |->
                                IF n = 0 THEN 0 ELSE f[n - 1] + WaitAfter(n - 1)]
           Bad == {m \in Nat : ~\E f : Sums(m, f)}
<1> SUFFICES ASSUME Bad # {} PROVE FALSE
  OBVIOUS
<1>1. PICK m \in Bad : \A k \in Bad : m <= k
  BY LeastNatural
<1>2. m # 0
  <2>1. Sums(0, [n \in 0..0 |-> 0])
    OBVIOUS
  <2> QED BY <2>1
<1>3. m \in Nat /\ m - 1 \in Nat /\ m - 1 \notin Bad
  <2>1. m \in Nat
    BY <1>1
  <2> HIDE DEF Bad
  <2> QED BY <1>1, <1>2, <2>1
<1>4. PICK f : Sums(m - 1, f)
  BY <1>3
<1> DEFINE g == [n \in 0..m |-> IF n = 0 THEN 0 ELSE f[n - 1] + WaitAfter(n - 1)]
<1>5. \A n \in 0..m - 1 : g[n] = f[n]
  BY <1>3, <1>4
<1>6. \A n \in 0..m : n # 0 => n - 1 \in 0..m - 1
  BY <1>3
<1>7. \A n \in 0..m : g[n] = IF n = 0 THEN 0 ELSE g[n - 1] + WaitAfter(n - 1)
  BY <1>5, <1>6
<1>8. Sums(m, g)
  BY <1>7
<1> QED BY <1>1, <1>8

(* The earliest start of each attempt is that of the one before and a wait. *)
LEMMA EarliestUnfolds ==
    /\ EarliestStart[0] = 0
    /\ \A n \in 1..MaxRetries :
          EarliestStart[n] = EarliestStart[n - 1] + WaitAfter(n - 1)
<1>0. MaxRetries \in Nat
  BY BackoffAssumption
<1> DEFINE Sums(f) == f = [n \in 0..MaxRetries |->
                             IF n = 0 THEN 0 ELSE f[n - 1] + WaitAfter(n - 1)]
           Given(f) == f = [n \in 0..MaxRetries |->
               IF n = 0 THEN 0
               ELSE LET doubled == InitialWait * 2 ^ (n - 1)
                    IN  f[n - 1] +
                          (IF n > 1 /\ doubled > MaxWait THEN MaxWait ELSE doubled)]
<1>1. \A n \in 0..MaxRetries : n # 0 =>
         WaitAfter(n - 1) = IF n > 1 /\ InitialWait * 2 ^ (n - 1) > MaxWait
                            THEN MaxWait ELSE InitialWait * 2 ^ (n - 1)
  BY <1>0 DEF WaitAfter
<1>2. \E f : Sums(f)
  BY <1>0, EarliestExists
<1>3. \A f : Sums(f) <=> Given(f)
  BY <1>1
<1>4. \E f : Given(f)
  BY <1>2, <1>3
<1>5. Given(EarliestStart)
  BY <1>4 DEF EarliestStart
<1>6. Sums(EarliestStart)
  BY <1>3, <1>5
<1> DEFINE E == EarliestStart
<1> HIDE DEF E
<1>7. \A n \in 0..MaxRetries :
         E[n] = IF n = 0 THEN 0 ELSE E[n - 1] + WaitAfter(n - 1)
  BY <1>6 DEF E
<1>8. E[0] = 0
  BY <1>0, <1>7
<1>9. \A n \in 1..MaxRetries : E[n] = E[n - 1] + WaitAfter(n - 1)
  BY <1>0, <1>7
<1> QED BY <1>8, <1>9 DEF E

(* No attempt begins and no wait ends before its time; how many waits the loop
   has computed. *)
SpreadInv ==
    /\ BackoffTypeOK
    /\ EarliestStart[attempt] \in Nat
    /\ trying \in {"operation", "asking"} =>
          clock >= EarliestStart[attempt] /\ wait = WaitAfter(attempt)
    /\ trying = "waiting" =>
          /\ attempt > 0
          /\ wakeAt >= EarliestStart[attempt] /\ wait = WaitAfter(attempt - 1)

(* Every step of the loop or its caller keeps this. *)
LEMMA SpreadKeeps ==
    ASSUME SpreadInv, BackoffTypeOK', LoopStep
    PROVE  SpreadInv'
<1> USE DEF SpreadInv
<1>t. attempt \in Nat /\ clock \in Nat /\ wakeAt \in Nat /\ attempt \in 0..MaxRetries
      /\ MaxRetries \in Nat
  BY BackoffAssumption DEF BackoffTypeOK
<1>0. EarliestStart[0] = 0
  BY EarliestUnfolds
<1>1. ASSUME NEW last \in {"operation", "asking"},
             OperationAsks(last) \/ OperationSucceeds(last) \/ ContextDone
      PROVE  SpreadInv'
  BY <1>1 DEF OperationAsks, OperationSucceeds, ContextDone
<1>2. CASE OperationFails
  <2>1. CASE UNCHANGED attempt /\ trying' \in {"gaveUp", "cancelled"}
    BY <2>1
  <2>2. CASE /\ attempt # MaxRetries /\ trying' = "waiting"
             /\ attempt' = attempt + 1 /\ wakeAt' = clock + wait
    <3>1. attempt + 1 \in 1..MaxRetries /\ (attempt + 1) - 1 = attempt
      BY <1>t, <2>2
    <3>2. EarliestStart[attempt + 1] = EarliestStart[attempt] + WaitAfter(attempt)
      BY <3>1, EarliestUnfolds
    <3>3. /\ wait = WaitAfter(attempt) /\ WaitAfter(attempt) \in Nat
          /\ clock >= EarliestStart[attempt]
      BY <1>2, <1>t, WaitsDouble DEF OperationFails
    <3>4. EarliestStart[attempt'] \in Nat /\ wakeAt' >= EarliestStart[attempt']
      BY <1>t, <2>2, <3>2, <3>3
    <3>5. attempt' > 0 /\ attempt' - 1 = attempt /\ wait' = wait
      BY <1>2, <1>t, <2>2 DEF OperationFails
    <3> QED BY <2>2, <3>3, <3>4, <3>5
  <2> QED BY <1>2, <2>1, <2>2 DEF OperationFails
<1>3. CASE WaitIsOver
  <2>1. attempt > 0 /\ wait = WaitAfter(attempt - 1) /\ attempt - 1 \in Nat
        /\ (attempt - 1) + 1 = attempt
    BY <1>3, <1>t DEF WaitIsOver
  <2>2. wait' = WaitAfter(attempt)
    BY <1>3, <2>1, WaitsDouble DEF WaitIsOver
  <2>3. clock >= EarliestStart[attempt]
    BY <1>3, <1>t DEF WaitIsOver
  <2> QED BY <1>3, <2>2, <2>3 DEF WaitIsOver
<1>4. CASE BackoffTick
  BY <1>4, <1>t DEF BackoffTick
<1>5. CASE WithBackoff \/ Connected
  BY <1>5, <1>0, WaitsDouble DEF WithBackoff, Connected, Afresh
<1>6. CASE UNCHANGED bvars
  BY <1>6 DEF bvars
<1> QED BY <1>1, <1>2, <1>3, <1>4, <1>5, <1>6 DEF LoopStep, BackoffNext

-----------------------------------------------------------------------------
(* The inductive invariant of main                                         *)

(* The stages main of a service goes through. *)
OnPath ==
    /\ service = "auth" =>
          stage \notin {"kafka", "relay", "consumer", "closeWriter",
                        "closeReaders", "waitReaders"}
    /\ service = "gateway" =>
          stage \in {"listen", "serve", "run", "drain", "closeUpstream",
                     "returned", "fatal"}
    /\ stage = "closeUpstream" => service = "gateway"

Up == {"serve", "run", "drain", "closeWriter", "closeReaders", "waitReaders",
       "closeRedis"}

(* A connection is open from the stage that opens it to the stage that closes
   it. *)
Opened ==
    /\ service # "gateway" =>
          /\ stage \in Up \cup {"kafka", "relay", "consumer"} => conn.redis = "open"
          /\ stage \in Up \cup {"redis", "kafka", "relay", "consumer", "closePostgres"}
                => conn.postgres = "open"
          /\ stage \in {"closePostgres", "waitPool", "returned"} => conn.redis = "closed"
          /\ stage \in {"waitPool", "returned"} => conn.postgres = "closed"
          /\ conn.upstream = "none"
    /\ service = "gateway" =>
          /\ conn.postgres = "none" /\ conn.redis = "none"
          /\ stage \in {"serve", "run", "drain", "closeUpstream"}
                => conn.upstream = "open"
          /\ stage = "returned" => conn.upstream = "closed"
    /\ service = "wallet" /\ stage \in {"waitReaders", "closeRedis", "closePostgres",
                                        "waitPool", "returned"}
          => conn.kafka = "closed"
    /\ service # "wallet" => conn.kafka = "none"

(* The consumer is at work only between its start and the wait for it. *)
Consuming ==
    /\ consumer # "off" => service = "wallet"
    /\ consumer \in {"fetching", "handling"} =>
          stage \in (Up \ {"closeRedis"}) \cup {"fatal"}

(* Calls arrive while the server serves, and over its connections when it has
   failed; those that are left when it has stopped are the ones it was forced
   to leave, or main of the gateway has left on the error. *)
Serving ==
    /\ stage \in {"listen", "postgres", "redis", "kafka", "relay", "consumer", "serve"}
          => server = "off"
    /\ server = "serving" => stage \in {"run", "fatal"}
    /\ server = "failed" =>
          stage \in {"run", "fatal"} \/ service = "gateway"
    /\ server = "off" => NoCalls
    /\ ~NoCalls => \/ forced \/ stage \in {"run", "drain", "fatal"}
                   \/ service = "gateway" /\ server = "failed"

StageInv == PTypeOK /\ OnPath /\ Opened /\ Consuming /\ Serving

LifeInv == BackoffInv /\ StageInv

-----------------------------------------------------------------------------
(* Every step keeps it.  What the step leaves of the retry loop is BackoffInv,
   by the lemmas above.                                                    *)

(* main starts up, or exits. *)
LEMMA StartUpKeeps ==
    ASSUME StageInv, BackoffTypeOK',
           Listen \/ PostgresConnected \/ RedisConnected \/ KafkaConnected
               \/ StartRelay \/ StartConsumer \/ Serve
    PROVE  StageInv'
<1> USE DEF StageInv, PTypeOK, OnPath, Opened, Consuming, Serving, Up,
            NoCalls, Connections, Services, Stages, workvars
<1>1. CASE Listen
  BY <1>1 DEF Listen, LogFatal, Goes
<1>2. CASE PostgresConnected
  BY <1>2 DEF PostgresConnected, LogFatal, Goes
<1>3. CASE RedisConnected
  BY <1>3 DEF RedisConnected, LogFatal, Goes
<1>4. CASE KafkaConnected
  BY <1>4 DEF KafkaConnected, LogFatal, Goes
<1>5. CASE StartRelay
  BY <1>5 DEF StartRelay, Goes
<1>6. CASE StartConsumer
  BY <1>6 DEF StartConsumer, Goes
<1>7. CASE Serve
  BY <1>7 DEF Serve, Goes
<1> QED
  BY <1>1, <1>2, <1>3, <1>4, <1>5, <1>6, <1>7

(* main stops the server and closes what it opened, in the reverse order. *)
LEMMA ShutdownKeeps ==
    ASSUME StageInv, BackoffTypeOK',
           \/ BeginDrain \/ ServerError \/ Stopped \/ DrainTimeout
           \/ CloseWriter \/ CloseReaders \/ WaitReaders \/ CloseRedis
           \/ ClosePostgres \/ PoolDrained \/ CloseUpstream
    PROVE  StageInv'
<1> USE DEF StageInv, PTypeOK, OnPath, Opened, Consuming, Serving, Up,
            NoCalls, Connections, Services, Stages, workvars
<1>1. CASE BeginDrain
  BY <1>1 DEF BeginDrain, Goes
<1>2. CASE ServerError
  BY <1>2 DEF ServerError, Goes
<1>3. CASE Stopped
  BY <1>3 DEF Stopped, AfterServer, Goes
<1>4. CASE DrainTimeout
  BY <1>4 DEF DrainTimeout, AfterServer, workvars
<1>5. CASE CloseWriter
  BY <1>5 DEF CloseWriter, Goes
<1>6. CASE CloseReaders
  BY <1>6 DEF CloseReaders, Goes
<1>7. CASE WaitReaders
  BY <1>7 DEF WaitReaders, Goes
<1>8. CASE CloseRedis
  BY <1>8 DEF CloseRedis, Goes
<1>9. CASE ClosePostgres
  BY <1>9 DEF ClosePostgres, Goes
<1>10. CASE PoolDrained
  BY <1>10 DEF PoolDrained, Goes
<1>11. CASE CloseUpstream
  BY <1>11 DEF CloseUpstream, Goes
<1> QED
  BY <1>1, <1>2, <1>3, <1>4, <1>5, <1>6, <1>7, <1>8, <1>9, <1>10, <1>11

(* The signal, and what the goroutines of the process do, the server's too. *)
LEMMA GoroutinesKeep ==
    ASSUME StageInv, BackoffTypeOK',
           ServeFails \/ Signal \/ RelayWorks \/ ConsumerWorks \/ UNCHANGED pvars
    PROVE  StageInv'
<1> USE DEF StageInv, PTypeOK, OnPath, Opened, Consuming, Serving, Up,
            NoCalls, Connections, Services, Stages, workvars
<1>1. CASE Signal
  BY <1>1 DEF Signal, Alive, Ended
<1>2. CASE RelayWorks
  BY <1>2 DEF RelayWorks, Alive, Ended
<1>3. CASE ConsumerWorks
  BY <1>3, LifecycleAssumption DEF ConsumerWorks, Alive, Ended
<1>4. CASE UNCHANGED pvars
  BY <1>4 DEF pvars
<1>5. CASE ServeFails
  BY <1>5 DEF ServeFails
<1> QED
  BY <1>1, <1>2, <1>3, <1>4, <1>5

(* A call moves on. *)
LEMMA CallsKeep ==
    ASSUME StageInv, BackoffTypeOK', NEW c \in Calls,
           CallArrives(c) \/ CallWaits(c) \/ WaitReturns(c) \/ CallEnds(c)
               \/ PageNotParsed(c)
    PROVE  StageInv'
<1>1. ASSUME NEW from, NEW to \in {"running", "waiting", "answering", "ended"},
             SetCall(c, from, to),
             server \in {"serving", "failed"}
                 \/ from \in {"running", "waiting", "answering"}
      PROVE  StageInv'
  <2>1. /\ Alive /\ call[c] = from
        /\ call' = [call EXCEPT ![c] = to]
        /\ UNCHANGED <<service, stage, signalled, conn, relay, consumer, fetched,
                       server, forced>>
    BY <1>1 DEF SetCall
  <2>2. call' \in [Calls -> {"none", "running", "waiting", "answering", "ended"}]
    BY <2>1, <1>1 DEF StageInv, PTypeOK
  <2>3. PTypeOK' /\ OnPath' /\ Opened' /\ Consuming'
    BY <2>1, <2>2 DEF StageInv, PTypeOK, OnPath, Opened, Consuming
  <2>4. server \in {"serving", "failed"} \/ ~NoCalls
    BY <1>1, <2>1 DEF NoCalls
  <2>5. Serving'
    BY <2>1, <2>4 DEF StageInv, Serving, NoCalls
  <2> QED
    BY <2>3, <2>5 DEF StageInv
<1>2. CASE PageNotParsed(c)
  BY <1>2 DEF PageNotParsed, LogFatal, workvars, StageInv, PTypeOK, OnPath, Opened,
              Consuming, Serving, NoCalls, Stages, Up
<1> QED
  BY <1>1, <1>2 DEF CallArrives, CallWaits, WaitReturns, CallEnds

(* What a step of main, of a goroutine or of a call does to the loop. *)
LEMMA LoopOrNot == PNext => LoopStep
BY DEF LoopStep, PNext, Main, ServeFails, Connecting, Listen, PostgresConnected, RedisConnected,
       KafkaConnected, StartRelay, StartConsumer, Serve, BeginDrain, ServerError,
       Stopped, DrainTimeout, CloseWriter, CloseReaders, WaitReaders, CloseRedis,
       ClosePostgres, PoolDrained, CloseUpstream, LogFatal, Signal, RelayWorks,
       ConsumerWorks, CallArrives, CallWaits, WaitReturns, CallEnds, SetCall,
       PageNotParsed, Over, lifevars

(* The invariant holds throughout. *)
LEMMA LifeInvariant == PSpec => []LifeInv
<1>1. PInit => LifeInv
  <2> SUFFICES ASSUME PInit PROVE LifeInv
    OBVIOUS
  <2>1. BackoffInv
    BY BackoffAssumption DEF PInit, BackoffInit, BackoffInv, BackoffTypeOK,
                             OneLateAttempt
  <2>2. PTypeOK
    <3>1. conn \in Connections
      BY DEF PInit, Connections
    <3>2. fetched \in 0..MaxMessages
      BY LifecycleAssumption DEF PInit
    <3> QED
      BY <2>1, <3>1, <3>2 DEF PInit, BackoffInv, PTypeOK, Stages
  <2>3. OnPath /\ Opened /\ Consuming /\ Serving
    BY DEF PInit, OnPath, Opened, Consuming, Serving, NoCalls, Up
  <2> QED
    BY <2>1, <2>2, <2>3 DEF LifeInv, StageInv
<1>2. ASSUME LifeInv, [PNext]_lifevars PROVE LifeInv'
  <2>1. BackoffInv'
    BY <1>2, LoopOrNot, BackoffSteps DEF LifeInv, lifevars, LoopStep
  <2>2. BackoffTypeOK' /\ StageInv
    BY <1>2, <2>1 DEF LifeInv, BackoffInv
  <2>3. CASE Main
    BY <2>1, <2>2, <2>3, StartUpKeeps, ShutdownKeeps DEF Main, LifeInv
  <2>4. CASE Connecting \/ ServeFails \/ Signal \/ RelayWorks \/ ConsumerWorks \/ Over
             \/ UNCHANGED lifevars
    BY <2>1, <2>2, <2>4, GoroutinesKeep DEF Connecting, Over, lifevars, LifeInv
  <2>5. ASSUME NEW c \in Calls,
               CallArrives(c) \/ CallWaits(c) \/ WaitReturns(c) \/ CallEnds(c)
                   \/ PageNotParsed(c)
        PROVE  StageInv'
    BY <2>2, <2>5, CallsKeep
  <2> QED
    BY <1>2, <2>1, <2>3, <2>4, <2>5 DEF PNext, LifeInv
<1> QED
  BY <1>1, <1>2, PTL DEF PSpec

-----------------------------------------------------------------------------
(* The theorems                                                            *)

(* The retry loop, the connections, the workers and the calls keep their types
   through start-up, a signal at any moment and the closes. *)
THEOREM LifecycleTyped == PSpec => []PTypeOK
<1>1. LifeInv => PTypeOK
  BY DEF LifeInv, StageInv
<1> QED
  BY <1>1, LifeInvariant, PTL

(* WithBackoff begins at most one attempt after the context of its caller is
   done, for any number of retries, any waits and any deadline. *)
THEOREM AtMostOneLateAttempt == PSpec => []OneLateAttempt
<1>1. LifeInv => OneLateAttempt
  BY DEF LifeInv, BackoffInv
<1> QED
  BY <1>1, LifeInvariant, PTL

(* No attempt is made before the doubled and capped waits that lie before it
   are over, for any number of retries and any waits. *)
THEOREM AttemptsAreSpread == PSpec => []AttemptsSpread
<1>1. PInit => SpreadInv
  <2> SUFFICES ASSUME PInit PROVE SpreadInv
    OBVIOUS
  <2>1. BackoffTypeOK
    BY BackoffAssumption DEF PInit, BackoffInit, BackoffTypeOK
  <2> QED BY <2>1, EarliestUnfolds DEF PInit, BackoffInit, SpreadInv
<1>2. SpreadInv /\ LifeInv' /\ [PNext]_lifevars => SpreadInv'
  <2> SUFFICES ASSUME SpreadInv, LifeInv', [PNext]_lifevars PROVE SpreadInv'
    OBVIOUS
  <2>1. BackoffTypeOK'
    BY DEF LifeInv, BackoffInv
  <2>2. LoopStep
    BY LoopOrNot DEF lifevars, LoopStep
  <2> QED BY <2>1, <2>2, SpreadKeeps
<1>3. SpreadInv => AttemptsSpread
  BY DEF SpreadInv, AttemptsSpread
<1> QED
  BY <1>1, <1>2, <1>3, LifeInvariant, PTL DEF PSpec

(* The consumer's handler, and every call unless the graceful stop took too
   long, have their connections under them. *)
THEOREM WorkHasConnections == PSpec => []ConnectionsUnderWork
<1>1. LifeInv => ConnectionsUnderWork
  BY DEF LifeInv, StageInv, OnPath, Opened, Consuming, Serving, Up, Alive, Ended,
         ConnectionsUnderWork, PTypeOK, Services
<1> QED
  BY <1>1, LifeInvariant, PTL

(* main returns with everything closed and the consumer ended, and leaves a
   call unanswered only when the graceful stop took too long or, in the
   gateway, when the server failed while calls were running. *)
THEOREM MainReturnsClean == PSpec => []ReturnsClean
<1>1. ASSUME LifeInv, stage = "returned" PROVE
        /\ conn.postgres \in {"none", "closed"} /\ conn.redis \in {"none", "closed"}
        /\ conn.kafka \in {"none", "closed"} /\ conn.upstream \in {"none", "closed"}
        /\ consumer \in {"off", "ended"}
        /\ forced \/ NoCalls \/ (service = "gateway" /\ server = "failed")
  BY <1>1 DEF LifeInv, StageInv, Opened, Consuming, Serving, Up, PTypeOK, Services
<1>2. LifeInv => DOMAIN conn = {"postgres", "redis", "kafka", "upstream"}
  BY DEF LifeInv, StageInv, PTypeOK, Connections
<1>3. LifeInv => ReturnsClean
  BY <1>1, <1>2 DEF ReturnsClean
<1> QED
  BY <1>3, LifeInvariant, PTL

=============================================================================
