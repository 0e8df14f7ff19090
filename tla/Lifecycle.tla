----------------------------- MODULE Lifecycle ------------------------------
(***************************************************************************)
(* The three main functions.  wallet-service and auth-service connect,     *)
(* start the relay, the consumer and the gRPC server, wait for a signal,   *)
(* stop the server, and close the connections in the reverse order of the  *)
(* defers.  The signal cancels the context of the relay and the consumer   *)
(* at once; it may come while main still connects.  api-gateway makes its  *)
(* gRPC clients and serves HTTP; its calls wait for the other services.    *)
(* LogFatal exits without the defers.                                      *)
(*                                                                         *)
(* External, from their use: GracefulStop and Shutdown wait for the calls  *)
(* in progress, Stop and Close cancel them and do not wait; closing the    *)
(* pool of PostgreSQL refuses new connections and waits for those in use.  *)
(***************************************************************************)
EXTENDS Backoff, FiniteSets

CONSTANTS
    Calls,          \* gRPC calls or HTTP requests that may arrive
    MaxMessages     \* bound: messages the consumer fetches

ASSUME LifecycleAssumption == MaxMessages \in Nat

VARIABLES
    service,      \* whose main this is
    stage,        \* where it is
    signalled,    \* SIGINT or SIGTERM came
    conn,         \* the connections
    relay,        \* where CheckAndRelay is
    consumer,     \* where the goroutine of ConsumeMessage is
    fetched,      \* how many messages it fetched
    call,         \* where each call is
    server,       \* the gRPC or HTTP server
    forced        \* stopping it gracefully took too long

workvars == <<relay, consumer, fetched, call>>
pvars == <<service, stage, signalled, conn, workvars, server, forced>>
lifevars == <<bvars, pvars>>

Services == {"wallet", "auth", "gateway"}

Stages == {"listen", "postgres", "redis", "kafka", "relay", "consumer", "serve",
           "run", "drain", "closeWriter", "closeReaders", "waitReaders",
           "closeRedis", "closePostgres", "waitPool", "closeUpstream",
           "returned", "fatal"}

Ended == {"returned", "fatal"}

Connections ==
    [postgres : {"none", "open", "closed"}, redis : {"none", "open", "closed"},
     kafka : {"none", "open", "noWriter", "closed"},
     upstream : {"none", "open", "closed"}]

PTypeOK ==
    /\ BackoffTypeOK
    /\ service \in Services /\ stage \in Stages
    /\ signalled \in BOOLEAN /\ forced \in BOOLEAN
    /\ conn \in Connections
    /\ relay \in {"off", "idle", "claiming", "publishing", "ended"}
    /\ consumer \in {"off", "fetching", "handling", "ended"}
    /\ fetched \in 0..MaxMessages
    /\ call \in [Calls -> {"none", "running", "waiting", "answering", "ended"}]
    /\ server \in {"off", "serving", "draining", "stopped", "failed"}

PInit ==
    /\ BackoffInit
    /\ service \in Services /\ stage = "listen"
    /\ signalled = FALSE /\ forced = FALSE
    /\ conn = [postgres |-> "none", redis |-> "none", kafka |-> "none",
               upstream |-> "none"]
    /\ relay = "off" /\ consumer = "off" /\ fetched = 0
    /\ call = [c \in Calls |-> "none"]
    /\ server = "off"

Alive == stage \notin Ended

NoCalls == \A c \in Calls : call[c] \in {"none", "ended"}

-----------------------------------------------------------------------------
(* Start-up                                                                *)

(* LogFatal: the process ends with all its goroutines, no defer runs. *)
LogFatal ==
    /\ stage' = "fatal"
    /\ UNCHANGED <<bvars, service, signalled, conn, workvars, server, forced>>

Goes(from, to) ==
    /\ stage = from
    /\ stage' = to
    /\ UNCHANGED <<service, signalled, fetched, call, forced>>

(* net.Listen, and Connect of PostgreSQL begins; in the gateway the gRPC
   clients, which connect when they are first used. *)
Listen ==
    \/ /\ service # "gateway"
       /\ Goes("listen", "postgres")
       /\ WithBackoff
       /\ UNCHANGED <<conn, relay, consumer, server>>
    \/ /\ service = "gateway"
       /\ Goes("listen", "serve")
       /\ conn' = [conn EXCEPT !.upstream = "open"]
       /\ UNCHANGED <<bvars, relay, consumer, server>>
    \/ stage = "listen" /\ LogFatal

GivenUp == trying \in {"gaveUp", "cancelled"}

(* Connect returns: the pool is kept only after a ping. *)
PostgresConnected ==
    \/ /\ Goes("postgres", "redis")
       /\ Connected
       /\ conn' = [conn EXCEPT !.postgres = "open"]
       /\ UNCHANGED <<relay, consumer, server>>
    \/ stage = "postgres" /\ GivenUp /\ LogFatal

(* One ping, no retry. *)
RedisConnected ==
    \/ /\ Goes("redis", IF service = "wallet" THEN "kafka" ELSE "serve")
       /\ conn' = [conn EXCEPT !.redis = "open"]
       /\ IF service = "wallet" THEN WithBackoff ELSE UNCHANGED bvars
       /\ UNCHANGED <<relay, consumer, server>>
    \/ stage = "redis" /\ LogFatal

KafkaConnected ==
    \/ /\ Goes("kafka", "relay")
       /\ Connected
       /\ conn' = [conn EXCEPT !.kafka = "open"]
       /\ UNCHANGED <<relay, consumer, server>>
    \/ stage = "kafka" /\ GivenUp /\ LogFatal

Connecting ==
    /\ stage \in {"postgres", "kafka"}
    /\ BackoffNext(IF stage = "kafka" THEN "asking" ELSE "operation")
    /\ UNCHANGED pvars

StartRelay ==
    /\ Goes("relay", "consumer")
    /\ relay' = "idle"
    /\ UNCHANGED <<bvars, conn, consumer, server>>

StartConsumer ==
    /\ Goes("consumer", "serve")
    /\ consumer' = "fetching"
    /\ UNCHANGED <<bvars, conn, relay, server>>

(* The server runs in a goroutine of its own. *)
Serve ==
    /\ Goes("serve", "run")
    /\ server' = "serving"
    /\ UNCHANGED <<bvars, conn, relay, consumer>>

(* Serve or ListenAndServe returns an error, at once or later: nothing new is
   accepted, the connections it accepted and their calls go on. *)
ServeFails ==
    /\ stage = "run" /\ server = "serving"
    /\ server' = "failed"
    /\ UNCHANGED <<bvars, service, stage, signalled, conn, workvars, forced>>

(* The gateway asks for signals only when its server is started: before that
   they end it. *)
Signal ==
    /\ ~signalled /\ Alive
    /\ signalled' = TRUE
    /\ stage' = IF service = "gateway" /\ stage \in {"listen", "serve"}
                THEN "fatal" ELSE stage
    /\ UNCHANGED <<bvars, service, conn, workvars, server, forced>>

-----------------------------------------------------------------------------
(* The work                                                                *)

SetCall(c, from, to) ==
    /\ Alive
    /\ call[c] = from
    /\ call' = [call EXCEPT ![c] = to]
    /\ UNCHANGED <<bvars, service, stage, signalled, conn, relay, consumer,
                   fetched, server, forced>>

CallArrives(c) ==
    server \in {"serving", "failed"} /\ SetCall(c, "none", "running")

(* A statement takes a connection of the pool, a request of the gateway the
   connection to a service: what is closed answers with an error. *)
CallWaits(c) ==
    LET source == IF service = "gateway" THEN conn.upstream ELSE conn.postgres
    IN  SetCall(c, "running", IF source = "open" THEN "waiting" ELSE "answering")

(* It may wait for ever, unless its context is cancelled. *)
WaitReturns(c) == SetCall(c, "waiting", "answering")

CallEnds(c) == SetCall(c, "answering", "ended")

(* HandleListTransactions exits the gateway on a page it cannot parse. *)
PageNotParsed(c) == service = "gateway" /\ Alive /\ call[c] = "running" /\ LogFatal

RelayWorks ==
    /\ Alive
    /\ \/ relay = "idle" /\ conn.postgres = "open" /\ relay' = "claiming"
       \/ relay = "claiming" /\ relay' = "publishing"
       \/ relay = "publishing" /\ relay' = "idle"
       \/ relay = "idle" /\ signalled /\ relay' = "ended"
    /\ UNCHANGED <<bvars, service, stage, signalled, conn, consumer, fetched,
                   call, server, forced>>

(* FetchMessage may still return a message after the context is done; a
   handler always returns, for its statements have that context. *)
ConsumerWorks ==
    /\ Alive
    /\ \/ /\ consumer = "fetching" /\ conn.kafka # "closed" /\ fetched < MaxMessages
          /\ consumer' = "handling"
          /\ fetched' = fetched + 1
       \/ consumer = "handling" /\ consumer' = "fetching" /\ UNCHANGED fetched
       \/ /\ consumer = "fetching" /\ (signalled \/ conn.kafka = "closed")
          /\ consumer' = "ended"
          /\ UNCHANGED fetched
    /\ UNCHANGED <<bvars, service, stage, signalled, conn, relay, call, server,
                   forced>>

-----------------------------------------------------------------------------
(* Shutdown                                                                *)

(* The signal, and GracefulStop or Shutdown, of a server that failed too. *)
BeginDrain ==
    /\ Goes("run", "drain") /\ signalled
    /\ server' = "draining"
    /\ UNCHANGED <<bvars, conn, relay, consumer>>

(* main of the gateway returns on the error of its server, with the calls that
   are running; the others only log theirs. *)
ServerError ==
    /\ service = "gateway" /\ server = "failed"
    /\ Goes("run", "closeUpstream")
    /\ UNCHANGED <<bvars, conn, relay, consumer, server>>

AfterServer == CASE service = "wallet" -> "closeWriter"
                 [] service = "auth" -> "closeRedis"
                 [] service = "gateway" -> "closeUpstream"

(* Mutant: Stop in place of GracefulStop. *)
StoppedAtOnce ==
    /\ Goes("drain", AfterServer)
    /\ server' = "stopped"
    /\ UNCHANGED <<bvars, conn, relay, consumer>>

Stopped ==
    /\ Goes("drain", AfterServer) /\ NoCalls
    /\ server' = "stopped"
    /\ UNCHANGED <<bvars, conn, relay, consumer>>

(* Mutant: the server is only asked to stop. *)
NoDrainTimeout == FALSE /\ UNCHANGED lifevars

(* After 30 seconds (the gateway: 10) the calls are cancelled. *)
DrainTimeout ==
    /\ stage = "drain" /\ ~NoCalls
    /\ stage' = AfterServer
    /\ server' = "stopped"
    /\ forced' = TRUE
    /\ UNCHANGED <<bvars, service, signalled, conn, workvars>>

(* CloseConnection: the writer, the readers, then the goroutines. *)
CloseWriter ==
    /\ Goes("closeWriter", "closeReaders")
    /\ conn' = [conn EXCEPT !.kafka = "noWriter"]
    /\ UNCHANGED <<bvars, relay, consumer, server>>

CloseReaders ==
    /\ Goes("closeReaders", "waitReaders")
    /\ conn' = [conn EXCEPT !.kafka = "closed"]
    /\ UNCHANGED <<bvars, relay, consumer, server>>

(* Mutant: the goroutines are not waited for. *)
NoWait ==
    /\ Goes("waitReaders", "closeRedis")
    /\ UNCHANGED <<bvars, conn, relay, consumer, server>>

WaitReaders ==
    /\ Goes("waitReaders", "closeRedis") /\ consumer = "ended"
    /\ UNCHANGED <<bvars, conn, relay, consumer, server>>

CloseRedis ==
    /\ Goes("closeRedis", "closePostgres")
    /\ conn' = [conn EXCEPT !.redis = "closed"]
    /\ UNCHANGED <<bvars, relay, consumer, server>>

ClosePostgres ==
    /\ Goes("closePostgres", "waitPool")
    /\ conn' = [conn EXCEPT !.postgres = "closed"]
    /\ UNCHANGED <<bvars, relay, consumer, server>>

PoolDrained ==
    /\ Goes("waitPool", "returned")
    /\ relay # "claiming" /\ \A c \in Calls : call[c] # "waiting"
    /\ UNCHANGED <<bvars, conn, relay, consumer, server>>

(* The gateway closes its gRPC clients last, and does not wait. *)
CloseUpstream ==
    /\ Goes("closeUpstream", "returned")
    /\ conn' = [conn EXCEPT !.upstream = "closed"]
    /\ UNCHANGED <<bvars, relay, consumer, server>>

Over == ~Alive /\ UNCHANGED lifevars

Main ==
    \/ Listen \/ PostgresConnected \/ RedisConnected \/ KafkaConnected
    \/ StartRelay \/ StartConsumer \/ Serve \/ BeginDrain \/ ServerError
    \/ Stopped \/ DrainTimeout \/ CloseWriter \/ CloseReaders \/ WaitReaders
    \/ CloseRedis \/ ClosePostgres \/ PoolDrained \/ CloseUpstream

PNext ==
    \/ Main \/ Connecting \/ ServeFails \/ Signal \/ RelayWorks \/ ConsumerWorks
    \/ \E c \in Calls : \/ CallArrives(c) \/ CallWaits(c) \/ WaitReturns(c)
                        \/ CallEnds(c) \/ PageNotParsed(c)
    \/ Over

PSpec == PInit /\ [][PNext]_lifevars

(* Goroutines run and timers fire; what a call waits for comes back once its
   context is cancelled, and by nothing else; what connects returns at its
   deadline.  Nothing is assumed of a broker that is asked for the brokers. *)
PFairness ==
    /\ WF_lifevars(Main) /\ WF_lifevars(RelayWorks) /\ WF_lifevars(ConsumerWorks)
    /\ WF_lifevars(BackoffTick /\ UNCHANGED pvars)
    /\ WF_lifevars(Returns /\ UNCHANGED pvars)
    /\ \A c \in Calls :
          /\ WF_lifevars(CallWaits(c)) /\ WF_lifevars(CallEnds(c))
          /\ WF_lifevars(forced /\ WaitReturns(c))

PFairSpec == PSpec /\ PFairness

-----------------------------------------------------------------------------
(* Properties                                                              *)

(* What moves money or answers a call has its connections under it, from
   start-up to the last close: the consumer's handler always, a call unless
   the graceful stop took too long. *)
ConnectionsUnderWork ==
    (consumer = "handling" \/ (~forced /\ ~NoCalls)) /\ Alive
        => \/ conn.postgres = "open" /\ conn.redis = "open"
           \/ service = "gateway" /\ conn.upstream = "open"

(* main returns with every connection it opened closed and the consumer
   ended.  A call is still unanswered then in two cases only: the graceful
   stop took too long, or the server of the gateway failed and its main
   returned on the error. *)
ReturnsClean ==
    stage = "returned" =>
        /\ \A k \in DOMAIN conn : conn[k] \in {"none", "closed"}
        /\ consumer \in {"off", "ended"}
        /\ forced \/ NoCalls \/ (service = "gateway" /\ server = "failed")

(* Every call is answered unless the graceful stop took too long: not so in
   the gateway, whose main does not call Shutdown when its server failed. *)
NoCallIsDropped == stage = "returned" => forced \/ NoCalls

(* No request for the brokers stays unanswered for ever. *)
BrokersAnswer == []<>(trying # "asking")

(* If the broker answers, a signal ends the process: while it connects, while
   the consumer is busy, and with calls that never come back. *)
SignalEnds == BrokersAnswer => (signalled ~> ~Alive)

(* If the broker answers, with an error or not, the process serves or exits,
   whatever else the connections do. *)
StartUpEnds == BrokersAnswer => <>(stage \in Ended \cup {"run", "drain"})

(* Without that neither holds: conn.Brokers has no deadline, and while main is
   in it nobody looks at the context that the signal cancelled. *)
SignalAlwaysEnds == signalled ~> ~Alive
StartUpAlwaysEnds == <>(stage \in Ended \cup {"run", "drain"})

(* A process whose server failed exits, so that it can be started anew: so
   for the gateway; the error of a gRPC server is only logged. *)
FailedServerExits == server = "failed" ~> ~Alive

=============================================================================
