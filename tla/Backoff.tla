------------------------------ MODULE Backoff -------------------------------
(***************************************************************************)
(* retry.WithBackoff under a deadline, as Connect of PostgreSQL and of     *)
(* Kafka uses it: an operation is tried MaxRetries + 1 times, with a wait  *)
(* in between that doubles up to MaxWait, and the context of the caller    *)
(* ends after Timeout.  pgxpool.New with Ping and kafka.DialContext have   *)
(* that context: they return by then, and fail when they begin later.      *)
(* Kafka's operation then asks for the brokers: conn.Brokers has no        *)
(* context, the connection has no deadline, and the broker may never       *)
(* answer.                                                                 *)
(*                                                                         *)
(* A goroutine may be scheduled late, so a wait may be over and the        *)
(* context done at the same time, and select then takes either.  Between   *)
(* time.After and the poll of select it is not held up for a whole wait:   *)
(* a context done before the wait is seen before the timer.                *)
(***************************************************************************)
EXTENDS Naturals

CONSTANTS
    MaxRetries,
    InitialWait,
    MaxWait,
    Timeout,
    Horizon        \* bound: the last moment that is told apart

ASSUME BackoffAssumption ==
    /\ {MaxRetries, InitialWait, MaxWait, Timeout, Horizon} \subseteq Nat
    /\ 0 < InitialWait /\ Timeout < Horizon

VARIABLES
    trying,     \* where the loop is, or how it ended
    attempt,    \* the number of the attempt, from 0
    wait,       \* how long the next wait is
    wakeAt,     \* when the wait in progress is over
    clock,      \* since the context was made
    late        \* attempts begun when the context was done

bvars == <<trying, attempt, wait, wakeAt, clock, late>>

Trying == {"operation", "asking", "waiting"}
Tried == {"succeeded", "gaveUp", "cancelled"}

BackoffTypeOK ==
    /\ trying \in Trying \cup Tried \cup {"off"}
    /\ attempt \in 0..MaxRetries
    /\ wait \in Nat
    /\ wakeAt \in Nat
    /\ clock \in 0..Horizon
    /\ late \in 0..MaxRetries + 1

BackoffInit ==
    /\ trying = "off"
    /\ attempt = 0 /\ wait = InitialWait /\ wakeAt = 0 /\ clock = 0 /\ late = 0

Afresh(step) ==
    /\ trying' = step
    /\ attempt' = 0 /\ wait' = InitialWait /\ wakeAt' = 0 /\ clock' = 0
    /\ late' = 0

(* The caller makes its context and the first attempt begins. *)
WithBackoff == trying = "off" /\ Afresh("operation")

(* The caller has the connection; the locals of the loop are gone. *)
Connected == trying = "succeeded" /\ Afresh("off")

(* Dialled: the operation goes on without the context, if "asking" is its
   last part. *)
OperationAsks(last) ==
    /\ trying = "operation" /\ last = "asking"
    /\ late = 0
    /\ trying' = "asking"
    /\ UNCHANGED <<attempt, wait, wakeAt, clock, late>>

OperationSucceeds(last) ==
    /\ trying = last
    /\ late = 0
    /\ trying' = "succeeded"
    /\ UNCHANGED <<attempt, wait, wakeAt, clock, late>>

(* Mutant: the context is not looked at. *)
FailIgnoringContext ==
    /\ trying \in {"operation", "asking"}
    /\ IF attempt = MaxRetries
       THEN trying' = "gaveUp" /\ UNCHANGED <<attempt, wakeAt>>
       ELSE /\ trying' = "waiting"
            /\ attempt' = attempt + 1
            /\ wakeAt' = clock + wait
    /\ UNCHANGED <<wait, clock, late>>

(* After the last attempt the error is returned; before a wait a context that
   is done ends the loop at once. *)
OperationFails ==
    /\ trying \in {"operation", "asking"}
    /\ IF attempt = MaxRetries
       THEN trying' = "gaveUp" /\ UNCHANGED <<attempt, wakeAt>>
       ELSE IF clock >= Timeout
       THEN trying' = "cancelled" /\ UNCHANGED <<attempt, wakeAt>>
       ELSE /\ trying' = "waiting"
            /\ attempt' = attempt + 1
            /\ wakeAt' = clock + wait
    /\ UNCHANGED <<wait, clock, late>>

(* Mutant: the wait stays the same. *)
SameWait(w) == w

(* Exponential backoff with a cap *)
NextWait(w) == IF 2 * w > MaxWait THEN MaxWait ELSE 2 * w

WaitIsOver ==
    /\ trying = "waiting"
    /\ clock >= wakeAt
    /\ trying' = "operation"
    /\ wait' = NextWait(wait)
    /\ late' = IF clock >= Timeout THEN late + 1 ELSE late
    /\ UNCHANGED <<attempt, wakeAt, clock>>

ContextDone ==
    /\ trying = "waiting"
    /\ clock >= Timeout
    /\ trying' = "cancelled"
    /\ UNCHANGED <<attempt, wait, wakeAt, clock, late>>

(* Mutant: a context without deadline. *)
NoDeadline ==
    /\ trying \in Trying
    /\ clock' = IF clock + 1 < Timeout THEN clock + 1 ELSE clock
    /\ UNCHANGED <<trying, attempt, wait, wakeAt, late>>

(* The timer behind context.WithTimeout runs while the loop does. *)
BackoffTick ==
    /\ trying \in Trying
    /\ clock < Horizon
    /\ clock' = clock + 1
    /\ UNCHANGED <<trying, attempt, wait, wakeAt, late>>

(* When the context is done, what has it returns, and so does select. *)
Returns ==
    /\ clock >= Timeout /\ trying # "asking"
    /\ OperationFails \/ WaitIsOver \/ ContextDone

BackoffNext(last) ==
    \/ OperationAsks(last) \/ OperationSucceeds(last) \/ OperationFails
    \/ WaitIsOver \/ ContextDone \/ BackoffTick

-----------------------------------------------------------------------------
(* Properties                                                              *)

(* However late the goroutine wakes up, it begins at most one attempt after
   its context is done (provided that it is not held up for a whole wait
   between time.After and the poll of select). *)
OneLateAttempt == late <= 1

(* The waits an attempt has behind it: the first is not capped. *)
EarliestStart[n \in 0..MaxRetries] ==
    IF n = 0 THEN 0
    ELSE LET doubled == InitialWait * 2 ^ (n - 1)
         IN  EarliestStart[n - 1] +
                 (IF n > 1 /\ doubled > MaxWait THEN MaxWait ELSE doubled)

(* No attempt is made before the doubled and capped waits that lie before it
   are over. *)
AttemptsSpread ==
    trying \in {"operation", "asking"} => clock >= EarliestStart[attempt]

=============================================================================
