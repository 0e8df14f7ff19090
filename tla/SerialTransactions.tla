------------------------- MODULE SerialTransactions -------------------------
(***************************************************************************)
(* What the request path, the relays, the consumers and the lock in Redis  *)
(* promise together: the transactions of a user's account go one after the *)
(* other.  One is accepted while none of the account is in flight; only in *)
(* flight is it recorded, and the step that gives it its outcome ends it.  *)
(***************************************************************************)
CONSTANTS Events, KeyOf

VARIABLES
    phase,     \* of each transaction: none, inFlight, ended
    status     \* transactions.status, or "absent"

tvars == <<phase, status>>

TInit ==
    /\ phase = [e \in Events |-> "none"]
    /\ status = [e \in Events |-> "absent"]

Accept(e) ==
    /\ phase[e] = "none"
    /\ \A f \in Events : KeyOf[f] = KeyOf[e] => phase[f] # "inFlight"
    /\ phase' = [phase EXCEPT ![e] = "inFlight"]
    /\ UNCHANGED status

Record(e) ==
    /\ phase[e] = "inFlight"
    /\ status[e] = "absent"
    /\ status' = [status EXCEPT ![e] = "pending"]
    /\ UNCHANGED phase

(* Given up by the relay or refused by the handler, settled, or left pending
   by a handler that could not finish *)
End(e) ==
    /\ phase[e] = "inFlight"
    /\ phase' = [phase EXCEPT ![e] = "ended"]
    /\ \/ UNCHANGED status
       \/ /\ status[e] = "pending"
          /\ \E outcome \in {"completed", "failed"} :
                status' = [status EXCEPT ![e] = outcome]

(* The change comes first, so that a step without one is passed over at once. *)
TNext ==
    /\ tvars' # tvars
    /\ \E e \in Events : Accept(e) \/ Record(e) \/ End(e)

TSpec == TInit /\ [][TNext]_tvars

=============================================================================
