---------------------------- MODULE AtomicLedger ----------------------------
(***************************************************************************)
(* What the wallet promises of money: a transaction is recorded, and is    *)
(* then settled or rejected once and for ever.  Settling sets, in the same *)
(* step, the balance of every account it touches to what the ledger says,  *)
(* and is only possible when none of them goes below zero.                 *)
(***************************************************************************)
EXTENDS Naturals

CONSTANTS
    Accounts, Txns,
    Insertable(_),      \* the transaction may be recorded
    Touches(_, _),      \* the transaction moves money of the account
    LedgerSum(_, _)     \* an account's balance, given the completed transactions

VARIABLES
    status,     \* transactions.status, or "absent"
    balance     \* accounts.balance

avars == <<status, balance>>

Completed == {t \in Txns : status[t] = "completed"}

AInit ==
    /\ status = [t \in Txns |-> "absent"]
    /\ balance = [a \in Accounts |-> 0]

Record(t) ==
    /\ status[t] = "absent"
    /\ Insertable(t)
    /\ status' = [status EXCEPT ![t] = "pending"]
    /\ UNCHANGED balance

Settle(t) ==
    LET sums == [a \in Accounts |-> LedgerSum(a, Completed \cup {t})]
    IN  /\ status[t] = "pending"
        /\ \A a \in Accounts : Touches(t, a) => sums[a] \in Nat
        /\ status' = [status EXCEPT ![t] = "completed"]
        /\ balance' = [a \in Accounts |->
                          IF Touches(t, a) THEN sums[a] ELSE balance[a]]

Reject(t) ==
    /\ status[t] = "pending"
    /\ status' = [status EXCEPT ![t] = "failed"]
    /\ UNCHANGED balance

ANext == \E t \in Txns : Record(t) \/ Settle(t) \/ Reject(t)

ASpec == AInit /\ [][ANext]_avars

=============================================================================
