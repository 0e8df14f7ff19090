------------------------------ MODULE MCLedger ------------------------------
(* Small ledgers for TLC: two or three replicas and a few transactions. *)
EXTENDS Ledger, TLC

Txn(type, from, to, amount) ==
    [type |-> type, user |-> "ann", from |-> from, to |-> to, amount |-> amount]

MCOwner == [a \in Accounts |-> IF a = 3 THEN "bob" ELSE "ann"]

(* Money comes in and crosses both ways between two accounts. *)
Crossing ==
    [d |-> Txn("deposit", 1, 1, 2),
     x |-> Txn("transfer", 1, 2, 2),
     y |-> Txn("transfer", 2, 1, 1)]

(* Three accounts pay each other in a ring, two of them funded: each holds
   the account the one before it waits for.  Beside them, events the handlers
   must refuse. *)
Ring ==
    [d |-> Txn("deposit", 1, 1, 1),
     e |-> Txn("deposit", 2, 2, 1),
     x |-> Txn("transfer", 1, 2, 1),
     y |-> Txn("transfer", 2, 3, 1),
     z |-> Txn("transfer", 3, 1, 1),
     zero |-> Txn("deposit", 1, 1, 0),
     nowhere |-> Txn("deposit", 9, 9, 1),
     foreign |-> Txn("withdrawal", 3, 3, 1)]

(* A withdrawal and a transfer compete for the same deposit; a second one
   lifts the account over HighBalance. *)
Spending ==
    [d |-> Txn("deposit", 1, 1, 2),
     e |-> Txn("deposit", 1, 1, 1),
     x |-> Txn("transfer", 1, 2, 2),
     o |-> Txn("withdrawal", 1, 1, 2)]

(* Two deposits lift the account over HighBalance around a withdrawal. *)
Lifting ==
    [d |-> Txn("deposit", 1, 1, 2),
     e |-> Txn("deposit", 1, 1, 3),
     o |-> Txn("withdrawal", 1, 1, 1)]

CrossingTxns == {"d", "x", "y"}
RingTxns == {"d", "e", "x", "y", "z", "zero", "nowhere", "foreign"}
SpendingTxns == {"d", "e", "x", "o"}
LiftingTxns == {"d", "e", "o"}

WorkerSymmetry == Permutations(Workers)

=============================================================================
