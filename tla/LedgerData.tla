----------------------------- MODULE LedgerData -----------------------------
(***************************************************************************)
(* The static side of the ledger: the transactions a run may see, with the *)
(* payload their event carries (domain.DepositRequestedPayload and its     *)
(* siblings), and the balance an account has according to the ledger, the  *)
(* SUM of WalletRepository.reconcileBalance.                               *)
(* A deposit and a withdrawal name their account as both from and to.      *)
(***************************************************************************)
EXTENDS Integers, FiniteSetsExt

CONSTANTS
    Accounts,   \* ids of the rows of accounts, ordered as their uuids are
    Txns,       \* transaction ids
    Users,
    Owner,      \* accounts.user_id, a function from Accounts to Users
    Payload     \* the event of each transaction

TxnTypes == {"deposit", "withdrawal", "transfer"}

(* from and to may name an account that has no row. *)
ASSUME DataAssumption ==
    /\ Accounts \subseteq Nat /\ IsFiniteSet(Accounts)
    /\ Owner \in [Accounts -> Users]
    /\ Payload \in [Txns -> [type : TxnTypes, user : Users, from : Nat,
                             to : Nat, amount : Int]]

Amount(t) == Payload[t].amount
From(t) == Payload[t].from
To(t) == Payload[t].to

(* Mutant: the ids are locked in the order the event names them. *)
RequestOrder(t) == <<From(t), To(t)>>

(* The smaller id is locked first. *)
LockOrder(t) == IF To(t) < From(t) THEN <<To(t), From(t)>>
                                   ELSE <<From(t), To(t)>>

FirstId(t) == LockOrder(t)[1]
SecondId(t) == LockOrder(t)[2]

(* The row of t passes the foreign keys and the CHECKs of transactions. *)
Insertable(t) ==
    /\ {From(t), To(t)} \subseteq Accounts
    /\ Amount(t) > 0
    /\ Payload[t].type = "transfer" => From(t) # To(t)

Touches(t, a) == a \in {From(t), To(t)}

(* One branch of the CASE inside the SUM. *)
SignedAmount(t, a) ==
    CASE Payload[t].type = "deposit" -> Amount(t)
      [] Payload[t].type = "withdrawal" -> -Amount(t)
      [] Payload[t].type = "transfer" /\ To(t) = a -> Amount(t)
      [] Payload[t].type = "transfer" /\ To(t) # a -> -Amount(t)

(* COALESCE(SUM(...), 0) over a set of rows. *)
RowSum(a, rows) ==
    IF rows = {} THEN 0
    ELSE MapThenSumSet(LAMBDA t : SignedAmount(t, a), rows)

(* What the completed rows that touch a add up to. *)
LedgerSum(a, completed) == RowSum(a, {t \in completed : Touches(t, a)})

=============================================================================
