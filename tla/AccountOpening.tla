--------------------------- MODULE AccountOpening ---------------------------
(***************************************************************************)
(* WalletService.OpenAccount: the accounts of the user are read, those of  *)
(* the currency counted, and the new one inserted, with nothing that keeps *)
(* two calls apart.                                                        *)
(***************************************************************************)
EXTENDS Naturals, FiniteSets

CONSTANTS
    Callers,       \* requests that may run at the same time
    Users,
    Currencies,
    Limit          \* accounts per currency (3 in the code)

ASSUME OpeningAssumption ==
    /\ IsFiniteSet(Callers)
    /\ Limit \in Nat \ {0}

VARIABLES
    accounts,      \* rows of accounts, per user and currency
    call           \* what each call asked for and counted

avars == <<accounts, call>>

NoCall == [state |-> "idle"]

Calls == {NoCall} \cup
    [state : {"counted"}, user : Users, currency : Currencies, count : Nat]

ATypeOK ==
    /\ accounts \in [Users -> [Currencies -> Nat]]
    /\ call \in [Callers -> Calls]
    /\ \A c \in Callers : call[c] # NoCall =>
          call[c].count <= accounts[call[c].user][call[c].currency]

AInit ==
    /\ accounts = [u \in Users |-> [m \in Currencies |-> 0]]
    /\ call = [c \in Callers |-> NoCall]

(* The rows of the user that have the currency. *)
OfCurrency(u, m) == accounts[u][m]

(* FindAccountsByUserId *)
Count(c, u, m) ==
    /\ call[c] = NoCall
    /\ call' = [call EXCEPT ![c] = [state |-> "counted", user |-> u,
                                    currency |-> m, count |-> OfCurrency(u, m)]]
    /\ UNCHANGED accounts

(* Mutant: off by one. *)
CanOpenOneMore(count) == count <= Limit

CanOpenNewAccounts(count) == count < Limit

(* The call ends with the new row, or without it: the limit is reached, or
   InsertAccount failed. *)
Insert(c) ==
    LET u == call[c].user
        m == call[c].currency
    IN  /\ call[c] # NoCall
        /\ CanOpenNewAccounts(call[c].count)
        /\ accounts' = [accounts EXCEPT ![u][m] = @ + 1]
        /\ call' = [call EXCEPT ![c] = NoCall]

ReturnError(c) ==
    /\ call[c] # NoCall
    /\ call' = [call EXCEPT ![c] = NoCall]
    /\ UNCHANGED accounts

ANext ==
    \E c \in Callers :
        \/ \E u \in Users, m \in Currencies : Count(c, u, m)
        \/ Insert(c)
        \/ ReturnError(c)

ASpec == AInit /\ [][ANext]_avars

-----------------------------------------------------------------------------

(* No user has more accounts of one currency than the limit allows. *)
AtMostLimit ==
    \A u \in Users, m \in Currencies : accounts[u][m] <= Limit

(* The calls that counted before the limit was reached may each still add
   an account, and no others can: the limit is overrun by less than the
   number of concurrent calls. *)
OverrunBounded ==
    \A u \in Users, m \in Currencies :
        accounts[u][m] + Cardinality({c \in Callers :
            /\ call[c] # NoCall
            /\ call[c].user = u /\ call[c].currency = m
            /\ CanOpenNewAccounts(call[c].count)})
        < Limit + Cardinality(Callers)

=============================================================================
