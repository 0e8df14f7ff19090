---------------------------- MODULE AccountCalls ----------------------------
(***************************************************************************)
(* The calls about accounts that wallet-service answers by itself, without *)
(* an outbox row: CreateAccount (OpenAccount) and GetBalance.  The gRPC    *)
(* server runs every call in a goroutine of its own, so their statements   *)
(* interleave with each other and with the handlers' commits.              *)
(***************************************************************************)
EXTENDS AccountOpening, BalanceCache

callvars == <<avars, bvars>>

AccountInit == AInit /\ BInit

CreateAccountStep == ANext /\ UNCHANGED bvars

GetBalanceStep == BNext /\ UNCHANGED avars

AccountNext == CreateAccountStep \/ GetBalanceStep

(* Nothing is asked of the calls that open accounts: a client may go away. *)
AccountSpec == AccountInit /\ [][AccountNext]_callvars /\ BFairness

=============================================================================
