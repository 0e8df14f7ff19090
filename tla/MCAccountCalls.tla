--------------------------- MODULE MCAccountCalls ---------------------------
(* Two calls that open accounts, and two readers of the balance of one. *)
EXTENDS AccountCalls

=============================================================================
