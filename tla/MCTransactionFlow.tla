-------------------------- MODULE MCTransactionFlow -------------------------
(* Requests for one account. *)
EXTENDS TransactionFlow, TLC

OneKey == [e \in Events |-> CHOOSE k \in Keys : TRUE]

MCPartitionOf == [e \in Events |-> CHOOSE p \in Partitions : TRUE]

EventSymmetry == Permutations(Events)

=============================================================================
