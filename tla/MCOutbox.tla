------------------------------ MODULE MCOutbox ------------------------------
(* Two or three rows and two relays. *)
EXTENDS Outbox, TLC

MCPartitionOf == [e \in Events |-> CHOOSE p \in Partitions : TRUE]

RelaySymmetry == Permutations(Relays)

=============================================================================
