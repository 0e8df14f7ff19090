----------------------------- MODULE MCConsumer -----------------------------
(* Two replicas; one or two short partitions. *)
EXTENDS Consumer, TLC

ConsumerSymmetry == Permutations(Consumers)

=============================================================================
