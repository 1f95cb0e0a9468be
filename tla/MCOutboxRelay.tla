--------------------------- MODULE MCOutboxRelay ---------------------------
(* Instances of OutboxRelay for TLC: two replicas, two or three events.    *)
EXTENDS OutboxRelay, TLC

ReplicaSymmetry == Permutations(Replicas)
=============================================================================
