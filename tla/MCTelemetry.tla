---------------------------- MODULE MCTelemetry ----------------------------
(* Instances of Telemetry for TLC. *)
EXTENDS Telemetry, TLC

Symmetry == Permutations(Replicas) \cup Permutations(Partitions)
=============================================================================
