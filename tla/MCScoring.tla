----------------------------- MODULE MCScoring -----------------------------
(* Instances of Scoring for TLC. *)
EXTENDS Scoring, TLC

Symmetry == Permutations(Replicas)
=============================================================================
