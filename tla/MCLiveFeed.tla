---------------------------- MODULE MCLiveFeed ----------------------------
(* Instances of LiveFeed for TLC. *)
EXTENDS LiveFeed, TLC

Symmetry == Permutations(Browsers) \cup Permutations(Replicas)
=============================================================================
