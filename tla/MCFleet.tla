------------------------------ MODULE MCFleet ------------------------------
(* Instances of Fleet for TLC. *)
EXTENDS Fleet, TLC

Symmetry == Permutations(Bots)
=============================================================================
