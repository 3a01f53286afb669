----------------------------- MODULE MCSandbox -----------------------------
(* Instances of Sandbox for TLC: two uploads of one submission and one of   *)
(* another, whose ids have the same port.                                   *)
EXTENDS Sandbox, TLC

CONSTANTS u1, u2, u3, s1, s2, p1

TwoAndOne == (u1 :> s1) @@ (u2 :> s1) @@ (u3 :> s2)
OnePort == (s1 :> p1) @@ (s2 :> p1)

Symmetry == Permutations({u1, u2})
=============================================================================
