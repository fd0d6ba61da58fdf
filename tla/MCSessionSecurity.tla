------------------------- MODULE MCSessionSecurity --------------------------
(* SessionSecurity for TLC: calls of rotate and sessions are interchangeable. *)
EXTENDS SessionSecurity, TLC

Symmetry == Permutations(Rotation) \cup Permutations(Session)
=============================================================================
