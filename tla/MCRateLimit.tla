---------------------------- MODULE MCRateLimit -----------------------------
(* RateLimit for TLC: calls are interchangeable, and so are sources. *)
EXTENDS RateLimit, TLC

Symmetry == Permutations(Call) \cup Permutations(Source)
=============================================================================
