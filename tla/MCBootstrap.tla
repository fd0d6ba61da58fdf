--------------------------- MODULE MCBootstrap -----------------------------
(* Bootstrap for TLC: claims, tokens and addresses are interchangeable. *)
EXTENDS Bootstrap, TLC

Symmetry == Permutations(Claim) \cup Permutations(Token) \cup Permutations(Email)
=============================================================================
