------------------------ MODULE MCAccountLifecycle --------------------------
(* AccountLifecycle for TLC: calls are interchangeable. *)
EXTENDS AccountLifecycle, TLC

Symmetry == Permutations(Call)
=============================================================================
