-------------------------- MODULE MCProtocolStore ---------------------------
(* ProtocolStore for TLC: calls and artifacts are interchangeable. *)
EXTENDS ProtocolStore, TLC

Symmetry == Permutations(Call) \cup Permutations(Artifact)
=============================================================================
