---------------------------- MODULE MCBoundary -----------------------------
(* Boundary for TLC: one read that is retried and one write. *)
EXTENDS Boundary
=============================================================================
