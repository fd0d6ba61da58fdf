------------------------ MODULE MCConsentCeremony ------------------------
(* ConsentCeremony for TLC: tabs, submissions and interactions are          *)
(* interchangeable.                                                         *)
EXTENDS ConsentCeremony, TLC

Symmetry == Permutations(Tab) \cup Permutations(Post) \cup Permutations(Interaction)
=============================================================================
