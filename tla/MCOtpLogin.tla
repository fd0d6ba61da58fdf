----------------------------- MODULE MCOtpLogin -----------------------------
(* OtpLogin for TLC: every challenge is requested for the same address. *)
EXTENDS OtpLogin, TLC

CONSTANT e1
MCAddressee == [c \in Challenge |-> e1]
Symmetry == Permutations(Attempt)
=============================================================================
