---------------------------- MODULE OneTimeCode ----------------------------
(***************************************************************************)
(* What an emailed one-time code promises, with no database, transaction   *)
(* or clock: a code that was issued can be missed a bounded number of      *)
(* times and won once, and once won nothing is charged to it any more.     *)
(* OtpLogin implements this specification (its property CodeIsOneTime).    *)
(***************************************************************************)
EXTENDS Naturals, FiniteSets

CONSTANTS Code,      \* issued codes
          Attempt,   \* attempts to redeem one
          Budget     \* wrong attempts a code survives, plus one

VARIABLES issued,    \* codes that exist
          missed,    \* <<code, attempt>>: attempts charged to the code
          won        \* <<code, attempt>>: attempts the code was spent on

vars == <<issued, missed, won>>

MissedOn(c) == {p \in missed : p[1] = c}
Won(c)      == \E r \in Attempt : <<c, r>> \in won

\* The code still accepts attempts.
Open(c) == c \in issued /\ ~Won(c) /\ Cardinality(MissedOn(c)) < Budget

Init == issued = {} /\ missed = {} /\ won = {}

Issue(c) == /\ c \notin issued
            /\ issued' = issued \cup {c}
            /\ UNCHANGED <<missed, won>>

Miss(c, r) == /\ Open(c)
              /\ missed' = missed \cup {<<c, r>>}
              /\ UNCHANGED <<issued, won>>

Win(c, r) == /\ Open(c)
             /\ won' = won \cup {<<c, r>>}
             /\ UNCHANGED <<issued, missed>>

Next == \/ \E c \in Code : Issue(c)
        \/ \E c \in Code, r \in Attempt : Miss(c, r) \/ Win(c, r)

Spec == Init /\ [][Next]_vars
=============================================================================
