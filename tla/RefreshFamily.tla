---------------------------- MODULE RefreshFamily ---------------------------
(***************************************************************************)
(* What the refresh credentials of a session promise, with no rows locked  *)
(* and no statements: a family is a line of credentials 1, 2, 3...; only   *)
(* the newest can be redeemed, by one call, which makes the next one at    *)
(* the same moment; and a family that was ended stays so.  A call that had *)
(* looked before may still redeem in a family that has ended meanwhile,    *)
(* and gets a credential that is refused.                                  *)
(* SessionSecurity implements this specification (FamilyIsLinear).         *)
(***************************************************************************)
EXTENDS Naturals

CONSTANTS Session,  \* sessions, each with its family
          Rotation  \* calls that redeem a credential

VARIABLES newest,   \* the newest credential of each family, 0 before the first
          redeemed, \* <<family, credential, call>>
          ended     \* families that are refused for good

vars == <<newest, redeemed, ended>>

Redeemed(f, k) == \E c \in Rotation : <<f, k, c>> \in redeemed

Init == newest = [f \in Session |-> 0] /\ redeemed = {} /\ ended = {}

Open(f) == /\ newest[f] = 0
           /\ newest' = [newest EXCEPT ![f] = 1]
           /\ UNCHANGED <<redeemed, ended>>

Redeem(f, c) == /\ newest[f] # 0 /\ ~Redeemed(f, newest[f])
                /\ \A p \in redeemed : p[3] # c
                /\ newest' = [newest EXCEPT ![f] = @ + 1]
                /\ redeemed' = redeemed \cup {<<f, newest[f], c>>}
                /\ UNCHANGED ended

End(S) == ended' = ended \cup S /\ UNCHANGED <<newest, redeemed>>

Next == \/ \E f \in Session : Open(f) \/ \E c \in Rotation : Redeem(f, c)
        \/ \E S \in SUBSET Session : End(S)

Spec == Init /\ [][Next]_vars
=============================================================================
