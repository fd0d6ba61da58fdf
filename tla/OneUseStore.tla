----------------------------- MODULE OneUseStore ----------------------------
(***************************************************************************)
(* What the provider's store promises of artifacts and consents, with no   *)
(* snapshots, no waiting and no writers: from the time an artifact is      *)
(* stored until it is removed it is spent at most once, by a call that     *)
(* consumes it or by the revocation of its grant, and the consents of a    *)
(* subject with a client are one cell, which is set and cleared.  What an  *)
(* artifact carries, and when it expires, is left open.                    *)
(* ProtocolStore implements this specification (StoreIsAtomic).            *)
(***************************************************************************)
CONSTANTS Artifact,  \* ids of artifacts
          Call,      \* calls
          Old,       \* who granted the consent there was before
          Time,      \* times at which an artifact can be spent
          Unused     \* not spent, none of those times

VARIABLES stored,   \* artifacts that are there
          spentAt,  \* when each was spent
          winners,  \* <<artifact, call>>: the calls that consumed it
          consent   \* who granted the consent in force: one or none

vars == <<stored, spentAt, winners, consent>>

Init == /\ stored \in SUBSET Artifact
        /\ spentAt = [a \in Artifact |-> Unused]
        /\ winners = {}
        /\ consent \in {{}, {Old}}

Usable(a) == a \in stored /\ spentAt[a] = Unused

\* An artifact that is there already is as spent as it was.
Put(a) == /\ stored' = stored \cup {a}
          /\ UNCHANGED <<spentAt, winners, consent>>

Consume(a, c, t) == /\ Usable(a)
                    /\ spentAt' = [spentAt EXCEPT ![a] = t]
                    /\ winners' = winners \cup {<<a, c>>}
                    /\ UNCHANGED <<stored, consent>>

\* The artifacts of S are spent, and nobody has consumed them.
Revoke(S, t) == /\ \A a \in S : Usable(a)
                /\ spentAt' = [a \in Artifact |-> IF a \in S THEN t ELSE spentAt[a]]
                /\ UNCHANGED <<stored, winners, consent>>

Remove(S) == /\ stored' = stored \ S
             /\ spentAt' = [a \in Artifact |-> IF a \in S THEN Unused ELSE spentAt[a]]
             /\ UNCHANGED <<winners, consent>>

Grant(c) == consent' = {c} /\ UNCHANGED <<stored, spentAt, winners>>
Withdraw == consent' = {} /\ UNCHANGED <<stored, spentAt, winners>>

Next == \/ \E a \in Artifact : Put(a) \/ \E c \in Call, t \in Time : Consume(a, c, t)
        \/ \E S \in SUBSET Artifact : Remove(S) \/ \E t \in Time : Revoke(S, t)
        \/ \E c \in Call : Grant(c)
        \/ Withdraw

Spec == Init /\ [][Next]_vars
=============================================================================
