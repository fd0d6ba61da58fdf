------------------------------ MODULE Account -------------------------------
(***************************************************************************)
(* What the life of one account promises, with no transactions and no      *)
(* waiting: each use case takes effect at one moment, whole or not at all. *)
(* A token is good once and for one purpose, a session is only ever made   *)
(* for a verified address, and what is revoked, deleted or deactivated     *)
(* does not come back.  When a token runs out, and which of the sessions   *)
(* an overlapping reset reaches, is left open.                             *)
(* AccountLifecycle implements this specification (AccountIsAtomic).       *)
(***************************************************************************)
CONSTANTS Call,  \* calls of the use cases, and the sessions and tokens they make
          Old,   \* the password and the token there were before
          None   \* no password

VARIABLES stage,     \* "absent", "active" or "deactivated"
          verified,  \* the address is verified
          password,  \* the call that set it
          token,     \* "unissued", the purpose it is good for, or "deleted"
          session    \* "none", "live" or "revoked"

vars == <<stage, verified, password, token, session>>

Token == Call \cup {Old}
Sessions == {s \in Call : session[s] # "none"}

\* The address is unknown, or registered with an outstanding token.
Init ==
  /\ session = [s \in Call |-> "none"]
  /\ verified \in BOOLEAN
  /\ \/ /\ stage = "absent" /\ ~verified /\ password = None
        /\ token = [t \in Token |-> "unissued"]
     \/ /\ stage = "active" /\ password = Old
        /\ token = [t \in Token |->
             IF t # Old THEN "unissued"
             ELSE IF verified THEN "password_reset" ELSE "email_verification"]

Issue(t, purpose) == token[t] = "unissued" /\ token' = [token EXCEPT ![t] = purpose]
Spend(t, purpose) == token[t] = purpose /\ token' = [token EXCEPT ![t] = "deleted"]

\* The sessions of S, and no others, are revoked.
End(S) == session' = [s \in Call |-> IF s \in S THEN "revoked" ELSE session[s]]

\* A use case that is refused, or only reads, leaves everything as it is.
Refuse == UNCHANGED vars

Register(c) ==
  /\ stage = "absent" /\ stage' = "active"
  /\ password' = c
  /\ Issue(c, "email_verification")
  /\ UNCHANGED <<verified, session>>

RequestReset(c) ==
  /\ stage # "absent"
  /\ Issue(c, "password_reset")
  /\ UNCHANGED <<stage, verified, password, session>>

Verify(t) ==
  /\ stage # "absent"
  /\ Spend(t, "email_verification")
  /\ verified' = TRUE
  /\ UNCHANGED <<stage, password, session>>

Reset(c, t) ==
  /\ stage # "absent"
  /\ Spend(t, "password_reset")
  /\ password' = c
  /\ \E S \in SUBSET Sessions : End(S)
  /\ UNCHANGED <<stage, verified>>

\* A token presented for the other purpose is gone, and nothing came of it.
Discard(t) ==
  /\ \E purpose \in {"email_verification", "password_reset"} : Spend(t, purpose)
  /\ UNCHANGED <<stage, verified, password, session>>

SignIn(s) ==
  /\ stage # "absent" /\ verified
  /\ session[s] = "none" /\ session' = [session EXCEPT ![s] = "live"]
  /\ UNCHANGED <<stage, verified, password, token>>

Deactivate ==
  /\ stage # "absent" /\ stage' = "deactivated"
  /\ \E S \in SUBSET Sessions : End(S)
  /\ UNCHANGED <<verified, password, token>>

Revoke(s) ==
  /\ s \in Sessions /\ End({s})
  /\ UNCHANGED <<stage, verified, password, token>>

Next ==
  \/ Refuse
  \/ \E c \in Call : Register(c) \/ RequestReset(c) \/ SignIn(c) \/ Revoke(c)
  \/ \E t \in Token : Verify(t) \/ Discard(t) \/ \E c \in Call : Reset(c, t)
  \/ Deactivate

Spec == Init /\ [][Next]_vars
=============================================================================
