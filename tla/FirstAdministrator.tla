-------------------------- MODULE FirstAdministrator ------------------------
(***************************************************************************)
(* What the bootstrap of a platform promises, with no lock and no          *)
(* statements: a claim spends one token, makes one account and the one     *)
(* administrator at the same moment, for the address the token was made    *)
(* for, or does nothing.  Accounts that register meanwhile are let in      *)
(* whenever they come; when a token runs out is left open.                 *)
(* Bootstrap implements this specification (BootstrapIsAtomic).            *)
(***************************************************************************)
CONSTANTS Token,  \* bootstrap tokens
          Email,  \* addresses
          None    \* the address of a token that was not made

VARIABLES made,          \* the address each token was made for
          spent,         \* tokens that were spent
          account,       \* addresses that have an account
          administrator  \* addresses of platform administrators

vars == <<made, spent, account, administrator>>

Init == /\ made = [t \in Token |-> None]
        /\ spent = {} /\ account = {} /\ administrator = {}

CreateToken(t, e) == /\ made[t] = None
                     /\ made' = [made EXCEPT ![t] = e]
                     /\ UNCHANGED <<spent, account, administrator>>

Register(e) == /\ e \notin account
               /\ account' = account \cup {e}
               /\ UNCHANGED <<made, spent, administrator>>

MakeAdministrator(t) == /\ made[t] # None /\ t \notin spent
                        /\ administrator = {} /\ made[t] \notin account
                        /\ spent' = spent \cup {t}
                        /\ account' = account \cup {made[t]}
                        /\ administrator' = {made[t]}
                        /\ UNCHANGED made

Next == \/ \E t \in Token : MakeAdministrator(t)
        \/ \E t \in Token, e \in Email : CreateToken(t, e)
        \/ \E e \in Email : Register(e)

Spec == Init /\ [][Next]_vars
=============================================================================
