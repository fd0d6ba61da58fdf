----------------------------- MODULE Bootstrap ------------------------------
(***************************************************************************)
(* The first administrator (packages/db/src/first-admin-bootstrap.ts):     *)
(* one-time tokens, claims that a Postgres advisory lock serialises, and   *)
(* the registrations that add users meanwhile without taking that lock.    *)
(*                                                                         *)
(* A claim is one READ COMMITTED transaction, modelled statement by        *)
(* statement; of a registration only its users row is kept.                *)
(***************************************************************************)
EXTENDS Naturals, FiniteSets

CONSTANTS Claim,        \* calls of claim
          Registration, \* calls of register
          Token,        \* bootstrap tokens
          Email,        \* addresses
          TTL,          \* life of a token, in clock ticks
          MaxTime,      \* bound on the clock
          None          \* no token, no address

ASSUME ParameterAssumption ==
  /\ TTL \in Nat \ {0}
  /\ MaxTime \in Nat
  /\ Claim \cap Registration = {}
  /\ None \notin Token \cup Email

VARIABLES clock,        \* the time callers pass as now
          users,        \* number of users rows per address
          admins,       \* number of platform_administrators rows
          token,        \* bootstrap_tokens
          claim,        \* the calls of claim
          registration  \* the calls of register

vars == <<clock, users, admins, token, claim, registration>>
-----------------------------------------------------------------------------
TokenRow == [email : Email \cup {None}, expiresAt : Nat, consumed : BOOLEAN]

ClaimPc == {"idle", "lock", "count", "spend", "user", "admin", "commit", "done"}
\* collided: a statement failed on a unique key (any other failure is "error").
\* prior: the registrations committed when the lock was taken (read by no action).
Claimed == [pc : ClaimPc, token : Token \cup {None}, email : Email \cup {None}, now : Nat,
            wrote : SUBSET {"token", "user", "admin"},
            answer : {"none", "created", "rejected", "error", "collided"},
            prior : SUBSET Registration]
Registering == [pc : {"idle", "insert", "commit", "done"}, email : Email \cup {None},
                wrote : BOOLEAN]

Init ==
  /\ clock = 0
  /\ users = [e \in Email |-> 0]
  /\ admins = 0
  /\ token = [t \in Token |-> [email |-> None, expiresAt |-> 0, consumed |-> FALSE]]
  /\ claim = [c \in Claim |-> [pc |-> "idle", token |-> None, email |-> None, now |-> 0,
                               wrote |-> {}, answer |-> "none", prior |-> {}]]
  /\ registration = [r \in Registration |-> [pc |-> "idle", email |-> None, wrote |-> FALSE]]

CreateToken(t) ==
  /\ token[t].email = None
  /\ \E e \in Email :
       token' = [token EXCEPT ![t] = [@ EXCEPT !.email = e, !.expiresAt = clock + TTL]]
  /\ UNCHANGED <<clock, users, admins, claim, registration>>
-----------------------------------------------------------------------------
Open(c) == claim[c].pc \notin {"idle", "done"}

\* Another open transaction has inserted a users row of this address.
Inserting(e) ==
  \/ \E c \in Claim : Open(c) /\ "user" \in claim[c].wrote /\ claim[c].email = e
  \/ \E r \in Registration : registration[r].pc = "commit" /\ registration[r].email = e

FreeAddress(e) == users[e] = 0

Step(c, fields) == claim' = [claim EXCEPT ![c] = fields]
Return(c, answer) == Step(c, [claim[c] EXCEPT !.pc = "commit", !.answer = answer])
Thrown(c, answer) == Step(c, [claim[c] EXCEPT !.pc = "done", !.wrote = {}, !.now = 0,
                                               !.answer = answer])

\* Faulty variant: the token is spent before the platform is known to be empty.
FollowingSpendFirst(pc) ==
  CASE pc = "lock" -> "spend" [] pc = "spend" -> "count" [] pc = "count" -> "user"
    [] pc = "user" -> "admin" [] pc = "admin" -> "commit"

\* The order of the statements of claim.
Following(pc) ==
  CASE pc = "lock" -> "count" [] pc = "count" -> "spend" [] pc = "spend" -> "user"
    [] pc = "user" -> "admin" [] pc = "admin" -> "commit"

ToNext(c, write) ==
  Step(c, [claim[c] EXCEPT !.pc = Following(claim[c].pc), !.wrote = @ \cup write])
-----------------------------------------------------------------------------
(* claim *)

ClaimLimited(c) ==
  /\ claim[c].pc = "idle"
  /\ Step(c, [claim[c] EXCEPT !.pc = "done", !.answer = "rejected"])
  /\ UNCHANGED <<clock, users, admins, token, registration>>

Begin(c) ==
  /\ claim[c].pc = "idle"
  /\ \E t \in {u \in Token : token[u].email # None} \cup {None}, e \in Email :
       Step(c, [claim[c] EXCEPT
                  !.pc = "lock", !.token = t, !.email = e, !.now = clock])
  /\ UNCHANGED <<clock, users, admins, token, registration>>

\* Faulty variants: everybody gets the advisory lock; it is one of the
\* connection and outlives the transaction.
HoldsLockNever(c) == claim[c].pc = "none"
HoldsLockSession(c) == claim[c].pc \notin {"idle", "lock"}

HoldsLock(c) == Open(c) /\ claim[c].pc # "lock"

Lock(c) ==
  /\ claim[c].pc = "lock"
  /\ \A d \in Claim \ {c} : ~HoldsLock(d)
  /\ Step(c, [claim[c] EXCEPT !.pc = Following("lock"),
                              !.prior = {r \in Registration : registration[r].wrote}])
  /\ UNCHANGED <<clock, users, admins, token, registration>>

\* Faulty variant: only administrators are counted.
EmptyOfAdmins == admins = 0

EmptyPlatform == admins = 0 /\ \A e \in Email : users[e] = 0

\* Two counts of two snapshots; only the holder of the lock changes the second.
Count(c) ==
  /\ claim[c].pc = "count"
  /\ \/ EmptyPlatform /\ ToNext(c, {})
     \/ ~EmptyPlatform /\ Return(c, "rejected")
  /\ UNCHANGED <<clock, users, admins, token, registration>>

\* Faulty variant: the token is good for any address.
SpendableByAnyone(c) ==
  /\ claim[c].token # None
  /\ ~token[claim[c].token].consumed
  /\ token[claim[c].token].expiresAt > claim[c].now

\* The predicate of the UPDATE that consumes the token.
Spendable(c) ==
  /\ claim[c].token # None
  /\ token[claim[c].token].email = claim[c].email
  /\ ~token[claim[c].token].consumed
  /\ token[claim[c].token].expiresAt > claim[c].now

Spend(c) ==
  /\ claim[c].pc = "spend"
  /\ \/ Spendable(c) /\ ToNext(c, {"token"})
     \/ ~Spendable(c) /\ Return(c, "rejected")
  /\ UNCHANGED <<clock, users, admins, token, registration>>

InsertUser(c) ==
  /\ claim[c].pc = "user"
  /\ ~Inserting(claim[c].email)
  /\ \/ FreeAddress(claim[c].email) /\ ToNext(c, {"user"})
     \/ ~FreeAddress(claim[c].email) /\ Thrown(c, "collided")
  /\ UNCHANGED <<clock, users, admins, token, registration>>

\* The singleton key of platform_administrators, then audit and outbox rows.
InsertAdmin(c) ==
  /\ claim[c].pc = "admin"
  /\ \A d \in Claim \ {c} : ~(Open(d) /\ "admin" \in claim[d].wrote)
  /\ \/ /\ admins = 0
        /\ Step(c, [claim[c] EXCEPT !.pc = Following("admin"), !.wrote = @ \cup {"admin"},
                                    !.answer = "created"])
     \/ admins # 0 /\ Thrown(c, "collided")
  /\ UNCHANGED <<clock, users, admins, token, registration>>

\* The advisory lock goes with the transaction; the reply may be lost.
Commit(c) ==
  /\ claim[c].pc = "commit"
  /\ token' = IF "token" \in claim[c].wrote
                THEN [token EXCEPT ![claim[c].token].consumed = TRUE] ELSE token
  /\ users' = IF "user" \in claim[c].wrote
                THEN [users EXCEPT ![claim[c].email] = @ + 1] ELSE users
  /\ admins' = IF "admin" \in claim[c].wrote THEN admins + 1 ELSE admins
  /\ \E reply \in {claim[c].answer, "error"} :
       Step(c, [claim[c] EXCEPT !.pc = "done", !.now = 0, !.answer = reply])
  /\ UNCHANGED <<clock, registration>>

Abort(c) ==
  /\ Open(c)
  /\ Thrown(c, "error")
  /\ UNCHANGED <<clock, users, admins, token, registration>>
-----------------------------------------------------------------------------
(* register, as far as claims can tell *)

RegisterBegin(r) ==
  /\ registration[r].pc = "idle"
  /\ \E e \in Email :
       registration' = [registration EXCEPT ![r] = [@ EXCEPT !.pc = "insert", !.email = e]]
  /\ UNCHANGED <<clock, users, admins, token, claim>>

\* The address is taken: conflict, or a unique violation after the wait.
RegisterInsert(r) ==
  /\ registration[r].pc = "insert"
  /\ ~Inserting(registration[r].email)
  /\ registration' =
       [registration EXCEPT ![r].pc = IF users[registration[r].email] = 0 THEN "commit" ELSE "done"]
  /\ UNCHANGED <<clock, users, admins, token, claim>>

RegisterCommit(r) ==
  /\ registration[r].pc = "commit"
  /\ users' = [users EXCEPT ![registration[r].email] = @ + 1]
  /\ registration' = [registration EXCEPT ![r] = [@ EXCEPT !.pc = "done", !.wrote = TRUE]]
  /\ UNCHANGED <<clock, admins, token, claim>>

RegisterAbort(r) ==
  /\ registration[r].pc \in {"insert", "commit"}
  /\ registration' = [registration EXCEPT ![r].pc = "done"]
  /\ UNCHANGED <<clock, users, admins, token, claim>>

Tick ==
  /\ clock < MaxTime
  /\ clock' = clock + 1
  /\ UNCHANGED <<users, admins, token, claim, registration>>

Progress(c) == Lock(c) \/ Count(c) \/ Spend(c) \/ InsertUser(c) \/ InsertAdmin(c) \/ Commit(c)
RegisterProgress(r) == RegisterInsert(r) \/ RegisterCommit(r)

Next ==
  \/ \E t \in Token : CreateToken(t)
  \/ \E c \in Claim : ClaimLimited(c) \/ Begin(c) \/ Progress(c) \/ Abort(c)
  \/ \E r \in Registration : RegisterBegin(r) \/ RegisterProgress(r) \/ RegisterAbort(r)
  \/ Tick

Spec == Init /\ [][Next]_vars
-----------------------------------------------------------------------------
(* Properties *)

TypeOK ==
  /\ clock \in 0..MaxTime
  /\ users \in [Email -> 0..1]
  /\ admins \in 0..1
  /\ token \in [Token -> TokenRow]
  /\ claim \in [Claim -> Claimed]
  /\ registration \in [Registration -> Registering]

Made(c) == claim[c].pc = "done" /\ "admin" \in claim[c].wrote

\* A claim leaves everything or nothing: there is an administrator exactly when
\* one token is consumed, by a claim for the address of that token that made a
\* user, and a claim that is told created is that one (claim).
AllOrNothing ==
  /\ admins = Cardinality({t \in Token : token[t].consumed})
  /\ \A t \in Token : token[t].consumed =>
       /\ users[token[t].email] = 1
       /\ \E c \in Claim : Made(c) /\ claim[c].token = t
  /\ \A c, d \in Claim : Made(c) /\ claim[d].answer = "created" /\ claim[d].pc = "done" => c = d

\* M09: claims never fail because of one another.  A claim that collides with a
\* unique key collided with a registration of its own address; against other
\* claims it is rejected in order (the advisory lock, counts read after it).
ClaimsAreSerial ==
  \A c \in Claim : claim[c].answer = "collided" =>
    \E r \in Registration : /\ registration[r].wrote /\ registration[r].email = claim[c].email
                            /\ r \notin claim[c].prior

\* The administrator is the first user as far as claim can see: no account was
\* registered before the claim that made it got the lock.  One registered during
\* the claim stays unnoticed, as register does not take the lock.
AdminIsFirst ==
  \A c \in Claim : Made(c) => claim[c].prior = {}

\* The types, and whose account the administrator's is (AdminIsFirst).
BootstrapInv == TypeOK /\ AdminIsFirst

\* c waits for the advisory lock, or for who has inserted what it inserts.
Waits(c) ==
  \/ claim[c].pc = "lock" /\ \E d \in Claim \ {c} : HoldsLock(d)
  \/ claim[c].pc = "user" /\ Inserting(claim[c].email)
  \/ claim[c].pc = "admin" /\ \E d \in Claim \ {c} : Open(d) /\ "admin" \in claim[d].wrote

Registers(r) == registration[r].pc \in {"insert", "commit"}
RegisterWaits(r) == registration[r].pc = "insert" /\ Inserting(registration[r].email)

NeverAllWait ==
  (\E c \in Claim : Open(c)) =>
    \/ \E c \in Claim : Open(c) /\ ~Waits(c)
    \/ \E r \in Registration : Registers(r) /\ ~RegisterWaits(r)

\* Nobody is left waiting: claims wait for the advisory lock, and its holder for
\* a registration of the same address, but never all of them (NeverAllWait), and
\* who does not wait can go on (claim).
NoStandstill ==
  /\ NeverAllWait
  /\ \A c \in Claim : Open(c) => Waits(c) \/ ENABLED Progress(c)
  /\ \A r \in Registration : Registers(r) => RegisterWaits(r) \/ ENABLED RegisterProgress(r)

\* A claim takes effect at one moment, whoever registers or claims meanwhile: its
\* token, its user and the administrator are of one address and appear together,
\* before there is any administrator (claim implements FirstAdministrator).
Platform == INSTANCE FirstAdministrator
              WITH made <- [t \in Token |-> token[t].email],
                   spent <- {t \in Token : token[t].consumed},
                   account <- {e \in Email : users[e] = 1},
                   administrator <- {e \in Email : \E c \in Claim : Made(c) /\ claim[c].email = e}
BootstrapIsAtomic == Platform!Spec
=============================================================================
