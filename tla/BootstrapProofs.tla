-------------------------- MODULE BootstrapProofs --------------------------
(***************************************************************************)
(* Theorems about Bootstrap, for any number of claims, tokens, addresses   *)
(* and registrations.  The argument: whoever holds the advisory lock and   *)
(* has found the platform empty is alone, so nothing but a registration    *)
(* can happen between its count and its COMMIT.                            *)
(***************************************************************************)
EXTENDS Bootstrap, FiniteSetTheorems, TLAPS

\* What a claim has written at each place, and what it answers then.
Everything == {"token", "user", "admin"}

ClaimShape(k) ==
  /\ k.pc \in {"idle", "lock", "count", "spend"} => k.wrote = {}
  /\ k.pc = "user" => k.wrote = {"token"}
  /\ k.pc = "admin" => k.wrote = {"token", "user"}
  /\ k.pc = "commit" => \/ k.wrote = {} /\ k.answer = "rejected"
                        \/ k.wrote = Everything /\ k.answer = "created"
  /\ k.pc = "done" => k.wrote = {} \/ k.wrote = Everything
  /\ k.answer = "created" => k.wrote = Everything
  /\ k.pc \notin {"commit", "done"} => k.answer = "none"
  /\ k.wrote # {} => k.token # None
  /\ k.pc \notin {"idle", "done"} \/ k.wrote # {} => k.email \in Email

ClaimsShape == \A c \in Claim : ClaimShape(claim[c])

LockIsExclusive == \A c, d \in Claim : HoldsLock(c) /\ HoldsLock(d) => c = d

\* The claim found the platform empty, and has not ended.
Pending(k) == k.pc \in {"spend", "user", "admin"} \/ (k.pc = "commit" /\ k.wrote # {})

\* There is no administrator as long as such a claim is pending, and the claim
\* that made the administrator is the one its token was spent on.
PlatformShape ==
  /\ \A c \in Claim : Pending(claim[c]) => admins = 0 /\ claim[c].prior = {}
  /\ \A c \in Claim : claim[c].wrote # {} => token[claim[c].token].email = claim[c].email
  /\ \A c \in Claim : Made(c) => /\ admins = 1 /\ claim[c].prior = {}
                                 /\ token[claim[c].token].consumed
  /\ admins = 1 => \E c \in Claim : Made(c)
  /\ \A t \in Token : token[t].consumed => \E c \in Claim : Made(c) /\ claim[c].token = t
  /\ \A c, d \in Claim : Made(c) /\ Made(d) => c = d

\* A users row is that of a registration or of the administrator, and a pending
\* insert is alone with its address.
Inserts(c) == Open(c) /\ "user" \in claim[c].wrote

UsersShape ==
  /\ \A r \in Registration :
       /\ registration[r].pc \in {"insert", "commit"} =>
            registration[r].email \in Email /\ ~registration[r].wrote
       /\ registration[r].pc = "idle" => ~registration[r].wrote
       /\ registration[r].wrote => users[registration[r].email] = 1 /\ registration[r].email \in Email
       /\ registration[r].pc = "commit" => users[registration[r].email] = 0
  /\ \A c \in Claim : Inserts(c) => users[claim[c].email] = 0
  /\ \A q, r \in Registration :
       registration[q].pc = "commit" /\ registration[r].pc = "commit"
         /\ registration[q].email = registration[r].email => q = r
  /\ \A c \in Claim, r \in Registration :
       Inserts(c) /\ registration[r].pc = "commit" => registration[r].email # claim[c].email
  /\ \A c \in Claim : Made(c) => users[claim[c].email] = 1
  /\ \A e \in Email : users[e] = 1 =>
       \/ \E r \in Registration : registration[r].wrote /\ registration[r].email = e
       \/ \E c \in Claim : Made(c) /\ claim[c].email = e
  /\ \A c \in Claim, r \in Registration : r \in claim[c].prior => registration[r].wrote

Rest == ClaimsShape /\ LockIsExclusive /\ PlatformShape /\ UsersShape /\ ClaimsAreSerial
IInv == TypeOK /\ Rest
-----------------------------------------------------------------------------
\* The initial state satisfies the invariant: nothing was called yet.
LEMMA InitIInv == Init => IInv
<1> SUFFICES ASSUME Init PROVE IInv
  OBVIOUS
<1> USE ParameterAssumption
<1>1. TypeOK
  BY DEF Init, TypeOK, TokenRow, Claimed, ClaimPc, Registering
<1>2. ClaimsShape /\ LockIsExclusive
  BY DEF Init, ClaimsShape, ClaimShape, LockIsExclusive, HoldsLock, Open
<1>3. PlatformShape
  BY DEF Init, PlatformShape, Pending, Made
<1>4. UsersShape
  BY DEF Init, UsersShape, Inserts, Open, Made
<1>5. ClaimsAreSerial
  BY DEF Init, ClaimsAreSerial
<1> QED
  BY <1>1, <1>2, <1>3, <1>4, <1>5 DEF IInv, Rest

\* The records the actions make of the record of a claim.
LEMMA ClaimedUpdates ==
  ASSUME NEW k \in Claimed, NEW pc \in ClaimPc, NEW w \in SUBSET Everything,
         NEW answer \in {"none", "created", "rejected", "error", "collided"}
  PROVE  /\ [k EXCEPT !.pc = pc, !.answer = answer] \in Claimed
         /\ [k EXCEPT !.pc = pc, !.wrote = w] \in Claimed
         /\ [k EXCEPT !.pc = pc, !.wrote = w, !.answer = answer] \in Claimed
         /\ [k EXCEPT !.pc = pc, !.now = 0, !.answer = answer] \in Claimed
         /\ [k EXCEPT !.pc = pc, !.wrote = {}, !.now = 0, !.answer = answer] \in Claimed
         /\ \A prior \in SUBSET Registration : [k EXCEPT !.pc = pc, !.prior = prior] \in Claimed
         /\ \A t \in Token \cup {None}, e \in Email, now \in Nat :
              [k EXCEPT !.pc = pc, !.token = t, !.email = e, !.now = now] \in Claimed
BY DEF Claimed, Everything

\* A statement of a claim: no table changes.
LEMMA StatementStep ==
  ASSUME IInv, NEW c \in Claim, NEW a \in Claimed, claim[c].pc # "done", Step(c, a),
         UNCHANGED <<clock, users, admins, token, registration>>,
         ClaimShape(a), a.pc = "done" => a.wrote = {},
         a.pc \notin {"idle", "lock", "done"} =>
           HoldsLock(c) \/ \A d \in Claim \ {c} : ~HoldsLock(d),
         Pending(a) => admins = 0 /\ a.prior = {},
         a.wrote # {} => token[a.token].email = a.email,
         "user" \in a.wrote =>
           /\ users[a.email] = 0
           /\ \A r \in Registration : registration[r].pc = "commit" => registration[r].email # a.email,
         \A r \in a.prior : registration[r].wrote,
         a.answer = "collided" =>
           \E r \in Registration : /\ registration[r].wrote /\ registration[r].email = a.email
                                   /\ r \notin a.prior
  PROVE  IInv'
<1> USE DEF IInv, Rest
<1>1. /\ claim'[c] = a /\ \A d \in Claim : d # c => claim'[d] = claim[d]
      /\ users' = users /\ admins' = admins /\ token' = token /\ registration' = registration
      /\ clock' = clock
  BY DEF TypeOK, Step
<1>2. TypeOK'
  BY <1>1 DEF TypeOK, Step
<1>3. ClaimsShape'
  BY <1>1 DEF ClaimsShape
<1>4. /\ ~Made(c) /\ ~Made(c)'
      /\ \A d \in Claim : Made(d)' <=> Made(d)
      /\ \A d \in Claim : d # c => (Inserts(d)' <=> Inserts(d))
      /\ \A d \in Claim : d # c => (HoldsLock(d)' <=> HoldsLock(d))
  BY <1>1 DEF Made, Inserts, HoldsLock, Open
<1>5. LockIsExclusive'
  BY <1>1, <1>4 DEF LockIsExclusive, HoldsLock, Open
<1>6. PlatformShape'
  BY <1>1, <1>4 DEF PlatformShape
<1>7. UsersShape'
  <2>1. Inserts(c)' => "user" \in a.wrote
    BY <1>1 DEF Inserts
  <2>2. (\A d \in Claim : Inserts(d) => users[claim[d].email] = 0)'
    BY <1>1, <1>4, <2>1 DEF UsersShape
  <2>3. (\A d \in Claim, r \in Registration :
           Inserts(d) /\ registration[r].pc = "commit" => registration[r].email # claim[d].email)'
    BY <1>1, <1>4, <2>1 DEF UsersShape
  <2>4. (\A d \in Claim : Made(d) => users[claim[d].email] = 1)'
    BY <1>1, <1>4 DEF UsersShape
  <2>5. (\A e \in Email : users[e] = 1 =>
           \/ \E r \in Registration : registration[r].wrote /\ registration[r].email = e
           \/ \E d \in Claim : Made(d) /\ claim[d].email = e)'
    BY <1>1, <1>4 DEF UsersShape
  <2>6. (\A d \in Claim, r \in Registration : r \in claim[d].prior => registration[r].wrote)'
    BY <1>1 DEF UsersShape
  <2> QED
    BY <1>1, <2>2, <2>3, <2>4, <2>5, <2>6 DEF UsersShape
<1>8. ClaimsAreSerial'
  BY <1>1 DEF ClaimsAreSerial
<1> QED
  BY <1>2, <1>3, <1>5, <1>6, <1>7, <1>8

\* COMMIT of a claim: what it has found empty is still empty, but for other
\* addresses.
LEMMA CommitStep == ASSUME IInv, NEW c \in Claim, Commit(c) PROVE IInv'
<1> USE DEF IInv, Rest
<1>0. claim[c] \in Claimed /\ claim \in [Claim -> Claimed] /\ claim[c].pc = "commit"
      /\ ClaimShape(claim[c]) /\ HoldsLock(c)
      /\ UNCHANGED <<clock, registration>>
  BY DEF TypeOK, Commit, ClaimsShape, HoldsLock, Open
<1>1. PICK reply \in {claim[c].answer, "error"} :
        Step(c, [claim[c] EXCEPT !.pc = "done", !.now = 0, !.answer = reply])
  BY DEF Commit
<1> DEFINE a == [claim[c] EXCEPT !.pc = "done", !.now = 0, !.answer = reply]
<1>2. a \in Claimed
  <2>1. "done" \in ClaimPc /\ reply \in {"none", "created", "rejected", "error", "collided"}
    BY <1>0 DEF ClaimPc, Claimed
  <2> QED
    BY <1>0, <2>1, ClaimedUpdates DEF Everything
<1>3. /\ a.pc = "done" /\ a.wrote = claim[c].wrote /\ a.token = claim[c].token
      /\ a.email = claim[c].email /\ a.prior = claim[c].prior
      /\ a.answer \in {claim[c].answer, "error"}
  BY <1>0 DEF Claimed
<1> HIDE DEF a
<1>4. claim'[c] = a /\ \A d \in Claim : d # c => claim'[d] = claim[d]
  BY <1>0, <1>1 DEF Step, a
<1>5. ClaimsShape'
  BY <1>0, <1>3, <1>4 DEF ClaimsShape, ClaimShape
<1>6. LockIsExclusive'
  BY <1>3, <1>4 DEF LockIsExclusive, HoldsLock, Open
<1>7. ClaimsAreSerial'
  BY <1>0, <1>3, <1>4 DEF ClaimsAreSerial, ClaimShape
<1>8. \A d \in Claim : d # c => /\ Made(d)' <=> Made(d)
                                /\ Inserts(d)' <=> Inserts(d)
                                /\ ~HoldsLock(d)
  BY <1>0, <1>4 DEF Made, Inserts, Open, LockIsExclusive
<1>9. \A d \in Claim : d # c => ~Inserts(d) /\ ~Pending(claim[d])
  BY <1>8 DEF Inserts, HoldsLock, Pending, Open, ClaimsShape, ClaimShape, TypeOK, Claimed
<1>10. ~Inserts(c)' /\ ~Pending(claim'[c]) /\ ~Made(c)
  BY <1>0, <1>3, <1>4 DEF Inserts, Pending, Open, Made
<1>11. CASE claim[c].wrote = {}
  <2>1. users' = users /\ admins' = admins /\ token' = token
    BY <1>11 DEF Commit
  <2>2. ~Made(c)'
    BY <1>3, <1>4, <1>11 DEF Made
  <2>3. \A d \in Claim : Made(d)' <=> Made(d)
    BY <1>8, <1>10, <2>2
  <2>4. TypeOK'
    BY <1>0, <1>1, <1>2, <2>1 DEF TypeOK, Step, a
  <2>5. PlatformShape'
    BY <1>3, <1>4, <1>9, <1>10, <2>1, <2>3 DEF PlatformShape
  <2>6. UsersShape'
    BY <1>0, <1>3, <1>4, <1>8, <1>9, <1>10, <2>1, <2>3 DEF UsersShape
  <2> QED
    BY <1>5, <1>6, <1>7, <2>4, <2>5, <2>6
<1>12. CASE claim[c].wrote # {}
  <2>0. /\ claim[c].wrote = Everything /\ claim[c].token \in Token /\ claim[c].email \in Email
        /\ Inserts(c) /\ Pending(claim[c])
    BY <1>0, <1>12 DEF ClaimShape, Claimed, Inserts, Open, Everything, Pending
  <2>1. /\ admins = 0 /\ claim[c].prior = {} /\ users[claim[c].email] = 0
        /\ token[claim[c].token].email = claim[c].email
        /\ \A d \in Claim : ~Made(d)
    BY <1>12, <2>0 DEF PlatformShape, UsersShape
  <2>2. \A t \in Token : ~token[t].consumed
    BY <2>1 DEF PlatformShape
  <2>3. /\ token' = [token EXCEPT ![claim[c].token].consumed = TRUE]
        /\ users' = [users EXCEPT ![claim[c].email] = 1] /\ admins' = 1
    <3>1. users' = [users EXCEPT ![claim[c].email] = @ + 1] /\ admins' = admins + 1
          /\ token' = [token EXCEPT ![claim[c].token].consumed = TRUE]
      BY <2>0 DEF Commit, Everything
    <3> QED
      BY <2>1, <3>1
  <2>4. /\ Made(c)' /\ \A d \in Claim : Made(d)' <=> d = c
    BY <1>3, <1>4, <1>8, <2>0, <2>1 DEF Made, Everything
  <2>5. /\ \A t \in Token : /\ token'[t].email = token[t].email
                            /\ token'[t].consumed <=> t = claim[c].token
    BY <2>0, <2>2, <2>3 DEF TypeOK, TokenRow
  <2>6. TypeOK'
    <3>1. token' \in [Token -> TokenRow]
      <4>1. [token[claim[c].token] EXCEPT !.consumed = TRUE] \in TokenRow
        BY <2>0 DEF TypeOK, TokenRow
      <4> QED
        BY <2>3, <4>1 DEF TypeOK
    <3>2. users' \in [Email -> 0..1] /\ admins' \in 0..1
      <4>1. 1 \in 0..1 /\ users \in [Email -> 0..1]
        BY DEF TypeOK
      <4> QED
        BY <2>3, <4>1
    <3> QED
      BY <1>0, <1>1, <1>2, <3>1, <3>2 DEF TypeOK, Step, a
  <2>7. PlatformShape'
    <3>1. (\A d \in Claim : claim[d].wrote # {} => token[claim[d].token].email = claim[d].email)'
      <4>1. \A d \in Claim : claim'[d].wrote = claim[d].wrote /\ claim'[d].token = claim[d].token
                             /\ claim'[d].email = claim[d].email
        BY <1>3, <1>4
      <4>2. \A d \in Claim : claim[d].wrote # {} => claim[d].token \in Token
        BY DEF ClaimsShape, ClaimShape, TypeOK, Claimed
      <4> QED
        BY <2>5, <4>1, <4>2 DEF PlatformShape
    <3>2. (\A d \in Claim : Pending(claim[d]) => admins = 0 /\ claim[d].prior = {})'
      BY <1>4, <1>9, <1>10
    <3>3. (\A d \in Claim : Made(d) => /\ admins = 1 /\ claim[d].prior = {}
                                       /\ token[claim[d].token].consumed)'
      BY <1>3, <1>4, <2>0, <2>1, <2>3, <2>4, <2>5
    <3>4. /\ (\E d \in Claim : Made(d))'
          /\ (\A t \in Token : token[t].consumed => \E d \in Claim : Made(d) /\ claim[d].token = t)'
          /\ (\A d, e \in Claim : Made(d) /\ Made(e) => d = e)'
      BY <1>3, <1>4, <2>4, <2>5
    <3> QED
      BY <3>1, <3>2, <3>3, <3>4 DEF PlatformShape
  <2>8. UsersShape'
    <3>1. \A e \in Email : users'[e] = IF e = claim[c].email THEN 1 ELSE users[e]
      BY <2>0, <2>3 DEF TypeOK
    <3>2. \A r \in Registration : registration[r].pc = "commit" => registration[r].email # claim[c].email
      BY <2>0 DEF UsersShape
    <3>3. (\A r \in Registration :
             /\ registration[r].pc \in {"insert", "commit"} =>
                  registration[r].email \in Email /\ ~registration[r].wrote
             /\ registration[r].pc = "idle" => ~registration[r].wrote
             /\ registration[r].wrote =>
                  users[registration[r].email] = 1 /\ registration[r].email \in Email
             /\ registration[r].pc = "commit" => users[registration[r].email] = 0)'
      BY <1>0, <3>1, <3>2 DEF UsersShape
    <3>4. (\A d \in Claim : Made(d) => users[claim[d].email] = 1)'
      BY <1>3, <1>4, <2>0, <2>4, <3>1
    <3>5. (\A e \in Email : users[e] = 1 =>
             \/ \E r \in Registration : registration[r].wrote /\ registration[r].email = e
             \/ \E d \in Claim : Made(d) /\ claim[d].email = e)'
      BY <1>0, <1>3, <1>4, <2>1, <2>4, <3>1 DEF UsersShape
    <3>6. \A d \in Claim : ~Inserts(d)'
      BY <1>8, <1>9, <1>10
    <3>7. (\A d \in Claim, r \in Registration : r \in claim[d].prior => registration[r].wrote)'
      BY <1>0, <1>3, <1>4 DEF UsersShape
    <3>8. (\A q, r \in Registration :
             registration[q].pc = "commit" /\ registration[r].pc = "commit"
               /\ registration[q].email = registration[r].email => q = r)'
      BY <1>0 DEF UsersShape
    <3> QED
      BY <3>3, <3>4, <3>5, <3>6, <3>7, <3>8 DEF UsersShape
  <2> QED
    BY <1>5, <1>6, <1>7, <2>6, <2>7, <2>8
<1> QED
  BY <1>11, <1>12
\* The statements of claim, each by what it makes of the record of the call.
LEMMA ClaimStep ==
  ASSUME IInv, NEW c \in Claim, ClaimLimited(c) \/ Begin(c) \/ Progress(c) \/ Abort(c)
  PROVE  IInv'
<1> USE DEF IInv, Rest
<1>0. /\ claim[c] \in Claimed /\ ClaimShape(claim[c])
      /\ claim \in [Claim -> Claimed]
      /\ \A r \in claim[c].prior : registration[r].wrote
      /\ claim[c].wrote \in SUBSET Everything
      /\ claim[c].answer \in {"none", "created", "rejected", "error", "collided"}
      /\ {"lock", "count", "spend", "user", "admin", "commit", "done"} \subseteq ClaimPc
  BY DEF TypeOK, ClaimsShape, UsersShape, Claimed, Everything, ClaimPc
<1>1. CASE ClaimLimited(c)
  <2> DEFINE a == [claim[c] EXCEPT !.pc = "done", !.answer = "rejected"]
  <2>1. a \in Claimed
    BY <1>0, ClaimedUpdates
  <2>2. a.pc = "done" /\ a.answer = "rejected" /\ a.wrote = {} /\ a.prior = claim[c].prior
    BY <1>0, <1>1 DEF ClaimLimited, ClaimShape, Claimed
  <2>3. ClaimShape(a) /\ ~Pending(a)
    BY <2>2 DEF ClaimShape, Pending
  <2>4. claim[c].pc # "done" /\ Step(c, a) /\ UNCHANGED <<clock, users, admins, token, registration>>
    BY <1>1 DEF ClaimLimited
  <2> HIDE DEF a
  <2> QED
    BY <1>0, <2>1, <2>2, <2>3, <2>4, StatementStep
<1>2. CASE Begin(c)
  <2>1. PICK t \in Token \cup {None}, e \in Email :
          Step(c, [claim[c] EXCEPT !.pc = "lock", !.token = t, !.email = e, !.now = clock])
    BY <1>2 DEF Begin
  <2> DEFINE a == [claim[c] EXCEPT !.pc = "lock", !.token = t, !.email = e, !.now = clock]
  <2>2. a \in Claimed
    <3>1. clock \in Nat
      BY ParameterAssumption DEF TypeOK
    <3>2. {} \in SUBSET Everything
      OBVIOUS
    <3> QED
      BY <1>0, <3>1, <3>2, ClaimedUpdates
  <2>3. a.pc = "lock" /\ a.answer = "none" /\ a.wrote = {} /\ a.prior = claim[c].prior /\ a.email = e
    BY <1>0, <1>2 DEF Begin, ClaimShape, Claimed
  <2>4. ClaimShape(a) /\ ~Pending(a)
    BY <2>3 DEF ClaimShape, Pending
  <2>5. claim[c].pc # "done" /\ Step(c, a) /\ UNCHANGED <<clock, users, admins, token, registration>>
    BY <1>2, <2>1 DEF Begin
  <2> HIDE DEF a
  <2> QED
    BY <1>0, <2>2, <2>3, <2>4, <2>5, StatementStep
<1>3. CASE Lock(c)
  <2> DEFINE a == [claim[c] EXCEPT !.pc = "count",
                                   !.prior = {r \in Registration : registration[r].wrote}]
  <2>1. a \in Claimed
    <3>1. {r \in Registration : registration[r].wrote} \in SUBSET Registration
          /\ {} \in SUBSET Everything
      OBVIOUS
    <3> QED
      BY <1>0, <3>1, ClaimedUpdates
  <2>2. /\ a.pc = "count" /\ a.answer = "none" /\ a.wrote = {} /\ a.email \in Email
        /\ a.prior = {r \in Registration : registration[r].wrote}
    BY <1>0, <1>3 DEF Lock, ClaimShape, Claimed
  <2>3. ClaimShape(a) /\ ~Pending(a)
    BY <2>2 DEF ClaimShape, Pending
  <2>4. claim[c].pc # "done" /\ Step(c, a) /\ UNCHANGED <<clock, users, admins, token, registration>>
        /\ \A d \in Claim \ {c} : ~HoldsLock(d)
    BY <1>3 DEF Lock, Following
  <2>5. \A r \in a.prior : registration[r].wrote
    BY <2>2
  <2> HIDE DEF a
  <2> QED
    BY <2>1, <2>2, <2>3, <2>4, <2>5, StatementStep
<1>4. ASSUME NEW a \in Claimed, claim[c].pc # "done", Step(c, a),
             UNCHANGED <<clock, users, admins, token, registration>>,
             a.wrote = {}, a.prior = claim[c].prior, a.email = claim[c].email,
             \/ a.pc = "done" /\ a.answer = "error"
             \/ a.pc = "done" /\ a.answer = "collided"
                /\ \E r \in Registration : /\ registration[r].wrote
                                           /\ registration[r].email = claim[c].email
                                           /\ r \notin claim[c].prior
             \/ a.pc = "commit" /\ a.answer = "rejected" /\ HoldsLock(c)
      PROVE  IInv'
  <2>1. ClaimShape(a) /\ ~Pending(a)
    BY <1>0, <1>4 DEF ClaimShape, Pending, HoldsLock, Open
  <2> QED
    BY <1>0, <1>4, <2>1, StatementStep
<1>5. CASE Count(c)
  <2>0. claim[c].pc = "count" /\ claim[c].wrote = {} /\ HoldsLock(c) /\ claim[c].email \in Email
        /\ claim[c].answer = "none" /\ UNCHANGED <<clock, users, admins, token, registration>>
    BY <1>0, <1>5 DEF Count, ClaimShape, HoldsLock, Open
  <2>1. CASE EmptyPlatform /\ ToNext(c, {})
    <3> DEFINE a == [claim[c] EXCEPT !.pc = "spend", !.wrote = {}]
    <3>1. a \in Claimed
      <4>1. {} \in SUBSET Everything
        OBVIOUS
      <4> QED
        BY <1>0, <4>1, ClaimedUpdates
    <3>2. a.pc = "spend" /\ a.answer = "none" /\ a.wrote = {} /\ a.prior = claim[c].prior
          /\ a.email \in Email
      BY <1>0, <2>0 DEF Claimed
    <3>3. ClaimShape(a)
      BY <3>2 DEF ClaimShape
    <3>4. Step(c, a)
      BY <2>0, <2>1 DEF ToNext, Following
    <3>5. admins = 0 /\ claim[c].prior = {}
      <4>1. \A r \in claim[c].prior : FALSE
        BY <1>0, <2>1 DEF EmptyPlatform, UsersShape, Claimed
      <4> QED
        BY <2>1, <4>1 DEF EmptyPlatform
    <3> HIDE DEF a
    <3> QED
      BY <2>0, <3>1, <3>2, <3>3, <3>4, <3>5, StatementStep
  <2>2. CASE Return(c, "rejected")
    <3> DEFINE a == [claim[c] EXCEPT !.pc = "commit", !.answer = "rejected"]
    <3>1. a \in Claimed
      BY <1>0, ClaimedUpdates
    <3>2. a.pc = "commit" /\ a.answer = "rejected" /\ a.wrote = {} /\ a.prior = claim[c].prior
          /\ a.email = claim[c].email
      BY <1>0, <2>0 DEF Claimed
    <3>3. Step(c, a)
      BY <2>2 DEF Return
    <3> HIDE DEF a
    <3> QED
      BY <1>4, <2>0, <3>1, <3>2, <3>3
  <2> QED
    BY <1>5, <2>1, <2>2 DEF Count
<1>6. CASE Spend(c)
  <2>0. claim[c].pc = "spend" /\ claim[c].wrote = {} /\ HoldsLock(c) /\ claim[c].email \in Email
        /\ claim[c].answer = "none" /\ UNCHANGED <<clock, users, admins, token, registration>>
        /\ admins = 0 /\ claim[c].prior = {}
    BY <1>0, <1>6 DEF Spend, ClaimShape, HoldsLock, Open, PlatformShape, Pending
  <2>1. CASE Spendable(c) /\ ToNext(c, {"token"})
    <3> DEFINE a == [claim[c] EXCEPT !.pc = "user", !.wrote = {"token"}]
    <3>1. a \in Claimed
      <4>1. {"token"} \in SUBSET Everything
        BY DEF Everything
      <4> QED
        BY <1>0, <4>1, ClaimedUpdates
    <3>2. a.pc = "user" /\ a.answer = "none" /\ a.wrote = {"token"} /\ a.prior = {}
          /\ a.email = claim[c].email /\ a.token = claim[c].token
      BY <1>0, <2>0 DEF Claimed
    <3>3. ClaimShape(a) /\ token[a.token].email = a.email
      BY <2>0, <2>1, <3>2 DEF ClaimShape, Spendable
    <3>4. Step(c, a)
      BY <2>0, <2>1 DEF ToNext, Following
    <3> HIDE DEF a
    <3> QED
      BY <2>0, <3>1, <3>2, <3>3, <3>4, StatementStep
  <2>2. CASE Return(c, "rejected")
    <3> DEFINE a == [claim[c] EXCEPT !.pc = "commit", !.answer = "rejected"]
    <3>1. a \in Claimed
      BY <1>0, ClaimedUpdates
    <3>2. a.pc = "commit" /\ a.answer = "rejected" /\ a.wrote = {} /\ a.prior = claim[c].prior
          /\ a.email = claim[c].email
      BY <1>0, <2>0 DEF Claimed
    <3>3. Step(c, a)
      BY <2>2 DEF Return
    <3> HIDE DEF a
    <3> QED
      BY <1>4, <2>0, <3>1, <3>2, <3>3
  <2> QED
    BY <1>6, <2>1, <2>2 DEF Spend
<1>7. ASSUME NEW answer \in {"error", "collided"}, claim[c].pc # "done", Thrown(c, answer),
             UNCHANGED <<clock, users, admins, token, registration>>,
             answer = "collided" =>
               \E r \in Registration : /\ registration[r].wrote
                                       /\ registration[r].email = claim[c].email
                                       /\ r \notin claim[c].prior
      PROVE  IInv'
  <2> DEFINE a == [claim[c] EXCEPT !.pc = "done", !.wrote = {}, !.now = 0, !.answer = answer]
  <2>1. a \in Claimed
    BY <1>0, <1>7, ClaimedUpdates
  <2>2. a.pc = "done" /\ a.answer = answer /\ a.wrote = {} /\ a.prior = claim[c].prior
        /\ a.email = claim[c].email
    BY <1>0 DEF Claimed
  <2>3. Step(c, a)
    BY <1>7 DEF Thrown
  <2> HIDE DEF a
  <2> QED
    BY <1>4, <1>7, <2>1, <2>2, <2>3
<1>8. CASE InsertUser(c)
  <2>0. claim[c].pc = "user" /\ claim[c].wrote = {"token"} /\ HoldsLock(c)
        /\ claim[c].email \in Email /\ claim[c].answer = "none"
        /\ UNCHANGED <<clock, users, admins, token, registration>>
        /\ admins = 0 /\ claim[c].prior = {} /\ token[claim[c].token].email = claim[c].email
        /\ claim[c].token # None
    BY <1>0, <1>8 DEF InsertUser, ClaimShape, HoldsLock, Open, PlatformShape, Pending
  <2>1. CASE FreeAddress(claim[c].email) /\ ToNext(c, {"user"})
    <3> DEFINE a == [claim[c] EXCEPT !.pc = "admin", !.wrote = claim[c].wrote \cup {"user"}]
    <3>1. a \in Claimed
      <4>1. claim[c].wrote \cup {"user"} \in SUBSET Everything
        BY <2>0 DEF Everything
      <4> QED
        BY <1>0, <4>1, ClaimedUpdates
    <3>2. a.pc = "admin" /\ a.answer = "none" /\ a.wrote = {"token", "user"} /\ a.prior = {}
          /\ a.email = claim[c].email /\ a.token = claim[c].token
      BY <1>0, <2>0 DEF Claimed
    <3>3. ClaimShape(a)
      BY <2>0, <3>2 DEF ClaimShape
    <3>4. Step(c, a)
      BY <2>0, <2>1 DEF ToNext, Following
    <3>5. /\ users[a.email] = 0
          /\ \A r \in Registration : registration[r].pc = "commit" => registration[r].email # a.email
      BY <1>8, <2>1, <3>2 DEF FreeAddress, InsertUser, Inserting
    <3> HIDE DEF a
    <3> QED
      BY <2>0, <3>1, <3>2, <3>3, <3>4, <3>5, StatementStep
  <2>2. CASE ~FreeAddress(claim[c].email) /\ Thrown(c, "collided")
    <3>1. users[claim[c].email] = 1
      BY <2>0, <2>2 DEF FreeAddress, TypeOK
    <3>2. \A d \in Claim : ~Made(d)
      BY <2>0 DEF PlatformShape
    <3>3. \E r \in Registration : registration[r].wrote /\ registration[r].email = claim[c].email
      BY <2>0, <3>1, <3>2 DEF UsersShape
    <3> QED
      BY <1>7, <2>0, <2>2, <3>3
  <2> QED
    BY <1>8, <2>1, <2>2 DEF InsertUser
<1>9. CASE InsertAdmin(c)
  <2>0. claim[c].pc = "admin" /\ claim[c].wrote = {"token", "user"} /\ HoldsLock(c)
        /\ claim[c].email \in Email /\ UNCHANGED <<clock, users, admins, token, registration>>
        /\ admins = 0 /\ claim[c].prior = {} /\ token[claim[c].token].email = claim[c].email
        /\ claim[c].token # None /\ Inserts(c)
    BY <1>0, <1>9 DEF InsertAdmin, ClaimShape, HoldsLock, Open, PlatformShape, Pending, Inserts
  <2> DEFINE a == [claim[c] EXCEPT !.pc = "commit", !.wrote = claim[c].wrote \cup {"admin"},
                                   !.answer = "created"]
  <2>1. a \in Claimed
    <3>1. claim[c].wrote \cup {"admin"} \in SUBSET Everything
      BY <2>0 DEF Everything
    <3> QED
      BY <1>0, <3>1, ClaimedUpdates
  <2>2. a.pc = "commit" /\ a.answer = "created" /\ a.wrote = Everything /\ a.prior = {}
        /\ a.email = claim[c].email /\ a.token = claim[c].token
    BY <1>0, <2>0 DEF Claimed, Everything
  <2>3. ClaimShape(a)
    BY <2>0, <2>2 DEF ClaimShape
  <2>4. Step(c, a)
    BY <1>9, <2>0 DEF InsertAdmin, Following
  <2>5. /\ users[a.email] = 0
        /\ \A r \in Registration : registration[r].pc = "commit" => registration[r].email # a.email
    BY <2>0, <2>2 DEF UsersShape
  <2> HIDE DEF a
  <2> QED
    BY <2>0, <2>1, <2>2, <2>3, <2>4, <2>5, StatementStep
<1>10. CASE Abort(c)
  BY <1>7, <1>10 DEF Abort, Open
<1> QED
  BY <1>1, <1>2, <1>3, <1>5, <1>6, <1>8, <1>9, <1>10, CommitStep DEF Progress

\* The steps of registrations, of the operator who makes tokens, and of the clock.
LEMMA RegistrationStep ==
  ASSUME IInv, NEW r \in Registration, RegisterBegin(r) \/ RegisterProgress(r) \/ RegisterAbort(r)
  PROVE  IInv'
<1> USE DEF IInv, Rest
<1>0. /\ registration[r] \in Registering /\ registration \in [Registration -> Registering]
      /\ users \in [Email -> 0..1]
      /\ UNCHANGED <<clock, admins, token, claim>>
  BY DEF TypeOK, RegisterBegin, RegisterProgress, RegisterInsert, RegisterCommit, RegisterAbort
<1>1. ClaimsShape' /\ LockIsExclusive' /\ PlatformShape'
  BY <1>0 DEF ClaimsShape, LockIsExclusive, HoldsLock, Open, PlatformShape, Made
<1>2. \A c \in Claim : (Inserts(c)' <=> Inserts(c)) /\ (Made(c)' <=> Made(c))
  BY <1>0 DEF Inserts, Open, Made
<1>3. ASSUME NEW b \in Registering, registration' = [registration EXCEPT ![r] = b], users' = users,
             ~b.wrote, ~registration[r].wrote,
             b.pc \in {"insert", "commit"} => b.email \in Email,
             b.pc = "commit" => users[b.email] = 0 /\ ~Inserting(b.email)
      PROVE  IInv'
  <2>1. registration'[r] = b /\ \A q \in Registration : q # r => registration'[q] = registration[q]
    BY <1>0, <1>3
  <2>2. TypeOK'
    BY <1>0, <1>3 DEF TypeOK
  <2>3. UsersShape'
    <3>1. b.pc = "commit" =>
            /\ \A q \in Registration : registration[q].pc = "commit" => registration[q].email # b.email
            /\ \A c \in Claim : Inserts(c) => claim[c].email # b.email
      BY <1>3 DEF Inserting, Inserts
    <3>2. (\A q \in Registration :
             /\ registration[q].pc \in {"insert", "commit"} =>
                  registration[q].email \in Email /\ ~registration[q].wrote
             /\ registration[q].pc = "idle" => ~registration[q].wrote
             /\ registration[q].wrote =>
                  users[registration[q].email] = 1 /\ registration[q].email \in Email
             /\ registration[q].pc = "commit" => users[registration[q].email] = 0)'
      BY <1>3, <2>1 DEF UsersShape
    <3>3. /\ (\A p, q \in Registration :
                registration[p].pc = "commit" /\ registration[q].pc = "commit"
                  /\ registration[p].email = registration[q].email => p = q)'
          /\ (\A c \in Claim, q \in Registration :
                Inserts(c) /\ registration[q].pc = "commit" => registration[q].email # claim[c].email)'
      BY <1>0, <1>2, <2>1, <3>1 DEF UsersShape
    <3>4. \A q \in Registration : registration[q].wrote =>
            registration'[q].wrote /\ registration'[q].email = registration[q].email
      BY <1>3, <2>1
    <3> QED
      BY <1>0, <1>2, <1>3, <3>2, <3>3, <3>4 DEF UsersShape
  <2>4. ClaimsAreSerial'
    BY <1>0, <1>3, <2>1 DEF ClaimsAreSerial
  <2> QED
    BY <1>1, <2>2, <2>3, <2>4
<1>4. CASE RegisterBegin(r)
  <2>1. PICK e \in Email :
          registration' = [registration EXCEPT ![r] = [@ EXCEPT !.pc = "insert", !.email = e]]
    BY <1>4 DEF RegisterBegin
  <2> DEFINE b == [registration[r] EXCEPT !.pc = "insert", !.email = e]
  <2>2. b \in Registering /\ b.pc = "insert" /\ b.email = e /\ b.wrote = registration[r].wrote
    BY <1>0 DEF Registering
  <2>3. ~registration[r].wrote /\ users' = users
    BY <1>4 DEF RegisterBegin, UsersShape
  <2> QED
    BY <1>3, <2>1, <2>2, <2>3
<1>5. CASE RegisterInsert(r)
  <2> DEFINE b == [registration[r] EXCEPT
                     !.pc = IF users[registration[r].email] = 0 THEN "commit" ELSE "done"]
  <2>1. /\ b \in Registering /\ b.email = registration[r].email /\ b.wrote = registration[r].wrote
        /\ b.pc = IF users[registration[r].email] = 0 THEN "commit" ELSE "done"
    BY <1>0 DEF Registering
  <2>2. ~registration[r].wrote /\ users' = users /\ registration[r].email \in Email
        /\ ~Inserting(registration[r].email) /\ registration' = [registration EXCEPT ![r] = b]
    BY <1>5 DEF RegisterInsert, UsersShape
  <2> HIDE DEF b
  <2> QED
    BY <1>3, <2>1, <2>2
<1>6. CASE RegisterAbort(r)
  <2> DEFINE b == [registration[r] EXCEPT !.pc = "done"]
  <2>1. b \in Registering /\ b.pc = "done" /\ b.wrote = registration[r].wrote
    BY <1>0 DEF Registering
  <2>2. ~registration[r].wrote /\ users' = users /\ registration' = [registration EXCEPT ![r] = b]
    BY <1>6 DEF RegisterAbort, UsersShape
  <2> HIDE DEF b
  <2> QED
    BY <1>3, <2>1, <2>2
<1>7. CASE RegisterCommit(r)
  <2> DEFINE b == [registration[r] EXCEPT !.pc = "done", !.wrote = TRUE]
  <2>1. b \in Registering /\ b.pc = "done" /\ b.wrote /\ b.email = registration[r].email
    BY <1>0 DEF Registering
  <2>2. /\ registration[r].pc = "commit" /\ registration' = [registration EXCEPT ![r] = b]
        /\ registration[r].email \in Email /\ users[registration[r].email] = 0
        /\ ~registration[r].wrote
    BY <1>7 DEF RegisterCommit, UsersShape
  <2> HIDE DEF b
  <2>3. registration'[r] = b /\ \A q \in Registration : q # r => registration'[q] = registration[q]
    BY <1>0, <2>2
  <2>4. users' = [users EXCEPT ![registration[r].email] = 1]
    <3>1. users' = [users EXCEPT ![registration[r].email] = @ + 1]
      BY <1>7 DEF RegisterCommit
    <3> QED
      BY <2>2, <3>1
  <2>5. \A e \in Email : users'[e] = IF e = registration[r].email THEN 1 ELSE users[e]
    BY <1>0, <2>2, <2>4
  <2>6. TypeOK'
    <3>1. 1 \in 0..1
      OBVIOUS
    <3>2. users' \in [Email -> 0..1]
      BY <1>0, <2>4, <3>1
    <3>3. registration' \in [Registration -> Registering]
      BY <1>0, <2>1, <2>2
    <3> QED
      BY <1>0, <3>2, <3>3 DEF TypeOK
  <2>7. /\ \A q \in Registration :
             registration[q].pc = "commit" /\ q # r => registration[q].email # registration[r].email
        /\ \A c \in Claim : Inserts(c) => claim[c].email # registration[r].email
    BY <2>2 DEF UsersShape
  <2>8. UsersShape'
    <3>1. (\A q \in Registration :
             /\ registration[q].pc \in {"insert", "commit"} =>
                  registration[q].email \in Email /\ ~registration[q].wrote
             /\ registration[q].pc = "idle" => ~registration[q].wrote
             /\ registration[q].wrote =>
                  users[registration[q].email] = 1 /\ registration[q].email \in Email
             /\ registration[q].pc = "commit" => users[registration[q].email] = 0)'
      BY <2>1, <2>2, <2>3, <2>5, <2>7 DEF UsersShape
    <3>2. (\A c \in Claim : Inserts(c) => users[claim[c].email] = 0)'
      <4>1. \A c \in Claim : Inserts(c) => claim[c].email \in Email
        BY DEF Inserts, ClaimsShape, ClaimShape
      <4> QED
        BY <1>0, <1>2, <2>5, <2>7, <4>1 DEF UsersShape
    <3>3. /\ (\A p, q \in Registration :
                registration[p].pc = "commit" /\ registration[q].pc = "commit"
                  /\ registration[p].email = registration[q].email => p = q)'
          /\ (\A c \in Claim, q \in Registration :
                Inserts(c) /\ registration[q].pc = "commit" => registration[q].email # claim[c].email)'
      BY <1>0, <1>2, <2>1, <2>3 DEF UsersShape
    <3>4. (\A c \in Claim : Made(c) => users[claim[c].email] = 1)'
      <4>1. \A c \in Claim : Made(c) => claim[c].email \in Email
        BY DEF Made, ClaimsShape, ClaimShape
      <4> QED
        BY <1>0, <1>2, <2>5, <4>1 DEF UsersShape
    <3>5. (\A e \in Email : users[e] = 1 =>
             \/ \E q \in Registration : registration[q].wrote /\ registration[q].email = e
             \/ \E c \in Claim : Made(c) /\ claim[c].email = e)'
      <4>1. ASSUME NEW e \in Email, users'[e] = 1, e # registration[r].email
            PROVE  \/ \E q \in Registration : registration'[q].wrote /\ registration'[q].email = e
                   \/ \E c \in Claim : Made(c)' /\ claim'[c].email = e
        <5>1. \/ \E q \in Registration : registration[q].wrote /\ registration[q].email = e
              \/ \E c \in Claim : Made(c) /\ claim[c].email = e
          BY <2>5, <4>1 DEF UsersShape
        <5> QED
          BY <1>0, <1>2, <2>2, <2>3, <5>1
      <4>2. registration'[r].wrote /\ registration'[r].email = registration[r].email
        BY <2>1, <2>3
      <4> QED
        BY <4>1, <4>2
    <3>6. (\A c \in Claim, q \in Registration : q \in claim[c].prior => registration[q].wrote)'
      BY <1>0, <2>1, <2>3 DEF UsersShape
    <3> QED
      BY <3>1, <3>2, <3>3, <3>4, <3>5, <3>6 DEF UsersShape
  <2>9. ClaimsAreSerial'
    BY <1>0, <2>1, <2>3 DEF ClaimsAreSerial
  <2> QED
    BY <1>1, <2>6, <2>8, <2>9
<1> QED
  BY <1>4, <1>5, <1>6, <1>7 DEF RegisterProgress

\* The issue of a token, the clock, and nothing at all keep the invariant.
LEMMA OtherStep ==
  ASSUME IInv, (\E t \in Token : CreateToken(t)) \/ Tick \/ UNCHANGED vars
  PROVE  IInv'
<1> USE DEF IInv, Rest
<1>0. UNCHANGED <<users, admins, claim, registration>>
  BY DEF CreateToken, Tick, vars
<1>1. ClaimsShape' /\ LockIsExclusive' /\ UsersShape' /\ ClaimsAreSerial'
  <2>1. ClaimsShape' /\ LockIsExclusive' /\ ClaimsAreSerial'
    BY <1>0 DEF ClaimsShape, LockIsExclusive, HoldsLock, Open, ClaimsAreSerial
  <2>2. UsersShape'
    BY <1>0 DEF UsersShape, Inserts, Open, Made
  <2> QED
    BY <2>1, <2>2
<1>2. /\ TypeOK'
      /\ \A t \in Token : /\ token'[t].consumed = token[t].consumed
                          /\ token[t].email # None => token'[t].email = token[t].email
  <2>1. CASE UNCHANGED <<clock, token>>
    BY <1>0, <2>1 DEF TypeOK
  <2>2. CASE Tick
    BY <1>0, <2>2, ParameterAssumption DEF Tick, TypeOK
  <2>3. ASSUME NEW t \in Token, CreateToken(t)
        PROVE  /\ TypeOK'
               /\ \A u \in Token : /\ token'[u].consumed = token[u].consumed
                                   /\ token[u].email # None => token'[u].email = token[u].email
    <3>1. PICK e \in Email :
            token' = [token EXCEPT ![t] = [@ EXCEPT !.email = e, !.expiresAt = clock + TTL]]
      BY <2>3 DEF CreateToken
    <3>2. clock + TTL \in Nat
      BY ParameterAssumption DEF TypeOK
    <3>3. [token[t] EXCEPT !.email = e, !.expiresAt = clock + TTL] \in TokenRow
      BY <3>2 DEF TypeOK, TokenRow
    <3>4. token' \in [Token -> TokenRow]
      BY <3>1, <3>3 DEF TypeOK
    <3>5. TypeOK'
      BY <1>0, <2>3, <3>4 DEF TypeOK, CreateToken
    <3>6. \A u \in Token : u # t => token'[u] = token[u]
      BY <3>1 DEF TypeOK
    <3>7. token[t].email = None /\ token'[t].consumed = token[t].consumed
      BY <2>3, <3>1 DEF TypeOK, TokenRow, CreateToken
    <3> QED
      BY <3>5, <3>6, <3>7
  <2> QED
    BY <2>1, <2>2, <2>3 DEF vars
<1>3. PlatformShape'
  <2>1. \A c \in Claim : claim[c].wrote # {} =>
          claim[c].token \in Token /\ claim[c].email \in Email /\ token[claim[c].token].email # None
    BY ParameterAssumption DEF ClaimsShape, ClaimShape, TypeOK, Claimed, PlatformShape
  <2>2. (\A c \in Claim : claim[c].wrote # {} => token[claim[c].token].email = claim[c].email)'
    BY <1>0, <1>2, <2>1 DEF PlatformShape
  <2>3. \A c \in Claim : (Made(c)' <=> Made(c)) /\ (Made(c) => claim[c].token \in Token)
    BY <1>0, <2>1 DEF Made
  <2> QED
    BY <1>0, <1>2, <2>2, <2>3 DEF PlatformShape
<1> QED
  BY <1>1, <1>2, <1>3

\* The invariant is inductive, and holds throughout.
LEMMA NextIInv == IInv /\ [Next]_vars => IInv'
BY ClaimStep, RegistrationStep, OtherStep DEF Next

\* The invariant holds in every reachable state.
LEMMA InvariantHolds == Spec => []IInv
BY InitIInv, NextIInv, PTL DEF Spec
-----------------------------------------------------------------------------
(* Theorems *)

\* The types hold, and the administrator was the first user as far as the claim
\* could see (claim).
THEOREM AdministratorIsFirst == Spec => []BootstrapInv
<1>1. IInv => BootstrapInv
  BY DEF IInv, Rest, BootstrapInv, AdminIsFirst, PlatformShape
<1> QED
  BY <1>1, InvariantHolds, PTL

\* A claim leaves a consumed token, a user and an administrator, or nothing, and
\* only one claim ever does (claim).
THEOREM ClaimIsAtomic == Spec => []AllOrNothing
<1>1. IInv => AllOrNothing
  <2> SUFFICES ASSUME IInv PROVE AllOrNothing
    OBVIOUS
  <2> USE DEF IInv, Rest
  <2>0. \A c \in Claim : Made(c) => claim[c].wrote # {} /\ claim[c].token \in Token
    BY DEF Made, ClaimsShape, ClaimShape, TypeOK, Claimed
  <2>1. admins = Cardinality({t \in Token : token[t].consumed})
    <3>1. CASE admins = 0
      <4>1. {t \in Token : token[t].consumed} = {}
        BY <3>1 DEF PlatformShape
      <4> QED
        BY <3>1, <4>1, FS_EmptySet
    <3>2. CASE admins = 1
      <4>1. PICK c \in Claim : Made(c)
        BY <3>2 DEF PlatformShape
      <4>2. {t \in Token : token[t].consumed} = {claim[c].token}
        BY <2>0, <4>1 DEF PlatformShape
      <4> QED
        BY <3>2, <4>2, FS_Singleton
    <3> QED
      BY <3>1, <3>2 DEF TypeOK
  <2>2. ASSUME NEW t \in Token, token[t].consumed
        PROVE  users[token[t].email] = 1 /\ \E c \in Claim : Made(c) /\ claim[c].token = t
    <3>1. PICK c \in Claim : Made(c) /\ claim[c].token = t
      BY <2>2 DEF PlatformShape
    <3> QED
      BY <2>0, <3>1 DEF PlatformShape, UsersShape
  <2>3. ASSUME NEW c \in Claim, NEW d \in Claim,
               Made(c), claim[d].answer = "created", claim[d].pc = "done"
        PROVE  c = d
    <3>1. Made(d)
      BY <2>3 DEF Made, ClaimsShape, ClaimShape, Everything
    <3> QED
      BY <2>3, <3>1 DEF PlatformShape
  <2> QED
    BY <2>1, <2>2, <2>3 DEF AllOrNothing
<1> QED
  BY <1>1, InvariantHolds, PTL

\* M09: a claim collides only with a registration of its own address that came
\* after it had the lock, never with another claim (claim).
THEOREM ClaimsNeverCollide == Spec => []ClaimsAreSerial
<1>1. IInv => ClaimsAreSerial
  BY DEF IInv, Rest
<1> QED
  BY <1>1, InvariantHolds, PTL

\* Whoever has inserted a users row or the administrator and not ended holds the
\* lock, or is a registration that is about to commit.
LEMMA InsertersHold ==
  ASSUME IInv, NEW c \in Claim, Open(c), claim[c].wrote # {} PROVE HoldsLock(c)
BY DEF IInv, Rest, ClaimsShape, ClaimShape, HoldsLock, Open

\* Claims never all wait: they wait for the holder of the advisory lock, which can
\* only wait for a registration, which waits for nobody (claim, register).
THEOREM ClaimsNeverAllWait == Spec => []NeverAllWait
<1>1. ASSUME IInv, NEW d \in Claim, HoldsLock(d)
      PROVE  \/ \E c \in Claim : Open(c) /\ ~Waits(c)
             \/ \E r \in Registration : Registers(r) /\ ~RegisterWaits(r)
  <2>1. Open(d) /\ claim[d].pc # "lock" /\ ClaimShape(claim[d])
    BY <1>1 DEF HoldsLock, IInv, Rest, ClaimsShape
  <2>2. \A e \in Claim : Open(e) /\ claim[e].wrote # {} => e = d
    BY <1>1, InsertersHold DEF IInv, Rest, LockIsExclusive
  <2>3. CASE \E r \in Registration : registration[r].pc = "commit"
    BY <2>3 DEF Registers, RegisterWaits
  <2>4. CASE ~\E r \in Registration : registration[r].pc = "commit"
    <3>1. claim[d].pc = "user" => ~Inserting(claim[d].email)
      BY <2>1, <2>2, <2>4 DEF Inserting, ClaimShape
    <3>2. \A e \in Claim \ {d} : ~(Open(e) /\ "admin" \in claim[e].wrote)
      BY <2>2
    <3> QED
      BY <2>1, <3>1, <3>2 DEF Waits
  <2> QED
    BY <2>3, <2>4
<1>2. ASSUME IInv, NEW c \in Claim, Open(c), Waits(c), ~\E d \in Claim : HoldsLock(d)
      PROVE  FALSE
  BY <1>2 DEF Waits, HoldsLock
<1>3. IInv => NeverAllWait
  BY <1>1, <1>2 DEF NeverAllWait
<1> QED
  BY <1>3, InvariantHolds, PTL
-----------------------------------------------------------------------------
(* The refinement of FirstAdministrator: COMMIT is the moment of a claim. *)

Administrators == {e \in Email : \E c \in Claim : Made(c) /\ claim[c].email = e}
Accounts == {e \in Email : users[e] = 1}
SpentTokens == {t \in Token : token[t].consumed}

\* A claim that commits what it wrote is a claim of the whole, or of nothing.
LEMMA CommitIsAClaim ==
  ASSUME IInv, NEW c \in Claim, Commit(c)
  PROVE  [Platform!Next]_(Platform!vars)
<1> DEFINE t == claim[c].token
           e == claim[c].email
<1>0. /\ claim \in [Claim -> Claimed] /\ users \in [Email -> 0..1] /\ admins \in 0..1
      /\ token \in [Token -> TokenRow]
      /\ claim[c].pc = "commit" /\ Open(c) /\ ~Made(c) /\ claim[c].wrote \in {{}, Everything}
      /\ PlatformShape /\ UsersShape /\ ClaimShape(claim[c])
  BY DEF IInv, Rest, TypeOK, Commit, Open, Made, ClaimsShape, ClaimShape
<1>1. /\ claim'[c].pc = "done" /\ claim'[c].wrote = claim[c].wrote /\ claim'[c].email = e
      /\ \A d \in Claim : d # c => claim'[d] = claim[d]
  <2>1. PICK reply \in {claim[c].answer, "error"} :
          Step(c, [claim[c] EXCEPT !.pc = "done", !.now = 0, !.answer = reply])
    BY DEF Commit
  <2> QED
    BY <1>0, <2>1 DEF Step, Claimed
<1>2. \A d \in Claim : Made(d)' <=> Made(d) \/ (d = c /\ claim[c].wrote = Everything)
  BY <1>0, <1>1 DEF Made, Everything
<1>3. CASE claim[c].wrote = {}
  <2>1. token' = token /\ users' = users
    BY <1>3 DEF Commit
  <2>2. Administrators' = Administrators
    BY <1>1, <1>2, <1>3 DEF Administrators, Everything, Made
  <2> QED
    BY <2>1, <2>2 DEF Platform!vars, Administrators
<1>4. CASE claim[c].wrote = Everything
  <2>1. /\ t \in Token /\ e \in Email /\ e # None /\ token[t].email = e /\ users[e] = 0
        /\ admins = 0
    <3>1. t # None /\ e \in Email /\ Pending(claim[c]) /\ Inserts(c)
      BY <1>0, <1>4 DEF ClaimShape, Everything, Pending, Inserts
    <3>2. t \in Token
      BY <1>0, <3>1 DEF Claimed
    <3> QED
      BY <1>0, <1>4, <3>1, <3>2, ParameterAssumption DEF PlatformShape, UsersShape, Everything
  <2>2. ~token[t].consumed /\ Administrators = {}
    BY <1>0, <2>1 DEF PlatformShape, Administrators
  <2>3. /\ token' = [token EXCEPT ![t].consumed = TRUE]
        /\ users' = [users EXCEPT ![e] = @ + 1]
    BY <1>4 DEF Commit, Everything
  <2>4. /\ SpentTokens' = SpentTokens \cup {t}
        /\ [u \in Token |-> token[u].email]' = [u \in Token |-> token[u].email]
    BY <1>0, <2>1, <2>3 DEF SpentTokens, TokenRow
  <2>5. Accounts' = Accounts \cup {e} /\ e \notin Accounts
    BY <1>0, <2>1, <2>3 DEF Accounts
  <2>6. Administrators' = {e}
    BY <1>1, <1>2, <1>4, <2>1, <2>2 DEF Administrators
  <2>7. PICK u \in Token : u = t
    BY <2>1
  <2>8. Platform!MakeAdministrator(u)
    BY <2>1, <2>2, <2>4, <2>5, <2>6, <2>7
       DEF Platform!MakeAdministrator, Administrators, Accounts, SpentTokens
  <2> QED
    BY <2>8 DEF Platform!Next
<1> QED
  BY <1>0, <1>3, <1>4

\* A claim that ends without COMMIT has written nothing.
LEMMA DoneIsEmpty ==
  ASSUME IInv, NEW c \in Claim,
         ClaimLimited(c) \/ Begin(c) \/ Lock(c) \/ Count(c) \/ Spend(c)
           \/ InsertUser(c) \/ InsertAdmin(c) \/ Abort(c)
  PROVE  claim'[c].pc = "done" => "admin" \notin claim'[c].wrote
<1>0. claim[c] \in Claimed /\ claim \in [Claim -> Claimed] /\ ClaimShape(claim[c])
  BY DEF IInv, Rest, TypeOK, ClaimsShape
<1>1. CASE ClaimLimited(c)
  BY <1>0, <1>1 DEF ClaimLimited, Step, Claimed, ClaimShape
<1>2. CASE Begin(c)
  <2>1. \E t, e : Step(c, [claim[c] EXCEPT !.pc = "lock", !.token = t, !.email = e, !.now = clock])
    BY <1>2 DEF Begin
  <2> QED
    BY <1>0, <2>1 DEF Step, Claimed
<1>3. CASE Lock(c) \/ Count(c) \/ Spend(c)
  <2>1. ASSUME NEW w PROVE ToNext(c, w) /\ claim[c].pc \in {"count", "spend"} => claim'[c].pc # "done"
    BY <1>0 DEF ToNext, Following, Step, Claimed
  <2>2. ASSUME NEW answer, Return(c, answer) PROVE claim'[c].pc # "done"
    BY <1>0, <2>2 DEF Return, Step, Claimed
  <2>3. Lock(c) => claim'[c].pc # "done"
    BY <1>0 DEF Lock, Following, Step, Claimed
  <2> QED
    BY <1>3, <2>1, <2>2, <2>3 DEF Count, Spend
<1>4. CASE InsertUser(c) \/ InsertAdmin(c) \/ Abort(c)
  <2>1. ASSUME NEW answer, Thrown(c, answer) PROVE claim'[c].wrote = {}
    BY <1>0, <2>1 DEF Thrown, Step, Claimed
  <2>2. ToNext(c, {"user"}) /\ claim[c].pc = "user" => claim'[c].pc # "done"
    BY <1>0 DEF ToNext, Following, Step, Claimed
  <2>3. claim[c].pc = "admin"
        /\ Step(c, [claim[c] EXCEPT !.pc = Following("admin"), !.wrote = claim[c].wrote \cup {"admin"},
                                    !.answer = "created"])
          => claim'[c].pc # "done"
    BY <1>0 DEF Following, Step, Claimed
  <2> QED
    BY <1>4, <2>1, <2>2, <2>3 DEF InsertUser, InsertAdmin, Abort
<1> QED
  BY <1>1, <1>2, <1>3, <1>4

\* Every committed claim takes effect at once and for one address: Bootstrap
\* implements FirstAdministrator (claim).
THEOREM ImplementsFirstAdministrator == Spec => BootstrapIsAtomic
<1>1. Init => Platform!Init
  BY DEF Init, Platform!Init, Made
<1>2. IInv /\ [Next]_vars => [Platform!Next]_(Platform!vars)
  <2> SUFFICES ASSUME IInv, [Next]_vars PROVE [Platform!Next]_(Platform!vars)
    OBVIOUS
  <2>0. /\ token \in [Token -> TokenRow] /\ users \in [Email -> 0..1]
        /\ claim \in [Claim -> Claimed] /\ UsersShape
    BY DEF IInv, Rest, TypeOK
  <2>1. ASSUME token' = token, users' = users, \A d \in Claim : Made(d)' <=> Made(d),
               \A d \in Claim : Made(d) => claim'[d].email = claim[d].email
        PROVE  [Platform!Next]_(Platform!vars)
    <3>1. Administrators' = Administrators
      BY <2>1 DEF Administrators
    <3> QED
      BY <2>1, <3>1 DEF Platform!vars, Administrators
  <2>2. ASSUME NEW t \in Token, CreateToken(t) PROVE [Platform!Next]_(Platform!vars)
    <3>1. PICK e \in Email :
            token' = [token EXCEPT ![t] = [@ EXCEPT !.email = e, !.expiresAt = clock + TTL]]
      BY <2>2 DEF CreateToken
    <3>2. /\ token[t].email = None /\ users' = users /\ claim' = claim
      BY <2>2 DEF CreateToken
    <3>3. /\ token'[t].email = e /\ token'[t].consumed = token[t].consumed
          /\ \A u \in Token : u # t => token'[u] = token[u]
      BY <2>0, <3>1 DEF TokenRow
    <3>4. /\ [u \in Token |-> token[u].email]' = [[u \in Token |-> token[u].email] EXCEPT ![t] = e]
          /\ SpentTokens' = SpentTokens
      BY <3>3 DEF SpentTokens
    <3>5. Administrators' = Administrators
      BY <3>2 DEF Administrators, Made
    <3>6. Platform!CreateToken(t, e)
      BY <3>2, <3>4, <3>5 DEF Platform!CreateToken, SpentTokens, Administrators
    <3> QED
      BY <3>6 DEF Platform!Next
  <2>3. ASSUME NEW r \in Registration, RegisterCommit(r) PROVE [Platform!Next]_(Platform!vars)
    <3>0. PICK e \in Email : e = registration[r].email
      BY <2>0, <2>3 DEF RegisterCommit, UsersShape
    <3>1. /\ users[e] = 0 /\ users' = [users EXCEPT ![e] = @ + 1]
          /\ token' = token /\ claim' = claim
      BY <2>0, <2>3, <3>0 DEF RegisterCommit, UsersShape
    <3>2. Accounts' = Accounts \cup {e} /\ e \notin Accounts
      BY <2>0, <3>1 DEF Accounts
    <3>3. Platform!Register(e)
      BY <3>1, <3>2 DEF Platform!Register, Accounts, Made
    <3> QED
      BY <3>3 DEF Platform!Next
  <2>4. ASSUME NEW c \in Claim, ClaimLimited(c) \/ Begin(c) \/ Lock(c) \/ Count(c) \/ Spend(c)
               \/ InsertUser(c) \/ InsertAdmin(c) \/ Abort(c)
        PROVE  [Platform!Next]_(Platform!vars)
    <3>1. token' = token /\ users' = users
      BY <2>4 DEF ClaimLimited, Begin, Lock, Count, Spend, InsertUser, InsertAdmin, Abort
    <3>2. /\ ~Made(c) /\ ~Made(c)'
          /\ \A d \in Claim : d # c => claim'[d] = claim[d]
      <4>1. claim[c].pc # "done" /\ \A d \in Claim : d # c => claim'[d] = claim[d]
        BY <2>0, <2>4 DEF ClaimLimited, Begin, Lock, Count, Spend, InsertUser, InsertAdmin, Abort,
           Return, ToNext, Thrown, Step, Open
      <4>2. claim'[c].pc = "done" => "admin" \notin claim'[c].wrote
        BY <2>4, DoneIsEmpty
      <4> QED
        BY <4>1, <4>2 DEF Made
    <3>3. /\ \A d \in Claim : Made(d)' <=> Made(d)
          /\ \A d \in Claim : Made(d) => claim'[d].email = claim[d].email
      BY <3>2 DEF Made
    <3> QED
      BY <2>1, <3>1, <3>3
  <2>5. ASSUME UNCHANGED <<token, users, claim>> PROVE [Platform!Next]_(Platform!vars)
    BY <2>1, <2>5 DEF Made
  <2> QED
    BY <2>2, <2>3, <2>4, <2>5, CommitIsAClaim DEF Next, Progress, RegisterProgress, RegisterBegin,
       RegisterInsert, RegisterAbort, Tick, vars
<1> QED
  BY <1>1, <1>2, InvariantHolds, PTL DEF Spec, BootstrapIsAtomic, Platform!Spec
=============================================================================
