----------------------- MODULE AccountLifecycleProofs -----------------------
(***************************************************************************)
(* Theorems about AccountLifecycle, for any number of overlapping calls.   *)
(* The argument: a row is changed by at most one open transaction, what    *)
(* that transaction found is still so when it commits, and a call that     *)
(* ended before another began has left its mark on everything the other    *)
(* reads.                                                                  *)
(***************************************************************************)
EXTENDS AccountLifecycle, TLAPS

\* What each place of a use case knows about its own call.
PlaceShape(k) ==
  /\ k.pc = "find" => k.op \notin {"verifyEmail", "resetPassword"}
  /\ k.pc = "insert" => k.op = "register"
  /\ k.pc = "mail" => k.op \in {"register", "requestPasswordReset"}
  /\ k.pc = "check" => k.op = "signIn"
  /\ k.pc = "consume" => k.op \in {"verifyEmail", "resetPassword"}
  /\ k.pc = "update" => k.op = "verifyEmail" /\ "delete" \in k.wrote
  /\ k.pc = "password" => k.op = "resetPassword" /\ "delete" \in k.wrote
  /\ k.pc = "mark" => k.op = "deactivate"
  /\ k.pc = "revoke" =>
       /\ k.op \in {"resetPassword", "deactivate", "revokeSession"}
       /\ k.op = "resetPassword" => "delete" \in k.wrote /\ "password" \in k.wrote
  /\ k.pc \in {"idle", "find", "insert", "check", "consume", "mark"} => k.wrote = {}
  /\ k.locked # {} => k.pc = "commit"

\* Which calls write what, and from which place on the write is pending.
WriteShape(k) ==
  /\ "user" \in k.wrote => k.op = "register" /\ k.pc \in {"mail", "commit", "done"}
  /\ "token" \in k.wrote => k.pc \in {"commit", "done"} /\ "delete" \notin k.wrote
  /\ "session" \in k.wrote => k.op = "signIn" /\ k.pc \in {"commit", "done"}
  /\ "delete" \in k.wrote =>
       /\ k.op \in {"verifyEmail", "resetPassword"} /\ k.with \in Secret
       /\ k.pc \in {"update", "password", "revoke", "commit", "done"}
  /\ "password" \in k.wrote => k.op = "resetPassword" /\ k.pc \in {"revoke", "commit", "done"}
  /\ "mark" \in k.wrote => k.op = "deactivate" /\ k.pc \in {"revoke", "commit", "done"}
  /\ "revoke" \in k.wrote => k.pc \in {"commit", "done"}
  /\ k.pc \in {"commit", "done"} /\ ("mark" \in k.wrote \/ "password" \in k.wrote)
       => "revoke" \in k.wrote

CallShape == \A c \in Call : PlaceShape(call[c]) /\ WriteShape(call[c])

\* The calls that had ended when a call began had ended.
PriorEnded == \A c, d \in Call : d \in call[c].prior => Done(d)

\* The users row: one call inserts it, and as long as its insert is pending there
\* is none; whoever updates it, or has inserted it, has found one.
Wrote(c, w) == w \in call[c].wrote

AccountShape ==
  /\ \A c, d \in Call : Wrote(c, "user") /\ Wrote(d, "user") => c = d
  /\ \A c \in Call : Open(c) /\ Wrote(c, "user") => user.stage = "absent"
  /\ \A c \in Call : Committed(c, "user") => user.stage # "absent"
  /\ \A c \in Call : call[c].pc \in {"check", "mark"} => user.stage # "absent"
  /\ \A c \in Call : Wrote(c, "mark") \/ Wrote(c, "session") => user.stage # "absent"
  /\ \A c \in Call : Committed(c, "mark") => user.stage = "deactivated"

\* The tokens: one call deletes a token, and as long as its delete is pending the
\* token is stored and still of the purpose the call found.
FitsItsCall(c) ==
  token[call[c].with].purpose = IF call[c].op = "verifyEmail" THEN "email_verification"
                                                              ELSE "password_reset"

TokenShape ==
  /\ \A c, d \in Call :
       Wrote(c, "delete") /\ Wrote(d, "delete") /\ call[c].with = call[d].with => c = d
  /\ \A c \in Call : Open(c) /\ Wrote(c, "delete") => token[call[c].with].stage = "stored"
  /\ \A c \in Call : Committed(c, "delete") => token[call[c].with].stage = "deleted"
  /\ \A c \in Call :
       Wrote(c, "delete") /\ (call[c].wrote # {"delete"} \/ call[c].pc \in {"update", "password"})
         => FitsItsCall(c)
  /\ \A c \in Call : token[c].stage # "unissued" => Committed(c, "token")

\* The sessions: a call makes its session when it commits, and has it revoked
\* only by a call that found it.
SessionShape ==
  /\ \A s \in Call : session[s] # "none" <=> Committed(s, "session")
  /\ \A c, s \in Call : s \in call[c].locked => session[s] # "none"

\* A call that revokes every session reaches those of the calls that had ended
\* when it began.
RevokesPrior ==
  \A c, s \in Call :
    Wrote(c, "revoke") /\ call[c].op # "revokeSession" /\ s \in call[c].prior
      /\ session[s] # "none" =>
        IF Open(c) THEN s \in call[c].locked ELSE session[s] = "revoked"

\* A sign-in that began after a deactivation has ended finds it.
SeesDeactivation ==
  \A c, s \in Call :
    Committed(c, "mark") /\ c \in call[s].prior =>
      /\ ~Wrote(s, "session")
      /\ call[s].pc = "check" => call[s].seen.stage = "deactivated"

\* A sign-in was made with the password that holds, or with one that a reset has
\* replaced that had not ended when it began.
PasswordHeld ==
  \A s \in Call :
    Wrote(s, "session") =>
      call[s].with = password \/ \E c \in Call : Committed(c, "password") /\ c \notin call[s].prior

IInv == TypeOK /\ CallShape /\ PriorEnded /\ AccountShape /\ TokenShape /\ SessionShape
        /\ RevokesPrior /\ SeesDeactivation /\ PasswordHeld
-----------------------------------------------------------------------------
\* The initial state satisfies the invariant: nothing was called yet.
LEMMA InitIInv == Init => IInv
<1> SUFFICES ASSUME Init PROVE IInv
  OBVIOUS
<1> USE ParameterAssumption
<1>1. TypeOK
  <2>1. user \in User /\ (user.verified \in BOOLEAN)
    <3>1. CASE user = NoUser
      BY <3>1 DEF NoUser, User
    <3>2. CASE user \in [stage : {"active"}, verified : BOOLEAN]
      BY <3>2 DEF User
    <3> QED
      BY <3>1, <3>2 DEF Init
  <2>2. token \in [Secret -> Token]
    BY DEF Init, Token, Purpose
  <2>3. call \in [Call -> Called]
    BY DEF Init, Called, Op, Pc, Answer, User, NoUser
  <2>4. clock \in 0..MaxTime
    BY DEF Init
  <2> QED
    BY <2>1, <2>2, <2>3, <2>4 DEF Init, TypeOK, Secret
<1>2. CallShape
  BY DEF Init, CallShape, PlaceShape, WriteShape
<1>3. PriorEnded /\ AccountShape /\ SessionShape
  BY DEF Init, PriorEnded, AccountShape, SessionShape, Wrote, Committed, Open, Done
<1>4. TokenShape
  BY DEF Init, TokenShape, Wrote, Committed, Open, Done, Secret
<1>5. RevokesPrior /\ SeesDeactivation /\ PasswordHeld
  BY DEF Init, RevokesPrior, SeesDeactivation, PasswordHeld, Wrote, Committed, Done
<1> QED
  BY <1>1, <1>2, <1>3, <1>4, <1>5 DEF IInv

\* The records the actions make of the record of a call.
LEMMA CalledUpdates ==
  ASSUME NEW k \in Called, NEW pc \in Pc, NEW answer \in Answer, NEW w \in SUBSET Write
  PROVE  /\ [k EXCEPT !.pc = pc] \in Called
         /\ [k EXCEPT !.pc = pc, !.answer = answer] \in Called
         /\ [k EXCEPT !.pc = pc, !.wrote = w] \in Called
         /\ [k EXCEPT !.pc = pc, !.wrote = w, !.answer = answer] \in Called
         /\ [k EXCEPT !.wrote = w, !.pc = pc] \in Called
         /\ [k EXCEPT !.wrote = w, !.pc = pc, !.answer = answer] \in Called
         /\ \A seen \in User : [k EXCEPT !.pc = pc, !.seen = seen, !.answer = answer] \in Called
         /\ \A locked \in SUBSET Call :
              [k EXCEPT !.wrote = w, !.locked = locked, !.pc = pc, !.answer = answer] \in Called
BY DEF Called

\* A call that ends or throws is still a well typed record.
LEMMA EndedType ==
  ASSUME NEW c \in Call, call[c] \in Called, NEW answer \in Answer
  PROVE  Ended(c, answer) \in Called /\ Thrown(c) \in Called
BY DEF Called, Ended, Thrown, Pc, Answer, User, NoUser

\* A call that begins is a well typed record.
LEMMA BeginType ==
  ASSUME NEW k \in Called, NEW op \in Op, NEW with \in Secret \cup {None}, NEW now \in Nat,
         NEW pc \in Pc, NEW prior \in SUBSET Call
  PROVE  [k EXCEPT !.op = op, !.with = with, !.now = now, !.pc = pc, !.prior = prior] \in Called
BY DEF Called

\* Every step keeps the types.
LEMMA NextTypeOK == IInv /\ [Next]_vars => TypeOK'
<1> SUFFICES ASSUME IInv, [Next]_vars PROVE TypeOK'
  OBVIOUS
<1>0. TypeOK /\ CallShape
  BY DEF IInv
<1>1. ASSUME NEW c \in Call, Unchanged, NEW a \in Called, Step(c, a) PROVE TypeOK'
  BY <1>0, <1>1 DEF TypeOK, Unchanged, Step
<1>2. ASSUME NEW c \in Call, Limited(c) PROVE TypeOK'
  <2>1. call[c] \in Called /\ "done" \in Pc /\ "rate_limited" \in Answer
    BY <1>0 DEF TypeOK, Pc, Answer
  <2>2. [call[c] EXCEPT !.pc = "done", !.answer = "rate_limited"] \in Called
    BY <2>1, CalledUpdates
  <2> QED
    BY <1>1, <1>2, <2>2 DEF Limited
<1>3. ASSUME NEW c \in Call, Begin(c) PROVE TypeOK'
  <2>1. PICK op \in Op : \E with \in Presentable(op) :
          Step(c, [call[c] EXCEPT
                  !.op = op, !.with = with, !.now = clock,
                  !.pc = IF op \in {"verifyEmail", "resetPassword"} THEN "consume" ELSE "find",
                  !.prior = {d \in Call : Done(d)}])
    BY <1>3 DEF Begin
  <2>2. PICK with \in Presentable(op) :
          Step(c, [call[c] EXCEPT
                  !.op = op, !.with = with, !.now = clock,
                  !.pc = IF op \in {"verifyEmail", "resetPassword"} THEN "consume" ELSE "find",
                  !.prior = {d \in Call : Done(d)}])
    BY <2>1
  <2>3. with \in Secret \cup {None}
    BY <1>0 DEF TypeOK, Presentable, Secret
  <2>4. clock \in Nat
    BY <1>0, ParameterAssumption DEF TypeOK
  <2>5. call[c] \in Called /\ {d \in Call : Done(d)} \in SUBSET Call
    BY <1>0 DEF TypeOK
  <2>6. (IF op \in {"verifyEmail", "resetPassword"} THEN "consume" ELSE "find") \in Pc
    BY DEF Pc
  <2>7. [call[c] EXCEPT
                  !.op = op, !.with = with, !.now = clock,
                  !.pc = IF op \in {"verifyEmail", "resetPassword"} THEN "consume" ELSE "find",
                  !.prior = {d \in Call : Done(d)}] \in Called
    BY <2>3, <2>4, <2>5, <2>6, BeginType
  <2> QED
    BY <1>1, <1>3, <2>2, <2>7 DEF Begin
<1>4. ASSUME NEW c \in Call, Abort(c) PROVE TypeOK'
  <2>1. call[c] \in Called /\ "error" \in Answer
    BY <1>0 DEF TypeOK, Answer
  <2>2. Thrown(c) \in Called
    BY <2>1, EndedType
  <2> QED
    BY <1>1, <1>4, <2>2 DEF Abort
<1>5. ASSUME NEW c \in Call, Progress(c) PROVE TypeOK'
  <2>0. call[c] \in Called /\ user \in User
    BY <1>0 DEF TypeOK
  <2>a. call[c].answer \in Answer /\ call[c].wrote \in SUBSET Write
    BY <2>0 DEF Called
  <2>1. CASE Find(c)
    <3>1. Found(c) \in Pc /\ "insert" \in Pc /\ "commit" \in Pc
      <4>1. call[c].op \in {"register", "signIn", "requestPasswordReset", "deactivate",
                            "revokeSession"}
        BY <1>0, <2>0, <2>1 DEF CallShape, PlaceShape, Called, Op, Find
      <4> QED
        BY <4>1 DEF Pc, Found
    <3>2. "conflict" \in Answer /\ "invalid_credentials" \in Answer /\ "accepted" \in Answer
          /\ "subject_not_found" \in Answer
      BY DEF Answer
    <3>3. /\ [call[c] EXCEPT !.pc = Found(c), !.seen = user, !.answer = "conflict"] \in Called
          /\ [call[c] EXCEPT !.pc = Found(c), !.seen = user, !.answer = call[c].answer] \in Called
          /\ [call[c] EXCEPT !.pc = "insert"] \in Called
          /\ [call[c] EXCEPT !.pc = "commit", !.answer = "invalid_credentials"] \in Called
          /\ [call[c] EXCEPT !.pc = "commit", !.answer = "accepted"] \in Called
          /\ [call[c] EXCEPT !.pc = "commit", !.answer = "subject_not_found"] \in Called
      BY <2>0, <2>a, <3>1, <3>2, CalledUpdates
    <3> QED
      BY <1>1, <2>1, <3>3 DEF Find, Return
  <2>2. CASE Insert(c)
    <3>1. "mail" \in Pc /\ {"user"} \in SUBSET Write /\ "error" \in Answer
      BY DEF Pc, Write, Answer
    <3>2. Thrown(c) \in Called /\ [call[c] EXCEPT !.pc = "mail", !.wrote = {"user"}] \in Called
      BY <2>0, <2>a, <3>1, CalledUpdates, EndedType
    <3> QED
      BY <1>1, <2>2, <3>2 DEF Insert
  <2>3. CASE Mail(c)
    <3>1. "commit" \in Pc /\ call[c].wrote \cup {"token"} \in SUBSET Write /\ "accepted" \in Answer
      BY <2>a DEF Pc, Write, Answer
    <3>2. [call[c] EXCEPT !.pc = "commit", !.wrote = call[c].wrote \cup {"token"},
                          !.answer = "accepted"] \in Called
      BY <2>0, <3>1, CalledUpdates
    <3> QED
      BY <1>0, <2>3, <3>2 DEF TypeOK, Mail, Step, Secret
  <2>4. CASE Check(c)
    <3>1. /\ "commit" \in Pc /\ {"session"} \in SUBSET Write /\ "accepted" \in Answer
          /\ "invalid_credentials" \in Answer /\ "subject_deactivated" \in Answer
          /\ "unverified_email" \in Answer
      BY DEF Pc, Write, Answer
    <3>2. /\ [call[c] EXCEPT !.pc = "commit", !.answer = "invalid_credentials"] \in Called
          /\ [call[c] EXCEPT !.pc = "commit", !.answer = "subject_deactivated"] \in Called
          /\ [call[c] EXCEPT !.pc = "commit", !.answer = "unverified_email"] \in Called
          /\ [call[c] EXCEPT !.pc = "commit", !.wrote = {"session"}, !.answer = "accepted"] \in Called
      BY <2>0, <2>a, <3>1, CalledUpdates
    <3> QED
      BY <1>1, <2>4, <3>2 DEF Check, Return
  <2>5. CASE Consume(c)
    <3>1. /\ "commit" \in Pc /\ "update" \in Pc /\ "password" \in Pc
          /\ {"delete"} \in SUBSET Write /\ "invalid_token" \in Answer
      BY DEF Pc, Write, Answer
    <3>2. /\ [call[c] EXCEPT !.pc = "commit", !.answer = "invalid_token"] \in Called
          /\ [call[c] EXCEPT !.wrote = {"delete"}, !.pc = "update"] \in Called
          /\ [call[c] EXCEPT !.wrote = {"delete"}, !.pc = "password"] \in Called
          /\ [call[c] EXCEPT !.wrote = {"delete"}, !.pc = "commit",
                             !.answer = "invalid_token"] \in Called
      BY <2>0, <2>a, <3>1, CalledUpdates
    <3> QED
      BY <1>1, <2>5, <3>2 DEF Consume, Return
  <2>6. CASE Update(c) \/ StorePassword(c) \/ Mark(c) \/ Revoke(c)
    <3>1. /\ "commit" \in Pc /\ "revoke" \in Pc /\ "accepted" \in Answer
          /\ call[c].wrote \cup {"verified"} \in SUBSET Write
          /\ call[c].wrote \cup {"password"} \in SUBSET Write
          /\ call[c].wrote \cup {"revoke"} \in SUBSET Write
          /\ {"mark"} \in SUBSET Write /\ Revocable(c) \in SUBSET Call
      BY <2>a DEF Pc, Write, Answer, Revocable
    <3>2. /\ [call[c] EXCEPT !.wrote = call[c].wrote \cup {"verified"}, !.pc = "commit",
                             !.answer = "accepted"] \in Called
          /\ [call[c] EXCEPT !.wrote = call[c].wrote \cup {"password"}, !.pc = "revoke"] \in Called
          /\ [call[c] EXCEPT !.wrote = {"mark"}, !.pc = "revoke"] \in Called
          /\ [call[c] EXCEPT !.wrote = call[c].wrote \cup {"revoke"}, !.locked = Revocable(c),
                             !.pc = "commit", !.answer = "accepted"] \in Called
      BY <2>0, <3>1, CalledUpdates
    <3> QED
      BY <1>1, <2>6, <3>2 DEF Update, StorePassword, Mark, Revoke
  <2>7. CASE Commit(c)
    <3>1. UserAfter(c) \in User
      BY <2>0 DEF UserAfter, User
    <3>2. TokenAfter(c) \in [Secret -> Token]
      <4>1. call[c].now \in Nat /\ c \in Secret /\ token \in [Secret -> Token]
        BY <1>0, <2>0 DEF Called, TypeOK, Secret
      <4>2. CASE "token" \in call[c].wrote
        <5>1. [stage |-> "stored", expiresAt |-> call[c].now + TTL,
               purpose |-> IF call[c].op = "register" THEN "email_verification"
                                                      ELSE "password_reset"] \in Token
          BY <4>1, ParameterAssumption DEF Token, Purpose
        <5> QED
          BY <4>1, <4>2, <5>1 DEF TokenAfter
      <4>3. CASE "token" \notin call[c].wrote /\ "delete" \in call[c].wrote
        <5>1. call[c].with \in Secret
          BY <1>0, <4>3 DEF CallShape, WriteShape
        <5>2. [token[call[c].with] EXCEPT !.stage = "deleted"] \in Token
          BY <4>1, <5>1 DEF Token
        <5> QED
          BY <4>1, <4>3, <5>2 DEF TokenAfter
      <4>4. CASE "token" \notin call[c].wrote /\ "delete" \notin call[c].wrote
        BY <4>1, <4>4 DEF TokenAfter
      <4> QED
        BY <4>2, <4>3, <4>4
    <3>3. SessionAfter(c) \in [Call -> {"none", "live", "revoked"}]
      BY <1>0 DEF SessionAfter, TypeOK
    <3>4. Ended(c, call[c].answer) \in Called /\ Ended(c, "error") \in Called
      BY <2>0, <2>a, EndedType DEF Answer
    <3>5. call' \in [Call -> Called]
      BY <1>0, <2>7, <3>4 DEF Commit, Step, TypeOK
    <3>6. password' \in Secret \cup {None}
      BY <1>0, <2>7 DEF Commit, TypeOK, Secret
    <3> QED
      BY <1>0, <2>7, <3>1, <3>2, <3>3, <3>5, <3>6 DEF Commit, TypeOK
  <2> QED
    BY <1>5, <2>1, <2>2, <2>3, <2>4, <2>5, <2>6, <2>7 DEF Progress
<1>6. CASE Tick
  BY <1>0, <1>6, ParameterAssumption DEF Tick, TypeOK
<1>7. CASE UNCHANGED vars
  BY <1>0, <1>7 DEF TypeOK, vars
<1> QED
  BY <1>2, <1>3, <1>4, <1>5, <1>6, <1>7 DEF Next
-----------------------------------------------------------------------------
Rest == CallShape /\ PriorEnded /\ AccountShape /\ TokenShape /\ SessionShape
        /\ RevokesPrior /\ SeesDeactivation /\ PasswordHeld

Tables == <<user, password, token, session>>

\* What a statement of an open call may make of its record a.
GoodUser(c, a) ==
  /\ "user" \in a.wrote /\ ~Wrote(c, "user") =>
       (\A d \in Call : ~Wrote(d, "user")) /\ user.stage = "absent"
  /\ a.pc \in {"check", "mark"} \/ "mark" \in a.wrote \/ "session" \in a.wrote
       => user.stage # "absent"

GoodDelete(c, a) ==
  /\ "delete" \in a.wrote /\ ~Wrote(c, "delete") =>
       /\ \A d \in Call : Wrote(d, "delete") => call[d].with # a.with
       /\ token[a.with].stage = "stored"
  /\ "delete" \in a.wrote /\ (a.wrote # {"delete"} \/ a.pc \in {"update", "password"})
       => FitsItsCall(c)

GoodSession(c, a) ==
  /\ \A s \in a.locked : session[s] # "none"
  /\ "revoke" \in a.wrote /\ a.op # "revokeSession" =>
       \A s \in a.prior : session[s] # "none" => s \in a.locked
  /\ \A d \in a.prior : Committed(d, "mark") =>
       "session" \notin a.wrote /\ (a.pc = "check" => a.seen.stage = "deactivated")
  /\ "session" \in a.wrote => a.with = password \/ Wrote(c, "session")

\* A statement of an open call that leaves the tables alone.
LEMMA OpenStep ==
  ASSUME IInv, NEW c \in Call, NEW a \in Called, Open(c), Step(c, a), UNCHANGED Tables,
         a.pc \notin {"idle", "done"}, a.op = call[c].op, a.with = call[c].with,
         a.prior = call[c].prior, call[c].wrote \subseteq a.wrote,
         PlaceShape(a), WriteShape(a), GoodUser(c, a), GoodDelete(c, a), GoodSession(c, a)
  PROVE  Rest'
<1> USE DEF IInv
<1>1. /\ call'[c] = a
      /\ \A d \in Call : d # c => call'[d] = call[d]
      /\ user' = user /\ password' = password /\ token' = token /\ session' = session
  BY DEF TypeOK, Step, Tables
<1>2. CallShape'
  BY <1>1 DEF CallShape
<1>3. /\ \A d \in Call : Done(d)' <=> Done(d)
      /\ \A d \in Call : Open(d)' <=> Open(d)
      /\ \A d \in Call : \A w : Committed(d, w)' <=> Committed(d, w)
      /\ \A d \in Call : \A w : d # c => (Wrote(d, w)' <=> Wrote(d, w))
      /\ \A w : Wrote(c, w)' <=> w \in a.wrote
  BY <1>1 DEF Done, Open, Committed, Wrote
<1>4. PriorEnded'
  BY <1>1, <1>3 DEF PriorEnded
<1>5. AccountShape'
  BY <1>1, <1>3 DEF AccountShape, GoodUser, Wrote
<1>6. TokenShape'
  <2>1. \A d \in Call : call'[d].with = call[d].with /\ call'[d].op = call[d].op
    BY <1>1
  <2>2. \A d, e \in Call :
          Wrote(d, "delete")' /\ Wrote(e, "delete")' /\ call[d].with = call[e].with => d = e
    BY <1>3 DEF TokenShape, GoodDelete
  <2>3. \A d \in Call : Open(d) /\ Wrote(d, "delete")' => token[call[d].with].stage = "stored"
    BY <1>3 DEF TokenShape, GoodDelete
  <2>4. \A d \in Call :
          Wrote(d, "delete")' /\ (call'[d].wrote # {"delete"} \/ call'[d].pc \in {"update", "password"})
            => FitsItsCall(d)
    BY <1>1, <1>3 DEF TokenShape, GoodDelete
  <2>5. \A d \in Call : FitsItsCall(d)' <=> FitsItsCall(d)
    BY <1>1, <2>1 DEF FitsItsCall
  <2> QED
    BY <1>1, <1>3, <2>1, <2>2, <2>3, <2>4, <2>5 DEF TokenShape
<1>7. SessionShape'
  BY <1>1, <1>3 DEF SessionShape, GoodSession
<1>8. RevokesPrior'
  BY <1>1, <1>3 DEF RevokesPrior, GoodSession
<1>9. SeesDeactivation'
  BY <1>1, <1>3 DEF SeesDeactivation, GoodSession
<1>10. PasswordHeld'
  BY <1>1, <1>3 DEF PasswordHeld, GoodSession, Wrote
<1> QED
  BY <1>2, <1>4, <1>5, <1>6, <1>7, <1>8, <1>9, <1>10 DEF Rest

\* A call that ends and leaves nothing behind, or one that begins.
LEMMA EmptyStep ==
  ASSUME IInv, NEW c \in Call, NEW a \in Called, ~Done(c), Step(c, a), UNCHANGED Tables,
         a.wrote = {}, a.locked = {}, a.pc \in {"find", "consume", "done"}, PlaceShape(a),
         a.prior = call[c].prior \/ a.prior = {d \in Call : Done(d)}
  PROVE  Rest'
<1> USE DEF IInv
<1>1. /\ call'[c] = a
      /\ \A d \in Call : d # c => call'[d] = call[d]
      /\ user' = user /\ password' = password /\ token' = token /\ session' = session
  BY DEF TypeOK, Step, Tables
<1>2. CallShape'
  BY <1>1 DEF CallShape, WriteShape
<1>3. /\ \A d \in Call : d # c => (Done(d)' <=> Done(d))
      /\ \A d \in Call : d # c => (Open(d)' <=> Open(d))
      /\ \A d \in Call : \A w : Committed(d, w)' <=> Committed(d, w)
      /\ \A d \in Call : \A w : d # c => (Wrote(d, w)' <=> Wrote(d, w))
      /\ \A w : ~Wrote(c, w)'
  BY <1>1 DEF Done, Open, Committed, Wrote
<1>4. PriorEnded'
  BY <1>1, <1>3 DEF PriorEnded
<1>5. AccountShape'
  BY <1>1, <1>3 DEF AccountShape
<1>6. TokenShape'
  <2>1. \A d \in Call : d # c => (FitsItsCall(d)' <=> FitsItsCall(d))
    BY <1>1 DEF FitsItsCall
  <2>2. (\A d, e \in Call :
           Wrote(d, "delete") /\ Wrote(e, "delete") /\ call[d].with = call[e].with => d = e)'
    BY <1>1, <1>3 DEF TokenShape
  <2>3. (\A d \in Call : Open(d) /\ Wrote(d, "delete") => token[call[d].with].stage = "stored")'
    BY <1>1, <1>3 DEF TokenShape
  <2>4. (\A d \in Call : Committed(d, "delete") => token[call[d].with].stage = "deleted")'
    <3>1. ~Committed(c, "delete")'
      BY <1>1 DEF Committed
    <3> QED
      BY <1>1, <1>3, <3>1 DEF TokenShape
  <2>5. (\A d \in Call :
           Wrote(d, "delete") /\ (call[d].wrote # {"delete"} \/ call[d].pc \in {"update", "password"})
             => FitsItsCall(d))'
    BY <1>1, <1>3, <2>1 DEF TokenShape
  <2>6. (\A d \in Call : token[d].stage # "unissued" => Committed(d, "token"))'
    BY <1>1, <1>3 DEF TokenShape
  <2> QED
    BY <2>2, <2>3, <2>4, <2>5, <2>6 DEF TokenShape
<1>7. SessionShape'
  BY <1>1, <1>3 DEF SessionShape
<1>8. RevokesPrior'
  BY <1>1, <1>3 DEF RevokesPrior
<1>9. SeesDeactivation'
  BY <1>1, <1>3 DEF SeesDeactivation
<1>10. PasswordHeld'
  BY <1>1, <1>3 DEF PasswordHeld
<1> QED
  BY <1>2, <1>4, <1>5, <1>6, <1>7, <1>8, <1>9, <1>10 DEF Rest

\* The record of a call that has thrown.
LEMMA ThrownShape ==
  ASSUME NEW c \in Call, call[c] \in Called
  PROVE  /\ Thrown(c).wrote = {} /\ Thrown(c).locked = {} /\ Thrown(c).pc = "done"
         /\ Thrown(c).prior = call[c].prior /\ PlaceShape(Thrown(c))
BY DEF Called, Thrown, Ended, PlaceShape

\* COMMIT: what the call found when it wrote is still so.
LEMMA CommitStep == ASSUME IInv, NEW c \in Call, Commit(c) PROVE Rest'
<1> USE DEF IInv
<1>1. /\ call[c].pc = "commit" /\ Open(c) /\ ~Done(c)
      /\ user' = UserAfter(c) /\ token' = TokenAfter(c) /\ session' = SessionAfter(c)
      /\ password' = IF call[c].wrote \cap {"user", "password"} # {} THEN c ELSE password
  BY DEF Commit, Open, Done
<1>2. /\ call'[c].pc = "done" /\ call'[c].wrote = call[c].wrote /\ call'[c].op = call[c].op
      /\ call'[c].with = call[c].with /\ call'[c].prior = call[c].prior /\ call'[c].locked = {}
      /\ \A d \in Call : d # c => call'[d] = call[d]
  <2>1. PICK reply \in {call[c].answer, "error"} : call' = [call EXCEPT ![c] = Ended(c, reply)]
    BY DEF Commit, Step
  <2>2. call \in [Call -> Called] /\ call[c] \in Called
    BY DEF TypeOK
  <2>3. call'[c] = Ended(c, reply) /\ \A d \in Call : d # c => call'[d] = call[d]
    BY <2>1, <2>2
  <2> QED
    BY <2>2, <2>3 DEF Ended, Called
<1>3. /\ \A d \in Call : d # c => (Done(d)' <=> Done(d))
      /\ \A d \in Call : d # c => (Open(d)' <=> Open(d))
      /\ Done(c)' /\ ~Open(c)'
      /\ \A d \in Call : \A w : Wrote(d, w)' <=> Wrote(d, w)
      /\ \A d \in Call : \A w : Committed(d, w)' <=> Committed(d, w) \/ (d = c /\ Wrote(c, w))
  BY <1>1, <1>2 DEF Done, Open, Committed, Wrote
<1>4. CallShape'
  <2>1. PlaceShape(call'[c]) /\ WriteShape(call'[c])
    BY <1>1, <1>2 DEF CallShape, PlaceShape, WriteShape
  <2> QED
    BY <1>2, <2>1 DEF CallShape
<1>5. PriorEnded'
  BY <1>2, <1>3 DEF PriorEnded
<1>6. AccountShape'
  <2>1. /\ Wrote(c, "mark") \/ Wrote(c, "session") => user.stage # "absent" /\ ~Wrote(c, "user")
        /\ Wrote(c, "user") => user.stage = "absent" /\ user'.stage = "active"
    BY <1>1 DEF AccountShape, CallShape, WriteShape, Wrote, UserAfter
  <2>2. /\ user.stage # "absent" => user'.stage # "absent"
        /\ user.stage = "deactivated" => user'.stage = "deactivated"
        /\ Wrote(c, "mark") => user'.stage = "deactivated"
        /\ ~Wrote(c, "user") /\ ~Wrote(c, "mark") => user'.stage = user.stage
    BY <1>1, <2>1 DEF UserAfter, Wrote
  <2> QED
    BY <1>1, <1>2, <1>3, <2>1, <2>2 DEF AccountShape
<1>7. TokenShape'
  <2>0. /\ token \in [Secret -> Token] /\ c \in Secret
        /\ Wrote(c, "delete") => call[c].with \in Secret /\ ~Wrote(c, "token")
        /\ \A d \in Call : Wrote(d, "delete") => call[d].with \in Secret
        /\ \A d \in Call : call'[d].with = call[d].with /\ call'[d].op = call[d].op
                           /\ call'[d].wrote = call[d].wrote
    BY <1>2 DEF TypeOK, Secret, CallShape, WriteShape, Wrote
  <2>1. token[c].stage = "unissued"
    BY <1>1, <2>0 DEF TokenShape, Committed
  <2>2. \A d \in Call : Wrote(d, "delete") /\ d # c => ~Wrote(c, "token") \/ call[d].with # c
    BY <2>1 DEF TokenShape, Committed, Open, Done, CallShape, WriteShape, Wrote
  <2>3. \A t \in Secret :
          /\ t # c /\ ~(Wrote(c, "delete") /\ t = call[c].with) => token'[t] = token[t]
          /\ t = c /\ ~Wrote(c, "token") /\ ~(Wrote(c, "delete") /\ t = call[c].with)
               => token'[t] = token[t]
          /\ Wrote(c, "delete") /\ t = call[c].with =>
               token'[t].stage = "deleted" /\ token'[t].purpose = token[t].purpose
    BY <1>1, <2>0 DEF TokenAfter, Wrote, Token
  <2>4. \A d \in Call : Wrote(d, "delete") /\ d # c => token'[call[d].with] = token[call[d].with]
    BY <2>0, <2>2, <2>3 DEF TokenShape
  <2>5. \A d \in Call : Wrote(d, "delete") => (FitsItsCall(d)' <=> FitsItsCall(d))
    BY <2>0, <2>3, <2>4 DEF FitsItsCall
  <2>6. \A t \in Call : token'[t].stage # "unissued" =>
          token[t].stage # "unissued" \/ (t = c /\ Wrote(c, "token"))
    <3>1. Wrote(c, "delete") => token[call[c].with].stage = "stored"
      BY <1>1 DEF TokenShape
    <3> QED
      BY <2>0, <2>3, <3>1 DEF Secret
  <2>7. \A d \in Call : Open(d)' => d # c /\ Open(d)
    BY <1>3
  <2>8. \A d \in Call :
          Wrote(d, "delete") /\ (call[d].wrote # {"delete"} \/ call'[d].pc \in {"update", "password"})
            => FitsItsCall(d)
    BY <1>2 DEF TokenShape
  <2>9. (\A d, e \in Call :
           Wrote(d, "delete") /\ Wrote(e, "delete") /\ call[d].with = call[e].with => d = e)'
    BY <1>3, <2>0 DEF TokenShape
  <2>10. (\A d \in Call : Open(d) /\ Wrote(d, "delete") => token[call[d].with].stage = "stored")'
    BY <1>3, <2>0, <2>4, <2>7 DEF TokenShape
  <2>11. (\A d \in Call : Committed(d, "delete") => token[call[d].with].stage = "deleted")'
    <3>1. ASSUME NEW d \in Call, Committed(d, "delete")' PROVE token'[call[d].with].stage = "deleted"
      <4>1. CASE d = c
        <5>1. Wrote(c, "delete") /\ call[c].with \in Secret
          BY <1>2, <2>0, <3>1, <4>1 DEF Committed, Wrote
        <5> QED
          BY <2>3, <4>1, <5>1
      <4>2. CASE d # c
        <5>1. Committed(d, "delete") /\ Wrote(d, "delete")
          BY <1>3, <3>1, <4>2 DEF Committed, Wrote
        <5> QED
          BY <2>4, <4>2, <5>1 DEF TokenShape
      <4> QED
        BY <4>1, <4>2
    <3> QED
      BY <2>0, <3>1
  <2>12. (\A d \in Call :
           Wrote(d, "delete") /\ (call[d].wrote # {"delete"} \/ call[d].pc \in {"update", "password"})
             => FitsItsCall(d))'
    BY <1>3, <2>0, <2>5, <2>8
  <2>13. (\A d \in Call : token[d].stage # "unissued" => Committed(d, "token"))'
    BY <1>3, <2>6 DEF TokenShape
  <2> QED
    BY <2>9, <2>10, <2>11, <2>12, <2>13 DEF TokenShape
<1>8. /\ session[c] = "none"
      /\ \A s \in Call :
           /\ session'[s] = "none" <=> (session[s] = "none" /\ ~(s = c /\ Wrote(c, "session")))
           /\ session[s] = "revoked" => session'[s] = "revoked"
           /\ s \in call[c].locked => session'[s] = "revoked"
  <2>1. session[c] = "none" /\ c \notin call[c].locked
    BY <1>1 DEF SessionShape, Committed
  <2>2. \A s \in call[c].locked : session[s] # "none"
    BY DEF SessionShape, TypeOK, Called
  <2> QED
    BY <1>1, <2>1, <2>2 DEF SessionAfter, Wrote
<1>9. SessionShape'
  <2>1. (\A s \in Call : session[s] # "none" <=> Committed(s, "session"))'
    <3>1. \A s \in Call : Committed(s, "session")' <=>
                            Committed(s, "session") \/ (s = c /\ Wrote(c, "session"))
      BY <1>3
    <3>2. \A s \in Call : session'[s] # "none" <=>
                            session[s] # "none" \/ (s = c /\ Wrote(c, "session"))
      BY <1>8
    <3> QED
      BY <3>1, <3>2 DEF SessionShape
  <2>2. (\A d, s \in Call : s \in call[d].locked => session[s] # "none")'
    <3>1. ASSUME NEW d \in Call, NEW s \in Call, s \in call'[d].locked PROVE session'[s] # "none"
      <4>1. d # c /\ s \in call[d].locked
        BY <1>2, <3>1
      <4>2. session[s] # "none"
        BY <4>1 DEF SessionShape
      <4> QED
        BY <1>8, <4>2
    <3> QED
      BY <3>1
  <2> QED
    BY <2>1, <2>2 DEF SessionShape
<1>10. RevokesPrior'
  <2>1. \A d, s \in Call : s \in call[d].prior => s # c
    BY <1>1 DEF PriorEnded
  <2> SUFFICES ASSUME NEW d \in Call, NEW s \in Call, Wrote(d, "revoke")',
                      call'[d].op # "revokeSession", s \in call'[d].prior, session'[s] # "none"
               PROVE  IF Open(d)' THEN s \in call'[d].locked ELSE session'[s] = "revoked"
    BY DEF RevokesPrior
  <2>2. /\ Wrote(d, "revoke") /\ call[d].op # "revokeSession" /\ s \in call[d].prior
        /\ session[s] # "none"
    <3>1. call[d].op # "revokeSession" /\ s \in call[d].prior
      BY <1>2
    <3>2. s # c /\ Wrote(d, "revoke")
      BY <1>3, <2>1, <3>1
    <3> QED
      BY <1>8, <3>1, <3>2
  <2>3. IF Open(d) THEN s \in call[d].locked ELSE session[s] = "revoked"
    BY <2>2 DEF RevokesPrior
  <2>4. CASE d = c
    <3>1. ~Open(d)' /\ s \in call[c].locked
      BY <1>1, <1>3, <2>3, <2>4
    <3> QED
      BY <1>8, <3>1
  <2>5. CASE d # c
    <3>1. call'[d] = call[d] /\ (Open(d)' <=> Open(d))
      BY <1>2, <1>3, <2>5
    <3>2. session[s] = "revoked" => session'[s] = "revoked"
      BY <1>8
    <3> QED
      BY <2>3, <3>1, <3>2
  <2> QED
    BY <2>4, <2>5
<1>11. SeesDeactivation'
  <2>1. \A s \in Call : c \notin call[s].prior
    BY <1>1 DEF PriorEnded
  <2> QED
    BY <1>2, <1>3, <2>1 DEF SeesDeactivation
<1>12. PasswordHeld'
  <2>1. \A s \in Call : c \notin call[s].prior
    BY <1>1 DEF PriorEnded
  <2>2. CASE Wrote(c, "user")
    <3>1. \A s \in Call : ~Wrote(s, "session")
      BY <1>1, <2>2 DEF AccountShape
    <3> QED
      BY <1>3, <3>1 DEF PasswordHeld
  <2>3. CASE Wrote(c, "password")
    BY <1>2, <1>3, <2>1, <2>3 DEF PasswordHeld
  <2>4. CASE ~Wrote(c, "user") /\ ~Wrote(c, "password")
    <3>1. password' = password
      BY <1>1, <2>4 DEF Wrote
    <3> QED
      BY <1>2, <1>3, <3>1 DEF PasswordHeld
  <2> QED
    BY <2>2, <2>3, <2>4
<1> QED
  BY <1>4, <1>5, <1>6, <1>7, <1>9, <1>10, <1>11, <1>12 DEF Rest

\* The statements of the use cases, each by the lemma of its kind.
LEMMA ProgressRest == ASSUME IInv, NEW c \in Call, Progress(c) PROVE Rest'
<1>0. /\ TypeOK' /\ TypeOK /\ CallShape /\ AccountShape /\ TokenShape /\ SessionShape
      /\ RevokesPrior /\ SeesDeactivation /\ PasswordHeld
      /\ PlaceShape(call[c]) /\ WriteShape(call[c]) /\ call[c] \in Called
  BY NextTypeOK DEF IInv, Next, CallShape, TypeOK
<1>1. ASSUME NEW a, Step(c, a) PROVE a \in Called /\ call'[c] = a
  BY <1>0, <1>1 DEF Step, TypeOK
<1>3. ASSUME NEW answer, Return(c, answer), call[c].wrote = {}, Open(c), call[c].locked = {},
             UNCHANGED Tables
      PROVE  Rest'
  <2> DEFINE a == [call[c] EXCEPT !.pc = "commit", !.answer = answer]
  <2>1. Step(c, a) /\ a \in Called
    BY <1>1, <1>3 DEF Return
  <2>2. /\ a.pc = "commit" /\ a.op = call[c].op /\ a.with = call[c].with
        /\ a.prior = call[c].prior /\ a.wrote = {} /\ a.locked = {}
    BY <1>0, <1>3 DEF Called
  <2>3. PlaceShape(a) /\ WriteShape(a)
    BY <2>2 DEF PlaceShape, WriteShape
  <2>4. GoodUser(c, a) /\ GoodDelete(c, a) /\ GoodSession(c, a)
    BY <2>2 DEF GoodUser, GoodDelete, GoodSession
  <2> QED
    BY <1>3, <2>1, <2>2, <2>3, <2>4, OpenStep
<1>2. CASE Find(c)
  <2>0. call[c].pc = "find" /\ call[c].wrote = {} /\ call[c].locked = {} /\ Open(c)
       /\ UNCHANGED Tables
    BY <1>0, <1>2 DEF Find, PlaceShape, Open, Unchanged, Tables
  <2>1. CASE user.stage # "absent"
    <3> DEFINE a == [call[c] EXCEPT !.pc = Found(c), !.seen = user,
                          !.answer = IF call[c].op = "register" THEN "conflict" ELSE @]
    <3>1. Step(c, a)
      BY <1>2, <2>1 DEF Find
    <3>2. a \in Called
      BY <1>1, <3>1
    <3>3. /\ a.pc = Found(c) /\ a.seen = user /\ a.op = call[c].op /\ a.with = call[c].with
          /\ a.prior = call[c].prior /\ a.wrote = {} /\ a.locked = call[c].locked
      BY <1>0, <2>0 DEF Called
    <3>4. PlaceShape(a) /\ WriteShape(a) /\ a.pc \notin {"idle", "done"} /\ a.locked = {}
      BY <1>0, <2>0, <3>3 DEF PlaceShape, WriteShape, Found, Called, Op
    <3>5. GoodUser(c, a) /\ GoodDelete(c, a)
      BY <2>1, <3>3 DEF GoodUser, GoodDelete
    <3>6. GoodSession(c, a)
      BY <1>0, <3>3, <3>4 DEF GoodSession, AccountShape, Called
    <3> QED
      BY <2>0, <3>1, <3>2, <3>3, <3>4, <3>5, <3>6, OpenStep
  <2>2. ASSUME user.stage = "absent", NEW answer, Return(c, answer) PROVE Rest'
    BY <1>0, <1>3, <2>0, <2>2
  <2>3. CASE user.stage = "absent" /\ call[c].op = "register"
    <3> DEFINE a == [call[c] EXCEPT !.pc = "insert"]
    <3>1. Step(c, a)
      BY <1>2, <2>3 DEF Find
    <3>2. a \in Called
      BY <1>1, <3>1
    <3>3. /\ a.pc = "insert" /\ a.seen = call[c].seen /\ a.op = call[c].op /\ a.with = call[c].with
          /\ a.prior = call[c].prior /\ a.wrote = {} /\ a.locked = call[c].locked
      BY <1>0, <2>0 DEF Called
    <3>4. PlaceShape(a) /\ WriteShape(a) /\ a.pc \notin {"idle", "done"} /\ a.locked = {}
      BY <1>0, <2>0, <2>3, <3>3 DEF PlaceShape, WriteShape
    <3>5. GoodUser(c, a) /\ GoodDelete(c, a) /\ GoodSession(c, a)
      BY <3>3, <3>4 DEF GoodUser, GoodDelete, GoodSession
    <3> QED
      BY <2>0, <3>1, <3>2, <3>3, <3>4, <3>5, OpenStep
  <2> QED
    BY <1>2, <2>1, <2>2, <2>3 DEF Find
<1>4. CASE Insert(c)
  <2>0. call[c].pc = "insert" /\ call[c].op = "register" /\ call[c].wrote = {}
        /\ call[c].locked = {} /\ Open(c) /\ ~Done(c) /\ UNCHANGED Tables
    BY <1>0, <1>4 DEF Insert, PlaceShape, Open, Done, Unchanged, Tables
  <2>1. CASE user.stage = "absent"
    <3> DEFINE a == [call[c] EXCEPT !.pc = "mail", !.wrote = {"user"}]
    <3>1. Step(c, a) /\ a \in Called
      BY <1>1, <1>4, <2>1 DEF Insert
    <3>2. /\ a.pc = "mail" /\ a.op = call[c].op /\ a.with = call[c].with
          /\ a.prior = call[c].prior /\ a.wrote = {"user"} /\ a.locked = {}
      BY <1>0, <2>0 DEF Called
    <3>3. PlaceShape(a) /\ WriteShape(a)
      BY <2>0, <3>2 DEF PlaceShape, WriteShape
    <3>4. \A d \in Call : ~Wrote(d, "user")
      <4>1. \A d \in Call : Done(d) => ~Wrote(d, "user")
        BY <1>0, <2>1 DEF AccountShape, Committed, Wrote
      <4>2. \A d \in Call : ~Done(d) => ~Wrote(d, "user")
        BY <1>0, <1>4, <2>0 DEF Insert, Insertable, Open, Done, CallShape, PlaceShape, Wrote
      <4> QED
        BY <4>1, <4>2
    <3>5. GoodUser(c, a) /\ GoodDelete(c, a) /\ GoodSession(c, a)
      BY <2>1, <3>2, <3>4 DEF GoodUser, GoodDelete, GoodSession
    <3> QED
      BY <2>0, <3>1, <3>2, <3>3, <3>5, OpenStep
  <2>2. CASE user.stage # "absent"
    <3>1. Step(c, Thrown(c)) /\ Thrown(c) \in Called
      BY <1>1, <1>4, <2>2 DEF Insert
    <3> QED
      BY <1>0, <2>0, <3>1, ThrownShape, EmptyStep
  <2> QED
    BY <2>1, <2>2
<1>5. CASE Mail(c)
  <2> DEFINE a == [call[c] EXCEPT !.pc = "commit", !.wrote = call[c].wrote \cup {"token"},
                                  !.answer = "accepted"]
  <2>0. call[c].pc = "mail" /\ call[c].locked = {} /\ Open(c) /\ UNCHANGED Tables
    BY <1>0, <1>5 DEF Mail, PlaceShape, Open, Tables
  <2>1. Step(c, a) /\ a \in Called
    BY <1>1, <1>5 DEF Mail
  <2>2. /\ a.pc = "commit" /\ a.op = call[c].op /\ a.with = call[c].with
        /\ a.prior = call[c].prior /\ a.wrote = call[c].wrote \cup {"token"} /\ a.locked = {}
    BY <1>0, <2>0 DEF Called
  <2>3. /\ "delete" \notin call[c].wrote /\ "mark" \notin call[c].wrote
        /\ "session" \notin call[c].wrote /\ "password" \notin call[c].wrote
        /\ "revoke" \notin call[c].wrote
    BY <1>0, <2>0 DEF WriteShape
  <2>4. PlaceShape(a) /\ WriteShape(a)
    BY <1>0, <2>2, <2>3 DEF PlaceShape, WriteShape
  <2>5. GoodUser(c, a) /\ GoodDelete(c, a) /\ GoodSession(c, a)
    BY <2>2, <2>3 DEF GoodUser, GoodDelete, GoodSession, Wrote
  <2> QED
    BY <2>0, <2>1, <2>2, <2>4, <2>5, OpenStep
<1>6. CASE Check(c)
  <2>0. call[c].pc = "check" /\ call[c].op = "signIn" /\ call[c].wrote = {}
        /\ call[c].locked = {} /\ Open(c) /\ UNCHANGED Tables
    BY <1>0, <1>6 DEF Check, PlaceShape, Open, Unchanged, Tables
  <2>1. CASE /\ call[c].with = password /\ call[c].seen.stage = "active"
             /\ Step(c, [call[c] EXCEPT !.pc = "commit", !.wrote = {"session"},
                                        !.answer = "accepted"])
    <3> DEFINE a == [call[c] EXCEPT !.pc = "commit", !.wrote = {"session"}, !.answer = "accepted"]
    <3>1. Step(c, a) /\ a \in Called
      BY <1>1, <2>1
    <3>2. /\ a.pc = "commit" /\ a.op = call[c].op /\ a.with = call[c].with
          /\ a.prior = call[c].prior /\ a.wrote = {"session"} /\ a.locked = {}
      BY <1>0, <2>0 DEF Called
    <3>3. PlaceShape(a) /\ WriteShape(a)
      BY <2>0, <3>2 DEF PlaceShape, WriteShape
    <3>4. GoodUser(c, a) /\ GoodDelete(c, a)
      BY <1>0, <2>0, <3>2 DEF GoodUser, GoodDelete, AccountShape
    <3>5. \A d \in Call : d \in call[c].prior => ~Committed(d, "mark")
      BY <1>0, <2>0, <2>1 DEF SeesDeactivation
    <3>6. GoodSession(c, a)
      BY <1>0, <2>1, <3>2, <3>5 DEF GoodSession, Called
    <3> QED
      BY <2>0, <3>1, <3>2, <3>3, <3>4, <3>6, OpenStep
  <2>2. ASSUME NEW answer, Return(c, answer) PROVE Rest'
    BY <1>3, <2>0, <2>2
  <2> QED
    BY <1>6, <2>1, <2>2 DEF Check
<1>7. CASE Consume(c)
  <2>0. call[c].pc = "consume" /\ call[c].op \in {"verifyEmail", "resetPassword"}
        /\ call[c].wrote = {} /\ call[c].locked = {} /\ Open(c) /\ UNCHANGED Tables
    BY <1>0, <1>7 DEF Consume, PlaceShape, Open, Unchanged, Tables
  <2>1. ASSUME NEW a, Step(c, a), Redeemable(c), ~TokenLocked(c),
               a.op = call[c].op, a.with = call[c].with, a.prior = call[c].prior,
               a.wrote = {"delete"}, a.locked = {},
               \/ a.pc = "update" /\ a.op = "verifyEmail" /\ Fits(c)
               \/ a.pc = "password" /\ a.op = "resetPassword" /\ Fits(c)
               \/ a.pc = "commit"
        PROVE  Rest'
    <3>1. a \in Called
      BY <1>1, <2>1
    <3>2. call[c].with \in Secret /\ token[call[c].with].stage = "stored"
      BY <1>0, <2>1 DEF Redeemable, Called
    <3>3. PlaceShape(a) /\ WriteShape(a)
      BY <2>0, <2>1, <3>2 DEF PlaceShape, WriteShape
    <3>4. \A d \in Call : Wrote(d, "delete") => call[d].with # call[c].with
      <4>1. \A d \in Call : Done(d) /\ Wrote(d, "delete") => call[d].with # call[c].with
        BY <1>0, <3>2 DEF TokenShape, Committed, Wrote
      <4>2. \A d \in Call : ~Done(d) /\ Wrote(d, "delete") => Open(d) /\ d # c
        BY <1>0, <2>0 DEF Open, Done, CallShape, PlaceShape, Wrote
      <4>3. \A d \in Call : Open(d) /\ d # c /\ Wrote(d, "delete") => call[d].with # call[c].with
        BY <2>1 DEF TokenLocked, Wrote
      <4> QED
        BY <4>1, <4>2, <4>3
    <3>5. GoodDelete(c, a)
      BY <2>1, <3>2, <3>4 DEF GoodDelete, Fits, FitsItsCall
    <3>6. GoodUser(c, a) /\ GoodSession(c, a)
      BY <2>1 DEF GoodUser, GoodSession
    <3> QED
      BY <2>0, <2>1, <3>1, <3>3, <3>5, <3>6, OpenStep
  <2>2. CASE ~Redeemable(c) /\ Return(c, "invalid_token")
    BY <1>3, <2>0, <2>2
  <2>3. CASE /\ Redeemable(c) /\ ~TokenLocked(c) /\ Fits(c)
             /\ Step(c, [call[c] EXCEPT !.wrote = {"delete"},
                                        !.pc = IF call[c].op = "verifyEmail" THEN "update"
                                                                            ELSE "password"])
    <3> DEFINE a == [call[c] EXCEPT !.wrote = {"delete"},
                                    !.pc = IF call[c].op = "verifyEmail" THEN "update"
                                                                        ELSE "password"]
    <3>1. /\ a.op = call[c].op /\ a.with = call[c].with /\ a.prior = call[c].prior
          /\ a.wrote = {"delete"} /\ a.locked = {}
          /\ a.pc = IF call[c].op = "verifyEmail" THEN "update" ELSE "password"
      BY <1>0, <2>0 DEF Called
    <3> HIDE DEF a
    <3> QED
      BY <2>0, <2>1, <2>3, <3>1 DEF a
  <2>4. CASE /\ Redeemable(c) /\ ~TokenLocked(c)
             /\ Step(c, [call[c] EXCEPT !.wrote = {"delete"}, !.pc = "commit",
                                        !.answer = "invalid_token"])
    <3> DEFINE a == [call[c] EXCEPT !.wrote = {"delete"}, !.pc = "commit",
                                    !.answer = "invalid_token"]
    <3>1. /\ a.op = call[c].op /\ a.with = call[c].with /\ a.prior = call[c].prior
          /\ a.wrote = {"delete"} /\ a.locked = {} /\ a.pc = "commit"
      BY <1>0, <2>0 DEF Called
    <3> HIDE DEF a
    <3> QED
      BY <2>1, <2>4, <3>1 DEF a
  <2> QED
    BY <1>7, <2>2, <2>3, <2>4 DEF Consume
<1>8. CASE Update(c)
  <2> DEFINE a == [call[c] EXCEPT !.wrote = call[c].wrote \cup {"verified"}, !.pc = "commit",
                                  !.answer = "accepted"]
  <2>0. call[c].pc = "update" /\ call[c].op = "verifyEmail" /\ "delete" \in call[c].wrote
        /\ call[c].locked = {} /\ Open(c) /\ UNCHANGED Tables
    BY <1>0, <1>8 DEF Update, PlaceShape, Open, Unchanged, Tables
  <2>1. Step(c, a) /\ a \in Called
    BY <1>1, <1>8 DEF Update
  <2>2. /\ a.pc = "commit" /\ a.op = call[c].op /\ a.with = call[c].with
        /\ a.prior = call[c].prior /\ a.wrote = call[c].wrote \cup {"verified"} /\ a.locked = {}
    BY <1>0, <2>0 DEF Called
  <2>3. /\ "user" \notin call[c].wrote /\ "mark" \notin call[c].wrote
        /\ "session" \notin call[c].wrote /\ "password" \notin call[c].wrote
        /\ "revoke" \notin call[c].wrote /\ "token" \notin call[c].wrote
        /\ call[c].with \in Secret
    BY <1>0, <2>0 DEF WriteShape
  <2>4. PlaceShape(a) /\ WriteShape(a)
    BY <2>0, <2>2, <2>3 DEF PlaceShape, WriteShape
  <2>5. FitsItsCall(c)
    BY <1>0, <2>0 DEF TokenShape, Wrote
  <2>6. GoodUser(c, a) /\ GoodDelete(c, a) /\ GoodSession(c, a)
    BY <2>0, <2>2, <2>3, <2>5 DEF GoodUser, GoodDelete, GoodSession, Wrote
  <2> QED
    BY <2>0, <2>1, <2>2, <2>4, <2>6, OpenStep
<1>9. CASE StorePassword(c)
  <2> DEFINE a == [call[c] EXCEPT !.wrote = call[c].wrote \cup {"password"}, !.pc = "revoke"]
  <2>0. call[c].pc = "password" /\ call[c].op = "resetPassword" /\ "delete" \in call[c].wrote
        /\ call[c].locked = {} /\ Open(c) /\ UNCHANGED Tables
    BY <1>0, <1>9 DEF StorePassword, PlaceShape, Open, Unchanged, Tables
  <2>1. Step(c, a) /\ a \in Called
    BY <1>1, <1>9 DEF StorePassword
  <2>2. /\ a.pc = "revoke" /\ a.op = call[c].op /\ a.with = call[c].with
        /\ a.prior = call[c].prior /\ a.wrote = call[c].wrote \cup {"password"} /\ a.locked = {}
    BY <1>0, <2>0 DEF Called
  <2>3. /\ "user" \notin call[c].wrote /\ "mark" \notin call[c].wrote
        /\ "session" \notin call[c].wrote /\ "token" \notin call[c].wrote
        /\ "revoke" \notin call[c].wrote /\ call[c].with \in Secret
    BY <1>0, <2>0 DEF WriteShape
  <2>4. PlaceShape(a) /\ WriteShape(a)
    BY <2>0, <2>2, <2>3 DEF PlaceShape, WriteShape
  <2>5. FitsItsCall(c)
    BY <1>0, <2>0 DEF TokenShape, Wrote
  <2>6. GoodUser(c, a) /\ GoodDelete(c, a) /\ GoodSession(c, a)
    BY <2>0, <2>2, <2>3, <2>5 DEF GoodUser, GoodDelete, GoodSession, Wrote
  <2> QED
    BY <2>0, <2>1, <2>2, <2>4, <2>6, OpenStep
<1>10. CASE Mark(c)
  <2> DEFINE a == [call[c] EXCEPT !.wrote = {"mark"}, !.pc = "revoke"]
  <2>0. call[c].pc = "mark" /\ call[c].op = "deactivate" /\ call[c].wrote = {}
        /\ call[c].locked = {} /\ Open(c) /\ UNCHANGED Tables /\ user.stage # "absent"
    BY <1>0, <1>10 DEF Mark, PlaceShape, Open, Unchanged, Tables, AccountShape
  <2>1. Step(c, a) /\ a \in Called
    BY <1>1, <1>10 DEF Mark
  <2>2. /\ a.pc = "revoke" /\ a.op = call[c].op /\ a.with = call[c].with
        /\ a.prior = call[c].prior /\ a.wrote = {"mark"} /\ a.locked = {}
    BY <1>0, <2>0 DEF Called
  <2>3. PlaceShape(a) /\ WriteShape(a)
    BY <2>0, <2>2 DEF PlaceShape, WriteShape
  <2>4. GoodUser(c, a) /\ GoodDelete(c, a) /\ GoodSession(c, a)
    BY <2>0, <2>2 DEF GoodUser, GoodDelete, GoodSession
  <2> QED
    BY <2>0, <2>1, <2>2, <2>3, <2>4, OpenStep
<1>11. CASE Revoke(c)
  <2> DEFINE a == [call[c] EXCEPT !.wrote = call[c].wrote \cup {"revoke"}, !.locked = Revocable(c),
                                  !.pc = "commit", !.answer = "accepted"]
  <2>0. call[c].pc = "revoke" /\ call[c].op \in {"resetPassword", "deactivate", "revokeSession"}
        /\ Open(c) /\ UNCHANGED Tables
    BY <1>0, <1>11 DEF Revoke, PlaceShape, Open, Unchanged, Tables
  <2>1. Step(c, a) /\ a \in Called
    BY <1>1, <1>11 DEF Revoke
  <2>2. /\ a.pc = "commit" /\ a.op = call[c].op /\ a.with = call[c].with
        /\ a.prior = call[c].prior /\ a.wrote = call[c].wrote \cup {"revoke"}
        /\ a.locked = Revocable(c)
    BY <1>0 DEF Called
  <2>3. /\ "user" \notin call[c].wrote /\ "session" \notin call[c].wrote
        /\ "token" \notin call[c].wrote
        /\ "delete" \in call[c].wrote =>
             call[c].with \in Secret /\ call[c].op = "resetPassword" /\ "password" \in call[c].wrote
    BY <1>0, <2>0 DEF WriteShape, PlaceShape
  <2>4. PlaceShape(a) /\ WriteShape(a)
    BY <1>0, <2>0, <2>2, <2>3 DEF PlaceShape, WriteShape
  <2>5. "delete" \in call[c].wrote => FitsItsCall(c)
    BY <1>0, <2>3 DEF TokenShape, Wrote
  <2>6. GoodDelete(c, a)
    BY <2>2, <2>5 DEF GoodDelete, Wrote
  <2>7. GoodUser(c, a)
    BY <1>0, <2>2, <2>3 DEF GoodUser, AccountShape, Wrote
  <2>8. GoodSession(c, a)
    BY <1>0, <2>2, <2>3 DEF GoodSession, Revocable, Called
  <2> QED
    BY <2>0, <2>1, <2>2, <2>4, <2>6, <2>7, <2>8, OpenStep
<1> QED
  BY <1>2, <1>4, <1>5, <1>6, <1>7, <1>8, <1>9, <1>10, <1>11, CommitStep DEF Progress

\* The invariant is inductive.
LEMMA NextIInv == IInv /\ [Next]_vars => IInv'
<1> SUFFICES ASSUME IInv, [Next]_vars PROVE IInv'
  OBVIOUS
<1>0. TypeOK' /\ TypeOK
  BY NextTypeOK DEF IInv
<1>1. ASSUME NEW c \in Call, Limited(c) PROVE Rest'
  <2> DEFINE a == [call[c] EXCEPT !.pc = "done", !.answer = "rate_limited"]
  <2>1. call[c].pc = "idle" /\ Step(c, a) /\ UNCHANGED Tables /\ ~Done(c)
    BY <1>1 DEF Limited, Unchanged, Tables, Done
  <2>2. call[c] \in Called /\ a \in Called
    BY <1>0, <2>1 DEF TypeOK, Step
  <2>3. PlaceShape(call[c])
    BY DEF IInv, CallShape
  <2>4. /\ a.pc = "done" /\ a.wrote = {} /\ a.locked = {} /\ a.prior = call[c].prior
    BY <2>1, <2>2, <2>3 DEF PlaceShape, Called
  <2>5. PlaceShape(a)
    BY <2>4 DEF PlaceShape
  <2> QED
    BY <2>1, <2>2, <2>4, <2>5, EmptyStep
<1>2. ASSUME NEW c \in Call, Begin(c) PROVE Rest'
  <2>1. PICK op \in Op : \E with \in Presentable(op) :
          Step(c, [call[c] EXCEPT
                  !.op = op, !.with = with, !.now = clock,
                  !.pc = IF op \in {"verifyEmail", "resetPassword"} THEN "consume" ELSE "find",
                  !.prior = {d \in Call : Done(d)}])
    BY <1>2 DEF Begin
  <2>2. PICK with \in Presentable(op) :
          Step(c, [call[c] EXCEPT
                  !.op = op, !.with = with, !.now = clock,
                  !.pc = IF op \in {"verifyEmail", "resetPassword"} THEN "consume" ELSE "find",
                  !.prior = {d \in Call : Done(d)}])
    BY <2>1
  <2> DEFINE a == [call[c] EXCEPT
                  !.op = op, !.with = with, !.now = clock,
                  !.pc = IF op \in {"verifyEmail", "resetPassword"} THEN "consume" ELSE "find",
                  !.prior = {d \in Call : Done(d)}]
  <2>3. call[c].pc = "idle" /\ Step(c, a) /\ UNCHANGED Tables /\ ~Done(c)
    BY <1>2, <2>2 DEF Begin, Unchanged, Tables, Done
  <2>4. call[c] \in Called /\ a \in Called
    BY <1>0, <2>3 DEF TypeOK, Step
  <2>5. PlaceShape(call[c])
    BY DEF IInv, CallShape
  <2>6. /\ a.pc = IF op \in {"verifyEmail", "resetPassword"} THEN "consume" ELSE "find"
        /\ a.op = op /\ a.wrote = {} /\ a.locked = {} /\ a.prior = {d \in Call : Done(d)}
    BY <2>3, <2>4, <2>5 DEF PlaceShape, Called
  <2>7. PlaceShape(a)
    BY <2>6 DEF PlaceShape
  <2> QED
    BY <2>3, <2>4, <2>6, <2>7, EmptyStep
<1>3. ASSUME NEW c \in Call, Abort(c) PROVE Rest'
  <2>1. Step(c, Thrown(c)) /\ UNCHANGED Tables /\ ~Done(c)
    BY <1>3 DEF Abort, Unchanged, Tables, Open, Done
  <2>2. call[c] \in Called /\ Thrown(c) \in Called
    BY <1>0, <2>1 DEF TypeOK, Step
  <2> QED
    BY <2>1, <2>2, ThrownShape, EmptyStep
<1>4. ASSUME UNCHANGED <<user, password, token, session, call>> PROVE Rest'
  <2>1. user' = user /\ password' = password /\ token' = token /\ session' = session /\ call' = call
    BY <1>4
  <2>2. CallShape' /\ PriorEnded' /\ AccountShape' /\ SessionShape'
    BY <2>1 DEF IInv, CallShape, PriorEnded, AccountShape, SessionShape, Wrote, Committed, Open, Done
  <2>3. TokenShape'
    BY <2>1 DEF IInv, TokenShape, Wrote, Committed, Open, Done, FitsItsCall
  <2>4. RevokesPrior' /\ SeesDeactivation' /\ PasswordHeld'
    BY <2>1 DEF IInv, RevokesPrior, SeesDeactivation, PasswordHeld, Wrote, Committed, Open, Done
  <2> QED
    BY <2>2, <2>3, <2>4 DEF Rest
<1>5. ASSUME NEW c \in Call, Progress(c) PROVE Rest'
  BY <1>5, ProgressRest
<1>6. ASSUME Tick \/ UNCHANGED vars PROVE Rest'
  BY <1>4, <1>6 DEF Tick, vars
<1>7. Rest'
  BY <1>1, <1>2, <1>3, <1>5, <1>6 DEF Next
<1> QED
  BY <1>0, <1>7 DEF IInv, Rest

\* The invariant holds in every reachable state.
LEMMA InvariantHolds == Spec => []IInv
<1> QED
  BY InitIInv, NextIInv, PTL DEF Spec
-----------------------------------------------------------------------------
(* Theorems *)

\* The types hold, and one account is made for an address however registrations
\* overlap (register over users.email).
THEOREM AccountSafe == Spec => []AccountInv
<1>1. IInv => AccountInv
  BY DEF IInv, AccountInv, OneAccount, AccountShape, Committed, Wrote
<1> QED
  BY <1>1, InvariantHolds, PTL

\* A token is good for one thing once (consumeToken).
THEOREM TokenSpent == Spec => []TokenSpentOnce
<1>1. IInv => TokenSpentOnce
  BY DEF IInv, TokenShape, TokenSpentOnce, Committed, Wrote, FitsItsCall
<1> QED
  BY <1>1, InvariantHolds, PTL

\* What a reset and a deactivation promise about sessions (resetPassword,
\* deactivate, signIn).
THEOREM SessionsCutOff == Spec => []CutOff
<1>1. IInv => CutOff
  <2> SUFFICES ASSUME IInv, NEW s \in Call, session[s] = "live"
               PROVE  /\ \A c \in Call :
                           /\ Committed(c, "mark") => Overlap(s, c)
                           /\ Committed(c, "password") => Overlap(s, c) \/ c \in call[s].prior
                      /\ (\A c \in Call : Committed(c, "password") => ~Overlap(s, c))
                           => call[s].with = password
    BY DEF CutOff
  <2>1. Committed(s, "session") /\ Wrote(s, "session") /\ call[s].op = "signIn"
    BY DEF IInv, SessionShape, Committed, Wrote, CallShape, WriteShape
  <2>2. ASSUME NEW c \in Call, Committed(c, "mark") \/ Committed(c, "password")
        PROVE  s \notin call[c].prior
    <3>1. Wrote(c, "revoke") /\ ~Open(c) /\ call[c].op # "revokeSession"
      BY <2>2 DEF IInv, CallShape, WriteShape, Committed, Wrote, Open, Done
    <3> QED
      BY <3>1 DEF IInv, RevokesPrior
  <2>3. ASSUME NEW c \in Call, Committed(c, "mark") PROVE c \notin call[s].prior
    BY <2>1, <2>3 DEF IInv, SeesDeactivation
  <2>4. (\A c \in Call : Committed(c, "password") => ~Overlap(s, c)) => call[s].with = password
    BY <2>1, <2>2 DEF IInv, PasswordHeld, Overlap
  <2> QED
    BY <2>2, <2>3, <2>4 DEF Overlap
<1> QED
  BY <1>1, InvariantHolds, PTL
-----------------------------------------------------------------------------
(***************************************************************************)
(* The refinement of Account.  A transaction is atomic for two reasons: at *)
(* each place it has written a known set of rows, so the set it commits is *)
(* that of one use case; and what it has read on the way (the account is   *)
(* there, the address is verified) cannot be undone by anybody.            *)
(***************************************************************************)

\* What a call has written at each place: all of a use case at its end.
WholeShape(k) ==
  /\ k.pc = "mail" => k.wrote = IF k.op = "register" THEN {"user"} ELSE {}
  /\ k.pc \in {"update", "password"} => k.wrote = {"delete"}
  /\ k.pc = "revoke" => k.wrote = IF k.op = "resetPassword" THEN {"delete", "password"}
                                  ELSE IF k.op = "deactivate" THEN {"mark"} ELSE {}
  /\ k.pc = "commit" =>
       \/ k.wrote \in {{}, {"delete"}}
       \/ k.op = "register" /\ k.wrote = {"user", "token"}
       \/ k.op = "requestPasswordReset" /\ k.wrote = {"token"}
       \/ k.op = "signIn" /\ k.wrote = {"session"}
       \/ k.op = "verifyEmail" /\ k.wrote = {"delete", "verified"}
       \/ k.op = "resetPassword" /\ k.wrote = {"delete", "password", "revoke"}
       \/ k.op = "deactivate" /\ k.wrote = {"mark", "revoke"}
       \/ k.op = "revokeSession" /\ k.wrote = {"revoke"}
  /\ k.locked # {} => "revoke" \in k.wrote
  /\ k.op = "revokeSession" => k.locked \subseteq {k.with}

CallsWhole == \A c \in Call : WholeShape(call[c])

\* An account that is not there has no token, and what a call has found of the
\* account is so for good.
FoundForGood(k) ==
  /\ k.op = "requestPasswordReset" /\ (k.pc = "mail" \/ (k.pc = "commit" /\ k.wrote # {}))
       => user.stage # "absent"
  /\ k.seen.verified => user.verified
  /\ k.pc = "commit" /\ "session" \in k.wrote => user.verified

CallsFound == \A c \in Call : FoundForGood(call[c])

AbsentIsEmpty ==
  user.stage = "absent" => ~user.verified /\ \A t \in Secret : token[t].stage = "unissued"

WholeInv == CallsWhole /\ CallsFound /\ AbsentIsEmpty

LEMMA InitWhole == Init => WholeInv
<1> SUFFICES ASSUME Init PROVE WholeInv
  OBVIOUS
<1>1. CallsWhole
  BY DEF Init, CallsWhole, WholeShape
<1>2. CallsFound
  BY DEF Init, CallsFound, FoundForGood, NoUser
<1>3. AbsentIsEmpty
  BY DEF Init, AbsentIsEmpty, NoUser
<1> QED
  BY <1>1, <1>2, <1>3 DEF WholeInv

\* An account stays, and so does its being verified or deactivated.
LEMMA UserGoesForward ==
  ASSUME IInv, Next
  PROVE  /\ user.stage # "absent" => user'.stage # "absent"
         /\ user.verified => user'.verified
<1>1. ASSUME NEW c \in Call, Commit(c)
      PROVE  /\ user.stage # "absent" => user'.stage # "absent"
             /\ user.verified => user'.verified
  BY <1>1 DEF Commit, UserAfter
<1>2. ASSUME NEW c \in Call, Limited(c) \/ Begin(c) \/ Progress(c) \/ Abort(c)
      PROVE  Commit(c) \/ user' = user
  BY <1>2 DEF Limited, Begin, Progress, Abort, Find, Insert, Mail, Check, Consume, Update,
     StorePassword, Mark, Revoke, Unchanged
<1> QED
  BY <1>1, <1>2 DEF Next, Tick

\* A step that changes the record of one call and no table.
LEMMA WholeStep ==
  ASSUME IInv, WholeInv, NEW c \in Call, NEW a, Step(c, a), UNCHANGED Tables,
         WholeShape(a), FoundForGood(a)
  PROVE  WholeInv'
<1>1. /\ call'[c] = a
      /\ \A d \in Call : d # c => call'[d] = call[d]
      /\ user' = user /\ token' = token
  BY DEF IInv, TypeOK, Step, Tables
<1>2. CallsWhole'
  BY <1>1 DEF WholeInv, CallsWhole
<1>3. CallsFound'
  BY <1>1 DEF WholeInv, CallsFound, FoundForGood
<1>4. AbsentIsEmpty'
  BY <1>1 DEF WholeInv, AbsentIsEmpty
<1> QED
  BY <1>2, <1>3, <1>4 DEF WholeInv

\* A call that ends without effect.
LEMMA ThrownWhole ==
  ASSUME IInv, WholeInv, NEW c \in Call, Step(c, Thrown(c)), UNCHANGED Tables
  PROVE  WholeInv'
<1> DEFINE a == Thrown(c)
<1>1. call[c] \in Called
  BY DEF IInv, TypeOK
<1>2. a.pc = "done" /\ a.wrote = {} /\ a.locked = {} /\ a.seen = NoUser
  BY <1>1 DEF Thrown, Ended, Called
<1>3. WholeShape(a) /\ FoundForGood(a)
  BY <1>2 DEF WholeShape, FoundForGood, NoUser
<1> QED
  BY <1>3, WholeStep

\* Every statement of a call keeps the invariant.
LEMMA StatementWhole ==
  ASSUME IInv, WholeInv, NEW c \in Call,
         Find(c) \/ Insert(c) \/ Mail(c) \/ Check(c) \/ Consume(c) \/ Update(c)
           \/ StorePassword(c) \/ Mark(c) \/ Revoke(c)
  PROVE  WholeInv'
<1> DEFINE k == call[c]
<1>0. /\ k \in Called /\ PlaceShape(k) /\ WriteShape(k) /\ WholeShape(k) /\ FoundForGood(k)
      /\ user.verified => user.stage # "absent"
  BY DEF IInv, TypeOK, CallShape, WholeInv, CallsWhole, CallsFound, AbsentIsEmpty
<1>1. UNCHANGED Tables
  BY DEF Find, Insert, Mail, Check, Consume, Update, StorePassword, Mark, Revoke, Unchanged, Tables
<1>2. ASSUME NEW answer, Return(c, answer), k.wrote = {}, k.locked = {} PROVE WholeInv'
  <2> DEFINE a == [k EXCEPT !.pc = "commit", !.answer = answer]
  <2>1. Step(c, a)
    BY <1>2 DEF Return
  <2>2. a.pc = "commit" /\ a.wrote = {} /\ a.locked = {} /\ a.seen = k.seen
    BY <1>0, <1>2 DEF Called
  <2>3. WholeShape(a) /\ FoundForGood(a)
    BY <1>0, <2>2 DEF WholeShape, FoundForGood
  <2> QED
    BY <1>1, <2>1, <2>3, WholeStep
<1>3. CASE Find(c)
  <2>0. k.pc = "find" /\ k.wrote = {} /\ k.locked = {}
    BY <1>0, <1>3 DEF Find, PlaceShape
  <2>1. CASE user.stage # "absent"
    <3> DEFINE a == [k EXCEPT !.pc = Found(c), !.seen = user,
                              !.answer = IF k.op = "register" THEN "conflict" ELSE @]
    <3>1. Step(c, a)
      BY <1>3, <2>1 DEF Find
    <3>2. a.pc = Found(c) /\ a.op = k.op /\ a.wrote = {} /\ a.locked = {} /\ a.seen = user
      BY <1>0, <2>0 DEF Called
    <3>3. WholeShape(a) /\ FoundForGood(a)
      BY <1>0, <2>0, <2>1, <3>2 DEF WholeShape, FoundForGood, Found, PlaceShape, Called, Op
    <3> QED
      BY <1>1, <3>1, <3>3, WholeStep
  <2>2. CASE user.stage = "absent" /\ Step(c, [k EXCEPT !.pc = "insert"])
    <3> DEFINE a == [k EXCEPT !.pc = "insert"]
    <3>1. a.pc = "insert" /\ a.wrote = {} /\ a.locked = {} /\ a.seen = k.seen
      BY <1>0, <2>0 DEF Called
    <3>2. WholeShape(a) /\ FoundForGood(a)
      BY <1>0, <3>1 DEF WholeShape, FoundForGood
    <3> QED
      BY <1>1, <2>2, <3>2, WholeStep
  <2> QED
    BY <1>2, <1>3, <2>0, <2>1, <2>2 DEF Find
<1>4. CASE Insert(c)
  <2>0. k.pc = "insert" /\ k.op = "register" /\ k.wrote = {} /\ k.locked = {}
    BY <1>0, <1>4 DEF Insert, PlaceShape
  <2>1. CASE Step(c, [k EXCEPT !.pc = "mail", !.wrote = {"user"}])
    <3> DEFINE a == [k EXCEPT !.pc = "mail", !.wrote = {"user"}]
    <3>1. a.pc = "mail" /\ a.op = "register" /\ a.wrote = {"user"} /\ a.locked = {}
          /\ a.seen = k.seen
      BY <1>0, <2>0 DEF Called
    <3>2. WholeShape(a) /\ FoundForGood(a)
      BY <1>0, <3>1 DEF WholeShape, FoundForGood
    <3> QED
      BY <1>1, <2>1, <3>2, WholeStep
  <2>2. CASE Step(c, Thrown(c))
    BY <1>0, <1>1, <2>2, ThrownWhole
  <2> QED
    BY <1>4, <2>1, <2>2 DEF Insert
<1>5. CASE Mail(c)
  <2> DEFINE a == [k EXCEPT !.pc = "commit", !.wrote = k.wrote \cup {"token"},
                            !.answer = "accepted"]
  <2>0. k.pc = "mail" /\ k.op \in {"register", "requestPasswordReset"} /\ k.locked = {}
        /\ Step(c, a)
    BY <1>0, <1>5 DEF Mail, PlaceShape
  <2>1. a.pc = "commit" /\ a.op = k.op /\ a.wrote = k.wrote \cup {"token"} /\ a.locked = {}
        /\ a.seen = k.seen
    BY <1>0, <2>0 DEF Called
  <2>2. WholeShape(a)
    BY <1>0, <2>0, <2>1 DEF WholeShape
  <2> HIDE DEF a
  <2>3. "session" \notin a.wrote
    BY <1>0, <2>0, <2>1 DEF WriteShape
  <2>4. FoundForGood(a)
    <3>1. a.op = "requestPasswordReset" => user.stage # "absent"
      BY <1>0, <2>0, <2>1 DEF FoundForGood
    <3> QED
      BY <1>0, <2>0, <2>1, <2>3, <3>1 DEF FoundForGood
  <2> QED
    BY <1>1, <2>0, <2>2, <2>4, WholeStep
<1>6. CASE Check(c)
  <2>0. k.pc = "check" /\ k.op = "signIn" /\ k.wrote = {} /\ k.locked = {}
    BY <1>0, <1>6 DEF Check, PlaceShape
  <2>1. CASE k.seen.verified /\ Step(c, [k EXCEPT !.pc = "commit", !.wrote = {"session"},
                                                  !.answer = "accepted"])
    <3> DEFINE a == [k EXCEPT !.pc = "commit", !.wrote = {"session"}, !.answer = "accepted"]
    <3>1. a.pc = "commit" /\ a.op = k.op /\ a.wrote = {"session"} /\ a.locked = {}
          /\ a.seen = k.seen
      BY <1>0, <2>0 DEF Called
    <3>2. WholeShape(a) /\ FoundForGood(a)
      BY <1>0, <2>0, <2>1, <3>1 DEF WholeShape, FoundForGood
    <3> QED
      BY <1>1, <2>1, <3>2, WholeStep
  <2> QED
    BY <1>2, <1>6, <2>0, <2>1 DEF Check
<1>7. CASE Consume(c)
  <2>0. k.pc = "consume" /\ k.op \in {"verifyEmail", "resetPassword"} /\ k.wrote = {}
        /\ k.locked = {}
    BY <1>0, <1>7 DEF Consume, PlaceShape
  <2>1. ASSUME NEW a, Step(c, a), a.wrote = {"delete"}, a.op = k.op, a.locked = {},
               a.seen = k.seen, a.pc \in {"update", "password", "commit"}
        PROVE  WholeInv'
    <3>1. WholeShape(a) /\ FoundForGood(a)
      BY <1>0, <2>0, <2>1 DEF WholeShape, FoundForGood
    <3> QED
      BY <1>1, <2>1, <3>1, WholeStep
  <2>2. CASE Step(c, [k EXCEPT !.wrote = {"delete"},
                               !.pc = IF k.op = "verifyEmail" THEN "update" ELSE "password"])
    <3> DEFINE a == [k EXCEPT !.wrote = {"delete"},
                              !.pc = IF k.op = "verifyEmail" THEN "update" ELSE "password"]
    <3>1. /\ a.wrote = {"delete"} /\ a.op = k.op /\ a.locked = {} /\ a.seen = k.seen
          /\ a.pc \in {"update", "password", "commit"}
      BY <1>0, <2>0 DEF Called
    <3> HIDE DEF a
    <3> QED
      BY <2>1, <2>2, <3>1 DEF a
  <2>3. CASE Step(c, [k EXCEPT !.wrote = {"delete"}, !.pc = "commit",
                               !.answer = "invalid_token"])
    <3> DEFINE a == [k EXCEPT !.wrote = {"delete"}, !.pc = "commit", !.answer = "invalid_token"]
    <3>1. /\ a.wrote = {"delete"} /\ a.op = k.op /\ a.locked = {} /\ a.seen = k.seen
          /\ a.pc = "commit"
      BY <1>0, <2>0 DEF Called
    <3> HIDE DEF a
    <3> QED
      BY <2>1, <2>3, <3>1 DEF a
  <2> QED
    BY <1>2, <1>7, <2>0, <2>2, <2>3 DEF Consume
<1>8. ASSUME NEW a, Step(c, a), a.op = k.op, a.with = k.with, a.seen = k.seen,
             a.pc \in {"revoke", "commit"}, k.pc \in {"update", "password", "mark", "revoke"},
             WholeShape(a)
      PROVE  WholeInv'
  <2>1. FoundForGood(a)
    <3>1. a.op # "requestPasswordReset" /\ "session" \notin a.wrote
      BY <1>0, <1>8 DEF PlaceShape, WholeShape
    <3> QED
      BY <1>0, <1>8, <3>1 DEF FoundForGood
  <2> QED
    BY <1>1, <1>8, <2>1, WholeStep
<1>9. CASE Update(c)
  <2> DEFINE a == [k EXCEPT !.wrote = k.wrote \cup {"verified"}, !.pc = "commit",
                            !.answer = "accepted"]
  <2>1. k.pc = "update" /\ k.op = "verifyEmail" /\ k.locked = {} /\ Step(c, a)
    BY <1>0, <1>9 DEF Update, PlaceShape
  <2>2. a.op = k.op /\ a.with = k.with /\ a.seen = k.seen /\ a.locked = {} /\ a.pc = "commit"
        /\ a.wrote = k.wrote \cup {"verified"}
    BY <1>0, <2>1 DEF Called
  <2>3. WholeShape(a)
    BY <1>0, <2>1, <2>2 DEF WholeShape
  <2> HIDE DEF a
  <2> QED
    BY <1>8, <2>1, <2>2, <2>3
<1>10. CASE StorePassword(c)
  <2> DEFINE a == [k EXCEPT !.wrote = k.wrote \cup {"password"}, !.pc = "revoke"]
  <2>1. k.pc = "password" /\ k.op = "resetPassword" /\ k.locked = {} /\ Step(c, a)
    BY <1>0, <1>10 DEF StorePassword, PlaceShape
  <2>2. a.op = k.op /\ a.with = k.with /\ a.seen = k.seen /\ a.locked = {} /\ a.pc = "revoke"
        /\ a.wrote = k.wrote \cup {"password"}
    BY <1>0, <2>1 DEF Called
  <2>3. WholeShape(a)
    BY <1>0, <2>1, <2>2 DEF WholeShape
  <2> HIDE DEF a
  <2> QED
    BY <1>8, <2>1, <2>2, <2>3
<1>11. CASE Mark(c)
  <2> DEFINE a == [k EXCEPT !.wrote = {"mark"}, !.pc = "revoke"]
  <2>1. k.pc = "mark" /\ k.op = "deactivate" /\ k.locked = {} /\ Step(c, a)
    BY <1>0, <1>11 DEF Mark, PlaceShape
  <2>2. a.op = k.op /\ a.with = k.with /\ a.seen = k.seen /\ a.locked = {} /\ a.pc = "revoke"
        /\ a.wrote = {"mark"}
    BY <1>0, <2>1 DEF Called
  <2>3. WholeShape(a)
    BY <1>0, <2>1, <2>2 DEF WholeShape
  <2> HIDE DEF a
  <2> QED
    BY <1>8, <2>1, <2>2, <2>3
<1>12. CASE Revoke(c)
  <2> DEFINE a == [k EXCEPT !.wrote = k.wrote \cup {"revoke"}, !.locked = Revocable(c),
                            !.pc = "commit", !.answer = "accepted"]
  <2>1. k.pc = "revoke" /\ k.op \in {"resetPassword", "deactivate", "revokeSession"} /\ Step(c, a)
    BY <1>0, <1>12 DEF Revoke, PlaceShape
  <2>2. a.op = k.op /\ a.with = k.with /\ a.seen = k.seen /\ a.locked = Revocable(c)
        /\ a.pc = "commit" /\ a.wrote = k.wrote \cup {"revoke"}
    BY <1>0, <2>1 DEF Called
  <2>3. k.op = "revokeSession" => Revocable(c) \subseteq {k.with}
    BY DEF Revocable
  <2>4. WholeShape(a)
    BY <1>0, <2>1, <2>2, <2>3 DEF WholeShape
  <2> HIDE DEF a
  <2> QED
    BY <1>8, <2>1, <2>2, <2>4
<1> QED
  BY <1>3, <1>4, <1>5, <1>6, <1>7, <1>9, <1>10, <1>11, <1>12
\* COMMIT, too: the rows of an account appear with the account.
LEMMA CommitWhole == ASSUME IInv, WholeInv, NEW c \in Call, Commit(c) PROVE WholeInv'
<1> DEFINE k == call[c]
<1>0. /\ k \in Called /\ WriteShape(k) /\ WholeShape(k) /\ FoundForGood(k) /\ k.pc = "commit"
      /\ TypeOK /\ AccountShape /\ TokenShape /\ Open(c) /\ c \in Secret
      /\ CallsWhole /\ CallsFound /\ AbsentIsEmpty
  BY DEF IInv, TypeOK, CallShape, WholeInv, CallsWhole, CallsFound, Commit, Open, Secret
<1>1. /\ call'[c].pc = "done" /\ call'[c].locked = {} /\ call'[c].seen = NoUser
      /\ \A d \in Call : d # c => call'[d] = call[d]
  <2>1. PICK reply \in {k.answer, "error"} : call' = [call EXCEPT ![c] = Ended(c, reply)]
    BY DEF Commit, Step
  <2>2. call'[c] = Ended(c, reply) /\ \A d \in Call : d # c => call'[d] = call[d]
    BY <1>0, <2>1 DEF TypeOK
  <2> QED
    BY <1>0, <2>2 DEF Ended, Called
<1>2. CallsWhole'
  BY <1>0, <1>1 DEF CallsWhole, WholeShape
<1>3. CallsFound'
  <2>1. /\ user.stage # "absent" => user'.stage # "absent"
        /\ user.verified => user'.verified
    BY UserGoesForward DEF Next, Progress
  <2> QED
    BY <1>0, <1>1, <2>1 DEF CallsFound, FoundForGood, NoUser
<1>4. AbsentIsEmpty'
  <2> SUFFICES ASSUME user'.stage = "absent"
               PROVE  ~user'.verified /\ \A t \in Secret : token'[t].stage = "unissued"
    BY DEF AbsentIsEmpty
  <2>1. user' = UserAfter(c) /\ token' = TokenAfter(c)
    BY DEF Commit
  <2>2. user.stage = "absent" /\ "user" \notin k.wrote
    BY <2>1 DEF UserAfter
  <2>3. "delete" \notin k.wrote
    BY <1>0, <2>2 DEF AbsentIsEmpty, TokenShape, WriteShape, Wrote
  <2>4. "token" \notin k.wrote /\ "verified" \notin k.wrote
    BY <1>0, <2>2, <2>3 DEF WholeShape, FoundForGood
  <2> QED
    BY <1>0, <2>1, <2>2, <2>3, <2>4 DEF AbsentIsEmpty, UserAfter, TokenAfter
<1> QED
  BY <1>2, <1>3, <1>4 DEF WholeInv

LEMMA NextWhole == IInv /\ WholeInv /\ [Next]_vars => WholeInv'
<1> SUFFICES ASSUME IInv, WholeInv, [Next]_vars PROVE WholeInv'
  OBVIOUS
<1>1. ASSUME NEW c \in Call, Limited(c) PROVE WholeInv'
  <2> DEFINE a == [call[c] EXCEPT !.pc = "done", !.answer = "rate_limited"]
  <2>1. call[c] \in Called /\ WholeShape(call[c]) /\ FoundForGood(call[c]) /\ Step(c, a)
        /\ UNCHANGED Tables
    BY <1>1 DEF IInv, TypeOK, WholeInv, CallsWhole, CallsFound, Limited, Unchanged, Tables
  <2>2. a.pc = "done" /\ a.wrote = call[c].wrote /\ a.locked = call[c].locked
        /\ a.seen = call[c].seen /\ a.op = call[c].op /\ a.with = call[c].with
    BY <2>1 DEF Called
  <2>3. WholeShape(a) /\ FoundForGood(a)
    BY <2>1, <2>2 DEF WholeShape, FoundForGood
  <2> QED
    BY <2>1, <2>3, WholeStep
<1>2. ASSUME NEW c \in Call, Begin(c) PROVE WholeInv'
  <2>0. PICK op \in Op : \E with \in Presentable(op) :
          Step(c, [call[c] EXCEPT
                  !.op = op, !.with = with, !.now = clock,
                  !.pc = IF op \in {"verifyEmail", "resetPassword"} THEN "consume" ELSE "find",
                  !.prior = {d \in Call : Done(d)}])
    BY <1>2 DEF Begin
  <2>1. PICK with \in Presentable(op) :
          Step(c, [call[c] EXCEPT
                  !.op = op, !.with = with, !.now = clock,
                  !.pc = IF op \in {"verifyEmail", "resetPassword"} THEN "consume" ELSE "find",
                  !.prior = {d \in Call : Done(d)}])
    BY <2>0
  <2> DEFINE a == [call[c] EXCEPT
                  !.op = op, !.with = with, !.now = clock,
                  !.pc = IF op \in {"verifyEmail", "resetPassword"} THEN "consume" ELSE "find",
                  !.prior = {d \in Call : Done(d)}]
  <2>2. /\ call[c] \in Called /\ PlaceShape(call[c]) /\ FoundForGood(call[c])
        /\ call[c].pc = "idle" /\ UNCHANGED Tables
    BY <1>2 DEF IInv, TypeOK, CallShape, WholeInv, CallsFound, Begin, Unchanged, Tables
  <2>3. a.pc \in {"find", "consume"} /\ a.wrote = {} /\ a.locked = {} /\ a.seen = call[c].seen
    BY <2>2 DEF Called, PlaceShape
  <2>4. WholeShape(a) /\ FoundForGood(a)
    BY <2>2, <2>3 DEF WholeShape, FoundForGood
  <2> QED
    BY <2>1, <2>2, <2>4, WholeStep
<1>3. ASSUME NEW c \in Call, Abort(c) PROVE WholeInv'
  BY <1>3, ThrownWhole DEF Abort, Unchanged, Tables
<1>4. ASSUME NEW c \in Call, Progress(c) PROVE WholeInv'
  BY <1>4, StatementWhole, CommitWhole DEF Progress
<1>5. CASE UNCHANGED <<user, token, call>>
  <2>1. user' = user /\ token' = token /\ call' = call
    BY <1>5
  <2>2. CallsWhole'
    BY <2>1 DEF WholeInv, CallsWhole
  <2>3. CallsFound' /\ AbsentIsEmpty'
    BY <2>1 DEF WholeInv, CallsFound, FoundForGood, AbsentIsEmpty
  <2> QED
    BY <2>2, <2>3 DEF WholeInv
<1> QED
  BY <1>1, <1>2, <1>3, <1>4, <1>5 DEF Next, Tick, vars

LEMMA WholeHolds == Spec => [](IInv /\ WholeInv)
<1>1. Init => IInv /\ WholeInv
  BY InitIInv, InitWhole
<1>2. IInv /\ WholeInv /\ [Next]_vars => IInv' /\ WholeInv'
  BY NextIInv, NextWhole
<1> QED
  BY <1>1, <1>2, PTL DEF Spec

\* What a deleted, an issued and an untouched token look like to Account.
LEMMA TokenMap ==
  ASSUME IInv, NEW c \in Call, Commit(c)
  PROVE  LET old == [t \in Secret |-> AsIssued(t)]
             new == [t \in Secret |-> AsIssued(t)']
         IN  /\ Wrote(c, "token") =>
                  /\ old[c] = "unissued"
                  /\ new = [old EXCEPT ![c] = IF call[c].op = "register" THEN "email_verification"
                                                                         ELSE "password_reset"]
             /\ Wrote(c, "delete") =>
                  /\ call[c].with \in Secret
                  /\ old[call[c].with] = token[call[c].with].purpose
                  /\ new = [old EXCEPT ![call[c].with] = "deleted"]
             /\ ~Wrote(c, "token") /\ ~Wrote(c, "delete") => new = old
<1> DEFINE old == [t \in Secret |-> AsIssued(t)]
           new == [t \in Secret |-> AsIssued(t)']
<1>0. /\ token \in [Secret -> Token] /\ c \in Secret /\ token' = TokenAfter(c)
      /\ token[c].stage = "unissued" /\ call[c].pc = "commit" /\ WriteShape(call[c])
  BY DEF IInv, TypeOK, Commit, Secret, TokenShape, Committed, Done, CallShape
<1>1. CASE Wrote(c, "token")
  <2> DEFINE purpose == IF call[c].op = "register" THEN "email_verification" ELSE "password_reset"
  <2>1. ~Wrote(c, "delete")
    BY <1>0, <1>1 DEF WriteShape, Wrote
  <2>2. /\ token'[c].stage = "stored" /\ token'[c].purpose = purpose
        /\ \A t \in Secret : t # c => token'[t] = token[t]
    BY <1>0, <1>1 DEF TokenAfter, Wrote
  <2>3. \A t \in Secret : new[t] = [old EXCEPT ![c] = purpose][t]
    BY <1>0, <2>2 DEF AsIssued
  <2>4. new = [old EXCEPT ![c] = purpose]
    BY <2>3
  <2> QED
    BY <1>0, <1>1, <2>1, <2>4 DEF AsIssued
<1>2. CASE Wrote(c, "delete")
  <2> DEFINE w == call[c].with
  <2>1. ~Wrote(c, "token") /\ w \in Secret /\ token[w].stage = "stored"
    BY <1>0, <1>2 DEF WriteShape, Wrote, IInv, TokenShape, Open
  <2>2. /\ token'[w].stage = "deleted"
        /\ \A t \in Secret : t # w => token'[t] = token[t]
    BY <1>0, <1>2, <2>1 DEF TokenAfter, Wrote, Token
  <2>3. \A t \in Secret : new[t] = [old EXCEPT ![w] = "deleted"][t]
    BY <2>1, <2>2 DEF AsIssued
  <2>4. new = [old EXCEPT ![w] = "deleted"]
    BY <2>3
  <2> QED
    BY <1>2, <2>1, <2>4 DEF AsIssued
<1>3. CASE ~Wrote(c, "token") /\ ~Wrote(c, "delete")
  BY <1>0, <1>3 DEF TokenAfter, AsIssued, Wrote
<1> QED
  BY <1>1, <1>2, <1>3
\* Every commit is one step of the account, or changes nothing of it.
LEMMA CommitIsAtomic ==
  ASSUME IInv, WholeInv, NEW c \in Call, Commit(c)
  PROVE  [Ledger!Next]_(Ledger!vars)
<1> DEFINE k == call[c]
           old == [t \in Secret |-> AsIssued(t)]
           new == [t \in Secret |-> AsIssued(t)']
<1>0. /\ k \in Called /\ WholeShape(k) /\ FoundForGood(k) /\ k.pc = "commit"
      /\ TypeOK /\ AccountShape /\ TokenShape /\ SessionShape /\ AbsentIsEmpty
      /\ Open(c) /\ WriteShape(k) /\ user \in User
  BY DEF IInv, TypeOK, CallShape, WholeInv, CallsWhole, CallsFound, Commit, Open
<1>1. /\ user' = UserAfter(c) /\ session' = SessionAfter(c)
      /\ password' = IF k.wrote \cap {"user", "password"} # {} THEN c ELSE password
  BY DEF Commit
<1>2. /\ Wrote(c, "token") =>
           /\ old[c] = "unissued"
           /\ new = [old EXCEPT ![c] = IF k.op = "register" THEN "email_verification"
                                                           ELSE "password_reset"]
      /\ Wrote(c, "delete") =>
           /\ k.with \in Secret
           /\ old[k.with] = token[k.with].purpose
           /\ new = [old EXCEPT ![k.with] = "deleted"]
      /\ ~Wrote(c, "token") /\ ~Wrote(c, "delete") => new = old
  BY TokenMap
<1>3. Wrote(c, "delete") =>
        /\ user.stage # "absent"
        /\ token[k.with].purpose \in {"email_verification", "password_reset"}
  BY <1>0, <1>2 DEF TokenShape, AbsentIsEmpty, TypeOK, Token, Purpose
<1>4. "session" \notin k.wrote => Ledger!End(k.locked)
  BY <1>1 DEF Ledger!End, SessionAfter
<1>5. k.locked \in SUBSET Ledger!Sessions
  BY <1>0 DEF SessionShape, Ledger!Sessions, Called
<1>6. session \in [Call -> {"none", "live", "revoked"}] /\ c \in Secret
  BY <1>0 DEF TypeOK, Secret
<1>7. k.locked = {} /\ "session" \notin k.wrote => session' = session
  BY <1>1, <1>6 DEF SessionAfter
<1>8. "verified" \notin k.wrote => user'.verified = user.verified
  <2>1. user.verified \in BOOLEAN
    BY <1>0 DEF User
  <2>2. user'.verified = ("verified" \in k.wrote \/ user.verified)
    BY <1>1 DEF UserAfter
  <2> QED
    BY <2>1, <2>2
<1> HIDE DEF old, new
<1>9. CASE k.wrote = {}
  <2>1. UNCHANGED <<user.stage, user.verified, password, session>> /\ new = old
    BY <1>0, <1>1, <1>2, <1>7, <1>9, <1>8 DEF UserAfter, WholeShape, Wrote
  <2> QED
    BY <2>1 DEF Ledger!vars, old, new
<1>10. CASE k.op = "register" /\ k.wrote = {"user", "token"}
  <2>1. Ledger!Register(c)
    <3>1. user.stage = "absent" /\ user'.stage = "active" /\ user'.verified = user.verified
          /\ password' = c /\ session' = session
      BY <1>0, <1>1, <1>7, <1>10, <1>8 DEF UserAfter, AccountShape, WholeShape, Wrote
    <3>2. Ledger!Issue(c, "email_verification")
      BY <1>2, <1>10 DEF Ledger!Issue, Wrote, old, new
    <3> QED
      BY <3>1, <3>2 DEF Ledger!Register
  <2> QED
    BY <2>1 DEF Ledger!Next
<1>11. CASE k.op = "requestPasswordReset" /\ k.wrote = {"token"}
  <2>1. Ledger!RequestReset(c)
    <3>1. user.stage # "absent" /\ user'.stage = user.stage /\ user'.verified = user.verified
          /\ password' = password /\ session' = session
      BY <1>0, <1>1, <1>7, <1>11, <1>8 DEF UserAfter, FoundForGood, WholeShape
    <3>2. Ledger!Issue(c, "password_reset")
      BY <1>2, <1>11 DEF Ledger!Issue, Wrote, old, new
    <3> QED
      BY <3>1, <3>2 DEF Ledger!RequestReset
  <2> QED
    BY <2>1 DEF Ledger!Next
<1>12. CASE k.op = "signIn" /\ k.wrote = {"session"}
  <2>1. Ledger!SignIn(c)
    <3>1. user.stage # "absent" /\ user.verified /\ k.locked = {}
          /\ user'.stage = user.stage /\ user'.verified = user.verified /\ password' = password
      BY <1>0, <1>1, <1>12 DEF UserAfter, FoundForGood, WholeShape, AccountShape, Wrote, User
    <3>2. session[c] = "none" /\ session' = [session EXCEPT ![c] = "live"]
      BY <1>0, <1>1, <1>6, <1>12, <3>1 DEF SessionAfter, SessionShape, Committed, Done
    <3>3. new = old
      BY <1>2, <1>12 DEF Wrote
    <3> QED
      BY <3>1, <3>2, <3>3 DEF Ledger!SignIn, old, new
  <2> QED
    BY <2>1 DEF Ledger!Next
<1>13. CASE k.wrote = {"delete"}
  <2>1. Ledger!Discard(k.with)
    <3>1. user'.stage = user.stage /\ user'.verified = user.verified /\ password' = password
          /\ session' = session
      BY <1>0, <1>1, <1>7, <1>13, <1>8 DEF UserAfter, WholeShape
    <3>2. Ledger!Spend(k.with, token[k.with].purpose)
      BY <1>2, <1>13 DEF Ledger!Spend, Wrote, old, new
    <3> QED
      BY <1>3, <1>13, <3>1, <3>2 DEF Ledger!Discard, Wrote
  <2> QED
    BY <1>2, <1>13, <2>1 DEF Ledger!Next, Ledger!Token, Secret, Wrote
<1>14. CASE k.op = "verifyEmail" /\ k.wrote = {"delete", "verified"}
  <2>1. Ledger!Verify(k.with)
    <3>1. user.stage # "absent" /\ user'.stage = user.stage /\ user'.verified = TRUE
          /\ password' = password /\ session' = session
      BY <1>0, <1>1, <1>3, <1>7, <1>14 DEF UserAfter, WholeShape, Wrote
    <3>2. token[k.with].purpose = "email_verification"
      BY <1>0, <1>14 DEF TokenShape, FitsItsCall, Wrote
    <3>3. Ledger!Spend(k.with, "email_verification")
      BY <1>2, <1>14, <3>2 DEF Ledger!Spend, Wrote, old, new
    <3> QED
      BY <3>1, <3>3 DEF Ledger!Verify
  <2> QED
    BY <1>2, <1>14, <2>1 DEF Ledger!Next, Ledger!Token, Secret, Wrote
<1>15. CASE k.op = "resetPassword" /\ k.wrote = {"delete", "password", "revoke"}
  <2>1. Ledger!Reset(c, k.with)
    <3>1. user.stage # "absent" /\ user'.stage = user.stage /\ user'.verified = user.verified
          /\ password' = c
      BY <1>0, <1>1, <1>3, <1>15, <1>8 DEF UserAfter, Wrote
    <3>2. token[k.with].purpose = "password_reset"
      BY <1>0, <1>15 DEF TokenShape, FitsItsCall, Wrote
    <3>3. Ledger!Spend(k.with, "password_reset")
      BY <1>2, <1>15, <3>2 DEF Ledger!Spend, Wrote, old, new
    <3>4. Ledger!End(k.locked)
      BY <1>4, <1>15
    <3> QED
      BY <1>5, <3>1, <3>3, <3>4 DEF Ledger!Reset
  <2> QED
    BY <1>2, <1>15, <2>1 DEF Ledger!Next, Ledger!Token, Secret, Wrote
<1>16. CASE k.op = "deactivate" /\ k.wrote = {"mark", "revoke"}
  <2>1. Ledger!Deactivate
    <3>1. user.stage # "absent" /\ user'.stage = "deactivated" /\ user'.verified = user.verified
          /\ password' = password
      BY <1>0, <1>1, <1>16 DEF UserAfter, AccountShape, Wrote, User
    <3>2. Ledger!End(k.locked) /\ new = old
      BY <1>2, <1>4, <1>16 DEF Wrote
    <3> QED
      BY <1>5, <3>1, <3>2 DEF Ledger!Deactivate, old, new
  <2> QED
    BY <2>1 DEF Ledger!Next
<1>17. CASE k.op = "revokeSession" /\ k.wrote = {"revoke"}
  <2>1. user'.stage = user.stage /\ user'.verified = user.verified /\ password' = password
        /\ new = old /\ k.locked \subseteq {k.with}
    BY <1>0, <1>1, <1>2, <1>17, <1>8 DEF UserAfter, WholeShape, Wrote
  <2>2. CASE k.locked = {}
    BY <1>7, <1>17, <2>1, <2>2 DEF Ledger!vars, old, new
  <2>3. CASE k.locked # {}
    <3>1. k.locked = {k.with} /\ k.with \in Call
      BY <1>0, <2>1, <2>3 DEF Called
    <3>2. Ledger!Revoke(k.with)
      BY <1>4, <1>5, <1>17, <2>1, <3>1 DEF Ledger!Revoke, old, new
    <3> QED
      BY <3>1, <3>2 DEF Ledger!Next
  <2> QED
    BY <2>2, <2>3
<1> QED
  BY <1>0, <1>9, <1>10, <1>11, <1>12, <1>13, <1>14, <1>15, <1>16, <1>17 DEF WholeShape

\* Every step of the calls is a step of the account, or changes nothing of it.
LEMMA AtomicStep == IInv /\ WholeInv /\ [Next]_vars => [Ledger!Next]_(Ledger!vars)
<1> SUFFICES ASSUME IInv, WholeInv, [Next]_vars PROVE [Ledger!Next]_(Ledger!vars)
  OBVIOUS
<1>1. CASE UNCHANGED Tables
  BY <1>1 DEF Tables, Ledger!vars, AsIssued
<1>2. ASSUME NEW c \in Call, Limited(c) \/ Begin(c) \/ Progress(c) \/ Abort(c)
      PROVE  Commit(c) \/ UNCHANGED Tables
  BY <1>2 DEF Limited, Begin, Progress, Abort, Find, Insert, Mail, Check, Consume, Update,
     StorePassword, Mark, Revoke, Unchanged, Tables
<1> QED
  BY <1>1, <1>2, CommitIsAtomic DEF Next, Tick, vars, Tables

\* Each committed transaction is one step of an account: AccountLifecycle
\* implements Account (the use cases over their transactions).
THEOREM ImplementsAccount == Spec => AccountIsAtomic
<1>1. Init => Ledger!Init
  <2> SUFFICES ASSUME Init PROVE Ledger!Init
    OBVIOUS
  <2>1. CASE user = NoUser
    BY <2>1 DEF Init, NoUser, Ledger!Init, Ledger!Token, Secret, AsIssued
  <2>2. CASE user \in [stage : {"active"}, verified : BOOLEAN]
    <3>1. user.stage = "active" /\ user.verified \in BOOLEAN /\ user # NoUser
      BY <2>2 DEF NoUser
    <3>2. \A t \in Secret : AsIssued(t) =
            IF t # Old THEN "unissued"
            ELSE IF user.verified THEN "password_reset" ELSE "email_verification"
      BY <3>1 DEF Init, AsIssued
    <3> QED
      BY <3>1, <3>2 DEF Init, Ledger!Init, Ledger!Token, Secret
  <2> QED
    BY <2>1, <2>2 DEF Init
<1>2. IInv /\ WholeInv /\ [Next]_vars => [Ledger!Next]_(Ledger!vars)
  BY AtomicStep
<1> QED
  BY <1>1, <1>2, WholeHolds, PTL DEF Spec, AccountIsAtomic, Ledger!Spec

\* What follows from being an account: a deactivated account stays so and a
\* verified one too, a revoked session is never live and a deleted token never
\* stored again, in whatever order the writes of overlapping calls commit.
Keeps == /\ user.stage = "deactivated" => user'.stage = "deactivated"
         /\ user.verified => user'.verified
         /\ \A s \in Call : session[s] = "revoked" => session'[s] = "revoked"
         /\ \A t \in Secret : token[t].stage = "deleted" => token'[t].stage = "deleted"

\* Nothing comes back (the use cases, in the order they commit).
THEOREM NothingComesBack == Spec => [][Keeps]_vars
<1> DEFINE tokens == [t \in Secret |-> AsIssued(t)]
<1>1. ASSUME IInv, Next, [Ledger!Next]_(Ledger!vars) PROVE Keeps
  <2>0. /\ token \in [Secret -> Token] /\ session \in [Call -> {"none", "live", "revoked"}]
        /\ Call \subseteq Secret
    BY <1>1 DEF IInv, TypeOK, Secret
  <2>1. user.verified => user'.verified
    BY <1>1, UserGoesForward
  <2>2. user.stage = "deactivated" => user'.stage = "deactivated"
    BY <1>1 DEF Ledger!Next, Ledger!Refuse, Ledger!vars, Ledger!Register,
       Ledger!RequestReset, Ledger!Verify, Ledger!Reset, Ledger!Discard, Ledger!SignIn, Ledger!Deactivate, Ledger!Revoke
  <2>3. ASSUME NEW s \in Call, session[s] = "revoked" PROVE session'[s] = "revoked"
    BY <1>1, <2>0, <2>3 DEF Ledger!Next, Ledger!Refuse, Ledger!vars, Ledger!Register,
       Ledger!RequestReset, Ledger!Verify, Ledger!Reset, Ledger!Discard, Ledger!SignIn, Ledger!Deactivate,
       Ledger!Revoke, Ledger!End
  <2>4. ASSUME NEW t \in Secret, token[t].stage = "deleted" PROVE token'[t].stage = "deleted"
    <3>1. tokens[t] = "deleted" /\ tokens \in [Secret -> {"unissued", "deleted"} \cup Purpose]
      BY <2>0, <2>4 DEF AsIssued, Token
    <3>2. tokens'[t] = "deleted"
      <4> HIDE DEF tokens
      <4>1. \A p \in Secret :
              /\ \A purpose : Ledger!Issue(p, purpose) => tokens'[t] = "deleted"
              /\ \A purpose \in Purpose : Ledger!Spend(p, purpose) => tokens'[t] = "deleted"
        BY <3>1 DEF Ledger!Issue, Ledger!Spend, Purpose, tokens
      <4> QED
        BY <1>1, <2>0, <3>1, <4>1 DEF Ledger!Next, Ledger!Refuse, Ledger!vars, Ledger!Register,
           Ledger!RequestReset, Ledger!Verify, Ledger!Reset, Ledger!Discard, Ledger!SignIn,
           Ledger!Deactivate, Ledger!Revoke, Ledger!Token, Secret, Purpose, tokens
    <3>3. AsIssued(t)' = "deleted" /\ token'[t] \in Token
      BY <1>1, <3>2, NextTypeOK DEF TypeOK
    <3> QED
      BY <3>3 DEF AsIssued, Token, Purpose
  <2> QED
    BY <2>1, <2>2, <2>3, <2>4 DEF Keeps
<1>2. IInv /\ WholeInv /\ [Next]_vars => [Keeps]_vars
  BY <1>1, AtomicStep
<1> QED
  BY <1>2, WholeHolds, PTL DEF Spec
=============================================================================
