-------------------------- MODULE AccountLifecycle --------------------------
(***************************************************************************)
(* The life of one account: registration, email verification, sign-in,     *)
(* password reset, deactivation and session revocation                     *)
(* (packages/domain/src/identity/use-cases.ts over                         *)
(* packages/db/src/identity-adapter.ts).                                   *)
(*                                                                         *)
(* Each call is one READ COMMITTED transaction; a statement that another   *)
(* call can see, or wait for, is an action.  An account has one address,   *)
(* and users.email is unique.  A password is named by the call that sets   *)
(* it, and so is the token a call issues; Old names what there was before. *)
(* The audit and outbox rows of recordMutation are part of every           *)
(* transaction that commits and are not shown.                             *)
(***************************************************************************)
EXTENDS Naturals, FiniteSets

CONSTANTS Call,     \* calls of the use cases
          TTL,      \* life of an issued token, in clock ticks
          MaxTime,  \* bound on the clock
          Old,      \* the password and the token of the initial state
          None      \* "no such thing": no password, no session, a forged token

ASSUME ParameterAssumption ==
  /\ TTL \in Nat \ {0}
  /\ MaxTime \in Nat
  /\ Old \notin Call
  /\ None \notin Call \cup {Old}

VARIABLES clock,    \* the process clock
          user,     \* the users row of the address
          password, \* what the credential row of the account verifies
          token,    \* verification_tokens
          mailed,   \* tokens handed to notifications.enqueue
          session,  \* sessions, by the sign-in that created them
          call      \* the calls

vars == <<clock, user, password, token, mailed, session, call>>
-----------------------------------------------------------------------------
Secret == Call \cup {Old}

User == [stage : {"absent", "active", "deactivated"}, verified : BOOLEAN]
Purpose == {"email_verification", "password_reset"}
Token == [stage : {"unissued", "stored", "deleted"}, purpose : Purpose, expiresAt : Nat]

Op == {"register", "verifyEmail", "signIn", "requestPasswordReset", "resetPassword",
       "deactivate", "revokeSession"}
Pc == {"idle", "find", "insert", "mail", "check", "consume", "update", "password",
       "mark", "revoke", "commit", "done"}
Write == {"user", "token", "session", "delete", "verified", "password", "mark", "revoke"}
Answer == {"none", "accepted", "conflict", "invalid_credentials", "invalid_token",
           "subject_deactivated", "subject_not_found", "unverified_email",
           "rate_limited", "error"}

\* with: the password or the token presented, or the session to revoke.
\* seen: the users row as first read.  wrote: the writes of the transaction,
\* pending until "done".  locked: the sessions rows it has updated.
\* prior: the calls that had ended when this one began (read by no action).
Called == [op : Op, pc : Pc, with : Secret \cup {None}, now : Nat, seen : User,
           wrote : SUBSET Write, locked : SUBSET Call, answer : Answer,
           prior : SUBSET Call]

NoUser == [stage |-> "absent", verified |-> FALSE]

\* The address is unknown, or registered with an outstanding token: the one it
\* is to be verified with, or one to reset the password of a verified account.
Init ==
  /\ clock = 0
  /\ user \in {NoUser} \cup [stage : {"active"}, verified : BOOLEAN]
  /\ password = IF user = NoUser THEN None ELSE Old
  /\ token = [t \in Secret |->
       [stage |-> IF t = Old /\ user # NoUser THEN "stored" ELSE "unissued",
        purpose |-> IF t = Old /\ user.verified THEN "password_reset" ELSE "email_verification",
        expiresAt |-> TTL]]
  /\ mailed = IF user = NoUser THEN {} ELSE {Old}
  /\ session = [c \in Call |-> "none"]
  /\ call = [c \in Call |-> [op |-> "signIn", pc |-> "idle", with |-> None, now |-> 0,
                             seen |-> NoUser, wrote |-> {}, locked |-> {},
                             answer |-> "none", prior |-> {}]]
-----------------------------------------------------------------------------
Open(c) == call[c].pc \notin {"idle", "done"}
Done(c) == call[c].pc = "done"

\* Another open transaction has updated (or deleted) the row c is after.
UserLocked(c) ==
  \E d \in Call \ {c} : Open(d) /\ call[d].wrote \cap {"verified", "mark"} # {}
PasswordLocked(c) ==
  \E d \in Call \ {c} : Open(d) /\ "password" \in call[d].wrote
TokenLocked(c) ==
  \E d \in Call \ {c} : Open(d) /\ "delete" \in call[d].wrote /\ call[d].with = call[c].with
SessionLocked(c, s) == \E d \in Call \ {c} : Open(d) /\ s \in call[d].locked

Step(c, fields) == call' = [call EXCEPT ![c] = fields]

\* The work of c returns: its transaction is to commit, also when rejected.
Return(c, answer) == Step(c, [call[c] EXCEPT !.pc = "commit", !.answer = answer])

\* The transaction of c has ended: its locks and its variables are gone.
Ended(c, answer) == [call[c] EXCEPT !.pc = "done", !.now = 0, !.seen = NoUser,
                                    !.locked = {}, !.answer = answer]

\* The work of c throws: everything is rolled back.
Thrown(c) == [Ended(c, "error") EXCEPT !.wrote = {}]

Unchanged == UNCHANGED <<clock, user, password, token, mailed, session>>
-----------------------------------------------------------------------------
\* Every use case but deactivate and revokeSession asks the limiter first.
Limited(c) ==
  /\ call[c].pc = "idle"
  /\ Step(c, [call[c] EXCEPT !.pc = "done", !.answer = "rate_limited"])
  /\ Unchanged

\* What a call of op can present: any password, a token that was mailed or a
\* forged one, any session.
Presentable(op) ==
  CASE op = "signIn"                           -> Secret
    [] op \in {"verifyEmail", "resetPassword"} -> mailed \cup {None}
    [] op = "revokeSession"                    -> {s \in Call : session[s] # "none"}
    [] OTHER                                   -> {None}

\* The limiter allows the call and its transaction begins; consumeToken reads
\* the clock before its statement.
Begin(c) ==
  /\ call[c].pc = "idle"
  /\ \E op \in Op : \E with \in Presentable(op) :
       Step(c, [call[c] EXCEPT
                  !.op = op, !.with = with, !.now = clock,
                  !.pc = IF op \in {"verifyEmail", "resetPassword"} THEN "consume" ELSE "find",
                  !.prior = {d \in Call : Done(d)}])
  /\ Unchanged

\* findSubjectByEmail, findSubjectById: where each use case goes from there.
Found(c) ==
  CASE call[c].op = "register"             -> "commit"
    [] call[c].op = "signIn"               -> "check"
    [] call[c].op = "requestPasswordReset" -> "mail"
    [] call[c].op = "deactivate"           -> "mark"
    [] call[c].op = "revokeSession"        -> "revoke"

Find(c) ==
  /\ call[c].pc = "find"
  /\ \/ /\ user.stage # "absent"
        /\ Step(c, [call[c] EXCEPT !.pc = Found(c), !.seen = user,
                                   !.answer = IF call[c].op = "register" THEN "conflict" ELSE @])
     \/ /\ user.stage = "absent" /\ call[c].op = "register"
        /\ Step(c, [call[c] EXCEPT !.pc = "insert"])
     \/ /\ user.stage = "absent" /\ call[c].op = "signIn"
        /\ Return(c, "invalid_credentials")
     \/ /\ user.stage = "absent" /\ call[c].op = "requestPasswordReset"
        /\ Return(c, "accepted")
     \/ /\ user.stage = "absent" /\ call[c].op \in {"deactivate", "revokeSession"}
        /\ Return(c, "subject_not_found")
  /\ Unchanged

\* Faulty variant: addresses are not unique.
InsertableAlways(c) == TRUE

\* users.email is unique: a second insert waits for the first.
Insertable(c) == \A d \in Call \ {c} : ~(Open(d) /\ "user" \in call[d].wrote)

\* createSubject, and storePassword for the subject nobody else knows yet.
Insert(c) ==
  /\ call[c].pc = "insert"
  /\ Insertable(c)
  /\ \/ /\ user.stage = "absent"
        /\ Step(c, [call[c] EXCEPT !.pc = "mail", !.wrote = {"user"}])
     \/ /\ user.stage # "absent"
        /\ Step(c, Thrown(c))
  /\ Unchanged

\* storeToken, and notifications.enqueue inside the transaction: the token is on
\* its way to the user whether or not it is ever committed.
Mail(c) ==
  /\ call[c].pc = "mail"
  /\ mailed' = mailed \cup {c}
  /\ Step(c, [call[c] EXCEPT !.pc = "commit", !.wrote = @ \cup {"token"},
                             !.answer = "accepted"])
  /\ UNCHANGED <<clock, user, password, token, session>>

\* signIn: verifyPassword, then the state of the subject as it was found, then
\* createSession.
Check(c) ==
  /\ call[c].pc = "check"
  /\ \/ call[c].with # password /\ Return(c, "invalid_credentials")
     \/ /\ call[c].with = password /\ call[c].seen.stage = "deactivated"
        /\ Return(c, "subject_deactivated")
     \/ /\ call[c].with = password /\ call[c].seen.stage = "active"
        /\ ~call[c].seen.verified
        /\ Return(c, "unverified_email")
     \/ /\ call[c].with = password /\ call[c].seen.stage = "active"
        /\ call[c].seen.verified
        /\ Step(c, [call[c] EXCEPT !.pc = "commit", !.wrote = {"session"},
                                   !.answer = "accepted"])
  /\ Unchanged

\* The predicate of consumeToken's DELETE.
Redeemable(c) ==
  /\ call[c].with # None
  /\ token[call[c].with].stage = "stored"
  /\ token[call[c].with].expiresAt > call[c].now

\* Faulty variant: the purpose in the identifier is not looked at.
FitsAlways(c) == token[call[c].with].purpose \in Purpose

Fits(c) ==
  token[call[c].with].purpose = IF call[c].op = "verifyEmail" THEN "email_verification"
                                                              ELSE "password_reset"

\* consumeToken: a token of the other purpose is deleted as well, and refused.
Consume(c) ==
  /\ call[c].pc = "consume"
  /\ \/ ~Redeemable(c) /\ Return(c, "invalid_token")
     \/ /\ Redeemable(c) /\ ~TokenLocked(c) /\ Fits(c)
        /\ Step(c, [call[c] EXCEPT !.wrote = {"delete"},
                                   !.pc = IF call[c].op = "verifyEmail" THEN "update"
                                                                       ELSE "password"])
     \/ /\ Redeemable(c) /\ ~TokenLocked(c) /\ ~Fits(c)
        /\ Step(c, [call[c] EXCEPT !.wrote = {"delete"}, !.pc = "commit",
                                   !.answer = "invalid_token"])
  /\ Unchanged

\* setEmailVerified.
Update(c) ==
  /\ call[c].pc = "update"
  /\ ~UserLocked(c)
  /\ Step(c, [call[c] EXCEPT !.wrote = @ \cup {"verified"}, !.pc = "commit",
                             !.answer = "accepted"])
  /\ Unchanged

\* storePassword of resetPassword: an upsert of the credential row.
StorePassword(c) ==
  /\ call[c].pc = "password"
  /\ ~PasswordLocked(c)
  /\ Step(c, [call[c] EXCEPT !.wrote = @ \cup {"password"}, !.pc = "revoke"])
  /\ Unchanged

\* deactivateSubject.
Mark(c) ==
  /\ call[c].pc = "mark"
  /\ ~UserLocked(c)
  /\ Step(c, [call[c] EXCEPT !.wrote = {"mark"}, !.pc = "revoke"])
  /\ Unchanged

\* Faulty variant: only a session the caller names is revoked.
RevocableNamed(c) ==
  {s \in Call : session[s] # "none" /\ call[c].op = "revokeSession" /\ s = call[c].with}

\* The sessions rows the UPDATE finds: those committed when it runs.
Revocable(c) ==
  {s \in Call : session[s] # "none" /\ (call[c].op = "revokeSession" => s = call[c].with)}

\* revokeSubjectSessions, revokeSession.
Revoke(c) ==
  /\ call[c].pc = "revoke"
  /\ \A s \in Revocable(c) : ~SessionLocked(c, s)
  /\ Step(c, [call[c] EXCEPT !.wrote = @ \cup {"revoke"}, !.locked = Revocable(c),
                             !.pc = "commit", !.answer = "accepted"])
  /\ Unchanged
-----------------------------------------------------------------------------
(* The committed rows once the transaction of c is committed. *)

\* Faulty variant: verifying writes the whole row, as a new account has it.
UserAfterWhole(c) ==
  [stage    |-> IF call[c].wrote \cap {"user", "verified"} # {} THEN "active"
                ELSE IF "mark" \in call[c].wrote THEN "deactivated" ELSE user.stage,
   verified |-> "verified" \in call[c].wrote \/ user.verified]

UserAfter(c) ==
  [stage    |-> IF "user" \in call[c].wrote THEN "active"
                ELSE IF "mark" \in call[c].wrote THEN "deactivated" ELSE user.stage,
   verified |-> "verified" \in call[c].wrote \/ user.verified]

TokenAfter(c) ==
  IF "token" \in call[c].wrote
    THEN [token EXCEPT ![c] =
            [stage |-> "stored", expiresAt |-> call[c].now + TTL,
             purpose |-> IF call[c].op = "register" THEN "email_verification"
                                                    ELSE "password_reset"]]
  ELSE IF "delete" \in call[c].wrote THEN [token EXCEPT ![call[c].with].stage = "deleted"]
  ELSE token

SessionAfter(c) ==
  [s \in Call |-> IF s = c /\ "session" \in call[c].wrote THEN "live"
                  ELSE IF s \in call[c].locked THEN "revoked" ELSE session[s]]

\* The reply to COMMIT may be lost; the caller sees an error, the rows stay.
Commit(c) ==
  /\ call[c].pc = "commit"
  /\ user' = UserAfter(c)
  /\ password' = IF call[c].wrote \cap {"user", "password"} # {} THEN c ELSE password
  /\ token' = TokenAfter(c)
  /\ session' = SessionAfter(c)
  /\ \E reply \in {call[c].answer, "error"} : Step(c, Ended(c, reply))
  /\ UNCHANGED <<clock, mailed>>

Abort(c) == Open(c) /\ Step(c, Thrown(c)) /\ Unchanged

Tick ==
  /\ clock < MaxTime
  /\ clock' = clock + 1
  /\ UNCHANGED <<user, password, token, mailed, session, call>>

Progress(c) == Find(c) \/ Insert(c) \/ Mail(c) \/ Check(c) \/ Consume(c) \/ Update(c)
               \/ StorePassword(c) \/ Mark(c) \/ Revoke(c) \/ Commit(c)

Next == Tick \/ \E c \in Call : Limited(c) \/ Begin(c) \/ Progress(c) \/ Abort(c)

Spec == Init /\ [][Next]_vars
-----------------------------------------------------------------------------
(* Properties *)

TypeOK ==
  /\ clock \in 0..MaxTime
  /\ user \in User
  /\ password \in Secret \cup {None}
  /\ token \in [Secret -> Token]
  /\ mailed \subseteq Secret
  /\ session \in [Call -> {"none", "live", "revoked"}]
  /\ call \in [Call -> Called]

\* The transaction of c committed w, whatever the caller was told.
Committed(c, w) == Done(c) /\ w \in call[c].wrote

\* M01: a token is good for one thing once.  Of all the calls that present it,
\* concurrently or not, at most one deletes it, a verification or a reset that
\* goes through deleted a token of its own purpose, and a deleted token is
\* never stored again (consumeToken).
TokenSpentOnce ==
  /\ \A c, d \in Call :
       Committed(c, "delete") /\ Committed(d, "delete") /\ call[c].with = call[d].with => c = d
  /\ \A c \in Call :
       Committed(c, "delete") =>
         /\ token[call[c].with].stage = "deleted"
         /\ call[c].wrote # {"delete"} =>
              token[call[c].with].purpose =
                IF call[c].op = "verifyEmail" THEN "email_verification" ELSE "password_reset"

\* However registrations of one address overlap, one of them makes the account
\* and nothing of the others is left (register over users.email).
OneAccount ==
  \A c, d \in Call : Committed(c, "user") /\ Committed(d, "user") => c = d

\* The types, and one account per address (OneAccount).
AccountInv == TypeOK /\ OneAccount

Overlap(c, d) == c \notin call[d].prior /\ d \notin call[c].prior

\* What resetPassword and deactivate promise about sessions, and no more: a live
\* session was not signed in before a reset or a deactivation began, nor after
\* a deactivation ended, and unless a reset overlapped with its sign-in its
\* password still holds (signIn, resetPassword, deactivate).
CutOff ==
  \A s \in Call : session[s] = "live" =>
    /\ \A c \in Call :
         /\ Committed(c, "mark") => Overlap(s, c)
         /\ Committed(c, "password") => Overlap(s, c) \/ c \in call[s].prior
    /\ (\A c \in Call : Committed(c, "password") => ~Overlap(s, c)) => call[s].with = password

\* Each committed transaction, of several statements as it is, takes effect as one
\* step of an account, whatever it overlapped with: no session of an unverified
\* address, no half of a reset, nothing that was revoked, deleted or deactivated
\* back again (the use cases implement Account).
AsIssued(t) == IF token[t].stage = "stored" THEN token[t].purpose ELSE token[t].stage

Ledger == INSTANCE Account
            WITH stage <- user.stage, verified <- user.verified,
                 token <- [t \in Secret |-> AsIssued(t)]
AccountIsAtomic == Ledger!Spec
-----------------------------------------------------------------------------
(* Statements of the tests that the code does not satisfy. *)

\* account-lifecycle.integration.test.ts:69: "keeps reset requests uniform and
\* revokes prior sessions after reset".
NoSessionOfAnOldPassword ==
  \A r, s \in Call :
    /\ Done(r) /\ call[r].op = "resetPassword" /\ call[r].answer = "accepted"
    /\ session[s] = "live"
    => call[s].with = password
=============================================================================
