------------------------------ MODULE OtpLogin ------------------------------
(***************************************************************************)
(* Email one-time-code login: requestOtp and redeemOtp over the Postgres   *)
(* challenge store (packages/domain/src/identity/otp-use-cases.ts and      *)
(* packages/db/src/otp-challenge-store.ts).                                *)
(*                                                                         *)
(* Each call is one READ COMMITTED transaction and each statement of it is *)
(* one action: a statement sees what other calls have committed, an UPDATE *)
(* that matches a row another open transaction has updated waits for it,   *)
(* and what a call wrote stays pending until its own COMMIT.  Any open     *)
(* transaction may abort (a failed statement, a dropped connection, a      *)
(* killed process), and the reply to a COMMIT may be lost.  The session    *)
(* owner is called inside the transaction but writes outside of it.        *)
(***************************************************************************)
EXTENDS Naturals, FiniteSets

CONSTANTS Challenge,   \* challenge ids, one per requestOtp call
          Attempt,     \* redeemOtp calls
          Email,       \* addresses
          Addressee,   \* the address each challenge is requested for
          MaxAttempts, \* OTP_MAX_ATTEMPTS
          TTL,         \* OTP_CHALLENGE_TTL_MS, in clock ticks
          MaxTime,     \* bound on the clock
          None         \* an id no challenge has: forged, or not chosen yet

ASSUME ParameterAssumption ==
  /\ Addressee \in [Challenge -> Email]
  /\ MaxAttempts \in Nat \ {0}
  /\ TTL \in Nat \ {0}
  /\ MaxTime \in Nat
  /\ None \notin Challenge

VARIABLES
  clock,     \* the process clock
  account,   \* users: what is registered under each address
  request,   \* the requestOtp calls
  mailed,    \* challenges whose code was handed to email delivery
  row,       \* otp_challenges, as committed
  evidence,  \* challenges with a committed "redeemed" audit and outbox row
  sessions,  \* attempts for which the session owner created a session
  attempt    \* the redeemOtp calls

vars == <<clock, account, request, mailed, row, evidence, sessions, attempt>>
-----------------------------------------------------------------------------
AccountState == {"none", "active", "deactivated"}

RequestPc == {"idle", "resolved", "accepted", "rate_limited", "storage_unavailable"}
Request == [pc : RequestPc, now : Nat, bound : BOOLEAN]

\* bound: account_id is not null.  left: attempts_remaining.
AttemptsLeft == 0..MaxAttempts
Row == [exists : BOOLEAN, bound : BOOLEAN, left : AttemptsLeft,
        expiresAt : Nat, spent : BOOLEAN]
NoRow == [exists |-> FALSE, bound |-> FALSE, left |-> 0,
          expiresAt |-> 0, spent |-> FALSE]

\* Where a redeemOtp call is: the statement it executes next.
RedeemPc == {"idle", "win", "charge", "classify", "bind", "record", "session",
             "commit", "done"}
Answer == {"none", "session_established", "invalid_code", "expired", "replayed",
           "rate_limited", "storage_unavailable"}
\* wrote: the row update the transaction made (pending until "done").
\* left: the remainingAttempts that an invalid_code answer carries.
Redeem == [pc : RedeemPc, ch : Challenge \cup {None}, right : BOOLEAN, now : Nat,
           wrote : {"nothing", "spend", "charge"}, answer : Answer,
           left : AttemptsLeft]

Init ==
  /\ clock = 0
  /\ account \in [Email -> AccountState]
  /\ request = [c \in Challenge |-> [pc |-> "idle", now |-> 0, bound |-> FALSE]]
  /\ mailed = {}
  /\ row = [c \in Challenge |-> NoRow]
  /\ evidence = {}
  /\ sessions = {}
  /\ attempt = [r \in Attempt |-> [pc |-> "idle", ch |-> None, right |-> FALSE,
                                   now |-> 0, wrote |-> "nothing",
                                   answer |-> "none", left |-> 0]]
-----------------------------------------------------------------------------
(* requestOtp *)

RequestLimited(c) ==
  /\ request[c].pc = "idle"
  /\ request' = [request EXCEPT ![c].pc = "rate_limited"]
  /\ UNCHANGED <<clock, account, mailed, row, evidence, sessions, attempt>>

\* The limiter allows the call; the transaction reads the clock and the account.
RequestResolve(c) ==
  /\ request[c].pc = "idle"
  /\ request' = [request EXCEPT ![c] =
                   [pc |-> "resolved", now |-> clock,
                    bound |-> account[Addressee[c]] = "active"]]
  /\ UNCHANGED <<clock, account, mailed, row, evidence, sessions, attempt>>

\* The row is inserted whether or not there is an account.  A COMMIT whose
\* reply is lost leaves the row behind a storage_unavailable answer.
RequestCommit(c) ==
  /\ request[c].pc = "resolved"
  /\ row' = [row EXCEPT ![c] =
               [exists |-> TRUE, bound |-> request[c].bound, left |-> MaxAttempts,
                expiresAt |-> request[c].now + TTL, spent |-> FALSE]]
  /\ \E reply \in {"accepted", "storage_unavailable"} :
       request' = [request EXCEPT ![c].pc = reply]
  /\ UNCHANGED <<clock, account, mailed, evidence, sessions, attempt>>

RequestAbort(c) ==
  /\ request[c].pc = "resolved"
  /\ request' = [request EXCEPT ![c].pc = "storage_unavailable"]
  /\ UNCHANGED <<clock, account, mailed, row, evidence, sessions, attempt>>

\* Not awaited by the call: it may happen at any later time or never.
Deliver(c) ==
  /\ request[c].pc = "accepted"
  /\ request[c].bound
  /\ mailed' = mailed \cup {c}
  /\ UNCHANGED <<clock, account, request, row, evidence, sessions, attempt>>
-----------------------------------------------------------------------------
(* redeemOtp *)

\* Faulty variant: the lock outlives the transaction.
HoldsLockForever(r, c) == attempt[r].wrote # "nothing" /\ attempt[r].ch = c

\* r's transaction is open and has updated the row of c: it holds its lock.
HoldsLock(r, c) ==
  /\ attempt[r].pc \in RedeemPc \ {"idle", "done"}
  /\ attempt[r].wrote # "nothing"
  /\ attempt[r].ch = c

\* Faulty variant: an update does not wait for a pending one of the same row.
UnlockedAlways(c) == TRUE

Unlocked(c) == \A r \in Attempt : ~HoldsLock(r, c)

\* The committed row the id of the call selects.
Target(r) == IF attempt[r].ch = None THEN NoRow ELSE row[attempt[r].ch]

\* Faulty variants of the predicate: without attempts_remaining > 0, and
\* without consumed_at IS NULL.
LiveUnbudgeted(r) ==
  LET o == Target(r) IN o.exists /\ ~o.spent /\ o.expiresAt > attempt[r].now
LiveReplayable(r) ==
  LET o == Target(r) IN o.exists /\ o.expiresAt > attempt[r].now /\ o.left > 0

\* The predicate both UPDATEs of consume share, at the call's own reading of
\* the clock.
Live(r) ==
  LET o == Target(r)
  IN  o.exists /\ ~o.spent /\ o.expiresAt > attempt[r].now /\ o.left > 0

RedeemLimited(r) ==
  /\ attempt[r].pc = "idle"
  /\ attempt' = [attempt EXCEPT ![r] = [@ EXCEPT !.pc = "done", !.answer = "rate_limited"]]
  /\ UNCHANGED <<clock, account, request, mailed, row, evidence, sessions>>

\* The limiter allows the call and the transaction begins.  The challenge id is
\* one some request returned, or a forged one; the code may be right or wrong.
RedeemBegin(r) ==
  /\ attempt[r].pc = "idle"
  /\ \E c \in {d \in Challenge : request[d].pc = "accepted"} \cup {None},
        right \in BOOLEAN :
       attempt' = [attempt EXCEPT ![r] = [@ EXCEPT !.pc = "win", !.ch = c,
                                                    !.right = right, !.now = clock]]
  /\ UNCHANGED <<clock, account, request, mailed, row, evidence, sessions>>

\* The winning UPDATE: every winning condition in its predicate.
ConsumeWin(r) ==
  /\ attempt[r].pc = "win"
  /\ \/ /\ Live(r) /\ attempt[r].right
        /\ Unlocked(attempt[r].ch)
        /\ attempt' = [attempt EXCEPT ![r] = [@ EXCEPT !.pc = "bind", !.wrote = "spend"]]
     \/ /\ ~(Live(r) /\ attempt[r].right)
        /\ attempt' = [attempt EXCEPT ![r].pc = "charge"]
  /\ UNCHANGED <<clock, account, request, mailed, row, evidence, sessions>>

\* The charging UPDATE: a wrong code against a live challenge.
ConsumeCharge(r) ==
  /\ attempt[r].pc = "charge"
  /\ \/ /\ Live(r) /\ ~attempt[r].right
        /\ Unlocked(attempt[r].ch)
        /\ attempt' = [attempt EXCEPT ![r] = [@ EXCEPT !.pc = "commit", !.wrote = "charge",
                                                     !.answer = "invalid_code",
                                                     !.left = Target(r).left - 1]]
     \/ /\ ~(Live(r) /\ ~attempt[r].right)
        /\ attempt' = [attempt EXCEPT ![r].pc = "classify"]
  /\ UNCHANGED <<clock, account, request, mailed, row, evidence, sessions>>

\* Faulty variant: consumed_at is not looked at.
ClassificationUnspent(r) ==
  LET o == Target(r)
  IN  IF o.exists /\ o.expiresAt <= attempt[r].now THEN "expired" ELSE "invalid_code"

\* The classifying SELECT, with the answer redeemOtp maps each outcome to.
Classification(r) ==
  LET o == Target(r)
  IN  CASE ~o.exists                               -> "invalid_code"
        [] o.exists /\ o.spent                     -> "replayed"
        [] o.exists /\ ~o.spent /\ o.expiresAt <= attempt[r].now -> "expired"
        [] OTHER                                   -> "invalid_code"

ConsumeClassify(r) ==
  /\ attempt[r].pc = "classify"
  /\ attempt' = [attempt EXCEPT ![r] = [@ EXCEPT !.pc = "commit",
                                               !.answer = Classification(r), !.left = 0]]
  /\ UNCHANGED <<clock, account, request, mailed, row, evidence, sessions>>

\* Faulty variant: the binding of the row is not consulted.
BindableNow(r) == account[Addressee[attempt[r].ch]] = "active"

Bindable(r) == Target(r).bound /\ account[Addressee[attempt[r].ch]] = "active"

\* bindAccount: the binding of the row, re-validated against the account.
\* Without one the challenge stays spent and the answer is invalid_code.
BindAccount(r) ==
  /\ attempt[r].pc = "bind"
  /\ \/ /\ Bindable(r)
        /\ attempt' = [attempt EXCEPT ![r].pc = "record"]
     \/ /\ ~Bindable(r)
        /\ attempt' = [attempt EXCEPT ![r] = [@ EXCEPT !.pc = "commit",
                                                     !.answer = "invalid_code", !.left = 0]]
  /\ UNCHANGED <<clock, account, request, mailed, row, evidence, sessions>>

\* recordOtpEvent: audit and outbox rows, pending like every write of the call.
RecordEvent(r) ==
  /\ attempt[r].pc = "record"
  /\ attempt' = [attempt EXCEPT ![r].pc = "session"]
  /\ UNCHANGED <<clock, account, request, mailed, row, evidence, sessions>>

\* sessions.create takes no transaction context: what it writes stays.
CreateSession(r) ==
  /\ attempt[r].pc = "session"
  /\ sessions' = sessions \cup {r}
  /\ attempt' = [attempt EXCEPT ![r] = [@ EXCEPT !.pc = "commit",
                                               !.answer = "session_established"]]
  /\ UNCHANGED <<clock, account, request, mailed, row, evidence>>

\* The row as it is once the transaction of r is committed.
Committed(r) ==
  LET c == attempt[r].ch
  IN  CASE attempt[r].wrote = "spend"   -> [row EXCEPT ![c].spent = TRUE]
        [] attempt[r].wrote = "charge"  -> [row EXCEPT ![c].left = @ - 1]
        [] attempt[r].wrote = "nothing" -> row

RedeemCommit(r) ==
  /\ attempt[r].pc = "commit"
  /\ row' = Committed(r)
  /\ evidence' = IF attempt[r].answer = "session_established"
                   THEN evidence \cup {attempt[r].ch} ELSE evidence
  /\ \E reply \in {attempt[r].answer, "storage_unavailable"} :
       attempt' = [attempt EXCEPT ![r] = [@ EXCEPT !.pc = "done", !.answer = reply]]
  /\ UNCHANGED <<clock, account, request, mailed, sessions>>

\* Rollback: the pending writes are gone, a created session is not.
RedeemAbort(r) ==
  /\ attempt[r].pc \in RedeemPc \ {"idle", "done"}
  /\ attempt' = [attempt EXCEPT ![r] = [@ EXCEPT !.pc = "done", !.wrote = "nothing",
                                               !.answer = "storage_unavailable"]]
  /\ UNCHANGED <<clock, account, request, mailed, row, evidence, sessions>>
-----------------------------------------------------------------------------
(* The rest of the system, as far as the two calls read it. *)

Tick ==
  /\ clock < MaxTime
  /\ clock' = clock + 1
  /\ UNCHANGED <<account, request, mailed, row, evidence, sessions, attempt>>

Register(e) ==
  /\ account[e] = "none"
  /\ account' = [account EXCEPT ![e] = "active"]
  /\ UNCHANGED <<clock, request, mailed, row, evidence, sessions, attempt>>

Deactivate(e) ==
  /\ account[e] = "active"
  /\ account' = [account EXCEPT ![e] = "deactivated"]
  /\ UNCHANGED <<clock, request, mailed, row, evidence, sessions, attempt>>

Ask(c) == RequestLimited(c) \/ RequestResolve(c) \/ RequestCommit(c)
          \/ RequestAbort(c) \/ Deliver(c)

\* What the process and the database go on doing once a call has begun.
Progress(r) == ConsumeWin(r) \/ ConsumeCharge(r) \/ ConsumeClassify(r)
               \/ BindAccount(r) \/ RecordEvent(r) \/ CreateSession(r)
               \/ RedeemCommit(r)

Next ==
  \/ \E c \in Challenge : Ask(c)
  \/ \E r \in Attempt : RedeemLimited(r) \/ RedeemBegin(r) \/ Progress(r)
                        \/ RedeemAbort(r)
  \/ \E e \in Email : Register(e) \/ Deactivate(e)
  \/ Tick

Spec == Init /\ [][Next]_vars
-----------------------------------------------------------------------------
(* Properties *)

TypeOK ==
  /\ clock \in 0..MaxTime
  /\ account \in [Email -> AccountState]
  /\ request \in [Challenge -> Request]
  /\ mailed \subseteq Challenge
  /\ row \in [Challenge -> Row]
  /\ evidence \subseteq Challenge
  /\ sessions \subseteq Attempt
  /\ attempt \in [Attempt -> Redeem]

Done(r) == attempt[r].pc = "done"
Told(r, answer) == Done(r) /\ attempt[r].answer = answer

\* INV-11: of all the calls that redeem one challenge, however their
\* statements, rollbacks and lost replies interleave, at most one is told that
\* a session is established (redeemOtp over consume).
SingleWinner ==
  \A q, r \in Attempt :
    Told(q, "session_established") /\ Told(r, "session_established")
      /\ attempt[q].ch = attempt[r].ch => q = r

\* The types, and that one call wins (SingleWinner).
LoginInv == TypeOK /\ SingleWinner

ChargedTo(c) == {r \in Attempt : Done(r) /\ attempt[r].wrote = "charge" /\ attempt[r].ch = c}

\* The budget of a challenge is what is left of MaxAttempts after exactly the
\* committed wrong attempts, and each of those was given a number of its own:
\* no concurrent guess is free (the charging UPDATE of consume).
BudgetAccounting ==
  \A c \in Challenge :
    row[c].exists =>
      /\ row[c].left + Cardinality(ChargedTo(c)) = MaxAttempts
      /\ \A q, r \in ChargedTo(c) : q # r => attempt[q].left # attempt[r].left

\* An answer classified by three statements, each of its own snapshot, is true
\* of the challenge: replayed means it is spent, expired that its time is over,
\* and the right code is refused as invalid only when the budget is gone or
\* no active account is bound (consume's losing path, bindAccount).
TruthfulAnswers ==
  \A r \in Attempt : attempt[r].ch # None =>
    /\ Told(r, "replayed") => Target(r).spent
    /\ Told(r, "expired") => Target(r).expiresAt <= clock
    /\ Told(r, "invalid_code") /\ attempt[r].right =>
          \/ Target(r).left = 0
          \/ attempt[r].wrote = "spend" /\ ~Bindable(r)

\* A session that is announced is backed by a spent challenge and its evidence
\* (INV-20), and no session, announced or left behind by a rolled back call,
\* is for a challenge that had no active account when it was requested, even
\* if the address is registered later, nor for one that was over when the call
\* began, however long it has waited since (redeemOtp, bindAccount, consume).
GrantIsBacked ==
  \A r \in Attempt :
    /\ Told(r, "session_established") =>
          r \in sessions /\ Target(r).spent /\ attempt[r].ch \in evidence
    /\ r \in sessions =>
          /\ Target(r).bound /\ attempt[r].right /\ request[attempt[r].ch].bound
          /\ attempt[r].now < Target(r).expiresAt

\* Once a challenge is spent its row never changes again: no late guess is
\* charged to it and no rollback revives it (consume's isNull(consumedAt)).
SpentIsFinal == [][\A c \in Challenge : row[c].spent => row'[c] = row[c]]_vars

Begun(r) == attempt[r].pc \notin {"idle", "done"}

\* The UPDATE of r would change a row that another open transaction has changed.
Waits(r) ==
  /\ \/ attempt[r].pc = "win" /\ attempt[r].right
     \/ attempt[r].pc = "charge" /\ ~attempt[r].right
  /\ Live(r)
  /\ ~Unlocked(attempt[r].ch)

NeverAllWait == (\E r \in Attempt : Begun(r)) => \E r \in Attempt : Begun(r) /\ ~Waits(r)

\* Calls that wait for a row lock never all wait: as long as a transaction has not
\* ended, one of them waits for nobody (NeverAllWait), and who does not wait can go
\* on without failing; since a call has finitely many statements, every call is
\* answered (redeemOtp, the UPDATEs of consume).
RedeemsGoOn ==
  /\ NeverAllWait
  /\ \A r \in Attempt : Begun(r) => Waits(r) \/ ENABLED Progress(r)

WroteOnCommit(w) ==
  {<<attempt[r].ch, r>> : r \in {q \in Attempt : Done(q) /\ attempt[q].wrote = w}}

\* The committed transactions of the challenge store are the steps of a
\* one-time code (otp-challenge-store.ts implements OneTimeCode).
Code == INSTANCE OneTimeCode
          WITH Code <- Challenge, Budget <- MaxAttempts,
               issued <- {c \in Challenge : row[c].exists},
               missed <- WroteOnCommit("charge"), won <- WroteOnCommit("spend")
CodeIsOneTime == Code!Spec
-----------------------------------------------------------------------------
(* A statement of the comments that the code does not satisfy. *)

\* otp-use-cases.ts:214: "audit/outbox evidence must persist before any side
\* effect that could succeed while the transaction rolls back" (INV-20).
SessionHasEvidence ==
  \A r \in Attempt : Done(r) /\ r \in sessions => attempt[r].ch \in evidence
=============================================================================
