--------------------------- MODULE OtpLoginProofs ---------------------------
(***************************************************************************)
(* Theorems about OtpLogin, for any number of challenges and of concurrent *)
(* redeemOtp calls.  The argument: whoever has a pending update of a row   *)
(* is alone with it and the row it saw is still live, so a spending update *)
(* commits at most once per challenge and nothing touches the row after.   *)
(***************************************************************************)
EXTENDS OtpLogin, FiniteSetTheorems, TLAPS

\* A row exists exactly once its request has committed.
RowIsRequested ==
  \A c \in Challenge :
    /\ row[c].exists => request[c].pc \in {"accepted", "storage_unavailable"}
    /\ row[c].spent => row[c].exists
    /\ row[c].bound => row[c].exists /\ request[c].bound

\* What each place of redeemOtp knows about the call.
CallShape ==
  \A r \in Attempt :
    /\ attempt[r].pc \in {"idle", "win", "charge", "classify"} =>
          attempt[r].wrote = "nothing" /\ attempt[r].answer = "none"
    /\ attempt[r].pc \in {"bind", "record", "session"} =>
          attempt[r].wrote = "spend" /\ attempt[r].answer = "none"
    /\ attempt[r].answer = "session_established" => attempt[r].wrote = "spend"
    /\ attempt[r].wrote # "nothing" => attempt[r].ch \in Challenge

\* At most one open transaction has updated a row, and that row is still as the
\* predicate of its UPDATE found it.
LockIsExclusive ==
  \A c \in Challenge, q, r \in Attempt : HoldsLock(q, c) /\ HoldsLock(r, c) => q = r

LockedIsLive ==
  \A c \in Challenge, r \in Attempt :
    HoldsLock(r, c) => row[c].exists /\ ~row[c].spent /\ row[c].left > 0

\* A committed spending update is visible, and there is only one per challenge.
SpendCommitted ==
  \A r \in Attempt :
    Done(r) /\ attempt[r].wrote = "spend" => row[attempt[r].ch].spent

SpendIsUnique ==
  \A q, r \in Attempt :
    /\ Done(q) /\ attempt[q].wrote = "spend"
    /\ Done(r) /\ attempt[r].wrote = "spend"
    /\ attempt[q].ch = attempt[r].ch
    => q = r

IInv == TypeOK /\ RowIsRequested /\ CallShape /\ LockIsExclusive /\ LockedIsLive
        /\ SpendCommitted /\ SpendIsUnique
-----------------------------------------------------------------------------
\* The initial state satisfies the invariant: nothing was requested yet.
LEMMA InitIInv == Init => IInv
<1> SUFFICES ASSUME Init PROVE IInv
  OBVIOUS
<1> USE ParameterAssumption
<1>1. TypeOK
  BY DEF Init, TypeOK, NoRow, Row, Request, RequestPc, Redeem, RedeemPc, Answer, AttemptsLeft
<1>2. RowIsRequested
  BY DEF Init, RowIsRequested, NoRow
<1>3. CallShape
  BY DEF Init, CallShape
<1>4. LockIsExclusive /\ LockedIsLive
  BY DEF Init, LockIsExclusive, LockedIsLive, HoldsLock
<1>5. SpendCommitted /\ SpendIsUnique
  BY DEF Init, SpendCommitted, SpendIsUnique, Done
<1> QED
  BY <1>1, <1>2, <1>3, <1>4, <1>5 DEF IInv

\* The row a call selects is a row, whatever id it was given.
LEMMA TargetType == ASSUME TypeOK, NEW r \in Attempt PROVE Target(r) \in Row
BY ParameterAssumption DEF TypeOK, Target, NoRow, Row, Redeem, AttemptsLeft

\* Every step keeps the types.
LEMMA NextTypeOK == IInv /\ [Next]_vars => TypeOK'
<1> SUFFICES ASSUME IInv, [Next]_vars PROVE TypeOK'
  OBVIOUS
<1>0. TypeOK
  BY DEF IInv
<1>1. ASSUME NEW c \in Challenge, Ask(c) PROVE TypeOK'
  <2>1. CASE RequestLimited(c)
    BY <1>0, <2>1 DEF TypeOK, RequestLimited, Request, RequestPc
  <2>2. CASE RequestResolve(c)
    BY <1>0, <2>2 DEF TypeOK, RequestResolve, Request, RequestPc
  <2>3. CASE RequestCommit(c)
    <3>1. [exists |-> TRUE, bound |-> request[c].bound, left |-> MaxAttempts,
           expiresAt |-> request[c].now + TTL, spent |-> FALSE] \in Row
      BY <1>0, ParameterAssumption DEF TypeOK, Request, Row, AttemptsLeft
    <3>2. row' \in [Challenge -> Row]
      BY <1>0, <2>3, <3>1 DEF TypeOK, RequestCommit
    <3>3. request' \in [Challenge -> Request]
      BY <1>0, <2>3 DEF TypeOK, RequestCommit, Request, RequestPc
    <3> QED
      BY <1>0, <2>3, <3>2, <3>3 DEF TypeOK, RequestCommit
  <2>4. CASE RequestAbort(c)
    BY <1>0, <2>4 DEF TypeOK, RequestAbort, Request, RequestPc
  <2>5. CASE Deliver(c)
    BY <1>0, <2>5 DEF TypeOK, Deliver
  <2> QED
    BY <1>1, <2>1, <2>2, <2>3, <2>4, <2>5 DEF Ask
<1>2. ASSUME NEW r \in Attempt, RedeemLimited(r) PROVE TypeOK'
  <2>1. [attempt[r] EXCEPT !.pc = "done", !.answer = "rate_limited"] \in Redeem
    BY <1>0 DEF TypeOK, Redeem, RedeemPc, Answer
  <2> QED
    BY <1>0, <1>2, <2>1 DEF TypeOK, RedeemLimited
<1>3. ASSUME NEW r \in Attempt, RedeemBegin(r) PROVE TypeOK'
  <2>1. PICK c \in Challenge \cup {None}, right \in BOOLEAN :
          attempt' = [attempt EXCEPT ![r] = [@ EXCEPT !.pc = "win", !.ch = c,
                                                      !.right = right, !.now = clock]]
    BY <1>3 DEF RedeemBegin
  <2>2. clock \in Nat
    BY <1>0, ParameterAssumption DEF TypeOK
  <2>3. [attempt[r] EXCEPT !.pc = "win", !.ch = c, !.right = right, !.now = clock] \in Redeem
    BY <1>0, <2>2 DEF TypeOK, Redeem, RedeemPc
  <2> QED
    BY <1>0, <1>3, <2>1, <2>3 DEF TypeOK, RedeemBegin
<1>4. ASSUME NEW r \in Attempt, RedeemAbort(r) PROVE TypeOK'
  <2>1. [attempt[r] EXCEPT !.pc = "done", !.wrote = "nothing",
                           !.answer = "storage_unavailable"] \in Redeem
    BY <1>0 DEF TypeOK, Redeem, RedeemPc, Answer
  <2> QED
    BY <1>0, <1>4, <2>1 DEF TypeOK, RedeemAbort
<1>5. ASSUME NEW r \in Attempt, Progress(r) PROVE TypeOK'
  <2>0. 0 \in AttemptsLeft
    BY ParameterAssumption DEF AttemptsLeft
  <2>1. CASE ConsumeWin(r)
    <3>1. /\ [attempt[r] EXCEPT !.pc = "bind", !.wrote = "spend"] \in Redeem
          /\ [attempt[r] EXCEPT !.pc = "charge"] \in Redeem
      BY <1>0 DEF TypeOK, Redeem, RedeemPc
    <3> QED
      BY <1>0, <2>1, <3>1 DEF TypeOK, ConsumeWin
  <2>2. CASE ConsumeCharge(r)
    <3>1. CASE Live(r)
      <4>1. Target(r).left - 1 \in AttemptsLeft
        BY <1>0, <3>1, TargetType, ParameterAssumption DEF Live, Row, AttemptsLeft
      <4>2. /\ [attempt[r] EXCEPT !.pc = "commit", !.wrote = "charge",
                                  !.answer = "invalid_code",
                                  !.left = Target(r).left - 1] \in Redeem
            /\ [attempt[r] EXCEPT !.pc = "classify"] \in Redeem
        BY <1>0, <4>1 DEF TypeOK, Redeem, RedeemPc, Answer
      <4> QED
        BY <1>0, <2>2, <4>2 DEF TypeOK, ConsumeCharge
    <3>2. CASE ~Live(r)
      <4>1. [attempt[r] EXCEPT !.pc = "classify"] \in Redeem
        BY <1>0 DEF TypeOK, Redeem, RedeemPc
      <4> QED
        BY <1>0, <2>2, <3>2, <4>1 DEF TypeOK, ConsumeCharge
    <3> QED
      BY <3>1, <3>2
  <2>3. CASE ConsumeClassify(r)
    <3>1. Classification(r) \in Answer
      BY DEF Classification, Answer
    <3>2. [attempt[r] EXCEPT !.pc = "commit", !.answer = Classification(r),
                             !.left = 0] \in Redeem
      BY <1>0, <2>0, <3>1 DEF TypeOK, Redeem, RedeemPc
    <3> QED
      BY <1>0, <2>3, <3>2 DEF TypeOK, ConsumeClassify
  <2>4. CASE BindAccount(r)
    <3>1. /\ [attempt[r] EXCEPT !.pc = "record"] \in Redeem
          /\ [attempt[r] EXCEPT !.pc = "commit", !.answer = "invalid_code",
                                !.left = 0] \in Redeem
      BY <1>0, <2>0 DEF TypeOK, Redeem, RedeemPc, Answer
    <3> QED
      BY <1>0, <2>4, <3>1 DEF TypeOK, BindAccount
  <2>5. CASE RecordEvent(r)
    <3>1. [attempt[r] EXCEPT !.pc = "session"] \in Redeem
      BY <1>0 DEF TypeOK, Redeem, RedeemPc
    <3> QED
      BY <1>0, <2>5, <3>1 DEF TypeOK, RecordEvent
  <2>6. CASE CreateSession(r)
    <3>1. [attempt[r] EXCEPT !.pc = "commit", !.answer = "session_established"] \in Redeem
      BY <1>0 DEF TypeOK, Redeem, RedeemPc, Answer
    <3> QED
      BY <1>0, <2>6, <3>1 DEF TypeOK, CreateSession
  <2>7. CASE RedeemCommit(r)
    <3>1. row' \in [Challenge -> Row]
      <4>1. CASE attempt[r].wrote = "nothing"
        BY <1>0, <2>7, <4>1 DEF TypeOK, RedeemCommit, Committed
      <4>2. CASE attempt[r].wrote = "spend"
        <5>1. attempt[r].ch \in Challenge
          BY <4>2 DEF IInv, CallShape
        <5>2. [row[attempt[r].ch] EXCEPT !.spent = TRUE] \in Row
          BY <1>0, <5>1 DEF TypeOK, Row
        <5> QED
          BY <1>0, <2>7, <4>2, <5>2 DEF TypeOK, RedeemCommit, Committed
      <4>3. CASE attempt[r].wrote = "charge"
        <5>1. attempt[r].ch \in Challenge /\ HoldsLock(r, attempt[r].ch)
          BY <2>7, <4>3 DEF IInv, CallShape, HoldsLock, RedeemCommit, RedeemPc
        <5>2. row[attempt[r].ch].left - 1 \in AttemptsLeft
          BY <1>0, <5>1, ParameterAssumption
          DEF IInv, LockedIsLive, TypeOK, Row, AttemptsLeft
        <5>3. [row[attempt[r].ch] EXCEPT !.left = @ - 1] \in Row
          BY <1>0, <5>1, <5>2 DEF TypeOK, Row
        <5> QED
          BY <1>0, <2>7, <4>3, <5>3 DEF TypeOK, RedeemCommit, Committed
      <4> QED
        BY <1>0, <4>1, <4>2, <4>3 DEF TypeOK, Redeem
    <3>2. evidence' \subseteq Challenge
      BY <1>0, <2>7 DEF TypeOK, IInv, CallShape, RedeemCommit
    <3>3. /\ [attempt[r] EXCEPT !.pc = "done", !.answer = attempt[r].answer] \in Redeem
          /\ [attempt[r] EXCEPT !.pc = "done", !.answer = "storage_unavailable"] \in Redeem
      BY <1>0 DEF TypeOK, Redeem, RedeemPc, Answer
    <3>4. attempt' \in [Attempt -> Redeem]
      BY <1>0, <2>7, <3>3 DEF TypeOK, RedeemCommit
    <3> QED
      BY <1>0, <2>7, <3>1, <3>2, <3>4 DEF TypeOK, RedeemCommit
  <2> QED
    BY <1>5, <2>1, <2>2, <2>3, <2>4, <2>5, <2>6, <2>7 DEF Progress
<1>6. ASSUME NEW e \in Email, Register(e) \/ Deactivate(e) PROVE TypeOK'
  BY <1>0, <1>6 DEF TypeOK, Register, Deactivate, AccountState
<1>7. CASE Tick
  BY <1>0, <1>7, ParameterAssumption DEF TypeOK, Tick
<1>8. CASE UNCHANGED vars
  BY <1>0, <1>8 DEF TypeOK, vars
<1> QED
  BY <1>1, <1>2, <1>3, <1>4, <1>5, <1>6, <1>7, <1>8 DEF Next
-----------------------------------------------------------------------------
\* The row and the lock part of the invariant only read the calls through the
\* fields below, so a step that leaves the rows and these fields alone keeps it.
Rest == RowIsRequested /\ CallShape /\ LockIsExclusive /\ LockedIsLive
        /\ SpendCommitted /\ SpendIsUnique

\* requestOtp: the only row it writes is one no call could have selected.
LEMMA AskRest == ASSUME IInv, NEW c \in Challenge, Ask(c) PROVE Rest'
<1> USE DEF IInv
<1>1. CASE RequestCommit(c)
  <2>1. ~row[c].exists /\ ~row[c].spent
    BY <1>1 DEF RowIsRequested, RequestCommit
  <2>2. /\ \A r \in Attempt : ~HoldsLock(r, c)
        /\ \A r \in Attempt : Done(r) /\ attempt[r].wrote = "spend" => attempt[r].ch # c
    BY <2>1 DEF LockedIsLive, SpendCommitted
  <2>3. \A d \in Challenge : d # c => row'[d] = row[d] /\ request'[d] = request[d]
    BY <1>1 DEF RequestCommit, TypeOK
  <2>4. /\ row'[c].exists /\ ~row'[c].spent /\ row'[c].bound = request[c].bound
        /\ request'[c].pc \in {"accepted", "storage_unavailable"}
        /\ request'[c].bound = request[c].bound
    BY <1>1 DEF RequestCommit, TypeOK, Request
  <2>5. attempt' = attempt
    BY <1>1 DEF RequestCommit
  <2>6. RowIsRequested'
    BY <2>3, <2>4 DEF RowIsRequested
  <2>7. LockedIsLive'
    BY <2>2, <2>3, <2>5 DEF LockedIsLive, HoldsLock
  <2>8. SpendCommitted'
    BY <2>2, <2>3, <2>5 DEF SpendCommitted, Done, CallShape
  <2> QED
    BY <2>5, <2>6, <2>7, <2>8 DEF Rest, CallShape, LockIsExclusive, HoldsLock, SpendIsUnique, Done
<1>2. CASE RequestLimited(c) \/ RequestResolve(c) \/ RequestAbort(c) \/ Deliver(c)
  <2>1. row' = row /\ attempt' = attempt
    BY <1>2 DEF RequestLimited, RequestResolve, RequestAbort, Deliver
  <2>2. \A d \in Challenge : row[d].exists => request'[d] = request[d]
    BY <1>2 DEF RowIsRequested, TypeOK, RequestLimited, RequestResolve, RequestAbort, Deliver
  <2>3. \A d \in Challenge : row[d].bound => request'[d].bound
    BY <1>2, <2>2 DEF RowIsRequested, TypeOK
  <2> QED
    BY <2>1, <2>2, <2>3 DEF Rest, RowIsRequested, CallShape, LockIsExclusive, LockedIsLive,
       HoldsLock, SpendCommitted, SpendIsUnique, Done
<1> QED
  BY <1>1, <1>2 DEF Ask

\* A step of a call that has written nothing and writes nothing: its answer is
\* not a session, and where it goes to it holds no lock.
LEMMA IdleRest ==
  ASSUME IInv, NEW r \in Attempt, NEW a \in Redeem,
         a.wrote = "nothing", a.answer # "session_established",
         a.pc \in {"win", "charge", "classify"} => a.answer = "none",
         a.pc \in {"win", "charge", "classify", "commit", "done"},
         attempt' = [attempt EXCEPT ![r] = a], row' = row, request' = request
  PROVE  Rest'
<1> USE DEF IInv
<1>1. /\ attempt'[r] = a
      /\ \A q \in Attempt : q # r => attempt'[q] = attempt[q]
  BY DEF TypeOK
<1>2. \A c \in Challenge, q \in Attempt : HoldsLock(q, c)' => q # r /\ HoldsLock(q, c)
  BY <1>1 DEF HoldsLock
<1>3. CallShape'
  BY <1>1 DEF CallShape
<1>4. LockIsExclusive' /\ LockedIsLive'
  BY <1>2 DEF LockIsExclusive, LockedIsLive
<1>5. SpendCommitted' /\ SpendIsUnique'
  BY <1>1 DEF SpendCommitted, SpendIsUnique, Done
<1> QED
  BY <1>3, <1>4, <1>5 DEF Rest, RowIsRequested

\* A step of a call inside its open transaction that has taken its row lock
\* before: it moves on without touching the row or giving up the lock.
LEMMA HolderRest ==
  ASSUME IInv, NEW r \in Attempt, NEW a \in Redeem,
         attempt[r].pc \in {"bind", "record", "session"},
         a.wrote = attempt[r].wrote, a.ch = attempt[r].ch,
         a.pc \in {"record", "session"} => a.answer = "none",
         a.pc \in {"record", "session", "commit"},
         attempt' = [attempt EXCEPT ![r] = a], row' = row, request' = request
  PROVE  Rest'
<1> USE DEF IInv
<1>1. /\ attempt'[r] = a
      /\ \A q \in Attempt : q # r => attempt'[q] = attempt[q]
  BY DEF TypeOK
<1>2. attempt[r].wrote = "spend"
  BY DEF CallShape
<1>3. \A c \in Challenge, q \in Attempt : HoldsLock(q, c)' <=> HoldsLock(q, c)
  BY <1>1 DEF HoldsLock, RedeemPc
<1>4. CallShape'
  BY <1>1, <1>2 DEF CallShape
<1>5. LockIsExclusive' /\ LockedIsLive'
  BY <1>3 DEF LockIsExclusive, LockedIsLive
<1>6. SpendCommitted' /\ SpendIsUnique'
  BY <1>1 DEF SpendCommitted, SpendIsUnique, Done
<1> QED
  BY <1>4, <1>5, <1>6 DEF Rest, RowIsRequested

\* The two UPDATEs: the lock is taken on a live row nobody else has locked.
LEMMA LockRest ==
  ASSUME IInv, NEW r \in Attempt, NEW a \in Redeem,
         Live(r), Unlocked(attempt[r].ch),
         attempt[r].pc \in {"win", "charge"}, a.ch = attempt[r].ch,
         \/ a.pc = "bind" /\ a.wrote = "spend" /\ a.answer = "none"
         \/ a.pc = "commit" /\ a.wrote = "charge" /\ a.answer = "invalid_code",
         attempt' = [attempt EXCEPT ![r] = a], row' = row, request' = request
  PROVE  Rest'
<1> USE DEF IInv
<1>1. /\ attempt'[r] = a
      /\ \A q \in Attempt : q # r => attempt'[q] = attempt[q]
  BY DEF TypeOK
<1>2. /\ attempt[r].ch \in Challenge
      /\ row[attempt[r].ch].exists /\ ~row[attempt[r].ch].spent
      /\ row[attempt[r].ch].left > 0
  BY ParameterAssumption DEF Live, Target, NoRow, TypeOK, Redeem
<1>3. \A c \in Challenge, q \in Attempt :
        HoldsLock(q, c)' => IF q = r THEN c = attempt[r].ch ELSE HoldsLock(q, c)
  BY <1>1 DEF HoldsLock
<1>4. \A q \in Attempt : ~HoldsLock(q, attempt[r].ch)
  BY DEF Unlocked
<1>5. CallShape'
  BY <1>1, <1>2 DEF CallShape
<1>6. LockIsExclusive'
  BY <1>3, <1>4 DEF LockIsExclusive
<1>7. LockedIsLive'
  BY <1>2, <1>3 DEF LockedIsLive
<1>8. SpendCommitted' /\ SpendIsUnique'
  BY <1>1 DEF SpendCommitted, SpendIsUnique, Done
<1> QED
  BY <1>5, <1>6, <1>7, <1>8 DEF Rest, RowIsRequested

\* COMMIT: the lock keeps every other pending update and every earlier spend
\* off the row that changes.
LEMMA CommitRest == ASSUME IInv, NEW r \in Attempt, RedeemCommit(r) PROVE Rest'
<1> USE DEF IInv
<1>0. PICK c \in Challenge \cup {None} : c = attempt[r].ch
  BY DEF TypeOK, Redeem
<1>1. attempt[r].pc = "commit" /\ request' = request /\ row' = Committed(r)
  BY DEF RedeemCommit
<1>2. /\ attempt'[r].pc = "done" /\ attempt'[r].ch = c
      /\ attempt'[r].wrote = attempt[r].wrote
      /\ attempt'[r].answer \in {attempt[r].answer, "storage_unavailable"}
      /\ \A q \in Attempt : q # r => attempt'[q] = attempt[q]
  <2>1. PICK reply \in {attempt[r].answer, "storage_unavailable"} :
          attempt' = [attempt EXCEPT ![r] = [@ EXCEPT !.pc = "done", !.answer = reply]]
    BY DEF RedeemCommit
  <2>2. attempt \in [Attempt -> Redeem] /\ attempt[r] \in Redeem
    BY DEF TypeOK
  <2>3. attempt'[r] = [attempt[r] EXCEPT !.pc = "done", !.answer = reply]
    BY <2>1, <2>2
  <2>4. \A q \in Attempt : q # r => attempt'[q] = attempt[q]
    BY <2>1, <2>2
  <2>5. /\ attempt'[r].pc = "done" /\ attempt'[r].ch = attempt[r].ch
        /\ attempt'[r].wrote = attempt[r].wrote /\ attempt'[r].answer = reply
    BY <2>2, <2>3 DEF Redeem
  <2> QED
    BY <1>0, <2>1, <2>4, <2>5
<1>3. \A d \in Challenge, q \in Attempt : HoldsLock(q, d)' => q # r /\ HoldsLock(q, d)
  BY <1>2 DEF HoldsLock
<1>4. CallShape'
  BY <1>0, <1>2 DEF CallShape
<1>5. LockIsExclusive'
  BY <1>3 DEF LockIsExclusive
<1>6. CASE attempt[r].wrote = "nothing"
  <2>1. row' = row
    BY <1>1, <1>6 DEF Committed
  <2>2. LockedIsLive' /\ RowIsRequested'
    BY <1>1, <1>3, <2>1 DEF LockedIsLive, RowIsRequested
  <2>3. SpendCommitted' /\ SpendIsUnique'
    BY <1>2, <1>6, <2>1 DEF SpendCommitted, SpendIsUnique, Done
  <2> QED
    BY <1>4, <1>5, <2>2, <2>3 DEF Rest
<1>7. CASE attempt[r].wrote # "nothing"
  <2>1. c \in Challenge /\ HoldsLock(r, c)
    BY <1>0, <1>1, <1>7 DEF CallShape, HoldsLock, RedeemPc
  <2>2. \/ attempt[r].wrote = "spend" /\ row' = [row EXCEPT ![c].spent = TRUE]
        \/ attempt[r].wrote = "charge" /\ row' = [row EXCEPT ![c].left = @ - 1]
    <3>1. attempt[r].wrote \in {"spend", "charge"}
      BY <1>7 DEF TypeOK, Redeem
    <3> QED
      BY <1>0, <1>1, <3>1 DEF Committed
  <2>3. /\ row[c].exists /\ ~row[c].spent
        /\ row[c].bound = row'[c].bound /\ row'[c].exists
        /\ \A d \in Challenge : d # c => row'[d] = row[d]
    BY <2>1, <2>2 DEF LockedIsLive, TypeOK, Row
  <2>4. RowIsRequested'
    BY <1>1, <2>3 DEF RowIsRequested
  <2>5. \A q \in Attempt : ~HoldsLock(q, c)'
    BY <1>3, <2>1 DEF LockIsExclusive
  <2>6. LockedIsLive'
    BY <1>3, <2>3, <2>5 DEF LockedIsLive
  <2>7. \A q \in Attempt : Done(q) /\ attempt[q].wrote = "spend" => attempt[q].ch # c
    BY <2>3 DEF SpendCommitted
  <2>8. attempt[r].wrote = "spend" => row'[c].spent
    BY <2>1, <2>2 DEF TypeOK, Row
  <2>9. SpendCommitted'
    BY <1>2, <2>3, <2>7, <2>8 DEF SpendCommitted, Done, CallShape
  <2>10. SpendIsUnique'
    BY <1>2, <2>7 DEF SpendIsUnique, Done
  <2> QED
    BY <1>4, <1>5, <2>4, <2>6, <2>9, <2>10 DEF Rest
<1> QED
  BY <1>6, <1>7

\* The statements of redeemOtp, each by the lemma of its kind.
LEMMA ProgressRest == ASSUME IInv, NEW r \in Attempt, Progress(r) PROVE Rest'
<1>0. TypeOK /\ CallShape
  BY DEF IInv
<1>1. CASE ConsumeWin(r)
  <2>1. /\ [attempt[r] EXCEPT !.pc = "bind", !.wrote = "spend"] \in Redeem
        /\ [attempt[r] EXCEPT !.pc = "charge"] \in Redeem
    BY <1>0 DEF TypeOK, Redeem, RedeemPc
  <2>2. CASE Live(r) /\ attempt[r].right
    <3> DEFINE a == [attempt[r] EXCEPT !.pc = "bind", !.wrote = "spend"]
    <3>1. a.pc = "bind" /\ a.wrote = "spend" /\ a.answer = "none" /\ a.ch = attempt[r].ch
      BY <1>0, <1>1 DEF ConsumeWin, CallShape, TypeOK, Redeem
    <3>2. attempt' = [attempt EXCEPT ![r] = a] /\ row' = row /\ request' = request
      BY <1>1, <2>2 DEF ConsumeWin
    <3> QED
      BY <1>1, <2>1, <2>2, <3>1, <3>2, LockRest DEF ConsumeWin
  <2>3. CASE ~(Live(r) /\ attempt[r].right)
    <3> DEFINE a == [attempt[r] EXCEPT !.pc = "charge"]
    <3>1. a.pc = "charge" /\ a.wrote = "nothing" /\ a.answer = "none"
      BY <1>0, <1>1 DEF ConsumeWin, CallShape, TypeOK, Redeem
    <3>2. attempt' = [attempt EXCEPT ![r] = a] /\ row' = row /\ request' = request
      BY <1>1, <2>3 DEF ConsumeWin
    <3> QED
      BY <2>1, <3>1, <3>2, IdleRest
  <2> QED
    BY <2>2, <2>3
<1>2. CASE ConsumeCharge(r)
  <2>1. CASE Live(r) /\ ~attempt[r].right
    <3> DEFINE a == [attempt[r] EXCEPT !.pc = "commit", !.wrote = "charge",
                                       !.answer = "invalid_code",
                                       !.left = Target(r).left - 1]
    <3>1. Target(r).left - 1 \in AttemptsLeft
      BY <1>0, <2>1, TargetType, ParameterAssumption DEF Live, Row, AttemptsLeft
    <3>2. a \in Redeem
      BY <1>0, <3>1 DEF TypeOK, Redeem, RedeemPc, Answer
    <3>3. /\ a.pc = "commit" /\ a.wrote = "charge" /\ a.answer = "invalid_code"
          /\ a.ch = attempt[r].ch
      BY <1>0 DEF TypeOK, Redeem
    <3>4. attempt' = [attempt EXCEPT ![r] = a] /\ row' = row /\ request' = request
      BY <1>2, <2>1 DEF ConsumeCharge
    <3> QED
      BY <1>2, <2>1, <3>2, <3>3, <3>4, LockRest DEF ConsumeCharge
  <2>2. CASE ~(Live(r) /\ ~attempt[r].right)
    <3> DEFINE a == [attempt[r] EXCEPT !.pc = "classify"]
    <3>1. a \in Redeem /\ a.pc = "classify" /\ a.wrote = "nothing" /\ a.answer = "none"
      BY <1>0, <1>2 DEF ConsumeCharge, CallShape, TypeOK, Redeem, RedeemPc
    <3>2. attempt' = [attempt EXCEPT ![r] = a] /\ row' = row /\ request' = request
      BY <1>2, <2>2 DEF ConsumeCharge
    <3> QED
      BY <3>1, <3>2, IdleRest
  <2> QED
    BY <2>1, <2>2
<1>3. CASE ConsumeClassify(r)
  <2> DEFINE a == [attempt[r] EXCEPT !.pc = "commit", !.answer = Classification(r), !.left = 0]
  <2>1. Classification(r) \in Answer \ {"session_established"} /\ 0 \in AttemptsLeft
    BY ParameterAssumption DEF Classification, Answer, AttemptsLeft
  <2>2. a \in Redeem
    BY <1>0, <2>1 DEF TypeOK, Redeem, RedeemPc
  <2>3. a.pc = "commit" /\ a.wrote = "nothing" /\ a.answer # "session_established"
    BY <1>0, <1>3, <2>1 DEF ConsumeClassify, CallShape, TypeOK, Redeem
  <2>4. attempt' = [attempt EXCEPT ![r] = a] /\ row' = row /\ request' = request
    BY <1>3 DEF ConsumeClassify
  <2> QED
    BY <2>2, <2>3, <2>4, IdleRest
<1>4. CASE BindAccount(r) \/ RecordEvent(r) \/ CreateSession(r)
  <2>1. attempt[r].pc \in {"bind", "record", "session"} /\ row' = row /\ request' = request
    BY <1>4 DEF BindAccount, RecordEvent, CreateSession
  <2>2. PICK a \in Redeem :
          /\ a.wrote = attempt[r].wrote /\ a.ch = attempt[r].ch
          /\ a.pc \in {"record", "session", "commit"}
          /\ a.pc \in {"record", "session"} => a.answer = "none"
          /\ attempt' = [attempt EXCEPT ![r] = a]
    <3> DEFINE a1 == [attempt[r] EXCEPT !.pc = "record"]
               a2 == [attempt[r] EXCEPT !.pc = "commit", !.answer = "invalid_code", !.left = 0]
               a3 == [attempt[r] EXCEPT !.pc = "session"]
               a4 == [attempt[r] EXCEPT !.pc = "commit", !.answer = "session_established"]
    <3>1. 0 \in AttemptsLeft /\ attempt[r].answer = "none"
      BY <1>0, <2>1, ParameterAssumption DEF AttemptsLeft, CallShape
    <3>2. /\ a1 \in Redeem /\ a2 \in Redeem /\ a3 \in Redeem /\ a4 \in Redeem
          /\ \A a \in {a1, a2, a3, a4} : a.wrote = attempt[r].wrote /\ a.ch = attempt[r].ch
          /\ a1.pc = "record" /\ a2.pc = "commit" /\ a3.pc = "session" /\ a4.pc = "commit"
          /\ a1.answer = "none" /\ a3.answer = "none"
      BY <1>0, <3>1 DEF TypeOK, Redeem, RedeemPc, Answer
    <3>3. \E a \in {a1, a2, a3, a4} : attempt' = [attempt EXCEPT ![r] = a]
      BY <1>4 DEF BindAccount, RecordEvent, CreateSession
    <3> QED
      BY <3>2, <3>3
  <2> QED
    BY <2>1, <2>2, HolderRest
<1>5. CASE RedeemCommit(r)
  BY <1>5, CommitRest
<1> QED
  BY <1>1, <1>2, <1>3, <1>4, <1>5 DEF Progress

\* The invariant is inductive.
LEMMA NextIInv == IInv /\ [Next]_vars => IInv'
<1> SUFFICES ASSUME IInv, [Next]_vars PROVE Rest'
  BY NextTypeOK DEF IInv, Rest
<1>0. TypeOK /\ CallShape
  BY DEF IInv
<1>1. ASSUME NEW c \in Challenge, Ask(c) PROVE Rest'
  BY <1>1, AskRest
<1>2. ASSUME NEW r \in Attempt, Progress(r) PROVE Rest'
  BY <1>2, ProgressRest
<1>3. ASSUME NEW r \in Attempt, RedeemLimited(r) PROVE Rest'
  <2> DEFINE a == [attempt[r] EXCEPT !.pc = "done", !.answer = "rate_limited"]
  <2>1. a \in Redeem /\ a.pc = "done" /\ a.wrote = "nothing" /\ a.answer = "rate_limited"
    BY <1>0, <1>3 DEF RedeemLimited, TypeOK, CallShape, Redeem, RedeemPc, Answer
  <2> QED
    BY <1>3, <2>1, IdleRest DEF RedeemLimited
<1>4. ASSUME NEW r \in Attempt, RedeemBegin(r) PROVE Rest'
  <2>1. PICK c \in Challenge \cup {None}, right \in BOOLEAN :
          attempt' = [attempt EXCEPT ![r] = [@ EXCEPT !.pc = "win", !.ch = c,
                                                      !.right = right, !.now = clock]]
    BY <1>4 DEF RedeemBegin
  <2> DEFINE a == [attempt[r] EXCEPT !.pc = "win", !.ch = c, !.right = right, !.now = clock]
  <2>2. clock \in Nat
    BY <1>0, ParameterAssumption DEF TypeOK
  <2>3. a \in Redeem /\ a.pc = "win" /\ a.wrote = "nothing" /\ a.answer = "none"
    BY <1>0, <1>4, <2>2 DEF RedeemBegin, TypeOK, CallShape, Redeem, RedeemPc
  <2> QED
    BY <1>4, <2>1, <2>3, IdleRest DEF RedeemBegin
<1>5. ASSUME NEW r \in Attempt, RedeemAbort(r) PROVE Rest'
  <2> DEFINE a == [attempt[r] EXCEPT !.pc = "done", !.wrote = "nothing",
                                     !.answer = "storage_unavailable"]
  <2>1. /\ a \in Redeem /\ a.pc = "done" /\ a.wrote = "nothing"
        /\ a.answer = "storage_unavailable"
    BY <1>0, <1>5 DEF TypeOK, Redeem, RedeemPc, Answer
  <2> QED
    BY <1>5, <2>1, IdleRest DEF RedeemAbort
<1>6. CASE \/ \E e \in Email : Register(e) \/ Deactivate(e)
           \/ Tick
           \/ UNCHANGED vars
  <2>1. UNCHANGED <<row, request, attempt>>
    BY <1>6 DEF Register, Deactivate, Tick, vars
  <2> QED
    BY <2>1 DEF IInv, Rest, RowIsRequested, CallShape, LockIsExclusive, LockedIsLive, HoldsLock,
       SpendCommitted, SpendIsUnique, Done
<1> QED
  BY <1>1, <1>2, <1>3, <1>4, <1>5, <1>6 DEF Next
-----------------------------------------------------------------------------
\* The invariant holds throughout.
LEMMA InvariantHolds == Spec => []IInv
BY InitIInv, NextIInv, PTL DEF Spec

\* INV-11 for any number of concurrent calls: every variable keeps the shape its
\* part of the code gives it (attempts_remaining stays between 0 and
\* OTP_MAX_ATTEMPTS), and at most one redeemOtp call per challenge is answered
\* session_established.
THEOREM AtMostOneWinner == Spec => []LoginInv
<1>1. IInv => LoginInv
  BY DEF IInv, CallShape, SpendIsUnique, LoginInv, SingleWinner, Told
<1> QED
  BY <1>1, InvariantHolds, PTL

\* Once consumed, a challenge row is never written again by anyone.
THEOREM SpentRowsAreFinal == Spec => SpentIsFinal
<1>1. ASSUME IInv, [Next]_vars, NEW c \in Challenge, row[c].spent PROVE row'[c] = row[c]
  <2> USE <1>1 DEF IInv
  <2>1. CASE UNCHANGED row
    BY <2>1
  <2>2. ASSUME NEW d \in Challenge, RequestCommit(d) PROVE row'[c] = row[c]
    BY <2>2 DEF RequestCommit, RowIsRequested, TypeOK
  <2>3. ASSUME NEW r \in Attempt, RedeemCommit(r) PROVE row'[c] = row[c]
    <3>1. CASE attempt[r].wrote = "nothing"
      BY <2>3, <3>1 DEF RedeemCommit, Committed
    <3>2. CASE attempt[r].wrote # "nothing"
      <4>1. attempt[r].ch \in Challenge /\ HoldsLock(r, attempt[r].ch)
        BY <2>3, <3>2 DEF CallShape, HoldsLock, RedeemCommit, RedeemPc
      <4>2. attempt[r].ch # c
        BY <4>1 DEF LockedIsLive
      <4>3. attempt[r].wrote \in {"spend", "charge"}
        BY <3>2 DEF TypeOK, Redeem
      <4> QED
        BY <2>3, <4>1, <4>2, <4>3 DEF RedeemCommit, Committed, TypeOK
    <3> QED
      BY <3>1, <3>2
  <2> QED
    BY <2>1, <2>2, <2>3 DEF Next, vars, Ask, Progress, RequestLimited, RequestResolve,
       RequestAbort, Deliver, RedeemLimited, RedeemBegin, RedeemAbort, ConsumeWin,
       ConsumeCharge, ConsumeClassify, BindAccount, RecordEvent, CreateSession, Register,
       Deactivate, Tick
<1>2. IInv /\ [Next]_vars => [\A c \in Challenge : row[c].spent => row'[c] = row[c]]_vars
  BY <1>1
<1> QED
  BY <1>2, InvariantHolds, PTL DEF Spec, SpentIsFinal
-----------------------------------------------------------------------------
(* What a call has seen stays true: rows only go forward. *)

\* A row that exists stays, with its binding and its time, and neither a spend
\* nor the last attempt comes back.
LEMMA RowsGoForward ==
  ASSUME IInv, [Next]_vars, NEW c \in Challenge, row[c].exists
  PROVE  /\ row'[c].exists /\ row'[c].bound = row[c].bound /\ row'[c].expiresAt = row[c].expiresAt
         /\ row[c].spent => row'[c].spent
         /\ row[c].left = 0 => row'[c].left = 0
<1> USE DEF IInv
<1>1. CASE row' = row
  BY <1>1
<1>2. ASSUME NEW d \in Challenge, RequestCommit(d) PROVE row'[c] = row[c]
  BY <1>2 DEF RequestCommit, RowIsRequested, TypeOK
<1>3. ASSUME NEW r \in Attempt, RedeemCommit(r), row' # row
      PROVE  /\ row'[c].exists /\ row'[c].bound = row[c].bound
             /\ row'[c].expiresAt = row[c].expiresAt
             /\ row[c].spent => row'[c].spent
             /\ row[c].left = 0 => row'[c].left = 0
  <2>1. attempt[r].wrote \in {"spend", "charge"} /\ attempt[r].pc = "commit"
    BY <1>3 DEF RedeemCommit, Committed, TypeOK, Redeem
  <2>2. attempt[r].ch \in Challenge /\ HoldsLock(r, attempt[r].ch)
    BY <2>1 DEF CallShape, HoldsLock, RedeemPc
  <2>3. row[attempt[r].ch].left > 0 /\ row \in [Challenge -> Row]
    BY <2>2 DEF LockedIsLive, TypeOK
  <2> QED
    BY <1>3, <2>1, <2>2, <2>3 DEF RedeemCommit, Committed, Row
<1> QED
  BY <1>1, <1>2, <1>3 DEF Next, vars, Ask, Progress, RequestLimited, RequestResolve,
     RequestAbort, Deliver, RedeemLimited, RedeemBegin, RedeemAbort, ConsumeWin,
     ConsumeCharge, ConsumeClassify, BindAccount, RecordEvent, CreateSession, Register,
     Deactivate, Tick

\* What a call knows of the challenge it redeems, at each place and in its answer.
KnowsChallenge(r) ==
  /\ attempt[r].now <= clock
  /\ attempt[r].ch # None => row[attempt[r].ch].exists
  /\ attempt[r].pc \in {"bind", "record", "session"} =>
       attempt[r].right /\ attempt[r].now < Target(r).expiresAt
  /\ attempt[r].pc \in {"record", "session"} => Target(r).bound

\* A losing answer: the row was seen to be out of use, and it stays so.
LosesRightly(r) ==
  /\ attempt[r].answer = "replayed" => Target(r).spent
  /\ attempt[r].answer = "expired" => Target(r).expiresAt <= attempt[r].now
  /\ attempt[r].right /\ attempt[r].ch # None /\ attempt[r].pc \in {"charge", "classify"} =>
       Target(r).spent \/ Target(r).expiresAt <= attempt[r].now \/ Target(r).left = 0
  /\ attempt[r].right /\ attempt[r].ch # None /\ attempt[r].answer = "invalid_code" =>
       Target(r).left = 0 \/ (attempt[r].wrote = "spend" /\ ~Bindable(r))

\* A session: made in the last step before COMMIT, and for a bound challenge that
\* was not over when the call began.
WinsRightly(r) ==
  /\ r \in sessions =>
       /\ attempt[r].pc \in {"commit", "done"} /\ attempt[r].ch \in Challenge
       /\ attempt[r].right /\ Target(r).bound /\ attempt[r].now < Target(r).expiresAt
  /\ attempt[r].answer = "session_established" => r \in sessions
  /\ Told(r, "session_established") => attempt[r].ch \in evidence

Backed(r) == KnowsChallenge(r) /\ LosesRightly(r) /\ WinsRightly(r)

\* A request is bound only to an address that is registered, and one that was
\* accepted has its row.
RequestShape ==
  \A c \in Challenge :
    /\ request[c].pc = "accepted" => row[c].exists
    /\ request[c].bound => account[Addressee[c]] # "none"

BackedInv == RequestShape /\ \A r \in Attempt : Backed(r)

\* The initial state satisfies the invariant: nothing was granted yet.
LEMMA InitBacked == Init => BackedInv
<1> SUFFICES ASSUME Init PROVE BackedInv
  OBVIOUS
<1>1. RequestShape
  BY DEF Init, RequestShape
<1>2. ASSUME NEW r \in Attempt PROVE Backed(r)
  BY DEF Init, Backed, KnowsChallenge, LosesRightly, WinsRightly, Told, Done
<1> QED
  BY <1>1, <1>2 DEF BackedInv

\* An account that was registered is never unregistered, nor reactivated.
LEMMA AccountsGoForward ==
  ASSUME IInv, [Next]_vars, NEW e \in Email, account[e] # "none"
  PROVE  account'[e] # "none" /\ (account'[e] = "active" => account[e] = "active")
<1>1. account \in [Email -> AccountState]
  BY DEF IInv, TypeOK
<1>2. CASE account' = account
  BY <1>2
<1>3. ASSUME NEW f \in Email, Register(f) \/ Deactivate(f)
      PROVE account'[e] # "none" /\ (account'[e] = "active" => account[e] = "active")
  BY <1>1, <1>3 DEF Register, Deactivate
<1> QED
  BY <1>2, <1>3 DEF Next, vars, Ask, Progress, RequestLimited, RequestResolve, RequestCommit,
     RequestAbort, Deliver, RedeemLimited, RedeemBegin, RedeemAbort, ConsumeWin,
     ConsumeCharge, ConsumeClassify, BindAccount, RecordEvent, CreateSession, RedeemCommit, Tick

\* Every step keeps what a place of requestOtp knows.
LEMMA NextRequestShape == IInv /\ BackedInv /\ [Next]_vars => RequestShape'
<1> SUFFICES ASSUME IInv, BackedInv, [Next]_vars, NEW c \in Challenge
             PROVE  /\ request'[c].pc = "accepted" => row'[c].exists
                    /\ request'[c].bound => account'[Addressee[c]] # "none"
  BY DEF RequestShape
<1>0. TypeOK /\ Addressee[c] \in Email
      /\ (request[c].pc = "accepted" => row[c].exists)
      /\ (request[c].bound => account[Addressee[c]] # "none")
  BY ParameterAssumption DEF IInv, BackedInv, RequestShape
<1>1. CASE request' = request
  BY <1>0, <1>1, RowsGoForward, AccountsGoForward
<1>2. ASSUME NEW d \in Challenge, Ask(d)
      PROVE  /\ request'[c].pc = "accepted" => row'[c].exists
             /\ request'[c].bound => account'[Addressee[c]] # "none"
  <2>1. account' = account
    BY <1>2 DEF Ask, RequestLimited, RequestResolve, RequestCommit, RequestAbort, Deliver
  <2>2. CASE d # c
    <3>1. request'[c] = request[c] /\ row'[c] = row[c]
      BY <1>0, <1>2, <2>2
      DEF Ask, RequestLimited, RequestResolve, RequestCommit, RequestAbort, Deliver, TypeOK
    <3> QED
      BY <1>0, <2>1, <3>1
  <2>3. CASE d = c
    <3>1. CASE RequestCommit(c)
      BY <1>0, <2>1, <3>1 DEF RequestCommit, TypeOK, Request
    <3>2. CASE RequestLimited(c) \/ RequestResolve(c) \/ RequestAbort(c)
      BY <1>0, <2>1, <3>2 DEF RequestLimited, RequestResolve, RequestAbort, TypeOK, Request
    <3>3. CASE Deliver(c)
      BY <1>0, <2>1, <3>3 DEF Deliver
    <3> QED
      BY <1>2, <2>3, <3>1, <3>2, <3>3 DEF Ask
  <2> QED
    BY <2>2, <2>3
<1> QED
  BY <1>1, <1>2 DEF Next, vars, Progress, RedeemLimited, RedeemBegin, RedeemAbort, ConsumeWin,
     ConsumeCharge, ConsumeClassify, BindAccount, RecordEvent, CreateSession, RedeemCommit,
     Register, Deactivate, Tick

\* What stays true of the challenge of a call, whoever takes the step.
LEMMA TargetGoesForward ==
  ASSUME IInv, BackedInv, [Next]_vars, NEW r \in Attempt, attempt'[r].ch = attempt[r].ch
  PROVE  /\ attempt[r].ch # None => row'[attempt[r].ch].exists
         /\ Target(r)'.bound = Target(r).bound /\ Target(r)'.expiresAt = Target(r).expiresAt
         /\ Target(r).spent => Target(r)'.spent
         /\ Target(r).left = 0 => Target(r)'.left = 0
         /\ attempt[r].ch # None /\ ~Bindable(r) => ~Bindable(r)'
<1>1. CASE attempt[r].ch = None
  BY <1>1 DEF Target
<1>2. CASE attempt[r].ch # None
  <2>1. attempt[r].ch \in Challenge /\ row[attempt[r].ch].exists /\ Target(r) = row[attempt[r].ch]
        /\ Target(r)' = row'[attempt[r].ch]
    BY <1>2 DEF IInv, TypeOK, Redeem, BackedInv, Backed, KnowsChallenge, Target
  <2>2. row[attempt[r].ch].bound => account[Addressee[attempt[r].ch]] # "none"
    BY <2>1 DEF IInv, RowIsRequested, BackedInv, RequestShape
  <2>3. Addressee[attempt[r].ch] \in Email
    BY <2>1, ParameterAssumption
  <2>4. /\ row'[attempt[r].ch].exists /\ row'[attempt[r].ch].bound = row[attempt[r].ch].bound
        /\ row'[attempt[r].ch].expiresAt = row[attempt[r].ch].expiresAt
        /\ row[attempt[r].ch].spent => row'[attempt[r].ch].spent
        /\ row[attempt[r].ch].left = 0 => row'[attempt[r].ch].left = 0
    BY <2>1, RowsGoForward
  <2>5. ~Bindable(r) => ~Bindable(r)'
    BY <2>1, <2>2, <2>3, <2>4, AccountsGoForward DEF Bindable
  <2> QED
    BY <2>1, <2>4, <2>5
<1> QED
  BY <1>1, <1>2
\* A step of anybody else leaves what a call knows true.
LEMMA OthersBacked ==
  ASSUME IInv, BackedInv, [Next]_vars, NEW r \in Attempt, attempt'[r] = attempt[r]
  PROVE  Backed(r)'
<1>0. Backed(r) /\ TypeOK
  BY DEF BackedInv, IInv
<1>1. clock \in Nat /\ clock' \in Nat /\ clock <= clock' /\ attempt[r].now \in Nat
  <2>1. TypeOK'
    BY NextTypeOK
  <2>2. clock \in Nat /\ clock' \in Nat /\ attempt[r].now \in Nat
    BY <1>0, <2>1, ParameterAssumption DEF TypeOK, Redeem
  <2>3. clock' = clock \/ clock' = clock + 1
    BY DEF Next, vars, Ask, Progress, RequestLimited, RequestResolve, RequestCommit,
     RequestAbort, Deliver, RedeemLimited, RedeemBegin, RedeemAbort, ConsumeWin,
     ConsumeCharge, ConsumeClassify, BindAccount, RecordEvent, CreateSession, RedeemCommit,
     Register, Deactivate, Tick
  <2> QED
    BY <2>2, <2>3
<1>2. (r \in sessions' <=> r \in sessions) /\ evidence \subseteq evidence'
  <2>1. CASE UNCHANGED <<sessions, evidence>>
    BY <2>1
  <2>2. ASSUME NEW q \in Attempt, CreateSession(q)
        PROVE  (r \in sessions' <=> r \in sessions) /\ evidence \subseteq evidence'
    <3>1. q # r
      <4>1. q = r => attempt[r].pc = "session" /\ attempt'[r].pc = "commit"
        BY <1>0, <2>2 DEF CreateSession, TypeOK, Redeem
      <4> QED
        BY <4>1
    <3> QED
      BY <2>2, <3>1 DEF CreateSession
  <2>3. ASSUME NEW q \in Attempt, RedeemCommit(q)
        PROVE  (r \in sessions' <=> r \in sessions) /\ evidence \subseteq evidence'
    BY <2>3 DEF RedeemCommit
  <2> QED
    BY <2>1, <2>2, <2>3
    DEF Next, vars, Ask, Progress, RequestLimited, RequestResolve, RequestCommit,
     RequestAbort, Deliver, RedeemLimited, RedeemBegin, RedeemAbort, ConsumeWin,
     ConsumeCharge, ConsumeClassify, BindAccount, RecordEvent, Register, Deactivate, Tick
<1>3. /\ attempt[r].ch # None => row'[attempt[r].ch].exists
      /\ Target(r)'.bound = Target(r).bound /\ Target(r)'.expiresAt = Target(r).expiresAt
      /\ Target(r).spent => Target(r)'.spent
      /\ Target(r).left = 0 => Target(r)'.left = 0
      /\ attempt[r].ch # None /\ ~Bindable(r) => ~Bindable(r)'
  BY TargetGoesForward
<1>4. KnowsChallenge(r)'
  BY <1>0, <1>1, <1>3 DEF Backed, KnowsChallenge
<1>5. LosesRightly(r)'
  BY <1>0, <1>3 DEF Backed, LosesRightly
<1>6. WinsRightly(r)'
  BY <1>0, <1>2, <1>3 DEF Backed, WinsRightly, Told, Done
<1> QED
  BY <1>4, <1>5, <1>6 DEF Backed

\* The statements of a call before its COMMIT: they change its record and, the
\* last of them, the sessions.
LEMMA StatementBacked ==
  ASSUME IInv, BackedInv, NEW r \in Attempt, Progress(r), ~RedeemCommit(r)
  PROVE  Backed(r)'
<1>0. /\ Backed(r) /\ TypeOK /\ CallShape /\ attempt[r] \in Redeem
      /\ (attempt[r].ch # None => attempt[r].ch \in Challenge)
  BY DEF BackedInv, IInv, TypeOK, Redeem
<1>1. clock' = clock /\ row' = row /\ account' = account /\ evidence' = evidence
  BY DEF Progress, ConsumeWin, ConsumeCharge, ConsumeClassify, BindAccount, RecordEvent,
     CreateSession
<1>2. ASSUME NEW a, attempt' = [attempt EXCEPT ![r] = a], a.ch = attempt[r].ch
      PROVE  /\ attempt'[r] = a /\ Target(r)' = Target(r)
             /\ attempt[r].ch # None => (Bindable(r)' <=> Bindable(r))
  BY <1>0, <1>1, <1>2 DEF TypeOK, Target, Bindable
<1>3. CASE ConsumeWin(r)
  <2>0. /\ attempt[r].pc = "win" /\ attempt[r].answer = "none" /\ sessions' = sessions
        /\ r \notin sessions
    BY <1>0, <1>3 DEF ConsumeWin, CallShape, Backed, WinsRightly
  <2>1. CASE Live(r) /\ attempt[r].right
    <3> DEFINE a == [attempt[r] EXCEPT !.pc = "bind", !.wrote = "spend"]
    <3>1. a.ch = attempt[r].ch /\ a.pc = "bind" /\ a.answer = "none" /\ a.now = attempt[r].now
          /\ a.right = attempt[r].right
      BY <1>0, <2>0 DEF Redeem
    <3>2. attempt'[r] = a /\ Target(r)' = Target(r)
      BY <1>2, <1>3, <2>1, <3>1 DEF ConsumeWin
    <3>3. attempt[r].now < Target(r).expiresAt
      BY <2>1 DEF Live
    <3> QED
      BY <1>0, <1>1, <2>0, <2>1, <3>1, <3>2, <3>3
      DEF Backed, KnowsChallenge, LosesRightly, WinsRightly, Told, Done
  <2>2. CASE ~(Live(r) /\ attempt[r].right)
    <3> DEFINE a == [attempt[r] EXCEPT !.pc = "charge"]
    <3>1. a.ch = attempt[r].ch /\ a.pc = "charge" /\ a.answer = "none" /\ a.now = attempt[r].now
          /\ a.right = attempt[r].right
      BY <1>0, <2>0 DEF Redeem
    <3>2. attempt'[r] = a /\ Target(r)' = Target(r)
      BY <1>2, <1>3, <2>2, <3>1 DEF ConsumeWin
    <3>3. attempt[r].right /\ attempt[r].ch # None =>
            Target(r).spent \/ Target(r).expiresAt <= attempt[r].now \/ Target(r).left = 0
      <4>1. Target(r) \in Row /\ attempt[r].now \in Nat
        BY <1>0, TargetType DEF Redeem
      <4>2. attempt[r].ch # None => Target(r).exists
        BY <1>0 DEF Backed, KnowsChallenge, Target
      <4> QED
        BY <2>2, <4>1, <4>2, ParameterAssumption DEF Live, Row, AttemptsLeft
    <3> QED
      BY <1>0, <1>1, <2>0, <3>1, <3>2, <3>3
      DEF Backed, KnowsChallenge, LosesRightly, WinsRightly, Told, Done
  <2> QED
    BY <2>1, <2>2
<1>4. CASE ConsumeCharge(r)
  <2>0. /\ attempt[r].pc = "charge" /\ attempt[r].answer = "none" /\ sessions' = sessions
        /\ r \notin sessions
    BY <1>0, <1>4 DEF ConsumeCharge, CallShape, Backed, WinsRightly
  <2>1. CASE Live(r) /\ ~attempt[r].right
    <3> DEFINE a == [attempt[r] EXCEPT !.pc = "commit", !.wrote = "charge",
                                       !.answer = "invalid_code",
                                       !.left = Target(r).left - 1]
    <3>1. a.ch = attempt[r].ch /\ a.pc = "commit" /\ a.answer = "invalid_code"
          /\ a.now = attempt[r].now /\ a.right = attempt[r].right
      BY <1>0, <2>0 DEF Redeem
    <3>2. attempt'[r] = a /\ Target(r)' = Target(r)
      BY <1>2, <1>4, <2>1, <3>1 DEF ConsumeCharge
    <3> QED
      BY <1>0, <1>1, <2>0, <2>1, <3>1, <3>2
      DEF Backed, KnowsChallenge, LosesRightly, WinsRightly, Told, Done
  <2>2. CASE ~(Live(r) /\ ~attempt[r].right)
    <3> DEFINE a == [attempt[r] EXCEPT !.pc = "classify"]
    <3>1. a.ch = attempt[r].ch /\ a.pc = "classify" /\ a.answer = "none"
          /\ a.now = attempt[r].now /\ a.right = attempt[r].right
      BY <1>0, <2>0 DEF Redeem
    <3>2. attempt'[r] = a /\ Target(r)' = Target(r)
      BY <1>2, <1>4, <2>2, <3>1 DEF ConsumeCharge
    <3> QED
      BY <1>0, <1>1, <2>0, <3>1, <3>2
      DEF Backed, KnowsChallenge, LosesRightly, WinsRightly, Told, Done
  <2> QED
    BY <2>1, <2>2
<1>5. CASE ConsumeClassify(r)
  <2> DEFINE a == [attempt[r] EXCEPT !.pc = "commit", !.answer = Classification(r), !.left = 0]
  <2>0. /\ attempt[r].pc = "classify" /\ sessions' = sessions /\ r \notin sessions
    BY <1>0, <1>5 DEF ConsumeClassify, Backed, WinsRightly
  <2>1. a.ch = attempt[r].ch /\ a.pc = "commit" /\ a.answer = Classification(r)
        /\ a.now = attempt[r].now /\ a.right = attempt[r].right
    BY <1>0, <2>0 DEF Redeem
  <2>2. attempt'[r] = a /\ Target(r)' = Target(r)
    BY <1>2, <1>5, <2>1 DEF ConsumeClassify
  <2>3. /\ Classification(r) = "replayed" => Target(r).spent
        /\ Classification(r) = "expired" => Target(r).expiresAt <= attempt[r].now
        /\ Classification(r) # "session_established"
        /\ Classification(r) = "invalid_code" /\ Target(r).exists =>
             ~Target(r).spent /\ ~(Target(r).expiresAt <= attempt[r].now)
    BY DEF Classification
  <2>4. attempt[r].ch # None => Target(r).exists
    BY <1>0 DEF Backed, KnowsChallenge, Target
  <2>5. LosesRightly(r)'
    BY <1>0, <2>0, <2>1, <2>2, <2>3, <2>4 DEF Backed, LosesRightly
  <2> QED
    BY <1>0, <1>1, <2>0, <2>1, <2>2, <2>3, <2>5
    DEF Backed, KnowsChallenge, WinsRightly, Told, Done
<1>6. CASE BindAccount(r)
  <2>0. /\ attempt[r].pc = "bind" /\ attempt[r].answer = "none" /\ attempt[r].wrote = "spend"
        /\ sessions' = sessions /\ r \notin sessions
    BY <1>0, <1>6 DEF BindAccount, CallShape, Backed, WinsRightly
  <2>1. CASE Bindable(r)
    <3> DEFINE a == [attempt[r] EXCEPT !.pc = "record"]
    <3>1. a.ch = attempt[r].ch /\ a.pc = "record" /\ a.answer = "none"
          /\ a.now = attempt[r].now /\ a.right = attempt[r].right
      BY <1>0, <2>0 DEF Redeem
    <3>2. attempt'[r] = a /\ Target(r)' = Target(r)
      BY <1>2, <1>6, <2>1, <3>1 DEF BindAccount
    <3> QED
      BY <1>0, <1>1, <2>0, <2>1, <3>1, <3>2
      DEF Backed, KnowsChallenge, LosesRightly, WinsRightly, Told, Done, Bindable
  <2>2. CASE ~Bindable(r)
    <3> DEFINE a == [attempt[r] EXCEPT !.pc = "commit", !.answer = "invalid_code", !.left = 0]
    <3>1. a.ch = attempt[r].ch /\ a.pc = "commit" /\ a.answer = "invalid_code"
          /\ a.now = attempt[r].now /\ a.right = attempt[r].right /\ a.wrote = "spend"
      BY <1>0, <2>0 DEF Redeem
    <3>2. attempt'[r] = a /\ Target(r)' = Target(r)
          /\ (attempt[r].ch # None => (Bindable(r)' <=> Bindable(r)))
      BY <1>2, <1>6, <2>2, <3>1 DEF BindAccount
    <3> QED
      BY <1>0, <1>1, <2>0, <2>2, <3>1, <3>2
      DEF Backed, KnowsChallenge, LosesRightly, WinsRightly, Told, Done
  <2> QED
    BY <2>1, <2>2
<1>7. CASE RecordEvent(r)
  <2> DEFINE a == [attempt[r] EXCEPT !.pc = "session"]
  <2>0. /\ attempt[r].pc = "record" /\ attempt[r].answer = "none"
        /\ sessions' = sessions /\ r \notin sessions
    BY <1>0, <1>7 DEF RecordEvent, CallShape, Backed, WinsRightly
  <2>1. a.ch = attempt[r].ch /\ a.pc = "session" /\ a.answer = "none"
        /\ a.now = attempt[r].now /\ a.right = attempt[r].right
    BY <1>0, <2>0 DEF Redeem
  <2>2. attempt'[r] = a /\ Target(r)' = Target(r)
    BY <1>2, <1>7, <2>1 DEF RecordEvent
  <2> QED
    BY <1>0, <1>1, <2>0, <2>1, <2>2
    DEF Backed, KnowsChallenge, LosesRightly, WinsRightly, Told, Done
<1>8. CASE CreateSession(r)
  <2> DEFINE a == [attempt[r] EXCEPT !.pc = "commit", !.answer = "session_established"]
  <2>0. /\ attempt[r].pc = "session" /\ sessions' = sessions \cup {r}
        /\ attempt[r].ch \in Challenge
    BY <1>0, <1>8 DEF CreateSession, CallShape
  <2>1. a.ch = attempt[r].ch /\ a.pc = "commit" /\ a.answer = "session_established"
        /\ a.now = attempt[r].now /\ a.right = attempt[r].right
    BY <1>0, <2>0 DEF Redeem
  <2>2. attempt'[r] = a /\ Target(r)' = Target(r)
    BY <1>2, <1>8, <2>1 DEF CreateSession
  <2> QED
    BY <1>0, <1>1, <2>0, <2>1, <2>2
    DEF Backed, KnowsChallenge, LosesRightly, WinsRightly, Told, Done
<1> QED
  BY <1>3, <1>4, <1>5, <1>6, <1>7, <1>8 DEF Progress

\* The steps that begin and end a call.
LEMMA EndsBacked ==
  ASSUME IInv, BackedInv, [Next]_vars, NEW r \in Attempt,
         RedeemLimited(r) \/ RedeemBegin(r) \/ RedeemAbort(r) \/ RedeemCommit(r)
  PROVE  Backed(r)'
<1>0. /\ Backed(r) /\ RequestShape /\ TypeOK /\ CallShape /\ attempt[r] \in Redeem
  BY DEF BackedInv, IInv, TypeOK
<1>1. clock' = clock /\ sessions' = sessions
  BY DEF RedeemLimited, RedeemBegin, RedeemAbort, RedeemCommit
<1>2. ASSUME NEW a, attempt' = [attempt EXCEPT ![r] = a], a.ch = attempt[r].ch,
             a.pc = "done", a.now = attempt[r].now, a.right = attempt[r].right,
             \/ a.answer \in {"rate_limited", "storage_unavailable"}
             \/ a.answer = attempt[r].answer /\ a.wrote = attempt[r].wrote
                /\ (a.answer = "session_established" => attempt[r].ch \in evidence')
      PROVE  Backed(r)'
  <2>1. attempt'[r] = a
    BY <1>0, <1>2 DEF TypeOK
  <2>2. /\ attempt[r].ch # None => row'[attempt[r].ch].exists
        /\ Target(r)'.bound = Target(r).bound /\ Target(r)'.expiresAt = Target(r).expiresAt
        /\ Target(r).spent => Target(r)'.spent
        /\ Target(r).left = 0 => Target(r)'.left = 0
        /\ attempt[r].ch # None /\ ~Bindable(r) => ~Bindable(r)'
    BY <1>2, <2>1, TargetGoesForward
  <2>3. KnowsChallenge(r)'
    BY <1>0, <1>1, <1>2, <2>1, <2>2 DEF Backed, KnowsChallenge
  <2>4. LosesRightly(r)'
    BY <1>0, <1>2, <2>1, <2>2 DEF Backed, LosesRightly
  <2>5. WinsRightly(r)'
    BY <1>0, <1>1, <1>2, <2>1, <2>2 DEF Backed, WinsRightly, Told, Done
  <2> QED
    BY <2>3, <2>4, <2>5 DEF Backed
<1>3. CASE RedeemLimited(r)
  <2> DEFINE a == [attempt[r] EXCEPT !.pc = "done", !.answer = "rate_limited"]
  <2>1. /\ attempt' = [attempt EXCEPT ![r] = a] /\ a.ch = attempt[r].ch /\ a.pc = "done"
        /\ a.now = attempt[r].now /\ a.right = attempt[r].right /\ a.answer = "rate_limited"
    BY <1>0, <1>3 DEF RedeemLimited, Redeem
  <2> HIDE DEF a
  <2> QED
    BY <1>2, <2>1
<1>4. CASE RedeemAbort(r)
  <2> DEFINE a == [attempt[r] EXCEPT !.pc = "done", !.wrote = "nothing",
                                     !.answer = "storage_unavailable"]
  <2>1. /\ attempt' = [attempt EXCEPT ![r] = a] /\ a.ch = attempt[r].ch /\ a.pc = "done"
        /\ a.now = attempt[r].now /\ a.right = attempt[r].right
        /\ a.answer = "storage_unavailable"
    BY <1>0, <1>4 DEF RedeemAbort, Redeem
  <2> HIDE DEF a
  <2> QED
    BY <1>2, <2>1
<1>5. CASE RedeemCommit(r)
  <2>1. PICK reply \in {attempt[r].answer, "storage_unavailable"} :
          attempt' = [attempt EXCEPT ![r] = [@ EXCEPT !.pc = "done", !.answer = reply]]
    BY <1>5 DEF RedeemCommit
  <2> DEFINE a == [attempt[r] EXCEPT !.pc = "done", !.answer = reply]
  <2>2. /\ attempt' = [attempt EXCEPT ![r] = a] /\ a.ch = attempt[r].ch /\ a.pc = "done"
        /\ a.now = attempt[r].now /\ a.right = attempt[r].right
        /\ a.answer = reply /\ a.wrote = attempt[r].wrote
    BY <1>0, <2>1 DEF Redeem
  <2>3. attempt[r].answer = "session_established" => attempt[r].ch \in evidence'
    BY <1>5 DEF RedeemCommit
  <2> HIDE DEF a
  <2> QED
    BY <1>2, <2>2, <2>3
<1>6. CASE RedeemBegin(r)
  <2>1. PICK c \in {d \in Challenge : request[d].pc = "accepted"} \cup {None},
             right \in BOOLEAN :
          attempt' = [attempt EXCEPT ![r] = [@ EXCEPT !.pc = "win", !.ch = c,
                                                      !.right = right, !.now = clock]]
    BY <1>6 DEF RedeemBegin
  <2>2. /\ attempt'[r].pc = "win" /\ attempt'[r].ch = c /\ attempt'[r].now = clock
        /\ attempt'[r].answer = "none" /\ row' = row /\ r \notin sessions
    BY <1>0, <1>6, <2>1 DEF RedeemBegin, TypeOK, Redeem, CallShape, Backed, WinsRightly
  <2>3. c # None => row[c].exists
    BY <1>0, <2>1 DEF RequestShape
  <2>4. clock <= clock
    BY <1>0, ParameterAssumption DEF TypeOK
  <2> QED
    BY <1>1, <2>2, <2>3, <2>4
    DEF Backed, KnowsChallenge, LosesRightly, WinsRightly, Told, Done
<1> QED
  BY <1>3, <1>4, <1>5, <1>6

\* Every step keeps what backs the answers and the sessions.
LEMMA NextBacked == IInv /\ BackedInv /\ [Next]_vars => BackedInv'
<1> SUFFICES ASSUME IInv, BackedInv, [Next]_vars, NEW r \in Attempt PROVE Backed(r)'
  BY NextRequestShape DEF BackedInv
<1>1. CASE attempt'[r] = attempt[r]
  BY <1>1, OthersBacked
<1>2. CASE attempt'[r] # attempt[r]
  <2>1. RedeemLimited(r) \/ RedeemBegin(r) \/ Progress(r) \/ RedeemAbort(r)
    <3>1. attempt \in [Attempt -> Redeem]
      BY DEF IInv, TypeOK
    <3>2. ASSUME NEW q \in Attempt,
                 RedeemLimited(q) \/ RedeemBegin(q) \/ Progress(q) \/ RedeemAbort(q)
          PROVE  q = r
      BY <1>2, <3>1, <3>2
      DEF Progress, RedeemLimited, RedeemBegin, RedeemAbort, ConsumeWin, ConsumeCharge,
          ConsumeClassify, BindAccount, RecordEvent, CreateSession, RedeemCommit
    <3>3. attempt' # attempt
      BY <1>2
    <3> QED
      BY <3>2, <3>3 DEF Next, vars, Ask, RequestLimited, RequestResolve, RequestCommit,
         RequestAbort, Deliver, Register, Deactivate, Tick
  <2> QED
    BY <2>1, StatementBacked, EndsBacked DEF Progress
<1> QED
  BY <1>1, <1>2

\* Both invariants hold in every reachable state.
LEMMA BackedHolds == Spec => [](IInv /\ BackedInv)
<1>1. Init => IInv /\ BackedInv
  BY InitIInv, InitBacked
<1>2. IInv /\ BackedInv /\ [Next]_vars => (IInv /\ BackedInv)'
  BY NextIInv, NextBacked
<1> QED
  BY <1>1, <1>2, PTL DEF Spec

\* Every answer is true of the challenge, whichever of the three statements of
\* consume gave it and whatever the other calls did meanwhile.
THEOREM AnswersAreTrue == Spec => []TruthfulAnswers
<1>1. IInv /\ BackedInv => TruthfulAnswers
  <2> SUFFICES ASSUME IInv, BackedInv, NEW r \in Attempt, attempt[r].ch # None
               PROVE  /\ Told(r, "replayed") => Target(r).spent
                      /\ Told(r, "expired") => Target(r).expiresAt <= clock
                      /\ Told(r, "invalid_code") /\ attempt[r].right =>
                            \/ Target(r).left = 0
                            \/ attempt[r].wrote = "spend" /\ ~Bindable(r)
    BY DEF TruthfulAnswers
  <2>1. /\ KnowsChallenge(r) /\ LosesRightly(r) /\ Target(r) \in Row
        /\ attempt[r].now \in Nat /\ clock \in Nat
    BY TargetType, ParameterAssumption DEF BackedInv, Backed, IInv, TypeOK, Redeem
  <2>2. Told(r, "expired") => Target(r).expiresAt <= clock
    BY <2>1 DEF KnowsChallenge, LosesRightly, Told, Row
  <2> QED
    BY <2>1, <2>2 DEF LosesRightly, Told
<1> QED
  BY <1>1, BackedHolds, PTL

\* A session that is announced has its challenge spent and its evidence recorded
\* (INV-20), and no session is for a challenge without an account, or that was
\* over when the call began.
THEOREM GrantsAreBacked == Spec => []GrantIsBacked
<1>1. IInv /\ BackedInv => GrantIsBacked
  <2> SUFFICES ASSUME IInv, BackedInv, NEW r \in Attempt
               PROVE  /\ Told(r, "session_established") =>
                           r \in sessions /\ Target(r).spent /\ attempt[r].ch \in evidence
                      /\ r \in sessions =>
                           /\ Target(r).bound /\ attempt[r].right
                           /\ request[attempt[r].ch].bound
                           /\ attempt[r].now < Target(r).expiresAt
    BY DEF GrantIsBacked
  <2>1. WinsRightly(r)
    BY DEF BackedInv, Backed
  <2>2. attempt[r].ch \in Challenge => attempt[r].ch # None /\ Target(r) = row[attempt[r].ch]
    BY ParameterAssumption DEF Target
  <2>3. Told(r, "session_established") => Target(r).spent
    BY <2>1, <2>2 DEF IInv, CallShape, SpendCommitted, Told, WinsRightly
  <2>4. r \in sessions => /\ Target(r).bound /\ attempt[r].right /\ request[attempt[r].ch].bound
                          /\ attempt[r].now < Target(r).expiresAt
    BY <2>1, <2>2 DEF WinsRightly, IInv, RowIsRequested
  <2> QED
    BY <2>1, <2>3, <2>4 DEF WinsRightly, Told
<1> QED
  BY <1>1, BackedHolds, PTL
-----------------------------------------------------------------------------
(* The budget: every committed charge is counted, once. *)

MissesOf(c) == {<<c, r>> : r \in ChargedTo(c)}

\* What was charged to a challenge adds up with what is left of it, and a pending
\* charge holds the number that is next.
BudgetShape(c) ==
  /\ IsFiniteSet(ChargedTo(c)) /\ IsFiniteSet(MissesOf(c))
  /\ Cardinality(MissesOf(c)) = Cardinality(ChargedTo(c))
  /\ row[c].exists => row[c].left + Cardinality(ChargedTo(c)) = MaxAttempts
  /\ ~row[c].exists => ChargedTo(c) = {}
  /\ \A r \in ChargedTo(c) : row[c].left <= attempt[r].left
  /\ \A q, r \in ChargedTo(c) : q # r => attempt[q].left # attempt[r].left
  /\ \A r \in Attempt :
       HoldsLock(r, c) /\ attempt[r].wrote = "charge" => attempt[r].left = row[c].left - 1

BudgetInv == \A c \in Challenge : BudgetShape(c)

\* The initial state satisfies the invariant: nothing was charged yet.
LEMMA InitBudget == Init => BudgetInv
<1> SUFFICES ASSUME Init, NEW c \in Challenge PROVE BudgetShape(c)
  BY DEF BudgetInv
<1>1. ChargedTo(c) = {} /\ MissesOf(c) = {} /\ ~row[c].exists
  BY DEF Init, ChargedTo, MissesOf, Done, NoRow
<1>2. \A r \in Attempt : ~HoldsLock(r, c)
  BY DEF Init, HoldsLock
<1> QED
  BY <1>1, <1>2, FS_EmptySet DEF BudgetShape

\* A step that ends no charge: what was charged stays as it is, and so does what
\* is left of a row that exists.
LEMMA UnchargedBudget ==
  ASSUME IInv, BudgetInv, NEW c \in Challenge,
         \A r \in Attempt : r \in ChargedTo(c)' <=> r \in ChargedTo(c),
         \A r \in ChargedTo(c) : attempt'[r].left = attempt[r].left,
         row[c].exists => row'[c].exists /\ row'[c].left = row[c].left,
         ~row[c].exists => ~row'[c].exists \/ row'[c].left = MaxAttempts,
         \A r \in Attempt :
           HoldsLock(r, c)' /\ attempt'[r].wrote = "charge" =>
             attempt'[r].left = row'[c].left - 1
  PROVE  BudgetShape(c)'
<1>0. BudgetShape(c) /\ MaxAttempts \in Nat
  BY ParameterAssumption DEF BudgetInv
<1>1. ChargedTo(c)' = ChargedTo(c) /\ MissesOf(c)' = MissesOf(c)
  <2>1. ChargedTo(c)' = ChargedTo(c)
    BY DEF ChargedTo
  <2> QED
    BY <2>1 DEF MissesOf
<1>2. \A r \in ChargedTo(c) : attempt'[r].left = attempt[r].left
  OBVIOUS
<1>3. row'[c].exists => row'[c].left + Cardinality(ChargedTo(c)) = MaxAttempts
  BY <1>0, FS_EmptySet DEF BudgetShape
<1>4. /\ ~row'[c].exists => ChargedTo(c) = {}
      /\ \A r \in ChargedTo(c) : row'[c].left <= attempt'[r].left
  BY <1>0, <1>2 DEF BudgetShape
<1>5. \A q, r \in ChargedTo(c) : q # r => attempt'[q].left # attempt'[r].left
  BY <1>0, <1>2 DEF BudgetShape
<1> QED
  BY <1>0, <1>1, <1>3, <1>4, <1>5 DEF BudgetShape

\* The COMMIT of a charge: one more is charged, and one less is left.
LEMMA ChargedBudget ==
  ASSUME IInv, BudgetInv, NEW c \in Challenge, NEW r \in Attempt,
         RedeemCommit(r), attempt[r].wrote = "charge", attempt[r].ch = c
  PROVE  /\ BudgetShape(c)' /\ ChargedTo(c)' = ChargedTo(c) \cup {r} /\ r \notin ChargedTo(c)
<1>0. /\ TypeOK /\ LockIsExclusive /\ BudgetShape(c) /\ MaxAttempts \in Nat /\ HoldsLock(r, c)
      /\ row[c] \in Row /\ row[c].exists /\ row[c].left > 0
  BY ParameterAssumption
  DEF IInv, TypeOK, BudgetInv, RedeemCommit, HoldsLock, RedeemPc, LockedIsLive
<1>1. /\ attempt'[r].pc = "done" /\ attempt'[r].ch = c /\ attempt'[r].wrote = "charge"
      /\ attempt'[r].left = attempt[r].left
      /\ \A q \in Attempt : q # r => attempt'[q] = attempt[q]
      /\ ~Done(r)
  <2>1. PICK reply \in {attempt[r].answer, "storage_unavailable"} :
          attempt' = [attempt EXCEPT ![r] = [@ EXCEPT !.pc = "done", !.answer = reply]]
    BY DEF RedeemCommit
  <2>2. attempt[r] \in Redeem /\ attempt \in [Attempt -> Redeem]
    BY <1>0 DEF TypeOK
  <2>3. attempt'[r] = [attempt[r] EXCEPT !.pc = "done", !.answer = reply]
        /\ \A q \in Attempt : q # r => attempt'[q] = attempt[q]
    BY <2>1, <2>2
  <2> QED
    BY <2>2, <2>3 DEF Redeem, RedeemCommit, Done
<1>2. row'[c].exists /\ row'[c].left = row[c].left - 1 /\ row[c].left \in Nat
  BY <1>0, ParameterAssumption DEF RedeemCommit, Committed, TypeOK, Row, AttemptsLeft
<1>3. ChargedTo(c)' = ChargedTo(c) \cup {r} /\ r \notin ChargedTo(c)
  BY <1>1 DEF ChargedTo, Done
<1>4. MissesOf(c)' = MissesOf(c) \cup {<<c, r>>} /\ <<c, r>> \notin MissesOf(c)
  BY <1>3 DEF MissesOf
<1>5. /\ IsFiniteSet(ChargedTo(c)') /\ IsFiniteSet(MissesOf(c)')
      /\ Cardinality(ChargedTo(c)') = Cardinality(ChargedTo(c)) + 1
      /\ Cardinality(MissesOf(c)') = Cardinality(MissesOf(c)) + 1
      /\ Cardinality(ChargedTo(c)) \in Nat
  BY <1>0, <1>3, <1>4, FS_AddElement, FS_CardinalityType DEF BudgetShape
<1>6. row'[c].left + Cardinality(ChargedTo(c)') = MaxAttempts
  BY <1>0, <1>2, <1>5 DEF BudgetShape
<1>7. attempt[r].left = row[c].left - 1
  BY <1>0 DEF BudgetShape
<1>8. \A q \in ChargedTo(c) : /\ attempt'[q].left = attempt[q].left
                              /\ row[c].left <= attempt[q].left
                              /\ attempt[q].left \in Nat
  <2>1. \A q \in ChargedTo(c) : q \in Attempt /\ q # r
    BY <1>3 DEF ChargedTo
  <2> QED
    BY <1>0, <1>1, <2>1, ParameterAssumption DEF BudgetShape, TypeOK, Redeem, AttemptsLeft
<1>9. \A q \in ChargedTo(c)' : row'[c].left <= attempt'[q].left
  BY <1>1, <1>2, <1>3, <1>7, <1>8
<1>10. \A p, q \in ChargedTo(c)' : p # q => attempt'[p].left # attempt'[q].left
  BY <1>0, <1>1, <1>2, <1>3, <1>7, <1>8 DEF BudgetShape
<1>11. \A q \in Attempt : ~HoldsLock(q, c)'
  BY <1>0, <1>1 DEF LockIsExclusive, HoldsLock
<1>12. BudgetShape(c)'
  BY <1>0, <1>2, <1>5, <1>6, <1>9, <1>10, <1>11 DEF BudgetShape
<1> QED
  BY <1>3, <1>12
\* Every other step of a call, by what it makes of the call's record: it has not
\* ended before, and if it ends it has not charged c.
LEMMA CallBudget ==
  ASSUME IInv, BudgetInv, NEW c \in Challenge, NEW r \in Attempt, NEW a, ~Done(r),
         attempt' = [attempt EXCEPT ![r] = a], row'[c] = row[c],
         a.pc = "done" => a.wrote # "charge" \/ a.ch # c,
         a.wrote = "charge" /\ a.ch = c => a.left = row[c].left - 1
  PROVE  BudgetShape(c)' /\ ChargedTo(c)' = ChargedTo(c)
<1>1. attempt'[r] = a /\ \A q \in Attempt : q # r => attempt'[q] = attempt[q]
  BY DEF IInv, TypeOK
<1>2. \A q \in Attempt : q \in ChargedTo(c)' <=> q \in ChargedTo(c)
  BY <1>1 DEF ChargedTo, Done
<1>3. \A q \in ChargedTo(c) : attempt'[q].left = attempt[q].left
  BY <1>1 DEF ChargedTo
<1>4. \A q \in Attempt :
        HoldsLock(q, c)' /\ attempt'[q].wrote = "charge" => attempt'[q].left = row'[c].left - 1
  BY <1>1 DEF HoldsLock, BudgetInv, BudgetShape
<1>5. ChargedTo(c)' = ChargedTo(c)
  BY <1>2 DEF ChargedTo
<1> QED
  BY <1>2, <1>3, <1>4, <1>5, UnchargedBudget

\* A COMMIT that is not the one of a charge to c.
LEMMA OtherCommitBudget ==
  ASSUME IInv, BudgetInv, NEW c \in Challenge, NEW r \in Attempt, RedeemCommit(r),
         attempt[r].wrote # "charge" \/ attempt[r].ch # c
  PROVE  BudgetShape(c)' /\ ChargedTo(c)' = ChargedTo(c)
<1>0. attempt \in [Attempt -> Redeem] /\ attempt[r] \in Redeem /\ row \in [Challenge -> Row]
      /\ attempt[r].pc = "commit" /\ CallShape
  BY DEF IInv, TypeOK, RedeemCommit
<1>1. PICK reply \in {attempt[r].answer, "storage_unavailable"} :
        attempt' = [attempt EXCEPT ![r] = [@ EXCEPT !.pc = "done", !.answer = reply]]
  BY DEF RedeemCommit
<1> DEFINE a == [attempt[r] EXCEPT !.pc = "done", !.answer = reply]
<1>2. a.pc = "done" /\ a.wrote = attempt[r].wrote /\ a.ch = attempt[r].ch
      /\ a.left = attempt[r].left
  BY <1>0 DEF Redeem
<1> HIDE DEF a
<1>3. /\ attempt'[r].pc = "done" /\ attempt'[r].wrote = attempt[r].wrote
      /\ attempt'[r].ch = attempt[r].ch
      /\ \A q \in Attempt : q # r => attempt'[q] = attempt[q]
  BY <1>0, <1>1, <1>2 DEF a
<1>4. row'[c].left = row[c].left /\ row'[c].exists = row[c].exists
  BY <1>0 DEF RedeemCommit, Committed, CallShape, Row, Redeem
<1>5. \A q \in Attempt : q \in ChargedTo(c)' <=> q \in ChargedTo(c)
  BY <1>0, <1>3 DEF ChargedTo, Done
<1>6. \A q \in ChargedTo(c) : attempt'[q].left = attempt[q].left
  <2>1. \A q \in ChargedTo(c) : q # r
    BY <1>0 DEF ChargedTo, Done
  <2> QED
    BY <1>3, <2>1 DEF ChargedTo
<1>7. \A q \in Attempt :
        HoldsLock(q, c)' /\ attempt'[q].wrote = "charge" => attempt'[q].left = row'[c].left - 1
  <2>1. \A q \in Attempt : HoldsLock(q, c)' => q # r /\ HoldsLock(q, c)
    BY <1>3 DEF HoldsLock
  <2> QED
    BY <1>3, <1>4, <2>1 DEF BudgetInv, BudgetShape
<1>8. ChargedTo(c)' = ChargedTo(c)
  BY <1>5 DEF ChargedTo
<1> QED
  BY <1>4, <1>5, <1>6, <1>7, <1>8, UnchargedBudget

\* Issuing a code, and whatever leaves rows and calls alone.
LEMMA AskBudget ==
  ASSUME IInv, BudgetInv, NEW c \in Challenge, attempt' = attempt,
         row'[c] = row[c] \/ RequestCommit(c)
  PROVE  BudgetShape(c)' /\ ChargedTo(c)' = ChargedTo(c)
<1>1. ChargedTo(c)' = ChargedTo(c)
  BY DEF ChargedTo, Done
<1>2. CASE row'[c] = row[c]
  BY <1>1, <1>2, UnchargedBudget DEF HoldsLock, BudgetInv, BudgetShape
<1>3. CASE RequestCommit(c)
  <2>1. ~row[c].exists /\ row'[c].left = MaxAttempts
    BY <1>3 DEF IInv, TypeOK, RowIsRequested, RequestCommit
  <2>2. \A r \in Attempt : ~HoldsLock(r, c)'
    BY <2>1 DEF IInv, LockedIsLive, HoldsLock
  <2> QED
    BY <1>1, <2>1, <2>2, UnchargedBudget
<1> QED
  BY <1>2, <1>3

\* A step that changes what is charged to a challenge commits a charge to it.
LEMMA StepBudget ==
  ASSUME IInv, BudgetInv, [Next]_vars, NEW c \in Challenge
  PROVE  /\ BudgetShape(c)'
         /\ \/ ChargedTo(c)' = ChargedTo(c)
            \/ \E r \in Attempt : RedeemCommit(r) /\ attempt[r].wrote = "charge"
                                  /\ attempt[r].ch = c
<1>0. TypeOK /\ CallShape /\ row \in [Challenge -> Row] /\ attempt \in [Attempt -> Redeem]
  BY DEF IInv, TypeOK
<1>1. CASE attempt' = attempt
  <2>1. row'[c] = row[c] \/ RequestCommit(c)
    <3>1. CASE row' = row
      BY <3>1
    <3>2. ASSUME NEW d \in Challenge, RequestCommit(d) PROVE row'[c] = row[c] \/ RequestCommit(c)
      BY <1>0, <3>2 DEF RequestCommit
    <3>3. ASSUME NEW r \in Attempt, RedeemCommit(r) PROVE FALSE
      BY <1>0, <1>1, <3>3 DEF RedeemCommit, Redeem
    <3> QED
      BY <3>1, <3>2, <3>3 DEF Next, vars, Ask, Progress, RequestLimited, RequestResolve,
         RequestAbort, Deliver, RedeemLimited, RedeemBegin, RedeemAbort, ConsumeWin,
         ConsumeCharge, ConsumeClassify, BindAccount, RecordEvent, CreateSession, Register,
         Deactivate, Tick
  <2> QED
    BY <1>1, <2>1, AskBudget
<1>2. ASSUME NEW r \in Attempt, RedeemCommit(r)
      PROVE  /\ BudgetShape(c)'
             /\ \/ ChargedTo(c)' = ChargedTo(c)
                \/ RedeemCommit(r) /\ attempt[r].wrote = "charge" /\ attempt[r].ch = c
  BY <1>2, ChargedBudget, OtherCommitBudget
<1>3. ASSUME NEW r \in Attempt, RedeemLimited(r) \/ RedeemBegin(r) \/ RedeemAbort(r)
                                \/ (Progress(r) /\ ~RedeemCommit(r))
      PROVE  BudgetShape(c)' /\ ChargedTo(c)' = ChargedTo(c)
  <2>0. ~Done(r) /\ row'[c] = row[c] /\ attempt[r] \in Redeem
    BY <1>0, <1>3 DEF Done, Progress, RedeemLimited, RedeemBegin, RedeemAbort, ConsumeWin,
       ConsumeCharge, ConsumeClassify, BindAccount, RecordEvent, CreateSession, RedeemPc
  <2>1. ASSUME NEW a, attempt' = [attempt EXCEPT ![r] = a], a.wrote # "charge"
        PROVE  BudgetShape(c)' /\ ChargedTo(c)' = ChargedTo(c)
    BY <2>0, <2>1, CallBudget
  <2>2. CASE RedeemBegin(r)
    <3>1. PICK d \in Challenge \cup {None}, right \in BOOLEAN :
            attempt' = [attempt EXCEPT ![r] = [@ EXCEPT !.pc = "win", !.ch = d,
                                                        !.right = right, !.now = clock]]
      BY <2>2 DEF RedeemBegin
    <3> DEFINE a == [attempt[r] EXCEPT !.pc = "win", !.ch = d, !.right = right, !.now = clock]
    <3>2. a.wrote # "charge" /\ attempt' = [attempt EXCEPT ![r] = a]
      BY <1>0, <2>0, <2>2, <3>1 DEF RedeemBegin, CallShape, Redeem
    <3> QED
      BY <2>1, <3>2
  <2>3. CASE RedeemLimited(r)
    <3> DEFINE a == [attempt[r] EXCEPT !.pc = "done", !.answer = "rate_limited"]
    <3>1. a.wrote # "charge" /\ attempt' = [attempt EXCEPT ![r] = a]
      BY <1>0, <2>0, <2>3 DEF RedeemLimited, CallShape, Redeem
    <3> QED
      BY <2>1, <3>1
  <2>4. CASE RedeemAbort(r)
    <3> DEFINE a == [attempt[r] EXCEPT !.pc = "done", !.wrote = "nothing",
                                       !.answer = "storage_unavailable"]
    <3>1. a.wrote # "charge" /\ attempt' = [attempt EXCEPT ![r] = a]
      BY <2>0, <2>4 DEF RedeemAbort, Redeem
    <3> QED
      BY <2>1, <3>1
  <2>5. CASE ConsumeCharge(r)
    <3>1. CASE Live(r) /\ ~attempt[r].right
      <4> DEFINE a == [attempt[r] EXCEPT !.pc = "commit", !.wrote = "charge",
                                         !.answer = "invalid_code",
                                         !.left = Target(r).left - 1]
      <4>1. /\ attempt' = [attempt EXCEPT ![r] = a] /\ a.pc = "commit"
            /\ a.ch = attempt[r].ch /\ a.left = Target(r).left - 1
        BY <2>0, <2>5, <3>1 DEF ConsumeCharge, Redeem
      <4>2. a.ch = c => a.left = row[c].left - 1
        BY <4>1, ParameterAssumption DEF Target
      <4> HIDE DEF a
      <4> QED
        BY <2>0, <4>1, <4>2, CallBudget
    <3>2. CASE ~(Live(r) /\ ~attempt[r].right)
      <4> DEFINE a == [attempt[r] EXCEPT !.pc = "classify"]
      <4>1. a.wrote # "charge" /\ attempt' = [attempt EXCEPT ![r] = a]
        BY <1>0, <2>0, <2>5, <3>2 DEF ConsumeCharge, CallShape, Redeem
      <4> QED
        BY <2>1, <4>1
    <3> QED
      BY <3>1, <3>2
  <2>6. CASE ConsumeWin(r) \/ ConsumeClassify(r) \/ BindAccount(r) \/ RecordEvent(r)
             \/ CreateSession(r)
    <3> DEFINE A == {[attempt[r] EXCEPT !.pc = "bind", !.wrote = "spend"],
                     [attempt[r] EXCEPT !.pc = "charge"],
                     [attempt[r] EXCEPT !.pc = "commit", !.answer = Classification(r), !.left = 0],
                     [attempt[r] EXCEPT !.pc = "record"],
                     [attempt[r] EXCEPT !.pc = "commit", !.answer = "invalid_code", !.left = 0],
                     [attempt[r] EXCEPT !.pc = "session"],
                     [attempt[r] EXCEPT !.pc = "commit", !.answer = "session_established"]}
    <3>1. attempt[r].wrote # "charge"
      BY <1>0, <2>6 DEF CallShape, ConsumeWin, ConsumeClassify, BindAccount, RecordEvent,
         CreateSession
    <3>2. \A a \in A : a.wrote # "charge"
      BY <2>0, <3>1 DEF Redeem
    <3>3. \E a \in A : attempt' = [attempt EXCEPT ![r] = a]
      BY <2>6 DEF ConsumeWin, ConsumeClassify, BindAccount, RecordEvent, CreateSession
    <3> QED
      BY <2>1, <3>2, <3>3
  <2> QED
    BY <1>3, <2>2, <2>3, <2>4, <2>5, <2>6 DEF Progress
<1>4. \/ attempt' = attempt
      \/ \E r \in Attempt : RedeemLimited(r) \/ RedeemBegin(r) \/ Progress(r) \/ RedeemAbort(r)
  BY DEF Next, vars, Ask, RequestLimited, RequestResolve, RequestCommit, RequestAbort, Deliver,
     Register, Deactivate, Tick
<1> QED
  BY <1>1, <1>2, <1>3, <1>4

\* Both invariants hold in every reachable state.
LEMMA BudgetHolds == Spec => [](IInv /\ BudgetInv)
<1>1. Init => IInv /\ BudgetInv
  BY InitIInv, InitBudget
<1>2. IInv /\ BudgetInv /\ [Next]_vars => (IInv /\ BudgetInv)'
  BY NextIInv, StepBudget DEF BudgetInv
<1> QED
  BY <1>1, <1>2, PTL DEF Spec

\* No concurrent guess is free: what is left of a challenge is MaxAttempts minus
\* the wrong attempts that committed, and each of those has its own number.
THEOREM BudgetIsKept == Spec => []BudgetAccounting
<1>1. BudgetInv => BudgetAccounting
  BY DEF BudgetInv, BudgetShape, BudgetAccounting
<1> QED
  BY <1>1, BudgetHolds, PTL

\* Redemptions never all wait for one another: whoever holds the lock of a row has
\* made its UPDATE, and waits for no other (redeemOtp, consume).
THEOREM RedemptionsNeverAllWait == Spec => []NeverAllWait
<1>1. IInv => NeverAllWait
  <2> SUFFICES ASSUME IInv, NEW r \in Attempt, Begun(r), Waits(r)
               PROVE  \E q \in Attempt : Begun(q) /\ ~Waits(q)
    BY DEF NeverAllWait
  <2>1. PICK q \in Attempt : HoldsLock(q, attempt[r].ch)
    BY DEF Waits, Unlocked
  <2>2. Begun(q) /\ ~Waits(q)
    BY <2>1 DEF IInv, CallShape, HoldsLock, Begun, Waits
  <2> QED
    BY <2>2
<1>2. Spec => []IInv
  BY InvariantHolds
<1> QED
  BY <1>1, <1>2, PTL
-----------------------------------------------------------------------------
(* The refinement of OneTimeCode. *)

\* The calls that OneTimeCode counts are those that were charged.
LEMMA MissedByCode ==
  ASSUME TypeOK, NEW c \in Challenge
  PROVE  Code!MissedOn(c) = MissesOf(c)
BY DEF Code!MissedOn, MissesOf, WroteOnCommit, ChargedTo

\* A row nobody has spent is a code that is not won.
LEMMA WonByCode ==
  ASSUME IInv, NEW c \in Challenge, ~row[c].spent PROVE ~Code!Won(c)
BY DEF Code!Won, WroteOnCommit, IInv, SpendCommitted

\* What a committed transaction adds to the calls of its kind.
LEMMA CommittedWrites ==
  ASSUME IInv, NEW r \in Attempt, RedeemCommit(r), NEW w
  PROVE  WroteOnCommit(w)' = IF attempt[r].wrote = w
                               THEN WroteOnCommit(w) \cup {<<attempt[r].ch, r>>}
                               ELSE WroteOnCommit(w)
<1>0. attempt \in [Attempt -> Redeem] /\ attempt[r] \in Redeem /\ attempt[r].pc = "commit"
  BY DEF IInv, TypeOK, RedeemCommit
<1>1. PICK reply \in {attempt[r].answer, "storage_unavailable"} :
        attempt' = [attempt EXCEPT ![r] = [@ EXCEPT !.pc = "done", !.answer = reply]]
  BY DEF RedeemCommit
<1>2. attempt'[r] = [attempt[r] EXCEPT !.pc = "done", !.answer = reply]
      /\ \A q \in Attempt : q # r => attempt'[q] = attempt[q]
  BY <1>0, <1>1
<1>3. /\ Done(r)' /\ ~Done(r) /\ attempt'[r].wrote = attempt[r].wrote
      /\ attempt'[r].ch = attempt[r].ch
      /\ \A q \in Attempt : q # r => (Done(q)' <=> Done(q))
  BY <1>0, <1>2 DEF Redeem, Done
<1>4. \A q \in Attempt :
        Done(q)' /\ attempt'[q].wrote = w <=>
          (Done(q) /\ attempt[q].wrote = w) \/ (q = r /\ attempt[r].wrote = w)
  BY <1>2, <1>3
<1>5. \A q \in Attempt : attempt'[q].ch = attempt[q].ch
  BY <1>2, <1>3
<1>6. \A p : p \in WroteOnCommit(w)' <=>
              p \in WroteOnCommit(w) \/ (attempt[r].wrote = w /\ p = <<attempt[r].ch, r>>)
  BY <1>4, <1>5 DEF WroteOnCommit
<1> QED
  BY <1>6
\* The Cardinality of OneTimeCode is that of this module.
LEMMA CodeCardinality == \A S : Code!Cardinality(S) = Cardinality(S)
BY DEF Code!Cardinality, Cardinality

Issued == {c \in Challenge : row[c].exists}

\* A step that is no COMMIT adds nothing to them.
LEMMA QuietStep ==
  ASSUME IInv, [Next]_vars,
         \A c \in Challenge : ~RequestCommit(c), \A r \in Attempt : ~RedeemCommit(r),
         NEW w \in {"charge", "spend"}
  PROVE  WroteOnCommit(w)' = WroteOnCommit(w) /\ row' = row
<1>0. attempt \in [Attempt -> Redeem] /\ CallShape
  BY DEF IInv, TypeOK
<1>1. row' = row
  BY DEF Next, vars, Ask, Progress, RequestLimited, RequestResolve,
     RequestAbort, Deliver, RedeemLimited, RedeemBegin, RedeemAbort, ConsumeWin,
     ConsumeCharge, ConsumeClassify, BindAccount, RecordEvent, CreateSession, Register,
     Deactivate, Tick
<1>2. ASSUME NEW r \in Attempt, RedeemLimited(r) \/ RedeemBegin(r) \/ RedeemAbort(r) \/ Progress(r)
      PROVE  /\ ~Done(r) /\ \A q \in Attempt : q # r => attempt'[q] = attempt[q]
             /\ Done(r)' => attempt'[r].wrote = "nothing"
  <2>0. attempt[r] \in Redeem
    BY <1>0
  <2>1. CASE RedeemLimited(r)
    BY <1>0, <2>0, <2>1 DEF RedeemLimited, Done, CallShape, Redeem
  <2>2. CASE RedeemBegin(r)
    BY <1>0, <2>0, <2>2 DEF RedeemBegin, Done, Redeem
  <2>3. CASE RedeemAbort(r)
    BY <1>0, <2>0, <2>3 DEF RedeemAbort, Done, Redeem
  <2>4. CASE ConsumeWin(r) \/ ConsumeCharge(r)
    BY <1>0, <2>0, <2>4 DEF ConsumeWin, ConsumeCharge, Done, Redeem
  <2>5. CASE ConsumeClassify(r) \/ BindAccount(r) \/ RecordEvent(r) \/ CreateSession(r)
    BY <1>0, <2>0, <2>5 DEF ConsumeClassify, BindAccount, RecordEvent, CreateSession, Done, Redeem
  <2> QED
    BY <1>2, <2>1, <2>2, <2>3, <2>4, <2>5 DEF Progress
<1>3. CASE attempt' = attempt
  BY <1>1, <1>3 DEF WroteOnCommit, Done
<1>4. ASSUME NEW r \in Attempt, RedeemLimited(r) \/ RedeemBegin(r) \/ RedeemAbort(r) \/ Progress(r)
      PROVE  WroteOnCommit(w)' = WroteOnCommit(w)
  <2>1. \A q \in Attempt : (Done(q) /\ attempt[q].wrote = w)' <=> Done(q) /\ attempt[q].wrote = w
    BY <1>2, <1>4 DEF Done
  <2>2. \A q \in Attempt : Done(q) /\ attempt[q].wrote = w => attempt'[q].ch = attempt[q].ch
    BY <1>2, <1>4
  <2>3. \A p : p \in WroteOnCommit(w)' <=> p \in WroteOnCommit(w)
    BY <2>1, <2>2 DEF WroteOnCommit
  <2> QED
    BY <2>3
<1> QED
  BY <1>1, <1>3, <1>4 DEF Next, vars, Ask, RequestLimited, RequestResolve, RequestCommit,
     RequestAbort, Deliver, Register, Deactivate, Tick

\* A COMMIT of redeemOtp is a miss or a win of the code, or changes nothing.
LEMMA CommitIsAStep ==
  ASSUME IInv, BudgetInv, NEW r \in Attempt, RedeemCommit(r)
  PROVE  [Code!Next]_(Code!vars)
<1>0. /\ attempt[r] \in Redeem /\ attempt[r].pc = "commit" /\ row \in [Challenge -> Row]
      /\ row' = Committed(r)
  BY DEF IInv, TypeOK, RedeemCommit
<1> DEFINE c == attempt[r].ch
<1>1. Issued' = Issued
  <2>1. \A d \in Challenge : row'[d].exists = row[d].exists
    BY <1>0 DEF Committed, IInv, CallShape, Redeem, Row
  <2> QED
    BY <2>1 DEF Issued
<1>2. /\ WroteOnCommit("charge")' = IF attempt[r].wrote = "charge"
                                      THEN WroteOnCommit("charge") \cup {<<c, r>>}
                                      ELSE WroteOnCommit("charge")
      /\ WroteOnCommit("spend")' = IF attempt[r].wrote = "spend"
                                     THEN WroteOnCommit("spend") \cup {<<c, r>>}
                                     ELSE WroteOnCommit("spend")
  BY CommittedWrites
<1>3. CASE attempt[r].wrote = "nothing"
  BY <1>1, <1>2, <1>3 DEF Code!vars, Issued
<1>4. CASE attempt[r].wrote # "nothing"
  <2>1. c \in Challenge /\ HoldsLock(r, c) /\ attempt[r].wrote \in {"charge", "spend"}
    BY <1>0, <1>4 DEF IInv, CallShape, HoldsLock, RedeemPc, Redeem
  <2>2. row[c].exists /\ ~row[c].spent /\ row[c].left > 0
    BY <2>1 DEF IInv, LockedIsLive
  <2>3. Code!Open(c)
    <3>1. c \in Issued /\ ~Code!Won(c)
      BY <2>1, <2>2, WonByCode DEF Issued
    <3>2. Code!Cardinality(Code!MissedOn(c)) < MaxAttempts
      <4>1. Code!MissedOn(c) = MissesOf(c)
        BY <2>1, MissedByCode DEF IInv
      <4>2. /\ Cardinality(MissesOf(c)) = Cardinality(ChargedTo(c))
            /\ row[c].left + Cardinality(ChargedTo(c)) = MaxAttempts
            /\ IsFiniteSet(ChargedTo(c))
        BY <2>1, <2>2 DEF BudgetInv, BudgetShape
      <4>3. Cardinality(ChargedTo(c)) \in Nat /\ row[c].left \in Nat
        BY <1>0, <2>1, <4>2, FS_CardinalityType, ParameterAssumption DEF Row, AttemptsLeft
      <4> QED
        BY <2>2, <4>1, <4>2, <4>3, CodeCardinality
    <3> QED
      BY <3>1, <3>2 DEF Code!Open, Issued
  <2>4. CASE attempt[r].wrote = "charge"
    <3>1. Code!Miss(c, r)
      BY <1>1, <1>2, <2>3, <2>4 DEF Code!Miss, Issued
    <3> QED
      BY <2>1, <3>1 DEF Code!Next
  <2>5. CASE attempt[r].wrote = "spend"
    <3>1. Code!Win(c, r)
      BY <1>1, <1>2, <2>3, <2>5 DEF Code!Win, Issued
    <3> QED
      BY <2>1, <3>1 DEF Code!Next
  <2> QED
    BY <2>1, <2>4, <2>5
<1> QED
  BY <1>3, <1>4

\* The challenge store implements a one-time code: each of its steps issues,
\* misses or wins one, or is none of the code's concern (otp-challenge-store.ts).
THEOREM ImplementsOneTimeCode == Spec => CodeIsOneTime
<1>1. Init => Code!Init
  BY DEF Init, Code!Init, WroteOnCommit, Done, NoRow
<1>2. IInv /\ BudgetInv /\ [Next]_vars => [Code!Next]_(Code!vars)
  <2> SUFFICES ASSUME IInv, BudgetInv, [Next]_vars PROVE [Code!Next]_(Code!vars)
    OBVIOUS
  <2>1. ASSUME NEW c \in Challenge, RequestCommit(c) PROVE [Code!Next]_(Code!vars)
    <3>1. WroteOnCommit("charge")' = WroteOnCommit("charge")
          /\ WroteOnCommit("spend")' = WroteOnCommit("spend")
      BY <2>1 DEF RequestCommit, WroteOnCommit, Done
    <3>2. Issued' = Issued \cup {c} /\ c \notin Issued
      <4>1. \A d \in Challenge : row'[d].exists <=> row[d].exists \/ d = c
        BY <2>1 DEF RequestCommit, IInv, TypeOK
      <4>2. ~row[c].exists
        BY <2>1 DEF RequestCommit, IInv, RowIsRequested
      <4> QED
        BY <4>1, <4>2 DEF Issued
    <3>3. Code!Issue(c)
      BY <3>1, <3>2 DEF Code!Issue, Issued
    <3> QED
      BY <3>3 DEF Code!Next
  <2>2. CASE /\ \A c \in Challenge : ~RequestCommit(c)
             /\ \A r \in Attempt : ~RedeemCommit(r)
    <3>1. /\ WroteOnCommit("charge")' = WroteOnCommit("charge") /\ row' = row
          /\ WroteOnCommit("spend")' = WroteOnCommit("spend")
      BY <2>2, QuietStep
    <3> QED
      BY <3>1 DEF Code!vars
  <2> QED
    BY <2>1, <2>2, CommitIsAStep
<1> QED
  BY <1>1, <1>2, BudgetHolds, PTL DEF Spec, CodeIsOneTime, Code!Spec
=============================================================================
