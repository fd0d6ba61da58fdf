--------------------------- MODULE BoundaryProofs ----------------------------
(***************************************************************************)
(* Theorems about Boundary, for any number of calls, retries and restarts, *)
(* any skew and any length of a second.  The argument about nonces is one  *)
(* of rounding: when the store forgets a nonce, the timestamp that came    *)
(* with it is already refused, provided that the client's clock is not too *)
(* far ahead (ClocksAgree).                                                *)
(***************************************************************************)
EXTENDS Boundary, TLAPS

CallRow == [pc : CallPc, attempt : 0..MaxRetries, answer : Answer]

\* An attempt that was not sent yet has no message.
NotSentYet ==
  \A c \in Call, k \in 0..MaxRetries :
    k > call[c].attempt \/ (k = call[c].attempt /\ call[c].pc \in {"idle", "ready"})
      => message[<<c, k>>].at = "unsent"

\* Only reads are tried again, and an answer is the end of a call.
CallShape(c) ==
  /\ call[c].pc = "backoff" => c \in Read /\ call[c].attempt < MaxRetries
  /\ call[c].attempt > 0 => c \in Read
  /\ call[c].answer # "none" => call[c].pc = "done"

MessageShape(m) ==
  /\ message[m].at = "unsent" => accepted[m] = 0 /\ executed[m] = 0
  /\ message[m].at # "unsent" => message[m].stamp <= (clock + offset) \div Second
  /\ seen[m] # Never => accepted[m] >= 1
  /\ message[m].reply = "ok" => executed[m] >= 1
  /\ message[m].reply = "replay_detected" /\ restarts = 0 => accepted[m] >= 1

\* At time t the timestamp of m is too old.
TooOld(m, t) == t \div Second - message[m].stamp > Skew

InHand(row) == IF row.at = "handler" THEN 1 ELSE 0

\* A nonce that was accepted is remembered for as long as its timestamp is good,
\* and every run of the operation had its nonce accepted.
Spent(m) ==
  /\ accepted[m] <= 1
  /\ accepted[m] = 1 => TooOld(m, clock) \/ (seen[m] # Never /\ TooOld(m, seen[m]))
  /\ executed[m] + InHand(message[m]) <= restarts + accepted[m]

ProductionShape ==
  isProduction => client # "none" /\ (api.up => api.credential # "none" /\ api.handlers)

Rest ==
  /\ NotSentYet
  /\ \A c \in Call : CallShape(c)
  /\ \A m \in Message : MessageShape(m)
  /\ ClocksAgree => \A m \in Message : Spent(m)
  /\ AnswersAreOwn
  /\ ProductionShape
  /\ ProductionServes

IInv == TypeOK /\ Rest
-----------------------------------------------------------------------------
(* Seconds *)

\* Rounding down to seconds: a whole number below the time, by less than a second.
LEMMA Rounded ==
  ASSUME NEW t \in Int, NEW s \in Nat \ {0}
  PROVE  t \div s \in Int /\ (t \div s) * s <= t /\ t < (t \div s) * s + s
OBVIOUS

\* Rounding is monotone.
LEMMA RoundedInOrder ==
  ASSUME NEW t \in Int, NEW u \in Int, NEW s \in Nat \ {0}, t <= u
  PROVE  t \div s <= u \div s
OBVIOUS

\* Whole seconds do not matter to rounding.
LEMMA RoundedShift ==
  ASSUME NEW t \in Int, NEW k \in Int, NEW s \in Nat \ {0}
  PROVE  (t + k * s) \div s = t \div s + k
OBVIOUS

\* A message is too old for good.
LEMMA TooOldForGood ==
  ASSUME TypeOK, NEW m \in Message, NEW t \in Nat, NEW u \in Nat, t <= u, TooOld(m, t)
  PROVE  TooOld(m, u)
<1>1. Second \in Nat \ {0} /\ Skew \in Nat /\ message[m].stamp \in Int
  BY ParameterAssumption DEF TypeOK, MessageRow
<1>2. t \div Second <= u \div Second /\ t \div Second \in Int /\ u \div Second \in Int
  BY <1>1, Rounded, RoundedInOrder
<1> QED
  BY <1>1, <1>2 DEF TooOld

\* A nonce that is recorded now is kept for as long as its timestamp is good: the
\* timestamp is no later than a second less than the skew from now.
LEMMA KeptLongEnough ==
  ASSUME IInv, ClocksAgree, NEW m \in Message, message[m].at # "unsent", WithinSkew(m)
  PROVE  TooOld(m, ForgottenAt(clock))
<1>1. /\ Second \in Nat \ {0} /\ Skew \in Nat \ {0} /\ message[m].stamp \in Int
      /\ clock \in Nat /\ offset \in Int
  BY ParameterAssumption DEF IInv, TypeOK, MessageRow
<1>2. message[m].stamp <= (clock + offset) \div Second
  BY DEF IInv, Rest, MessageShape
<1>3. clock + offset <= clock + (Skew - 1) * Second
  BY <1>1 DEF ClocksAgree
<1>4. (clock + offset) \div Second <= clock \div Second + (Skew - 1)
  <2> DEFINE k == Skew - 1
  <2>1. clock + k * Second \in Int /\ clock + offset \in Int /\ k \in Int
    BY <1>1
  <2>2. clock + offset <= clock + k * Second
    BY <1>3
  <2> HIDE DEF k
  <2>3. (clock + offset) \div Second <= (clock + k * Second) \div Second
    BY <1>1, <2>1, <2>2, RoundedInOrder
  <2>4. (clock + k * Second) \div Second = clock \div Second + k
    <3>1. clock \in Int
      BY <1>1
    <3> QED
      BY <1>1, <2>1, <3>1, RoundedShift, Zenon
  <2> QED
    BY <2>3, <2>4 DEF k
<1>5. ForgottenAt(clock) \div Second = clock \div Second + 2 * Skew
  <2> DEFINE k == 2 * Skew
  <2>1. k \in Int /\ ForgottenAt(clock) = clock + k * Second
    BY <1>1 DEF ForgottenAt
  <2> HIDE DEF k
  <2>2. (clock + k * Second) \div Second = clock \div Second + k
    <3>1. clock \in Int
      BY <1>1
    <3> QED
      BY <1>1, <2>1, <3>1, RoundedShift, Zenon
  <2> QED
    BY <2>1, <2>2 DEF k
<1>6. clock \div Second \in Int /\ (clock + offset) \div Second \in Int
  BY <1>1, Rounded
<1> QED
  BY <1>1, <1>2, <1>4, <1>5, <1>6 DEF TooOld
-----------------------------------------------------------------------------
(* The initial state *)

\* What the gates let through (Startup).
LEMMA ComposedServes ==
  ASSUME NEW production \in BOOLEAN, NEW x \in Composed[production]
  PROVE  /\ x \in ApiState /\ x.up
         /\ production => x.credential # "none" /\ x.handlers
<1>1. PICK env \in ApiEnvironment :
        /\ env.production = production /\ ApiComesUp(env)
        /\ x = [up |-> TRUE, credential |-> KnownCredential(env.credentials),
                handlers |-> env.database]
  BY DEF Composed, ComposedApi
<1>2. env.credentials \in Credentials /\ env.database \in BOOLEAN
  BY DEF ApiEnvironment
<1>3. /\ Parsed(env.credentials)
      /\ production => env.credentials # "unset"
      /\ production => env.database
  <2>1. Parsed(env.credentials)
    BY <1>1 DEF ApiComesUp, ComposeApi
  <2>2. production => env.credentials # "unset"
    BY <1>1 DEF ApiComesUp, LoadApiConfig, CredentialsGate
  <2>3. production => env.database
    BY <1>1 DEF ApiComesUp, LoadApiConfig, PersistenceGate
  <2> QED
    BY <2>1, <2>2, <2>3
<1>4. /\ KnownCredential(env.credentials) \in {"none", "others", "narrow", "full"}
      /\ production => KnownCredential(env.credentials) # "none"
  <2> DEFINE c == env.credentials
  <2>1. c \in {"unset", "full", "narrow", "others", "several"}
    BY <1>2, <1>3 DEF Credentials, Parsed
  <2>2. production => c # "unset"
    BY <1>3
  <2> HIDE DEF c
  <2>3. KnownCredential(c) = IF c \in {"full", "several"} THEN "full"
                             ELSE IF c = "unset" THEN "none" ELSE c
    BY <2>1 DEF KnownCredential
  <2> QED
    BY <2>1, <2>2, <2>3 DEF c
<1> QED
  BY <1>1, <1>2, <1>3, <1>4 DEF ApiState

\* A protocol process that comes up in production has composed a client.
LEMMA ClientServes ==
  ASSUME NEW production \in BOOLEAN, NEW x \in ComposedClient(production)
  PROVE  x \in {"none", "narrow", "full"} /\ (production => x # "none")
<1>1. PICK env \in ProtocolEnvironment :
        /\ env.production = production /\ ProtocolComesUp(env)
        /\ x = IF env.credentials = "unset" THEN "none"
               ELSE IF env.credentials = "narrow" THEN "narrow" ELSE "full"
  BY DEF ComposedClient
<1>2. production => env.credentials # "unset"
  BY <1>1 DEF ProtocolComesUp, LoadProtocolConfig, ProductionGate
<1> QED
  BY <1>1, <1>2

\* The initial states satisfy the invariant: nothing was sent yet.
LEMMA InitIInv == Init => IInv
<1> SUFFICES ASSUME Init PROVE IInv
  OBVIOUS
<1> USE ParameterAssumption
<1>1. /\ api \in ApiState /\ client \in {"none", "narrow", "full"} /\ ProductionShape
  BY ComposedServes, ClientServes DEF Init, ProductionShape
<1>2. TypeOK
  <2>1. /\ [pc |-> "idle", attempt |-> 0, answer |-> "none"] \in CallRow
        /\ [at |-> "unsent", stamp |-> 0, reply |-> "none"] \in MessageRow
    BY DEF CallRow, CallPc, Answer, Reply, MessageRow
  <2>2. /\ call \in [Call -> CallRow] /\ message \in [Message -> MessageRow]
        /\ seen \in [Message -> {Never} \cup Nat] /\ accepted \in [Message -> Nat]
        /\ executed \in [Message -> Nat]
    BY <2>1 DEF Init
  <2> QED
    BY <1>1, <2>2 DEF Init, TypeOK, CallRow
<1>3. NotSentYet /\ (\A c \in Call : CallShape(c))
  BY DEF Init, NotSentYet, CallShape, Message
<1>4. \A m \in Message : MessageShape(m) /\ Spent(m)
  BY DEF Init, MessageShape, Spent, InHand
<1>5. AnswersAreOwn /\ ProductionServes
  BY DEF Init, AnswersAreOwn, ProductionServes
<1> QED
  BY <1>1, <1>2, <1>3, <1>4, <1>5 DEF IInv, Rest
-----------------------------------------------------------------------------
(* The client *)

\* Nobody listens on a connection any more: the message goes on.
LEMMA HangupKeeps ==
  ASSUME IInv, NEW c \in Call, message' = message \/ Hangup(c)
  PROVE  /\ message' \in [Message -> MessageRow]
         /\ \A m \in Message : /\ message'[m].at = message[m].at
                               /\ message'[m].stamp = message[m].stamp
                               /\ message'[m].reply \in {message[m].reply, "none"}
<1> DEFINE n == Current(c)
           b == [message[n] EXCEPT !.reply = "none"]
<1>1. n \in Message /\ message \in [Message -> MessageRow]
  BY DEF IInv, TypeOK, Current, Message
<1>2. b \in MessageRow /\ b.at = message[n].at /\ b.stamp = message[n].stamp /\ b.reply = "none"
  BY <1>1 DEF MessageRow, Reply
<1>3. Hangup(c) => message' = [message EXCEPT ![n] = b]
  BY DEF Hangup
<1> HIDE DEF b, n
<1> QED
  BY <1>1, <1>2, <1>3

\* What a step that keeps nonces, runs and the course of the messages preserves.
LEMMA MessagesKeep ==
  ASSUME IInv, message' \in [Message -> MessageRow],
         \A m \in Message : /\ message'[m].at = message[m].at
                            /\ message'[m].stamp = message[m].stamp
                            /\ message'[m].reply \in {message[m].reply, "none"},
         UNCHANGED <<clock, offset, seen, accepted, executed, restarts>>
  PROVE  /\ (\A m \in Message : MessageShape(m))'
         /\ (ClocksAgree => \A m \in Message : Spent(m))'
<1>1. (\A m \in Message : MessageShape(m))'
  BY DEF IInv, Rest, MessageShape
<1>2. ClocksAgree' => ClocksAgree
  BY DEF ClocksAgree
<1>3. \A m \in Message : Spent(m) => Spent(m)'
  BY DEF Spent, TooOld, InHand
<1> QED
  BY <1>1, <1>2, <1>3 DEF IInv, Rest

\* A step of a call that sends nothing.
LEMMA CallStep ==
  ASSUME IInv, NEW c \in Call, NEW a \in CallRow, call' = [call EXCEPT ![c] = a],
         message' = message \/ Hangup(c),
         UNCHANGED <<processes, clock, offset, seen, accepted, executed, copies, restarts>>,
         \/ a.attempt = call[c].attempt /\ a.pc \notin {"idle", "ready"}
         \/ a.attempt = call[c].attempt /\ call[c].pc \in {"idle", "ready"}
         \/ a.attempt = call[c].attempt + 1,
         a.pc = "backoff" => c \in Read /\ a.attempt < MaxRetries,
         a.attempt > 0 => c \in Read,
         a.answer # "none" => a.pc = "done",
         a.answer = "ok" => executed[<<c, a.attempt>>] >= 1,
         a.answer = "replay_detected" /\ restarts = 0 => accepted[<<c, a.attempt>>] >= 1,
         isProduction => a.answer # "authentication_failed"
  PROVE  IInv'
<1> USE DEF IInv, Rest
<1>0. /\ call \in [Call -> CallRow] /\ call[c] \in CallRow
      /\ call'[c] = a /\ \A d \in Call : d # c => call'[d] = call[d]
  BY DEF TypeOK, CallRow
<1>1. /\ message' \in [Message -> MessageRow]
      /\ \A m \in Message : /\ message'[m].at = message[m].at
                            /\ message'[m].stamp = message[m].stamp
                            /\ message'[m].reply \in {message[m].reply, "none"}
  BY HangupKeeps
<1>2. TypeOK'
  <2>1. call' \in [Call -> CallRow]
    BY <1>0
  <2> QED
    BY <1>1, <2>1 DEF TypeOK, CallRow, processes
<1>3. NotSentYet'
  <2>1. ASSUME NEW d \in Call, NEW k \in 0..MaxRetries,
               k > call'[d].attempt \/ (k = call'[d].attempt /\ call'[d].pc \in {"idle", "ready"})
        PROVE  message'[<<d, k>>].at = "unsent"
    <3>1. <<d, k>> \in Message /\ call[d].attempt \in Nat /\ k \in Nat
      BY <1>0, ParameterAssumption DEF Message, CallRow
    <3>2. k > call[d].attempt \/ (k = call[d].attempt /\ call[d].pc \in {"idle", "ready"})
      BY <1>0, <2>1, <3>1 DEF CallRow
    <3> QED
      BY <1>1, <3>1, <3>2 DEF NotSentYet
  <2> QED
    BY <2>1 DEF NotSentYet
<1>4. (\A d \in Call : CallShape(d))'
  BY <1>0 DEF CallShape
<1>5. /\ (\A m \in Message : MessageShape(m))'
      /\ (ClocksAgree => \A m \in Message : Spent(m))'
  BY <1>1, MessagesKeep
<1>6. AnswersAreOwn'
  BY <1>0 DEF AnswersAreOwn, Current
<1>7. ProductionShape' /\ ProductionServes'
  BY <1>0, <1>1 DEF ProductionShape, ProductionServes, processes
<1> QED
  BY <1>2, <1>3, <1>4, <1>5, <1>6, <1>7

\* A call that is over, with its answer.
LEMMA SettleStep ==
  ASSUME IInv, NEW c \in Call, NEW answer \in Answer, Settle(c, answer),
         message' = message \/ Hangup(c),
         UNCHANGED <<processes, clock, offset, seen, accepted, executed, copies, restarts>>,
         answer = "ok" => executed[Current(c)] >= 1,
         answer = "replay_detected" /\ restarts = 0 => accepted[Current(c)] >= 1,
         isProduction => answer # "authentication_failed"
  PROVE  IInv'
<1> DEFINE a == [call[c] EXCEPT !.pc = "done", !.answer = answer]
<1>1. call[c] \in CallRow /\ CallShape(c)
  BY DEF IInv, Rest, TypeOK, CallRow
<1>2. a \in CallRow /\ a.pc = "done" /\ a.attempt = call[c].attempt /\ a.answer = answer
  BY <1>1 DEF CallRow, CallPc
<1>3. call' = [call EXCEPT ![c] = a]
  BY DEF Settle
<1> HIDE DEF a
<1> QED
  BY <1>1, <1>2, <1>3, CallStep DEF CallShape, Current

\* The client's steps but Send.
LEMMA ClientStep ==
  ASSUME IInv, NEW c \in Call, Request(c) \/ Receive(c) \/ Fail(c) \/ Again(c) \/ Cancel(c),
         UNCHANGED processes
  PROVE  IInv'
<1> USE DEF IInv, Rest
<1>0. /\ call[c] \in CallRow /\ CallShape(c) /\ Current(c) \in Message
      /\ UNCHANGED <<clock, offset, seen, accepted, executed, copies, restarts>>
  BY DEF TypeOK, CallRow, Current, Message, Request, Receive, Fail, Again, Cancel
<1>1. /\ {"authentication_failed", "authorization_denied", "unavailable", "cancelled",
          "schema_invalid", "response_too_large"} \subseteq Answer
      /\ Reply \subseteq Answer
  BY DEF Answer, Reply
<1>2. CASE Request(c)
  <2>1. CASE client = "none" /\ Settle(c, "authentication_failed")
    BY <1>0, <1>1, <1>2, <2>1, SettleStep DEF Request, ProductionShape
  <2>2. CASE Settle(c, "authorization_denied")
    BY <1>0, <1>1, <1>2, <2>2, SettleStep DEF Request
  <2>3. CASE call' = [call EXCEPT ![c].pc = "ready"]
    <3> DEFINE a == [call[c] EXCEPT !.pc = "ready"]
    <3>1. /\ a \in CallRow /\ a.pc = "ready" /\ a.attempt = call[c].attempt
          /\ a.answer = call[c].answer
      BY <1>0 DEF CallRow, CallPc
    <3>2. call' = [call EXCEPT ![c] = a] /\ call[c].pc = "idle" /\ message' = message
      BY <1>2, <2>3 DEF Request
    <3>3. a.answer = "none"
      BY <1>0, <3>1, <3>2 DEF CallShape
    <3> HIDE DEF a
    <3> QED
      BY <1>0, <3>1, <3>2, <3>3, CallStep DEF CallShape
  <2> QED
    BY <1>2, <2>1, <2>2, <2>3 DEF Request
<1>3. CASE Receive(c)
  <2>1. PICK answer \in Understood(message[Current(c)].reply) : Settle(c, answer)
    BY <1>3 DEF Receive
  <2>2. message[Current(c)].reply \in Reply /\ Hangup(c)
    BY <1>0, <1>3 DEF TypeOK, MessageRow, Receive
  <2>3. /\ answer \in Answer /\ answer # "authentication_failed"
        /\ answer = "ok" => message[Current(c)].reply = "ok"
        /\ answer = "replay_detected" => message[Current(c)].reply = "replay_detected"
    BY <1>1, <2>1, <2>2 DEF Understood, Reply
  <2>4. /\ answer = "ok" => executed[Current(c)] >= 1
        /\ answer = "replay_detected" /\ restarts = 0 => accepted[Current(c)] >= 1
    BY <1>0, <2>3 DEF MessageShape
  <2> QED
    BY <1>0, <2>1, <2>2, <2>3, <2>4, SettleStep
<1>4. CASE Fail(c)
  <2>1. CASE ~MayRetry(c)
    BY <1>0, <1>1, <1>4, <2>1, SettleStep DEF Fail
  <2>2. CASE MayRetry(c)
    <3> DEFINE a == [call[c] EXCEPT !.pc = "backoff"]
    <3>1. /\ a \in CallRow /\ a.pc = "backoff" /\ a.attempt = call[c].attempt
          /\ a.answer = call[c].answer
      BY <1>0 DEF CallRow, CallPc
    <3>2. call' = [call EXCEPT ![c] = a] /\ call[c].pc = "waiting" /\ Hangup(c)
      BY <1>4, <2>2 DEF Fail
    <3>3. a.answer = "none"
      BY <1>0, <3>1, <3>2 DEF CallShape
    <3> HIDE DEF a
    <3> QED
      BY <1>0, <2>2, <3>1, <3>2, <3>3, CallStep DEF CallShape, MayRetry
  <2> QED
    BY <2>1, <2>2
<1>5. CASE Again(c)
  <2> DEFINE a == [call[c] EXCEPT !.pc = "ready", !.attempt = call[c].attempt + 1]
  <2>1. call[c].pc = "backoff" /\ c \in Read /\ call[c].attempt < MaxRetries
        /\ call[c].attempt \in 0..MaxRetries /\ call[c].answer = "none"
    BY <1>0, <1>5 DEF Again, CallShape, CallRow
  <2>2. call[c].attempt + 1 \in 0..MaxRetries
    BY <2>1, ParameterAssumption
  <2>3. /\ a \in CallRow /\ a.pc = "ready" /\ a.attempt = call[c].attempt + 1
        /\ a.answer = "none"
    BY <1>0, <2>1, <2>2 DEF CallRow, CallPc
  <2>4. call' = [call EXCEPT ![c] = a] /\ message' = message
    BY <1>5 DEF Again
  <2> HIDE DEF a
  <2> QED
    BY <1>0, <2>1, <2>3, <2>4, CallStep
<1>6. CASE Cancel(c)
  BY <1>0, <1>1, <1>6, SettleStep DEF Cancel
<1> QED
  BY <1>2, <1>3, <1>4, <1>5, <1>6

\* A message is sent, with the time on the client's clock.
LEMMA SendStep == ASSUME IInv, NEW c \in Call, Send(c), UNCHANGED processes PROVE IInv'
<1> USE DEF IInv, Rest
<1>a. PICK n \in Message : n = <<c, call[c].attempt>> /\ n = Current(c)
  BY DEF TypeOK, Current, Message
<1> DEFINE a == [call[c] EXCEPT !.pc = "waiting"]
           b == [message[n] EXCEPT !.at = "network", !.stamp = (clock + offset) \div Second]
<1>0. /\ call \in [Call -> CallRow] /\ message \in [Message -> MessageRow]
      /\ call[c] \in CallRow /\ CallShape(c) /\ call[c].pc = "ready" /\ call[c].answer = "none"
      /\ UNCHANGED <<processes, clock, offset, seen, accepted, executed, copies, restarts>>
  BY DEF TypeOK, CallRow, Current, Message, Send, CallShape
<1>1. (clock + offset) \div Second \in Int
  BY Rounded, ParameterAssumption DEF TypeOK
<1>2. message[n].at = "unsent"
  BY <1>0, <1>a DEF NotSentYet, CallRow
<1>3. /\ a \in CallRow /\ a.pc = "waiting" /\ a.attempt = call[c].attempt
      /\ a.answer = "none"
  BY <1>0 DEF CallRow, CallPc
<1>4. /\ b \in MessageRow /\ b.at = "network" /\ b.stamp = (clock + offset) \div Second
      /\ b.reply = message[n].reply
  BY <1>0, <1>1 DEF MessageRow
<1>5. call' = [call EXCEPT ![c] = a] /\ message' = [message EXCEPT ![n] = b]
  BY <1>a DEF Send
<1> HIDE DEF a, b
<1>6. /\ call'[c] = a /\ \A d \in Call : d # c => call'[d] = call[d]
      /\ message'[n] = b /\ \A m \in Message : m # n => message'[m] = message[m]
  BY <1>0, <1>5
<1>7. TypeOK'
  <2>1. call' \in [Call -> CallRow] /\ message' \in [Message -> MessageRow]
    BY <1>0, <1>3, <1>4, <1>5
  <2> QED
    BY <1>0, <2>1 DEF TypeOK, CallRow, processes
<1>8. NotSentYet'
  <2>1. ASSUME NEW d \in Call, NEW k \in 0..MaxRetries,
               k > call'[d].attempt \/ (k = call'[d].attempt /\ call'[d].pc \in {"idle", "ready"})
        PROVE  message'[<<d, k>>].at = "unsent"
    <3>1. <<d, k>> \in Message /\ call[d].attempt \in Nat /\ k \in Nat
      BY <1>0, ParameterAssumption DEF Message, CallRow
    <3>2. /\ k > call[d].attempt \/ (k = call[d].attempt /\ call[d].pc \in {"idle", "ready"})
          /\ d = c => k # call[c].attempt
      BY <1>3, <1>6, <2>1, <3>1
    <3>3. <<d, k>> # n
      BY <1>a, <3>2
    <3> QED
      BY <1>6, <3>1, <3>2, <3>3 DEF NotSentYet
  <2> QED
    BY <2>1 DEF NotSentYet
<1>9. (\A d \in Call : CallShape(d))'
  BY <1>0, <1>3, <1>6 DEF CallShape
<1>10. (\A m \in Message : MessageShape(m))'
  <2>1. \A m \in Message : m # n => (MessageShape(m) => MessageShape(m)')
    BY <1>0, <1>6 DEF MessageShape
  <2>2. MessageShape(n)'
    <3>1. MessageShape(n)
      BY <1>0
    <3>2. b.stamp <= (clock + offset) \div Second
      BY <1>1, <1>4
    <3> QED
      BY <1>0, <1>2, <1>4, <1>6, <3>1, <3>2 DEF MessageShape
  <2> QED
    BY <2>1, <2>2
<1>11. (ClocksAgree => \A m \in Message : Spent(m))'
  <2>1. ClocksAgree' => ClocksAgree
    BY <1>0 DEF ClocksAgree
  <2>2. \A m \in Message : m # n => (Spent(m) => Spent(m)')
    BY <1>0, <1>6 DEF Spent, TooOld, InHand
  <2>3. ClocksAgree => Spent(n)'
    <3>1. accepted[n] = 0 /\ executed[n] = 0 /\ restarts \in Nat
      BY <1>0, <1>2, ParameterAssumption DEF MessageShape, TypeOK
    <3> QED
      BY <1>0, <1>4, <1>6, <3>1 DEF Spent, InHand
  <2> QED
    BY <2>1, <2>2, <2>3
<1>12. AnswersAreOwn'
  BY <1>0, <1>3, <1>6 DEF AnswersAreOwn, Current
<1>13. ProductionShape' /\ ProductionServes'
  <2>1. ProductionShape'
    BY <1>0 DEF ProductionShape, processes
  <2>2. ProductionServes'
    <3>1. isProduction' = isProduction
      BY <1>0 DEF processes
    <3>2. \A m \in Message : message'[m].reply = message[m].reply
      BY <1>4, <1>6
    <3>3. \A d \in Call : call'[d].answer = call[d].answer
      BY <1>0, <1>3, <1>6
    <3> QED
      BY <3>1, <3>2, <3>3 DEF ProductionServes
  <2> QED
    BY <2>1, <2>2
<1> QED
  BY <1>7, <1>8, <1>9, <1>10, <1>11, <1>12, <1>13
-----------------------------------------------------------------------------
(* The API *)

\* A nonce that is consumed was not accepted before, as long as clocks agree: by
\* the time the store forgets it, its timestamp is refused.
LEMMA ConsumeSpends ==
  ASSUME IInv, NEW m \in Message, message[m].at # "unsent", Consume(m), ClocksAgree
  PROVE  /\ accepted[m] = 0 /\ seen'[m] # Never
         /\ TooOld(m, seen'[m])
<1>1. /\ Second \in Nat \ {0} /\ Skew \in Nat \ {0} /\ message[m].stamp \in Int
      /\ clock \in Nat /\ seen[m] \in {Never} \cup Nat /\ accepted[m] \in Nat
  BY ParameterAssumption DEF IInv, TypeOK, MessageRow
<1>2. WithinSkew(m) /\ ~Remembered(m) /\ seen'[m] = ForgottenAt(clock)
  BY DEF Consume
<1>3. ~TooOld(m, clock)
  <2>1. clock \div Second \in Int
    BY <1>1, Rounded
  <2> QED
    BY <1>1, <1>2, <2>1 DEF WithinSkew, TooOld
<1>4. TooOld(m, ForgottenAt(clock)) /\ ForgottenAt(clock) \in Nat
  BY <1>1, <1>2, KeptLongEnough DEF ForgottenAt
<1>5. accepted[m] = 0
  <2> SUFFICES ASSUME accepted[m] # 0 PROVE FALSE
    OBVIOUS
  <2>1. accepted[m] = 1
    BY <1>1 DEF IInv, Rest, Spent
  <2>2. seen[m] # Never /\ TooOld(m, seen[m])
    BY <1>3, <2>1 DEF IInv, Rest, Spent
  <2>3. seen[m] \in Nat /\ seen[m] <= clock
    BY <1>1, <1>2, <2>2 DEF Remembered
  <2> QED
    BY <1>1, <1>3, <2>2, <2>3, TooOldForGood DEF IInv
<1> QED
  BY <1>2, <1>4, <1>5 DEF Never

\* What a route with credentials and handlers may answer.
MayAnswer(reply) == isProduction => reply \notin {"not configured", "no handler"}

\* A message reaches the API or is handled there: b is what becomes of it, ran
\* whether its operation is committed, taken whether its nonce is consumed.
LEMMA MessageStep ==
  ASSUME IInv, NEW m \in Message, NEW b \in MessageRow, NEW ran \in 0..1, NEW taken \in 0..1,
         NEW before \in 0..1, NEW after \in 0..1,
         before = InHand(message[m]), after = InHand(b), ran + after <= before + taken,
         message[m].at # "unsent", b.at # "unsent", b.stamp = message[m].stamp,
         message' = [message EXCEPT ![m] = b],
         executed' = [executed EXCEPT ![m] = @ + ran],
         (taken = 1 /\ Consume(m)) \/ (taken = 0 /\ UNCHANGED <<seen, accepted>>),
         copies' \in 0..MaxCopies,
         UNCHANGED <<processes, clock, offset, call, restarts>>,
         b.reply = "ok" => message[m].reply = "ok" \/ ran = 1,
         b.reply = "replay_detected" => message[m].reply = "replay_detected" \/ Remembered(m),
         MayAnswer(b.reply) \/ b.reply = message[m].reply
  PROVE  IInv'
<1> USE DEF IInv, Rest
<1>1. /\ message \in [Message -> MessageRow] /\ executed \in [Message -> Nat]
      /\ accepted \in [Message -> Nat] /\ seen \in [Message -> {Never} \cup Nat]
      /\ clock \in Nat /\ restarts \in Nat
  BY ParameterAssumption DEF TypeOK
<1>2. /\ message'[m] = b /\ \A n \in Message : n # m => message'[n] = message[n]
      /\ executed'[m] = executed[m] + ran
      /\ \A n \in Message : n # m => executed'[n] = executed[n]
  BY <1>1
<1>3. /\ accepted' \in [Message -> Nat] /\ accepted'[m] = accepted[m] + taken
      /\ \A n \in Message : n # m => accepted'[n] = accepted[n]
  <2>1. CASE taken = 1
    <3>1. accepted' = [accepted EXCEPT ![m] = @ + 1]
      BY <2>1 DEF Consume
    <3> QED
      BY <1>1, <2>1, <3>1
  <2>2. CASE taken = 0
    BY <1>1, <2>2
  <2> QED
    BY <2>1, <2>2
<1>4. /\ seen' \in [Message -> {Never} \cup Nat]
      /\ seen'[m] # Never => seen'[m] = seen[m] \/ taken = 1
      /\ \A n \in Message : n # m => \/ seen'[n] = seen[n]
                                     \/ seen'[n] = Never /\ ~Remembered(n)
      /\ taken = 0 => seen' = seen
  <2>1. CASE taken = 1
    <3>1. ForgottenAt(clock) \in Nat
      BY <1>1, ParameterAssumption DEF ForgottenAt
    <3> QED
      BY <1>1, <2>1, <3>1 DEF Consume
  <2>2. CASE taken = 0
    BY <1>1, <2>2
  <2> QED
    BY <2>1, <2>2
<1>5. TypeOK'
  <2>1. message' \in [Message -> MessageRow] /\ executed' \in [Message -> Nat]
    BY <1>1
  <2> QED
    BY <1>3, <1>4, <2>1 DEF TypeOK, processes
<1>6. NotSentYet' /\ (\A c \in Call : CallShape(c))'
  <2>1. \A n \in Message : message[n].at = "unsent" => message'[n].at = "unsent"
    BY <1>2
  <2>2. \A c \in Call, k \in 0..MaxRetries : <<c, k>> \in Message
    BY DEF Message
  <2>3. NotSentYet'
    BY <2>1, <2>2 DEF NotSentYet
  <2> QED
    BY <2>3 DEF CallShape
<1>7. (\A n \in Message : MessageShape(n))'
  <2>1. ASSUME NEW n \in Message, n # m PROVE MessageShape(n)'
    <3>1. MessageShape(n)
      OBVIOUS
    <3>2. /\ message'[n] = message[n] /\ accepted'[n] = accepted[n] /\ executed'[n] = executed[n]
          /\ seen'[n] \in {seen[n], Never}
      BY <1>2, <1>3, <1>4, <2>1
    <3> QED
      BY <3>1, <3>2 DEF MessageShape
  <2>2. MessageShape(m)'
    <3>1. MessageShape(m) /\ accepted[m] \in Nat /\ executed[m] \in Nat
      BY <1>1
    <3>2. Remembered(m) => seen[m] # Never
      BY <1>1 DEF Remembered, Never
    <3>3. /\ (message[m].stamp <= (clock + offset) \div Second)'
          /\ (seen[m] # Never => accepted[m] >= 1)'
          /\ (message[m].reply = "ok" => executed[m] >= 1)'
          /\ (message[m].reply = "replay_detected" /\ restarts = 0 => accepted[m] >= 1)'
      BY <1>2, <1>3, <1>4, <3>1, <3>2 DEF MessageShape
    <3> QED
      BY <1>2, <3>3 DEF MessageShape
  <2> QED
    BY <2>1, <2>2
<1>8. (ClocksAgree => \A n \in Message : Spent(n))'
  <2> SUFFICES ASSUME ClocksAgree', NEW n \in Message PROVE Spent(n)'
    OBVIOUS
  <2>0. ClocksAgree
    BY DEF ClocksAgree
  <2>1. Spent(n) /\ accepted[n] \in Nat /\ executed[n] \in Nat
    BY <1>1, <2>0
  <2>2. /\ message'[n].stamp = message[n].stamp
        /\ \A t : TooOld(n, t) => (message'[n].stamp = message[n].stamp /\ t \div Second - message'[n].stamp > Skew)
    BY <1>2 DEF TooOld
  <2>3. CASE n # m
    <3>1. /\ message'[n] = message[n] /\ accepted'[n] = accepted[n] /\ executed'[n] = executed[n]
      BY <1>2, <1>3, <2>3
    <3>2. accepted[n] = 1 => \/ TooOld(n, clock)
                             \/ seen'[n] # Never /\ seen'[n] = seen[n] /\ TooOld(n, seen[n])
      <4> SUFFICES ASSUME accepted[n] = 1, ~TooOld(n, clock)
                   PROVE  seen'[n] # Never /\ seen'[n] = seen[n] /\ TooOld(n, seen[n])
        OBVIOUS
      <4>1. seen[n] # Never /\ TooOld(n, seen[n]) /\ seen[n] \in Nat
        BY <1>1, <2>1 DEF Spent
      <4>2. Remembered(n)
        BY <1>1, <4>1, TooOldForGood DEF Remembered
      <4> QED
        BY <1>4, <2>3, <4>1, <4>2
    <3> QED
      BY <2>1, <2>2, <3>1, <3>2 DEF Spent, TooOld
  <2>4. CASE n = m
    <3>1. InHand(message[m])' = InHand(b)
      BY <1>2 DEF InHand
    <3>2. executed[m] + before <= restarts + accepted[m]
      BY <2>1, <2>4 DEF Spent
    <3>3. executed[m] \in Nat /\ accepted[m] \in Nat
      BY <1>1
    <3>4. executed'[m] + after <= restarts + accepted'[m]
      BY <1>1, <1>2, <1>3, <3>2, <3>3
    <3>5. CASE taken = 1
      <4>1. accepted[m] = 0 /\ seen'[m] # Never /\ TooOld(m, seen'[m])
        BY <2>0, <3>5, ConsumeSpends
      <4> QED
        BY <1>2, <1>3, <2>2, <2>4, <3>1, <3>4, <3>5, <4>1 DEF Spent, TooOld
    <3>6. CASE taken = 0
      <4>1. accepted'[m] = accepted[m] /\ seen' = seen
        BY <1>1, <1>3, <1>4, <3>6
      <4> QED
        BY <1>2, <2>1, <2>2, <2>4, <3>1, <3>4, <4>1 DEF Spent, TooOld
    <3> QED
      BY <3>5, <3>6
  <2> QED
    BY <2>3, <2>4
<1>9. AnswersAreOwn'
  <2>1. \A n \in Message : executed'[n] >= executed[n] /\ accepted'[n] >= accepted[n]
    BY <1>1, <1>2, <1>3
  <2>2. \A c \in Call : Current(c) \in Message /\ Current(c)' = Current(c)
    BY DEF Current, Message, TypeOK
  <2>3. \A n \in Message : executed[n] \in Nat /\ accepted[n] \in Nat
                           /\ executed'[n] \in Nat /\ accepted'[n] \in Nat
    BY <1>1, <1>3, <1>5 DEF TypeOK
  <2> QED
    BY <2>1, <2>2, <2>3 DEF AnswersAreOwn
<1>10. ProductionShape' /\ ProductionServes'
  <2>1. ProductionShape'
    BY DEF ProductionShape, processes
  <2>2. ProductionServes'
    <3>1. isProduction' = isProduction /\ call' = call
      BY DEF processes
    <3>2. \A n \in Message : MayAnswer(message[n].reply)
      BY DEF ProductionServes, MayAnswer
    <3>3. \A n \in Message : MayAnswer(message'[n].reply)
      BY <1>2, <3>2
    <3> QED
      BY <3>1, <3>3 DEF ProductionServes, MayAnswer
  <2> QED
    BY <2>1, <2>2
<1> QED
  BY <1>5, <1>6, <1>7, <1>8, <1>9, <1>10

\* The records the API makes of a message.
LEMMA MessageUpdates ==
  ASSUME NEW row \in MessageRow, NEW at \in {"handler", "answered"}, NEW reply \in Reply
  PROVE  /\ [row EXCEPT !.at = at] \in MessageRow
         /\ [row EXCEPT !.reply = reply] \in MessageRow
         /\ [row EXCEPT !.at = at, !.reply = reply] \in MessageRow
BY DEF MessageRow

\* An answer, to whoever still waits for it.
LEMMA AnswerStep ==
  ASSUME IInv, NEW m \in Message, NEW reply \in Reply, NEW ran \in 0..1, NEW taken \in 0..1,
         NEW before \in 0..1, before = InHand(message[m]), ran <= before + taken,
         message[m].at # "unsent", Answered(m, reply),
         executed' = [executed EXCEPT ![m] = @ + ran],
         (taken = 1 /\ Consume(m)) \/ (taken = 0 /\ UNCHANGED <<seen, accepted>>),
         UNCHANGED <<processes, clock, offset, call, restarts, copies>>,
         reply = "ok" => message[m].reply = "ok" \/ ran = 1,
         reply = "replay_detected" => message[m].reply = "replay_detected" \/ Remembered(m),
         MayAnswer(reply) \/ reply = message[m].reply
  PROVE  IInv'
<1> DEFINE r == IF Waited(m) THEN reply ELSE "none"
           b == [message[m] EXCEPT !.at = "answered", !.reply = r]
<1>1. r \in Reply /\ message[m] \in MessageRow
  BY DEF Reply, IInv, TypeOK
<1>2. /\ b \in MessageRow /\ b.at = "answered" /\ b.stamp = message[m].stamp /\ b.reply = r
  BY <1>1, MessageUpdates DEF MessageRow
<1>3. message' = [message EXCEPT ![m] = b]
  BY DEF Answered
<1>4. r \in {reply, "none"} /\ copies' \in 0..MaxCopies
  BY DEF IInv, TypeOK
<1> HIDE DEF b, r
<1>5. 0 = InHand(b) /\ 0 \in 0..1 /\ ran + 0 <= before + taken
  BY <1>2 DEF InHand
<1>6. /\ b.reply = "ok" => message[m].reply = "ok" \/ ran = 1
      /\ b.reply = "replay_detected" => message[m].reply = "replay_detected" \/ Remembered(m)
      /\ MayAnswer(b.reply) \/ b.reply = message[m].reply
  BY <1>2, <1>4 DEF MayAnswer
<1>7. UNCHANGED <<processes, clock, offset, call, restarts>>
  OBVIOUS
<1> QED
  BY <1>2, <1>3, <1>4, <1>5, <1>6, <1>7, MessageStep

\* What arrives at the API, times out there or is handled keeps the invariant.
LEMMA ApiStep ==
  ASSUME IInv, NEW m \in Message,
         Arrive(m) \/ ArriveAgain(m) \/ TimeOut(m) \/ Handle(m), UNCHANGED processes
  PROVE  IInv'
<1> USE DEF IInv, Rest
<1>0. /\ message[m] \in MessageRow /\ message[m].reply \in Reply
      /\ message[m].at # "unsent" /\ executed \in [Message -> Nat]
      /\ UNCHANGED <<processes, clock, offset, call, restarts>>
  BY DEF TypeOK, MessageRow, Arrive, ArriveAgain, TimeOut, Handle
<1>1. /\ \A row : InHand(row) \in 0..1
      /\ 0 \in 0..1 /\ 1 \in 0..1
      /\ executed = [executed EXCEPT ![m] = @ + 0]
  BY <1>0 DEF InHand
<1> DEFINE before == InHand(message[m])
<1>b. before = InHand(message[m]) /\ before \in 0..1 /\ \A taken \in 0..1 : 0 <= before + taken
  BY <1>1
<1> HIDE DEF before
<1>2. {"ok", "operation_failed", "replay_detected", "authentication_failed",
       "authorization_denied", "no handler", "not configured", "timed out"} \subseteq Reply
  BY DEF Reply
<1>3. CASE Arrive(m)
  <2>0. UNCHANGED <<executed, copies>> /\ api.up /\ message[m].at = "network"
    BY <1>3 DEF Arrive
  <2>1. executed' = [executed EXCEPT ![m] = @ + 0] /\ copies' \in 0..MaxCopies
    BY <1>1, <2>0 DEF TypeOK
  <2>2. CASE Refusal(m) # "none" /\ Answered(m, Refusal(m)) /\ UNCHANGED <<seen, accepted>>
    <3> DEFINE reply == Refusal(m)
    <3>1. reply \in {"not configured", "authentication_failed", "authorization_denied"}
      BY <2>2 DEF Refusal
    <3>2. MayAnswer(reply)
      BY <2>0, <3>1 DEF Refusal, ProductionShape, MayAnswer
    <3> HIDE DEF reply
    <3>3. reply \in Reply
      BY <1>2, <3>1
    <3>4. Answered(m, reply)
      BY <2>2 DEF reply
    <3> QED
      BY <1>0, <1>1, <1>b, <2>0, <2>1, <2>2, <3>1, <3>2, <3>3, <3>4, AnswerStep
  <2>3. CASE Remembered(m) /\ Answered(m, "replay_detected") /\ UNCHANGED <<seen, accepted>>
    <3>1. MayAnswer("replay_detected")
      BY DEF MayAnswer
    <3> QED
      BY <1>0, <1>1, <1>b, <1>2, <2>0, <2>1, <2>3, <3>1, AnswerStep
  <2>4. CASE Consume(m) /\ api.handlers /\ message' = [message EXCEPT ![m].at = "handler"]
    <3> DEFINE b == [message[m] EXCEPT !.at = "handler"]
    <3>1. /\ b \in MessageRow /\ b.at = "handler" /\ b.stamp = message[m].stamp
          /\ b.reply = message[m].reply
      BY <1>0, <1>2, MessageUpdates DEF MessageRow
    <3>2. message' = [message EXCEPT ![m] = b]
      BY <2>4
    <3> HIDE DEF b
    <3>3. 1 = InHand(b) /\ 0 + 1 <= before + 1
      BY <1>b, <3>1 DEF InHand
    <3>4. /\ b.at # "unsent" /\ Consume(m)
          /\ b.reply = "ok" => message[m].reply = "ok"
          /\ b.reply = "replay_detected" => message[m].reply = "replay_detected"
      BY <2>4, <3>1
    <3> QED
      BY <1>0, <1>1, <1>b, <2>1, <3>1, <3>2, <3>3, <3>4, MessageStep
  <2>5. CASE Consume(m) /\ ~api.handlers /\ Answered(m, "no handler")
    <3>1. MayAnswer("no handler")
      BY <2>0, <2>5 DEF ProductionShape, MayAnswer
    <3> QED
      BY <1>0, <1>1, <1>b, <1>2, <2>0, <2>1, <2>5, <3>1, AnswerStep
  <2> QED
    BY <1>3, <2>2, <2>3, <2>4, <2>5 DEF Arrive
<1>4. CASE ArriveAgain(m)
  <2>1. PICK ran \in IF api.handlers THEN {0, 1} ELSE {0} :
          executed' = [executed EXCEPT ![m] = @ + ran]
    BY <1>4 DEF ArriveAgain
  <2>r. ran \in 0..1
    OBVIOUS
  <2>2. message = [message EXCEPT ![m] = message[m]] /\ message' = message /\ Consume(m)
    BY <1>4 DEF ArriveAgain, TypeOK
  <2>3. copies' \in 0..MaxCopies
    BY <1>4, ParameterAssumption DEF ArriveAgain, TypeOK
  <2>4. ran + before <= before + 1
    BY <1>b, <2>r
  <2>5. message' = [message EXCEPT ![m] = message[m]]
    BY <2>2
  <2> QED
    BY <1>0, <1>1, <1>b, <2>1, <2>r, <2>2, <2>3, <2>4, <2>5, MessageStep
<1>5. CASE TimeOut(m)
  <2> DEFINE b == [message[m] EXCEPT !.reply = "timed out"]
  <2>1. /\ b \in MessageRow /\ b.at = message[m].at /\ b.stamp = message[m].stamp
        /\ b.reply = "timed out"
    BY <1>0, <1>2, MessageUpdates DEF MessageRow
  <2>2. /\ message' = [message EXCEPT ![m] = b] /\ UNCHANGED <<seen, accepted, executed, copies>>
    BY <1>5 DEF TimeOut
  <2> HIDE DEF b
  <2>3. before = InHand(b)
    BY <2>1 DEF InHand, before
  <2>5. 0 + before <= before + 0
    BY <1>b
  <2>6. MayAnswer(b.reply)
    BY <2>1 DEF MayAnswer
  <2>4. executed' = [executed EXCEPT ![m] = @ + 0] /\ copies' \in 0..MaxCopies
    BY <1>1, <2>2 DEF TypeOK
  <2> QED
    BY <1>0, <1>1, <1>b, <2>1, <2>2, <2>3, <2>4, <2>5, <2>6, MessageStep
<1>6. CASE Handle(m)
  <2>0. UNCHANGED <<seen, accepted, copies>> /\ before = 1
    BY <1>6 DEF Handle, InHand, before
  <2>1. ASSUME NEW ran \in 0..1, NEW reply \in {"ok", "operation_failed"},
               executed' = [executed EXCEPT ![m] = @ + ran], Finish(m, reply),
               reply = "ok" => ran = 1
        PROVE  IInv'
    <3> DEFINE r == IF message[m].reply = "none" THEN reply ELSE message[m].reply
    <3>1. r \in Reply /\ r \in {message[m].reply, reply}
      BY <1>0, <1>2
    <3>2. Answered(m, r)
      BY <2>1 DEF Finish
    <3> HIDE DEF r
    <3>3. ran <= 1 + 0
      BY <2>1
    <3>4. MayAnswer(reply)
      BY <2>1 DEF MayAnswer
    <3>5. MayAnswer(r) \/ r = message[m].reply
      BY <3>1, <3>4
    <3> QED
      BY <1>0, <1>1, <1>b, <2>0, <2>1, <3>1, <3>2, <3>3, <3>5, AnswerStep
  <2>2. \E ran \in 0..1 : \E reply \in {"ok", "operation_failed"} :
          /\ executed' = [executed EXCEPT ![m] = @ + ran] /\ Finish(m, reply)
          /\ reply = "ok" => ran = 1
    BY <1>1, <1>6 DEF Handle
  <2> QED
    BY <2>1, <2>2
<1> QED
  BY <1>3, <1>4, <1>5, <1>6

\* A stop forgets the nonces, and loses the handlers under way.
LEMMA StopStep == ASSUME IInv, Stop PROVE IInv'
<1> USE DEF IInv, Rest
<1>0. /\ UNCHANGED <<isProduction, client, clock, offset, call, executed, copies>>
      /\ api' = Down /\ restarts' = restarts + 1 /\ restarts < MaxRestarts
      /\ seen' = [m \in Message |-> Never] /\ accepted' = [m \in Message |-> 0]
  BY DEF Stop
<1>1. restarts \in Nat /\ restarts' \in 0..MaxRestarts /\ restarts' # 0
  BY <1>0, ParameterAssumption DEF TypeOK
<1>2. /\ message' \in [Message -> MessageRow]
      /\ \A m \in Message : /\ message'[m].stamp = message[m].stamp
                            /\ message'[m].reply = message[m].reply
                            /\ message'[m].at = IF message[m].at = "handler" THEN "lost"
                                                ELSE message[m].at
  <2>1. /\ message' = [m \in Message |-> IF message[m].at = "handler"
                                         THEN [message[m] EXCEPT !.at = "lost"] ELSE message[m]]
        /\ message \in [Message -> MessageRow]
    BY DEF Stop, TypeOK
  <2>2. \A row \in MessageRow : /\ [row EXCEPT !.at = "lost"] \in MessageRow
                                /\ [row EXCEPT !.at = "lost"].stamp = row.stamp
                                /\ [row EXCEPT !.at = "lost"].reply = row.reply
                                /\ [row EXCEPT !.at = "lost"].at = "lost"
    BY DEF MessageRow
  <2> QED
    BY <2>1, <2>2
<1>3. TypeOK'
  <2>1. seen' \in [Message -> {Never} \cup Nat] /\ accepted' \in [Message -> Nat]
    BY <1>0
  <2>2. api' \in ApiState
    BY <1>0 DEF ApiState, Down
  <2> QED
    BY <1>0, <1>1, <1>2, <2>1, <2>2 DEF TypeOK
<1>4. NotSentYet'
  <2>1. \A c \in Call, k \in 0..MaxRetries : <<c, k>> \in Message
    BY DEF Message
  <2> QED
    BY <1>0, <1>2, <2>1 DEF NotSentYet
<1>5. (\A c \in Call : CallShape(c))'
  BY <1>0 DEF CallShape
<1>6. (\A m \in Message : MessageShape(m))'
  <2>1. ASSUME NEW m \in Message PROVE MessageShape(m)'
    <3>1. MessageShape(m)
      OBVIOUS
    <3>2. seen'[m] = Never /\ accepted'[m] = 0
      BY <1>0
    <3> QED
      BY <1>0, <1>1, <1>2, <3>1, <3>2 DEF MessageShape
  <2> QED
    BY <2>1
<1>7. (ClocksAgree => \A m \in Message : Spent(m))'
  <2> SUFFICES ASSUME ClocksAgree', NEW m \in Message PROVE Spent(m)'
    OBVIOUS
  <2>1. Spent(m) /\ executed[m] \in Nat /\ accepted[m] \in Nat
    BY <1>0 DEF ClocksAgree, TypeOK
  <2>2. accepted'[m] = 0 /\ executed'[m] = executed[m] /\ InHand(message[m])' = 0
    BY <1>0, <1>2 DEF InHand
  <2>3. executed[m] <= restarts + 1
    <3>1. InHand(message[m]) \in 0..1
      BY DEF InHand
    <3>2. executed[m] + InHand(message[m]) <= restarts + accepted[m] /\ accepted[m] <= 1
      BY <2>1 DEF Spent
    <3> DEFINE h == InHand(message[m])
    <3> HIDE DEF h
    <3>3. h \in 0..1 /\ executed[m] + h <= restarts + accepted[m]
      BY <3>1, <3>2 DEF h
    <3> QED
      BY <1>1, <2>1, <3>2, <3>3
  <2>4. executed'[m] + 0 <= restarts' + 0
    BY <1>0, <1>1, <2>1, <2>2, <2>3
  <2> QED
    BY <2>2, <2>4 DEF Spent
<1>8. AnswersAreOwn'
  BY <1>0, <1>1 DEF AnswersAreOwn, Current
<1>9. ProductionShape' /\ ProductionServes'
  <2>1. ProductionShape'
    BY <1>0 DEF ProductionShape, Down
  <2>2. ProductionServes'
    BY <1>0, <1>2 DEF ProductionServes
  <2> QED
    BY <2>1, <2>2
<1> QED
  BY <1>3, <1>4, <1>5, <1>6, <1>7, <1>8, <1>9

\* The API comes up as its gates allow, or time passes.
LEMMA StartStep == ASSUME IInv, Start PROVE IInv'
<1> USE DEF IInv, Rest
<1>0. UNCHANGED <<isProduction, client, clock, offset, call, message, seen, accepted, executed,
                  copies, restarts>>
  BY DEF Start
<1>1. api' \in ApiState /\ ProductionShape'
  BY <1>0, ComposedServes DEF Start, TypeOK, ProductionShape
<1>2. TypeOK'
  BY <1>0, <1>1 DEF TypeOK
<1>3. /\ NotSentYet' /\ (\A c \in Call : CallShape(c))' /\ (\A m \in Message : MessageShape(m))'
      /\ AnswersAreOwn' /\ ProductionServes'
  BY <1>0 DEF NotSentYet, CallShape, MessageShape, AnswersAreOwn, Current, ProductionServes
<1>4. (ClocksAgree => \A m \in Message : Spent(m))'
  BY <1>0 DEF ClocksAgree, Spent, TooOld, InHand
<1> QED
  BY <1>1, <1>2, <1>3, <1>4

\* Time keeps the invariant: a timestamp that is too old stays so.
LEMMA TickStep == ASSUME IInv, Tick, UNCHANGED processes PROVE IInv'
<1> USE DEF IInv, Rest
<1>0. /\ UNCHANGED <<isProduction, client, api, offset, call, message, seen, accepted, executed,
                     copies, restarts>>
      /\ clock < MaxTime /\ clock' = clock + 1
  BY DEF Tick, processes
<1>1. /\ clock \in Nat /\ clock' \in 0..MaxTime /\ clock' \in Nat /\ clock <= clock'
      /\ Second \in Nat \ {0} /\ offset \in Int /\ clock' + offset \in Int
      /\ clock + offset \in Int /\ clock + offset <= clock' + offset
  BY <1>0, ParameterAssumption DEF TypeOK
<1>2. TypeOK'
  BY <1>0, <1>1 DEF TypeOK
<1>3. NotSentYet' /\ (\A c \in Call : CallShape(c))' /\ AnswersAreOwn' /\ ProductionShape'
      /\ ProductionServes'
  BY <1>0 DEF NotSentYet, CallShape, AnswersAreOwn, Current, ProductionShape, ProductionServes
<1>4. (\A m \in Message : MessageShape(m))'
  <2>1. /\ (clock + offset) \div Second <= (clock' + offset) \div Second
        /\ (clock + offset) \div Second \in Int /\ (clock' + offset) \div Second \in Int
    BY <1>1, Rounded, RoundedInOrder
  <2>2. \A m \in Message : message[m].stamp \in Int
    BY DEF TypeOK, MessageRow
  <2>3. offset' = offset
    BY <1>0
  <2>4. \A m \in Message : message[m].stamp <= (clock + offset) \div Second
                           => message[m].stamp <= (clock' + offset) \div Second
    BY <2>1, <2>2
  <2>5. \A m \in Message : MessageShape(m) => MessageShape(m)'
    BY <1>0, <2>3, <2>4 DEF MessageShape
  <2> QED
    BY <2>5
<1>5. (ClocksAgree => \A m \in Message : Spent(m))'
  <2>1. \A m \in Message : TooOld(m, clock) => TooOld(m, clock')
    BY <1>1, TooOldForGood
  <2>3. \A m \in Message : Spent(m) => Spent(m)'
    BY <1>0, <2>1 DEF Spent, TooOld, InHand
  <2> QED
    BY <1>0, <2>3 DEF ClocksAgree
<1> QED
  BY <1>2, <1>3, <1>4, <1>5

\* The invariant is inductive, and holds throughout.
LEMMA NextIInv == IInv /\ [Next]_vars => IInv'
<1> SUFFICES ASSUME IInv, [Next]_vars PROVE IInv'
  OBVIOUS
<1>1. CASE Next
  BY <1>1, ClientStep, SendStep, ApiStep, TickStep, StopStep, StartStep DEF Next
<1>2. CASE UNCHANGED vars
  <2> USE DEF IInv, Rest
  <2>1. TypeOK'
    BY <1>2 DEF TypeOK, vars
  <2>2. /\ NotSentYet' /\ (\A c \in Call : CallShape(c))' /\ (\A m \in Message : MessageShape(m))'
        /\ AnswersAreOwn' /\ ProductionShape' /\ ProductionServes'
    BY <1>2 DEF NotSentYet, CallShape, MessageShape, AnswersAreOwn, Current, ProductionShape,
                ProductionServes, vars
  <2>3. (ClocksAgree => \A m \in Message : Spent(m))'
    BY <1>2 DEF ClocksAgree, Spent, TooOld, InHand, vars
  <2> QED
    BY <2>1, <2>2, <2>3
<1> QED
  BY <1>1, <1>2

\* The invariant holds in every reachable state.
LEMMA InvariantHolds == Spec => []IInv
BY InitIInv, NextIInv, PTL DEF Spec
-----------------------------------------------------------------------------
(* Theorems *)

\* The types hold, and the answer a caller gets is that of the attempt it is at
\* (request).
THEOREM AnswersBelong == Spec => []BoundaryInv
<1>1. IInv => BoundaryInv
  BY DEF IInv, Rest, BoundaryInv
<1> QED
  BY <1>1, InvariantHolds, PTL

\* Until the API restarts a nonce is accepted once, for every skew and whatever
\* the clocks round away (authenticateBoundaryRequest, MemoryReplayStore).
THEOREM NoncesAreSpent == Spec => []NonceOnce
<1>1. IInv => NonceOnce
  BY DEF IInv, Rest, NonceOnce, Spent
<1> QED
  BY <1>1, InvariantHolds, PTL

\* A write runs at most once per life of the API, and only for its first attempt
\* (mayRetry in request).
THEOREM WritesRunOnce == Spec => []WriteAtMostOnce
<1>1. IInv => WriteAtMostOnce
  <2> SUFFICES ASSUME IInv, ClocksAgree, NEW c \in Write
               PROVE  /\ executed[<<c, 0>>] <= 1 + restarts
                      /\ \A attempt \in 1..MaxRetries : executed[<<c, attempt>>] = 0
    BY DEF WriteAtMostOnce
  <2> USE DEF IInv, Rest
  <2>1. c \in Call /\ c \notin Read /\ 0 \in 0..MaxRetries
    BY ParameterAssumption DEF Call
  <2>2. call[c].attempt = 0
    <3>1. call[c].attempt \in 0..MaxRetries
      BY <2>1 DEF TypeOK
    <3> QED
      BY <2>1, <3>1 DEF CallShape
  <2>3. ASSUME NEW attempt \in 1..MaxRetries PROVE executed[<<c, attempt>>] = 0
    <3>1. attempt \in 0..MaxRetries /\ attempt > 0
      BY ParameterAssumption
    <3>2. <<c, attempt>> \in Message
      BY <2>1, <3>1 DEF Message
    <3> QED
      BY <2>1, <2>2, <3>1, <3>2 DEF NotSentYet, MessageShape
  <2>4. executed[<<c, 0>>] <= 1 + restarts
    <3>1. PICK m \in Message : m = <<c, 0>>
      BY <2>1 DEF Message
    <3>2. /\ Spent(m) /\ executed[m] \in Nat /\ accepted[m] \in Nat /\ restarts \in Nat
      BY ParameterAssumption DEF TypeOK
    <3> DEFINE h == InHand(message[m])
    <3>3. h \in 0..1 /\ executed[m] + h <= restarts + accepted[m] /\ accepted[m] <= 1
      BY <3>2 DEF Spent, InHand
    <3> HIDE DEF h
    <3>4. executed[m] <= 1 + restarts
      BY <3>2, <3>3
    <3> QED
      BY <3>1, <3>4
  <2> QED
    BY <2>3, <2>4
<1> QED
  BY <1>1, InvariantHolds, PTL

\* In production no call meets a half configured process, whatever environment
\* the API comes up in again (the gates of both config.ts).
THEOREM GatesServe == Spec => []ProductionServes
<1>1. IInv => ProductionServes
  BY DEF IInv, Rest
<1> QED
  BY <1>1, InvariantHolds, PTL
=============================================================================
