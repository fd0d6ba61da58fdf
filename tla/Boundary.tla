------------------------------ MODULE Boundary ------------------------------
(***************************************************************************)
(* The authenticated hop from the protocol process to the API: the client  *)
(* with its deadline and retries (apps/protocol/src/boundary.ts), request  *)
(* authentication with the replay store                                    *)
(* (packages/contracts/src/boundary-auth.ts) and the route that runs the   *)
(* operation (apps/api/src/routes/internal-protocol.ts).                   *)
(*                                                                         *)
(* Every attempt of a call is a message with a nonce of its own.  The      *)
(* network may lose, delay and repeat messages; the answer to a repetition *)
(* does not reach the client.  The API process may stop, which empties its *)
(* replay store, and come up again in another environment (Startup).       *)
(* Calls are well formed, and of operations the API has handlers for when  *)
(* it has a database.                                                      *)
(***************************************************************************)
EXTENDS Startup, Integers, FiniteSets

CONSTANTS Read,        \* calls of an operation in idempotentBoundaryReads
          Write,       \* calls of any other operation
          MaxRetries,  \* options.maxRetries
          Skew,        \* BOUNDARY_MAX_CLOCK_SKEW_SECONDS
          Second,      \* clock ticks per second
          MaxOffset,   \* bound on the clock difference, in ticks
          MaxCalls,    \* bound on the calls made
          MaxTime,     \* bound on the clock
          MaxCopies,   \* bound on the copies the network makes that are accepted
          MaxRestarts  \* bound on the times the API stops

ASSUME ParameterAssumption ==
  /\ Read \cap Write = {}
  /\ MaxRetries \in Nat
  /\ Skew \in Nat \ {0}
  /\ Second \in Nat \ {0}
  /\ MaxOffset \in Nat
  /\ MaxCalls \in Nat
  /\ MaxTime \in Nat
  /\ MaxCopies \in Nat
  /\ MaxRestarts \in Nat

VARIABLES isProduction, \* whether NODE_ENV of both processes is production
          client,   \* the credential of the protocol process
          api,      \* the API process
          clock,    \* the clock of the API process, in ticks
          offset,   \* how far the clock of the protocol process is ahead
          call,     \* the calls of request
          message,  \* what was sent: <<call, attempt>>
          seen,     \* the replay store: when each recorded nonce may be forgotten
          accepted, \* times each nonce was accepted since the API started
          executed, \* times the operation of each message was committed
          copies,   \* copies made by the network that were accepted
          restarts  \* times the API stopped

processes == <<isProduction, client, api>>
vars == <<isProduction, client, api, clock, offset, call, message, seen, accepted,
          executed, copies, restarts>>
-----------------------------------------------------------------------------
Call == Read \cup Write
Message == Call \X (0..MaxRetries)

CallPc == {"idle", "ready", "waiting", "backoff", "done"}
\* no handler and not configured stand for an operation_failed and an
\* authentication_failed; timed out is the 504 of the timeout middleware.
Reply == {"none", "ok", "operation_failed", "replay_detected", "authentication_failed",
          "authorization_denied", "no handler", "not configured", "timed out"}

ApiState == [up : BOOLEAN, credential : {"none", "others", "narrow", "full"},
             handlers : BOOLEAN]

\* What request returns or throws.  unavailable: deadline_exceeded or
\* upstream_unavailable, which the client treats alike.
Answer == Reply \cup {"schema_invalid", "response_too_large", "unavailable", "cancelled"}

\* at: not delivered yet, being handled, or answered.  stamp: its timestamp, in
\* seconds.  reply: the answer on the connection it was sent on, while the client
\* waits for it.
MessageRow == [at : {"unsent", "network", "handler", "answered", "lost"}, stamp : Int,
               reply : Reply]

Never == -1

Down == [up |-> FALSE, credential |-> "none", handlers |-> FALSE]

\* What the API may come up as, in production and elsewhere.
Composed ==
  [p \in BOOLEAN |->
     {[up |-> TRUE, credential |-> c.credential, handlers |-> c.handlers] : c \in ComposedApi(p)}]

Init ==
  /\ isProduction \in BOOLEAN
  /\ client \in ComposedClient(isProduction)
  /\ api \in Composed[isProduction]
  /\ clock = 0
  /\ offset \in (-MaxOffset)..MaxOffset
  /\ call = [c \in Call |-> [pc |-> "idle", attempt |-> 0, answer |-> "none"]]
  /\ message = [m \in Message |-> [at |-> "unsent", stamp |-> 0, reply |-> "none"]]
  /\ seen = [m \in Message |-> Never]
  /\ accepted = [m \in Message |-> 0]
  /\ executed = [m \in Message |-> 0]
  /\ copies = 0
  /\ restarts = 0

\* The attempt a call is at.
Current(c) == <<c, call[c].attempt>>
-----------------------------------------------------------------------------
(* The client *)

Settle(c, answer) ==
  call' = [call EXCEPT ![c] = [@ EXCEPT !.pc = "done", !.answer = answer]]

\* Without a credential the client is a stub; with one it looks for the operation
\* before it sends.
Request(c) ==
  /\ call[c].pc = "idle"
  /\ Cardinality({d \in Call : call[d].pc # "idle"}) < MaxCalls
  /\ \/ client = "none" /\ Settle(c, "authentication_failed")
     \/ client = "narrow" /\ Settle(c, "authorization_denied")
     \/ client = "full" /\ call' = [call EXCEPT ![c].pc = "ready"]
  /\ UNCHANGED <<clock, offset, message, seen, accepted, executed, copies, restarts>>

\* A fresh timestamp and nonce for every attempt.
Send(c) ==
  /\ call[c].pc = "ready"
  /\ call' = [call EXCEPT ![c].pc = "waiting"]
  /\ message' = [message EXCEPT ![Current(c)] =
                   [@ EXCEPT !.at = "network", !.stamp = (clock + offset) \div Second]]
  /\ UNCHANGED <<clock, offset, seen, accepted, executed, copies, restarts>>

\* Faulty variant: writes are retried as well.
MayRetryWrites(c) == call[c].attempt < MaxRetries

\* For a deadline or a broken connection; what the route answers is never
\* marked retryable.
MayRetry(c) == c \in Read /\ call[c].attempt < MaxRetries

\* How the client reads a reply.  An authentication failure does not carry the
\* correlation id of the request, and the body of a 504 is not a boundary
\* response: both count as an invalid response.
Understood(reply) ==
  CASE reply \in {"authentication_failed", "not configured", "timed out"} -> {"schema_invalid"}
    [] reply = "ok"         -> {"ok", "response_too_large"}
    [] reply = "no handler" -> {"operation_failed"}
    [] OTHER                -> {reply}

\* The client no longer listens on the connection of the current attempt.
Hangup(c) == message' = [message EXCEPT ![Current(c)].reply = "none"]

Receive(c) ==
  /\ call[c].pc = "waiting"
  /\ message[Current(c)].reply # "none"
  /\ \E answer \in Understood(message[Current(c)].reply) : Settle(c, answer)
  /\ Hangup(c)
  /\ UNCHANGED <<clock, offset, seen, accepted, executed, copies, restarts>>

\* Faulty variant: the signal of the first attempt is all there is.
HasDeadlineFirst(c) == call[c].attempt = 0

\* Every attempt gets a timeout signal of its own.
HasDeadline(c) == call[c].attempt \in 0..MaxRetries

\* The deadline of the attempt passes, or the connection breaks; whatever became
\* of the message goes on.
Fail(c) ==
  /\ call[c].pc = "waiting"
  /\ \/ MayRetry(c) /\ call' = [call EXCEPT ![c].pc = "backoff"]
     \/ ~MayRetry(c) /\ Settle(c, "unavailable")
  /\ Hangup(c)
  /\ UNCHANGED <<clock, offset, seen, accepted, executed, copies, restarts>>

Again(c) ==
  /\ call[c].pc = "backoff"
  /\ call' = [call EXCEPT ![c].pc = "ready", ![c].attempt = @ + 1]
  /\ UNCHANGED <<clock, offset, message, seen, accepted, executed, copies, restarts>>

\* The caller's signal: fetch reports it, before or after it has sent; between
\* two attempts the wait itself throws its reason.
Cancel(c) ==
  /\ call[c].pc \in {"ready", "waiting", "backoff"}
  /\ Settle(c, "cancelled")
  /\ Hangup(c)
  /\ UNCHANGED <<clock, offset, seen, accepted, executed, copies, restarts>>
-----------------------------------------------------------------------------
(* The API *)

WithinSkew(m) ==
  LET apart == clock \div Second - message[m].stamp IN apart <= Skew /\ -apart <= Skew

\* Faulty variant: a nonce per call instead of one per attempt.
RememberedPerCall(m) == \E n \in Message : n[1] = m[1] /\ seen[n] > clock

\* What is left of the replay store when consume has dropped what expired.
Remembered(m) == seen[m] > clock

\* Faulty variant: a nonce is kept for one skew.
ForgottenAtShort(now) == now + Skew * Second

ForgottenAt(now) == now + 2 * Skew * Second

Waited(m) == call[m[1]].pc = "waiting" /\ Current(m[1]) = m

Answered(m, reply) ==
  message' = [message EXCEPT ![m] =
                [@ EXCEPT !.at = "answered", !.reply = IF Waited(m) THEN reply ELSE "none"]]

\* The nonce is recorded, after what expired was dropped.
Consume(m) ==
  /\ WithinSkew(m) /\ ~Remembered(m)
  /\ seen' = [n \in Message |-> IF n = m THEN ForgottenAt(clock)
                                ELSE IF Remembered(n) THEN seen[n] ELSE Never]
  /\ accepted' = [accepted EXCEPT ![m] = @ + 1]

\* The checks before the replay store, in the order of the code.
Refusal(m) ==
  IF api.credential = "none" THEN "not configured"
  ELSE IF api.credential = "others" \/ ~WithinSkew(m) THEN "authentication_failed"
  ELSE IF api.credential = "narrow" THEN "authorization_denied"
  ELSE "none"

Arrive(m) ==
  /\ api.up /\ message[m].at = "network"
  /\ \/ /\ Refusal(m) # "none"
        /\ Answered(m, Refusal(m))
        /\ UNCHANGED <<seen, accepted>>
     \/ /\ Refusal(m) = "none" /\ Remembered(m)
        /\ Answered(m, "replay_detected")
        /\ UNCHANGED <<seen, accepted>>
     \/ /\ Refusal(m) = "none" /\ Consume(m)
        /\ IF api.handlers THEN message' = [message EXCEPT ![m].at = "handler"]
                           ELSE Answered(m, "no handler")
  /\ UNCHANGED <<clock, offset, call, executed, copies, restarts>>

\* A copy of a message arrives and is accepted; nobody waits for its answer.
ArriveAgain(m) ==
  /\ api.up /\ message[m].at # "unsent"
  /\ copies < MaxCopies
  /\ Refusal(m) = "none" /\ Consume(m)
  /\ copies' = copies + 1
  /\ \E ran \in IF api.handlers THEN {0, 1} ELSE {0} :
       executed' = [executed EXCEPT ![m] = @ + ran]
  /\ UNCHANGED <<clock, offset, call, message, restarts>>

\* The timeout middleware answers for a handler that is still at work; it goes on.
TimeOut(m) ==
  /\ message[m].at = "handler" /\ message[m].reply = "none" /\ Waited(m)
  /\ message' = [message EXCEPT ![m].reply = "timed out"]
  /\ UNCHANGED <<clock, offset, call, seen, accepted, executed, copies, restarts>>

\* An answer that comes after the 504 goes nowhere.
Finish(m, reply) ==
  Answered(m, IF message[m].reply = "none" THEN reply ELSE message[m].reply)

\* The handler's transaction commits, or it throws: before, and nothing remains,
\* or because the answer of the commit was lost.
Handle(m) ==
  /\ message[m].at = "handler"
  /\ \/ executed' = [executed EXCEPT ![m] = @ + 1] /\ Finish(m, "ok")
     \/ \E ran \in {0, 1} : /\ executed' = [executed EXCEPT ![m] = @ + ran]
                            /\ Finish(m, "operation_failed")
  /\ UNCHANGED <<clock, offset, call, seen, accepted, copies, restarts>>

\* A crash, or shutdown, which closes the connections: handlers that are still
\* under way are lost and so is the replay store.
Stop ==
  /\ api.up /\ restarts < MaxRestarts
  /\ api' = Down
  /\ restarts' = restarts + 1
  /\ seen' = [m \in Message |-> Never]
  /\ accepted' = [m \in Message |-> 0]
  /\ message' = [m \in Message |-> IF message[m].at = "handler"
                                     THEN [message[m] EXCEPT !.at = "lost"] ELSE message[m]]
  /\ UNCHANGED <<isProduction, client, clock, offset, call, executed, copies>>

\* An environment the gates refuse leaves the API down.
Start ==
  /\ ~api.up
  /\ api' \in Composed[isProduction]
  /\ UNCHANGED <<isProduction, client, clock, offset, call, message, seen, accepted, executed,
                 copies, restarts>>

Tick ==
  /\ clock < MaxTime
  /\ clock' = clock + 1
  /\ UNCHANGED <<offset, call, message, seen, accepted, executed, copies, restarts>>

ClientProgress(c) ==
  /\ Send(c) \/ Receive(c) \/ (HasDeadline(c) /\ Fail(c)) \/ Again(c)
  /\ UNCHANGED processes

Next ==
  \/ /\ \/ \E c \in Call : Request(c) \/ Send(c) \/ Receive(c) \/ Fail(c) \/ Again(c) \/ Cancel(c)
        \/ \E m \in Message : Arrive(m) \/ ArriveAgain(m) \/ TimeOut(m) \/ Handle(m)
        \/ Tick
     /\ UNCHANGED processes
  \/ Stop \/ Start

Spec == Init /\ [][Next]_vars

FairSpec == Spec /\ \A c \in Call : WF_vars(ClientProgress(c))
-----------------------------------------------------------------------------
TypeOK ==
  /\ isProduction \in BOOLEAN
  /\ client \in {"none", "narrow", "full"}
  /\ api \in ApiState
  /\ clock \in 0..MaxTime
  /\ offset \in (-MaxOffset)..MaxOffset
  /\ call \in [Call -> [pc : CallPc, attempt : 0..MaxRetries, answer : Answer]]
  /\ message \in [Message -> MessageRow]
  /\ seen \in [Message -> {Never} \cup Nat]
  /\ accepted \in [Message -> Nat]
  /\ executed \in [Message -> Nat]
  /\ copies \in 0..MaxCopies
  /\ restarts \in 0..MaxRestarts

\* The client's clock is ahead by a full second less than the allowed skew.
\* Then a nonce outlives its timestamp: both sides round to seconds, the store
\* does not.
ClocksAgree == offset + Second <= Skew * Second

\* Until the API restarts, a nonce is accepted once, however often its message
\* is repeated and however late (authenticateBoundaryRequest, MemoryReplayStore).
NonceOnce == ClocksAgree => \A m \in Message : accepted[m] <= 1

\* An operation that is not an idempotent read runs at most once per life of the
\* API, and never for a second attempt, whatever the network repeats and whenever
\* deadlines pass (mayRetry in request, and the replay store).
WriteAtMostOnce ==
  ClocksAgree =>
    \A c \in Write :
      /\ executed[<<c, 0>>] <= 1 + restarts
      /\ \A attempt \in 1..MaxRetries : executed[<<c, attempt>>] = 0

\* A caller is told ok only if the operation of this very attempt was committed,
\* and that a nonce was used before only if a copy of this attempt was accepted:
\* neither answer comes from an earlier attempt of the same call.
AnswersAreOwn ==
  \A c \in Call :
    /\ call[c].answer = "ok" => executed[Current(c)] >= 1
    /\ call[c].answer = "replay_detected" /\ restarts = 0 => accepted[Current(c)] >= 1

\* The types, and whose answer a caller gets.
BoundaryInv == TypeOK /\ AnswersAreOwn

\* In production neither process comes up half configured: no call meets a client
\* or a route without credentials, nor an API without handlers, also after the
\* API came up again in another environment (the gates of both config.ts).
ProductionServes ==
  isProduction =>
    /\ \A m \in Message : message[m].reply \notin {"not configured", "no handler"}
    /\ \A c \in Call : call[c].answer # "authentication_failed"

\* Every call the client has begun ends, whatever becomes of its messages.
EveryRequestSettles == \A c \in Call : call[c].pc = "ready" ~> call[c].pc = "done"
=============================================================================
