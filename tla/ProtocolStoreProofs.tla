------------------------ MODULE ProtocolStoreProofs -------------------------
(***************************************************************************)
(* Theorems about ProtocolStore, for any number of calls and artifacts.    *)
(* The argument: what an open transaction has changed no other one can     *)
(* change, so a row is at COMMIT as its statement has judged it; and what  *)
(* a statement has not found, somebody has inserted since it began.        *)
(***************************************************************************)
EXTENDS ProtocolStore, TLAPS

CallShape(c) ==
  /\ call[c].pc \in {"idle", "find", "select", "statement"} => call[c].wrote = {}
  /\ call[c].pc # "idle" => call[c].op \in Offered /\ call[c].on \in Names(call[c].op)
  /\ call[c].pc = "find" => call[c].op = "exchange"
  /\ call[c].pc = "select" => call[c].op \in Merge
  /\ call[c].pc = "commit" => /\ call[c].op = "upsertConsent" /\ c \in call[c].wrote
                              /\ \A w \in Writer \ call[c].wrote : consent[w] # "active"
  /\ Open(c) => call[c].now <= clock
  /\ \A d \in call[c].prior : Done(d)

\* What a transaction has changed is still what its statement looks for.
PendingShape(c) ==
  Open(c) => \A x \in call[c].wrote :
    /\ x \in Artifact => Matches(c, x) /\ ~Conflict(c, x)
    /\ x \in Writer => /\ call[c].op \in {"upsertConsent", "revokeConsent"}
                       /\ consent[x] = "active" \/ (x = c /\ call[c].pc = "commit")

LocksExclusive ==
  \A c, d \in Call : Open(c) /\ Open(d) /\ c # d =>
    /\ call[c].wrote \cap call[d].wrote = {}
    /\ ~(call[c].pc = "commit" /\ call[d].pc = "commit")

ConsentShape ==
  /\ \A c \in Call : consent[c] # "none" => Done(c)
  /\ \A v, w \in Writer : Active(v) /\ Active(w) => v = w

Deleted(a) == \E e \in Call : Committed(e, "destroy", a) \/ Committed(e, "cleanup", a)

\* A secret that was consumed is so for good, or gone.
SpentShape ==
  \A a \in Artifact : \A c \in Call :
    Committed(c, "exchange", a) => (Present(a) /\ row[a].consumedAt # Unused) \/ Deleted(a)

Base ==
  /\ TypeOK
  /\ \A c \in Call : CallShape(c) /\ PendingShape(c)
  /\ LocksExclusive
  /\ ConsentShape
  /\ SpentShape
  /\ ConsumedOnce

\* c is still to take the row of a that is there.
ToTake(c, a) == \E found \in call[c].todo : found[1] = a /\ found[2].born = row[a].born

\* What a revocation has not found was inserted since it began.
RevokeShape ==
  \A c \in Call : call[c].op = "revokeByGrant" /\ call[c].pc = "rows" =>
    \A a \in Artifact : Present(a) /\ row[a].consumedAt = Unused =>
      row[a].born \notin call[c].prior \cup {Old} \/ a \in call[c].wrote \/ ToTake(c, a)

\* What an exchange does not consume was put since it began.
ExchangeShape ==
  \A c \in Call : call[c].op = "exchange" /\ call[c].pc = "rows" =>
    LET a == call[c].on IN
      Present(a) /\ row[a].consumedAt = Unused /\ row[a].expiresAt > call[c].now
        => row[a].version \notin call[c].prior \cup {Old} \/ a \in call[c].wrote \/ ToTake(c, a)

\* The consents a revocation has not found were granted since it began.
WithdrawShape ==
  \A c \in Call : call[c].op = "revokeConsent" /\ call[c].pc = "rows" =>
    \A w \in call[c].prior \cup {Old} : Active(w) =>
      w \in call[c].wrote \/ \E found \in call[c].todo : found[1] = w

\* What SerialMerge says c may have lost its fields to.
Superseded(c) ==
  \E d \in Call : /\ ChangedSince(d, c)
                  /\ call[d].op \in {call[c].op, "put", "destroy"} \/ c \notin call[d].prior

FieldIn(payload, op) ==
  CASE op = "put"     -> payload.request
    [] op = "session" -> payload.session
    [] op = "finish"  -> payload.result

\* A merge that has read a row finds it, unless it was destroyed meanwhile; a
\* put or a merge that inserts takes its row.
MergeShape ==
  \A c \in Call : call[c].op \in {"put"} \cup Merge =>
    /\ call[c].pc = "statement" /\ ~Inserts(c) => Present(call[c].on) \/ Superseded(c)
    /\ call[c].pc = "rows" =>
         \/ call[c].on \in call[c].wrote
         \/ ~Inserts(c) /\ Superseded(c)
         \/ Inserts(c) /\ \E found \in call[c].todo : found[1] = call[c].on
         \/ ~Inserts(c) /\ Present(call[c].on) /\ ToTake(c, call[c].on)

Acknowledged(c) == call[c].op # "destroy" /\ Done(c) /\ call[c].answer = "done"

\* A merge has read what those who ended before it have left.
ReadShape ==
  \A c, d \in Call :
    /\ call[d].op \in Merge /\ call[d].pc \in {"statement", "rows"} /\ call[d].read # None
    /\ c \in call[d].prior /\ Acknowledged(c) /\ call[c].on = call[d].on
    => FieldIn(call[d].read, call[c].op) = c \/ Superseded(c)

\* Nothing is left of a row that is gone.
AbsentShape == \A a \in Artifact : ~Present(a) => row[a] = NoRow

MergeInv ==
  /\ Base /\ AbsentShape
  /\ model = "Interaction" => SerialMerge /\ MergeShape /\ ReadShape
-----------------------------------------------------------------------------
(* Lemmas on the records and on what a step leaves alone *)

\* The constant records are well typed, and the times in order.
LEMMA RowTypes ==
  /\ NoRow \in Row /\ Empty \in Payload /\ Fresh \in Called
  /\ Never \in Nat /\ Unused \in Nat /\ MaxTime \in Nat /\ MaxTime < Unused
  /\ 0..MaxTime \subseteq 0..Unused
<1>1. MaxTime \in Nat /\ Never = MaxTime + 1 /\ Unused = MaxTime + 1
  BY ParameterAssumption DEF Never, Unused
<1>2. Empty \in Payload
  BY DEF Empty, Payload
<1>3. NoRow \in Row
  BY <1>1, <1>2 DEF NoRow, Row
<1>4. Fresh \in Called
  BY <1>1 DEF Fresh, Called, Op, Pc
<1> QED
  BY <1>1, <1>2, <1>3, <1>4

\* A step of one call leaves the records of the others alone.
LEMMA StepTo ==
  ASSUME TypeOK, NEW c \in Call, NEW a \in Called, Step(c, a)
  PROVE  /\ call'[c] = a /\ \A d \in Call : d # c => call'[d] = call[d]
         /\ call' \in [Call -> Called]
BY DEF TypeOK, Step

\* What a call that ends keeps of its record.
LEMMA EndedIs ==
  ASSUME NEW c \in Call, call[c] \in Called, NEW answer \in {"none", "done", "refused", "error"}
  PROVE  /\ Ended(c, answer) \in Called
         /\ Ended(c, answer).pc = "done" /\ Ended(c, answer).op = call[c].op
         /\ Ended(c, answer).on = call[c].on /\ Ended(c, answer).prior = call[c].prior
         /\ Ended(c, answer).wrote = call[c].wrote /\ Ended(c, answer).answer = answer
<1>1. 0 \in 0..MaxTime /\ 0 \in 0..Never
  BY RowTypes
<1>2. Ended(c, answer) \in Called
  BY <1>1 DEF Ended, Called, Pc
<1> QED
  BY <1>2 DEF Ended, Called

\* What a call that throws keeps of its record: it has written nothing.
LEMMA ThrownIs ==
  ASSUME NEW c \in Call, call[c] \in Called
  PROVE  /\ Thrown(c) \in Called
         /\ Thrown(c).pc = "done" /\ Thrown(c).op = call[c].op
         /\ Thrown(c).on = call[c].on /\ Thrown(c).prior = call[c].prior
         /\ Thrown(c).wrote = {} /\ Thrown(c).answer = "error"
<1> DEFINE e == Ended(c, "error")
<1>1. /\ e \in Called /\ e.pc = "done" /\ e.op = call[c].op
      /\ e.on = call[c].on /\ e.prior = call[c].prior /\ e.answer = "error"
  BY EndedIs
<1>2. Thrown(c) = [e EXCEPT !.wrote = {}]
  BY DEF Thrown, Failure
<1> HIDE DEF e
<1>3. Thrown(c) \in Called
  BY <1>1, <1>2 DEF Called
<1> QED
  BY <1>1, <1>2, <1>3 DEF Called

\* The steps of a call that goes on.
LEMMA GoesOn ==
  ASSUME NEW r \in Called
  PROVE  /\ \A pc \in Pc, now \in 0..MaxTime : [r EXCEPT !.pc = pc, !.now = now] \in Called
         /\ \A pc \in Pc, read \in Payload \cup {None} : [r EXCEPT !.pc = pc, !.read = read] \in Called
         /\ \A pc \in Pc, todo \in SUBSET ((Artifact \cup Writer) \X Row) :
              [r EXCEPT !.pc = pc, !.todo = todo] \in Called
         /\ \A todo \in SUBSET ((Artifact \cup Writer) \X Row), wrote \in SUBSET (Artifact \cup Writer) :
              [r EXCEPT !.todo = todo, !.wrote = wrote] \in Called
         /\ \A pc \in Pc, wrote \in SUBSET (Artifact \cup Writer) :
              [r EXCEPT !.pc = pc, !.wrote = wrote] \in Called
         /\ \A op \in Op, on \in Artifact \cup {None}, expiresAt \in 0..Never, now \in 0..MaxTime,
               pc \in Pc, prior \in SUBSET Call :
              [r EXCEPT !.op = op, !.on = on, !.expiresAt = expiresAt, !.now = now, !.pc = pc,
                        !.prior = prior] \in Called
BY DEF Called

\* What a statement looks for depends on the row and on the call alone.
LEMMA SameJudgement ==
  ASSUME NEW c \in Call, NEW x \in Artifact, call'[c].op = call[c].op, call'[c].on = call[c].on,
         call'[c].read = call[c].read, call'[c].now = call[c].now, row'[x] = row[x]
  PROVE  /\ Matches(c, x)' = Matches(c, x)
         /\ Conflict(c, x)' = Conflict(c, x)
BY DEF Matches, Conflict, Inserts, Present, LongConsumed

\* What the statements look for.
LEMMA Judgement ==
  ASSUME NEW c \in Call, NEW x, Matches(c, x)
  PROVE  /\ call[c].op \in {"put", "exchange", "destroy", "revokeByGrant", "cleanup"} \cup Merge
         /\ Present(x) \/ Inserts(c)
         /\ call[c].op \in {"put", "exchange", "destroy"} \cup Merge => x = call[c].on
         /\ call[c].op = "exchange" => row[x].consumedAt = Unused /\ row[x].expiresAt > call[c].now
         /\ call[c].op = "revokeByGrant" => row[x].consumedAt = Unused
         /\ call[c].op = "cleanup" => row[x].expiresAt <= call[c].now \/ LongConsumed(c, x)
BY DEF Matches, Inserts, Merge

\* An artifact is not a consent, and every call is a writer of consents.
LEMMA ArtifactsAreNoWriters == Artifact \cap Writer = {} /\ Old \in Writer /\ Call \subseteq Writer
BY ParameterAssumption DEF Writer
-----------------------------------------------------------------------------
(* The base invariant *)

\* The initial states satisfy the base invariant.
LEMMA InitBase == Init => Base
<1> SUFFICES ASSUME Init PROVE Base
  OBVIOUS
<1>1. \A c \in Call : call[c] = Fresh /\ call[c].pc = "idle" /\ call[c].wrote = {} /\ call[c].prior = {}
  BY DEF Init, Fresh
<1>2. row \in [Artifact -> Row]
  <2>1. PICK stored \in SUBSET Artifact, expiresAt \in ExpiresAt("put") :
          row = [a \in Artifact |->
                IF a \in stored THEN [version |-> Old, born |-> Old, expiresAt |-> expiresAt,
                                      consumedAt |-> Unused, payload |-> NewPayload(Old)]
                ELSE NoRow]
    BY DEF Init
  <2>2. expiresAt \in 0..Never
    BY RowTypes DEF ExpiresAt, Merge
  <2>3. NewPayload(Old) \in Payload /\ Old \in Writer
    BY RowTypes, ArtifactsAreNoWriters DEF NewPayload, Payload, Empty
  <2>4. [version |-> Old, born |-> Old, expiresAt |-> expiresAt,
         consumedAt |-> Unused, payload |-> NewPayload(Old)] \in Row
    BY <2>2, <2>3, RowTypes DEF Row
  <2> QED
    BY <2>1, <2>4, RowTypes
<1>3. /\ consent \in [Writer -> {"none", "active", "revoked"}]
      /\ \A w \in Writer : w # Old => consent[w] = "none"
  BY DEF Init
<1>4. TypeOK
  BY <1>1, <1>2, <1>3, RowTypes DEF TypeOK, Init
<1>5. \A c \in Call : CallShape(c) /\ PendingShape(c)
  BY <1>1 DEF CallShape, PendingShape, Open
<1>6. LocksExclusive
  BY <1>1 DEF LocksExclusive, Open
<1>7. ConsentShape
  BY <1>3, ParameterAssumption, ArtifactsAreNoWriters DEF ConsentShape, Active
<1>8. SpentShape /\ ConsumedOnce
  BY <1>1 DEF SpentShape, ConsumedOnce, Committed, Done
<1> QED
  BY <1>4, <1>5, <1>6, <1>7, <1>8 DEF Base

\* A step of a call that commits nothing: a is its new record.
LEMMA QuietStep ==
  ASSUME Base, NEW c \in Call, NEW a \in Called, Step(c, a), Unchanged, call[c].pc # "done",
         a.pc # "idle", CallShape(c)', PendingShape(c)',
         a.pc = "done" => a.wrote = {},
         a.pc # "done" => \A x \in a.wrote : x \in call[c].wrote \/ ~Locked(c, x),
         a.pc = "commit" => \A d \in Call \ {c} : ~(Open(d) /\ call[d].pc = "commit")
  PROVE  Base'
<1> USE DEF Base
<1>1. /\ call'[c] = a /\ \A d \in Call : d # c => call'[d] = call[d]
      /\ call' \in [Call -> Called]
      /\ clock' = clock /\ model' = model /\ row' = row /\ consent' = consent
  BY StepTo DEF Unchanged
<1>2. TypeOK'
  BY <1>1 DEF TypeOK
<1>3. \A d \in Call : (Done(d) => Done(d)') /\ (d # c => (Open(d)' <=> Open(d)))
  BY <1>1 DEF Done, Open
<1>4. ASSUME NEW d \in Call, d # c PROVE CallShape(d)' /\ PendingShape(d)'
  <2>1. CallShape(d) /\ PendingShape(d) /\ call'[d] = call[d]
    BY <1>1, <1>4
  <2>2. CallShape(d)'
    BY <1>1, <1>3, <1>4, <2>1 DEF CallShape, TypeOK, Called, Offered, Active
  <2>3. PendingShape(d)'
    BY <1>1, <1>3, <1>4, <2>1, SameJudgement DEF PendingShape
  <2> QED
    BY <2>2, <2>3
<1>5. LocksExclusive'
  <2>1. Open(c)' => a.pc # "done" /\ a.pc # "idle"
    BY <1>1 DEF Open
  <2>2. ASSUME NEW d \in Call, d # c, Open(d), a.pc # "done" PROVE a.wrote \cap call[d].wrote = {}
    <3> SUFFICES ASSUME NEW x \in a.wrote, x \in call[d].wrote PROVE FALSE
      OBVIOUS
    <3>1. x \in call[c].wrote
      BY <2>2 DEF Locked
    <3>2. Open(c)
      BY <3>1 DEF CallShape, Open
    <3> QED
      BY <2>2, <3>1, <3>2 DEF LocksExclusive
  <2>3. ASSUME NEW d \in Call, d # c, Open(d) PROVE ~(a.pc = "commit" /\ call[d].pc = "commit")
    BY <2>3
  <2> QED
    BY <1>1, <1>3, <2>1, <2>2, <2>3 DEF LocksExclusive
<1>6. ConsentShape'
  BY <1>1, <1>3 DEF ConsentShape, Active
<1>7. \A op, x : \A d \in Call : Committed(d, op, x)' <=> Committed(d, op, x)
  BY <1>1 DEF Committed, Done
<1>8. SpentShape' /\ ConsumedOnce'
  BY <1>1, <1>7 DEF SpentShape, ConsumedOnce, Deleted, Present
<1> QED
  BY <1>2, <1>4, <1>5, <1>6, <1>8

\* A call that ends without having changed anything.
LEMMA EndStep ==
  ASSUME Base, NEW c \in Call, NEW a \in Called, Step(c, a), Unchanged, call[c].pc # "done",
         call[c].pc # "idle", a.pc = "done", a.wrote = {}, a.op = call[c].op, a.on = call[c].on,
         a.prior = call[c].prior
  PROVE  Base'
<1>1. /\ call'[c] = a /\ \A d \in Call : d # c => call'[d] = call[d]
      /\ clock' = clock /\ model' = model /\ row' = row /\ consent' = consent
  BY StepTo DEF Unchanged, Base
<1>2. CallShape(c)
  BY DEF Base
<1>3. \A d \in Call : Done(d) => Done(d)'
  BY <1>1 DEF Done
<1>4. ~Open(c)'
  BY <1>1 DEF Open
<1>5. CallShape(c)'
  BY <1>1, <1>2, <1>3, <1>4 DEF CallShape, Offered, Base, TypeOK, Called
<1>6. PendingShape(c)'
  BY <1>4 DEF PendingShape
<1> QED
  BY <1>5, <1>6, QuietStep

\* Beginning a call keeps the base invariant.
LEMMA BeginBase == ASSUME Base, NEW c \in Call, Begin(c) PROVE Base'
<1>a. PICK op \in Offered : \E on \in Names(op) : \E expiresAt \in ExpiresAt(op) :
        Step(c, [call[c] EXCEPT !.op = op, !.on = on, !.expiresAt = expiresAt, !.now = clock,
                                !.pc = First(op), !.prior = {d \in Call : Done(d)}])
  BY DEF Begin
<1>b. PICK on \in Names(op) : \E expiresAt \in ExpiresAt(op) :
        Step(c, [call[c] EXCEPT !.op = op, !.on = on, !.expiresAt = expiresAt, !.now = clock,
                                !.pc = First(op), !.prior = {d \in Call : Done(d)}])
  BY <1>a
<1>1. PICK expiresAt \in ExpiresAt(op) :
        Step(c, [call[c] EXCEPT !.op = op, !.on = on, !.expiresAt = expiresAt, !.now = clock,
                                !.pc = First(op), !.prior = {d \in Call : Done(d)}])
  BY <1>b
<1> DEFINE r == call[c]
           prior == {d \in Call : Done(d)}
           a == [r EXCEPT !.op = op, !.on = on, !.expiresAt = expiresAt, !.now = clock,
                          !.pc = First(op), !.prior = prior]
<1>2. /\ r \in Called /\ r.pc = "idle" /\ clock \in 0..MaxTime /\ r.wrote = {}
      /\ op \in Op /\ on \in Artifact \cup {None} /\ First(op) \in {"find", "select", "statement"}
      /\ First(op) = "select" => op \in Merge
      /\ First(op) = "find" => op = "exchange"
      /\ prior \in SUBSET Call /\ Unchanged
  BY DEF Base, TypeOK, CallShape, Begin, Offered, Op, Merge, Names, First
<1>3. expiresAt \in 0..Never
  BY RowTypes DEF ExpiresAt
<1>4. /\ a \in Called
      /\ a.pc = First(op) /\ a.op = op /\ a.on = on /\ a.now = clock /\ a.prior = prior
      /\ a.wrote = {}
  <2>1. First(op) \in Pc
    BY <1>2 DEF Pc
  <2>2. a \in Called
    BY <1>2, <1>3, <2>1, GoesOn
  <2> QED
    BY <1>2, <2>2 DEF Called
<1>5. Step(c, a)
  BY <1>1
<1> HIDE DEF a
<1>6. /\ call'[c] = a /\ \A d \in Call : d # c => call'[d] = call[d]
      /\ clock' = clock /\ model' = model
  BY <1>2, <1>4, <1>5, StepTo DEF Base, Unchanged
<1>7. \A d \in prior : Done(d)'
  BY <1>2, <1>6 DEF Done
<1>8. CallShape(c)'
  BY <1>2, <1>4, <1>6, <1>7, RowTypes DEF CallShape, Offered
<1>9. PendingShape(c)'
  BY <1>4, <1>6 DEF PendingShape
<1> QED
  BY <1>2, <1>4, <1>5, <1>8, <1>9, QuietStep

\* The steps before the statement takes its first row.
LEMMA EarlyStep ==
  ASSUME Base, NEW c \in Call, NEW a \in Called, Step(c, a), Unchanged,
         call[c].pc \in {"find", "select", "statement"}, a.pc \in {"statement", "rows"},
         a.op = call[c].op, a.on = call[c].on, a.prior = call[c].prior, a.wrote = call[c].wrote,
         a.now <= clock
  PROVE  Base'
<1>1. /\ call'[c] = a /\ \A d \in Call : d # c => call'[d] = call[d]
      /\ clock' = clock /\ model' = model
  BY StepTo DEF Base, Unchanged
<1>2. CallShape(c) /\ a.wrote = {} /\ call[c].pc # "idle" /\ call[c].pc # "done"
  BY DEF Base, CallShape
<1>3. \A d \in Call : Done(d) => Done(d)'
  BY <1>1, <1>2 DEF Done
<1>4. CallShape(c)'
  BY <1>1, <1>2, <1>3 DEF CallShape, Offered, Base, TypeOK, Called
<1>5. PendingShape(c)'
  BY <1>1, <1>2 DEF PendingShape
<1> QED
  BY <1>2, <1>4, <1>5, QuietStep

\* The find of an exchange keeps the base invariant.
LEMMA FindBase == ASSUME Base, NEW c \in Call, Find(c) PROVE Base'
<1>1. call[c] \in Called /\ call[c].pc = "find" /\ clock \in 0..MaxTime /\ Unchanged /\ call[c].wrote = {}
  BY DEF Base, TypeOK, Find, CallShape
<1>2. CASE Step(c, [call[c] EXCEPT !.pc = "statement", !.now = clock])
  <2> DEFINE a == [call[c] EXCEPT !.pc = "statement", !.now = clock]
  <2>1. a \in Called
    BY <1>1, GoesOn DEF Pc
  <2>2. /\ a.pc = "statement" /\ a.now = clock /\ a.op = call[c].op /\ a.on = call[c].on
        /\ a.prior = call[c].prior /\ a.wrote = call[c].wrote
    BY <1>1, <2>1 DEF Called
  <2> HIDE DEF a
  <2>3. a.now <= clock
    BY <1>1, <2>2, RowTypes
  <2>4. Step(c, a)
    BY <1>2 DEF a
  <2> QED
    BY <1>1, <2>1, <2>2, <2>3, <2>4, EarlyStep
<1>3. CASE Step(c, Ended(c, "refused"))
  BY <1>1, <1>3, EndedIs, EndStep
<1> QED
  BY <1>2, <1>3 DEF Find

\* The select of a merge keeps the base invariant.
LEMMA SelectBase == ASSUME Base, NEW c \in Call, Select(c) PROVE Base'
<1> DEFINE r == call[c]
<1>1. /\ r \in Called /\ r.pc = "select" /\ Unchanged /\ r.on \in Artifact /\ r.now <= clock
      /\ row \in [Artifact -> Row]
  BY DEF Base, TypeOK, Select, CallShape, Names, Merge, Open
<1>2. PICK read \in Payload \cup {None} : read = IF Present(r.on) THEN row[r.on].payload ELSE None
  BY <1>1 DEF Row
<1> DEFINE a == [r EXCEPT !.pc = "statement", !.read = read]
<1>3. a \in Called
  BY <1>1, GoesOn DEF Pc
<1>4. /\ a.pc = "statement" /\ a.now = r.now /\ a.op = r.op /\ a.on = r.on
      /\ a.prior = r.prior /\ a.wrote = r.wrote
  BY <1>1, <1>3 DEF Called
<1>5. Step(c, a)
  BY <1>2 DEF Select
<1> HIDE DEF a
<1> QED
  BY <1>1, <1>3, <1>4, <1>5, EarlyStep

\* The rows a statement finds are well typed.
LEMMA Snapshot ==
  ASSUME TypeOK, NEW c \in Call
  PROVE  {<<a, row[a]>> : a \in {b \in Artifact : Matches(c, b)}}
           \cup {<<w, NoRow>> : w \in {v \in Writer : MatchesConsent(c, v)}}
           \in SUBSET ((Artifact \cup Writer) \X Row)
BY RowTypes DEF TypeOK

\* The snapshot of a statement keeps the base invariant.
LEMMA StatementBase == ASSUME Base, NEW c \in Call, Statement(c) PROVE Base'
<1> DEFINE r == call[c]
<1>1. r \in Called /\ r.pc = "statement" /\ Unchanged /\ r.now <= clock /\ TypeOK
  BY DEF Base, TypeOK, Statement, CallShape, Open
<1>2. PICK todo \in SUBSET ((Artifact \cup Writer) \X Row) :
        Step(c, [r EXCEPT !.pc = "rows", !.todo = todo])
  BY <1>1, Snapshot DEF Statement
<1> DEFINE a == [r EXCEPT !.pc = "rows", !.todo = todo]
<1>3. a \in Called
  BY <1>1, GoesOn DEF Pc
<1>4. /\ a.pc = "rows" /\ a.now = r.now /\ a.op = r.op /\ a.on = r.on
      /\ a.prior = r.prior /\ a.wrote = r.wrote
  BY <1>1, <1>3 DEF Called
<1>5. Step(c, a)
  BY <1>2
<1> HIDE DEF a
<1> QED
  BY <1>1, <1>3, <1>4, <1>5, EarlyStep

\* A statement that takes or skips a row keeps the base invariant: what it locks is free.
LEMMA TakeBase == ASSUME Base, NEW c \in Call, Take(c) PROVE Base'
<1> DEFINE r == call[c]
<1>1. /\ r \in Called /\ r.pc = "rows" /\ Unchanged /\ CallShape(c) /\ PendingShape(c) /\ Open(c)
  BY DEF Base, TypeOK, Take, Open
<1>2. PICK found \in r.todo :
        /\ ~Locked(c, found[1])
        /\ Step(c, IF Conflict(c, found[1]) THEN Thrown(c)
                   ELSE [r EXCEPT !.todo = @ \ {found},
                                  !.wrote = @ \cup {x \in {found[1]} : Still(c, x, found[2])}])
  BY DEF Take
<1>3. PICK x \in Artifact \cup Writer, f \in Row : found = <<x, f>>
  BY <1>1 DEF Called
<1>4. CASE Conflict(c, x)
  BY <1>1, <1>2, <1>3, <1>4, ThrownIs, EndStep
<1>5. CASE ~Conflict(c, x)
  <2> DEFINE wrote == r.wrote \cup {y \in {x} : Still(c, y, f)}
             a == [r EXCEPT !.todo = @ \ {found}, !.wrote = wrote]
  <2>1. wrote \in SUBSET (Artifact \cup Writer) /\ r.todo \ {found} \in SUBSET ((Artifact \cup Writer) \X Row)
    BY <1>1, <1>3 DEF Called
  <2>2. Step(c, a)
    BY <1>2, <1>3, <1>5
  <2> HIDE DEF wrote
  <2>3. a \in Called
    BY <1>1, <2>1, GoesOn
  <2>4. /\ a.pc = "rows" /\ a.now = r.now /\ a.op = r.op /\ a.on = r.on /\ a.read = r.read
        /\ a.prior = r.prior /\ a.wrote = wrote
    BY <1>1, <2>1, <2>3 DEF Called
  <2> HIDE DEF a
  <2>5. /\ call'[c] = a /\ \A d \in Call : d # c => call'[d] = call[d]
        /\ clock' = clock /\ model' = model /\ row' = row /\ consent' = consent
    BY <1>1, <2>2, <2>3, StepTo DEF Base, Unchanged
  <2>6. \A d \in Call : Done(d) => Done(d)'
    BY <1>1, <2>5 DEF Done
  <2>7. CallShape(c)'
    BY <1>1, <2>4, <2>5, <2>6 DEF CallShape, Offered, Open, Called
  <2>8. PendingShape(c)'
    <3> SUFFICES ASSUME NEW y \in wrote
                 PROVE  /\ y \in Artifact => Matches(c, y)' /\ ~Conflict(c, y)'
                        /\ y \in Writer => /\ r.op \in {"upsertConsent", "revokeConsent"}
                                           /\ consent[y] = "active"
      BY <2>4, <2>5 DEF PendingShape
    <3>1. y \in r.wrote \/ (y = x /\ Still(c, x, f))
      BY DEF wrote
    <3>2. CASE y \in r.wrote
      <4>1. /\ y \in Artifact => Matches(c, y) /\ ~Conflict(c, y)
            /\ y \in Writer => /\ r.op \in {"upsertConsent", "revokeConsent"}
                               /\ consent[y] = "active"
        BY <1>1, <3>2 DEF PendingShape
      <4> QED
        BY <2>4, <2>5, <4>1, SameJudgement
    <3>3. CASE y = x /\ Still(c, x, f)
      <4>1. /\ y \in Artifact => Matches(c, y) /\ ~Conflict(c, y)
            /\ y \in Writer => /\ r.op \in {"upsertConsent", "revokeConsent"}
                               /\ consent[y] = "active"
        BY <1>5, <3>3, ArtifactsAreNoWriters DEF Still, MatchesConsent
      <4> QED
        BY <2>4, <2>5, <4>1, SameJudgement
    <3> QED
      BY <3>1, <3>2, <3>3
  <2>9. \A y \in a.wrote : y \in r.wrote \/ ~Locked(c, y)
    BY <1>2, <1>3, <2>4 DEF wrote
  <2> QED
    BY <1>1, <2>2, <2>3, <2>4, <2>7, <2>8, <2>9, QuietStep
<1> QED
  BY <1>4, <1>5

\* The insert of a consent keeps the base invariant: no other one is active.
LEMMA InsertConsentBase == ASSUME Base, NEW c \in Call, InsertConsent(c) PROVE Base'
<1> DEFINE r == call[c]
<1>1. /\ r \in Called /\ r.pc = "rows" /\ r.op = "upsertConsent" /\ Unchanged
      /\ CallShape(c) /\ PendingShape(c) /\ Open(c)
      /\ \A w \in Writer \ r.wrote : ~Locked(c, w)
  BY DEF Base, TypeOK, InsertConsent, Taken, Open
<1>2. CASE Step(c, Thrown(c))
  BY <1>1, <1>2, ThrownIs, EndStep
<1>3. CASE ~ActiveElsewhere(c) /\ Step(c, [r EXCEPT !.pc = "commit", !.wrote = @ \cup {c}])
  <2> DEFINE wrote == r.wrote \cup {c}
             a == [r EXCEPT !.pc = "commit", !.wrote = wrote]
  <2>1. wrote \in SUBSET (Artifact \cup Writer)
    BY <1>1, ArtifactsAreNoWriters DEF Called
  <2>2. Step(c, a)
    BY <1>3
  <2> HIDE DEF wrote
  <2>3. a \in Called
    BY <1>1, <2>1, GoesOn DEF Pc
  <2>4. /\ a.pc = "commit" /\ a.now = r.now /\ a.op = r.op /\ a.on = r.on /\ a.read = r.read
        /\ a.prior = r.prior /\ a.wrote = wrote
    BY <1>1, <2>1, <2>3 DEF Called
  <2> HIDE DEF a
  <2>5. /\ call'[c] = a /\ \A d \in Call : d # c => call'[d] = call[d]
        /\ clock' = clock /\ model' = model /\ row' = row /\ consent' = consent
    BY <1>1, <2>2, <2>3, StepTo DEF Base, Unchanged
  <2>6. \A d \in Call : Done(d) => Done(d)'
    BY <1>1, <2>5 DEF Done
  <2>7. c \in wrote /\ \A w \in Writer \ wrote : consent[w] # "active"
    BY <1>3 DEF ActiveElsewhere, wrote
  <2>8. CallShape(c)'
    BY <1>1, <2>4, <2>5, <2>6, <2>7 DEF CallShape, Offered, Open, Called
  <2>9. PendingShape(c)'
    <3> SUFFICES ASSUME NEW y \in wrote
                 PROVE  /\ y \in Artifact => Matches(c, y)' /\ ~Conflict(c, y)'
                        /\ y \in Writer => consent[y] = "active" \/ y = c
      BY <1>1, <2>4, <2>5 DEF PendingShape
    <3>1. /\ y \in Artifact => Matches(c, y) /\ ~Conflict(c, y)
          /\ y \in Writer => consent[y] = "active" \/ y = c
      BY <1>1, ArtifactsAreNoWriters DEF PendingShape, wrote
    <3> QED
      BY <2>4, <2>5, <3>1, SameJudgement
  <2>10. \A d \in Call \ {c} : ~(Open(d) /\ call[d].pc = "commit")
    <3> SUFFICES ASSUME NEW d \in Call \ {c}, Open(d), call[d].pc = "commit" PROVE FALSE
      OBVIOUS
    <3>1. d \in call[d].wrote
      BY DEF Base, CallShape
    <3>2. d \in Writer /\ d \notin r.wrote
      BY <1>1, <3>1, ArtifactsAreNoWriters DEF Base, LocksExclusive
    <3> QED
      BY <1>1, <3>1, <3>2 DEF Locked
  <2>11. ~Locked(c, c)
    <3> SUFFICES ASSUME NEW d \in Call \ {c}, Open(d), c \in call[d].wrote PROVE FALSE
      BY DEF Locked
    <3>1. consent[c] = "active"
      BY <2>10, ArtifactsAreNoWriters DEF Base, PendingShape
    <3>2. Done(c)
      BY <3>1 DEF Base, ConsentShape
    <3> QED
      BY <1>1, <3>2 DEF Done
  <2>12. \A y \in a.wrote : y \in r.wrote \/ ~Locked(c, y)
    BY <2>4, <2>11 DEF wrote
  <2> QED
    BY <1>1, <2>2, <2>3, <2>4, <2>8, <2>9, <2>10, <2>12, QuietStep
<1> QED
  BY <1>2, <1>3 DEF InsertConsent

\* A rollback keeps the base invariant: the locks go, the rows stay.
LEMMA AbortBase == ASSUME Base, NEW c \in Call, Abort(c) PROVE Base'
<1>1. call[c] \in Called /\ call[c].pc # "done" /\ call[c].pc # "idle" /\ Step(c, Thrown(c)) /\ Unchanged
  BY DEF Base, TypeOK, Abort, Open
<1> QED
  BY <1>1, ThrownIs, EndStep

\* What a COMMIT makes of a row, by operation.
LEMMA CommittedRow ==
  ASSUME Base, NEW c \in Call, Commit(c), NEW a \in Artifact
  PROVE  /\ a \notin call[c].wrote => row'[a] = row[a]
         /\ a \in call[c].wrote =>
              \/ /\ call[c].op = "put" /\ Present(a)
                 /\ row'[a] = [row[a] EXCEPT !.version = c, !.expiresAt = call[c].expiresAt,
                                             !.payload = NewPayload(c)]
              \/ call[c].op = "put" /\ ~Present(a) /\ row'[a] = Inserted(c)
              \/ /\ call[c].op \in Merge /\ Inserts(c) /\ ~Present(a)
                 /\ row'[a] = [Inserted(c) EXCEPT !.payload = Merged(c)]
              \/ /\ call[c].op \in Merge /\ ~Inserts(c) /\ Present(a)
                 /\ row'[a] = [row[a] EXCEPT !.version = c, !.payload = Merged(c)]
              \/ /\ call[c].op \in {"exchange", "revokeByGrant"}
                 /\ Present(a) /\ row[a].consumedAt = Unused
                 /\ row'[a] = [row[a] EXCEPT !.version = c, !.consumedAt = call[c].now]
              \/ call[c].op = "destroy" /\ Present(a) /\ a = call[c].on /\ row'[a] = NoRow
              \/ /\ call[c].op = "cleanup" /\ Present(a) /\ row'[a] = NoRow
                 /\ row[a].expiresAt <= call[c].now \/ LongConsumed(c, a)
<1>1. row'[a] = RowAfter(c, a)
  BY DEF Commit
<1>2. CASE a \notin call[c].wrote
  BY <1>1, <1>2 DEF RowAfter
<1>3. CASE a \in call[c].wrote
  <2>1. Open(c)
    BY <1>3 DEF Base, CallShape, Commit, Taken, Open
  <2>2. Matches(c, a) /\ ~Conflict(c, a)
    BY <1>3, <2>1 DEF Base, PendingShape
  <2>3. /\ call[c].op \in {"put", "exchange", "destroy", "revokeByGrant", "cleanup"} \cup Merge
        /\ Present(a) \/ Inserts(c)
        /\ call[c].op = "destroy" => a = call[c].on
        /\ call[c].op \in {"exchange", "revokeByGrant"} => row[a].consumedAt = Unused
        /\ call[c].op = "cleanup" => row[a].expiresAt <= call[c].now \/ LongConsumed(c, a)
    BY <2>2, Judgement
  <2>4. Inserts(c) => call[c].op = "put" \/ (call[c].op \in Merge /\ ~Present(a))
    BY <2>2 DEF Conflict, Inserts
  <2>5. CASE call[c].op = "put"
    <3>1. row'[a] = Put(c, a)
      BY <1>1, <1>3, <2>5 DEF RowAfter, Merge
    <3> QED
      BY <1>3, <2>5, <3>1 DEF Put
  <2>6. CASE call[c].op \in Merge
    <3>1. row'[a] = IF Inserts(c) THEN [Inserted(c) EXCEPT !.payload = Merged(c)]
                       ELSE [row[a] EXCEPT !.version = c, !.payload = Merged(c)]
      BY <1>1, <1>3, <2>6 DEF RowAfter, Merge
    <3> QED
      BY <1>3, <2>3, <2>4, <2>6, <3>1 DEF Merge
  <2>7. CASE call[c].op \in {"exchange", "revokeByGrant"}
    <3>1. row'[a] = [row[a] EXCEPT !.version = c, !.consumedAt = call[c].now]
      BY <1>1, <1>3, <2>7 DEF RowAfter, Merge
    <3>2. ~Inserts(c)
      BY <2>7 DEF Inserts, Merge
    <3> QED
      BY <1>3, <2>3, <2>7, <3>1, <3>2
  <2>8. CASE call[c].op \in {"destroy", "cleanup"}
    <3>1. row'[a] = NoRow
      BY <1>1, <1>3, <2>8 DEF RowAfter, Merge
    <3>2. ~Inserts(c)
      BY <2>8 DEF Inserts, Merge
    <3> QED
      BY <1>3, <2>3, <2>8, <3>1, <3>2
  <2> QED
    BY <2>3, <2>5, <2>6, <2>7, <2>8
<1> QED
  BY <1>2, <1>3

\* What a put or a merge writes is well typed.
LEMMA PayloadTypes ==
  ASSUME TypeOK, NEW c \in Call
  PROVE  /\ NewPayload(c) \in Payload /\ Merged(c) \in Payload
         /\ Inserted(c) \in Row
<1>1. c \in Writer /\ call[c] \in Called
  BY ArtifactsAreNoWriters DEF TypeOK
<1>2. NewPayload(c) \in Payload
  BY <1>1, RowTypes DEF NewPayload, Payload
<1>3. PICK existing \in Payload : existing = IF call[c].read = None THEN Empty ELSE call[c].read
  BY <1>1, RowTypes DEF Called
<1>4. Merged(c) \in Payload
  BY <1>1, <1>3 DEF Merged, Payload
<1>5. Inserted(c) \in Row
  BY <1>1, <1>2, RowTypes DEF Inserted, Row, Called
<1> QED
  BY <1>2, <1>4, <1>5

\* A COMMIT, field by field.
LEMMA CommittedFields ==
  ASSUME Base, NEW c \in Call, Commit(c), NEW a \in Artifact, a \in call[c].wrote
  PROVE  /\ row'[a] \in Row
         /\ Present(a)' => row'[a].version = c
         /\ Present(a) /\ Present(a)' => row'[a].born = row[a].born
         /\ Present(a) /\ Present(a)' /\ row[a].consumedAt # Unused
              => row'[a].consumedAt = row[a].consumedAt
         /\ ~Present(a) => Present(a)' /\ row'[a].born = c
         /\ Present(a) /\ ~Present(a)' => call[c].op \in {"destroy", "cleanup"}
         /\ call[c].op \in {"exchange", "revokeByGrant"} =>
              /\ Present(a) /\ row[a].consumedAt = Unused
              /\ Present(a)' /\ row'[a].consumedAt # Unused
         /\ call[c].op \in {"destroy", "cleanup"} => ~Present(a)'
<1>1. /\ row[a] \in Row /\ call[c] \in Called /\ c # None /\ c \in Writer
  BY ParameterAssumption, ArtifactsAreNoWriters DEF Base, TypeOK
<1>2. NewPayload(c) \in Payload /\ Merged(c) \in Payload /\ Inserted(c) \in Row
  BY PayloadTypes DEF Base
<1>3. call[c].now \in 0..Unused /\ call[c].now # Unused /\ call[c].expiresAt \in 0..Never
  BY <1>1, RowTypes DEF Called
<1>4. CASE call[c].op = "put" /\ Present(a)
  <2>1. row'[a] = [row[a] EXCEPT !.version = c, !.expiresAt = call[c].expiresAt, !.payload = NewPayload(c)]
    BY <1>4, CommittedRow DEF Merge
  <2>2. row'[a] \in Row
    BY <1>1, <1>2, <1>3, <2>1 DEF Row
  <2> QED
    BY <1>1, <1>4, <2>1, <2>2 DEF Row, Present
<1>5. CASE call[c].op = "put" /\ ~Present(a)
  <2>1. row'[a] = Inserted(c)
    BY <1>5, CommittedRow DEF Merge
  <2> QED
    BY <1>1, <1>2, <1>5, <2>1 DEF Inserted, Present
<1>6. CASE call[c].op \in Merge /\ ~Present(a)
  <2>1. row'[a] = [Inserted(c) EXCEPT !.payload = Merged(c)]
    BY <1>6, CommittedRow DEF Merge
  <2>2. row'[a] \in Row
    BY <1>2, <2>1 DEF Row
  <2>3. row'[a].version = c /\ row'[a].born = c
    BY <1>2, <2>1 DEF Inserted
  <2> QED
    BY <1>1, <1>6, <2>2, <2>3 DEF Present, Merge
<1>7. CASE call[c].op \in Merge /\ Present(a)
  <2>1. row'[a] = [row[a] EXCEPT !.version = c, !.payload = Merged(c)]
    BY <1>7, CommittedRow DEF Merge
  <2>2. row'[a] \in Row
    BY <1>1, <1>2, <2>1 DEF Row
  <2> QED
    BY <1>1, <1>7, <2>1, <2>2 DEF Row, Present, Merge
<1>8. CASE call[c].op \in {"exchange", "revokeByGrant"}
  <2>1. /\ Present(a) /\ row[a].consumedAt = Unused
        /\ row'[a] = [row[a] EXCEPT !.version = c, !.consumedAt = call[c].now]
    BY <1>8, CommittedRow DEF Merge
  <2>2. row'[a] \in Row
    BY <1>1, <1>3, <2>1 DEF Row
  <2> QED
    BY <1>1, <1>3, <1>8, <2>1, <2>2 DEF Row, Present
<1>9. CASE call[c].op \in {"destroy", "cleanup"}
  <2>1. Present(a) /\ row'[a] = NoRow
    BY <1>9, CommittedRow DEF Merge
  <2> QED
    BY <1>9, <2>1, RowTypes DEF NoRow, Present
<1> QED
  BY <1>4, <1>5, <1>6, <1>7, <1>8, <1>9, CommittedRow

\* What a COMMIT does to the calls and the consents.
LEMMA CommittedCall ==
  ASSUME Base, NEW c \in Call, Commit(c)
  PROVE  /\ Open(c) /\ Done(c)' /\ call'[c].op = call[c].op /\ call'[c].on = call[c].on
         /\ call'[c].prior = call[c].prior /\ call'[c].wrote = call[c].wrote
         /\ \A d \in Call : d # c => call'[d] = call[d]
         /\ call' \in [Call -> Called]
         /\ c \in call[c].wrote <=> call[c].pc = "commit"
         /\ \A w \in Writer : consent'[w] = IF w \notin call[c].wrote THEN consent[w]
                                            ELSE IF w = c THEN "active" ELSE "revoked"
         /\ call[c].pc = "rows" => call[c].todo = {} /\ call[c].op # "upsertConsent"
<1>1. call[c] \in Called /\ Open(c)
  BY DEF Base, TypeOK, Commit, Taken, Open
<1>2. PICK reply \in {"done", "error"} : Step(c, Ended(c, reply))
  BY DEF Commit
<1>3. /\ call'[c] = Ended(c, reply) /\ \A d \in Call : d # c => call'[d] = call[d]
      /\ call' \in [Call -> Called]
  BY <1>1, <1>2, EndedIs, StepTo DEF Base
<1>4. /\ Done(c)' /\ call'[c].op = call[c].op /\ call'[c].on = call[c].on
      /\ call'[c].prior = call[c].prior /\ call'[c].wrote = call[c].wrote
  BY <1>1, <1>3, EndedIs DEF Done
<1>5. c \in call[c].wrote <=> call[c].pc = "commit"
  <2>1. consent[c] # "active"
    BY <1>1 DEF Base, ConsentShape, Done, Open
  <2> QED
    BY <1>1, <2>1, ArtifactsAreNoWriters DEF Base, PendingShape, CallShape
<1> QED
  BY <1>1, <1>3, <1>4, <1>5 DEF Commit, Taken

\* COMMIT keeps the base invariant: every row is as its statement has judged it.
LEMMA CommitBase == ASSUME Base, NEW c \in Call, Commit(c) PROVE Base'
<1> DEFINE W == call[c].wrote
<1>1. /\ Open(c) /\ Done(c)' /\ ~Open(c)' /\ ~Done(c)
      /\ call'[c].op = call[c].op /\ call'[c].on = call[c].on
      /\ call'[c].prior = call[c].prior /\ call'[c].wrote = W
      /\ \A d \in Call : d # c => call'[d] = call[d] /\ (Open(d)' <=> Open(d)) /\ (Done(d)' <=> Done(d))
      /\ call' \in [Call -> Called] /\ clock' = clock /\ model' = model
  BY CommittedCall DEF Open, Done, Commit
<1>2. TypeOK'
  <2>1. row' \in [Artifact -> Row]
    <3>1. \A a \in Artifact : row'[a] \in Row
      BY CommittedRow, CommittedFields DEF Base, TypeOK
    <3> QED
      BY <3>1 DEF Commit
  <2>2. consent' \in [Writer -> {"none", "active", "revoked"}]
    BY DEF Commit, Base, TypeOK
  <2> QED
    BY <1>1, <2>1, <2>2 DEF Base, TypeOK
<1>3. \A w \in Writer : consent'[w] = "active" => (w = c /\ c \in W) \/ (consent[w] = "active" /\ w \notin W)
  BY CommittedCall
<1>4. ASSUME NEW d \in Call PROVE CallShape(d)'
  <2>1. CallShape(d) /\ (Done(d) => Done(d)')
    BY <1>1 DEF Base
  <2>2. CASE d = c
    BY <1>1, <2>1, <2>2 DEF CallShape, Offered, Open, Done, Base, TypeOK, Called
  <2>3. CASE d # c
    <3>1. call'[d] = call[d]
      BY <1>1, <2>3
    <3>2. call[d].pc = "commit" => \A w \in Writer \ call[d].wrote : consent'[w] # "active"
      <4>1. call[d].pc = "commit" => call[c].pc # "commit"
        BY <1>1, <2>3 DEF Base, LocksExclusive, Open
      <4>2. call[d].pc = "commit" => c \notin W
        BY <4>1, CommittedCall
      <4> QED
        BY <1>3, <2>1, <4>2 DEF CallShape
    <3> QED
      BY <1>1, <2>1, <3>1, <3>2 DEF CallShape, Offered, Base, TypeOK, Called
  <2> QED
    BY <2>2, <2>3
<1>5. ASSUME NEW d \in Call PROVE PendingShape(d)'
  <2> SUFFICES ASSUME Open(d)', NEW x \in call'[d].wrote
               PROVE  /\ x \in Artifact => Matches(d, x)' /\ ~Conflict(d, x)'
                      /\ x \in Writer => /\ call'[d].op \in {"upsertConsent", "revokeConsent"}
                                         /\ consent'[x] = "active" \/ (x = d /\ call'[d].pc = "commit")
    BY DEF PendingShape
  <2>1. d # c /\ Open(d) /\ call'[d] = call[d] /\ x \notin W
    BY <1>1 DEF Base, LocksExclusive
  <2>2. /\ x \in Artifact => Matches(d, x) /\ ~Conflict(d, x)
        /\ x \in Writer => /\ call[d].op \in {"upsertConsent", "revokeConsent"}
                           /\ consent[x] = "active" \/ (x = d /\ call[d].pc = "commit")
    BY <2>1 DEF Base, PendingShape
  <2>3. x \in Artifact => row'[x] = row[x]
    BY <2>1, CommittedRow
  <2>4. x \in Writer => consent'[x] = consent[x]
    BY <2>1, CommittedCall
  <2> QED
    BY <2>1, <2>2, <2>3, <2>4, SameJudgement
<1>6. LocksExclusive'
  BY <1>1 DEF Base, LocksExclusive
<1>7. ConsentShape'
  <2>1. \A d \in Call : consent'[d] # "none" => Done(d)'
    <3>1. \A d \in Call : d \in W => consent[d] = "active" \/ d = c
      BY <1>1, ArtifactsAreNoWriters DEF Base, PendingShape
    <3>2. \A d \in Call : consent'[d] # "none" => consent[d] # "none" \/ d = c
      BY <3>1, CommittedCall, ArtifactsAreNoWriters
    <3> QED
      BY <1>1, <3>2 DEF Base, ConsentShape
  <2>2. ASSUME NEW v \in Writer, NEW w \in Writer, Active(v)', Active(w)' PROVE v = w
    <3>1. CASE c \in W
      <4>1. \A u \in Writer \ W : consent[u] # "active"
        BY <3>1, CommittedCall DEF Base, CallShape
      <4> QED
        BY <1>3, <2>2, <4>1 DEF Active
    <3>2. CASE c \notin W
      BY <1>3, <2>2, <3>2 DEF Active, Base, ConsentShape
    <3> QED
      BY <3>1, <3>2
  <2> QED
    BY <2>1, <2>2 DEF ConsentShape
<1>8. \A op, x : \A d \in Call : Committed(d, op, x)' <=>
                                   Committed(d, op, x) \/ (d = c /\ op = call[c].op /\ x \in W)
  BY <1>1 DEF Committed
<1>9. ASSUME NEW a \in Artifact PROVE Deleted(a)' <=>
        Deleted(a) \/ (call[c].op \in {"destroy", "cleanup"} /\ a \in W)
  BY <1>8 DEF Deleted
<1>10. SpentShape'
  <2> SUFFICES ASSUME NEW a \in Artifact, NEW d \in Call, Committed(d, "exchange", a)', ~Deleted(a)'
               PROVE  Present(a)' /\ row'[a].consumedAt # Unused
    BY DEF SpentShape
  <2>1. CASE a \notin W
    <3>1. Committed(d, "exchange", a) /\ ~Deleted(a) /\ row'[a] = row[a]
      BY <1>8, <1>9, <2>1, CommittedRow
    <3> QED
      BY <3>1 DEF Base, SpentShape, Present
  <2>2. CASE a \in W /\ d = c /\ call[c].op = "exchange"
    BY <2>2, CommittedFields
  <2>3. CASE a \in W /\ Committed(d, "exchange", a)
    <3>1. call[c].op \notin {"destroy", "cleanup"} /\ ~Deleted(a)
      BY <1>9, <2>3
    <3>2. Present(a) /\ row[a].consumedAt # Unused
      BY <2>3, <3>1 DEF Base, SpentShape
    <3>3. Present(a)' /\ row'[a].consumedAt = row[a].consumedAt
      BY <2>3, <3>1, <3>2, CommittedFields
    <3> QED
      BY <3>2, <3>3
  <2> QED
    BY <1>8, <2>1, <2>2, <2>3
<1>11. ConsumedOnce'
  <2> SUFFICES ASSUME NEW a \in Artifact, NEW d \in Call, NEW e \in Call,
                      Committed(d, "exchange", a)', Committed(e, "exchange", a)', d # e, ~Deleted(a)'
               PROVE  FALSE
    BY DEF ConsumedOnce, Deleted
  <2>1. ~Deleted(a)
    BY <1>9
  <2>2. ~(Committed(d, "exchange", a) /\ Committed(e, "exchange", a))
    BY <2>1 DEF Base, ConsumedOnce, Deleted
  <2>3. /\ call[c].op = "exchange" /\ a \in W
        /\ Committed(d, "exchange", a) \/ Committed(e, "exchange", a)
    BY <1>8, <2>2
  <2>4. Present(a) /\ row[a].consumedAt # Unused
    BY <2>1, <2>3 DEF Base, SpentShape
  <2> QED
    BY <2>3, <2>4, CommittedFields
<1> QED
  BY <1>2, <1>4, <1>5, <1>6, <1>7, <1>10, <1>11 DEF Base

\* Time keeps the base invariant.
LEMMA BaseKeeps ==
  ASSUME Base, clock' \in 0..MaxTime, clock <= clock', UNCHANGED <<model, row, consent, call>>
  PROVE  Base'
<1>1. model' = model /\ row' = row /\ consent' = consent /\ call' = call
  OBVIOUS
<1>2. TypeOK'
  BY <1>1 DEF Base, TypeOK
<1>3. ASSUME NEW c \in Call PROVE CallShape(c)' /\ PendingShape(c)'
  <2>1. CallShape(c) /\ PendingShape(c) /\ call[c] \in Called
    BY DEF Base, TypeOK
  <2>2. CallShape(c)'
    <3>1. Open(c) => call[c].now <= clock'
      <4>1. call[c].now \in Nat /\ clock \in Nat /\ clock' \in Nat
        BY <2>1, RowTypes DEF Called, Base, TypeOK
      <4> QED
        BY <2>1, <4>1 DEF CallShape
    <3> QED
      BY <1>1, <2>1, <3>1 DEF CallShape, Offered, Open, Done
  <2>3. PendingShape(c)'
    BY <1>1, <2>1, SameJudgement DEF PendingShape, Open
  <2> QED
    BY <2>2, <2>3
<1>4. LocksExclusive' /\ ConsentShape'
  BY <1>1 DEF Base, LocksExclusive, ConsentShape, Open, Done, Active
<1>5. SpentShape' /\ ConsumedOnce'
  BY <1>1 DEF Base, SpentShape, ConsumedOnce, Committed, Done, Deleted, Present
<1> QED
  BY <1>2, <1>3, <1>4, <1>5 DEF Base

\* A step that is no call's changes the clock at most.
LEMMA ClockGoesOn ==
  ASSUME Base, Tick \/ UNCHANGED vars
  PROVE  clock' \in 0..MaxTime /\ clock <= clock' /\ UNCHANGED <<model, row, consent, call>>
BY RowTypes DEF Base, TypeOK, Tick, vars

\* Every step keeps the base invariant.
LEMMA NextBase == ASSUME Base, [Next]_vars PROVE Base'
<1>1. CASE Tick \/ UNCHANGED vars
  BY <1>1, ClockGoesOn, BaseKeeps
<1>2. ASSUME NEW c \in Call, Begin(c) PROVE Base'
  BY <1>2, BeginBase
<1>3. ASSUME NEW c \in Call, Find(c) PROVE Base'
  BY <1>3, FindBase
<1>4. ASSUME NEW c \in Call, Select(c) PROVE Base'
  BY <1>4, SelectBase
<1>5. ASSUME NEW c \in Call, Statement(c) PROVE Base'
  BY <1>5, StatementBase
<1>6. ASSUME NEW c \in Call, Take(c) PROVE Base'
  BY <1>6, TakeBase
<1>7. ASSUME NEW c \in Call, InsertConsent(c) PROVE Base'
  BY <1>7, InsertConsentBase
<1>8. ASSUME NEW c \in Call, Commit(c) PROVE Base'
  BY <1>8, CommitBase
<1>9. ASSUME NEW c \in Call, Abort(c) PROVE Base'
  BY <1>9, AbortBase
<1> QED
  BY <1>1, <1>2, <1>3, <1>4, <1>5, <1>6, <1>7, <1>8, <1>9 DEF Next

\* The base invariant holds in every reachable state.
LEMMA BaseHolds == Spec => []Base
BY InitBase, NextBase, PTL DEF Spec

\* The types, and that of the consumes of an artifact one changes it
\* (ConsumedOnce): for any number of overlapping calls of all kinds.
THEOREM OneConsumeWins == Spec => []StoreInv
<1>1. Base => StoreInv
  BY DEF Base, StoreInv
<1> QED
  BY <1>1, BaseHolds, PTL

\* Who changes a row: a COMMIT of a call that has it among its pending writes.
LEMMA OnlyCommits ==
  ASSUME [Next]_vars, row' # row \/ consent' # consent PROVE \E c \in Call : Commit(c)
BY DEF Next, Tick, vars, Begin, Find, Select, Statement, Take, InsertConsent, Abort, Unchanged

\* A row changes only by the COMMIT of a call that has taken it.
LEMMA ChangedRow ==
  ASSUME Base, [Next]_vars, NEW a \in Artifact, row'[a] # row[a]
  PROVE  \E c \in Call : Commit(c) /\ a \in call[c].wrote
BY OnlyCommits, CommittedRow

\* What was consumed and is still there is as it was consumed.
Final == \A a \in Artifact : Present(a) /\ row[a].consumedAt # Unused /\ Present(a)'
                              => row'[a].consumedAt = row[a].consumedAt

\* Nothing that overlaps with a consume, or comes after it, revives what was
\* consumed (putArtifact, consumeArtifact).
THEOREM ConsumedIsFinal == Spec => [][Final]_vars
<1>1. ASSUME Base, [Next]_vars, NEW a \in Artifact,
             Present(a), row[a].consumedAt # Unused, Present(a)'
      PROVE  row'[a].consumedAt = row[a].consumedAt
  BY <1>1, ChangedRow, CommittedFields
<1>2. Base /\ [Next]_vars => [Final]_vars
  BY <1>1 DEF Final
<1> QED
  BY <1>2, BaseHolds, PTL DEF Spec

\* cleanup deletes nothing that can still be used, however its statement and a
\* put overlap.
THEOREM CleanupSparesUsable == Spec => CleanupSparesLive
<1>1. ASSUME Base, [Next]_vars, NEW a \in Artifact,
             Present(a), row[a].consumedAt = Unused, row[a].expiresAt > clock, ~Present(a)'
      PROVE  \E c \in Call : call[c].op = "destroy" /\ call[c].on = a /\ ~Done(c) /\ Done(c)'
  <2>1. PICK c \in Call : Commit(c) /\ a \in call[c].wrote
    BY <1>1, ChangedRow DEF Present
  <2>2. call[c].op \in {"destroy", "cleanup"}
    BY <1>1, <2>1, CommittedFields
  <2>3. call[c].op # "cleanup"
    <3>1. /\ call[c].now \in Nat /\ call[c].now <= clock /\ call[c].now < Unused
          /\ clock \in Nat /\ row[a].expiresAt \in Nat
      BY <1>1, <2>1, CommittedCall, RowTypes DEF Base, TypeOK, Called, Row, CallShape
    <3>2. ~(row[a].expiresAt <= call[c].now)
      BY <1>1, <3>1
    <3>3. ~LongConsumed(c, a)
      BY <1>1, <3>1, RowTypes, ParameterAssumption DEF LongConsumed
    <3> QED
      BY <1>1, <2>1, <3>2, <3>3, CommittedRow DEF Merge
  <2>4. call[c].on = a
    BY <1>1, <2>1, <2>2, <2>3, CommittedRow DEF Merge
  <2> QED
    BY <1>1, <2>1, <2>2, <2>3, <2>4, CommittedCall DEF Open, Done
<1>2. Base /\ [Next]_vars =>
        [\A a \in Artifact :
           Present(a) /\ row[a].consumedAt = Unused /\ row[a].expiresAt > clock /\ ~Present(a)'
           => \E c \in Call : call[c].op = "destroy" /\ call[c].on = a /\ ~Done(c) /\ Done(c)']_vars
  BY <1>1
<1> QED
  BY <1>2, BaseHolds, PTL DEF Spec, CleanupSparesLive
-----------------------------------------------------------------------------
(* The steps, as the other invariants see them *)

Quiet(c) ==
  Begin(c) \/ Find(c) \/ Select(c) \/ Statement(c) \/ Take(c) \/ InsertConsent(c) \/ Abort(c)

\* A step is the clock's, a COMMIT, or one that changes the record of one call.
LEMMA StepKinds ==
  ASSUME Base, [Next]_vars
  PROVE  \/ clock <= clock' /\ UNCHANGED <<model, row, consent, call>>
         \/ \E c \in Call : Quiet(c)
         \/ \E c \in Call : Commit(c)
BY ClockGoesOn DEF Next, Quiet

\* What a snapshot does to the record of its call.
LEMMA StatementFields ==
  ASSUME Base, NEW c \in Call, Statement(c)
  PROVE  /\ call'[c].pc = "rows" /\ call'[c].op = call[c].op /\ call'[c].on = call[c].on
         /\ call'[c].prior = call[c].prior /\ call'[c].now = call[c].now
         /\ call'[c].read = call[c].read /\ call[c].pc = "statement"
         /\ \A a \in Artifact : Matches(c, a) => <<a, row[a]>> \in call'[c].todo
         /\ \A w \in Writer : MatchesConsent(c, w) => <<w, NoRow>> \in call'[c].todo
<1>1. call[c] \in Called /\ call[c].pc = "statement" /\ call \in [Call -> Called]
  BY DEF Base, TypeOK, Statement
<1>2. PICK todo :
        /\ todo = {<<a, row[a]>> : a \in {b \in Artifact : Matches(c, b)}}
                    \cup {<<w, NoRow>> : w \in {v \in Writer : MatchesConsent(c, v)}}
        /\ call' = [call EXCEPT ![c] = [call[c] EXCEPT !.pc = "rows", !.todo = todo]]
  BY DEF Statement, Step
<1>3. /\ \A a \in Artifact : Matches(c, a) => <<a, row[a]>> \in todo
      /\ \A w \in Writer : MatchesConsent(c, w) => <<w, NoRow>> \in todo
  BY <1>2
<1>4. call'[c] = [call[c] EXCEPT !.pc = "rows", !.todo = todo]
  BY <1>1, <1>2
<1> QED
  BY <1>1, <1>3, <1>4 DEF Called

\* What taking a row does to the record of its call.
LEMMA TakeFields ==
  ASSUME Base, NEW c \in Call, Take(c)
  PROVE  /\ call[c].pc = "rows"
         /\ \E found \in call[c].todo :
              \/ Conflict(c, found[1]) /\ Done(c)'
              \/ /\ ~Conflict(c, found[1]) /\ call'[c].pc = "rows"
                 /\ call'[c].op = call[c].op /\ call'[c].on = call[c].on
                 /\ call'[c].prior = call[c].prior /\ call'[c].now = call[c].now
                 /\ call'[c].read = call[c].read
                 /\ call'[c].todo = call[c].todo \ {found}
                 /\ call'[c].wrote = call[c].wrote \cup {x \in {found[1]} : Still(c, x, found[2])}
<1>1. call[c] \in Called /\ call[c].pc = "rows" /\ call \in [Call -> Called]
  BY DEF Base, TypeOK, Take
<1>2. PICK found \in call[c].todo :
        Step(c, IF Conflict(c, found[1]) THEN Thrown(c)
                ELSE [call[c] EXCEPT !.todo = @ \ {found},
                                     !.wrote = @ \cup {x \in {found[1]} : Still(c, x, found[2])}])
  BY DEF Take
<1>3. CASE Conflict(c, found[1])
  <2>1. call'[c] = Thrown(c)
    BY <1>1, <1>2, <1>3 DEF Step
  <2> QED
    BY <1>1, <1>3, <2>1, ThrownIs DEF Done
<1>4. CASE ~Conflict(c, found[1])
  <2>1. PICK wrote : wrote = call[c].wrote \cup {x \in {found[1]} : Still(c, x, found[2])}
    OBVIOUS
  <2>2. call'[c] = [call[c] EXCEPT !.todo = @ \ {found}, !.wrote = wrote]
    BY <1>1, <1>2, <1>4, <2>1 DEF Step
  <2>3. /\ call'[c].pc = "rows"
        /\ call'[c].op = call[c].op /\ call'[c].on = call[c].on
        /\ call'[c].prior = call[c].prior /\ call'[c].now = call[c].now
        /\ call'[c].read = call[c].read
        /\ call'[c].todo = call[c].todo \ {found}
        /\ call'[c].wrote = wrote
    BY <1>1, <2>2 DEF Called
  <2> QED
    BY <1>1, <1>4, <2>1, <2>3
<1> QED
  BY <1>3, <1>4

\* What the select of a merge does to the record of its call.
LEMMA SelectFields ==
  ASSUME Base, NEW c \in Call, Select(c)
  PROVE  /\ call'[c].pc = "statement" /\ call'[c].op = call[c].op /\ call'[c].on = call[c].on
         /\ call'[c].prior = call[c].prior /\ call[c].op \in Merge /\ call[c].on \in Artifact
         /\ call'[c].read = IF Present(call[c].on) THEN row[call[c].on].payload ELSE None
         /\ call[c].pc = "select"
<1>1. /\ call[c] \in Called /\ call[c].pc = "select" /\ call \in [Call -> Called]
      /\ call[c].op \in Merge /\ call[c].on \in Artifact
  BY DEF Base, TypeOK, Select, CallShape, Names
<1>2. PICK read : /\ read = IF Present(call[c].on) THEN row[call[c].on].payload ELSE None
                  /\ call' = [call EXCEPT ![c] = [call[c] EXCEPT !.pc = "statement", !.read = read]]
  BY DEF Select, Step
<1>3. call'[c] = [call[c] EXCEPT !.pc = "statement", !.read = read]
  BY <1>1, <1>2
<1> QED
  BY <1>1, <1>2, <1>3 DEF Called

\* What beginning does to the record of a call.
LEMMA BeginFields ==
  ASSUME Base, NEW c \in Call, Begin(c)
  PROVE  /\ call[c].pc = "idle" /\ call'[c].pc \in {"find", "select", "statement"}
         /\ call'[c].prior = {d \in Call : Done(d)}
         /\ call'[c].op \in Merge => call'[c].pc = "select"
         /\ call'[c].op \in Offered
<1>1. call[c] \in Called /\ call[c].pc = "idle" /\ call \in [Call -> Called]
  BY DEF Base, TypeOK, Begin
<1>2. PICK op \in Offered : \E on, expiresAt :
        Step(c, [call[c] EXCEPT !.op = op, !.on = on, !.expiresAt = expiresAt, !.now = clock,
                                !.pc = First(op), !.prior = {d \in Call : Done(d)}])
  BY DEF Begin
<1>3. PICK on, expiresAt :
        Step(c, [call[c] EXCEPT !.op = op, !.on = on, !.expiresAt = expiresAt, !.now = clock,
                                !.pc = First(op), !.prior = {d \in Call : Done(d)}])
  BY <1>2
<1>4. call'[c] = [call[c] EXCEPT !.op = op, !.on = on, !.expiresAt = expiresAt, !.now = clock,
                                 !.pc = First(op), !.prior = {d \in Call : Done(d)}]
  BY <1>1, <1>3 DEF Step
<1>5. call'[c].op = op /\ call'[c].pc = First(op) /\ call'[c].prior = {d \in Call : Done(d)}
  BY <1>1, <1>4 DEF Called
<1> QED
  BY <1>1, <1>5 DEF First, Merge

\* What a step that commits nothing leaves alone.
LEMMA QuietFields ==
  ASSUME Base, NEW c \in Call, Quiet(c)
  PROVE  /\ clock' = clock /\ model' = model /\ row' = row /\ consent' = consent
         /\ \A d \in Call : d # c => call'[d] = call[d]
         /\ ~Done(c)
         /\ Begin(c) \/ /\ Open(c) /\ call'[c].op = call[c].op /\ call'[c].on = call[c].on
                        /\ call'[c].prior = call[c].prior
         /\ call'[c].pc = "rows" => Statement(c) \/ Take(c)
         /\ call'[c].pc = "statement" => Begin(c) \/ Find(c) \/ Select(c)
         /\ Done(c)' => /\ call'[c].wrote = {}
                        /\ call'[c].answer = "error"
                           \/ (call'[c].answer = "refused" /\ call'[c].op = "exchange")
<1> DEFINE r == call[c]
<1>1. r \in Called /\ call \in [Call -> Called] /\ CallShape(c)
  BY DEF Base, TypeOK
<1>2. /\ clock' = clock /\ model' = model /\ row' = row /\ consent' = consent
      /\ \A d \in Call : d # c => call'[d] = call[d]
  BY <1>1 DEF Quiet, Begin, Find, Select, Statement, Take, InsertConsent, Abort, Step, Unchanged
<1>3. CASE Begin(c)
  BY <1>1, <1>2, <1>3, BeginFields DEF Done
<1>4. ASSUME Open(c), Step(c, Thrown(c)) \/ (r.pc = "find" /\ Step(c, Ended(c, "refused")))
      PROVE  /\ call'[c].op = r.op /\ call'[c].on = r.on /\ call'[c].prior = r.prior
             /\ call'[c].pc = "done" /\ call'[c].wrote = {}
             /\ call'[c].answer = "error" \/ (call'[c].answer = "refused" /\ call'[c].op = "exchange")
  <2>1. call'[c] = Thrown(c) \/ (r.pc = "find" /\ call'[c] = Ended(c, "refused"))
    BY <1>1, <1>4 DEF Step
  <2> QED
    BY <1>1, <2>1, ThrownIs, EndedIs DEF CallShape
<1>5. CASE Find(c)
  <2>1. CASE Step(c, [r EXCEPT !.pc = "statement", !.now = clock])
    <3>1. call'[c] = [r EXCEPT !.pc = "statement", !.now = clock]
      BY <1>1, <2>1 DEF Step
    <3>2. call'[c].pc = "statement" /\ call'[c].op = r.op /\ call'[c].on = r.on /\ call'[c].prior = r.prior
      BY <1>1, <3>1 DEF Called
    <3> QED
      BY <1>2, <1>5, <3>2 DEF Open, Done, Find
  <2>2. CASE Step(c, Ended(c, "refused"))
    BY <1>2, <1>4, <1>5, <2>2 DEF Open, Done, Find
  <2> QED
    BY <1>5, <2>1, <2>2 DEF Find
<1>6. CASE Select(c)
  BY <1>2, <1>6, SelectFields DEF Open, Done
<1>7. CASE Statement(c)
  BY <1>2, <1>7, StatementFields DEF Open, Done
<1>8. CASE Take(c)
  <2>1. PICK found \in r.todo :
          Step(c, IF Conflict(c, found[1]) THEN Thrown(c)
                  ELSE [r EXCEPT !.todo = @ \ {found},
                                 !.wrote = @ \cup {x \in {found[1]} : Still(c, x, found[2])}])
    BY <1>8 DEF Take
  <2>2. CASE Conflict(c, found[1])
    BY <1>2, <1>4, <1>8, <2>1, <2>2 DEF Open, Done, Take
  <2>3. CASE ~Conflict(c, found[1])
    <3>1. PICK wrote : call'[c] = [r EXCEPT !.todo = @ \ {found}, !.wrote = wrote]
      BY <1>1, <2>1, <2>3 DEF Step
    <3>2. call'[c].pc = "rows" /\ call'[c].op = r.op /\ call'[c].on = r.on /\ call'[c].prior = r.prior
      BY <1>1, <1>8, <3>1 DEF Called, Take
    <3> QED
      BY <1>2, <1>8, <3>2 DEF Open, Done, Take
  <2> QED
    BY <2>2, <2>3
<1>9. CASE InsertConsent(c)
  <2>1. CASE Step(c, Thrown(c))
    BY <1>2, <1>4, <1>9, <2>1 DEF Open, Done, InsertConsent, Taken
  <2>2. CASE Step(c, [r EXCEPT !.pc = "commit", !.wrote = @ \cup {c}])
    <3>1. call'[c] = [r EXCEPT !.pc = "commit", !.wrote = @ \cup {c}]
      BY <1>1, <2>2 DEF Step
    <3>2. call'[c].pc = "commit" /\ call'[c].op = r.op /\ call'[c].on = r.on /\ call'[c].prior = r.prior
      BY <1>1, <3>1 DEF Called
    <3> QED
      BY <1>2, <1>9, <3>2 DEF Open, Done, InsertConsent, Taken
  <2> QED
    BY <1>9, <2>1, <2>2 DEF InsertConsent
<1>10. CASE Abort(c)
  BY <1>2, <1>4, <1>10 DEF Open, Done, Abort
<1> QED
  BY <1>3, <1>5, <1>6, <1>7, <1>8, <1>9, <1>10 DEF Quiet

\* A row that is still to be taken is taken, or stays so.
LEMMA TakeKeeps ==
  ASSUME Base, NEW c \in Call, Take(c), ~Done(c)', NEW a \in Artifact, ToTake(c, a),
         Matches(c, a), ~Inserts(c), call[c].op # "cleanup", row' = row
  PROVE  a \in call'[c].wrote \/ ToTake(c, a)'
<1>1. PICK found \in call[c].todo :
        /\ call'[c].todo = call[c].todo \ {found}
        /\ call'[c].wrote = call[c].wrote \cup {x \in {found[1]} : Still(c, x, found[2])}
  BY TakeFields
<1>2. PICK mine \in call[c].todo : mine[1] = a /\ mine[2].born = row[a].born
  BY DEF ToTake
<1>3. CASE mine # found
  BY <1>1, <1>2, <1>3 DEF ToTake
<1>4. CASE mine = found
  BY <1>1, <1>2, <1>4 DEF Still
<1> QED
  BY <1>3, <1>4

\* Who has ended has begun, and nobody's COMMIT is among those.
LEMMA PriorAreDone ==
  ASSUME Base, NEW c \in Call, NEW d \in Call, ~Done(c) PROVE c \notin call[d].prior \cup {Old}
BY ParameterAssumption DEF Base, CallShape

GrantInv == Base /\ RevokeShape /\ GrantIsRevoked

\* Every step keeps what a revocation by grant knows and has reached.
LEMMA GrantStep == ASSUME GrantInv, [Next]_vars PROVE RevokeShape' /\ GrantIsRevoked'
<1> USE DEF GrantInv
<1>1. CASE UNCHANGED <<model, row, consent, call>>
  BY <1>1 DEF RevokeShape, GrantIsRevoked, Present, ToTake, Done
<1>2. ASSUME NEW c \in Call, Quiet(c) PROVE RevokeShape' /\ GrantIsRevoked'
  <2>1. /\ row' = row /\ \A d \in Call : d # c => call'[d] = call[d]
        /\ Done(c)' => call'[c].answer = "error" \/ call'[c].op = "exchange"
    BY <1>2, QuietFields
  <2>2. GrantIsRevoked'
    BY <2>1 DEF GrantIsRevoked, Done, Present
  <2>3. ASSUME NEW d \in Call, call'[d].op = "revokeByGrant", call'[d].pc = "rows",
               NEW a \in Artifact, Present(a)', row'[a].consumedAt = Unused,
               row'[a].born \in call'[d].prior \cup {Old}
        PROVE  a \in call'[d].wrote \/ ToTake(d, a)'
    <3>1. Present(a) /\ row[a].consumedAt = Unused
      BY <2>1, <2>3 DEF Present
    <3>2. CASE d # c
      BY <2>1, <2>3, <3>1, <3>2 DEF RevokeShape, ToTake
    <3>3. CASE d = c /\ Statement(c)
      <4>1. Matches(c, a)
        BY <2>3, <3>1, <3>3, StatementFields DEF Matches, Inserts, Merge
      <4>2. <<a, row[a]>> \in call'[c].todo
        BY <3>3, <4>1, StatementFields
      <4> QED
        BY <2>1, <3>3, <4>2 DEF ToTake
    <3>4. CASE d = c /\ Take(c)
      <4>1. /\ call[c].pc = "rows" /\ call[c].op = "revokeByGrant" /\ call[c].prior = call'[c].prior
            /\ ~Done(c)' /\ call[c].wrote \subseteq call'[c].wrote
        BY <2>3, <3>4, TakeFields DEF Done
      <4>2. a \in call[c].wrote \/ ToTake(c, a)
        BY <2>1, <2>3, <3>1, <3>4, <4>1 DEF RevokeShape
      <4>3. Matches(c, a) /\ ~Inserts(c)
        BY <3>1, <4>1 DEF Matches, Inserts, Merge
      <4> QED
        BY <2>1, <3>4, <4>1, <4>2, <4>3, TakeKeeps
    <3> QED
      BY <1>2, <2>3, <3>2, <3>3, <3>4, QuietFields
  <2> QED
    BY <2>2, <2>3 DEF RevokeShape
<1>3. ASSUME NEW c \in Call, Commit(c) PROVE RevokeShape' /\ GrantIsRevoked'
  <2>1. /\ Open(c) /\ ~Done(c) /\ Done(c)' /\ call'[c].op = call[c].op /\ call'[c].prior = call[c].prior
        /\ \A d \in Call : d # c => call'[d] = call[d]
    BY <1>3, CommittedCall DEF Open, Done
  \* Of a usable row either nothing relevant has changed, or c has inserted it.
  <2>2. ASSUME NEW a \in Artifact, Present(a)', row'[a].consumedAt = Unused
        PROVE  \/ Present(a) /\ row[a].consumedAt = Unused /\ row'[a].born = row[a].born
               \/ row'[a].born = c
    <3>1. CASE a \notin call[c].wrote
      <4>1. row'[a] = row[a]
        BY <1>3, <3>1, CommittedRow
      <4> QED
        BY <2>2, <4>1 DEF Present
    <3>2. CASE a \in call[c].wrote
      BY <1>3, <2>2, <3>2, CommittedFields
    <3> QED
      BY <3>1, <3>2
  <2>3. ASSUME NEW d \in Call, d # c, call'[d].op = "revokeByGrant", call'[d].pc = "rows",
               NEW a \in Artifact, Present(a)', row'[a].consumedAt = Unused,
               row'[a].born \in call'[d].prior \cup {Old}
        PROVE  a \in call'[d].wrote \/ ToTake(d, a)'
    <3>1. call'[d] = call[d] /\ c \notin call[d].prior \cup {Old}
      BY <2>1, <2>3, PriorAreDone
    <3>2. Present(a) /\ row[a].consumedAt = Unused /\ row'[a].born = row[a].born
      BY <2>2, <2>3, <3>1
    <3> QED
      BY <2>3, <3>1, <3>2 DEF RevokeShape, ToTake
  <2>4. ASSUME NEW d \in Call, Done(d)', call'[d].op = "revokeByGrant", call'[d].answer # "error",
               NEW a \in Artifact, Present(a)', row'[a].consumedAt = Unused
        PROVE  row'[a].born \notin call'[d].prior \cup {Old}
    <3>1. CASE d # c
      <4>1. call'[d] = call[d] /\ c \notin call[d].prior \cup {Old} /\ Done(d)
        BY <2>1, <2>4, <3>1, PriorAreDone DEF Done
      <4> QED
        BY <2>2, <2>4, <4>1 DEF GrantIsRevoked
    <3>2. CASE d = c
      <4>1. a \notin call[c].wrote
        BY <1>3, <2>1, <2>4, <3>2, CommittedFields
      <4>2. row'[a] = row[a]
        BY <1>3, <4>1, CommittedRow
      <4>3. call[c].pc = "rows" /\ call[c].todo = {} /\ call[c].op = "revokeByGrant"
        BY <1>3, <2>1, <2>4, <3>2, CommittedCall DEF Base, CallShape, Commit, Taken
      <4>4. ~ToTake(c, a)
        BY <4>3 DEF ToTake
      <4> QED
        BY <2>1, <2>4, <3>2, <4>1, <4>2, <4>3, <4>4 DEF RevokeShape, Present
    <3> QED
      BY <3>1, <3>2
  <2>5. RevokeShape'
    BY <2>1, <2>3 DEF RevokeShape, Done
  <2> QED
    BY <2>4, <2>5 DEF GrantIsRevoked
<1> QED
  BY <1>1, <1>2, <1>3, StepKinds

\* Once a grant is revoked nothing of it can be used but what a put that had not
\* ended by then has inserted.
THEOREM GrantsStayRevoked == Spec => []GrantIsRevoked
<1>1. Init => RevokeShape /\ GrantIsRevoked
  BY DEF Init, RevokeShape, GrantIsRevoked, Done, Fresh
<1>2. GrantInv /\ [Next]_vars => RevokeShape' /\ GrantIsRevoked'
  BY GrantStep
<1> QED
  BY <1>1, <1>2, BaseHolds, PTL DEF Spec, GrantInv

ExchangeInv == Base /\ ExchangeShape /\ IssuedIsSpent

\* Every step keeps what an exchange knows and has consumed.
LEMMA ExchangeStep == ASSUME ExchangeInv, [Next]_vars PROVE ExchangeShape' /\ IssuedIsSpent'
<1> USE DEF ExchangeInv
<1>0. \A d \in Call : /\ call[d].op = "exchange" /\ call[d].pc # "idle" => call[d].on \in Artifact
                      /\ call[d].now \in Nat
      /\ clock \in Nat /\ clock' \in Nat
      /\ \A a \in Artifact : row[a].expiresAt \in Nat
  BY NextBase, RowTypes DEF Base, CallShape, Names, TypeOK, Called, Row
<1>1. CASE clock <= clock' /\ UNCHANGED <<model, row, consent, call>>
  <2>1. ExchangeShape'
    BY <1>1 DEF ExchangeShape, Present, ToTake
  <2>2. ASSUME NEW d \in Call, Exchanged(d)', Present(call[d].on)', row'[call[d].on].consumedAt = Unused,
               row'[call[d].on].expiresAt > clock'
        PROVE  row'[call[d].on].version \notin call'[d].prior \cup {Old}
    <3>1. Exchanged(d) /\ Present(call[d].on) /\ call[d].on \in Artifact
      BY <1>0, <1>1, <2>2 DEF Exchanged, Done, Present
    <3>2. row[call[d].on].expiresAt > clock
      BY <1>0, <1>1, <2>2, <3>1
    <3> QED
      BY <1>1, <2>2, <3>1, <3>2 DEF IssuedIsSpent
  <2> QED
    BY <1>1, <2>1, <2>2 DEF IssuedIsSpent
<1>2. ASSUME NEW c \in Call, Quiet(c) PROVE ExchangeShape' /\ IssuedIsSpent'
  <2>1. /\ clock' = clock /\ row' = row /\ \A d \in Call : d # c => call'[d] = call[d]
        /\ Done(c)' => call'[c].answer # "done"
    BY <1>2, QuietFields
  <2>2. IssuedIsSpent'
    BY <2>1 DEF IssuedIsSpent, Exchanged, Done, Present
  <2>3. ASSUME NEW d \in Call, call'[d].op = "exchange", call'[d].pc = "rows", NEW a, a = call'[d].on,
               Present(a)', row'[a].consumedAt = Unused, row'[a].expiresAt > call'[d].now,
               row'[a].version \in call'[d].prior \cup {Old}
        PROVE  a \in call'[d].wrote \/ ToTake(d, a)'
    <3>1. Present(a) /\ row[a].consumedAt = Unused
      BY <2>1, <2>3 DEF Present
    <3>2. CASE d # c
      BY <2>1, <2>3, <3>1, <3>2 DEF ExchangeShape, ToTake
    <3>3. CASE d = c /\ Statement(c)
      <4>1. Matches(c, a) /\ a \in Artifact
        BY <1>0, <2>1, <2>3, <3>1, <3>3, StatementFields DEF Matches, Inserts, Merge
      <4>2. <<a, row[a]>> \in call'[c].todo
        BY <3>3, <4>1, StatementFields
      <4> QED
        BY <2>1, <3>3, <4>2 DEF ToTake
    <3>4. CASE d = c /\ Take(c)
      <4>1. /\ call[c].pc = "rows" /\ call[c].op = "exchange" /\ call[c].prior = call'[c].prior
            /\ call[c].on = a /\ call[c].now = call'[c].now
            /\ ~Done(c)' /\ call[c].wrote \subseteq call'[c].wrote
        BY <2>3, <3>4, TakeFields DEF Done
      <4>2. a \in call[c].wrote \/ ToTake(c, a)
        BY <2>1, <2>3, <3>1, <3>4, <4>1 DEF ExchangeShape
      <4>3. Matches(c, a) /\ ~Inserts(c) /\ a \in Artifact
        BY <1>0, <2>1, <2>3, <3>1, <3>4, <4>1 DEF Matches, Inserts, Merge
      <4> QED
        BY <2>1, <3>4, <4>1, <4>2, <4>3, TakeKeeps
    <3> QED
      BY <1>2, <2>3, <3>2, <3>3, <3>4, QuietFields
  <2> QED
    BY <2>2, <2>3 DEF ExchangeShape
<1>3. ASSUME NEW c \in Call, Commit(c) PROVE ExchangeShape' /\ IssuedIsSpent'
  <2>1. /\ Open(c) /\ ~Done(c) /\ Done(c)' /\ call'[c].op = call[c].op /\ call'[c].prior = call[c].prior
        /\ call'[c].on = call[c].on /\ clock' = clock
        /\ \A d \in Call : d # c => call'[d] = call[d]
    BY <1>3, CommittedCall DEF Open, Done, Commit
  \* A row has not changed, or c has put it.
  <2>2. ASSUME NEW a \in Artifact, Present(a)'
        PROVE  (Present(a) /\ row'[a] = row[a]) \/ row'[a].version = c
    <3>1. CASE a \notin call[c].wrote
      <4>1. row'[a] = row[a]
        BY <1>3, <3>1, CommittedRow
      <4> QED
        BY <2>2, <4>1 DEF Present
    <3>2. CASE a \in call[c].wrote
      BY <1>3, <2>2, <3>2, CommittedFields
    <3> QED
      BY <3>1, <3>2
  <2>3. ASSUME NEW d \in Call, call'[d].op = "exchange", call'[d].pc = "rows", NEW a, a = call'[d].on,
               Present(a)', row'[a].consumedAt = Unused, row'[a].expiresAt > call'[d].now,
               row'[a].version \in call'[d].prior \cup {Old}
        PROVE  a \in call'[d].wrote \/ ToTake(d, a)'
    <3>1. d # c /\ call'[d] = call[d] /\ c \notin call[d].prior \cup {Old}
      BY <2>1, <2>3, PriorAreDone DEF Done
    <3>2. Present(a) /\ row'[a] = row[a]
      BY <1>0, <2>2, <2>3, <3>1
    <3> QED
      BY <2>3, <3>1, <3>2 DEF ExchangeShape, ToTake
  <2>4. ASSUME NEW d \in Call, Exchanged(d)', NEW a, a = call'[d].on,
               Present(a)', row'[a].consumedAt = Unused, row'[a].expiresAt > clock
        PROVE  row'[a].version \notin call'[d].prior \cup {Old}
    <3>1. CASE d # c
      <4>1. call'[d] = call[d] /\ c \notin call[d].prior \cup {Old} /\ Exchanged(d) /\ a \in Artifact
        BY <1>0, <2>1, <2>4, <3>1, PriorAreDone DEF Exchanged, Done
      <4>2. row'[a].version = c \/ (Present(a) /\ row'[a] = row[a])
        BY <2>2, <2>4, <4>1
      <4> QED
        BY <2>4, <4>1, <4>2 DEF IssuedIsSpent
    <3>2. CASE d = c
      <4>0. a \in Artifact /\ call[c].op = "exchange" /\ call[c].on = a /\ call[c].now <= clock
        BY <1>0, <2>1, <2>4, <3>2 DEF Exchanged, Open, Base, CallShape
      <4>1. a \notin call[c].wrote
        BY <1>3, <2>1, <2>4, <4>0, CommittedFields
      <4>2. row'[a] = row[a]
        BY <1>3, <4>0, <4>1, CommittedRow
      <4>3. call[c].pc = "rows" /\ call[c].todo = {}
        BY <1>3, <4>0, CommittedCall DEF Base, CallShape, Commit, Taken
      <4>4. ~ToTake(c, a)
        BY <4>3 DEF ToTake
      <4>5. row[a].expiresAt > call[c].now
        BY <1>0, <2>4, <4>0, <4>2
      <4> QED
        BY <2>1, <2>4, <3>2, <4>0, <4>1, <4>2, <4>3, <4>4, <4>5 DEF ExchangeShape, Present
    <3> QED
      BY <3>1, <3>2
  <2>5. ExchangeShape'
    BY <2>3 DEF ExchangeShape
  <2> QED
    BY <2>1, <2>4, <2>5 DEF IssuedIsSpent
<1> QED
  BY <1>1, <1>2, <1>3, StepKinds

\* No exchange that has handed out tokens leaves its secret as good as new: it is
\* consumed, over, or was put again since the exchange began.
THEOREM IssuedSecretsAreSpent == Spec => []IssuedIsSpent
<1>1. Init => ExchangeShape /\ IssuedIsSpent
  BY DEF Init, ExchangeShape, IssuedIsSpent, Exchanged, Done, Fresh
<1>2. ExchangeInv /\ [Next]_vars => ExchangeShape' /\ IssuedIsSpent'
  BY ExchangeStep
<1> QED
  BY <1>1, <1>2, BaseHolds, PTL DEF Spec, ExchangeInv

Withdrawn(c) ==
  Done(c) /\ call[c].answer = "done" /\ call[c].op = "revokeConsent" =>
    \A w \in call[c].prior \cup {Old} : ~Active(w)

Granted(c) ==
  Done(c) /\ call[c].answer = "done" /\ call[c].op = "upsertConsent" =>
    \/ Active(c)
    \/ \E d \in Call \ call[c].prior : d # c /\ c \in call[d].wrote /\ Done(d)

WithdrawInv == Base /\ WithdrawShape /\ \A c \in Call : Withdrawn(c) /\ Granted(c)

\* Every step keeps what a revocation of consent knows and has reached.
LEMMA WithdrawStep ==
  ASSUME WithdrawInv, [Next]_vars
  PROVE  WithdrawShape' /\ \A c \in Call : Withdrawn(c)' /\ Granted(c)'
<1> USE DEF WithdrawInv
<1>1. CASE UNCHANGED <<model, row, consent, call>>
  BY <1>1 DEF WithdrawShape, Withdrawn, Granted, Active, Done
<1>2. ASSUME NEW c \in Call, Quiet(c)
      PROVE  WithdrawShape' /\ \A d \in Call : Withdrawn(d)' /\ Granted(d)'
  <2>1. /\ consent' = consent /\ ~Done(c) /\ \A d \in Call : d # c => call'[d] = call[d]
        /\ Done(c)' => call'[c].answer # "done"
    BY <1>2, QuietFields
  <2>2. ASSUME NEW d \in Call PROVE Withdrawn(d)' /\ Granted(d)'
    <3>1. CASE d = c
      BY <2>1, <3>1 DEF Withdrawn, Granted
    <3>2. CASE d # c
      <4>1. \A e \in Call : Done(e) => call'[e] = call[e] /\ Done(e)'
        BY <2>1 DEF Done
      <4> QED
        BY <2>1, <3>2, <4>1 DEF Withdrawn, Granted, Active, Done
    <3> QED
      BY <3>1, <3>2
  <2>3. ASSUME NEW d \in Call, call'[d].op = "revokeConsent", call'[d].pc = "rows",
               NEW w \in call'[d].prior \cup {Old}, Active(w)'
        PROVE  w \in call'[d].wrote \/ \E found \in call'[d].todo : found[1] = w
    <3>1. CASE d # c
      BY <2>1, <2>3, <3>1 DEF WithdrawShape, Active
    <3>0. w \in Writer /\ w \notin Artifact /\ Active(w)
      <4>1. call'[d] \in Called
        BY NextBase DEF Base, TypeOK
      <4> QED
        BY <2>1, <2>3, <4>1, ArtifactsAreNoWriters DEF Called, Active
    <3>2. CASE d = c /\ Statement(c)
      <4>1. MatchesConsent(c, w)
        BY <2>3, <3>0, <3>2, StatementFields DEF MatchesConsent, Active
      <4>2. <<w, NoRow>> \in call'[c].todo
        BY <3>0, <3>2, <4>1, StatementFields
      <4>3. <<w, NoRow>>[1] = w
        OBVIOUS
      <4> QED
        BY <3>2, <4>2, <4>3
    <3>3. CASE d = c /\ Take(c)
      <4>1. PICK found \in call[c].todo :
              /\ call'[c].op = call[c].op
              /\ call'[c].prior = call[c].prior
              /\ call'[c].todo = call[c].todo \ {found}
              /\ call'[c].wrote = call[c].wrote \cup {x \in {found[1]} : Still(c, x, found[2])}
        BY <2>3, <3>3, TakeFields DEF Done
      <4>2. call[c].pc = "rows" /\ call[c].op = "revokeConsent"
        BY <2>3, <3>3, <4>1, TakeFields
      <4>3. w \in call[c].wrote \/ \E mine \in call[c].todo : mine[1] = w
        BY <2>3, <3>0, <3>3, <4>1, <4>2 DEF WithdrawShape
      <4>4. Still(c, w, found[2])
        BY <3>0, <4>2 DEF Still, MatchesConsent, Active
      <4> QED
        BY <3>3, <4>1, <4>3, <4>4
    <3> QED
      BY <1>2, <2>3, <3>1, <3>2, <3>3, QuietFields
  <2> QED
    BY <2>2, <2>3 DEF WithdrawShape
<1>3. ASSUME NEW c \in Call, Commit(c)
      PROVE  WithdrawShape' /\ \A d \in Call : Withdrawn(d)' /\ Granted(d)'
  <2>1. /\ Open(c) /\ ~Done(c) /\ Done(c)' /\ call'[c].op = call[c].op /\ call'[c].prior = call[c].prior
        /\ call'[c].wrote = call[c].wrote
        /\ \A d \in Call : d # c => call'[d] = call[d]
    BY <1>3, CommittedCall DEF Open, Done
  <2>2. \A w \in Writer : /\ Active(w)' => (Active(w) /\ w \notin call[c].wrote)
                                             \/ (w = c /\ c \in call[c].wrote)
                          /\ Active(w) /\ w \notin call[c].wrote => Active(w)'
                          /\ w = c /\ c \in call[c].wrote => Active(w)'
    BY <1>3, CommittedCall DEF Active
  <2>3. \A d \in Call : c \notin call[d].prior \cup {Old}
    BY <2>1, PriorAreDone
  <2>4. \A d \in Call : call[d].prior \cup {Old} \subseteq Writer
    BY ArtifactsAreNoWriters DEF Base, TypeOK, Called
  <2>5. ASSUME NEW d \in Call, call'[d].op = "revokeConsent", call'[d].pc = "rows",
               NEW w \in call'[d].prior \cup {Old}, Active(w)'
        PROVE  w \in call'[d].wrote \/ \E found \in call'[d].todo : found[1] = w
    <3>1. d # c /\ call'[d] = call[d]
      BY <2>1, <2>5 DEF Done
    <3>2. w \in Writer /\ Active(w)
      BY <2>2, <2>3, <2>4, <2>5, <3>1
    <3> QED
      BY <2>5, <3>1, <3>2 DEF WithdrawShape
  <2>6. ASSUME NEW d \in Call PROVE Withdrawn(d)'
    <3> SUFFICES ASSUME Done(d)', call'[d].answer = "done", call'[d].op = "revokeConsent",
                        NEW w \in call'[d].prior \cup {Old}, Active(w)'
                 PROVE  FALSE
      BY DEF Withdrawn
    <3>1. w \in Writer /\ call'[d].prior = call[d].prior /\ w # c
      BY <2>1, <2>3, <2>4
    <3>2. Active(w) /\ w \notin call[c].wrote
      BY <2>2, <3>1
    <3>3. CASE d # c
      BY <2>1, <3>1, <3>2, <3>3 DEF Withdrawn, Done
    <3>4. CASE d = c
      <4>1. call[c].pc = "rows" /\ call[c].todo = {} /\ call[c].op = "revokeConsent"
        BY <1>3, <2>1, <3>4, CommittedCall DEF Base, CallShape, Commit, Taken
      <4> QED
        BY <3>1, <3>2, <3>4, <4>1 DEF WithdrawShape
    <3> QED
      BY <3>3, <3>4
  <2>7. ASSUME NEW d \in Call PROVE Granted(d)'
    <3> SUFFICES ASSUME Done(d)', call'[d].answer = "done", call'[d].op = "upsertConsent"
                 PROVE  \/ Active(d)'
                        \/ \E e \in Call \ call'[d].prior : e # d /\ d \in call'[e].wrote /\ Done(e)'
      BY DEF Granted
    <3>1. CASE d = c
      <4>1. c \in call[c].wrote
        BY <1>3, <2>1, <3>1, CommittedCall DEF Commit
      <4> QED
        BY <2>2, <3>1, <4>1, ArtifactsAreNoWriters
    <3>2. CASE d # c
      <4>1. call'[d] = call[d] /\ Done(d)
        BY <2>1, <3>2 DEF Done
      <4>2. CASE Active(d)
        <5>1. CASE d \in call[c].wrote
          BY <2>1, <2>3, <3>2, <4>1, <5>1
        <5>2. CASE d \notin call[c].wrote
          BY <2>2, <4>2, <5>2, ArtifactsAreNoWriters
        <5> QED
          BY <5>1, <5>2
      <4>3. CASE ~Active(d)
        <5>1. PICK e \in Call \ call[d].prior : e # d /\ d \in call[e].wrote /\ Done(e)
          BY <4>1, <4>3 DEF Granted
        <5>2. call'[e] = call[e] /\ Done(e)'
          BY <2>1, <5>1 DEF Done
        <5> QED
          BY <4>1, <5>1, <5>2
      <4> QED
        BY <4>2, <4>3
    <3> QED
      BY <3>1, <3>2
  <2>8. WithdrawShape'
    BY <2>5 DEF WithdrawShape
  <2> QED
    BY <2>6, <2>7, <2>8
<1> QED
  BY <1>1, <1>2, <1>3, StepKinds

\* One consent at most is in force, and one that was acknowledged as granted or
\* withdrawn is so until a call that had not ended by then changes it.
THEOREM ConsentIsFollowed == Spec => []ConsentFollows
<1>1. Init => WithdrawShape /\ \A c \in Call : Withdrawn(c) /\ Granted(c)
  BY DEF Init, WithdrawShape, Withdrawn, Granted, Done, Fresh
<1>2. WithdrawInv /\ [Next]_vars => (WithdrawShape /\ \A c \in Call : Withdrawn(c) /\ Granted(c))'
  BY WithdrawStep
<1>3. WithdrawInv => ConsentFollows
  BY DEF WithdrawInv, Base, ConsentShape, ConsentFollows, Withdrawn, Granted
<1> QED
  BY <1>1, <1>2, <1>3, BaseHolds, PTL DEF Spec, WithdrawInv

\* A call that has ended stays as it is.
LEMMA DoneStays ==
  ASSUME Base, [Next]_vars, NEW c \in Call, Done(c) PROVE call'[c] = call[c] /\ Done(c)'
<1>1. ASSUME NEW e \in Call, Quiet(e) \/ Commit(e) PROVE c # e /\ call'[c] = call[c]
  BY <1>1, QuietFields, CommittedCall DEF Open, Done
<1> QED
  BY <1>1, StepKinds DEF Done

\* A call keeps what it was called with.
LEMMA BegunStays ==
  ASSUME Base, [Next]_vars, NEW c \in Call, call[c].pc # "idle"
  PROVE  call'[c].op = call[c].op /\ call'[c].on = call[c].on /\ call'[c].prior = call[c].prior
<1>1. ASSUME NEW e \in Call, Quiet(e)
      PROVE  call'[c].op = call[c].op /\ call'[c].on = call[c].on /\ call'[c].prior = call[c].prior
  BY <1>1, QuietFields, BeginFields
<1>2. ASSUME NEW e \in Call, Commit(e)
      PROVE  call'[c].op = call[c].op /\ call'[c].on = call[c].on /\ call'[c].prior = call[c].prior
  BY <1>2, CommittedCall
<1> QED
  BY <1>1, <1>2, StepKinds

\* What has superseded a call has done so for good.
LEMMA SupersededStays ==
  ASSUME Base, [Next]_vars, NEW c \in Call, call[c].pc # "idle", Superseded(c) PROVE Superseded(c)'
<1>1. PICK d \in Call : /\ ChangedSince(d, c)
                        /\ call[d].op \in {call[c].op, "put", "destroy"} \/ c \notin call[d].prior
  BY DEF Superseded
<1>2. call'[d] = call[d] /\ Done(d)'
  BY <1>1, DoneStays DEF ChangedSince
<1> QED
  BY <1>1, <1>2, BegunStays DEF Superseded, ChangedSince

\* A COMMIT of the same row, out of sequence or over the same field, supersedes.
LEMMA SupersededBy ==
  ASSUME Base, [Next]_vars, NEW e \in Call, Commit(e), NEW c \in Call, c # e, call[c].pc # "idle",
         call[c].on \in call[e].wrote,
         call[e].op \in {call[c].op, "put", "destroy"} \/ c \notin call[e].prior
  PROVE  Superseded(c)'
<1>1. /\ Done(e)' /\ call'[e].wrote = call[e].wrote /\ call'[e].op = call[e].op
      /\ call'[e].prior = call[e].prior /\ call'[c] = call[c]
  BY CommittedCall
<1>2. e \notin call[c].prior
  BY CommittedCall, PriorAreDone DEF Open, Done
<1> QED
  BY <1>1, <1>2 DEF Superseded, ChangedSince

\* Of an interaction only destroy deletes the row, and then who has begun and not
\* ended is superseded.
LEMMA GoneIsSuperseded ==
  ASSUME Base, [Next]_vars, model = "Interaction", NEW e \in Call, Commit(e),
         NEW d \in Call, d # e, call[d].pc # "idle", call[d].on \in Artifact, Present(call[d].on)
  PROVE  Superseded(d)' \/ (Present(call[d].on)' /\ row'[call[d].on].born = row[call[d].on].born)
<1>0. PICK a \in Artifact : a = call[d].on
  OBVIOUS
<1>d. call'[d] = call[d]
  BY CommittedCall
<1>1. CASE a \notin call[e].wrote
  <2>1. row'[a] = row[a]
    BY <1>1, CommittedRow
  <2> QED
    BY <1>0, <1>d, <2>1 DEF Present
<1>2. CASE a \in call[e].wrote /\ Present(a)'
  BY <1>0, <1>d, <1>2, CommittedFields
<1>3. CASE a \in call[e].wrote /\ ~Present(a)'
  <2>1. call[e].op \in {"destroy", "cleanup"} /\ call[e].op \in Offered
    BY <1>0, <1>3, CommittedFields, CommittedCall DEF Base, CallShape, Open
  <2>2. call[e].op = "destroy"
    BY <2>1 DEF Offered, Merge
  <2> QED
    BY <1>0, <1>3, <2>2, SupersededBy
<1> QED
  BY <1>1, <1>2, <1>3

\* What a COMMIT writes into the fields of its own operation.
LEMMA OwnField ==
  ASSUME Base, model = "Interaction", NEW c \in Call, Commit(c), NEW a \in Artifact,
         a \in call[c].wrote, call[c].op \in {"put"} \cup Merge
  PROVE  FieldIn(row'[a].payload, call[c].op) = c
<1>1. /\ row[a] \in Row /\ Inserted(c) \in Row /\ NewPayload(c) \in Payload /\ Merged(c) \in Payload
      /\ Empty \in Payload /\ call[c] \in Called
  BY PayloadTypes, RowTypes DEF Base, TypeOK
<1>2. CASE call[c].op = "put"
  <2>1. row'[a].payload = NewPayload(c)
    <3>1. \/ row'[a] = [row[a] EXCEPT !.version = c, !.expiresAt = call[c].expiresAt,
                                      !.payload = NewPayload(c)]
          \/ row'[a] = Inserted(c)
      BY <1>2, CommittedRow DEF Merge
    <3>2. Inserted(c).payload = NewPayload(c)
      BY DEF Inserted
    <3> QED
      BY <1>1, <3>1, <3>2 DEF Row
  <2>2. NewPayload(c).request = c
    BY <1>1 DEF NewPayload, Payload
  <2> QED
    BY <1>2, <2>1, <2>2 DEF FieldIn
<1>3. CASE call[c].op \in Merge
  <2>1. row'[a].payload = Merged(c)
    <3>1. \/ row'[a] = [Inserted(c) EXCEPT !.payload = Merged(c)]
          \/ row'[a] = [row[a] EXCEPT !.version = c, !.payload = Merged(c)]
      BY <1>3, CommittedRow DEF Merge
    <3> QED
      BY <1>1, <3>1 DEF Row
  <2>2. PICK existing \in Payload : existing = IF call[c].read = None THEN Empty ELSE call[c].read
    BY <1>1 DEF Called
  <2>3. Merged(c) = IF call[c].op = "session" THEN [existing EXCEPT !.session = c]
                                              ELSE [existing EXCEPT !.result = c]
    BY <2>2 DEF Merged
  <2>4. CASE call[c].op = "session"
    BY <2>1, <2>3, <2>4 DEF FieldIn, Payload
  <2>5. CASE call[c].op = "finish"
    BY <2>1, <2>3, <2>5 DEF FieldIn, Payload
  <2> QED
    BY <1>3, <2>4, <2>5 DEF Merge
<1> QED
  BY <1>2, <1>3

\* A merge writes back the other fields as it has read them.
LEMMA OtherField ==
  ASSUME Base, NEW e \in Call, Commit(e), NEW a \in Artifact, a \in call[e].wrote,
         call[e].op \in Merge, Present(a), NEW op \in {"put"} \cup Merge, op # call[e].op
  PROVE  call[e].read # None /\ FieldIn(row'[a].payload, op) = FieldIn(call[e].read, op)
<1>1. row[a] \in Row /\ Merged(e) \in Payload /\ call[e] \in Called
  BY PayloadTypes DEF Base, TypeOK
<1>2. /\ row'[a] = [row[a] EXCEPT !.version = e, !.payload = Merged(e)]
      /\ ~Inserts(e)
  BY CommittedRow DEF Merge
<1>3. row'[a].payload = Merged(e)
  BY <1>1, <1>2 DEF Row
<1>4. call[e].read # None /\ call[e].read \in Payload
  BY <1>1, <1>2 DEF Inserts, Called
<1>5. PICK existing \in Payload : existing = call[e].read
  BY <1>4
<1>6. Merged(e) = IF call[e].op = "session" THEN [existing EXCEPT !.session = e]
                                            ELSE [existing EXCEPT !.result = e]
  BY <1>4, <1>5 DEF Merged
<1>7. CASE call[e].op = "session"
  <2>1. Merged(e).request = existing.request /\ Merged(e).result = existing.result
    BY <1>6, <1>7 DEF Payload
  <2> QED
    BY <1>3, <1>4, <1>5, <1>7, <2>1 DEF FieldIn, Merge
<1>8. CASE call[e].op = "finish"
  <2>1. Merged(e).request = existing.request /\ Merged(e).session = existing.session
    BY <1>6, <1>8 DEF Payload
  <2> QED
    BY <1>3, <1>4, <1>5, <1>8, <2>1 DEF FieldIn, Merge
<1> QED
  BY <1>7, <1>8 DEF Merge

\* The field of a call, read off the payload that is stored.
LEMMA FieldIs == ASSUME NEW c \in Call PROVE Field(c) = FieldIn(row[call[c].on].payload, call[c].op)
BY DEF Field, FieldIn

\* The steps of a merge and of a put.
LEMMA MergeShapeStep ==
  ASSUME MergeInv, [Next]_vars, model = "Interaction" PROVE MergeShape'
<1> USE DEF MergeInv
<1>1. CASE UNCHANGED <<model, row, consent, call>>
  <2>1. \A c \in Call : (Superseded(c)' <=> Superseded(c)) /\ (Inserts(c)' <=> Inserts(c))
    BY <1>1 DEF Superseded, ChangedSince, Done, Inserts
  <2> QED
    BY <1>1, <2>1 DEF MergeShape, Present, ToTake
<1> DEFINE Found(d) ==
      /\ call[d].pc = "statement" /\ ~Inserts(d) => Present(call[d].on) \/ Superseded(d)
      /\ call[d].pc = "rows" =>
           \/ call[d].on \in call[d].wrote
           \/ ~Inserts(d) /\ Superseded(d)
           \/ Inserts(d) /\ \E found \in call[d].todo : found[1] = call[d].on
           \/ ~Inserts(d) /\ Present(call[d].on) /\ ToTake(d, call[d].on)
<1>0. MergeShape = \A d \in Call : call[d].op \in {"put"} \cup Merge => Found(d)
  BY DEF MergeShape
<1>2. ASSUME NEW c \in Call, Quiet(c), NEW d \in Call, call'[d].op \in {"put"} \cup Merge
      PROVE  Found(d)'
  <2>1. row' = row /\ \A e \in Call : e # c => call'[e] = call[e]
    BY <1>2, QuietFields
  <2>2. CASE d # c
    <3>1. call'[d] = call[d] /\ (Inserts(d)' <=> Inserts(d)) /\ Found(d)
      BY <1>0, <1>2, <2>1, <2>2 DEF Inserts
    <3>2. call[d].pc # "idle" /\ Superseded(d) => Superseded(d)'
      BY SupersededStays
    <3> HIDE DEF MergeInv
    <3> QED
      BY <2>1, <3>1, <3>2 DEF Present, ToTake
  <2>3. ASSUME d = c, call'[c].pc = "statement", ~Inserts(c)'
        PROVE  Present(call[c].on)' \/ Superseded(c)'
    <3>1. Select(c)
      <4>1. Begin(c) \/ Find(c) \/ Select(c)
        BY <1>2, <2>3, QuietFields
      <4>2. ~Begin(c)
        BY <1>2, <2>3, BeginFields DEF Inserts
      <4>3. ~Find(c)
        BY <1>2, <2>3, BegunStays DEF Find, Base, CallShape, Merge
      <4> QED
        BY <4>1, <4>2, <4>3
    <3>2. call'[c].on = call[c].on /\ call'[c].op = call[c].op /\ call[c].op \in Merge
          /\ call'[c].read = IF Present(call[c].on) THEN row[call[c].on].payload ELSE None
      BY <3>1, SelectFields
    <3>3. Present(call[c].on)
      BY <2>3, <3>2 DEF Inserts
    <3> QED
      BY <2>1, <3>2, <3>3 DEF Present
  <2>4. ASSUME d = c, call'[c].pc = "rows", Statement(c) PROVE Found(c)'
    <3>1. /\ call'[c].on = call[c].on /\ call'[c].op = call[c].op /\ call[c].pc = "statement"
          /\ call[c].on \in Artifact /\ (Inserts(c)' <=> Inserts(c))
          /\ Matches(c, call[c].on) => <<call[c].on, row[call[c].on]>> \in call'[c].todo
      BY <1>2, <2>4, StatementFields DEF Inserts, Base, CallShape, Names, Merge
    <3>2. CASE Inserts(c)
      <4>1. Matches(c, call[c].on)
        BY <3>2 DEF Matches, Inserts, Merge
      <4>2. <<call[c].on, row[call[c].on]>>[1] = call[c].on
        OBVIOUS
      <4> QED
        BY <2>4, <3>1, <3>2, <4>1, <4>2
    <3>3. CASE ~Inserts(c) /\ Present(call[c].on)
      <4>1. call[c].op \in Merge
        BY <1>2, <2>4, <3>1, <3>3 DEF Inserts
      <4>2. Matches(c, call[c].on)
        BY <3>3, <4>1 DEF Matches, Inserts, Merge
      <4>3. ToTake(c, call[c].on)'
        BY <2>1, <3>1, <4>2 DEF ToTake
      <4> QED
        BY <2>1, <2>4, <3>1, <3>3, <4>3 DEF Present
    <3>4. CASE ~Inserts(c) /\ ~Present(call[c].on)
      <4>1. Superseded(c)'
        BY <1>0, <1>2, <2>4, <3>1, <3>4, SupersededStays
      <4> QED
        BY <2>4, <3>1, <3>4, <4>1
    <3> QED
      BY <3>2, <3>3, <3>4
  <2>5. ASSUME d = c, call'[c].pc = "rows", Take(c) PROVE Found(c)'
    <3>1. PICK found \in call[c].todo :
            /\ call'[c].op = call[c].op /\ call'[c].on = call[c].on /\ call'[c].read = call[c].read
            /\ call'[c].todo = call[c].todo \ {found}
            /\ call'[c].wrote = call[c].wrote \cup {x \in {found[1]} : Still(c, x, found[2])}
      BY <2>5, TakeFields DEF Done
    <3>2. /\ call[c].pc = "rows" /\ (Inserts(c)' <=> Inserts(c)) /\ call[c].on \in Artifact
          /\ call[c].op \in {"put"} \cup Merge /\ Found(c) /\ ~Done(c)'
      BY <1>0, <1>2, <2>5, <3>1, TakeFields DEF Inserts, Base, CallShape, Names, Done
    <3>3. CASE call[c].on \in call[c].wrote
      BY <2>5, <3>1, <3>3
    <3>4. CASE ~Inserts(c) /\ Superseded(c)
      BY <2>5, <3>2, <3>4, SupersededStays
    <3>5. CASE Inserts(c) /\ \E mine \in call[c].todo : mine[1] = call[c].on
      <4>1. Still(c, call[c].on, found[2])
        BY <3>2, <3>5 DEF Still, Matches, Inserts, Merge
      <4>2. PICK mine \in call[c].todo : mine[1] = call[c].on
        BY <3>5
      <4>3. CASE mine = found
        <5>1. call[c].on \in call'[c].wrote
          BY <3>1, <4>1, <4>2, <4>3
        <5> QED
          BY <2>5, <3>1, <5>1
      <4>4. CASE mine # found
        <5>1. mine \in call'[c].todo
          BY <3>1, <4>4
        <5> QED
          BY <2>5, <3>1, <3>2, <3>5, <4>2, <5>1
      <4> QED
        BY <4>3, <4>4
    <3>6. CASE ~Inserts(c) /\ Present(call[c].on) /\ ToTake(c, call[c].on)
      <4>1. PICK a \in Artifact : a = call[c].on
        BY <3>2
      <4>2. call[c].op \in Merge /\ call[c].op # "cleanup"
        BY <3>2, <3>6 DEF Inserts, Merge
      <4>3. Matches(c, a)
        BY <3>6, <4>1, <4>2 DEF Matches, Inserts, Merge
      <4>4. a \in call'[c].wrote \/ ToTake(c, a)'
        BY <2>1, <2>5, <3>2, <3>6, <4>1, <4>2, <4>3, TakeKeeps
      <4>5. Present(a)'
        BY <2>1, <3>6, <4>1 DEF Present
      <4> QED
        BY <2>5, <3>1, <3>2, <3>6, <4>1, <4>4, <4>5 DEF Present, ToTake
    <3> QED
      BY <3>2, <3>3, <3>4, <3>5, <3>6
  <2>6. CASE d = c
    <3>1. CASE call'[c].pc = "statement"
      BY <2>3, <2>6, <3>1
    <3>2. CASE call'[c].pc = "rows"
      BY <1>2, <2>4, <2>5, <2>6, <3>2, QuietFields
    <3>3. CASE call'[c].pc # "statement" /\ call'[c].pc # "rows"
      BY <2>6, <3>3
    <3> QED
      BY <3>1, <3>2, <3>3
  <2> QED
    BY <2>2, <2>6
<1>3. ASSUME NEW c \in Call, Commit(c), NEW d \in Call, call'[d].op \in {"put"} \cup Merge
      PROVE  Found(d)'
  <2>1. /\ Done(c)' /\ Open(c) /\ \A e \in Call : e # c => call'[e] = call[e]
    BY <1>3, CommittedCall
  <2>2. CASE d = c \/ call[d].pc = "idle"
    BY <2>1, <2>2 DEF Done
  <2>3. CASE d # c /\ call[d].pc # "idle"
    <3>1. call'[d] = call[d] /\ (Inserts(d)' <=> Inserts(d)) /\ Found(d)
      BY <1>0, <1>3, <2>1, <2>3 DEF Inserts
    <3>2. Superseded(d) => Superseded(d)'
      BY <2>3, SupersededStays
    <3>3. call[d].on \in Artifact
      BY <1>3, <2>3, <3>1 DEF Base, CallShape, Names
    <3>4. Present(call[d].on) =>
            Superseded(d)' \/ (Present(call[d].on)' /\ row'[call[d].on].born = row[call[d].on].born)
      BY <1>3, <2>3, <3>3, GoneIsSuperseded
    <3> HIDE DEF MergeInv
    <3> QED
      BY <3>1, <3>2, <3>4 DEF ToTake
  <2> QED
    BY <2>2, <2>3
<1> QED
  BY <1>0, <1>1, <1>2, <1>3, StepKinds DEF MergeShape

\* Every step keeps what a merge has read.
LEMMA ReadShapeStep ==
  ASSUME MergeInv, [Next]_vars, model = "Interaction" PROVE ReadShape'
<1> USE DEF MergeInv
<1> SUFFICES ASSUME NEW c \in Call, NEW d \in Call,
                    call'[d].op \in Merge, call'[d].pc \in {"statement", "rows"}, call'[d].read # None,
                    c \in call'[d].prior, Acknowledged(c)', call'[c].on = call'[d].on
             PROVE  FieldIn(call'[d].read, call'[c].op) = c \/ Superseded(c)'
  BY DEF ReadShape
<1>1. ~Begin(d) /\ ~Find(d)
  <2>1. ASSUME Begin(d) PROVE FALSE
    BY <2>1, BeginFields, QuietFields DEF Quiet
  <2>2. ASSUME Find(d) PROVE FALSE
    BY <2>2, BegunStays DEF Find, Base, CallShape, Merge
  <2> QED
    BY <2>1, <2>2
<1>2. call[d].pc # "idle"
  <2>1. ASSUME call[d].pc = "idle" PROVE FALSE
    <3>1. \A e \in Call : ~Commit(e) \/ e # d
      BY <2>1, CommittedCall DEF Open
    <3>2. \A e \in Call : Quiet(e) /\ e = d => FALSE
      BY <1>1, <2>1, QuietFields DEF Open
    <3>3. call'[d] = call[d]
      BY <3>1, <3>2, StepKinds, QuietFields, CommittedCall
    <3> QED
      BY <2>1, <3>3
  <2> QED
    BY <2>1
<1>3. /\ c \in call[d].prior /\ Done(c) /\ call'[c] = call[c] /\ Acknowledged(c) /\ call[c].on = call[d].on
      /\ call[d].op \in Merge /\ call[c].pc # "idle"
  <2>1. c \in call[d].prior /\ call[d].op \in Merge /\ call'[d].on = call[d].on
    BY <1>2, BegunStays
  <2>2. Done(c)
    BY <2>1 DEF Base, CallShape
  <2>3. call'[c] = call[c]
    BY <2>2, DoneStays
  <2> QED
    BY <2>1, <2>2, <2>3 DEF Acknowledged, Done
<1>4. Superseded(c) => Superseded(c)'
  BY <1>3, SupersededStays
<1>5. CASE call'[d].read = call[d].read /\ call[d].pc \in {"statement", "rows"}
  BY <1>3, <1>4, <1>5 DEF ReadShape
<1>6. CASE Select(d)
  <2>1. call[d].on \in Artifact /\ call'[d].read = row[call[d].on].payload
    BY <1>6, SelectFields
  <2>2. FieldIn(call'[d].read, call'[c].op) = Field(c)
    BY <1>3, <2>1, FieldIs
  <2>3. Field(c) # c => Superseded(c)
    BY <1>3 DEF SerialMerge, Acknowledged, Superseded
  <2> QED
    BY <1>4, <2>2, <2>3
<1>7. CASE ~Select(d)
  <2>1. CASE call'[d] = call[d]
    BY <1>5, <2>1
  <2>2. CASE call'[d] # call[d]
    <3>1. \A e \in Call : ~Commit(e) \/ e # d
      BY CommittedCall DEF Done
    <3>2. Quiet(d)
      BY <2>2, <3>1, StepKinds, QuietFields, CommittedCall
    <3>3. Statement(d) \/ Take(d)
      BY <1>1, <1>7, <3>2, QuietFields
    <3>4. call'[d].read = call[d].read /\ call[d].pc \in {"statement", "rows"}
      <4>1. ~Done(d)'
        BY DEF Done
      <4> QED
        BY <3>3, <4>1, StatementFields, TakeFields
    <3> QED
      BY <1>5, <3>4
  <2> QED
    BY <2>1, <2>2
<1> QED
  BY <1>6, <1>7

\* Every step keeps a row that is gone empty.
LEMMA AbsentStep == ASSUME Base, AbsentShape, [Next]_vars PROVE AbsentShape'
<1> SUFFICES ASSUME NEW a \in Artifact, ~Present(a)' PROVE row'[a] = NoRow
  BY DEF AbsentShape
<1>1. CASE row'[a] = row[a]
  BY <1>1 DEF AbsentShape, Present
<1>2. CASE row'[a] # row[a]
  <2>1. PICK c \in Call : Commit(c) /\ a \in call[c].wrote
    BY <1>2, ChangedRow
  <2>2. Present(a) /\ call[c].op \in {"destroy", "cleanup"}
    BY <2>1, CommittedFields
  <2> QED
    BY <2>1, <2>2, CommittedRow DEF Merge
<1> QED
  BY <1>1, <1>2

\* Every step keeps the fields of calls in sequence: a merge writes back what it read.
LEMMA SerialStep ==
  ASSUME MergeInv, [Next]_vars, model = "Interaction" PROVE SerialMerge'
<1> USE DEF MergeInv
<1> SUFFICES ASSUME NEW c \in Call, Acknowledged(c)', Field(c)' # c PROVE Superseded(c)'
  BY DEF SerialMerge, Acknowledged, Superseded
<1>1. call'[c] \in Called /\ call'[c].op \in {"put"} \cup Merge /\ call'[c].on \in Artifact
  <2>1. Base' /\ model' = model
    BY NextBase, StepKinds, QuietFields DEF Commit
  <2> QED
    BY <2>1 DEF Base, TypeOK, CallShape, Acknowledged, Done, Offered, Names, Merge
<1>2. PICK a \in Artifact : a = call'[c].on
  BY <1>1
<1>3. Field(c)' = FieldIn(row'[a].payload, call'[c].op)
  BY <1>2, FieldIs DEF Field, FieldIn
\* c has ended before.
<1>4. CASE Done(c)
  <2>1. call'[c] = call[c] /\ call[c].pc # "idle" /\ Acknowledged(c)
    BY <1>4, DoneStays DEF Done, Acknowledged
  <2>2. Superseded(c) => Superseded(c)'
    BY <2>1, SupersededStays
  <2>3. FieldIn(row[a].payload, call[c].op) = c \/ Superseded(c)
    BY <1>2, <2>1, FieldIs DEF SerialMerge, Acknowledged, Superseded
  <2>4. CASE row'[a] = row[a]
    BY <1>3, <2>1, <2>2, <2>3, <2>4
  <2>5. CASE row'[a] # row[a]
    <3>1. PICK e \in Call : Commit(e) /\ a \in call[e].wrote
      BY <2>5, ChangedRow
    <3>2. c # e /\ call[e].op \in {"put", "destroy"} \cup Merge
      BY <1>4, <3>1, CommittedCall DEF Open, Done, Base, CallShape, Offered
    <3>3. CASE call[e].op \in {call[c].op, "put", "destroy"} \/ c \notin call[e].prior
      BY <1>2, <2>1, <3>1, <3>2, <3>3, SupersededBy
    <3>4. CASE call[e].op \in Merge /\ call[e].op # call[c].op /\ c \in call[e].prior
      <4>1. CASE Present(a)
        <5>1. call[e].read # None /\ FieldIn(row'[a].payload, call[c].op) = FieldIn(call[e].read, call[c].op)
          BY <1>1, <2>1, <3>1, <3>4, <4>1, OtherField
        <5>2. call[e].pc = "rows"
          BY <3>1, <3>4 DEF Commit, Taken, Base, CallShape, Merge
        <5>3. a = call[e].on
          <6>1. Matches(e, a)
            BY <3>1, CommittedCall DEF Base, PendingShape
          <6> QED
            BY <3>4, <6>1, Judgement
        <5>4. FieldIn(call[e].read, call[c].op) = c \/ Superseded(c)
          BY <1>2, <2>1, <3>4, <5>1, <5>2, <5>3 DEF ReadShape
        <5> QED
          BY <1>3, <2>1, <2>2, <5>1, <5>4
      <4>2. CASE ~Present(a)
        <5>1. row[a] = NoRow
          BY <4>2 DEF AbsentShape
        <5>2. FieldIn(row[a].payload, call[c].op) = None
          BY <1>1, <2>1, <5>1 DEF FieldIn, NoRow, Empty, Merge
        <5> QED
          BY <2>2, <2>3, <5>2, ParameterAssumption
      <4> QED
        BY <4>1, <4>2
    <3> QED
      BY <3>2, <3>3, <3>4
  <2> QED
    BY <2>4, <2>5
\* c ends with this step.
<1>5. CASE ~Done(c)
  <2>1. Commit(c)
    <3>1. \A e \in Call : Quiet(e) => FALSE
      BY <1>5, QuietFields DEF Acknowledged, Done
    <3>2. \A e \in Call : Commit(e) => e = c
      BY <1>5, CommittedCall DEF Acknowledged, Done
    <3> QED
      BY <1>5, <3>1, <3>2, StepKinds DEF Acknowledged, Done
  <2>2. /\ call'[c].op = call[c].op /\ call[c].on = a /\ call[c].pc = "rows" /\ call[c].todo = {}
        /\ call[c].pc # "idle"
    BY <1>1, <1>2, <2>1, CommittedCall DEF Commit, Taken, Base, CallShape, Merge
  <2>3. a \in call[c].wrote \/ Superseded(c)
    BY <1>1, <2>2 DEF MergeShape, ToTake
  <2>4. a \notin call[c].wrote
    BY <1>1, <1>3, <2>1, <2>2, OwnField
  <2> QED
    BY <2>2, <2>3, <2>4, SupersededStays
<1> QED
  BY <1>4, <1>5

\* Nothing of an interaction is lost but to calls that overlap, or that come
\* later and replace the same fields or the row.
THEOREM MergesInSequenceAreSafe == Spec => []SerialMerge
<1>1. ASSUME Init PROVE AbsentShape /\ SerialMerge /\ MergeShape /\ ReadShape
  <2>1. AbsentShape
    <3>1. PICK stored \in SUBSET Artifact, expiresAt \in ExpiresAt("put") :
            row = [a \in Artifact |->
                IF a \in stored THEN [version |-> Old, born |-> Old, expiresAt |-> expiresAt,
                                      consumedAt |-> Unused, payload |-> NewPayload(Old)]
                ELSE NoRow]
      BY <1>1 DEF Init
    <3>2. Old # None
      BY ParameterAssumption
    <3> QED
      BY <3>1, <3>2 DEF AbsentShape, Present
  <2> QED
    BY <1>1, <2>1 DEF Init, SerialMerge, MergeShape, ReadShape, Done, Fresh
<1>2. MergeInv /\ [Next]_vars => MergeInv'
  <2> SUFFICES ASSUME MergeInv, [Next]_vars PROVE MergeInv'
    OBVIOUS
  <2>1. Base' /\ AbsentShape' /\ model' = model
    BY NextBase, AbsentStep, StepKinds, QuietFields DEF MergeInv, Commit
  <2> QED
    BY <2>1, MergeShapeStep, ReadShapeStep, SerialStep DEF MergeInv
<1>3. MergeInv => SerialMerge
  BY DEF MergeInv, SerialMerge
<1> QED
  BY <1>1, <1>2, <1>3, InitBase, PTL DEF Spec, MergeInv
-----------------------------------------------------------------------------
(* Refinement: the moment of a transaction is its COMMIT *)

\* What commits nothing changes nothing that the store promises.
LEMMA QuietIsAStutter ==
  ASSUME Base, NEW c \in Call, Quiet(c) PROVE UNCHANGED Store!vars
<1>1. row' = row /\ consent' = consent
  BY QuietFields
<1>2. ASSUME NEW a \in Artifact, NEW d \in Call
      PROVE  Committed(d, "exchange", a)' <=> Committed(d, "exchange", a)
  <2>1. CASE d = c
    BY <2>1, QuietFields DEF Committed
  <2>2. CASE d # c
    BY <2>2, QuietFields DEF Committed, Done
  <2> QED
    BY <2>1, <2>2
<1>3. {p \in Artifact \X Call : Committed(p[2], "exchange", p[1])}'
        = {p \in Artifact \X Call : Committed(p[2], "exchange", p[1])}
  BY <1>2
<1> QED
  BY <1>1, <1>3 DEF Store!vars, Present, Active

\* A COMMIT of an operation on artifacts leaves the consents alone, and one on
\* consents the artifacts.
LEMMA OneTable ==
  ASSUME Base, NEW c \in Call, Commit(c)
  PROVE  /\ call[c].op \notin {"upsertConsent", "revokeConsent"} =>
              \A w \in Writer : w \notin call[c].wrote /\ consent'[w] = consent[w]
         /\ call[c].op \in {"upsertConsent", "revokeConsent"} =>
              \A a \in Artifact : a \notin call[c].wrote /\ row'[a] = row[a]
<1>1. Open(c) /\ PendingShape(c)
  BY CommittedCall DEF Base
<1>2. ASSUME call[c].op \notin {"upsertConsent", "revokeConsent"}, NEW w \in Writer
      PROVE  w \notin call[c].wrote /\ consent'[w] = consent[w]
  BY <1>1, <1>2, CommittedCall DEF PendingShape
<1>3. ASSUME call[c].op \in {"upsertConsent", "revokeConsent"}, NEW a \in Artifact
      PROVE  a \notin call[c].wrote /\ row'[a] = row[a]
  <2>1. a \in call[c].wrote => Matches(c, a)
    BY <1>1 DEF PendingShape
  <2>2. a \notin call[c].wrote
    BY <1>3, <2>1, Judgement DEF Merge
  <2> QED
    BY <2>2, CommittedRow
<1> QED
  BY <1>2, <1>3

\* Who has consumed what, once c has committed.
LEMMA WinnersAfter ==
  ASSUME Base, NEW c \in Call, Commit(c), NEW a \in Artifact, NEW d \in Call
  PROVE  Committed(d, "exchange", a)' <=>
           Committed(d, "exchange", a) \/ (d = c /\ call[c].op = "exchange" /\ a \in call[c].wrote)
<1>1. /\ Open(c) /\ Done(c)' /\ call'[c].op = call[c].op /\ call'[c].wrote = call[c].wrote
      /\ \A e \in Call : e # c => call'[e] = call[e]
  BY CommittedCall
<1> QED
  BY <1>1 DEF Committed, Done, Open

\* The COMMIT of a call that is no exchange consumes nothing.
LEMMA WinnersStay ==
  ASSUME Base, NEW c \in Call, Commit(c), call[c].op # "exchange"
  PROVE  {p \in Artifact \X Call : Committed(p[2], "exchange", p[1])}'
           = {p \in Artifact \X Call : Committed(p[2], "exchange", p[1])}
BY WinnersAfter

\* The COMMIT of an operation on consents sets or clears the one there is.
LEMMA ConsentCommit ==
  ASSUME Base, NEW c \in Call, Commit(c), call[c].op \in {"upsertConsent", "revokeConsent"}
  PROVE  [Store!Next]_(Store!vars)
<1>1. /\ \A a \in Artifact : row'[a] = row[a]
      /\ {p \in Artifact \X Call : Committed(p[2], "exchange", p[1])}'
           = {p \in Artifact \X Call : Committed(p[2], "exchange", p[1])}
      /\ call[c].op \notin Merge
  BY OneTable, WinnersStay DEF Merge
<1>2. /\ {a \in Artifact : Present(a)}' = {a \in Artifact : Present(a)}
      /\ [a \in Artifact |-> IF Present(a) THEN row[a].consumedAt ELSE Unused]'
           = [a \in Artifact |-> IF Present(a) THEN row[a].consumedAt ELSE Unused]
  BY <1>1 DEF Present
<1>3. \A w \in Writer : consent'[w] = IF w \notin call[c].wrote THEN consent[w]
                                      ELSE IF w = c THEN "active" ELSE "revoked"
  BY CommittedCall
<1>4. CASE c \in call[c].wrote
  <2>1. \A w \in Writer \ call[c].wrote : consent[w] # "active"
    BY <1>4, CommittedCall DEF Base, CallShape
  <2>2. {w \in Writer : Active(w)}' = {c}
    BY <1>3, <1>4, <2>1, ArtifactsAreNoWriters DEF Active
  <2>3. Store!Grant(c)
    BY <1>1, <1>2, <2>2 DEF Store!Grant
  <2> QED
    BY <2>3 DEF Store!Next
<1>5. CASE c \notin call[c].wrote
  <2>1. \A w \in Writer : Active(w)' <=> Active(w) /\ w \notin call[c].wrote
    BY <1>3, <1>5 DEF Active
  <2>2. CASE \E w \in Writer : Active(w) /\ w \in call[c].wrote
    <3>1. {w \in Writer : Active(w)}' = {}
      BY <2>1, <2>2 DEF Base, ConsentShape
    <3>2. Store!Withdraw
      BY <1>1, <1>2, <3>1 DEF Store!Withdraw
    <3> QED
      BY <3>2 DEF Store!Next
  <2>3. CASE ~\E w \in Writer : Active(w) /\ w \in call[c].wrote
    <3>1. {w \in Writer : Active(w)}' = {w \in Writer : Active(w)}
      BY <2>1, <2>3
    <3> QED
      BY <1>1, <1>2, <3>1 DEF Store!vars
  <2> QED
    BY <2>2, <2>3
<1> QED
  BY <1>4, <1>5

\* A COMMIT that has changed no artifact, of a call that is not about consents.
LEMMA IdleCommit ==
  ASSUME Base, NEW c \in Call, Commit(c), call[c].op \notin {"upsertConsent", "revokeConsent"},
         call[c].wrote \cap Artifact = {}
  PROVE  UNCHANGED Store!vars
<1>1. \A w \in Writer : consent'[w] = consent[w]
  BY OneTable
<1>2. \A a \in Artifact : row'[a] = row[a]
  BY CommittedRow
<1>3. {p \in Artifact \X Call : Committed(p[2], "exchange", p[1])}'
        = {p \in Artifact \X Call : Committed(p[2], "exchange", p[1])}
  BY WinnersAfter
<1> QED
  BY <1>1, <1>2, <1>3 DEF Store!vars, Present, Active

\* The COMMIT of a put, or of a merge, stores what is named or leaves it as spent
\* as it was.
LEMMA PutCommit ==
  ASSUME Base, NEW c \in Call, Commit(c), NEW a \in Artifact, call[c].wrote \cap Artifact = {a},
         call[c].op \in {"put"} \cup Merge
  PROVE  Store!Put(a)
<1>1. \A w \in Writer : consent'[w] = consent[w]
  BY OneTable DEF Merge
<1>2. {w \in Writer : Active(w)}' = {w \in Writer : Active(w)}
  BY <1>1 DEF Active
<1>3. \A b \in Artifact \ {a} : row'[b] = row[b]
  BY CommittedRow
<1>4. Present(a)' /\ row'[a].consumedAt = IF Present(a) THEN row[a].consumedAt ELSE Unused
  <2>1. row[a] \in Row /\ c # None /\ call[c] \in Called
    BY ParameterAssumption DEF Base, TypeOK
  <2>2. \/ Present(a) /\ row'[a] = [row[a] EXCEPT !.version = c, !.expiresAt = call[c].expiresAt,
                                                  !.payload = NewPayload(c)]
        \/ ~Present(a) /\ row'[a] = Inserted(c)
        \/ ~Present(a) /\ row'[a] = [Inserted(c) EXCEPT !.payload = Merged(c)]
        \/ Present(a) /\ row'[a] = [row[a] EXCEPT !.version = c, !.payload = Merged(c)]
    BY CommittedRow DEF Merge
  <2>3. CASE Present(a)
    <3>1. row'[a].version = c /\ row'[a].consumedAt = row[a].consumedAt
      BY <2>1, <2>2, <2>3 DEF Row
    <3> QED
      BY <2>1, <2>3, <3>1 DEF Present
  <2>4. CASE ~Present(a)
    <3>1. row'[a].version = c /\ row'[a].consumedAt = Unused
      BY <2>2, <2>4 DEF Inserted
    <3> QED
      BY <2>1, <2>4, <3>1 DEF Present
  <2> QED
    BY <2>3, <2>4
<1>5. {b \in Artifact : Present(b)}' = {b \in Artifact : Present(b)} \cup {a}
  BY <1>3, <1>4 DEF Present
<1>6. [b \in Artifact |-> IF Present(b) THEN row[b].consumedAt ELSE Unused]'
        = [b \in Artifact |-> IF Present(b) THEN row[b].consumedAt ELSE Unused]
  BY <1>3, <1>4 DEF Present
<1>7. {p \in Artifact \X Call : Committed(p[2], "exchange", p[1])}'
        = {p \in Artifact \X Call : Committed(p[2], "exchange", p[1])}
  BY WinnersStay DEF Merge
<1> QED
  BY <1>2, <1>5, <1>6, <1>7 DEF Store!Put

\* The COMMIT of an exchange consumes what it names, which was usable.
LEMMA ExchangeCommit ==
  ASSUME Base, NEW c \in Call, Commit(c), NEW a \in Artifact, call[c].wrote \cap Artifact = {a},
         call[c].op = "exchange", NEW t \in 0..MaxTime, t = call[c].now
  PROVE  Store!Consume(a, c, t)
<1>1. {w \in Writer : Active(w)}' = {w \in Writer : Active(w)}
  BY OneTable DEF Active
<1>2. \A b \in Artifact \ {a} : row'[b] = row[b]
  BY CommittedRow
<1>3. /\ Present(a) /\ row[a].consumedAt = Unused
      /\ Present(a)' /\ row'[a].consumedAt = t
  <2>1. row[a] \in Row /\ c # None
    BY ParameterAssumption DEF Base, TypeOK
  <2>2. /\ Present(a) /\ row[a].consumedAt = Unused
        /\ row'[a] = [row[a] EXCEPT !.version = c, !.consumedAt = t]
    BY CommittedRow DEF Merge
  <2> QED
    BY <2>1, <2>2 DEF Row, Present
<1>4. Store!Usable(a)
  BY <1>3 DEF Store!Usable
<1>5. {b \in Artifact : Present(b)}' = {b \in Artifact : Present(b)}
  BY <1>2, <1>3 DEF Present
<1>6. [b \in Artifact |-> IF Present(b) THEN row[b].consumedAt ELSE Unused]'
        = [[b \in Artifact |-> IF Present(b) THEN row[b].consumedAt ELSE Unused]
             EXCEPT ![a] = t]
  BY <1>2, <1>3 DEF Present
<1>7. {p \in Artifact \X Call : Committed(p[2], "exchange", p[1])}'
        = {p \in Artifact \X Call : Committed(p[2], "exchange", p[1])} \cup {<<a, c>>}
  BY WinnersAfter
<1> QED
  BY <1>1, <1>4, <1>5, <1>6, <1>7 DEF Store!Consume

\* The COMMIT of a revocation spends what it has taken, all of it usable.
LEMMA RevokeCommit ==
  ASSUME Base, NEW c \in Call, Commit(c), call[c].op = "revokeByGrant",
         NEW S \in SUBSET Artifact, S = call[c].wrote \cap Artifact,
         NEW t \in 0..MaxTime, t = call[c].now
  PROVE  Store!Revoke(S, t)
<1>1. {w \in Writer : Active(w)}' = {w \in Writer : Active(w)}
  BY OneTable DEF Active
<1>2. \A b \in Artifact \ S : row'[b] = row[b]
  BY CommittedRow
<1>3. ASSUME NEW a \in S
      PROVE  /\ Present(a) /\ row[a].consumedAt = Unused
             /\ Present(a)' /\ row'[a].consumedAt = t
  <2>1. row[a] \in Row /\ c # None
    BY ParameterAssumption DEF Base, TypeOK
  <2>2. /\ Present(a) /\ row[a].consumedAt = Unused
        /\ row'[a] = [row[a] EXCEPT !.version = c, !.consumedAt = t]
    BY CommittedRow DEF Merge
  <2> QED
    BY <2>1, <2>2 DEF Row, Present
<1>4. \A a \in S : Store!Usable(a)
  BY <1>3 DEF Store!Usable
<1>5. {b \in Artifact : Present(b)}' = {b \in Artifact : Present(b)}
  BY <1>2, <1>3 DEF Present
<1>6. [b \in Artifact |-> IF Present(b) THEN row[b].consumedAt ELSE Unused]'
        = [b \in Artifact |-> IF b \in S THEN t
             ELSE [d \in Artifact |-> IF Present(d) THEN row[d].consumedAt ELSE Unused][b]]
  BY <1>2, <1>3 DEF Present
<1>7. {p \in Artifact \X Call : Committed(p[2], "exchange", p[1])}'
        = {p \in Artifact \X Call : Committed(p[2], "exchange", p[1])}
  BY WinnersStay
<1> QED
  BY <1>1, <1>4, <1>5, <1>6, <1>7 DEF Store!Revoke

\* The COMMIT of a destroy, or of a cleanup, removes what it has taken.
LEMMA RemoveCommit ==
  ASSUME Base, NEW c \in Call, Commit(c), call[c].op \in {"destroy", "cleanup"},
         NEW S \in SUBSET Artifact, S = call[c].wrote \cap Artifact
  PROVE  Store!Remove(S)
<1>1. {w \in Writer : Active(w)}' = {w \in Writer : Active(w)}
  BY OneTable DEF Active
<1>2. \A b \in Artifact \ S : row'[b] = row[b]
  BY CommittedRow
<1>3. \A a \in S : ~Present(a)'
  BY CommittedFields
<1>4. {b \in Artifact : Present(b)}' = {b \in Artifact : Present(b)} \ S
  BY <1>2, <1>3 DEF Present
<1>5. [b \in Artifact |-> IF Present(b) THEN row[b].consumedAt ELSE Unused]'
        = [b \in Artifact |-> IF b \in S THEN Unused
             ELSE [d \in Artifact |-> IF Present(d) THEN row[d].consumedAt ELSE Unused][b]]
  BY <1>2, <1>3 DEF Present
<1>6. {p \in Artifact \X Call : Committed(p[2], "exchange", p[1])}'
        = {p \in Artifact \X Call : Committed(p[2], "exchange", p[1])}
  BY WinnersStay
<1> QED
  BY <1>1, <1>4, <1>5, <1>6 DEF Store!Remove

\* Every COMMIT is one step of the store, or none.
LEMMA CommitIsAStep ==
  ASSUME Base, NEW c \in Call, Commit(c) PROVE [Store!Next]_(Store!vars)
<1>1. call[c].now \in 0..MaxTime /\ Open(c) /\ call[c].op \in Op
  BY CommittedCall DEF Base, TypeOK, Called
<1>2. PICK S \in SUBSET Artifact : S = call[c].wrote \cap Artifact
  OBVIOUS
<1>3. PICK t \in 0..MaxTime : t = call[c].now
  BY <1>1
<1>4. CASE call[c].op \in {"upsertConsent", "revokeConsent"}
  BY <1>4, ConsentCommit
<1>5. CASE call[c].op = "revokeByGrant"
  <2>1. Store!Revoke(S, t)
    BY <1>2, <1>3, <1>5, RevokeCommit
  <2> QED
    BY <2>1 DEF Store!Next
<1>6. CASE call[c].op \in {"destroy", "cleanup"}
  <2>1. Store!Remove(S)
    BY <1>2, <1>6, RemoveCommit
  <2> QED
    BY <2>1 DEF Store!Next
<1>7. CASE call[c].op \in {"put", "exchange"} \cup Merge
  <2>1. CASE S = {}
    BY <1>2, <1>7, <2>1, IdleCommit DEF Merge
  <2>2. CASE S # {}
    <3>1. PICK a \in S : TRUE
      BY <2>2
    <3>2. \A b \in S : b = call[c].on
      BY <1>1, <1>2, <1>7, Judgement DEF Base, PendingShape
    <3>3. call[c].wrote \cap Artifact = {a} /\ a \in Artifact
      BY <1>2, <3>1, <3>2
    <3>4. CASE call[c].op \in {"put"} \cup Merge
      <4>1. Store!Put(a)
        BY <3>3, <3>4, PutCommit
      <4> QED
        BY <3>3, <4>1 DEF Store!Next
    <3>5. CASE call[c].op = "exchange"
      <4>1. Store!Consume(a, c, t)
        BY <1>3, <3>3, <3>5, ExchangeCommit
      <4> QED
        BY <3>3, <4>1 DEF Store!Next
    <3> QED
      BY <1>7, <3>4, <3>5
  <2> QED
    BY <2>1, <2>2
<1> QED
  BY <1>1, <1>4, <1>5, <1>6, <1>7 DEF Op

\* Whatever a transaction waits for, it takes effect at one moment, on artifacts
\* that are spent once and on a consent that is one cell: ProtocolStore
\* implements OneUseStore (protocol-adapter.ts).
THEOREM ImplementsOneUseStore == Spec => StoreIsAtomic
<1>1. Init => Store!Init
  <2> SUFFICES ASSUME Init PROVE Store!Init
    OBVIOUS
  <2>1. PICK there \in SUBSET Artifact, expiresAt \in ExpiresAt("put") :
          row = [a \in Artifact |->
                   IF a \in there THEN [version |-> Old, born |-> Old, expiresAt |-> expiresAt,
                                        consumedAt |-> Unused, payload |-> NewPayload(Old)]
                   ELSE NoRow]
    BY DEF Init
  <2>2. {a \in Artifact : Present(a)} \in SUBSET Artifact
    OBVIOUS
  <2>3. \A a \in Artifact : row[a].consumedAt = Unused
    BY <2>1 DEF NoRow
  <2>4. [a \in Artifact |-> IF Present(a) THEN row[a].consumedAt ELSE Unused]
          = [a \in Artifact |-> Unused]
    BY <2>3
  <2>5. {p \in Artifact \X Call : Committed(p[2], "exchange", p[1])} = {}
    BY DEF Init, Fresh, Committed, Done
  <2>6. {w \in Writer : Active(w)} \in {{}, {Old}}
    <3>1. \A w \in Writer : w # Old => ~Active(w)
      BY DEF Init, Active
    <3> QED
      BY <3>1
  <2> QED
    BY <2>2, <2>4, <2>5, <2>6 DEF Store!Init
<1>2. Base /\ [Next]_vars => [Store!Next]_(Store!vars)
  <2> SUFFICES ASSUME Base, [Next]_vars PROVE [Store!Next]_(Store!vars)
    OBVIOUS
  <2>1. CASE UNCHANGED <<row, consent, call>>
    BY <2>1 DEF Store!vars, Present, Active, Committed, Done
  <2> QED
    BY <2>1, StepKinds, QuietIsAStutter, CommitIsAStep
<1> QED
  BY <1>1, <1>2, BaseHolds, PTL DEF Spec, StoreIsAtomic, Store!Spec
=============================================================================
