--------------------------- MODULE ProtocolStore ---------------------------
(***************************************************************************)
(* What oidc-provider keeps behind the boundary: the adapter it is given   *)
(* (apps/protocol/src/boundary-adapter.ts), the handlers of the boundary   *)
(* (apps/api/src/routes/protocol-handlers.ts) and the tables of artifacts  *)
(* and consents (packages/db/src/protocol-adapter.ts), which also serve    *)
(* the interaction port.                                                   *)
(*                                                                         *)
(* Each operation is one READ COMMITTED transaction.  Its statement finds  *)
(* rows in the snapshot it starts with, then takes them one at a time: it  *)
(* waits for whoever has changed a row, and judges it again as it is by    *)
(* then.  The artifacts are either secrets of one grant (codes, tokens) or *)
(* interactions; the consents are those of one subject with one client,    *)
(* named by the call that inserts them.                                    *)
(*                                                                         *)
(* oidc-provider is external: to exchange a secret it finds it, consumes   *)
(* it if it looks usable, and hands out tokens unless a call throws.       *)
(***************************************************************************)
EXTENDS Naturals, FiniteSets

CONSTANTS Call,      \* calls of the operations
          Artifact,  \* ids of artifacts
          Retention, \* how long cleanup keeps what was consumed (7 days)
          MaxTime,   \* bound on the clock
          Old,       \* who wrote the rows of the initial state
          None       \* no writer, no artifact

ASSUME ParameterAssumption ==
  /\ Retention \in Nat
  /\ MaxTime \in Nat
  /\ Old \notin Call
  /\ None \notin Call \cup {Old}
  /\ Artifact \cap (Call \cup {Old, None}) = {}

VARIABLES clock,   \* the clock of the API process
          model,   \* what the artifacts are
          row,     \* protocol_artifacts
          consent, \* oauth_consents
          call     \* the calls

vars == <<clock, model, row, consent, call>>
-----------------------------------------------------------------------------
Writer == Call \cup {Old}

\* No expiry, or one past the bound of the clock; not consumed.
Never == MaxTime + 1
Unused == MaxTime + 1

Model == {"secret", "Interaction"}

\* Of an interaction, who wrote each group of fields last: the provider (client,
\* scopes), setInteractionSession, finishInteraction.
Payload == [request : Writer \cup {None}, session : Writer \cup {None},
            result : Writer \cup {None}]
Empty == [request |-> None, session |-> None, result |-> None]

\* version: the call that wrote the row last.  born: the call that inserted it.
Row == [version : Writer \cup {None}, born : Writer \cup {None}, expiresAt : 0..Never,
        consumedAt : 0..Unused, payload : Payload]
NoRow == [version |-> None, born |-> None, expiresAt |-> 0, consumedAt |-> Unused,
          payload |-> Empty]

Present(a) == row[a].version # None

Merge == {"session", "finish"}
Op == {"put", "exchange", "destroy", "revokeByGrant", "cleanup", "upsertConsent",
       "revokeConsent"} \cup Merge
Pc == {"idle", "find", "select", "statement", "rows", "commit", "done"}

\* on: the artifact named by the request.  expiresAt: of a row it inserts.  read:
\* the payload a merge has read.  todo: rows found and not yet taken, as they were.
\* wrote: the rows it has changed, pending until "done".  prior: the calls that had
\* ended when this one began (read by no action).
Called == [op : Op, pc : Pc, on : Artifact \cup {None}, expiresAt : 0..Never,
           now : 0..MaxTime, read : Payload \cup {None},
           todo : SUBSET ((Artifact \cup Writer) \X Row),
           wrote : SUBSET (Artifact \cup Writer), answer : {"none", "done", "refused", "error"},
           prior : SUBSET Call]

Fresh == [op |-> "put", pc |-> "idle", on |-> None, expiresAt |-> 0, now |-> 0, read |-> None,
          todo |-> {}, wrote |-> {}, answer |-> "none", prior |-> {}]

\* BoundaryAdapter.upsert: expires_at is payload.exp, and is not sent for an
\* interaction; setInteractionSession and finishInteraction set none.
ExpiresAt(op) ==
  CASE op = "put" /\ model = "secret"      -> 1..Never
    [] op = "put" /\ model = "Interaction" -> {Never}
    [] op \in Merge                        -> {Never}
    [] OTHER                               -> {0}

NewPayload(w) == IF model = "Interaction" THEN [Empty EXCEPT !.request = w] ELSE Empty

\* Some artifacts are stored and unused, and there may be a consent.
Init ==
  /\ clock = 0
  /\ model \in Model
  /\ \E stored \in SUBSET Artifact : \E expiresAt \in ExpiresAt("put") :
       row = [a \in Artifact |->
                IF a \in stored THEN [version |-> Old, born |-> Old, expiresAt |-> expiresAt,
                                      consumedAt |-> Unused, payload |-> NewPayload(Old)]
                ELSE NoRow]
  /\ consent \in {[w \in Writer |-> IF w = Old THEN state ELSE "none"] :
                    state \in IF model = "secret" THEN {"none", "active"} ELSE {"none"}}
  /\ call = [c \in Call |-> Fresh]
-----------------------------------------------------------------------------
Open(c) == call[c].pc \notin {"idle", "done"}
Done(c) == call[c].pc = "done"
Step(c, fields) == call' = [call EXCEPT ![c] = fields]

\* The transaction of c has ended, and its variables are gone.
Ended(c, answer) == [call[c] EXCEPT !.pc = "done", !.expiresAt = 0, !.now = 0,
                                    !.read = None, !.todo = {}, !.answer = answer]

\* Faulty variant: an exchange goes on when it could not consume.
FailureQuiet(c) == IF call[c].op = "exchange" THEN "done" ELSE "error"

\* The adapter throws what the boundary throws.
Failure(c) == "error"

Thrown(c) == [Ended(c, Failure(c)) EXCEPT !.wrote = {}]
Unchanged == UNCHANGED <<clock, model, row, consent>>

\* Another open transaction has changed x.
Locked(c, x) == \E d \in Call \ {c} : Open(d) /\ x \in call[d].wrote

Names(op) == IF op \in {"put", "exchange", "destroy"} \cup Merge THEN Artifact ELSE {None}

Offered == IF model = "secret" THEN Op \ Merge ELSE {"put", "destroy"} \cup Merge

First(op) == IF op = "exchange" THEN "find" ELSE IF op \in Merge THEN "select" ELSE "statement"

\* The transaction begins and the handler reads the clock.
Begin(c) ==
  /\ call[c].pc = "idle"
  /\ \E op \in Offered : \E a \in Names(op) : \E expiresAt \in ExpiresAt(op) :
       Step(c, [call[c] EXCEPT !.op = op, !.on = a, !.expiresAt = expiresAt, !.now = clock,
                               !.pc = First(op), !.prior = {d \in Call : Done(d)}])
  /\ Unchanged

\* BoundaryAdapter.find answers the payload: the provider sees its time, and not
\* consumed_at.  Then artifact.consume begins.
Find(c) ==
  /\ call[c].pc = "find"
  /\ IF Present(call[c].on) /\ row[call[c].on].expiresAt > clock
       THEN Step(c, [call[c] EXCEPT !.pc = "statement", !.now = clock])
       ELSE Step(c, Ended(c, "refused"))
  /\ Unchanged

\* The SELECT of setInteractionSession and finishInteraction.
Select(c) ==
  /\ call[c].pc = "select"
  /\ Step(c, [call[c] EXCEPT
                !.pc = "statement",
                !.read = IF Present(call[c].on) THEN row[call[c].on].payload ELSE None])
  /\ Unchanged

\* An UPDATE if the SELECT has found the interaction, and else an INSERT.
Inserts(c) == call[c].op = "put" \/ (call[c].op \in Merge /\ call[c].read = None)

LongConsumed(c, a) == row[a].consumedAt + Retention <= call[c].now

\* The WHERE clause of each statement on protocol_artifacts.
Matches(c, a) ==
  CASE Inserts(c)                   -> a = call[c].on
    [] call[c].op \in Merge /\ ~Inserts(c) -> a = call[c].on /\ Present(a)
    [] call[c].op = "exchange"      -> /\ a = call[c].on /\ Present(a)
                                       /\ row[a].consumedAt = Unused
                                       /\ row[a].expiresAt > call[c].now
    [] call[c].op = "destroy"       -> a = call[c].on /\ Present(a)
    [] call[c].op = "revokeByGrant" -> Present(a) /\ row[a].consumedAt = Unused
    [] call[c].op = "cleanup"       -> /\ Present(a)
                                       /\ row[a].expiresAt <= call[c].now \/ LongConsumed(c, a)
    [] OTHER                        -> FALSE

MatchesConsent(c, w) ==
  call[c].op \in {"upsertConsent", "revokeConsent"} /\ consent[w] = "active"

\* The statement starts: what its snapshot shows.
Statement(c) ==
  /\ call[c].pc = "statement"
  /\ Step(c, [call[c] EXCEPT
                !.pc = "rows",
                !.todo = {<<a, row[a]>> : a \in {b \in Artifact : Matches(c, b)}}
                         \cup {<<w, NoRow>> : w \in {v \in Writer : MatchesConsent(c, v)}}])
  /\ Unchanged

\* Faulty variants: a row is taken as it was found; a row that was changed since
\* is given up; cleanup deletes by id.
StillFound(c, x, found) == TRUE
StillUnchanged(c, x, found) ==
  IF x \in Artifact THEN Matches(c, x) /\ row[x] = found ELSE MatchesConsent(c, x)
StillById(c, x, found) ==
  IF x \in Artifact
    THEN row[x].born = found.born /\ (call[c].op = "cleanup" \/ Matches(c, x))
    ELSE MatchesConsent(c, x)

\* The row, once it is free, is still there and matches.  cleanup selects by ctid:
\* a row that has a newer version is not the one it selected.
Still(c, x, found) ==
  IF x \in Artifact
    THEN /\ Matches(c, x)
         /\ ~Inserts(c) => row[x].born = found.born
         /\ call[c].op = "cleanup" => row[x].version = found.version
    ELSE MatchesConsent(c, x)

\* putArtifact has an ON CONFLICT clause, the INSERT of a merge has none.
Conflict(c, x) == Inserts(c) /\ call[c].op # "put" /\ Present(x)

Take(c) ==
  /\ call[c].pc = "rows"
  /\ \E found \in call[c].todo :
       /\ ~Locked(c, found[1])
       /\ Step(c, IF Conflict(c, found[1]) THEN Thrown(c)
                  ELSE [call[c] EXCEPT
                          !.todo = @ \ {found},
                          !.wrote = @ \cup {x \in {found[1]} : Still(c, x, found[2])}])
  /\ Unchanged

\* Every row was taken.
Taken(c) == call[c].pc = "rows" /\ call[c].todo = {}

\* Faulty variant: no unique index.
ActiveElsewhereNever(c) == FALSE

\* A consent that the partial unique index counts: active, and not revoked by c.
ActiveElsewhere(c) == \E w \in Writer \ call[c].wrote : consent[w] = "active"

\* The insert of upsertConsent waits for whoever inserts or revokes a consent.
InsertConsent(c) ==
  /\ Taken(c) /\ call[c].op = "upsertConsent"
  /\ \A w \in Writer \ call[c].wrote : ~Locked(c, w)
  /\ \/ ActiveElsewhere(c) /\ Step(c, Thrown(c))
     \/ ~ActiveElsewhere(c) /\ Step(c, [call[c] EXCEPT !.pc = "commit", !.wrote = @ \cup {c}])
  /\ Unchanged
-----------------------------------------------------------------------------
(* The rows once the transaction of c is committed. *)

Inserted(c) == [version |-> c, born |-> c, expiresAt |-> call[c].expiresAt,
                consumedAt |-> Unused, payload |-> NewPayload(c)]

\* Faulty variant: the upsert writes the whole row.
PutAnew(c, a) == Inserted(c)

\* ON CONFLICT DO UPDATE: consumedAt is not among what is set.
Put(c, a) ==
  IF Present(a) THEN [row[a] EXCEPT !.version = c, !.expiresAt = call[c].expiresAt,
                                        !.payload = NewPayload(c)]
                ELSE Inserted(c)

\* Faulty variant: the payload that was read is not spread into the new one.
MergedAlone(c) ==
  IF call[c].op = "session" THEN [Empty EXCEPT !.session = c] ELSE [Empty EXCEPT !.result = c]

\* The payload that was read, with the fields of this call.
Merged(c) ==
  LET existing == IF call[c].read = None THEN Empty ELSE call[c].read IN
    IF call[c].op = "session" THEN [existing EXCEPT !.session = c]
                              ELSE [existing EXCEPT !.result = c]

RowAfter(c, a) ==
  CASE a \notin call[c].wrote                           -> row[a]
    [] a \in call[c].wrote /\ call[c].op = "put"         -> Put(c, a)
    [] a \in call[c].wrote /\ call[c].op \in Merge        ->
         IF Inserts(c) THEN [Inserted(c) EXCEPT !.payload = Merged(c)]
                       ELSE [row[a] EXCEPT !.version = c, !.payload = Merged(c)]
    [] a \in call[c].wrote /\ call[c].op \in {"exchange", "revokeByGrant"} ->
         [row[a] EXCEPT !.version = c, !.consumedAt = call[c].now]
    [] a \in call[c].wrote /\ call[c].op \in {"destroy", "cleanup"} -> NoRow

\* The reply to COMMIT may be lost; the rows stay.  Whether artifact.consume
\* answers the row it updated or null is not looked at (BoundaryAdapter.consume).
Commit(c) ==
  /\ call[c].pc = "commit" \/ (Taken(c) /\ call[c].op # "upsertConsent")
  /\ row' = [a \in Artifact |-> RowAfter(c, a)]
  /\ consent' = [w \in Writer |-> IF w \notin call[c].wrote THEN consent[w]
                                  ELSE IF w = c THEN "active" ELSE "revoked"]
  /\ \E reply \in {"done", "error"} : Step(c, Ended(c, reply))
  /\ UNCHANGED <<clock, model>>

\* A lost connection, or a deadlock with another call.
Abort(c) == Open(c) /\ Step(c, Thrown(c)) /\ Unchanged

Tick ==
  /\ clock < MaxTime
  /\ clock' = clock + 1
  /\ UNCHANGED <<model, row, consent, call>>

Next ==
  \/ Tick
  \/ \E c \in Call : Begin(c) \/ Find(c) \/ Select(c) \/ Statement(c) \/ Take(c)
                     \/ InsertConsent(c) \/ Commit(c) \/ Abort(c)

Spec == Init /\ [][Next]_vars
-----------------------------------------------------------------------------
(* Properties *)

TypeOK ==
  /\ clock \in 0..MaxTime
  /\ model \in Model
  /\ row \in [Artifact -> Row]
  /\ consent \in [Writer -> {"none", "active", "revoked"}]
  /\ call \in [Call -> Called]

\* c committed a change of x by operation op, whatever the caller was told.
Committed(c, op, x) == Done(c) /\ call[c].op = op /\ x \in call[c].wrote

\* protocol-adapter.integration.test.ts:121, "consumes an artifact exactly once
\* under concurrency": however consumes, puts and revocations of an artifact
\* overlap, one consume changes it, as long as nobody deletes it.
ConsumedOnce ==
  \A a \in Artifact : \A c, d \in Call :
    Committed(c, "exchange", a) /\ Committed(d, "exchange", a) =>
      c = d \/ \E e \in Call : Committed(e, "destroy", a) \/ Committed(e, "cleanup", a)

\* The types, and that one consume wins (ConsumedOnce).
StoreInv == TypeOK /\ ConsumedOnce

\* Once a grant is revoked, the only artifacts of it that can be used were
\* inserted by a put that had not ended when the revocation began
\* (revokeArtifactsByGrantId).
GrantIsRevoked ==
  \A c \in Call :
    Done(c) /\ call[c].op = "revokeByGrant" /\ call[c].answer # "error" =>
      \A a \in Artifact :
        Present(a) /\ row[a].consumedAt = Unused => row[a].born \notin call[c].prior \cup {Old}

\* A usable artifact disappears only because somebody destroys it: cleanup does
\* not delete one whose expiry was put off while it ran
\* (cleanupExpiredArtifacts).
CleanupSparesLive ==
  [][\A a \in Artifact :
       Present(a) /\ row[a].consumedAt = Unused /\ row[a].expiresAt > clock /\ ~Present(a)'
       => \E c \in Call : call[c].op = "destroy" /\ call[c].on = a /\ ~Done(c) /\ Done(c)']_vars

Active(w) == consent[w] = "active"

\* One consent at most is in force; a consent that was granted or withdrawn and
\* acknowledged is so until a call that had not ended by then changes it
\* (upsertConsent, revokeConsent, oauth_consents_subject_client_active_unique).
ConsentFollows ==
  /\ \A v, w \in Writer : Active(v) /\ Active(w) => v = w
  /\ \A c \in Call : Done(c) /\ call[c].answer = "done" =>
       /\ call[c].op = "revokeConsent" => \A w \in call[c].prior \cup {Old} : ~Active(w)
       /\ call[c].op = "upsertConsent" =>
            \/ Active(c)
            \/ \E d \in Call \ call[c].prior : d # c /\ c \in call[d].wrote /\ Done(d)

Exchanged(c) == Done(c) /\ call[c].op = "exchange" /\ call[c].answer = "done"

\* When tokens were issued for a secret it cannot be consumed any more, unless it
\* was put since the exchange began: whatever fails or comes in between, no
\* exchange leaves it as good as new (BoundaryAdapter.consume).
IssuedIsSpent ==
  \A c \in Call : Exchanged(c) =>
    LET a == call[c].on IN
      Present(a) /\ row[a].consumedAt = Unused /\ row[a].expiresAt > clock
        => row[a].version \notin call[c].prior \cup {Old}

Field(c) ==
  LET payload == row[call[c].on].payload IN
    CASE call[c].op = "put"     -> payload.request
      [] call[c].op = "session" -> payload.session
      [] call[c].op = "finish"  -> payload.result

\* d has changed the interaction of c, and did not end before c began.
ChangedSince(d, c) ==
  d # c /\ Done(d) /\ call[c].on \in call[d].wrote /\ d \notin call[c].prior

\* What an acknowledged call wrote into an interaction is there until a later or
\* overlapping call replaces the same fields or the row; or, as a merge writes
\* back what it has read, an overlapping call does so with stale fields.  Calls
\* that come one after the other lose nothing of each other
\* (setInteractionSession, finishInteraction).
SerialMerge ==
  \A c \in Call :
    model = "Interaction" /\ call[c].op # "destroy" /\ Done(c) /\ call[c].answer = "done"
      /\ Field(c) # c =>
        \E d \in Call : /\ ChangedSince(d, c)
                        /\ call[d].op \in {call[c].op, "put", "destroy"} \/ c \notin call[d].prior

\* protocol-adapter.integration.test.ts:121, "consumes an artifact exactly once
\* under concurrency": a secret that is neither put again nor deleted is good for
\* one exchange.
ExchangedOnce ==
  \A c, d \in Call :
    Exchanged(c) /\ Exchanged(d) /\ call[c].on = call[d].on =>
      \/ c = d
      \/ \E e \in Call : \E op \in {"put", "destroy", "cleanup"} : Committed(e, op, call[c].on)

\* A committed transaction takes effect at one moment, whatever it waited for: from
\* the time an artifact is stored until it is removed it is consumed once or
\* revoked, and no put that overlaps revives it; the consent is one cell that is
\* set and cleared (protocol-adapter.ts implements OneUseStore).
Store == INSTANCE OneUseStore
           WITH Time <- 0..MaxTime,
                stored <- {a \in Artifact : Present(a)},
                spentAt <- [a \in Artifact |-> IF Present(a) THEN row[a].consumedAt ELSE Unused],
                winners <- {p \in Artifact \X Call : Committed(p[2], "exchange", p[1])},
                consent <- {w \in Writer : Active(w)}
StoreIsAtomic == Store!Spec
=============================================================================
