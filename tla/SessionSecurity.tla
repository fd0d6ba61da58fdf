--------------------------- MODULE SessionSecurity --------------------------
(***************************************************************************)
(* First-party sessions and their refresh credentials                      *)
(* (packages/db/src/session-security-adapter.ts): creation, rotation,      *)
(* replay detection, idle and absolute expiry, and every way to revoke,    *)
(* for the sessions of one subject.                                        *)
(*                                                                         *)
(* rotate is a READ COMMITTED transaction of several statements and is     *)
(* modelled statement by statement; the other operations commit one UPDATE *)
(* (or UPDATEs nobody reads in between) and are one action each.           *)
(***************************************************************************)
EXTENDS Naturals, FiniteSets

CONSTANTS Session,       \* session ids; each session is its own refresh family
          Rotation,      \* calls of rotate
          IdleTTL,       \* IDLE_TTL_MS, in clock ticks
          AbsoluteTTL,   \* ABSOLUTE_TTL_MS, in clock ticks
          MaxTime,       \* bound on the clock
          MaxCredential, \* bound on the credentials of one family
          None           \* "no session chosen yet"

ASSUME ParameterAssumption ==
  /\ IdleTTL \in Nat \ {0}
  /\ AbsoluteTTL \in Nat \ {0}
  /\ MaxTime \in Nat
  /\ MaxCredential \in Nat \ {0}
  /\ None \notin Session

VARIABLES
  clock,       \* the time callers pass as now
  deactivated, \* users.deactivated_at is set
  session,     \* sessions rows
  last,        \* number of credentials ever inserted for a session
  used,        \* those of them with used_at set
  rotation     \* the calls of rotate

vars == <<clock, deactivated, session, last, used, rotation>>
-----------------------------------------------------------------------------
\* bare: inserted by the provider, absolute_expires_at still null.
\* sealed: ready, but nobody was ever given its refresh token.
Stage == {"absent", "bare", "sealed", "ready"}
SessionRow == [stage : Stage, revoked : BOOLEAN, born : Nat, idleUntil : Nat,
               absoluteUntil : Nat]

Credential == 1..MaxCredential

RotatePc == {"idle", "claim", "commit", "done"}
RotationResult == {"none", "rotated", "replay", "revoked", "invalid", "unavailable"}
\* wrote: what the transaction changed (pending until "done").
Rotate == [pc : RotatePc, s : Session \cup {None}, k : Nat, now : Nat,
           wrote : {"nothing", "rotate", "revoke"}, answer : RotationResult]

Init ==
  /\ clock = 0
  /\ deactivated = FALSE
  /\ session = [s \in Session |-> [stage |-> "absent", revoked |-> FALSE, born |-> 0,
                                   idleUntil |-> 0, absoluteUntil |-> 0]]
  /\ last = [s \in Session |-> 0]
  /\ used = [s \in Session |-> {}]
  /\ rotation = [c \in Rotation |-> [pc |-> "idle", s |-> None, k |-> 0, now |-> 0,
                                     wrote |-> "nothing", answer |-> "none"]]

Exists(s) == session[s].stage # "absent"

\* The credentials of the family of s, oldest first.
Issued(s) == 1..last[s]
-----------------------------------------------------------------------------
(* Creation *)

Opened(stage) ==
  [stage |-> stage, revoked |-> FALSE, born |-> clock,
   idleUntil |-> clock + IdleTTL, absoluteUntil |-> clock + AbsoluteTTL]

\* createFixture: the session and its first credential, whose token is returned.
CreateFixture(s) ==
  /\ session[s].stage = "absent"
  /\ session' = [session EXCEPT ![s] = Opened("ready")]
  /\ last' = [last EXCEPT ![s] = 1]
  /\ UNCHANGED <<clock, deactivated, used, rotation>>

\* The provider's own INSERT, before its create hook runs; the hook may never
\* run (a crash in between).
ProviderInsert(s) ==
  /\ session[s].stage = "absent"
  /\ session' = [session EXCEPT ![s] = [Opened("bare") EXCEPT !.absoluteUntil = 0]]
  /\ UNCHANGED <<clock, deactivated, last, used, rotation>>

\* initializeProviderSession: its now is the session's createdAt, however late the
\* hook runs, and the credential it inserts has a token nobody is given.
InitializeProviderSession(s) ==
  /\ session[s].stage = "bare"
  /\ session' = [session EXCEPT ![s] = [@ EXCEPT !.stage = "sealed",
                                                 !.idleUntil = session[s].born + IdleTTL,
                                                 !.absoluteUntil = session[s].born + AbsoluteTTL]]
  /\ last' = [last EXCEPT ![s] = 1]
  /\ UNCHANGED <<clock, deactivated, used, rotation>>
-----------------------------------------------------------------------------
(* rotate *)

RotateInvalid(c) ==
  /\ rotation[c].pc = "idle"
  /\ rotation' = [rotation EXCEPT ![c] = [@ EXCEPT !.pc = "done", !.answer = "invalid"]]
  /\ UNCHANGED <<clock, deactivated, session, last, used>>

\* The SELECT: credential, revoked_at and deactivated_at in one snapshot.
RotateRead(c, s, k) ==
  /\ rotation[c].pc = "idle"
  /\ session[s].stage = "ready"
  /\ k \in Issued(s)
  /\ \/ /\ session[s].revoked \/ deactivated
        /\ rotation' = [rotation EXCEPT ![c] = [@ EXCEPT !.pc = "done", !.s = s, !.k = k,
                                                         !.answer = "revoked"]]
     \/ /\ ~session[s].revoked /\ ~deactivated
        /\ rotation' = [rotation EXCEPT ![c] = [@ EXCEPT !.pc = "claim", !.s = s, !.k = k,
                                                         !.now = clock]]
  /\ UNCHANGED <<clock, deactivated, session, last, used>>

\* Faulty variant: the claiming UPDATE does not wait for a pending one.
HoldsClaimNever(c, s, k) == FALSE

\* c's transaction is open and has set used_at of credential k: it holds the row.
HoldsClaim(c, s, k) ==
  /\ rotation[c].pc = "commit"
  /\ rotation[c].wrote = "rotate"
  /\ rotation[c].s = s
  /\ rotation[c].k = k

\* Faulty variant: without used_at IS NULL.
ClaimableReused(c) == session[rotation[c].s].absoluteUntil > rotation[c].now

\* The predicate of the claiming UPDATE; every credential of a family carries
\* the absolute expiry of its session.
Claimable(c) ==
  /\ rotation[c].k \notin used[rotation[c].s]
  /\ session[rotation[c].s].absoluteUntil > rotation[c].now

\* The claiming UPDATE, and what the call does with its row count: the next
\* credential is inserted, or the family is revoked and the replay recorded.
RotateClaim(c) ==
  /\ rotation[c].pc = "claim"
  /\ \/ /\ Claimable(c)
        /\ \A d \in Rotation : ~HoldsClaim(d, rotation[c].s, rotation[c].k)
        /\ last[rotation[c].s] < MaxCredential
        /\ rotation' = [rotation EXCEPT ![c] = [@ EXCEPT !.pc = "commit", !.wrote = "rotate",
                                                         !.answer = "rotated"]]
     \/ /\ ~Claimable(c)
        /\ rotation' = [rotation EXCEPT ![c] = [@ EXCEPT !.pc = "commit", !.wrote = "revoke",
                                                         !.answer = "replay"]]
  /\ UNCHANGED <<clock, deactivated, session, last, used>>

\* Faulty variant: the replay is answered but its family lives on.
RevokeFamilyInNothing(s) == Exists(s) /\ UNCHANGED session

\* Every credential of a family belongs to one session.
RevokeFamilyIn(s) == session' = [session EXCEPT ![s].revoked = TRUE]

\* The reply to COMMIT may be lost; what was written stays.
RotateCommit(c) ==
  LET s == rotation[c].s
  IN  /\ rotation[c].pc = "commit"
      /\ \/ /\ rotation[c].wrote = "rotate"
            /\ used' = [used EXCEPT ![s] = @ \cup {rotation[c].k}]
            /\ last' = [last EXCEPT ![s] = @ + 1]
            /\ UNCHANGED session
         \/ /\ rotation[c].wrote = "revoke"
            /\ RevokeFamilyIn(s)
            /\ UNCHANGED <<last, used>>
      /\ \E reply \in {rotation[c].answer, "unavailable"} :
           rotation' = [rotation EXCEPT ![c] = [@ EXCEPT !.pc = "done", !.answer = reply]]
      /\ UNCHANGED <<clock, deactivated>>

RotateAbort(c) ==
  /\ rotation[c].pc \in {"claim", "commit"}
  /\ rotation' = [rotation EXCEPT ![c] = [@ EXCEPT !.pc = "done", !.wrote = "nothing",
                                                   !.answer = "unavailable"]]
  /\ UNCHANGED <<clock, deactivated, session, last, used>>
-----------------------------------------------------------------------------
(* Use, expiry and revocation *)

\* resolve: the answer for credential k of s, at the current time.
Resolve(s, k) ==
  CASE k \notin Issued(s)                                    -> "invalid"
    [] k \in Issued(s) /\ (deactivated \/ session[s].revoked) -> "revoked"
    [] k \in Issued(s) /\ ~deactivated /\ ~session[s].revoked ->
         IF session[s].idleUntil <= clock \/ session[s].absoluteUntil <= clock
           THEN "expired" ELSE "active"

\* Faulty variant: activity extends the absolute expiry too.
TouchedSliding(s) == [session[s] EXCEPT !.idleUntil = clock + IdleTTL,
                                        !.absoluteUntil = clock + AbsoluteTTL]

Touched(s) == [session[s] EXCEPT !.idleUntil = clock + IdleTTL]

\* touch: neither revocation nor idle expiry is looked at; a null
\* absolute_expires_at never matches.
Touch(s) ==
  /\ session[s].stage \in {"sealed", "ready"}
  /\ session[s].absoluteUntil > clock
  /\ session' = [session EXCEPT ![s] = Touched(s)]
  /\ UNCHANGED <<clock, deactivated, last, used, rotation>>

RevokeOne(s) ==
  /\ Exists(s)
  /\ session' = [session EXCEPT ![s].revoked = TRUE]
  /\ UNCHANGED <<clock, deactivated, last, used, rotation>>

AllRevoked == [s \in Session |-> [session[s] EXCEPT !.revoked = Exists(s)]]

LogoutAll ==
  /\ session' = AllRevoked
  /\ UNCHANGED <<clock, deactivated, last, used, rotation>>

Deactivate ==
  /\ ~deactivated
  /\ deactivated' = TRUE
  /\ session' = AllRevoked
  /\ UNCHANGED <<clock, last, used, rotation>>

Tick ==
  /\ clock < MaxTime
  /\ clock' = clock + 1
  /\ UNCHANGED <<deactivated, session, last, used, rotation>>

Progress(c) == RotateClaim(c) \/ RotateCommit(c)

Next ==
  \/ \E s \in Session : \/ CreateFixture(s) \/ ProviderInsert(s)
                        \/ InitializeProviderSession(s) \/ Touch(s) \/ RevokeOne(s)
  \/ \E c \in Rotation :
       \/ RotateInvalid(c) \/ Progress(c) \/ RotateAbort(c)
       \/ \E s \in Session, k \in Credential : RotateRead(c, s, k)
  \/ LogoutAll \/ Deactivate \/ Tick

Spec == Init /\ [][Next]_vars
-----------------------------------------------------------------------------
(* Properties *)

TypeOK ==
  /\ clock \in 0..MaxTime
  /\ deactivated \in BOOLEAN
  /\ session \in [Session -> SessionRow]
  /\ last \in [Session -> 0..MaxCredential]
  /\ used \in [Session -> SUBSET Credential]
  /\ rotation \in [Rotation -> Rotate]

Told(c, answer) == rotation[c].pc = "done" /\ rotation[c].answer = answer

\* M03: a family is one chain.  Every credential but the newest is used, so at
\* no time two credentials can be redeemed, and no credential was redeemed by
\* two calls, however their statements interleave (rotate).
RefreshChain ==
  /\ \A s \in Session : Issued(s) \ used[s] \subseteq {last[s]}
  /\ \A c, d \in Rotation :
       Told(c, "rotated") /\ Told(d, "rotated")
         /\ rotation[c].s = rotation[d].s /\ rotation[c].k = rotation[d].k => c = d

\* The types, and that a family is one chain (RefreshChain).
SessionInv == TypeOK /\ RefreshChain

\* No credential of s is accepted, also none a concurrent rotation hands out.
Refused(s) == \A k \in Credential : Resolve(s, k) \in {"revoked", "invalid"}

\* M02: a credential presented twice gives the theft away.  Once any call has
\* been told replay, and once any two calls have an answer for the same
\* credential, whichever answers and in whatever order their statements ran,
\* the whole family is refused (rotate, revokeFamilyIn).
ReplayKillsFamily ==
  /\ \A c \in Rotation : Told(c, "replay") => Refused(rotation[c].s)
  /\ \A c, d \in Rotation :
       /\ c # d
       /\ \A e \in {c, d} : \E a \in {"rotated", "replay", "revoked"} : Told(e, a)
       /\ rotation[c].s = rotation[d].s /\ rotation[c].k = rotation[d].k
       => Refused(rotation[c].s)

\* However often it is touched, rotated or both, and however late the provider's
\* hook ran, a session is usable only within AbsoluteTTL of its creation
\* (resolve, touch, initializeProviderSession).
AbsoluteBound ==
  \A s \in Session, k \in Credential :
    Resolve(s, k) = "active" => clock < session[s].born + AbsoluteTTL

\* The calls whose committed transaction redeemed a credential, whatever they
\* were told.
Redeemers == {c \in Rotation : rotation[c].pc = "done" /\ rotation[c].wrote = "rotate"}

\* A rotation takes effect at one moment: it redeems the newest credential and
\* makes the next, each credential is redeemed by one call even if its reply is
\* lost, and what was revoked stays so (rotate and the revocations implement
\* RefreshFamily).
Line == INSTANCE RefreshFamily
          WITH newest <- last, ended <- {s \in Session : session[s].revoked},
               redeemed <- {<<rotation[c].s, rotation[c].k, c>> : c \in Redeemers}
FamilyIsLinear == Line!Spec
=============================================================================
