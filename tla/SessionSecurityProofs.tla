----------------------- MODULE SessionSecurityProofs ------------------------
(***************************************************************************)
(* Theorems about SessionSecurity, for any number of sessions, credentials *)
(* and concurrent calls of rotate.  The argument: the open transaction     *)
(* that has claimed a credential is the only one, and it has claimed the   *)
(* newest of the family, so committing it keeps every older one used.      *)
(***************************************************************************)
EXTENDS SessionSecurity, TLAPS

\* Only a session that was created whole has credentials, and it keeps the
\* absolute expiry of its creation.
RowShape ==
  \A s \in Session :
    /\ last[s] # 0 => session[s].stage \in {"sealed", "ready"}
    /\ session[s].stage \in {"sealed", "ready"} =>
         session[s].absoluteUntil = session[s].born + AbsoluteTTL

\* A family is a chain: every credential but the newest is used.
Chain ==
  \A s \in Session : /\ used[s] \subseteq Issued(s)
                     /\ Issued(s) \ used[s] \subseteq {last[s]}

\* What each place of rotate knows about the call.
CallShape ==
  \A c \in Rotation :
    /\ \/ rotation[c].pc \in {"claim", "commit"}
       \/ rotation[c].answer \in {"rotated", "replay", "revoked"}
       => rotation[c].s \in Session /\ rotation[c].k \in Issued(rotation[c].s)
    /\ rotation[c].pc \in {"idle", "claim"} => rotation[c].answer = "none"
    /\ rotation[c].pc = "commit" =>
         \/ rotation[c].wrote = "rotate" /\ rotation[c].answer = "rotated"
         \/ rotation[c].wrote = "revoke" /\ rotation[c].answer = "replay"

\* An answer that was given is true of the committed rows.
Outcome ==
  \A c \in Rotation :
    /\ Told(c, "rotated") => rotation[c].k \in used[rotation[c].s]
    /\ Told(c, "replay") => session[rotation[c].s].revoked
    /\ Told(c, "revoked") => session[rotation[c].s].revoked \/ deactivated

\* A pending claim is on a credential that is still unused, and it is the only
\* one.
ClaimIsExclusive ==
  \A c \in Rotation, s \in Session, k \in Credential :
    HoldsClaim(c, s, k) =>
      /\ k \notin used[s]
      /\ last[s] < MaxCredential
      /\ \A d \in Rotation : HoldsClaim(d, s, k) => d = c

RotatedOnce ==
  \A c, d \in Rotation :
    Told(c, "rotated") /\ Told(d, "rotated")
      /\ rotation[c].s = rotation[d].s /\ rotation[c].k = rotation[d].k => c = d

IInv == TypeOK /\ RowShape /\ Chain /\ CallShape /\ Outcome /\ ClaimIsExclusive /\ RotatedOnce
-----------------------------------------------------------------------------
\* The initial state satisfies the invariant: there is no session.
LEMMA InitIInv == Init => IInv
<1> SUFFICES ASSUME Init PROVE IInv
  OBVIOUS
<1>1. TypeOK
  <2>1. [stage |-> "absent", revoked |-> FALSE, born |-> 0, idleUntil |-> 0,
         absoluteUntil |-> 0] \in SessionRow
    BY DEF SessionRow, Stage
  <2>2. [pc |-> "idle", s |-> None, k |-> 0, now |-> 0, wrote |-> "nothing",
         answer |-> "none"] \in Rotate
    BY DEF Rotate, RotatePc, RotationResult
  <2>3. 0 \in 0..MaxTime /\ 0 \in 0..MaxCredential
    BY ParameterAssumption
  <2> QED
    BY <2>1, <2>2, <2>3 DEF Init, TypeOK
<1>2. RowShape /\ Chain
  BY DEF Init, RowShape, Chain, Issued
<1>3. CallShape /\ Outcome /\ RotatedOnce
  BY DEF Init, CallShape, Outcome, RotatedOnce, Told
<1>4. ClaimIsExclusive
  BY DEF Init, ClaimIsExclusive, HoldsClaim
<1> QED
  BY <1>1, <1>2, <1>3, <1>4 DEF IInv

\* A fresh or restarted row is a row.
LEMMA OpenedType ==
  ASSUME TypeOK, NEW stage \in Stage
  PROVE  Opened(stage) \in SessionRow
BY ParameterAssumption DEF TypeOK, Opened, SessionRow

-----------------------------------------------------------------------------
(* The operations that write session rows, and no call of rotate. *)

RowAction ==
  \/ \E s \in Session : \/ CreateFixture(s) \/ ProviderInsert(s)
                        \/ InitializeProviderSession(s) \/ Touch(s) \/ RevokeOne(s)
  \/ LogoutAll \/ Deactivate

\* What such an operation leaves true: a family only begins, no revocation of a
\* session with credentials is lost, and the calls of rotate are untouched.
FamilyKept ==
  /\ UNCHANGED <<used, rotation>>
  /\ deactivated => deactivated'
  /\ \A s \in Session :
       /\ last'[s] = last[s] \/ (last[s] = 0 /\ last'[s] = 1)
       /\ last[s] # 0 /\ session[s].revoked => session'[s].revoked

\* A row operation keeps the types.
LEMMA RowActionTypeOK == ASSUME IInv, RowAction PROVE TypeOK'
<1>0. TypeOK
  BY DEF IInv
<1>1. ASSUME NEW s \in Session, CreateFixture(s) PROVE TypeOK'
  <2>1. Opened("ready") \in SessionRow
    BY <1>0, OpenedType DEF Stage
  <2>2. 1 \in 0..MaxCredential
    BY ParameterAssumption
  <2> QED
    BY <1>0, <1>1, <2>1, <2>2 DEF TypeOK, CreateFixture
<1>2. ASSUME NEW s \in Session, ProviderInsert(s) PROVE TypeOK'
  <2>1. [Opened("bare") EXCEPT !.absoluteUntil = 0] \in SessionRow
    BY <1>0, OpenedType DEF Stage, SessionRow
  <2> QED
    BY <1>0, <1>2, <2>1 DEF TypeOK, ProviderInsert
<1>3. ASSUME NEW s \in Session, InitializeProviderSession(s) PROVE TypeOK'
  <2>1. [session[s] EXCEPT !.stage = "sealed", !.idleUntil = session[s].born + IdleTTL,
                           !.absoluteUntil = session[s].born + AbsoluteTTL] \in SessionRow
    <3>1. session[s].born + IdleTTL \in Nat /\ session[s].born + AbsoluteTTL \in Nat
      BY <1>0, ParameterAssumption DEF TypeOK, SessionRow
    <3>2. session[s] \in SessionRow
      BY <1>0 DEF TypeOK
    <3> QED
      BY <3>1, <3>2 DEF SessionRow, Stage
  <2>2. 1 \in 0..MaxCredential
    BY ParameterAssumption
  <2> QED
    BY <1>0, <1>3, <2>1, <2>2 DEF TypeOK, InitializeProviderSession
<1>4. ASSUME NEW s \in Session, Touch(s) PROVE TypeOK'
  <2>1. Touched(s) \in SessionRow
    BY <1>0, ParameterAssumption DEF TypeOK, SessionRow, Touched
  <2> QED
    BY <1>0, <1>4, <2>1 DEF TypeOK, Touch
<1>5. ASSUME NEW s \in Session, RevokeOne(s) PROVE TypeOK'
  <2>1. [session[s] EXCEPT !.revoked = TRUE] \in SessionRow
    BY <1>0 DEF TypeOK, SessionRow
  <2> QED
    BY <1>0, <1>5, <2>1 DEF TypeOK, RevokeOne
<1>6. AllRevoked \in [Session -> SessionRow]
  BY <1>0 DEF TypeOK, AllRevoked, SessionRow, Exists
<1>7. CASE LogoutAll
  BY <1>0, <1>6, <1>7 DEF TypeOK, LogoutAll
<1>8. CASE Deactivate
  BY <1>0, <1>6, <1>8 DEF TypeOK, Deactivate
<1> QED
  BY <1>1, <1>2, <1>3, <1>4, <1>5, <1>7, <1>8 DEF RowAction

\* A row operation keeps the shape of the rows and the families.
LEMMA RowActionShape == ASSUME IInv, RowAction PROVE RowShape' /\ FamilyKept
<1>0. TypeOK /\ RowShape
  BY DEF IInv
<1>1. ASSUME NEW s \in Session,
             CreateFixture(s) \/ ProviderInsert(s) \/ InitializeProviderSession(s)
      PROVE  RowShape' /\ FamilyKept
  <2>1. last[s] = 0
    BY <1>0, <1>1 DEF TypeOK, RowShape, CreateFixture, ProviderInsert, InitializeProviderSession
  <2>2. FamilyKept
    <3>1. used' = used /\ rotation' = rotation
      BY <1>1 DEF CreateFixture, ProviderInsert, InitializeProviderSession
    <3>3. \A t \in Session \ {s} : session'[t] = session[t] /\ last'[t] = last[t]
      BY <1>0, <1>1 DEF TypeOK, CreateFixture, ProviderInsert, InitializeProviderSession
    <3>4. deactivated => deactivated'
      BY <1>1 DEF CreateFixture, ProviderInsert, InitializeProviderSession
    <3>5. \A t \in Session : last[t] # 0 /\ session[t].revoked => session'[t].revoked
      BY <2>1, <3>3
    <3>2. last'[s] = 0 \/ last'[s] = 1
      BY <1>0, <1>1, <2>1
      DEF TypeOK, CreateFixture, ProviderInsert, InitializeProviderSession
    <3> QED
      BY <2>1, <3>1, <3>2, <3>3, <3>4, <3>5 DEF FamilyKept
  <2>3. CASE CreateFixture(s)
    BY <1>0, <2>2, <2>3 DEF TypeOK, RowShape, CreateFixture, Opened
  <2>4. CASE ProviderInsert(s)
    BY <1>0, <2>1, <2>2, <2>4 DEF TypeOK, RowShape, ProviderInsert, Opened
  <2>5. CASE InitializeProviderSession(s)
    <3>1. /\ session'[s].stage = "sealed" /\ session'[s].born = session[s].born
          /\ session'[s].absoluteUntil = session[s].born + AbsoluteTTL
      BY <1>0, <2>5 DEF TypeOK, SessionRow, InitializeProviderSession
    <3>2. \A t \in Session \ {s} : session'[t] = session[t] /\ last'[t] = last[t]
      BY <1>0, <2>5 DEF TypeOK, InitializeProviderSession
    <3>3. RowShape'
      BY <1>0, <3>1, <3>2 DEF RowShape
    <3> QED
      BY <2>2, <3>3
  <2> QED
    BY <1>1, <2>3, <2>4, <2>5
<1>2. ASSUME \/ \E s \in Session : Touch(s) \/ RevokeOne(s)
             \/ LogoutAll \/ Deactivate
      PROVE  RowShape' /\ FamilyKept
  <2>1. \A t \in Session : /\ session'[t].stage = session[t].stage
                           /\ session'[t].born = session[t].born
                           /\ session'[t].absoluteUntil = session[t].absoluteUntil
                           /\ session[t].revoked /\ Exists(t) => session'[t].revoked
    <3>1. ASSUME NEW s \in Session, Touch(s) \/ RevokeOne(s), NEW t \in Session
          PROVE  /\ session'[t].stage = session[t].stage
                 /\ session'[t].born = session[t].born
                 /\ session'[t].absoluteUntil = session[t].absoluteUntil
                 /\ session[t].revoked => session'[t].revoked
      <4>1. CASE t = s
        BY <1>0, <3>1, <4>1 DEF TypeOK, SessionRow, Touch, Touched, RevokeOne
      <4>2. CASE t # s
        BY <1>0, <3>1, <4>2 DEF TypeOK, Touch, RevokeOne
      <4> QED
        BY <4>1, <4>2
    <3>2. ASSUME LogoutAll \/ Deactivate, NEW t \in Session
          PROVE  /\ session'[t].stage = session[t].stage
                 /\ session'[t].born = session[t].born
                 /\ session'[t].absoluteUntil = session[t].absoluteUntil
                 /\ session[t].revoked /\ Exists(t) => session'[t].revoked
      <4>1. session'[t] = [session[t] EXCEPT !.revoked = Exists(t)]
        BY <3>2 DEF LogoutAll, Deactivate, AllRevoked
      <4> QED
        BY <1>0, <4>1 DEF TypeOK, SessionRow
    <3> QED
      BY <1>2, <3>1, <3>2
  <2>2. last' = last /\ used' = used /\ rotation' = rotation
    BY <1>2 DEF Touch, RevokeOne, LogoutAll, Deactivate
  <2>3. deactivated => deactivated'
    BY <1>2 DEF Touch, RevokeOne, LogoutAll, Deactivate
  <2>4. \A t \in Session : /\ session'[t].stage = session[t].stage
                           /\ session'[t].born = session[t].born
                           /\ session'[t].absoluteUntil = session[t].absoluteUntil
    BY <2>1
  <2>5. RowShape'
    BY <1>0, <2>2, <2>4 DEF RowShape
  <2>6. \A t \in Session : last[t] # 0 => Exists(t)
    BY <1>0 DEF RowShape, Exists
  <2>7. FamilyKept
    BY <2>1, <2>2, <2>3, <2>6 DEF FamilyKept
  <2> QED
    BY <2>5, <2>7
<1> QED
  BY <1>1, <1>2 DEF RowAction

\* A row operation keeps what is known of the calls of rotate.
LEMMA RowActionIInv == ASSUME IInv, RowAction PROVE IInv'
<1>0. TypeOK /\ RowShape /\ Chain /\ CallShape /\ Outcome /\ ClaimIsExclusive /\ RotatedOnce
  BY DEF IInv
<1>1. TypeOK' /\ RowShape' /\ FamilyKept
  BY RowActionTypeOK, RowActionShape
<1>2. \A s \in Session : Issued(s) \subseteq Issued(s)'
  BY <1>0, <1>1 DEF FamilyKept, Issued, TypeOK
<1>3. CallShape'
  BY <1>0, <1>1, <1>2 DEF CallShape, FamilyKept
<1>7. Chain'
  <2> SUFFICES ASSUME NEW s \in Session
               PROVE  used'[s] \subseteq Issued(s)' /\ Issued(s)' \ used'[s] \subseteq {last'[s]}
    BY DEF Chain
  <2>1. CASE last'[s] = last[s]
    BY <1>0, <1>1, <2>1 DEF Chain, FamilyKept, Issued
  <2>2. CASE last[s] = 0 /\ last'[s] = 1
    <3>1. used'[s] = {}
      BY <1>0, <1>1, <2>2 DEF Chain, FamilyKept, Issued
    <3>2. Issued(s)' = {1}
      BY <2>2 DEF Issued
    <3> QED
      BY <2>2, <3>1, <3>2
  <2> QED
    BY <1>1, <2>1, <2>2 DEF FamilyKept
<1>4. Outcome'
  <2> SUFFICES ASSUME NEW c \in Rotation PROVE Outcome!(c)'
    BY DEF Outcome
  <2>1. Told(c, "rotated") \/ Told(c, "replay") \/ Told(c, "revoked") =>
          rotation[c].s \in Session /\ last[rotation[c].s] # 0
    BY <1>0 DEF CallShape, Told, Issued, TypeOK
  <2> QED
    BY <1>0, <1>1, <2>1 DEF Outcome, Told, FamilyKept
<1>5. ClaimIsExclusive'
  <2> SUFFICES ASSUME NEW c \in Rotation, NEW s \in Session, NEW k \in Credential,
                      HoldsClaim(c, s, k)'
               PROVE  ClaimIsExclusive!(c, s, k)'
    BY DEF ClaimIsExclusive
  <2>1. HoldsClaim(c, s, k)
    BY <1>1 DEF FamilyKept, HoldsClaim
  <2>2. last[s] # 0
    BY <1>0, <2>1 DEF CallShape, HoldsClaim, Issued, TypeOK
  <2>3. last'[s] = last[s]
    BY <1>1, <2>2 DEF FamilyKept
  <2> QED
    BY <1>0, <1>1, <2>1, <2>3 DEF ClaimIsExclusive, FamilyKept, HoldsClaim
<1>6. RotatedOnce'
  BY <1>0, <1>1 DEF RotatedOnce, FamilyKept, Told
<1> QED
  BY <1>1, <1>3, <1>4, <1>5, <1>6, <1>7 DEF IInv
-----------------------------------------------------------------------------
(* The steps of rotate. *)

\* The steps of rotate keep the types.
LEMMA RotateTypeOK ==
  ASSUME IInv, NEW c \in Rotation,
         \/ RotateInvalid(c) \/ RotateClaim(c) \/ RotateCommit(c) \/ RotateAbort(c)
         \/ \E s \in Session, k \in Credential : RotateRead(c, s, k)
  PROVE  TypeOK'
<1>0. TypeOK /\ CallShape /\ ClaimIsExclusive
  BY DEF IInv
<1>1. rotation[c] \in Rotate
  BY <1>0 DEF TypeOK
<1>2. CASE RotateInvalid(c)
  <2>1. [rotation[c] EXCEPT !.pc = "done", !.answer = "invalid"] \in Rotate
    BY <1>1 DEF Rotate, RotatePc, RotationResult
  <2> QED
    BY <1>0, <1>2, <2>1 DEF TypeOK, RotateInvalid
<1>3. CASE \E s \in Session, k \in Credential : RotateRead(c, s, k)
  <2>1. PICK s \in Session, k \in Credential : RotateRead(c, s, k)
    BY <1>3
  <2>2. k \in Nat /\ clock \in Nat
    BY <1>0, ParameterAssumption DEF TypeOK, Credential
  <2>3. /\ [rotation[c] EXCEPT !.pc = "done", !.s = s, !.k = k, !.answer = "revoked"] \in Rotate
        /\ [rotation[c] EXCEPT !.pc = "claim", !.s = s, !.k = k, !.now = clock] \in Rotate
    BY <1>1, <2>2 DEF Rotate, RotatePc, RotationResult
  <2> QED
    BY <1>0, <2>1, <2>3 DEF TypeOK, RotateRead
<1>4. CASE RotateClaim(c)
  <2>1. /\ [rotation[c] EXCEPT !.pc = "commit", !.wrote = "rotate", !.answer = "rotated"] \in Rotate
        /\ [rotation[c] EXCEPT !.pc = "commit", !.wrote = "revoke", !.answer = "replay"] \in Rotate
    BY <1>1 DEF Rotate, RotatePc, RotationResult
  <2> QED
    BY <1>0, <1>4, <2>1 DEF TypeOK, RotateClaim
<1>5. CASE RotateAbort(c)
  <2>1. [rotation[c] EXCEPT !.pc = "done", !.wrote = "nothing", !.answer = "unavailable"] \in Rotate
    BY <1>1 DEF Rotate, RotatePc, RotationResult
  <2> QED
    BY <1>0, <1>5, <2>1 DEF TypeOK, RotateAbort
<1>6. CASE RotateCommit(c)
  <2>1. rotation' \in [Rotation -> Rotate]
    <3>1. PICK reply \in {rotation[c].answer, "unavailable"} :
            rotation' = [rotation EXCEPT ![c] = [@ EXCEPT !.pc = "done", !.answer = reply]]
      BY <1>6 DEF RotateCommit
    <3>2. [rotation[c] EXCEPT !.pc = "done", !.answer = reply] \in Rotate
      BY <1>1 DEF Rotate, RotatePc, RotationResult
    <3> QED
      BY <1>0, <3>1, <3>2 DEF TypeOK
  <2>2. rotation[c].s \in Session /\ rotation[c].k \in Issued(rotation[c].s)
    BY <1>0, <1>6 DEF CallShape, RotateCommit
  <2>3. Issued(rotation[c].s) \subseteq Credential
    BY <1>0, <2>2, ParameterAssumption DEF TypeOK, Issued, Credential
  <2>4. CASE rotation[c].wrote = "rotate"
    <3>1. HoldsClaim(c, rotation[c].s, rotation[c].k)
      BY <1>6, <2>4 DEF RotateCommit, HoldsClaim
    <3>2. last[rotation[c].s] < MaxCredential
      BY <1>0, <2>2, <2>3, <3>1 DEF ClaimIsExclusive
    <3>3. last[rotation[c].s] + 1 \in 0..MaxCredential
      BY <1>0, <2>2, <3>2, ParameterAssumption DEF TypeOK
    <3>4. /\ used' = [used EXCEPT ![rotation[c].s] = @ \cup {rotation[c].k}]
          /\ last' = [last EXCEPT ![rotation[c].s] = @ + 1]
          /\ session' = session /\ clock' = clock /\ deactivated' = deactivated
      BY <1>6, <2>4 DEF RotateCommit
    <3>5. used' \in [Session -> SUBSET Credential]
      BY <1>0, <2>2, <2>3, <3>4 DEF TypeOK
    <3>6. last' \in [Session -> 0..MaxCredential]
      BY <1>0, <2>2, <3>3, <3>4 DEF TypeOK
    <3> QED
      BY <1>0, <2>1, <3>4, <3>5, <3>6 DEF TypeOK
  <2>5. CASE rotation[c].wrote = "revoke"
    <3>1. [session[rotation[c].s] EXCEPT !.revoked = TRUE] \in SessionRow
      BY <1>0, <2>2 DEF TypeOK, SessionRow
    <3> QED
      BY <1>0, <1>6, <2>1, <2>5, <3>1 DEF TypeOK, RotateCommit, RevokeFamilyIn
  <2> QED
    BY <1>0, <1>6, <2>4, <2>5 DEF CallShape, RotateCommit
<1> QED
  BY <1>2, <1>3, <1>4, <1>5, <1>6

\* A statement before COMMIT changes no row; it keeps the invariant.
LEMMA RotateStatement ==
  ASSUME IInv, NEW c \in Rotation,
         \/ RotateInvalid(c) \/ RotateClaim(c) \/ RotateAbort(c)
         \/ \E s \in Session, k \in Credential : RotateRead(c, s, k)
  PROVE  IInv'
<1>0. TypeOK /\ RowShape /\ Chain /\ CallShape /\ Outcome /\ ClaimIsExclusive /\ RotatedOnce
  BY DEF IInv
<1>1. TypeOK'
  BY RotateTypeOK
<1>2. /\ session' = session /\ last' = last /\ used' = used /\ deactivated' = deactivated
      /\ \A d \in Rotation \ {c} : rotation'[d] = rotation[d]
  BY <1>0 DEF TypeOK, RotateInvalid, RotateClaim, RotateAbort, RotateRead
<1>3. RowShape' /\ Chain'
  BY <1>0, <1>2 DEF RowShape, Chain, Issued
<1>6. rotation[c] \in Rotate
  BY <1>0 DEF TypeOK
<1>7. CASE RotateInvalid(c) \/ RotateAbort(c)
  <2>1. /\ rotation'[c].pc = "done"
        /\ rotation'[c].answer \in {"invalid", "unavailable"}
    <3>1. CASE RotateInvalid(c)
      <4>1. rotation'[c] = [rotation[c] EXCEPT !.pc = "done", !.answer = "invalid"]
        BY <1>0, <3>1 DEF TypeOK, RotateInvalid
      <4> QED
        BY <1>6, <4>1 DEF Rotate
    <3>2. CASE RotateAbort(c)
      <4>1. rotation'[c] = [rotation[c] EXCEPT !.pc = "done", !.wrote = "nothing",
                                               !.answer = "unavailable"]
        BY <1>0, <3>2 DEF TypeOK, RotateAbort
      <4> QED
        BY <1>6, <4>1 DEF Rotate
    <3> QED
      BY <1>7, <3>1, <3>2
  <2>2. CallShape'
    BY <1>0, <1>2, <2>1 DEF CallShape, Issued
  <2>3. Outcome'
    BY <1>0, <1>2, <2>1 DEF Outcome, Told
  <2>4. ClaimIsExclusive'
    BY <1>0, <1>2, <2>1 DEF ClaimIsExclusive, HoldsClaim
  <2>5. RotatedOnce'
    BY <1>0, <1>2, <2>1 DEF RotatedOnce, Told
  <2> QED
    BY <1>1, <1>3, <2>2, <2>3, <2>4, <2>5 DEF IInv
<1>8. CASE \E s \in Session, k \in Credential : RotateRead(c, s, k)
  <2>1. PICK s \in Session, k \in Credential : RotateRead(c, s, k)
    BY <1>8
  <2>2. /\ rotation'[c].s = s /\ rotation'[c].k = k /\ k \in Issued(s)
        /\ \/ /\ rotation'[c].pc = "done" /\ rotation'[c].answer = "revoked"
              /\ session[s].revoked \/ deactivated
           \/ rotation'[c].pc = "claim" /\ rotation'[c].answer = "none"
    <3>1. k \in Issued(s) /\ rotation[c].answer = "none"
      BY <1>0, <2>1 DEF RotateRead, CallShape
    <3>2. CASE session[s].revoked \/ deactivated
      <4>1. rotation'[c] = [rotation[c] EXCEPT !.pc = "done", !.s = s, !.k = k,
                                               !.answer = "revoked"]
        BY <1>0, <2>1, <3>2 DEF TypeOK, RotateRead
      <4>2. /\ rotation'[c].s = s /\ rotation'[c].k = k
            /\ rotation'[c].pc = "done" /\ rotation'[c].answer = "revoked"
        BY <1>6, <4>1 DEF Rotate
      <4> QED
        BY <3>1, <3>2, <4>2
    <3>3. CASE ~(session[s].revoked \/ deactivated)
      <4>1. rotation'[c] = [rotation[c] EXCEPT !.pc = "claim", !.s = s, !.k = k, !.now = clock]
        BY <1>0, <2>1, <3>3 DEF TypeOK, RotateRead
      <4>2. /\ rotation'[c].s = s /\ rotation'[c].k = k
            /\ rotation'[c].pc = "claim" /\ rotation'[c].answer = rotation[c].answer
        BY <1>6, <4>1 DEF Rotate
      <4> QED
        BY <3>1, <4>2
    <3> QED
      BY <3>2, <3>3
  <2>3. CallShape'
    BY <1>0, <1>2, <2>2 DEF CallShape, Issued
  <2>4. Outcome'
    BY <1>0, <1>2, <2>2 DEF Outcome, Told
  <2>5. ClaimIsExclusive'
    BY <1>0, <1>2, <2>2 DEF ClaimIsExclusive, HoldsClaim
  <2>6. RotatedOnce'
    BY <1>0, <1>2, <2>2 DEF RotatedOnce, Told
  <2> QED
    BY <1>1, <1>3, <2>3, <2>4, <2>5, <2>6 DEF IInv
<1>9. CASE RotateClaim(c)
  <2>1. /\ rotation[c].pc = "claim" /\ rotation'[c].pc = "commit"
        /\ rotation'[c].s = rotation[c].s /\ rotation'[c].k = rotation[c].k
        /\ \/ /\ rotation'[c].wrote = "rotate" /\ rotation'[c].answer = "rotated"
              /\ rotation[c].k \notin used[rotation[c].s]
              /\ last[rotation[c].s] < MaxCredential
              /\ \A d \in Rotation : ~HoldsClaim(d, rotation[c].s, rotation[c].k)
           \/ rotation'[c].wrote = "revoke" /\ rotation'[c].answer = "replay"
    <3>1. CASE Claimable(c)
      <4>1. rotation'[c] = [rotation[c] EXCEPT !.pc = "commit", !.wrote = "rotate",
                                               !.answer = "rotated"]
        BY <1>0, <1>9, <3>1 DEF TypeOK, RotateClaim
      <4>2. /\ rotation'[c].pc = "commit" /\ rotation'[c].s = rotation[c].s
            /\ rotation'[c].k = rotation[c].k
            /\ rotation'[c].wrote = "rotate" /\ rotation'[c].answer = "rotated"
        BY <1>6, <4>1 DEF Rotate
      <4> QED
        BY <1>9, <3>1, <4>2 DEF RotateClaim, Claimable
    <3>2. CASE ~Claimable(c)
      <4>1. rotation'[c] = [rotation[c] EXCEPT !.pc = "commit", !.wrote = "revoke",
                                               !.answer = "replay"]
        BY <1>0, <1>9, <3>2 DEF TypeOK, RotateClaim
      <4>2. /\ rotation'[c].pc = "commit" /\ rotation'[c].s = rotation[c].s
            /\ rotation'[c].k = rotation[c].k
            /\ rotation'[c].wrote = "revoke" /\ rotation'[c].answer = "replay"
        BY <1>6, <4>1 DEF Rotate
      <4> QED
        BY <1>9, <4>2 DEF RotateClaim
    <3> QED
      BY <3>1, <3>2
  <2>2. CallShape'
    BY <1>0, <1>2, <2>1 DEF CallShape, Issued
  <2>3. Outcome'
    BY <1>0, <1>2, <2>1 DEF Outcome, Told
  <2>4. ClaimIsExclusive'
    BY <1>0, <1>2, <2>1 DEF ClaimIsExclusive, HoldsClaim
  <2>5. RotatedOnce'
    BY <1>0, <1>2, <2>1 DEF RotatedOnce, Told
  <2> QED
    BY <1>1, <1>3, <2>2, <2>3, <2>4, <2>5 DEF IInv
<1> QED
  BY <1>7, <1>8, <1>9

\* COMMIT of a rotation: the claimed credential is the newest, a newer one
\* follows it; COMMIT of a replay: the session is revoked.
LEMMA CommitIInv == ASSUME IInv, NEW c \in Rotation, RotateCommit(c) PROVE IInv'
<1>0. TypeOK /\ RowShape /\ Chain /\ CallShape /\ Outcome /\ ClaimIsExclusive /\ RotatedOnce
  BY DEF IInv
<1>1. TypeOK'
  BY RotateTypeOK
<1>8. /\ rotation[c].s \in Session /\ rotation[c].k \in Credential
      /\ rotation[c].k \in Issued(rotation[c].s)
  BY <1>0, ParameterAssumption DEF RotateCommit, CallShape, TypeOK, Issued, Credential
<1>2. PICK s \in Session, k \in Credential :
        /\ s = rotation[c].s /\ k = rotation[c].k /\ k \in Issued(s)
        /\ rotation[c] \in Rotate
  BY <1>0, <1>8 DEF TypeOK
<1>3. PICK reply \in {rotation[c].answer, "unavailable"} :
        rotation' = [rotation EXCEPT ![c] = [@ EXCEPT !.pc = "done", !.answer = reply]]
  BY DEF RotateCommit
<1>4. /\ rotation'[c].pc = "done" /\ rotation'[c].answer = reply
      /\ rotation'[c].s = s /\ rotation'[c].k = k
      /\ \A d \in Rotation \ {c} : rotation'[d] = rotation[d]
  BY <1>0, <1>2, <1>3 DEF TypeOK, Rotate
<1>5. CASE rotation[c].wrote = "rotate"
  <2>1. /\ used' = [used EXCEPT ![s] = @ \cup {k}]
        /\ last' = [last EXCEPT ![s] = @ + 1]
        /\ session' = session /\ deactivated' = deactivated
    BY <1>2, <1>5 DEF RotateCommit
  <2>2. HoldsClaim(c, s, k)
    BY <1>2, <1>5 DEF RotateCommit, HoldsClaim
  <2>3. /\ k \notin used[s] /\ k = last[s]
        /\ \A d \in Rotation : HoldsClaim(d, s, k) => d = c
    BY <1>0, <1>2, <2>2 DEF ClaimIsExclusive, Chain
  <2>4. /\ used'[s] = used[s] \cup {k} /\ last'[s] = last[s] + 1
        /\ \A t \in Session \ {s} : used'[t] = used[t] /\ last'[t] = last[t]
    BY <1>0, <1>2, <2>1 DEF TypeOK
  <2>5. last[s] \in Nat /\ last[s] # 0
    BY <1>0, <1>2, ParameterAssumption DEF TypeOK, Issued
  <2>6. /\ Issued(s)' = Issued(s) \cup {last[s] + 1}
        /\ \A t \in Session \ {s} : Issued(t)' = Issued(t)
    BY <2>4, <2>5 DEF Issued
  <2>7. RowShape'
    BY <1>0, <2>1, <2>4, <2>5 DEF RowShape
  <2>8. Chain'
    BY <1>0, <1>2, <2>3, <2>4, <2>6 DEF Chain
  <2>9. reply \in {"rotated", "unavailable"}
    BY <1>0, <1>3, <1>5 DEF CallShape, RotateCommit
  <2>10. CallShape'
    BY <1>0, <1>2, <1>4, <2>6, <2>9 DEF CallShape
  <2>11. Outcome'
    BY <1>0, <1>2, <1>4, <2>1, <2>4, <2>9 DEF Outcome, Told, CallShape
  <2>12. RotatedOnce'
    BY <1>0, <1>2, <1>4, <2>3, <2>9 DEF RotatedOnce, Told, Outcome
  <2>13. ClaimIsExclusive'
    <3> SUFFICES ASSUME NEW d \in Rotation, NEW t \in Session, NEW j \in Credential,
                        HoldsClaim(d, t, j)'
                 PROVE  ClaimIsExclusive!(d, t, j)'
      BY DEF ClaimIsExclusive
    <3>1. d # c /\ HoldsClaim(d, t, j)
      BY <1>4 DEF HoldsClaim
    <3>2. t # s
      <4>1. t = s => j \in Issued(s) \ used[s]
        BY <1>0, <3>1 DEF ClaimIsExclusive, CallShape, HoldsClaim
      <4>2. t = s => j = k
        BY <1>0, <1>2, <2>3, <4>1 DEF Chain
      <4> QED
        BY <2>3, <3>1, <4>2
    <3> QED
      BY <1>0, <1>4, <2>4, <3>1, <3>2 DEF ClaimIsExclusive, HoldsClaim
  <2> QED
    BY <1>1, <2>7, <2>8, <2>10, <2>11, <2>12, <2>13 DEF IInv
<1>6. CASE rotation[c].wrote = "revoke"
  <2>1. /\ session' = [session EXCEPT ![s].revoked = TRUE]
        /\ last' = last /\ used' = used /\ deactivated' = deactivated
    BY <1>2, <1>6 DEF RotateCommit, RevokeFamilyIn
  <2>2. /\ session'[s].revoked
        /\ \A t \in Session : /\ session'[t].stage = session[t].stage
                              /\ session'[t].born = session[t].born
                              /\ session'[t].absoluteUntil = session[t].absoluteUntil
                              /\ session[t].revoked => session'[t].revoked
    BY <1>0, <1>2, <2>1 DEF TypeOK, SessionRow
  <2>3. reply \in {"replay", "unavailable"}
    BY <1>0, <1>3, <1>6 DEF CallShape, RotateCommit
  <2>4. RowShape' /\ Chain'
    BY <1>0, <2>1, <2>2 DEF RowShape, Chain, Issued
  <2>5. CallShape'
    BY <1>0, <1>2, <1>4, <2>1, <2>3 DEF CallShape, Issued
  <2>6. Outcome'
    <3> SUFFICES ASSUME NEW d \in Rotation PROVE Outcome!(d)'
      BY DEF Outcome
    <3>1. CASE d = c
      BY <1>4, <2>2, <2>3, <3>1 DEF Told
    <3>2. CASE d # c
      <4>1. Told(d, "replay") \/ Told(d, "revoked") => rotation[d].s \in Session
        BY <1>0 DEF CallShape, Told
      <4> QED
        BY <1>0, <1>4, <2>1, <2>2, <3>2, <4>1 DEF Outcome, Told
    <3> QED
      BY <3>1, <3>2
  <2>7. RotatedOnce'
    BY <1>0, <1>4, <2>3 DEF RotatedOnce, Told
  <2>8. ClaimIsExclusive'
    BY <1>0, <1>4, <2>1 DEF ClaimIsExclusive, HoldsClaim
  <2> QED
    BY <1>1, <2>4, <2>5, <2>6, <2>7, <2>8 DEF IInv
<1> QED
  BY <1>0, <1>5, <1>6 DEF CallShape, RotateCommit
-----------------------------------------------------------------------------
\* Every step keeps the invariant.
LEMMA NextIInv == IInv /\ [Next]_vars => IInv'
<1> SUFFICES ASSUME IInv, [Next]_vars PROVE IInv'
  OBVIOUS
<1>1. CASE RowAction
  BY <1>1, RowActionIInv
<1>2. ASSUME NEW c \in Rotation, RotateCommit(c) PROVE IInv'
  BY <1>2, CommitIInv
<1>3. ASSUME NEW c \in Rotation,
             \/ RotateInvalid(c) \/ RotateClaim(c) \/ RotateAbort(c)
             \/ \E s \in Session, k \in Credential : RotateRead(c, s, k)
      PROVE  IInv'
  BY <1>3, RotateStatement
<1>4. CASE Tick
  <2>1. clock + 1 \in 0..MaxTime
    BY <1>4, ParameterAssumption DEF IInv, TypeOK, Tick
  <2> QED
    BY <1>4, <2>1
    DEF Tick, IInv, TypeOK, RowShape, Chain, CallShape, Outcome, ClaimIsExclusive,
        RotatedOnce, HoldsClaim, Told, Issued
<1>5. CASE UNCHANGED vars
  BY <1>5
  DEF vars, IInv, TypeOK, RowShape, Chain, CallShape, Outcome, ClaimIsExclusive,
      RotatedOnce, HoldsClaim, Told, Issued
<1> QED
  BY <1>1, <1>2, <1>3, <1>4, <1>5 DEF Next, Progress, RowAction

\* The invariant holds in every reachable state.
LEMMA Invariance == Spec => []IInv
<1> QED
  BY InitIInv, NextIInv, PTL DEF Spec

\* M03 of the code: every reachable state is well typed, and a family is one chain
\* of credentials, each redeemed by at most one call, however many calls of rotate
\* run at once.
THEOREM FamiliesAreChains == Spec => []SessionInv
<1>1. IInv => SessionInv
  BY DEF IInv, SessionInv, RefreshChain, Chain, RotatedOnce
<1> QED
  BY Invariance, <1>1, PTL

\* M02 of the code: replay, and any second answered presentation of the same
\* credential, leaves the whole family refused.
THEOREM ReplayRevokesFamily == Spec => []ReplayKillsFamily
<1>1. ASSUME IInv, NEW s \in Session, session[s].revoked \/ deactivated
      PROVE  Refused(s)
  BY <1>1 DEF Refused, Resolve
<1>2. ASSUME IInv PROVE ReplayKillsFamily
  <2>0. CallShape /\ Outcome /\ RotatedOnce
    BY <1>2 DEF IInv
  <2>1. ASSUME NEW c \in Rotation, Told(c, "replay") PROVE Refused(rotation[c].s)
    BY <1>1, <1>2, <2>0, <2>1 DEF CallShape, Outcome, Told
  <2>2. ASSUME NEW c \in Rotation, Told(c, "revoked") PROVE Refused(rotation[c].s)
    BY <1>1, <1>2, <2>0, <2>2 DEF CallShape, Outcome, Told
  <2>3. ASSUME NEW c \in Rotation, NEW d \in Rotation, c # d,
               \A e \in {c, d} : \E a \in {"rotated", "replay", "revoked"} : Told(e, a),
               rotation[c].s = rotation[d].s, rotation[c].k = rotation[d].k
        PROVE  Refused(rotation[c].s)
    <3>1. ~(Told(c, "rotated") /\ Told(d, "rotated"))
      BY <2>0, <2>3 DEF RotatedOnce
    <3>2. \/ Told(c, "replay") \/ Told(c, "revoked")
          \/ Told(d, "replay") \/ Told(d, "revoked")
      BY <2>3, <3>1
    <3> QED
      BY <2>1, <2>2, <2>3, <3>2
  <2> QED
    BY <2>1, <2>3 DEF ReplayKillsFamily
<1> QED
  BY Invariance, <1>2, PTL

\* A session whose credential was handed out is never usable past the absolute
\* lifetime it was created with.
THEOREM SessionsEnd == Spec => []AbsoluteBound
<1>1. ASSUME IInv PROVE AbsoluteBound
  <2> SUFFICES ASSUME NEW s \in Session, NEW k \in Credential,
                      Resolve(s, k) = "active"
               PROVE  clock < session[s].born + AbsoluteTTL
    BY DEF AbsoluteBound
  <2>1. k \in Issued(s) /\ ~(session[s].absoluteUntil <= clock)
    BY DEF Resolve
  <2>3. last[s] # 0
    BY <1>1, <2>1 DEF IInv, TypeOK, Issued
  <2>2. session[s].absoluteUntil = session[s].born + AbsoluteTTL
    BY <1>1, <2>3 DEF IInv, RowShape
  <2>4. clock \in Nat /\ session[s].born + AbsoluteTTL \in Nat
    BY <1>1, ParameterAssumption DEF IInv, TypeOK, SessionRow
  <2> QED
    BY <2>1, <2>2, <2>4
<1> QED
  BY Invariance, <1>1, PTL
-----------------------------------------------------------------------------
(***************************************************************************)
(* The refinement of RefreshFamily.  COMMIT is the moment of a rotation:   *)
(* who has claimed a credential holds the newest one, which nobody has     *)
(* redeemed, because what was redeemed is used.                            *)
(***************************************************************************)

Redemptions == {<<rotation[c].s, rotation[c].k, c>> : c \in Redeemers}
Revoked == {s \in Session : session[s].revoked}

\* What was redeemed is used, and a session that is not there is not revoked.
RedeemInv ==
  /\ \A c \in Redeemers : rotation[c].s \in Session /\ rotation[c].k \in used[rotation[c].s]
  /\ \A c \in Rotation : rotation[c].pc \in {"idle", "claim"} => rotation[c].wrote = "nothing"
  /\ \A s \in Session : session[s].stage = "absent" => ~session[s].revoked

LEMMA InitRedeem == Init => RedeemInv
BY DEF Init, RedeemInv, Redeemers

\* An operation on session rows opens a family, ends some, or neither.
LEMMA RowActionIsAStep ==
  ASSUME IInv, RedeemInv, RowAction
  PROVE  RedeemInv' /\ [Line!Next]_(Line!vars)
<1>0. /\ session \in [Session -> SessionRow] /\ last \in [Session -> 0..MaxCredential]
      /\ RowShape /\ rotation' = rotation /\ used' = used
  BY RowActionShape DEF IInv, TypeOK, FamilyKept
<1>1. Redemptions' = Redemptions /\ Redeemers' = Redeemers
  BY <1>0 DEF Redemptions, Redeemers
<1>2. ASSUME \A s \in Session : session'[s].stage = "absent" => ~session'[s].revoked
      PROVE  RedeemInv'
  BY <1>0, <1>1, <1>2 DEF RedeemInv, Redeemers
<1>3. ASSUME NEW S \in SUBSET Session, Revoked' = Revoked \cup S, last' = last
      PROVE  [Line!Next]_(Line!vars)
  <2>1. Line!End(S)
    BY <1>1, <1>3 DEF Line!End, Redemptions, Revoked
  <2> QED
    BY <2>1 DEF Line!Next
<1>4. ASSUME NEW s \in Session, last[s] = 0, last' = [last EXCEPT ![s] = 1], Revoked' = Revoked
      PROVE  [Line!Next]_(Line!vars)
  <2>1. Line!Open(s)
    BY <1>1, <1>4 DEF Line!Open, Redemptions, Revoked
  <2> QED
    BY <2>1 DEF Line!Next
<1>5. ASSUME Revoked' = Revoked, last' = last PROVE [Line!Next]_(Line!vars)
  BY <1>1, <1>5 DEF Line!vars, Redemptions, Revoked
<1>6. ASSUME NEW s \in Session, CreateFixture(s) \/ ProviderInsert(s)
      PROVE  RedeemInv' /\ [Line!Next]_(Line!vars)
  <2>1. session[s].stage = "absent" /\ ~session[s].revoked /\ last[s] = 0
    BY <1>0, <1>6 DEF CreateFixture, ProviderInsert, RedeemInv, RowShape
  <2>2. /\ ~session'[s].revoked
        /\ \A r \in Session : r # s => session'[r] = session[r]
    BY <1>0, <1>6 DEF CreateFixture, ProviderInsert, Opened
  <2>3. Revoked' = Revoked
    BY <2>1, <2>2 DEF Revoked
  <2>4. RedeemInv'
    BY <1>2, <2>2 DEF RedeemInv
  <2>5. last' = last \/ last' = [last EXCEPT ![s] = 1]
    BY <1>6 DEF CreateFixture, ProviderInsert
  <2>6. CASE last' = last
    BY <1>5, <2>3, <2>4, <2>6
  <2> QED
    BY <1>4, <2>1, <2>3, <2>4, <2>5, <2>6
<1>7. ASSUME NEW s \in Session, InitializeProviderSession(s) \/ Touch(s)
      PROVE  RedeemInv' /\ [Line!Next]_(Line!vars)
  <2>1. /\ session'[s].revoked = session[s].revoked /\ session'[s].stage # "absent"
        /\ \A r \in Session : r # s => session'[r] = session[r]
    BY <1>0, <1>7 DEF InitializeProviderSession, Touch, Touched, SessionRow
  <2>2. Revoked' = Revoked
    BY <2>1 DEF Revoked
  <2>3. RedeemInv'
    BY <1>2, <2>1 DEF RedeemInv
  <2>4. CASE InitializeProviderSession(s)
    <3>1. last[s] = 0 /\ last' = [last EXCEPT ![s] = 1]
      BY <1>0, <2>4 DEF InitializeProviderSession, RowShape
    <3> QED
      BY <1>4, <2>2, <2>3, <3>1
  <2>5. CASE Touch(s)
    BY <1>5, <2>2, <2>3, <2>5 DEF Touch
  <2> QED
    BY <1>7, <2>4, <2>5
<1>8. ASSUME NEW s \in Session, RevokeOne(s) PROVE RedeemInv' /\ [Line!Next]_(Line!vars)
  <2>1. /\ session'[s].revoked /\ session'[s].stage # "absent"
        /\ \A r \in Session : r # s => session'[r] = session[r]
    BY <1>0, <1>8 DEF RevokeOne, Exists, SessionRow
  <2>2. Revoked' = Revoked \cup {s}
    BY <2>1 DEF Revoked
  <2>3. RedeemInv'
    BY <1>2, <2>1 DEF RedeemInv
  <2> QED
    BY <1>3, <1>8, <2>2, <2>3 DEF RevokeOne
<1>9. CASE LogoutAll \/ Deactivate
  <2>1. session' = AllRevoked /\ last' = last
    BY <1>9 DEF LogoutAll, Deactivate
  <2>2. \A s \in Session : /\ session'[s].revoked = Exists(s)
                           /\ session'[s].stage = session[s].stage
    BY <1>0, <2>1 DEF AllRevoked, SessionRow
  <2>3. Revoked' = Revoked \cup {s \in Session : Exists(s)}
    BY <2>2 DEF Revoked, RedeemInv, Exists
  <2>4. RedeemInv'
    BY <1>2, <2>2 DEF Exists
  <2> QED
    BY <1>3, <2>1, <2>3, <2>4
<1> QED
  BY <1>6, <1>7, <1>8, <1>9 DEF RowAction

\* The statements of rotate before COMMIT, and its failures, change no row.
LEMMA StatementIsQuiet ==
  ASSUME IInv, RedeemInv, NEW c \in Rotation,
         \/ RotateInvalid(c) \/ RotateClaim(c) \/ RotateAbort(c)
         \/ \E s \in Session, k \in Credential : RotateRead(c, s, k)
  PROVE  RedeemInv' /\ UNCHANGED Line!vars
<1>0. /\ rotation \in [Rotation -> Rotate] /\ rotation[c] \in Rotate
      /\ session' = session /\ last' = last /\ used' = used
  BY DEF IInv, TypeOK, RotateInvalid, RotateClaim, RotateAbort, RotateRead
<1>1. rotation[c].pc # "done" /\ \A d \in Rotation \ {c} : rotation'[d] = rotation[d]
  BY <1>0 DEF RotateInvalid, RotateClaim, RotateAbort, RotateRead
<1>2. /\ rotation'[c].pc = "done" => rotation'[c].wrote = "nothing"
      /\ rotation'[c].pc \in {"idle", "claim"} => rotation'[c].wrote = "nothing"
  <2>1. CASE RotateInvalid(c)
    <3>1. rotation'[c] = [rotation[c] EXCEPT !.pc = "done", !.answer = "invalid"]
      BY <1>0, <2>1 DEF RotateInvalid
    <3> QED
      BY <1>0, <2>1, <3>1 DEF RotateInvalid, Rotate, RedeemInv
  <2>3. CASE RotateAbort(c)
    <3>1. rotation'[c] = [rotation[c] EXCEPT !.pc = "done", !.wrote = "nothing",
                                             !.answer = "unavailable"]
      BY <1>0, <2>3 DEF RotateAbort
    <3> QED
      BY <1>0, <3>1 DEF Rotate
  <2>4. CASE RotateClaim(c)
    <3>1. \E w, a : rotation'[c] = [rotation[c] EXCEPT !.pc = "commit", !.wrote = w, !.answer = a]
      BY <1>0, <2>4 DEF RotateClaim
    <3> QED
      BY <1>0, <3>1 DEF Rotate
  <2>2. ASSUME NEW s \in Session, NEW k \in Credential, RotateRead(c, s, k)
        PROVE  rotation'[c].wrote = "nothing"
    <3>1. rotation[c].wrote = "nothing"
      BY <2>2 DEF RotateRead, RedeemInv
    <3>2. \/ rotation'[c] = [rotation[c] EXCEPT !.pc = "done", !.s = s, !.k = k,
                                                !.answer = "revoked"]
          \/ rotation'[c] = [rotation[c] EXCEPT !.pc = "claim", !.s = s, !.k = k, !.now = clock]
      BY <1>0, <2>2 DEF RotateRead
    <3> QED
      BY <1>0, <3>1, <3>2 DEF Rotate
  <2> QED
    BY <2>1, <2>2, <2>3, <2>4
<1>3. Redeemers' = Redeemers /\ Redemptions' = Redemptions
  BY <1>1, <1>2 DEF Redeemers, Redemptions
<1>4. RedeemInv'
  <2>1. \A d \in Redeemers : rotation'[d] = rotation[d]
    BY <1>1 DEF Redeemers
  <2> QED
    BY <1>0, <1>1, <1>2, <1>3, <2>1 DEF RedeemInv
<1> QED
  BY <1>0, <1>3, <1>4 DEF Line!vars, Redemptions

\* COMMIT redeems the newest credential, or ends the family.
LEMMA CommitIsAStep ==
  ASSUME IInv, RedeemInv, NEW c \in Rotation, RotateCommit(c)
  PROVE  RedeemInv' /\ [Line!Next]_(Line!vars)
<1>0. /\ rotation \in [Rotation -> Rotate] /\ rotation[c] \in Rotate
      /\ used \in [Session -> SUBSET Credential] /\ last \in [Session -> 0..MaxCredential]
      /\ session \in [Session -> SessionRow] /\ rotation[c].pc = "commit"
      /\ CallShape /\ Chain /\ ClaimIsExclusive
  BY DEF IInv, TypeOK, RotateCommit
<1>1. PICK s \in Session : s = rotation[c].s
  BY <1>0 DEF CallShape
<1>2. PICK k : k = rotation[c].k
  OBVIOUS
<1>3. k \in Issued(s) /\ k \in Credential /\ last[s] # 0 /\ k \in Nat
  BY <1>0, <1>1, <1>2, ParameterAssumption DEF CallShape, Issued, Credential
<1>4. PICK reply \in {rotation[c].answer, "unavailable"} :
        rotation' = [rotation EXCEPT ![c] = [@ EXCEPT !.pc = "done", !.answer = reply]]
  BY DEF RotateCommit
<1>5. /\ rotation'[c].pc = "done" /\ rotation'[c].wrote = rotation[c].wrote
      /\ rotation'[c].s = s /\ rotation'[c].k = k
      /\ \A d \in Rotation \ {c} : rotation'[d] = rotation[d]
  BY <1>0, <1>1, <1>2, <1>4 DEF Rotate
<1>6. /\ c \notin Redeemers
      /\ \A d \in Redeemers : d # c /\ rotation'[d] = rotation[d]
  BY <1>0, <1>5 DEF Redeemers
<1>7. CASE rotation[c].wrote = "rotate"
  <2>1. /\ used' = [used EXCEPT ![s] = @ \cup {k}] /\ last' = [last EXCEPT ![s] = @ + 1]
        /\ session' = session
    BY <1>1, <1>2, <1>7 DEF RotateCommit
  <2>2. k \notin used[s]
    BY <1>0, <1>1, <1>2, <1>3, <1>7 DEF ClaimIsExclusive, HoldsClaim
  <2>3. k = last[s]
    BY <1>0, <1>3, <2>2 DEF Chain
  <2>4. Redeemers' = Redeemers \cup {c}
    BY <1>5, <1>6, <1>7 DEF Redeemers
  <2>5. Redemptions' = Redemptions \cup {<<s, k, c>>}
    BY <1>5, <1>6, <2>4 DEF Redemptions
  <2>6. ~Line!Redeemed(s, last[s])
    BY <2>2, <2>3 DEF Line!Redeemed, RedeemInv, Redemptions
  <2>7. \A p \in Redemptions : p[3] # c
    BY <1>6 DEF Redemptions
  <2>8. Line!Redeem(s, c)
    BY <1>3, <2>1, <2>3, <2>5, <2>6, <2>7 DEF Line!Redeem, Redemptions
  <2>9. RedeemInv'
    BY <1>0, <1>5, <1>6, <2>1, <2>4 DEF RedeemInv
  <2> QED
    BY <2>8, <2>9 DEF Line!Next
<1>8. CASE rotation[c].wrote = "revoke"
  <2>1. /\ session' = [session EXCEPT ![s].revoked = TRUE] /\ used' = used /\ last' = last
    BY <1>1, <1>8 DEF RotateCommit, RevokeFamilyIn
  <2>2. Redeemers' = Redeemers /\ Redemptions' = Redemptions
    BY <1>5, <1>6, <1>8 DEF Redeemers, Redemptions
  <2>3. Revoked' = Revoked \cup {s}
    BY <1>0, <2>1 DEF Revoked, SessionRow
  <2>4. session[s].stage # "absent"
    BY <1>3 DEF IInv, RowShape
  <2>5. RedeemInv'
    BY <1>0, <1>5, <1>6, <2>1, <2>2, <2>4 DEF RedeemInv, SessionRow
  <2>6. Line!End({s})
    BY <2>1, <2>2, <2>3 DEF Line!End, Revoked, Redemptions
  <2> QED
    BY <2>5, <2>6 DEF Line!Next
<1> QED
  BY <1>0, <1>7, <1>8 DEF CallShape

\* A rotation takes effect at one moment, on the newest credential and for one
\* call: SessionSecurity implements RefreshFamily (rotate).
THEOREM ImplementsRefreshFamily == Spec => FamilyIsLinear
<1>1. Init => IInv /\ RedeemInv /\ Line!Init
  BY InitIInv, InitRedeem DEF Init, Line!Init, Redeemers
<1>2. IInv /\ RedeemInv /\ [Next]_vars => RedeemInv' /\ [Line!Next]_(Line!vars)
  <2> SUFFICES ASSUME IInv, RedeemInv, [Next]_vars
               PROVE  RedeemInv' /\ [Line!Next]_(Line!vars)
    OBVIOUS
  <2>1. CASE UNCHANGED <<session, last, used, rotation>>
    BY <2>1 DEF RedeemInv, Redeemers, Line!vars
  <2> QED
    BY <2>1, RowActionIsAStep, StatementIsQuiet, CommitIsAStep
       DEF Next, Progress, RowAction, Tick, vars
<1> QED
  BY <1>1, <1>2, NextIInv, PTL DEF Spec, FamilyIsLinear, Line!Spec
=============================================================================
