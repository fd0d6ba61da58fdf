--------------------------- MODULE RateLimitProofs ---------------------------
(***************************************************************************)
(* Theorems about RateLimit, for any number of calls, accounts and         *)
(* sources and any budgets.  The argument: a row that a call has locked is *)
(* the row it has selected until the call ends, so a call that found one   *)
(* adds one to its count; only a call that found none starts it again.     *)
(***************************************************************************)
EXTENDS RateLimit, FiniteSetTheorems, TLAPS

IsOpen(r) == r.pc \in {"read", "write", "commit"}
KeyIn(r) == IF r.dimension = "account" THEN r.account ELSE r.source
WroteIn(r) == {k \in Key : r.wrote[k].exists}

\* What a call has locked, written and answered at each place.
PlaceShape(r) ==
  /\ r.pc = "idle" => r.account = None /\ r.source = None /\ r.blind = {}
  /\ r.pc = "idle" => /\ r.held = {} /\ WroteIn(r) = {} /\ r.dimension = "account"
                      /\ r.answer = "none"
  /\ IsOpen(r) => /\ r.account \in Account /\ r.source \in Source
                  /\ r.held \subseteq {r.account, r.source}
                  /\ WroteIn(r) \subseteq r.held
  /\ IsOpen(r) /\ r.dimension = "account" =>
       /\ r.pc # "commit" /\ WroteIn(r) = {} /\ r.answer = "none"
       /\ r.source \notin r.held \cup r.blind
  /\ r.pc = "read" => KeyIn(r) \notin r.held \cup r.blind
  /\ r.pc = "write" => KeyIn(r) \notin WroteIn(r)
  /\ IsOpen(r) /\ r.dimension = "source" /\ r.answer = "none" =>
       r.account \in WroteIn(r) /\ r.wrote[r.account].until = 0
  /\ r.pc = "commit" /\ r.answer = "none" =>
       r.source \in WroteIn(r) /\ r.wrote[r.source].until = 0

\* What a call has selected and written of a row: it found none, or holds the
\* lock of the one it found.
Counted(r, k, old) ==
  \/ k \in r.blind /\ old = NoRow
  \/ k \in r.held \ r.blind /\ old = row[k] /\ row[k].exists /\ row[k].until <= r.now

ValueShape(r) ==
  /\ r.pc = "write" => Counted(r, KeyIn(r), r.seen)
  /\ IsOpen(r) => \A k \in WroteIn(r) :
       \E old \in Row : Counted(r, k, old) /\ r.wrote[k] = Charged(old, r.now, Budget(k))

\* What a call that ended has left.
EndShape(r) ==
  r.pc = "done" =>
    /\ r.answer \in {"allowed", "limited"}
    /\ WroteIn(r) \subseteq {r.account, r.source}
    /\ \A k \in WroteIn(r) : row[k].exists
    /\ r.answer = "allowed" => /\ r.account \in Account /\ r.source \in Source
                               /\ WroteIn(r) = {r.account, r.source}

CallShape(r) == PlaceShape(r) /\ ValueShape(r) /\ EndShape(r)

LocksExclusive ==
  \A c, d \in Call : Open(c) /\ Open(d) /\ c # d => call[c].held \cap call[d].held = {}

\* Who was charged for a key, who of them had found no row.
Committed(k) == {c \in Call : Done(c) /\ k \in Wrote(c)}
Blind(k) == {c \in Call : k \in call[c].blind}
Overwritten(k) == Committed(k) \cap Blind(k)

CountShape(k) ==
  /\ IsFiniteSet(Committed(k)) /\ IsFiniteSet(Blind(k))
  /\ row[k].attempts <= Cardinality(Committed(k))
  /\ row[k].until # 0 => row[k].attempts > Budget(k)
  /\ row[k].exists => /\ \E c \in Calls(k) : row[k].start = call[c].now
                      /\ row[k].until # 0 => \E c \in Calls(k) : row[k].until = call[c].now + Lock
  /\ ~row[k].exists => row[k] = NoRow

\* All calls of a key within one window.
Within(k) == \A c, d \in Calls(k) : call[c].now < call[d].now + Window

\* Since the count was started last, no more calls were allowed than counted.
AllowedShape(k) ==
  Within(k) /\ row[k].exists =>
    /\ Cardinality(Allowed(k)) <= Budget(k) * Cardinality(Overwritten(k))
    /\ Cardinality(Allowed(k)) + Budget(k)
         <= Budget(k) * Cardinality(Overwritten(k)) + row[k].attempts

Rest ==
  /\ \A c \in Call : CallShape(call[c])
  /\ LocksExclusive
  /\ \A k \in Key : CountShape(k) /\ AllowedShape(k)

IInv == TypeOK /\ Rest
-----------------------------------------------------------------------------
(* Lemmas *)

\* The row that is written for the one that was selected.
LEMMA ChargedRow ==
  ASSUME NEW o \in Row, NEW now \in Nat, NEW budget \in Nat \ {0}
  PROVE  /\ Charged(o, now, budget) \in Row /\ Charged(o, now, budget).exists
         /\ Charged(o, now, budget).attempts = IF Fresh(o, now) THEN 1 ELSE o.attempts + 1
         /\ Charged(o, now, budget).start = IF Fresh(o, now) THEN now ELSE o.start
         /\ Charged(o, now, budget).until \in {0, now + Lock}
         /\ Charged(o, now, budget).until # 0 <=> Charged(o, now, budget).attempts > budget
BY ParameterAssumption DEF Charged, Row

\* No row is a row whose count starts again.
LEMMA NoRowIsFresh == NoRow \in Row /\ \A now \in Nat : Fresh(NoRow, now)
BY DEF NoRow, Row, Fresh

\* Every key has a positive budget.
LEMMA BudgetIsPositive == \A k \in Key : Budget(k) \in Nat \ {0}
BY ParameterAssumption DEF Budget

\* The initial state satisfies the invariant.
LEMMA InitIInv == Init => IInv
<1> SUFFICES ASSUME Init PROVE IInv
  OBVIOUS
<1> USE ParameterAssumption
<1>1. NoRow \in Row /\ NoWrites \in [Key -> Row]
  BY DEF NoRow, Row, NoWrites
<1>2. TypeOK
  BY <1>1 DEF Init, TypeOK, Consume, CallPc
<1>3. \A c \in Call : CallShape(call[c])
  BY DEF Init, CallShape, PlaceShape, ValueShape, EndShape, IsOpen, KeyIn, WroteIn, NoWrites, NoRow
<1>4. LocksExclusive
  BY DEF Init, LocksExclusive, Open
<1>5. ASSUME NEW k \in Key PROVE CountShape(k) /\ AllowedShape(k)
  <2>1. row[k] = NoRow /\ ~row[k].exists /\ row[k].attempts = 0 /\ row[k].until = 0
    BY DEF Init, NoRow
  <2>2. Committed(k) = {} /\ Blind(k) = {}
    BY DEF Init, Committed, Blind, Done
  <2>3. Cardinality(Committed(k)) = 0 /\ IsFiniteSet(Committed(k)) /\ IsFiniteSet(Blind(k))
    BY <2>2, FS_EmptySet
  <2> QED
    BY <2>1, <2>3 DEF CountShape, AllowedShape
<1> QED
  BY <1>2, <1>3, <1>4, <1>5 DEF IInv, Rest

\* An allowed call was charged, so it counts among the committed ones.
LEMMA AllowedAreCommitted ==
  ASSUME IInv, NEW k \in Key
  PROVE  /\ Allowed(k) \subseteq Committed(k)
         /\ IsFiniteSet(Allowed(k)) /\ IsFiniteSet(Overwritten(k))
         /\ Cardinality(Allowed(k)) \in Nat /\ Cardinality(Committed(k)) \in Nat
         /\ Cardinality(Blind(k)) \in Nat
         /\ Cardinality(Overwritten(k)) \in Nat
         /\ Cardinality(Overwritten(k)) <= Cardinality(Blind(k))
<1>1. IsFiniteSet(Committed(k)) /\ IsFiniteSet(Blind(k))
  BY DEF IInv, Rest, CountShape
<1>2. Allowed(k) \subseteq Committed(k)
  BY DEF IInv, Rest, CallShape, EndShape, Allowed, Committed, Done, Keys, Wrote, WroteIn
<1>3. Overwritten(k) \subseteq Blind(k) /\ Overwritten(k) \subseteq Committed(k)
  BY DEF Overwritten
<1> QED
  BY <1>1, <1>2, <1>3, FS_Subset, FS_CardinalityType

\* A step of a call that commits nothing: a is its new record.
LEMMA QuietStep ==
  ASSUME IInv, NEW c \in Call, NEW a \in Consume, call' = [call EXCEPT ![c] = a],
         UNCHANGED <<clock, row>>, CallShape(a), call[c].pc # "done", a.pc # "idle",
         a.pc = "done" => WroteIn(a) = {} /\ a.answer = "limited",
         \/ call[c].pc = "idle"
         \/ a.account = call[c].account /\ a.source = call[c].source /\ a.now = call[c].now,
         call[c].blind \subseteq a.blind,
         IsOpen(a) => \A k \in a.held : (Open(c) /\ k \in call[c].held) \/ Free(k, c)
  PROVE  IInv'
<1> USE DEF IInv, Rest
<1>1. /\ call'[c] = a /\ \A d \in Call : d # c => call'[d] = call[d]
      /\ row' = row /\ clock' = clock
  BY DEF TypeOK
<1>2. TypeOK'
  BY <1>1 DEF TypeOK
<1>3. (\A d \in Call : CallShape(call[d]))'
  <2>1. ASSUME NEW d \in Call, d # c PROVE CallShape(call[d])'
    <3>1. CallShape(call[d])
      OBVIOUS
    <3> QED
      BY <1>1, <2>1, <3>1 DEF CallShape, PlaceShape, ValueShape, EndShape, Counted
  <2>2. CallShape(call[c])'
    BY <1>1 DEF CallShape, PlaceShape, ValueShape, EndShape, Counted
  <2> QED
    BY <2>1, <2>2
<1>4. LocksExclusive'
  <2>1. \A d \in Call : d # c => (Open(d)' <=> Open(d))
    BY <1>1 DEF Open
  <2>2. Open(c)' => IsOpen(a)
    BY <1>1 DEF Open, IsOpen
  <2>3. ASSUME NEW d \in Call, d # c, Open(d), IsOpen(a) PROVE call[d].held \cap a.held = {}
    BY <2>3 DEF LocksExclusive, Free
  <2> QED
    BY <1>1, <2>1, <2>2, <2>3 DEF LocksExclusive
<1>5. ASSUME NEW k \in Key PROVE CountShape(k)' /\ AllowedShape(k)'
  <2>1. Committed(k)' = Committed(k) /\ Allowed(k)' = Allowed(k) /\ c \notin Committed(k)
    <3>1. a.pc = "done" => k \notin WroteIn(a)
      OBVIOUS
    <3>2. c \notin Committed(k) /\ c \notin Committed(k)'
      BY <1>1, <3>1 DEF Committed, Done, Wrote, WroteIn
    <3>3. c \notin Allowed(k) /\ c \notin Allowed(k)'
      BY <1>1 DEF Allowed, Done
    <3>4. \A d \in Call : d # c => /\ d \in Committed(k)' <=> d \in Committed(k)
                                   /\ d \in Allowed(k)' <=> d \in Allowed(k)
      BY <1>1 DEF Committed, Allowed, Done, Wrote, Keys
    <3>5. /\ Committed(k) \subseteq Call /\ Committed(k)' \subseteq Call
          /\ Allowed(k) \subseteq Call /\ Allowed(k)' \subseteq Call
      BY DEF Committed, Allowed
    <3> QED
      BY <3>2, <3>3, <3>4, <3>5
  <2>2. Blind(k)' = Blind(k) \/ Blind(k)' = Blind(k) \cup {c}
    BY <1>1 DEF Blind
  <2>3. IsFiniteSet(Blind(k)')
    <3>1. IsFiniteSet(Blind(k))
      BY DEF CountShape
    <3>2. IsFiniteSet(Blind(k) \cup {c})
      BY <3>1, FS_AddElement
    <3> QED
      BY <2>2, <3>1, <3>2
  <2>4. Overwritten(k)' = Overwritten(k)
    BY <2>1, <2>2 DEF Overwritten
  <2>5. \A d \in Calls(k) : d \in Calls(k)' /\ call'[d].now = call[d].now
    <3>1. k # None
      BY ParameterAssumption DEF Key
    <3>2. call[c].pc = "idle" => c \notin Calls(k)
      BY <3>1 DEF CallShape, PlaceShape, Calls, Keys
    <3> QED
      BY <1>1, <3>2 DEF Calls, Keys
  <2>6. Within(k)' => Within(k)
    BY <2>5 DEF Within
  <2>7. CountShape(k)'
    BY <1>1, <2>1, <2>3, <2>5 DEF CountShape
  <2>8. AllowedShape(k)'
    BY <1>1, <2>1, <2>4, <2>6 DEF AllowedShape
  <2> QED
    BY <2>7, <2>8
<1> QED
  BY <1>2, <1>3, <1>4, <1>5

\* What was written stays counted while nothing else is locked or found missing.
LEMMA CountedKeeps ==
  ASSUME NEW r \in Consume, NEW a \in Consume, IsOpen(r), ValueShape(r), a.now = r.now,
         r.held \subseteq a.held,
         \A k \in WroteIn(r) : /\ k \in a.blind <=> k \in r.blind
                               /\ a.wrote[k] = r.wrote[k]
  PROVE  \A k \in WroteIn(r) :
           \E old \in Row : Counted(a, k, old) /\ a.wrote[k] = Charged(old, a.now, Budget(k))
BY DEF ValueShape, Counted

\* The records the steps make of the record of a call.
LEMMA Updates ==
  ASSUME NEW r \in Consume, NEW k \in Key, NEW pc \in CallPc,
         NEW answer \in {"none", "allowed", "limited"}, NEW new \in Row
  PROVE  /\ [r EXCEPT !.pc = pc, !.seen = new, !.blind = @ \cup {k}] \in Consume
         /\ [r EXCEPT !.pc = pc, !.seen = new, !.held = @ \cup {k}] \in Consume
         /\ [r EXCEPT !.pc = pc, !.dimension = "source", !.held = @ \cup {k},
                      !.answer = answer] \in Consume
         /\ [r EXCEPT !.pc = pc, !.dimension = "source", !.held = @ \cup {k},
                      !.wrote[k] = new, !.answer = answer] \in Consume
<1>1. [r.wrote EXCEPT ![k] = new] \in [Key -> Row]
  BY DEF Consume
<1> QED
  BY <1>1 DEF Consume

\* A call that begins or ends is a well typed record.
LEMMA EndUpdates ==
  ASSUME NEW r \in Consume, NEW answer \in {"none", "allowed", "limited"}
  PROVE  /\ \A x \in Account, y \in Source, now \in Nat :
              [r EXCEPT !.pc = "read", !.account = x, !.source = y, !.now = now] \in Consume
         /\ [r EXCEPT !.pc = "done", !.answer = answer] \in Consume
         /\ [r EXCEPT !.pc = "done", !.wrote = NoWrites, !.answer = answer] \in Consume
<1>1. NoWrites \in [Key -> Row]
  BY NoRowIsFresh DEF NoWrites
<1> QED
  BY <1>1 DEF Consume, CallPc

\* Beginning a call keeps the invariant.
LEMMA BeginStep == ASSUME IInv, NEW c \in Call, Begin(c) PROVE IInv'
<1> USE DEF IInv, Rest
<1>1. PICK x \in Account, y \in Source :
        call' = [call EXCEPT ![c] = [@ EXCEPT !.pc = "read", !.account = x,
                                              !.source = y, !.now = clock]]
  BY DEF Begin
<1> DEFINE r == call[c]
           a == [r EXCEPT !.pc = "read", !.account = x, !.source = y, !.now = clock]
<1>2. r \in Consume /\ PlaceShape(r) /\ r.pc = "idle" /\ clock \in Nat
  BY ParameterAssumption DEF TypeOK, Begin, CallShape
<1>3. /\ a \in Consume
      /\ a.pc = "read" /\ a.account = x /\ a.source = y /\ a.held = r.held
      /\ a.blind = r.blind /\ a.dimension = r.dimension /\ a.answer = r.answer
      /\ a.wrote = r.wrote
  <2>1. a \in Consume
    BY <1>2, EndUpdates
  <2> QED
    BY <1>2, <2>1 DEF Consume
<1>4. call' = [call EXCEPT ![c] = a]
  BY <1>1
<1> HIDE DEF a
<1>5. CallShape(a)
  BY <1>2, <1>3 DEF CallShape, PlaceShape, ValueShape, EndShape, IsOpen, KeyIn, WroteIn
<1>6. a.held = {}
  BY <1>2, <1>3 DEF PlaceShape
<1> QED
  BY <1>2, <1>3, <1>4, <1>5, <1>6, QuietStep DEF Begin

\* A failure keeps the invariant: the transaction leaves nothing.
LEMMA FailStep == ASSUME IInv, NEW c \in Call, Fail(c) PROVE IInv'
<1> USE DEF IInv, Rest
<1> DEFINE r == call[c]
           a == [r EXCEPT !.pc = "done", !.wrote = NoWrites, !.answer = "limited"]
<1>1. r \in Consume /\ r.pc # "done" /\ UNCHANGED <<clock, row>>
  BY DEF TypeOK, Fail, Open
<1>2. NoRow \in Row
  BY NoRowIsFresh
<1>3. /\ a \in Consume
      /\ a.pc = "done" /\ a.answer = "limited" /\ a.wrote = NoWrites
      /\ a.account = r.account /\ a.source = r.source /\ a.now = r.now /\ a.blind = r.blind
  <2>1. a \in Consume
    BY <1>1, EndUpdates
  <2> QED
    BY <1>1, <1>2, <2>1 DEF Consume
<1>4. call' = [call EXCEPT ![c] = a]
  BY DEF Fail, FailureAnswer
<1> HIDE DEF a
<1>5. WroteIn(a) = {}
  BY <1>3 DEF WroteIn, NoWrites, NoRow
<1>6. CallShape(a) /\ ~IsOpen(a)
  BY <1>3, <1>5 DEF CallShape, PlaceShape, ValueShape, EndShape, IsOpen
<1> QED
  BY <1>1, <1>3, <1>4, <1>5, <1>6, QuietStep

\* SELECT ... FOR UPDATE: no row, a locked out key, or the row.
LEMMA ReadStep == ASSUME IInv, NEW c \in Call, Read(c) PROVE IInv'
<1> USE DEF IInv, Rest
<1> DEFINE r == call[c]
<1>1. /\ r \in Consume /\ CallShape(r) /\ r.pc = "read" /\ IsOpen(r) /\ KeyOf(c) = KeyIn(r)
      /\ UNCHANGED <<clock, row>> /\ Open(c)
  BY DEF TypeOK, Read, IsOpen, Open, KeyOf, KeyIn
<1>p. PICK k \in Key : k = KeyIn(r)
  BY <1>1 DEF CallShape, PlaceShape, KeyIn, Key
<1>r. PICK o \in Row : o = row[k]
  BY DEF TypeOK
<1>2. /\ r.account \in Account /\ r.source \in Source /\ r.account # r.source
      /\ WroteIn(r) \subseteq r.held /\ r.held \subseteq {r.account, r.source}
      /\ k \notin r.held \cup r.blind
      /\ k = IF r.dimension = "account" THEN r.account ELSE r.source
      /\ NextPc(c) = (IF r.dimension = "account" THEN "read" ELSE "commit")
  BY <1>1, <1>p, ParameterAssumption DEF CallShape, PlaceShape, NextPc, KeyIn
<1> HIDE DEF r
<1>3. CASE ~row[k].exists /\ call' = [call EXCEPT ![c] = [call[c] EXCEPT !.pc = "write", !.seen = NoRow,
                                                                         !.blind = @ \cup {k}]]
  <2> DEFINE a == [r EXCEPT !.pc = "write", !.seen = NoRow, !.blind = @ \cup {k}]
  <2>1. /\ a \in Consume
        /\ a.pc = "write" /\ a.seen = NoRow /\ a.blind = r.blind \cup {k}
        /\ a.account = r.account /\ a.source = r.source /\ a.now = r.now /\ a.held = r.held
        /\ a.dimension = r.dimension /\ a.answer = r.answer /\ a.wrote = r.wrote
    <3>1. a \in Consume
      BY <1>1, NoRowIsFresh, Updates DEF CallPc
    <3> QED
      BY <1>1, NoRowIsFresh, <3>1 DEF Consume
  <2>2. call' = [call EXCEPT ![c] = a]
    BY <1>3 DEF r
  <2> HIDE DEF a
  <2>3. WroteIn(a) = WroteIn(r) /\ KeyIn(a) = k /\ IsOpen(a)
    BY <1>p, <2>1 DEF WroteIn, KeyIn, IsOpen
  <2>4. PlaceShape(a) /\ EndShape(a)
    BY <1>1, <1>2, <2>1, <2>3 DEF CallShape, PlaceShape, EndShape
  <2>5. ValueShape(a)
    <3>1. Counted(a, k, NoRow)
      BY <2>1 DEF Counted
    <3>2. \A x \in WroteIn(r) :
            \E old \in Row : Counted(a, x, old) /\ a.wrote[x] = Charged(old, a.now, Budget(x))
      BY <1>1, <1>2, <2>1, CountedKeeps DEF CallShape
    <3> QED
      BY <2>1, <2>3, <3>1, <3>2 DEF ValueShape
  <2> QED
    BY <1>1, <2>1, <2>2, <2>3, <2>4, <2>5, QuietStep DEF CallShape, r
<1>4. CASE /\ Free(k, c)
           /\ call' = [call EXCEPT ![c] = [call[c] EXCEPT !.pc = NextPc(c), !.dimension = "source",
                                                          !.held = @ \cup {k}, !.answer = "limited"]]
  <2> DEFINE a == [r EXCEPT !.pc = NextPc(c), !.dimension = "source", !.held = @ \cup {k},
                            !.answer = "limited"]
  <2>0. NextPc(c) \in CallPc
    BY DEF NextPc, CallPc
  <2>1. /\ a \in Consume
        /\ a.pc = NextPc(c) /\ a.dimension = "source" /\ a.held = r.held \cup {k}
        /\ a.account = r.account /\ a.source = r.source /\ a.now = r.now /\ a.blind = r.blind
        /\ a.answer = "limited" /\ a.wrote = r.wrote
    <3>1. a \in Consume
      BY <1>1, <1>r, <2>0, Updates
    <3> QED
      BY <1>1, <1>r, <2>0, <3>1 DEF Consume
  <2>2. call' = [call EXCEPT ![c] = a]
    BY <1>4 DEF r
  <2> HIDE DEF a
  <2>3. WroteIn(a) = WroteIn(r) /\ KeyIn(a) = r.source /\ IsOpen(a)
    BY <1>2, <2>1 DEF WroteIn, KeyIn, IsOpen
  <2>4. PlaceShape(a) /\ EndShape(a)
    BY <1>1, <1>2, <2>1, <2>3 DEF CallShape, PlaceShape, EndShape
  <2>5. ValueShape(a)
    <3>1. \A x \in WroteIn(r) :
            \E old \in Row : Counted(a, x, old) /\ a.wrote[x] = Charged(old, a.now, Budget(x))
      BY <1>1, <1>2, <2>1, CountedKeeps DEF CallShape
    <3> QED
      BY <1>2, <2>1, <2>3, <3>1 DEF ValueShape
  <2>6. a.pc # "idle" /\ a.pc # "done"
    BY <1>2, <2>1
  <2>7. \A x \in a.held : x \in r.held \/ Free(x, c)
    BY <1>4, <2>1
  <2> QED
    BY <1>1, <2>1, <2>2, <2>4, <2>5, <2>6, <2>7, QuietStep DEF CallShape, r
<1>5. CASE /\ row[k].exists /\ row[k].until <= call[c].now /\ Free(k, c)
           /\ call' = [call EXCEPT ![c] = [call[c] EXCEPT !.pc = "write", !.seen = row[k],
                                                          !.held = @ \cup {k}]]
  <2> DEFINE a == [r EXCEPT !.pc = "write", !.seen = o, !.held = @ \cup {k}]
  <2>1. /\ a \in Consume
        /\ a.pc = "write" /\ a.seen = o /\ a.blind = r.blind
        /\ a.account = r.account /\ a.source = r.source /\ a.now = r.now
        /\ a.held = r.held \cup {k}
        /\ a.dimension = r.dimension /\ a.answer = r.answer /\ a.wrote = r.wrote
    <3>1. a \in Consume
      BY <1>1, Updates DEF CallPc
    <3> QED
      BY <1>1, <3>1 DEF Consume
  <2>2. call' = [call EXCEPT ![c] = a] /\ row[k].until <= a.now
    BY <1>5, <1>r, <2>1 DEF r
  <2> HIDE DEF a
  <2>3. WroteIn(a) = WroteIn(r) /\ KeyIn(a) = k /\ IsOpen(a)
    BY <1>p, <2>1 DEF WroteIn, KeyIn, IsOpen
  <2>4. PlaceShape(a) /\ EndShape(a)
    BY <1>1, <1>2, <2>1, <2>3 DEF CallShape, PlaceShape, EndShape
  <2>5. ValueShape(a)
    <3>1. Counted(a, k, o)
      BY <1>2, <1>5, <1>r, <2>1, <2>2 DEF Counted
    <3>2. \A x \in WroteIn(r) :
            \E old \in Row : Counted(a, x, old) /\ a.wrote[x] = Charged(old, a.now, Budget(x))
      BY <1>1, <1>2, <2>1, CountedKeeps DEF CallShape
    <3> QED
      BY <2>1, <2>3, <3>1, <3>2 DEF ValueShape
  <2> QED
    BY <1>1, <1>5, <2>1, <2>2, <2>3, <2>4, <2>5, QuietStep DEF CallShape, r
<1> QED
  BY <1>1, <1>3, <1>4, <1>5, <1>p DEF Read

\* The upsert: what was selected, with this call.
LEMMA WriteStep == ASSUME IInv, NEW c \in Call, Write(c) PROVE IInv'
<1> USE DEF IInv, Rest
<1> DEFINE r == call[c]
<1>1. /\ r \in Consume /\ CallShape(r) /\ r.pc = "write" /\ IsOpen(r) /\ KeyOf(c) = KeyIn(r)
      /\ UNCHANGED <<clock, row>> /\ Open(c)
  BY DEF TypeOK, Write, IsOpen, Open, KeyOf, KeyIn
<1>p. PICK k \in Key : k = KeyIn(r)
  BY <1>1 DEF CallShape, PlaceShape, KeyIn, Key
<1>n. PICK new \in Row : new = Charged(r.seen, r.now, Budget(k)) /\ new.exists
  BY <1>1, ChargedRow, BudgetIsPositive DEF Consume
<1> DEFINE answer == IF new.until # 0 THEN "limited" ELSE r.answer
           a == [r EXCEPT !.pc = NextPc(c), !.dimension = "source", !.held = @ \cup {k},
                          !.wrote[k] = new, !.answer = answer]
<1>2. /\ r.account \in Account /\ r.source \in Source /\ r.account # r.source
      /\ WroteIn(r) \subseteq r.held /\ r.held \subseteq {r.account, r.source}
      /\ k \notin WroteIn(r)
      /\ k = IF r.dimension = "account" THEN r.account ELSE r.source
      /\ NextPc(c) = (IF r.dimension = "account" THEN "read" ELSE "commit")
      /\ Free(k, c)
  BY <1>1, <1>p, ParameterAssumption DEF CallShape, PlaceShape, NextPc, KeyIn, Write
<1>3. call' = [call EXCEPT ![c] = a]
  BY <1>1, <1>p, <1>n DEF Write
<1>4. answer \in {"none", "allowed", "limited"} /\ NextPc(c) \in CallPc
  BY <1>1 DEF Consume, NextPc, CallPc
<1>5. /\ a \in Consume
      /\ a.pc = NextPc(c) /\ a.dimension = "source" /\ a.held = r.held \cup {k}
      /\ a.account = r.account /\ a.source = r.source /\ a.now = r.now /\ a.blind = r.blind
      /\ a.answer = answer /\ a.wrote = [r.wrote EXCEPT ![k] = new]
  <2>1. a \in Consume
    BY <1>1, <1>4, Updates
  <2> QED
    BY <1>1, <1>4, <2>1 DEF Consume
<1> HIDE DEF a, r
<1>6. /\ a.wrote[k] = new /\ \A x \in Key : x # k => a.wrote[x] = r.wrote[x]
      /\ WroteIn(a) = WroteIn(r) \cup {k} /\ IsOpen(a) /\ KeyIn(a) = r.source
  BY <1>1, <1>2, <1>5, <1>n DEF Consume, WroteIn, IsOpen, KeyIn
<1>7. EndShape(a)
  BY <1>2, <1>5 DEF EndShape
<1>8. PlaceShape(a)
  <2>1. answer = "none" => new.until = 0 /\ r.answer = "none"
    OBVIOUS
  <2> HIDE DEF answer
  <2>2. PlaceShape(r)
    BY <1>1 DEF CallShape
  <2>3. CASE r.dimension = "account"
    BY <1>1, <1>2, <1>5, <1>6, <2>1, <2>2, <2>3 DEF PlaceShape
  <2>4. CASE r.dimension # "account"
    <3>1. r.dimension = "source" /\ k = r.source /\ a.pc = "commit"
      BY <1>1, <1>2, <1>5, <2>4 DEF Consume
    <3> QED
      BY <1>1, <1>2, <1>5, <1>6, <2>1, <2>2, <3>1 DEF PlaceShape
  <2> QED
    BY <2>3, <2>4
<1>9. ValueShape(a)
  <2>1. \A x \in WroteIn(r) :
          \E old \in Row : Counted(a, x, old) /\ a.wrote[x] = Charged(old, a.now, Budget(x))
    <3>1. \A x \in WroteIn(r) : (x \in a.blind <=> x \in r.blind) /\ a.wrote[x] = r.wrote[x]
      BY <1>2, <1>5, <1>6 DEF WroteIn
    <3> QED
      BY <1>1, <1>5, <3>1, CountedKeeps DEF CallShape
  <2>2. Counted(r, k, r.seen) /\ r.seen \in Row
    BY <1>1, <1>p DEF CallShape, ValueShape, Consume
  <2>3. Counted(a, k, r.seen)
    BY <1>5, <2>2 DEF Counted
  <2> QED
    BY <1>2, <1>5, <1>6, <1>n, <2>1, <2>2, <2>3 DEF ValueShape
<1> QED
  BY <1>1, <1>2, <1>3, <1>5, <1>6, <1>7, <1>8, <1>9, QuietStep DEF CallShape, r

\* Within one window neither the window nor a lockout of a row is over for a call
\* of its key.
LEMMA NotFresh ==
  ASSUME IInv, NEW k \in Key, Within(k), row[k].exists, NEW c \in Calls(k)
  PROVE  ~Fresh(row[k], call[c].now)
<1>1. /\ \A d \in Calls(k) : call[d].now \in Nat
      /\ Window \in Nat /\ Lock \in Nat /\ Window <= Lock
  BY ParameterAssumption DEF IInv, TypeOK, Calls, Consume
<1>2. PICK d \in Calls(k) : row[k].start = call[d].now
  BY DEF IInv, Rest, CountShape
<1>3. ~(call[c].now >= row[k].start + Window)
  BY <1>1, <1>2 DEF Within
<1>4. ~(row[k].until # 0 /\ row[k].until <= call[c].now)
  <2> SUFFICES ASSUME row[k].until # 0 PROVE ~(row[k].until <= call[c].now)
    OBVIOUS
  <2>1. PICK e \in Calls(k) : row[k].until = call[e].now + Lock
    BY DEF IInv, Rest, CountShape
  <2> QED
    BY <1>1, <2>1 DEF Within
<1> QED
  BY <1>3, <1>4 DEF Fresh

\* One more in a set that does not have it.
LEMMA OneMore ==
  ASSUME NEW S, NEW T, NEW x, IsFiniteSet(S), x \notin S, T = S \cup {x}
  PROVE  IsFiniteSet(T) /\ Cardinality(T) = Cardinality(S) + 1 /\ Cardinality(S) \in Nat
BY FS_AddElement, FS_CardinalityType

\* COMMIT: the rows written, and one more charge for each of their keys.
LEMMA CommitStep == ASSUME IInv, NEW c \in Call, Commit(c) PROVE IInv'
<1> USE DEF IInv, Rest
<1> DEFINE r == call[c]
<1>1. PICK reply \in {"limited", IF r.answer = "none" THEN "allowed" ELSE "limited"} :
        call' = [call EXCEPT ![c] = [@ EXCEPT !.pc = "done", !.answer = reply]]
  BY DEF Commit
<1>2. /\ r \in Consume /\ CallShape(r) /\ r.pc = "commit" /\ IsOpen(r) /\ Open(c) /\ clock' = clock
      /\ row \in [Key -> Row] /\ call \in [Call -> Consume]
      /\ r.now \in Nat /\ r.wrote \in [Key -> Row]
  BY DEF TypeOK, Commit, IsOpen, Open, Consume
<1> DEFINE a == [r EXCEPT !.pc = "done", !.answer = reply]
           W == WroteIn(r)
<1>3. /\ a \in Consume
      /\ a.pc = "done" /\ a.answer = reply /\ a.account = r.account /\ a.source = r.source
      /\ a.now = r.now /\ a.held = r.held /\ a.blind = r.blind /\ a.wrote = r.wrote
      /\ a.dimension = r.dimension
  <2>1. a \in Consume
    BY <1>2, EndUpdates
  <2> QED
    BY <1>2, <2>1 DEF Consume
<1>4. call' = [call EXCEPT ![c] = a] /\ row' = [k \in Key |-> IF k \in W THEN r.wrote[k] ELSE row[k]]
  BY <1>1 DEF Commit, Wrote, WroteIn
<1> HIDE DEF a, r, W
<1>5. /\ call'[c] = a /\ \A d \in Call : d # c => call'[d] = call[d]
      /\ \A k \in Key : row'[k] = IF k \in W THEN r.wrote[k] ELSE row[k]
      /\ r = call[c]
  BY <1>2, <1>4 DEF r
<1>6. /\ r.account \in Account /\ r.source \in Source /\ r.account # r.source
      /\ W \subseteq r.held /\ W \subseteq {r.account, r.source} /\ W \subseteq Key
      /\ WroteIn(a) = W
  BY <1>2, <1>3, ParameterAssumption DEF CallShape, PlaceShape, W, WroteIn
<1>7. /\ reply \in {"allowed", "limited"}
      /\ reply = "allowed" => /\ W = {r.account, r.source}
                              /\ \A k \in W : r.wrote[k].until = 0
  <2>1. reply = "allowed" => r.answer = "none"
    OBVIOUS
  <2>2. r.answer = "none" => /\ r.source \in W /\ r.wrote[r.source].until = 0
                             /\ r.account \in W /\ r.wrote[r.account].until = 0
    BY <1>2 DEF CallShape, PlaceShape, W, Consume
  <2> QED
    BY <1>6, <2>1, <2>2
<1>8. \A k \in W : \E old \in Row : Counted(r, k, old) /\ r.wrote[k] = Charged(old, r.now, Budget(k))
  BY <1>2 DEF CallShape, ValueShape, W
<1>9. \A k \in W : r.wrote[k] \in Row /\ r.wrote[k].exists
  BY <1>2, <1>6 DEF W, WroteIn
<1>10. TypeOK'
  <2>1. row' \in [Key -> Row]
    BY <1>2, <1>4, <1>9
  <2> QED
    BY <1>2, <1>3, <1>4, <2>1 DEF TypeOK
<1>11. (\A d \in Call : CallShape(call[d]))'
  <2>1. ASSUME NEW d \in Call, d # c PROVE CallShape(call[d])'
    <3>1. CallShape(call[d]) /\ call'[d] = call[d] /\ call[d] \in Consume
      BY <1>2, <1>5, <2>1
    <3>2. IsOpen(call[d]) => call[d].held \cap W = {}
      BY <1>2, <1>5, <1>6, <2>1 DEF LocksExclusive, Open, IsOpen
    <3>3. \A k \in Key : \A old :
            IsOpen(call[d]) /\ Counted(call[d], k, old) => Counted(call[d], k, old)'
      BY <1>5, <3>1, <3>2 DEF Counted
    <3>4. PlaceShape(call[d])'
      BY <3>1 DEF CallShape, PlaceShape
    <3>5. EndShape(call[d])'
      <4>1. \A k \in Key : row[k].exists => row'[k].exists
        BY <1>5, <1>9
      <4>2. EndShape(call[d]) /\ WroteIn(call[d]) \subseteq Key
        BY <3>1 DEF CallShape, WroteIn
      <4> QED
        BY <3>1, <4>1, <4>2 DEF EndShape
    <3>6. ValueShape(call[d])'
      <4>1. ValueShape(call[d]) /\ WroteIn(call[d]) \subseteq Key
        BY <3>1 DEF CallShape, WroteIn
      <4>2. call[d].pc = "write" => KeyIn(call[d]) \in Key /\ IsOpen(call[d])
        BY <3>1 DEF CallShape, PlaceShape, KeyIn, Key, IsOpen
      <4>3. (call[d].pc = "write" => Counted(call[d], KeyIn(call[d]), call[d].seen))'
        BY <1>5, <3>1, <3>2, <4>1, <4>2 DEF ValueShape, Counted
      <4>4. (IsOpen(call[d]) => \A k \in WroteIn(call[d]) :
               \E old \in Row : /\ Counted(call[d], k, old)
                                /\ call[d].wrote[k] = Charged(old, call[d].now, Budget(k)))'
        BY <1>5, <3>1, <3>2, <4>1 DEF ValueShape, Counted
      <4> QED
        BY <4>3, <4>4 DEF ValueShape
    <3> QED
      BY <3>4, <3>5, <3>6 DEF CallShape
  <2>2. CallShape(call[c])'
    <3>1. PlaceShape(call[c])' /\ ValueShape(call[c])'
      BY <1>3, <1>5 DEF PlaceShape, ValueShape, IsOpen
    <3>2. EndShape(call[c])'
      BY <1>3, <1>5, <1>6, <1>7, <1>9 DEF EndShape
    <3> QED
      BY <3>1, <3>2 DEF CallShape
  <2> QED
    BY <2>1, <2>2
<1>12. LocksExclusive'
  BY <1>3, <1>5 DEF LocksExclusive, Open
<1>13. ASSUME NEW k \in Key PROVE CountShape(k)' /\ AllowedShape(k)'
  <2>1. /\ c \notin Committed(k) /\ c \notin Allowed(k)
        /\ Committed(k)' = IF k \in W THEN Committed(k) \cup {c} ELSE Committed(k)
        /\ Blind(k)' = Blind(k) /\ Calls(k)' = Calls(k)
    <3>1. c \notin Committed(k) /\ c \notin Allowed(k)
      BY <1>2, <1>5 DEF Committed, Allowed, Done
    <3>2. Blind(k)' = Blind(k) /\ Calls(k)' = Calls(k)
      BY <1>3, <1>5 DEF Blind, Calls, Keys
    <3>3. \A d \in Call : d # c => (d \in Committed(k)' <=> d \in Committed(k))
      BY <1>5 DEF Committed, Done, Wrote
    <3>4. c \in Committed(k)' <=> k \in W
      BY <1>3, <1>5, <1>6 DEF Committed, Done, Wrote, WroteIn
    <3>5. Committed(k) \subseteq Call /\ Committed(k)' \subseteq Call
      BY DEF Committed
    <3> QED
      BY <3>1, <3>2, <3>3, <3>4, <3>5
  <2>2. /\ Allowed(k)' = Allowed(k) \/ Allowed(k)' = Allowed(k) \cup {c}
        /\ Allowed(k)' # Allowed(k) => k \in W /\ r.wrote[k].until = 0
    <3>1. \A d \in Call : d # c => (d \in Allowed(k)' <=> d \in Allowed(k))
      BY <1>5 DEF Allowed, Done, Keys
    <3>2. c \in Allowed(k)' => k \in W /\ r.wrote[k].until = 0
      BY <1>3, <1>5, <1>7 DEF Allowed, Keys
    <3>3. Allowed(k) \subseteq Call /\ Allowed(k)' \subseteq Call
      BY DEF Allowed
    <3> QED
      BY <2>1, <3>1, <3>2, <3>3
  <2>3. \A d \in Calls(k) : call'[d].now = call[d].now
    BY <1>3, <1>5 DEF Calls
  <2>4. Within(k)' => Within(k)
    BY <2>1, <2>3 DEF Within
  <2>5. CountShape(k) /\ AllowedShape(k)
    OBVIOUS
  <2>6. CASE k \notin W
    <3>1. row'[k] = row[k] /\ Committed(k)' = Committed(k) /\ Allowed(k)' = Allowed(k)
          /\ Overwritten(k)' = Overwritten(k)
      BY <1>5, <2>1, <2>2, <2>6 DEF Overwritten
    <3>2. CountShape(k)'
      BY <2>1, <2>3, <2>5, <3>1 DEF CountShape
    <3>3. AllowedShape(k)'
      BY <2>4, <2>5, <3>1 DEF AllowedShape
    <3> QED
      BY <3>2, <3>3
  <2>7. CASE k \in W
    <3>1. PICK old \in Row : Counted(r, k, old) /\ r.wrote[k] = Charged(old, r.now, Budget(k))
      BY <1>8, <2>7
    <3>2. row'[k] = r.wrote[k]
      BY <1>5, <2>7
    <3>3. /\ row'[k].exists
          /\ row'[k].attempts = IF Fresh(old, r.now) THEN 1 ELSE old.attempts + 1
          /\ row'[k].start = IF Fresh(old, r.now) THEN r.now ELSE old.start
          /\ row'[k].until \in {0, r.now + Lock}
          /\ row'[k].until # 0 <=> row'[k].attempts > Budget(k)
          /\ Budget(k) \in Nat \ {0}
      <4>1. PICK budget \in Nat \ {0} : budget = Budget(k)
        BY BudgetIsPositive
      <4>2. PICK new \in Row : new = Charged(old, r.now, budget)
        BY <1>2, ChargedRow
      <4>3. /\ new.exists
            /\ new.attempts = IF Fresh(old, r.now) THEN 1 ELSE old.attempts + 1
            /\ new.start = IF Fresh(old, r.now) THEN r.now ELSE old.start
            /\ new.until \in {0, r.now + Lock}
            /\ new.until # 0 <=> new.attempts > budget
        BY <1>2, <4>2, ChargedRow
      <4>4. row'[k] = new
        BY <3>1, <3>2, <4>1, <4>2
      <4> QED
        BY <4>1, <4>3, <4>4
    <3>4. c \in Calls(k) /\ call[c].now = r.now
      BY <1>5, <1>6, <2>7 DEF Calls, Keys
    <3>5. /\ IsFiniteSet(Committed(k)') /\ Cardinality(Committed(k))' = Cardinality(Committed(k)) + 1
          /\ Cardinality(Committed(k)) \in Nat
      BY <2>1, <2>5, <2>7, OneMore DEF CountShape
    <3>6. ~Fresh(old, r.now) => old = row[k] /\ row[k].exists
      BY <1>2, <3>1, NoRowIsFresh DEF Counted
    <3>7. CountShape(k)'
      <4>1. (row[k].attempts <= Cardinality(Committed(k)))'
        <5>1. row[k].attempts <= Cardinality(Committed(k)) /\ row[k].attempts \in Nat
          BY <1>2, <2>5 DEF CountShape, Row
        <5>2. row'[k].attempts <= Cardinality(Committed(k)) + 1
          BY <3>3, <3>5, <3>6, <5>1
        <5> QED
          BY <3>5, <5>2
      <4>2. (\E d \in Calls(k) : row[k].start = call[d].now)'
        BY <2>1, <2>3, <2>5, <3>3, <3>4, <3>6 DEF CountShape
      <4>3. (row[k].until # 0 => \E d \in Calls(k) : row[k].until = call[d].now + Lock)'
        BY <2>1, <2>3, <3>3, <3>4
      <4>4. IsFiniteSet(Blind(k)')
        BY <2>1, <2>5 DEF CountShape
      <4> QED
        BY <3>3, <3>5, <4>1, <4>2, <4>3, <4>4 DEF CountShape
    <3>8. AllowedShape(k)'
      <4> SUFFICES ASSUME Within(k)
                   PROVE  /\ (Cardinality(Allowed(k)) <= Budget(k) * Cardinality(Overwritten(k)))'
                          /\ (Cardinality(Allowed(k)) + Budget(k)
                                <= Budget(k) * Cardinality(Overwritten(k)) + row[k].attempts)'
        BY <2>4 DEF AllowedShape
      <4> DEFINE A == Cardinality(Allowed(k))
                 B == Budget(k)
                 O == Cardinality(Overwritten(k))
      <4>0. /\ IsFiniteSet(Allowed(k)) /\ IsFiniteSet(Overwritten(k))
            /\ A \in Nat /\ O \in Nat /\ B \in Nat \ {0}
        BY <3>3, AllowedAreCommitted
      <4>1. A' = A \/ (A' = A + 1 /\ row'[k].attempts <= B)
        <5>1. CASE Allowed(k)' = Allowed(k)
          BY <5>1
        <5>2. CASE Allowed(k)' # Allowed(k)
          <6>1. A' = A + 1
            BY <2>1, <2>2, <4>0, <5>2, OneMore
          <6>2. row'[k].until = 0
            BY <2>2, <3>2, <5>2
          <6>3. row'[k].attempts \in Nat
            BY <1>10 DEF TypeOK, Row
          <6> QED
            BY <3>3, <6>1, <6>2, <6>3
        <5> QED
          BY <5>1, <5>2
      <4>2. CASE k \in r.blind
        <5>1. old = NoRow /\ Fresh(old, r.now)
          BY <1>2, <3>1, <4>2, NoRowIsFresh DEF Counted
        <5>2. O' = O + 1
          <6>1. c \in Blind(k) /\ c \notin Overwritten(k)
            BY <1>5, <2>1, <4>2 DEF Blind, Overwritten
          <6>2. Overwritten(k)' = Overwritten(k) \cup {c}
            BY <2>1, <2>7, <6>1 DEF Overwritten
          <6> QED
            BY <4>0, <6>1, <6>2, OneMore
        <5>3. A <= B * O /\ B * O \in Nat
          <6>1. CASE row[k].exists
            BY <2>5, <4>0, <6>1 DEF AllowedShape
          <6>2. CASE ~row[k].exists
            <7>1. Allowed(k) = {}
              BY <6>2 DEF Allowed, Done, CallShape, EndShape, Keys
            <7>2. A = 0
              BY <7>1, FS_EmptySet
            <7> QED
              BY <4>0, <7>2
          <6> QED
            BY <6>1, <6>2
        <5>4. row'[k].attempts = 1
          BY <3>3, <5>1
        <5>5. B * (O + 1) = B * O + B
          BY <4>0
        <5> HIDE DEF A, B, O
        <5>6. A' <= B * O' /\ A' + B <= B * O' + row'[k].attempts
          BY <4>0, <4>1, <5>2, <5>3, <5>4, <5>5
        <5> QED
          BY <5>6 DEF A, B, O
      <4>3. CASE k \notin r.blind
        <5>1. old = row[k] /\ row[k].exists
          BY <3>1, <4>3 DEF Counted
        <5>2. ~Fresh(old, r.now)
          BY <3>4, <5>1, NotFresh
        <5>3. O' = O
          <6>1. c \notin Blind(k)
            BY <1>5, <4>3 DEF Blind
          <6>2. Overwritten(k)' = Overwritten(k)
            BY <2>1, <6>1 DEF Overwritten
          <6> QED
            BY <6>2
        <5>4. A <= B * O /\ A + B <= B * O + row[k].attempts /\ B * O \in Nat
          BY <2>5, <4>0, <5>1 DEF AllowedShape
        <5>5. row'[k].attempts = row[k].attempts + 1 /\ row[k].attempts \in Nat
          BY <1>2, <3>3, <5>1, <5>2 DEF Row
        <5> HIDE DEF A, B, O
        <5>6. A' <= B * O /\ A' + B <= B * O + row'[k].attempts
          <6> DEFINE q == B * O
          <6>1. q \in Nat /\ A <= q /\ A + B <= q + row[k].attempts
            BY <5>4
          <6> HIDE DEF q
          <6>2. A' <= q /\ A' + B <= q + row'[k].attempts
            BY <4>0, <4>1, <5>5, <6>1
          <6> QED
            BY <6>2 DEF q
        <5> QED
          BY <5>3, <5>6 DEF A, B, O
      <4> QED
        BY <4>2, <4>3
    <3> QED
      BY <3>7, <3>8
  <2> QED
    BY <2>6, <2>7
<1> QED
  BY <1>10, <1>11, <1>12, <1>13

\* Nothing but the rows and the calls matters to the rest.
LEMMA RestKeeps == ASSUME Rest, UNCHANGED <<row, call>> PROVE Rest'
<1>1. \A c \in Call : CallShape(call[c])'
  BY DEF Rest, CallShape, PlaceShape, ValueShape, EndShape, Counted
<1>2. LocksExclusive'
  BY DEF Rest, LocksExclusive, Open
<1>3. ASSUME NEW k \in Key PROVE CountShape(k)' /\ AllowedShape(k)'
  <2>1. /\ Committed(k)' = Committed(k) /\ Blind(k)' = Blind(k) /\ Calls(k)' = Calls(k)
        /\ Allowed(k)' = Allowed(k)
    BY DEF Committed, Done, Wrote, Blind, Calls, Keys, Allowed
  <2>2. Overwritten(k)' = Overwritten(k) /\ (Within(k)' <=> Within(k))
    BY <2>1 DEF Overwritten, Within
  <2>3. CountShape(k) /\ AllowedShape(k)
    BY DEF Rest
  <2> QED
    BY <2>1, <2>2, <2>3 DEF CountShape, AllowedShape
<1> QED
  BY <1>1, <1>2, <1>3 DEF Rest

\* Time keeps the invariant, which refers to the clocks that calls have read.
LEMMA TickStep == ASSUME IInv, Tick PROVE IInv'
<1>1. row' = row /\ call' = call /\ clock' \in 0..MaxTime
  BY ParameterAssumption DEF Tick, IInv, TypeOK
<1>2. TypeOK'
  BY <1>1 DEF IInv, TypeOK
<1> QED
  BY <1>1, <1>2, RestKeeps DEF IInv

\* Every step keeps the invariant.
LEMMA NextIInv == ASSUME IInv, [Next]_vars PROVE IInv'
<1>1. CASE Tick
  BY <1>1, TickStep
<1>2. ASSUME NEW c \in Call, Begin(c) PROVE IInv'
  BY <1>2, BeginStep
<1>3. ASSUME NEW c \in Call, Read(c) PROVE IInv'
  BY <1>3, ReadStep
<1>4. ASSUME NEW c \in Call, Write(c) PROVE IInv'
  BY <1>4, WriteStep
<1>5. ASSUME NEW c \in Call, Commit(c) PROVE IInv'
  BY <1>5, CommitStep
<1>6. ASSUME NEW c \in Call, Fail(c) PROVE IInv'
  BY <1>6, FailStep
<1>7. CASE UNCHANGED vars
  <2>1. clock' = clock /\ row' = row /\ call' = call
    BY <1>7 DEF vars
  <2>2. TypeOK'
    BY <2>1 DEF IInv, TypeOK
  <2>3. Rest'
    BY <2>1, RestKeeps DEF IInv
  <2> QED
    BY <2>2, <2>3 DEF IInv
<1> QED
  BY <1>1, <1>2, <1>3, <1>4, <1>5, <1>6, <1>7 DEF Next, Progress

\* The invariant holds in every reachable state.
LEMMA InvariantHolds == Spec => []IInv
BY InitIInv, NextIInv, PTL DEF Spec
-----------------------------------------------------------------------------
(* Theorems *)

\* The types, and that an allowed call was charged to both its keys
\* (AllowedIsCharged), whatever failed on the way.
THEOREM AllowedWasCharged == Spec => []LimiterInv
<1>1. IInv => LimiterInv
  <2> SUFFICES ASSUME IInv, NEW c \in Call, Done(c), call[c].answer = "allowed"
               PROVE  Wrote(c) = Keys(c) /\ \A k \in Keys(c) : row[k].exists
    BY DEF LimiterInv, AllowedIsCharged, IInv
  <2>1. EndShape(call[c])
    BY DEF IInv, Rest, CallShape
  <2> QED
    BY <2>1 DEF EndShape, Done, Wrote, WroteIn, Keys
<1> QED
  BY <1>1, InvariantHolds, PTL

\* A key is locked out only by more committed charges of its own than its
\* budget, however the calls of all keys interleave and fail.
THEOREM LockoutIsEarned == Spec => []LockIsEarned
<1>1. IInv => LockIsEarned
  <2> SUFFICES ASSUME IInv, NEW k \in Key, row[k].until # 0
               PROVE  Cardinality(Committed(k)) > Budget(k)
    BY DEF LockIsEarned, Committed
  <2>1. /\ row[k].attempts <= Cardinality(Committed(k)) /\ row[k].attempts > Budget(k)
        /\ row[k].attempts \in Nat
    BY DEF IInv, Rest, TypeOK, CountShape, Row
  <2>2. Budget(k) \in Nat /\ Cardinality(Committed(k)) \in Nat
    BY BudgetIsPositive, AllowedAreCommitted
  <2> QED
    BY <2>1, <2>2
<1> QED
  BY <1>1, InvariantHolds, PTL

\* Within one window no more calls of a key are allowed than its budget, for
\* each call that found no row: for any budget and any number of calls.
THEOREM AllowedIsBounded == Spec => []AllowedBound
<1>1. IInv => AllowedBound
  <2> SUFFICES ASSUME IInv, NEW k \in Key, Within(k)
               PROVE  Cardinality(Allowed(k)) <= Budget(k) * Cardinality(Blind(k))
    BY DEF AllowedBound, Within, Blind
  <2> DEFINE A == Cardinality(Allowed(k))
             B == Budget(k)
             O == Cardinality(Overwritten(k))
             N == Cardinality(Blind(k))
  <2>1. A \in Nat /\ B \in Nat /\ O \in Nat /\ N \in Nat /\ O <= N
    BY BudgetIsPositive, AllowedAreCommitted
  <2>2. A <= B * O
    <3>1. CASE row[k].exists
      BY <3>1 DEF IInv, Rest, AllowedShape
    <3>2. CASE ~row[k].exists
      <4>1. Allowed(k) = {}
        BY <3>2 DEF IInv, Rest, Allowed, Done, CallShape, EndShape, Keys
      <4>2. A = 0
        BY <4>1, FS_EmptySet
      <4> QED
        BY <2>1, <4>2
    <3> QED
      BY <3>1, <3>2
  <2> HIDE DEF A, B, O, N
  <2>3. PICK n \in Nat : N = O + n
    <3>1. N - O \in Nat /\ N = O + (N - O)
      BY <2>1
    <3> QED
      BY <3>1
  <2>4. B * N = B * O + B * n /\ B * n \in Nat /\ B * O \in Nat
    BY <2>1, <2>3
  <2>5. A <= B * N
    <3> DEFINE p == B * O
               q == B * n
    <3>1. p \in Nat /\ q \in Nat /\ A <= p /\ B * N = p + q
      BY <2>2, <2>4
    <3> HIDE DEF p, q
    <3>2. A <= p + q
      BY <2>1, <3>1
    <3> QED
      BY <3>1, <3>2
  <2> QED
    BY <2>5 DEF A, B, N
<1> QED
  BY <1>1, InvariantHolds, PTL

\* A call that has locked the key it works on does not wait.
LEMMA OwnLock ==
  ASSUME IInv, NEW c \in Call, Open(c), KeyOf(c) \in call[c].held PROVE ~Waiting(c)
<1>1. Free(KeyOf(c), c)
  BY DEF IInv, Rest, LocksExclusive, Free
<1> QED
  BY <1>1 DEF Waiting

\* Who has locked a source has done all its waiting.
LEMMA SourceHolder ==
  ASSUME IInv, NEW d \in Call, Open(d), call[d].source \in call[d].held PROVE ~Waiting(d)
<1>1. PlaceShape(call[d]) /\ IsOpen(call[d]) /\ call[d] \in Consume
  BY DEF IInv, Rest, TypeOK, CallShape, Open, IsOpen
<1>2. call[d].dimension = "source"
  BY <1>1 DEF PlaceShape, Consume
<1>3. KeyOf(d) \in call[d].held
  BY <1>2 DEF KeyOf
<1> QED
  BY <1>3, OwnLock

\* Calls never all wait for one another: one that waits for an account holds
\* nothing, and one that waits for a source waits for a call that waits no more.
THEOREM NoDeadlock == Spec => []NoCircularWait
<1>1. ASSUME IInv, NEW c \in Call, Open(c), Waiting(c), call[c].dimension = "source"
      PROVE  \E d \in Call : Open(d) /\ ~Waiting(d)
  <2>1. PICK d \in Call \ {c} : Open(d) /\ KeyOf(c) \in call[d].held
    BY <1>1 DEF Waiting, Free
  <2>2. /\ KeyOf(c) \in Source
        /\ call[d].account \in Account
        /\ call[d].held \subseteq {call[d].account, call[d].source}
    BY <1>1, <2>1 DEF IInv, Rest, CallShape, PlaceShape, KeyOf, Open, IsOpen
  <2>3. call[d].source \in call[d].held
    BY <2>1, <2>2, ParameterAssumption
  <2> QED
    BY <1>1, <2>1, <2>3, SourceHolder
<1>2. ASSUME IInv, NEW c \in Call, Open(c), Waiting(c), call[c].dimension = "account"
      PROVE  \E d \in Call : Open(d) /\ ~Waiting(d)
  <2>1. PICK d \in Call \ {c} : Open(d) /\ KeyOf(c) \in call[d].held
    BY <1>2 DEF Waiting, Free
  <2>2. /\ KeyOf(c) \in Account
        /\ call[d].source \in Source
        /\ call[d].held \subseteq {call[d].account, call[d].source}
        /\ call[d].dimension \in {"account", "source"}
    BY <1>2, <2>1 DEF IInv, Rest, TypeOK, Consume, CallShape, PlaceShape, KeyOf, Open, IsOpen
  <2>3. call[d].account \in call[d].held
    BY <2>1, <2>2, ParameterAssumption
  <2>4. CASE call[d].dimension = "account"
    BY <1>2, <2>1, <2>3, <2>4, OwnLock DEF KeyOf
  <2>5. CASE call[d].dimension = "source"
    BY <1>1, <1>2, <2>1, <2>5
  <2> QED
    BY <2>2, <2>4, <2>5
<1>3. IInv => NoCircularWait
  <2>1. IInv => \A c \in Call : call[c].dimension \in {"account", "source"}
    BY DEF IInv, TypeOK, Consume
  <2> QED
    BY <1>1, <1>2, <2>1 DEF NoCircularWait
<1> QED
  BY <1>3, InvariantHolds, PTL

\* A step changes a stored row only at a COMMIT: it counts one more on the row as
\* it is, or replaces it by the call that found none or found it over.
LEMMA CountsStep ==
  ASSUME IInv, [Next]_vars, NEW k \in Key, row[k].exists, row'[k] # row[k]
  PROVE  \/ row'[k].attempts = row[k].attempts + 1 /\ row[k].until = 0
         \/ \E c \in Call : /\ call[c].pc = "commit" /\ call'[c].pc = "done"
                            /\ k \in call[c].blind \/ Fresh(row[k], call[c].now)
<1>1. PICK c \in Call : Commit(c)
  BY DEF Next, Progress, vars, Tick, Begin, Read, Write, Fail
<1> DEFINE r == call[c]
<1>2. /\ r \in Consume /\ ValueShape(r) /\ r.pc = "commit" /\ IsOpen(r)
      /\ call \in [Call -> Consume] /\ r.now \in Nat /\ row[k] \in Row
  BY <1>1 DEF IInv, Rest, TypeOK, CallShape, Commit, IsOpen, Consume
<1>3. call'[c].pc = "done"
  BY <1>1, <1>2 DEF Commit, Consume
<1>4. k \in WroteIn(r) /\ row'[k] = r.wrote[k]
  BY <1>1 DEF Commit, Wrote, WroteIn
<1>5. PICK old \in Row : Counted(r, k, old) /\ r.wrote[k] = Charged(old, r.now, Budget(k))
  BY <1>2, <1>4 DEF ValueShape
<1>6. CASE k \in r.blind
  BY <1>2, <1>3, <1>6
<1>7. CASE Fresh(row[k], r.now)
  BY <1>2, <1>3, <1>7
<1>8. CASE k \notin r.blind /\ ~Fresh(row[k], r.now)
  <2>1. old = row[k] /\ row[k].until <= r.now
    BY <1>5, <1>8 DEF Counted
  <2>2. PICK budget \in Nat \ {0} : budget = Budget(k)
    BY BudgetIsPositive
  <2>3. Charged(old, r.now, budget).attempts = IF Fresh(old, r.now) THEN 1 ELSE old.attempts + 1
    BY <1>2, ChargedRow
  <2>4. row'[k].attempts = row[k].attempts + 1
    BY <1>4, <1>5, <1>8, <2>1, <2>2, <2>3
  <2>5. row[k].until = 0
    BY <1>8, <2>1 DEF Fresh
  <2> QED
    BY <2>4, <2>5
<1> QED
  BY <1>6, <1>7, <1>8

\* No committed count or lockout is lost, whatever the order of clock readings,
\* lock waits and commits.
THEOREM CountsAreKept == Spec => CountsSurvive
<1>1. IInv /\ [Next]_vars =>
        [\A k \in Key :
           row[k].exists /\ row'[k] # row[k] =>
             \/ row'[k].attempts = row[k].attempts + 1 /\ row[k].until = 0
             \/ \E c \in Call : /\ call[c].pc = "commit" /\ call'[c].pc = "done"
                                /\ k \in call[c].blind \/ Fresh(row[k], call[c].now)]_vars
  BY CountsStep
<1> QED
  BY <1>1, InvariantHolds, PTL DEF Spec, CountsSurvive
=============================================================================
