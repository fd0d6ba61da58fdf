----------------------------- MODULE RateLimit ------------------------------
(***************************************************************************)
(* The shared limiter of one identity action                               *)
(* (packages/db/src/postgres-rate-limit.ts).  Each call of consume is one  *)
(* READ COMMITTED transaction that charges a row of auth_rate_limits for   *)
(* the account and then one for the source: SELECT ... FOR UPDATE, which   *)
(* locks the row only when there is one, then an upsert of the values      *)
(* computed from what was selected.                                        *)
(***************************************************************************)
EXTENDS Integers, FiniteSets

CONSTANTS Call,          \* calls of consume
          Account,       \* account digests
          Source,        \* source digests
          AccountBudget, \* ACCOUNT_BUDGET
          SourceBudget,  \* SOURCE_BUDGET
          Window,        \* WINDOW_MS, in clock ticks
          Lock,          \* LOCK_MS, in clock ticks
          MaxTime,       \* bound on the clock
          None           \* "no key chosen yet"

ASSUME ParameterAssumption ==
  /\ AccountBudget \in Nat \ {0}
  /\ SourceBudget \in Nat \ {0}
  /\ Window \in Nat \ {0}
  /\ Lock \in Nat \ {0}
  /\ Window <= Lock
  /\ MaxTime \in Nat
  /\ Account \cap Source = {}
  /\ None \notin Account \cup Source

VARIABLES clock, \* the process clock
          row,   \* auth_rate_limits, as committed
          call   \* the calls of consume

vars == <<clock, row, call>>
-----------------------------------------------------------------------------
Key == Account \cup Source

\* until: locked_until, 0 when it is null.
Row == [exists : BOOLEAN, attempts : Nat, start : Nat, until : Nat]
NoRow == [exists |-> FALSE, attempts |-> 0, start |-> 0, until |-> 0]

CallPc == {"idle", "read", "write", "commit", "done"}
\* seen: what the last SELECT returned.  held: rows the transaction has locked.
\* wrote: its upserts, pending until "done".  blind: keys it found no row for.
Consume == [pc : CallPc, account : Account \cup {None}, source : Source \cup {None},
            dimension : {"account", "source"}, now : Nat, seen : Row,
            held : SUBSET Key, blind : SUBSET Key,
            wrote : [Key -> Row],
            answer : {"none", "allowed", "limited"}]

NoWrites == [k \in Key |-> NoRow]

Init ==
  /\ clock = 0
  /\ row = [k \in Key |-> NoRow]
  /\ call = [c \in Call |-> [pc |-> "idle", account |-> None, source |-> None,
                             dimension |-> "account", now |-> 0, seen |-> NoRow,
                             held |-> {}, blind |-> {}, wrote |-> NoWrites,
                             answer |-> "none"]]

Budget(k) == IF k \in Account THEN AccountBudget ELSE SourceBudget

\* The key consumeDimension works on.
KeyOf(c) == IF call[c].dimension = "account" THEN call[c].account ELSE call[c].source

\* The keys whose row the transaction of c has upserted.
Wrote(c) == {k \in Key : call[c].wrote[k].exists}

Open(c) == call[c].pc \in {"read", "write", "commit"}

\* Faulty variant: nobody waits for a row another transaction has locked.
FreeAlways(k, c) == TRUE

\* Faulty variant: a finished transaction keeps its locks.
FreeLeaked(k, c) == \A d \in Call \ {c} : k \notin call[d].held

\* No other open transaction has locked or written the row of k.
Free(k, c) == \A d \in Call \ {c} : ~(Open(d) /\ k \in call[d].held)
-----------------------------------------------------------------------------
(* consume *)

\* The clock is read before the transaction begins.
Begin(c) ==
  /\ call[c].pc = "idle"
  /\ \E a \in Account, s \in Source :
       call' = [call EXCEPT ![c] = [@ EXCEPT !.pc = "read", !.account = a,
                                             !.source = s, !.now = clock]]
  /\ UNCHANGED <<clock, row>>

\* On to the other dimension, or to COMMIT.
NextPc(c) == IF call[c].dimension = "account" THEN "read" ELSE "commit"

\* SELECT ... FOR UPDATE: nothing is locked when there is no row, and a key
\* that is locked out is not charged.
Read(c) ==
  LET k == KeyOf(c)
  IN  /\ call[c].pc = "read"
      /\ \/ /\ ~row[k].exists
            /\ call' = [call EXCEPT ![c] = [call[c] EXCEPT !.pc = "write", !.seen = NoRow,
                                                           !.blind = @ \cup {k}]]
         \/ /\ row[k].exists /\ row[k].until > call[c].now
            /\ Free(k, c)
            /\ call' = [call EXCEPT ![c] = [call[c] EXCEPT !.pc = NextPc(c), !.dimension = "source",
                                                           !.held = @ \cup {k},
                                                           !.answer = "limited"]]
         \/ /\ row[k].exists /\ row[k].until <= call[c].now
            /\ Free(k, c)
            /\ call' = [call EXCEPT ![c] = [call[c] EXCEPT !.pc = "write", !.seen = row[k],
                                                           !.held = @ \cup {k}]]
      /\ UNCHANGED <<clock, row>>

\* A new window: no row, the window is over (reset), or so is the lockout
\* (recovering).
Fresh(o, now) ==
  ~o.exists \/ now >= o.start + Window \/ (o.until # 0 /\ o.until <= now)

\* Faulty variants: attempts >= budget locks one call too early; attempts >
\* budget + 1 one too late.
ChargedEarly(o, now, budget) ==
  LET n == IF Fresh(o, now) THEN 1 ELSE o.attempts + 1
  IN  [exists |-> TRUE, attempts |-> n, start |-> IF Fresh(o, now) THEN now ELSE o.start,
       until |-> IF n >= budget THEN now + Lock ELSE 0]
ChargedLate(o, now, budget) ==
  LET n == IF Fresh(o, now) THEN 1 ELSE o.attempts + 1
  IN  [exists |-> TRUE, attempts |-> n, start |-> IF Fresh(o, now) THEN now ELSE o.start,
       until |-> IF n > budget + 1 THEN now + Lock ELSE 0]

\* The row computed from the one that was selected.
Charged(o, now, budget) ==
  LET n == IF Fresh(o, now) THEN 1 ELSE o.attempts + 1
  IN  [exists |-> TRUE, attempts |-> n, start |-> IF Fresh(o, now) THEN now ELSE o.start,
       until |-> IF n > budget THEN now + Lock ELSE 0]

\* INSERT ... ON CONFLICT DO UPDATE: waits for a pending write of the same key,
\* then overwrites it, whatever it has become since the SELECT.
Write(c) ==
  LET k   == KeyOf(c)
      new == Charged(call[c].seen, call[c].now, Budget(k))
  IN  /\ call[c].pc = "write"
      /\ Free(k, c)
      /\ call' = [call EXCEPT ![c] =
                    [call[c] EXCEPT !.pc = NextPc(c), !.dimension = "source",
                                    !.held = @ \cup {k},
                                    !.wrote[k] = new,
                                    !.answer = IF new.until # 0 THEN "limited" ELSE @]]
      /\ UNCHANGED <<clock, row>>

\* A lost reply to COMMIT is caught like any failure: limited.
Commit(c) ==
  /\ call[c].pc = "commit"
  /\ row' = [k \in Key |-> IF k \in Wrote(c) THEN call[c].wrote[k] ELSE row[k]]
  /\ \E reply \in {"limited", IF call[c].answer = "none" THEN "allowed" ELSE "limited"} :
       call' = [call EXCEPT ![c] = [@ EXCEPT !.pc = "done", !.answer = reply]]
  /\ UNCHANGED clock

\* Faulty variant: the store is down, the call goes through.
FailureAnswerOpen(c) == IF call[c].answer = "none" THEN "allowed" ELSE "limited"

FailureAnswer(c) == "limited"

\* A failing availability check or statement: everything is rolled back.
Fail(c) ==
  /\ call[c].pc = "idle" \/ Open(c)
  /\ call' = [call EXCEPT ![c] = [@ EXCEPT !.pc = "done", !.wrote = NoWrites,
                                           !.answer = FailureAnswer(c)]]
  /\ UNCHANGED <<clock, row>>

Tick ==
  /\ clock < MaxTime
  /\ clock' = clock + 1
  /\ UNCHANGED <<row, call>>

Progress(c) == Read(c) \/ Write(c) \/ Commit(c)

Next == Tick \/ \E c \in Call : Begin(c) \/ Progress(c) \/ Fail(c)

Spec == Init /\ [][Next]_vars
-----------------------------------------------------------------------------
(* Properties *)

TypeOK ==
  /\ clock \in 0..MaxTime
  /\ row \in [Key -> Row]
  /\ call \in [Call -> Consume]

Done(c) == call[c].pc = "done"
Keys(c) == {call[c].account, call[c].source}
Calls(k) == {c \in Call : k \in Keys(c)}
Allowed(k) == {c \in Call : Done(c) /\ call[c].answer = "allowed" /\ k \in Keys(c)}

\* A key is locked out only by more committed charges of its own than its
\* budget: no other account or source, and no rolled back call, counts
\* (consumeDimension; the independent budgets of M10).
LockIsEarned ==
  \A k \in Key :
    row[k].until # 0 =>
      Cardinality({c \in Call : Done(c) /\ k \in Wrote(c)}) > Budget(k)

\* While every call of a key falls within one window, no more are allowed than
\* the budget, once for each call that found no row: only those can overwrite a
\* count they never saw (consume).
AllowedBound ==
  \A k \in Key :
    LET blind == {c \in Call : k \in call[c].blind}
    IN  (\A c, d \in Calls(k) : call[c].now < call[d].now + Window)
          => Cardinality(Allowed(k)) <= Budget(k) * Cardinality(blind)

\* M13, failing closed: a call that is allowed was charged to both its keys and
\* the charges are committed, whatever failed on the way (consume).
AllowedIsCharged ==
  \A c \in Call :
    Done(c) /\ call[c].answer = "allowed" =>
      /\ Wrote(c) = Keys(c)
      /\ \A k \in Keys(c) : row[k].exists

\* The types, and that an allowed call was charged (AllowedIsCharged).
LimiterInv == TypeOK /\ AllowedIsCharged

\* A committed count or lockout is never lost: it grows by one, or its window or
\* lockout is over for the call that replaces it, or that call had found no
\* row.  Holds although clocks are read before waiting for a lock.
CountsSurvive ==
  [][\A k \in Key :
       row[k].exists /\ row'[k] # row[k] =>
         \/ row'[k].attempts = row[k].attempts + 1 /\ row[k].until = 0
         \/ \E c \in Call : /\ call[c].pc = "commit" /\ call'[c].pc = "done"
                            /\ k \in call[c].blind \/ Fresh(row[k], call[c].now)]_vars

\* c waits for the row of k, which another open transaction has locked.
Waiting(c) ==
  /\ \/ call[c].pc = "read" /\ row[KeyOf(c)].exists
     \/ call[c].pc = "write"
  /\ ~Free(KeyOf(c), c)

\* Everyone locks the account before the source and lets go of both at the end,
\* so the calls never all wait for one another (consume).
NoCircularWait ==
  (\E c \in Call : Open(c)) => \E c \in Call : Open(c) /\ ~Waiting(c)
-----------------------------------------------------------------------------
(* Statements of the tests that the code does not satisfy. *)

\* abuse-controls.integration.test.ts:48: "prevents one source from globally
\* locking a victim".
OneSourceCannotLock ==
  \A a \in Account :
    row[a].until # 0 =>
      Cardinality({call[c].source : c \in {d \in Call : call[d].account = a}}) > 1
=============================================================================
