# Labpics ID: formal models

TLA+ models of the identity service of this repository, TLC runs that check them on small instances,
and TLAPS proofs of the properties that matter most. Every definition is translated from the code;
`PROJECT.json` names for each one the lines it stands for (`map`), what can go wrong and at which
line (`hazards`), what each run checks (`runs`) and which change of the code each property would
catch (`mutants`).

## 1. Inventory

Labpics ID is two processes over one Postgres database. The **API** (`apps/api`) runs the use cases
of `packages/domain` over the adapters of `packages/db`. The **protocol process** (`apps/protocol`)
hosts an OpenID provider that keeps no data of its own: everything it stores goes through a signed
HTTP boundary to the API. `apps/web` renders and forwards.

All shared state is in Postgres at READ COMMITTED, so what makes the system hard is the same
everywhere: a transaction is a sequence of statements, each with a snapshot of its own; an `UPDATE`
waits for whoever changed a row and then judges it again; an `INSERT` waits at a unique key; any
open transaction may roll back; and the reply to `COMMIT` may be lost. `PostgresUnitOfWork.run` is
one such transaction: a throw rolls it back, a returned value, also a rejection, commits.

| Component | State | Operations | Hard part | What makes it correct | Module |
|---|---|---|---|---|---|
| One-time-code login | `otp_challenges`, audit, outbox, sessions of the owner | requestOtp, redeemOtp | three statements decide one redemption; the session owner writes outside of the transaction | one winner, no free guess, truthful answers, evidence for what was granted | `OtpLogin`, `OneTimeCode` |
| Session security | `sessions`, `session_refresh_credentials`, `users.deactivated_at` | create, provider hook, rotate, resolve, touch, revoke, logout-all, deactivate | rotations of one credential overlap with each other and with revocation | one chain per family, a replay ends the family, an absolute end | `SessionSecurity`, `RefreshFamily` |
| Rate limiter | `auth_rate_limits` | consume (account, then source) | no row to lock on first use, clocks read before waiting | budgets, lockouts that are earned, failing closed | `RateLimit` |
| Account lifecycle | `users`, `accounts`, `verification_tokens`, `sessions` | register, verifyEmail, signIn, requestPasswordReset, resetPassword, deactivate, listSessions, revokeSession | a call acts on what it read before another committed | tokens good once, one account per address, cut-off of sessions, nothing comes back | `AccountLifecycle`, `Account` |
| First administrator | `bootstrap_tokens`, `platform_administrators`, `users` | createToken, claim | claims are serialised by an advisory lock that registration does not take | all or nothing, no collision between claims | `Bootstrap`, `FirstAdministrator` |
| Process start and shutdown | the environment, what was composed from it | gates of both configurations, composition, stop, start | the gates are spread over two processes and several files; an operator changes one and restarts | in production no process comes up half configured | `Startup`, `Boundary` |
| Boundary, request timeout | nonces in memory, calls under way | request with deadline, retries and cancellation, authenticate, dispatch, time out | loss, delay, repetition, restart, clocks that differ, a handler that outlives its answer | a nonce is good once, a write runs once, every call ends | `Boundary` |
| Protocol store | `protocol_artifacts`, `oauth_consents` | put, consume, destroy, revoke by grant, cleanup, upsert and revoke consent, session and result of an interaction | statements over many rows, rows that change while waited for, payloads that are read and written back | consumed once and for good, revocation and cleanup reach what they should, calls in sequence lose nothing of each other | `ProtocolStore`, `OneUseStore` |
| Provider adapter | none: rows of the protocol store | find, upsert, consume, destroy, revokeByGrantId | find and consume are two requests, and what consume answers is dropped | what was exchanged cannot be used again | `ProtocolStore` |
| Consent ceremony | interactions of the provider, `oauth_consents`, the form | page, form, finish handler, decide route | two stores are written one after the other; the user agent sees neither | what is stored was allowed, what the provider is told was stored, a decision that was answered stands | `ConsentCeremony` |
| Better Auth adapter | lazily created provider | session creation | the gap between the provider's `INSERT` and its hook | covered in `SessionSecurity` | – |
| Email delivery, rest of the web application, UI, CI | none that is shared | – | – | – | – |

Interactions: every use case asks the limiter first, outside of its transaction, and the limiter
commits by itself; the models of the use cases keep only that a call may be refused. redeemOtp hands
over to the session owner inside its transaction. The lifecycle and the session adapter both write
`sessions`. The protocol process reaches the store only through the boundary, each request being one
transaction of the store. The consent form calls the finish route of the protocol process, which
stores the consent through the boundary and then tells the provider.

## 2. Modules and how they correspond to the code

A variable is a table (or a map in memory), a record per call holds what the code keeps in local
variables, and an action is a statement that another call can see or wait for. Common to all:

- *pending writes*: what a transaction wrote is in the record of its call (`wrote`, `locked`,
  `held`) and reaches the table in `Commit`; locks are read off those records.
- *waiting*: an action whose row another open transaction has changed is not enabled; when it is, it
  looks at the row as it is by then. Abort of the other transaction needs no case of its own.
- *aborts*: any open transaction may roll back in any state; `Commit` may answer the caller with an
  error although the rows stay.
- *clock*: a reading is taken where the code takes it and may be stale by the time it is used.
- `prior` fields record which calls had ended when one began; no action reads them.

| Module | Code | Notes |
|---|---|---|
| `OneTimeCode` | – | what a code promises, without database, clock or transactions |
| `RefreshFamily` | – | a family of credentials as a line, of which only the newest is redeemed, once |
| `Account` | – | the life of an account, each use case at one moment |
| `FirstAdministrator` | – | token, account and administrator of a claim at one moment |
| `OneUseStore` | – | artifacts that are spent at most once while they are stored, and one cell of consent |
| `OtpLogin` | `otp-use-cases.ts`, `otp-challenge-store.ts` | win, charge and classify are three actions with three snapshots; implements `OneTimeCode` by mapping committed transactions to its steps |
| `SessionSecurity` | `session-security-adapter.ts` | `rotate` by statements; the rest are single `UPDATE`s and one action each; implements `RefreshFamily` |
| `RateLimit` | `postgres-rate-limit.ts` | select for update, then upsert, per dimension |
| `AccountLifecycle` | `use-cases.ts`, `identity-adapter.ts` | one address; passwords and tokens are named by the call that made them; audit and outbox rows go with their transaction; implements `Account` |
| `Bootstrap` | `first-admin-bootstrap.ts` | claims by statement, registration as far as a claim can tell; implements `FirstAdministrator` |
| `Startup` | `config.ts` of both processes, `index.ts`, `createBoundaryClient` | no state: an environment is a record of what the gates tell apart, and a process comes up when every gate lets it through |
| `Boundary` | `boundary.ts`, `boundary-auth.ts`, `internal-protocol.ts`, the timeout middleware | extends `Startup`; an attempt is a message with a nonce; the API stops and comes up again as any environment allows |
| `ProtocolStore` | `protocol-adapter.ts`, `protocol-handlers.ts`, `boundary-adapter.ts` | a statement takes its snapshot, then its rows one at a time; one batch of cleanup; a put waits at the key; the artifacts are secrets of one grant or interactions; an exchange is a find and a consume, two transactions; implements `OneUseStore` |
| `ConsentCeremony` | `consent-form.tsx`, `page.tsx`, `protocol-app.ts`, `decide/route.ts` | each call to the provider or through the boundary is an action and may be carried out, lost, or carried out with its reply lost; the provider's interactions are external |

`MC*` modules extend them with what TLC needs (symmetry sets, a function constant), and
`*Proofs` modules with the inductive invariants and the theorems of section 4. The abstract modules
translate no code: they say what a caller may rely on, and the module that implements one shows how
its state is read off the tables (the `INSTANCE ... WITH` next to the property). The definitions
called *faulty variant* are not used by the specifications: each is the form a definition would have
after a plausible mistake, and replaces it to show that a property notices. An invariant named after
its module (`LoginInv`, `SessionInv`, `LimiterInv`, `AccountInv`, `BootstrapInv`, `BoundaryInv`,
`StoreInv`, `ConsentInv`) is the type invariant together with one safety
property of the module, which its comment names.

## 3. Runs

| Run | Question | Instance |
|---|---|---|
| `otp_safety` | Do overlapping redemptions of a challenge keep every promise of a one-time code? | 1 challenge, 3 redemptions, budget 2, a clock of one expiry |
| `otp_evidence` | Is there evidence for every session? (no) | 2 redemptions |
| `session` | Do families stay chains, do replays end them, do sessions end? | 2 sessions, 3 rotations, 3 credentials |
| `ratelimit` | What do the budgets guarantee? | 3 calls, 1 account, 2 sources, budgets 1 |
| `ratelimit_victim` | Can one source lock an account for all? (yes) | 3 calls, account budget 2, source budget 1 |
| `account` | What does any overlap of the account's calls leave behind? | 3 calls, each any of seven operations |
| `account_reset` | Does a reset end every session of the old password? (no) | 2 calls |
| `bootstrap` | Is the first administrator made once, whole, and without standstill? | 2 claims, 1 registration, 2 tokens, 2 addresses |
| `boundary` | Are nonces, writes and answers right over a bad network, between processes configured in any way that lets them come up? | 1 call at a time (a read with one retry, or a write), 1 copy that is accepted, 1 stop and start, skew of 1 s of 2 ticks, clocks 1 tick apart |
| `artifacts` | What does any overlap of the store's operations leave behind? | 3 calls, each any of nine operations, 1 artifact: a secret or an interaction |
| `exchange_winner` | Is a secret good for one exchange? (no) | 2 calls |
| `consent` | Do the form, the provider and the stored consent agree, and does a submission that was answered stand? | 2 tabs, 2 submissions, 1 call of the decide route, 2 interactions, user agents of both kinds |

Five runs check, besides their other properties, that the module implements its abstract
specification: `otp_safety` (`CodeIsOneTime`), `session` (`FamilyIsLinear`), `account`
(`AccountIsAtomic`), `bootstrap` (`BootstrapIsAtomic`) and `artifacts` (`StoreIsAtomic`).

**Bounds.** `MaxTime` bounds the clock, `MaxCredential` the credentials of a family, `MaxCalls`,
`MaxCopies` and `MaxRestarts` the environment of the boundary; the sets of calls bound how many
overlap. Three calls allow the patterns these protocols can fail by: two that race for a row, and a
third that commits or rolls back between their statements. Each clock passes at least one expiry,
and in `session` the idle and the absolute one. Budgets are the smallest that distinguish spent from
left. In `ratelimit`, a window of 1 and a lockout of 2 let both end. In `boundary` the clock reaches
the moment at which the store may forget a nonce (`MaxTime` is twice the skew, in ticks); calls do not
interact except that recording one nonce drops expired ones, so one call at a time, with both its
attempts, loses nothing but that. The environments are not bounded: what every one that passes the
gates composes is an initial state, and may be what comes up after a stop. In
`artifacts` every property is about one row at a time. In `consent` two interactions and two tabs are
what it takes for a handler of one to store over the consent of the other; `Post` and `Decide` bound
how often the subject tries: two submissions can meet in every order of their calls, and each is
judged against one other. Three of them give 5.0 million states, without a violation.

`CHECK_DEADLOCK FALSE` is set everywhere: calls are finite and the clock is bounded, so every
behaviour of the models ends. Where waiting for one another could be an error, it is a property of
its own: `NoCircularWait` (limiter), `NoStandstill` (bootstrap) and `RedeemsGoOn` (login), each of
which says that of the calls that have begun and not ended one waits for nobody; the last two say as
well, with `ENABLED`, that who does not wait can take its next step.

**Fairness.** `boundary`: `WF_vars(ClientProgress(c))` for each call. The deadline of an attempt
(`AbortSignal.timeout`) and the delay before a retry (`setTimeout`) do fire; the network and the API
are not assumed to do anything. The other runs check safety only. In particular nothing says that the
consent form comes back: its `fetch` (`consent-form.tsx:53-64`) has neither a signal nor a deadline,
so when its request or the reply never arrives and no error is raised, the buttons stay disabled, and
no fairness that the code justifies excludes it.

### What the code does not do

Four runs end in a counterexample to something the repository says of itself; `PROJECT.json`
(`findings`) quotes the line.

- `otp_evidence`: the session is created last, but before `COMMIT`; a failing `COMMIT` leaves a
  session and takes the evidence back.
- `ratelimit_victim`: a source that is limited already goes on charging the account.
- `account_reset`: a sign-in that overlaps a reset keeps its session of the old password.
- `exchange_winner`: the store consumes a secret once, but the adapter drops the answer that tells the
  loser, and its find does not pass on that the secret was consumed: two overlapping exchanges both
  get tokens. `IssuedIsSpent` is what remains true.

Other behaviour met while modelling, which the models contain and no run is about:

- The decide route (`apps/web/src/app/api/interaction/[uid]/decide/route.ts`) asks the API for
  operations its contract does not have, with an authorization scheme it does not know
  (`LabpicsBoundary`): every call of it ends in a refusal (`DecideCall`).
- The consent form tells fetch not to follow the redirect; a user agent that shows such a response as
  opaque leaves the form in its error although the consent is stored and the provider told (`Hear`).
- A handler goes on when its connection has broken. A subject that presses the other button may be
  answered with the redirect, and the earlier handler then overrules that answer: a denial turns into
  an allowance, or the reverse. `AnswerStands` exempts a submission that had not been answered when
  the later one was pressed; one that had been does not come back.
- The form stores the consent of every allowance of a known subject, and nothing asks whether to
  remember it (`Press`), while `docs/design/DESIGN-BRIEF.md:272` plans for an opt-in.
- Interactions are stored without an expiry, and `cleanupExpiredArtifacts` has no caller in the
  repository (`ExpiresAt`, `cleanup`).
- The route's authentication failures carry no correlation id and the body of a 504 is not a boundary
  response, so the client reports both as `schema_invalid`, and does not retry (`Understood`).
- Overlapping `setInteractionSession` and `finishInteraction` lose one another's fields; only calls in
  sequence are safe (`SerialMerge`).
- An exhausted challenge is classified as expired once its time is over (`Classification` in `OtpLogin`).

Conditions under which properties hold, and which a reader of the code should know:
`NonceOnce` and `WriteAtMostOnce` need the protocol process's clock to be ahead by at least a second
less than the allowed skew (`ClocksAgree`), because timestamps are rounded to seconds and the expiry
of a nonce is not. `AllowedBound` counts the calls that found no row, as those overwrite each other.
`AdminIsFirst` says no more than that no account existed when the claim got its lock: an account of
another address that is registered while the claim runs is allowed. `GrantIsRevoked` speaks of the rows
of the store; the adapter's `find` does not pass on what a revocation wrote into them
(`exchange_winner`).
`GrantIsRevoked` excepts artifacts put by calls that had not ended when the revocation began.
`ProductionServes` is about the two credentials being configured at all and complete; that they share
a secret is an operator's task. `AllowanceIsRecorded` is about subjects the provider knows: without an
account in the interaction the handler finishes it and stores nothing.

## 4. Proofs

Every safety invariant and every action property that a passing run checks is proved, except for a
conjunct of two of them that uses `ENABLED`, and so are the refinements of the five abstract
specifications. The theorems hold for every value of the constants that satisfies the
`ParameterAssumption` of the module: any number of calls, rows and addresses, finite or not, and
any length of time. The assumptions are positive budgets, windows and lifetimes (they are positive
constants in the code), a rate limit window that is not longer than the lockout (5 and 15 minutes in `postgres-rate-limit.ts`), and ids of different kinds
that are distinct; TLC evaluates them in the passing runs. The bounds (`MaxTime`, `MaxCredential`,
`MaxRetries`, ...) are any natural numbers.

A component's proofs are in `<module>Proofs`. Each has an inductive invariant (`IInv`; `Base` in
`ProtocolStoreProofs`), in named parts, checked with TLC on the instance of the run before it was
proved; one lemma per action or group of actions that says it keeps the invariant, with one step per
part it can disturb; and the theorems at the end.

| Module | Theorem | Property |
|---|---|---|
| `OtpLoginProofs` | `AtMostOneWinner`, `SpentRowsAreFinal` | `LoginInv`, `SpentIsFinal` |
| | `AnswersAreTrue`, `GrantsAreBacked`, `BudgetIsKept` | `TruthfulAnswers`, `GrantIsBacked`, `BudgetAccounting` |
| | `RedemptionsNeverAllWait` | `NeverAllWait`, a conjunct of `RedeemsGoOn` |
| | `ImplementsOneTimeCode` | `CodeIsOneTime` |
| `SessionSecurityProofs` | `FamiliesAreChains`, `ReplayRevokesFamily`, `SessionsEnd` | `SessionInv`, `ReplayKillsFamily`, `AbsoluteBound` |
| | `ImplementsRefreshFamily` | `FamilyIsLinear` |
| `RateLimitProofs` | `AllowedWasCharged`, `LockoutIsEarned`, `AllowedIsBounded`, `NoDeadlock`, `CountsAreKept` | `LimiterInv`, `LockIsEarned`, `AllowedBound`, `NoCircularWait`, `CountsSurvive` |
| `AccountLifecycleProofs` | `AccountSafe`, `TokenSpent`, `SessionsCutOff` | `AccountInv`, `TokenSpentOnce`, `CutOff` |
| | `ImplementsAccount` | `AccountIsAtomic` |
| | `NothingComesBack` | `[][Keeps]_vars`, from `ImplementsAccount` |
| `BootstrapProofs` | `AdministratorIsFirst`, `ClaimIsAtomic`, `ClaimsNeverCollide` | `BootstrapInv`, `AllOrNothing`, `ClaimsAreSerial` |
| | `ClaimsNeverAllWait` | `NeverAllWait`, a conjunct of `NoStandstill` |
| | `ImplementsFirstAdministrator` | `BootstrapIsAtomic` |
| `BoundaryProofs` | `AnswersBelong`, `NoncesAreSpent`, `WritesRunOnce`, `GatesServe` | `BoundaryInv`, `NonceOnce`, `WriteAtMostOnce`, `ProductionServes` |
| `ProtocolStoreProofs` | `OneConsumeWins`, `CleanupSparesUsable` | `StoreInv`, `CleanupSparesLive` |
| | `ImplementsOneUseStore` | `StoreIsAtomic` |
| | `ConsumedIsFinal` | `[][Final]_vars`: the time an artifact was consumed at never changes while it is stored |
| | `GrantsStayRevoked`, `IssuedSecretsAreSpent`, `ConsentIsFollowed`, `MergesInSequenceAreSafe` | `GrantIsRevoked`, `IssuedIsSpent`, `ConsentFollows`, `SerialMerge` |
| `ConsentCeremonyProofs` | `OnlyTheAllowedIsStored`, `StoredBeforeAllowed`, `AnswersStand` | `ConsentInv`, `AllowanceIsRecorded`, `AnswerStands` |

**The arguments.** No property is inductive as it stands, nearly always for the same reason: it says
what holds of committed rows, and nothing of the transactions that are about to commit.

- *OtpLogin.* `IInv` adds that a row is locked by at most one open transaction (`LockIsExclusive`),
  that a locked row is still as the predicate of its `UPDATE` found it (`LockedIsLive`), that a
  committed spend is visible and unique (`SpendCommitted`, `SpendIsUnique`), and what each place of
  redeemOtp says about the call (`CallShape`). A commit of a spend therefore finds the row unspent,
  hence no earlier spend, and afterwards no `UPDATE` matches. Truthful answers rest on rows only
  going forward (`RowsGoForward`): what one of the three statements saw stays true, and as whoever
  missed the first `UPDATE` with a right code had a row that was spent, expired or exhausted, the
  answer is right whichever statement gave it (`LosesRightly`). The budget is a count, kept by
  `BudgetShape`: charged calls and attempts left add up, and the pending charge holds the next number.
  The cardinality moves by one element at a time, so `FS_AddElement` is enough and no induction is
  needed. That no session is for a code that was over when the call began rests on `WinsRightly`:
  whichever statement judged the row, it compared the expiry with the call's own reading of the
  clock, and the expiry of a row never changes (`RowsGoForward`).
- *SessionSecurity.* `IInv` adds that at most one claim of a family is pending (`ClaimIsExclusive`),
  that every credential but the newest is used (`Chain`), that two calls were not both given a
  successor of one credential (`RotatedOnce`), and what an answer says about the row (`Outcome`).
  `AbsoluteBound` follows from the shape of the rows (`RowShape`): a session is ready only with its
  absolute end set from its creation.
- *RateLimit.* A row that a call has locked is the row it has selected until the call ends
  (`ValueShape`), so a call that found a row adds one to its count and only one that found none
  starts it again. A count is hence at most the calls charged, which is `LockIsEarned`, and
  `AllowedBound` follows from an invariant on the current count (`AllowedShape`): since it was started
  last, no more calls were allowed than counted, and each start before it was a call that found
  nothing. It needs the window not to be longer than the lockout: otherwise a lockout that is over
  would start the count again within the window. `NoCircularWait` is the order of the two locks: if
  anyone waits for a source, the one it waits for holds its source and so has all it needs.
- *AccountLifecycle.* One open transaction changes a row (`AccountShape`, `TokenShape`), and what it
  found is still so when it commits. `CutOff` rests on three parts that relate calls in time: a
  revocation has reached the sessions of all calls that had ended when it began (`RevokesPrior`), a
  sign-in that began after a deactivation has ended finds it (`SeesDeactivation`), and the password of
  a sign-in is the one that holds or was replaced by a reset that had not ended when it began
  (`PasswordHeld`).
- *Bootstrap.* The holder of the advisory lock is unique, and between its count and its `COMMIT` there
  is no administrator (`PlatformShape`), so its inserts meet nobody's but a registration's
  (`UsersShape`). Whoever has inserted a user or the administrator and not ended holds the lock
  (`InsertersHold`), so the holder can only wait for a registration, and that one waits for nobody.
- *Boundary.* The heart is rounding: when the store forgets a nonce, the timestamp it came with is
  already refused (`Spent`), which holds exactly because `ClocksAgree` leaves one second; the
  lemmas under *Seconds* are facts about `\div` for a second of any length. `WriteAtMostOnce` adds a
  copy that a handler has in hand, and restarts. `ProductionServes` is proved from the gates alone:
  whatever environment passes them composes a client, a credential and handlers.
- *ProtocolStore.* All theorems share `Base`: rows are locked exclusively, and what an open transaction
  has changed is still what its statement looks for (`PendingShape`), so a row is at `COMMIT` as it was
  judged. The properties about calls in sequence each add what a statement under way has not found:
  that was inserted since it began, is already taken, or is still to be taken (`RevokeShape`,
  `ExchangeShape`, `WithdrawShape`). `SerialMerge` adds that a merge has read what those who ended
  before it have left, or they were superseded (`ReadShape`), and that its row is there or was
  destroyed by an overlapping call (`MergeShape`).
- *ConsentCeremony.* A submission keeps what was pressed until its handler is over, and a handler does
  not reach `finish` of an allowance of a known subject before the consent is stored (`PostShape`).
  The decide route never gets past its first call (`DecideShape`). For `AnswersStand`: whoever finishes
  the interaction has no answer yet at that moment, and only submissions with an answer are among those
  that came before another (`PriorShape`); so it overrules only submissions it did not come before.

**The refinements.** In each, the abstract state is read off the committed rows and the calls that
have committed, so a step that is no `COMMIT` changes none of it and stutters. (The single `UPDATE`s
of `SessionSecurity`, which are one action each, are their own `COMMIT`.) What is left is
that a `COMMIT` is one step of the abstract specification, and its guards are what the
invariants say of the row or rows the call has held since it looked.

- *OtpLogin implements OneTimeCode.* A `COMMIT` is `Issue`, `Miss` or `Win`, or stutters
  (`CommitIsAStep`). The guard of `Miss` is the budget (`BudgetShape`), that of `Win` the uniqueness of
  the spend.
- *SessionSecurity implements RefreshFamily.* Who commits a rotation holds the newest credential
  (`ClaimIsExclusive`, `Chain`), and nobody has redeemed it, because what was redeemed is used
  (`RedeemInv`). A revocation may come between the claim and the `COMMIT` of an overlapping rotation:
  the abstract `Redeem` therefore does not ask that the family is alive, and makes a credential
  that is refused.
- *AccountLifecycle implements Account.* `WholeInv` says at each place what a call has written, so
  what it commits is the set of writes of one use case, or a discarded token, or nothing
  (`CallsWhole`), and that what it found of the account (it is there, its address is verified) nobody
  can undo (`CallsFound`). `NothingComesBack` is then read off the actions of `Account` through the
  mapping; that an address stays verified is `UserGoesForward`.
- *Bootstrap implements FirstAdministrator.* From its count to its `COMMIT` the holder of the lock sees
  a platform without an administrator, and the token it found unspent, so its `COMMIT` is a claim
  (`CommitIsAClaim`); one that ends in any other way has made no administrator (`DoneIsEmpty`).
- *ProtocolStore implements OneUseStore.* By `PendingShape` a row that a consumption or a revocation has
  changed is still unspent at `COMMIT`, so it is `Consume` or `Revoke`; a put and a destroy are `Put` and
  `Remove`, and what they commit is of one table (`OneTable`). Who won a stored artifact is a set of
  calls the abstract specification keeps to one; `WinnersAfter` and `WinnersStay` say how each
  `COMMIT` changes it.

The proofs made some definitions sharper. Where several guards of a `CASE` could hold at once its value
is not determined in TLA+, although TLC takes the first: `Refusal`, `Persistence`, `Matches`,
`ExpiresAt` and the status of `DecideCall` now have one value, the one of the first condition in the
code. `SerialMerge` requires of a call that supersedes another that it wrote that interaction, and
`WriteAtMostOnce` bounds each attempt instead of their sum.

**Only model-checked:** liveness under fairness (`EveryRequestSettles`), and the
conjuncts of `RedeemsGoOn` and `NoStandstill` that say with `ENABLED` that a call which does not wait can
go on; the prover can treat neither. That the calls never all wait, the other conjunct, is proved. The
properties of the four runs that end in a counterexample are false, so there is nothing to prove of
them.

## 5. Not modelled

- Cryptography, formats, validation of requests, logging: a code, token, password or nonce is right
  or wrong, known or not.
- The connection pool (10 connections): whether the session owner takes a second connection while
  redeemOtp holds one cannot be read off the repository, which has no implementation of it.
- The timeout middleware in front of the public routes: its effect, an answer nobody gets for work
  that is done, is the lost reply every module has. In front of the boundary it is in `Boundary`.
- Malformed requests (schema, size and header checks of the boundary, 400 and 404 of the decide route):
  no client of the repository sends one, and a refusal changes no state.
- Shutdown of the protocol process: its calls and the provider's memory end with it.
- Retries of the mail provider; the outbox dispatcher, which the code does not have yet.
- The OpenID provider itself. That an exchange is a find, a consume and tokens, and what cookies
  identify an interaction, is taken from how the code in `src/apps/protocol` uses it. Whether the
  cookie of `/consent/<uid>` reaches the routes under `/interaction/<uid>` is up to the library and the
  deployment, so every call that needs it may find the interaction or throw (`Found`).
- Client registry and signing keys, which are only read.
- Constructors of the domain's values, code generation (pure, without state), page rendering, the
  component library, and the scripts of the build: security proof, domain gate, purity rules.

## 6. Plan

Done, in this order: `OtpLogin` with `OneTimeCode`, `SessionSecurity`, `RateLimit`,
`AccountLifecycle`, `Bootstrap`, `Boundary`, `ProtocolStore`, the proofs of the first two, then the
exchange and the interaction port in `ProtocolStore`, `ConsentCeremony`, and `Startup` with the
stops, starts and timeouts of `Boundary`; then the step simulation of `OneTimeCode` and the proofs of
every other module; then `Account`, `FirstAdministrator`, `RefreshFamily` and `OneUseStore` with the
proofs that the modules implement them.

Next, proofs: the lemmas that several modules prove for themselves (a call that ended stays as it is,
a lock is exclusive) stated once.

Next, modelling: liveness of rotation and of the account calls, under the fairness of a transaction
that goes on when its row is free; and, when the outbox gets a dispatcher, a module for it.
