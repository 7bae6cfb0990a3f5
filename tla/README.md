# A TLA+ model of fastapi-production-starter

This directory holds TLA+ modules that model the stateful parts of the service
under `src/app` and its migrations, TLC configurations that check them on small
instances, and TLAPS proofs of what matters most for every value of the
parameters. `PROJECT.json` says, for every definition, which lines of the source
it stands for, and lists the runs, the theorems, the mutants and the hazards.

```
tlc -workers 2 -config CircuitBreaker.cfg MCCircuitBreaker     # one run
tlapm CircuitBreaker_proofs.tla                                # one proof module
```

Contents: 1 the system, 2 the modules, 3 the runs, 4 fairness, 5 the proofs,
6 where code and documents disagree, 7 what is not modelled, 8 what could follow.

## 1. The system

The service is a FastAPI application: routers call services, services use one
SQLAlchemy session per request, and cross-cutting helpers live in `app/core`.
Several server processes run the same code, each with one asyncio event loop.
They share the database and, with `CACHE_ENABLED=true`, a Redis. Celery workers
run the daily clean-up. Nothing in the code holds a lock across requests except
the breaker's `asyncio.Lock` and the one of `init_db`, so in practice **every
`await` on the database, on Redis or on the network is a point where any other
request may run, and where a request or a process may die**. That is the
granularity of all models here.

| component | state | operations | talks to |
|---|---|---|---|
| circuit breaker (`core/circuit_breaker.py`) | `_state`, `_failure_count`, `_opened_at`, `_half_open_calls`, per process | `call`, `async with`, `record_success`, `record_failure` | the downstream calls it is put around; no module of the application uses it yet |
| JWT sessions (`routers/auth.py`, `core/auth.py`, `core/deps.py`, `tasks/cleanup_tasks.py`) | signed tokens in the hands of clients, rows of `revoked_tokens`, rows of `users` | login, refresh, logout, bearer check, daily purge | login throttle, audit log, GDPR erasure |
| login throttle (`core/throttle.py`) | a counter per username, in Redis with a TTL or in a dict of the process | `check_login_throttle`, `reset_login_throttle` | called around the password check of login |
| API keys (`services/api_key_service.py`) | rows of `api_keys` | issue, revoke, rotate, authenticate | guards of protected routes |
| idempotency middleware (`core/idempotency.py`) | a stored response per key in Redis, and a dict per process | `dispatch`, `_get`, `_set` | wraps every POST and PATCH handler |
| feature flags (`services/feature_service.py`) | rows of flags and overrides, a Redis entry for each with a 60 s TTL | `is_enabled`, `set_flag`, `set_override`, `delete_override` | guards of routes, admin routes |
| webhooks (`services/webhook_service.py`) | endpoints, the delivery log | register, delete, `dispatch_event`, `replay_delivery` | receivers over HTTP |
| accounts (`services/user_service.py`, `routers/user.py`) | rows of `users`, and what mentions a user without a foreign key | register, change, soft-delete | all of the following five |
| password reset (`routers/auth.py`) | the token in the mail | request, confirm | accounts, audit log |
| OAuth and SAML (`services/oauth_service.py`, the callbacks) | rows of `oauth_accounts` | find or create the user of an identity | accounts |
| GDPR (`services/gdpr_service.py`) | – | pseudonymise, erase, export | accounts, links, keys, roles |
| roles and permissions (`services/rbac_service.py`) | roles with a parent, their permissions, who holds them | create, assign, grant, revoke, check | guards of routes |
| audit log (`services/audit_service.py`, `routers/audit.py`) | rows of `audit_logs` | log, list in pages, export; retention by hand | almost every handler |
| service-to-service (`core/s2s.py`) | the nonces seen and their expiry, per process | sign, verify, evict | guards of internal routes |
| websockets (`core/ws.py`, `routers/ws.py`) | a dict from users to lists of sockets, per process | connect, disconnect, broadcast | clients |
| secrets (`core/secrets.py`) | the caches of the Vault and AWS providers, per process | get | configuration |
| database set-up (`db/database.py`) | engine, session factory, "tables created", a lock | `init_db`, the session of a request | everything |
| migrations (`alembic/`) | the schema and its version | upgrade, downgrade, next to `create_all` | database set-up |
| migration helpers (`db/migration_helpers.py`) | the rows of the table being migrated, a cursor; `data_migration_log` | `backfill_in_batches`, `safe_backfill`, `run_idempotent_migration` | the application, which goes on writing to the same table |

### What is hard, and what makes each part correct

* **Breaker.** A call is admitted in one critical section and its outcome is
  recorded in another; in between the circuit may open, go half-open or close.
  Probing must be rationed and must wait out a quiet recovery timeout, only
  consecutive failures may open it, and it must not get stuck.
* **Sessions.** Two refreshes, or a refresh and a logout, race with one token;
  the unique index on `revoked_tokens.jti` is their only meeting point. A
  session must never fork, and a revoked token must stay refused while the purge
  deletes rows behind it.
* **Login throttle.** INCR and EXPIRE are two round trips, resets come from
  other requests, processes die in between. The number of guesses must be
  bounded, and a lockout must end.
* **API keys.** Each operation is a SELECT and a later UPDATE that does not
  depend on what was selected. Revocation must be final and rotation must leave
  exactly one working key with the old term.
* **Idempotency.** Several processes look up, run, and store without a lock;
  Redis errors are swallowed. A retry must be replayed, an effect must not be
  repeated, and a stored response must not be lost or outlive its TTL.
* **Flags.** The cache is filled and invalidated by different requests. A wrong
  entry must be bounded in time.
* **Webhooks.** One transaction spans many POSTs; replays overwrite each other.
  The delivery log must never claim what did not happen.
* **Accounts.** No address is protected by a constraint, rows refer to users
  without foreign keys, and a request commits a row it loaded some awaits ago.
  Addresses must stay apart, an erased account must leave nothing that its id's
  next owner inherits, an identity must keep its account, a scrubbed address
  must not come back, and the last change must stand.
* **Roles.** A check is a walk of several SELECTs while administrators change what
  it walks over. It may miss nothing that was granted all along and give nothing
  that is not granted at all.
* **Audit log.** Entries are dated before they are committed and pages count from
  the newest: what a reader has not seen moves under its offset.
* **Service-to-service.** Two windows of time, one for timestamps and one for
  nonces, must close in the right order, whole seconds on one side.
* **Websockets.** A broadcast gives way at every send to tasks that change the
  dict and the lists it iterates over.
* **Secrets.** A cache with one stamp per key, filled for all keys at once.
* **Database set-up.** The first requests all find no tables; creation may fail
  under the lock, and the URL may change under a creation.
* **Migrations.** Runs overlap, fail and die; `create_all` makes tables of its
  own; upgrade and downgrade must be each other's inverse.
* **Backfill and run-once.** Pages are selected while rows come, change and go. No
  old row may be skipped, no value of the application overwritten, and the loop
  must end. A migration that several replicas start takes effect once.

## 2. The modules

Every component has a module with its state, one action per step between two
awaits, its properties and, next to some definitions, a *mutant*: the same
definition with a plausible bug (its name carries a suffix, `Exchange_noRevoke`),
which the properties are known to catch. Mutants are used by nothing else. An
`MC...` module only gives TLC its model values, sets and symmetries, or puts
modules side by side; a `..._proofs` module holds theorems. Variables commented
"history" exist in no program: they remember what a property talks about and
guard no action.

**`CircuitBreaker`** (with **`FowlerBreaker`**, the documented three-state
diagram, as its abstract specification). `Admit*`/`Reject` are
`_check_and_maybe_transition`; `Finish` is the outcome section, with
`record_success`, `record_failure` (`ReopenAfterProbe`, `CountFailure`) and
`Unrecorded` for what neither entry point records. Both entry points are there
(`style`): `call()` records an `Exception`, `__aexit__` records a cancellation
too. Ends: success, failure, cancelled, refused by a nested breaker. Time is the
age of `_opened_at`, saturating at the timeout, which is all the code compares.

**`AuthTokens`** (with **`Sessions`** as its abstract specification). A request slot walks `lookup → userload → loaded → …`, one
step per await. `Revoke` is INSERT and COMMIT with the unique index deciding a
race; `Exchange` then `Reissue` is refresh, `LogoutAccess` then `LogoutRefresh`
then `LogoutDone` is logout including the 401 in the middle. `Crash` ends any
request anywhere; `EraseAccount` is the part of GDPR erasure that matters here;
`Cleanup` is the purge, with `SessionBound` standing for whether
`cleanup_tasks` imported `SessionLocal` before `init_db` had set it. `Sessions`
knows no requests, rows or clock: a session is of one user and has one live refresh
token, which a refresh turns in and replaces in two steps (`TurnIn`, `HandOut`) and
which `Close` takes away for good. Its live token is the one of the login that was
never revoked, and a session is disputed once a token of it was revoked twice.

**`LoginThrottle`.** One username on both backends. `Incr` then `Expire` with
Redis, `CountLocally` with the dict, then `Wrong`, or `Right` and `Reset`.
`Fail` and `RestartProcess` may strike at any await.

**`ApiKeys`** (with **`KeyLines`**, what `docs/identity/api-keys.md` promises, as its
abstract specification). `CreateKey` with `Issue`; `Begin…` is the SELECT of an
operation, `Commit…` its UPDATE; `Die`, `Tick`. `line` says from which issued key a
key descends by rotation. `KeyLines` knows no requests: a line has one working key,
which `Rotate` replaces and `CloseLine` takes away for good. It is refined with the
lines that two requests changed at once as its `disputed` ones.

**`Idempotency`.** One key. `Arrive`, `Look`, `Run` or `HandlerRaises`, `Store`,
for several processes that `Restart`; each Redis command may raise, and a SET that
raises may have been carried out.

**`FeatureFlags`.** One flag key with its user, tenant and global cell.
`IsEnabled`, `RedisGet`, `Query`, `Fill` are a lookup; `Find`, `Commit`,
`Refresh`, `Clear` the three writes, with the unique constraints, the vanished
rows and the foreign key that decide a race. `held` bounds how long a lookup may
sit between its SELECT and its SET; without such a bound nothing at all could be
said of staleness.

**`Webhooks`.** `DispatchEvent`, `Insert`, `Post`, `CommitDispatch` with a
rollback of everything when an INSERT fails; `ReplayDelivery`, `PostAgain`,
`CommitReplay`, where the UPDATE writes the columns that differ from what was
loaded, as SQLAlchemy does; `PostEndpoint`, `RequestDeletion`, `DeleteEndpoint`,
with the ORM cascade and PostgreSQL's foreign keys; `CrashDispatch` and
`CrashReplay`, between POST and commit too.

**`Accounts`.** The rows of users, the links of identities, and the ids that keys
and roles mention, under any mix of requests: `PostUser`, `CheckEmail`,
`InsertUser`; `BeginUpdate`/`CommitUpdate`, `BeginRekey`, `BeginDelete` and their
commits; `RequestReset`, `BeginReset`, `CommitPassword`; `RequestPseudonym`,
`RequestErasure`, `CommitErase`; `BeginIssue`/`CommitIssue`; and
`get_or_create_oauth_user` as `Callback`, `FindLinked`, `MatchByEmail`,
`MatchNobody`, `CommitLink`. An UPDATE has the columns that changed, an INSERT
meets the primary key, `Die` ends a request or a token anywhere.

**`Roles`.** `ReadOwn` and `ReadParent` are the two SELECTs the walk alternates
between, with its set `visited`; every administrative write is one commit.

**`AuditLog`.** `Make` dates an entry and `CommitEntry` shows it; `Open`,
`ReadPage` is a client paging by offset, `Export` the export with its limit,
`Retain` the DELETE that the documentation gives for retention.

**`SignedRequests`.** `SignRequest` on a clock that may be ahead, `Deliver` of an
intact or damaged copy, again and again, with the eviction in front of it,
`RestartVerifier`. The clock has fractions of a second, the timestamps do not.

**`Sockets`.** `WebsocketEndpoint`, `ClientLeaves`; `NextKey` and `Send` are
the two nested loops of a broadcast, over a dict that raises when its size
changed and lists that shift under the iterator.

**`SecretCache`.** A store whose values rotate, and the caches of both providers.

**`DatabaseSetup`.** `EnterInitDb` up to the lock, `TakeLock`, `CreateTables`
or `FailToCreate`, `CancelTask`, `CloseSession`, `SwitchUrl`, `RestartProcess`. The
lock is its queue: asyncio serves waiters in order.

**`Migrations`.** The schema as a set of objects, and a run of alembic as the
revision it is at with the number of statements behind it. `StartUpgrade` and
`StartDowngrade` read the version; `RunAll` does it all in one transaction; without
one, `RunOne` executes a statement and `MoveVersion` ends a revision; `RunDies`.
`CreateAll` is the start of the application.

**`Backfill`.** `Begin`, `Page`, `Update`, `Commit` is
`safe_backfill` over `backfill_in_batches` in the one transaction of the script
in `docs/migrations/zero-downtime.md` (READ COMMITTED, written rows locked);
`Insert`, `Change`, `Delete` is the application. The two ways to call it, with
the `where_clause` and without, are both in the state.

**`RunOnce`.** `run_idempotent_migration`: `EnsureLog` with CREATE TABLE IF NOT
EXISTS, `CheckLog`, `RunSql`, `Record`, `CommitRun`, `AbortRun` at any step.

**Side by side.** `MCPlatform` (accounts, roles, audit log, signed requests,
sockets, secrets), `MCDatabase` (backfill, migrations, set-up, run-once) and
`MCRedis` (idempotency and throttle) put modules with disjoint state into one
state space: a variable `part`, chosen at the start, says which of them moves, and
the others keep their initial states. It is a sum of the spaces, not a product,
and checks each part as if alone. Composition proper, where parts share
state, is inside the modules: `Accounts` joins registration, profile,
reset, erasure, issue and callbacks on the same rows, `AuthTokens` joins login,
refresh, logout, erasure and purge, `Migrations` joins alembic and `init_db`.

## 3. The runs

State counts are distinct states. Runs that expect a violation check one
property that a document or comment of the repository states.

| run | instance | states | shows |
|---|---|---|---|
| `breaker` | 3 tasks, both entry points, threshold 2, timeout 2, 2 probe slots | 5,538 | `ProbeSlots`, `QuietBeforeProbe`, `OpensOnConsecutiveFailures`; `FowlerExceptLate`: every step is one of the documented diagram, late results excepted; `HalfOpenResolvesInWith` |
| `breaker_wedge` | as above, one slot, a nested refusal possible | – | violates `HalfOpenResolves` |
| `tokens` | 1 user, 4 tokens, 2 requests, lives 1 and 2, clock to 3 | 929,610 | `ConsumedOnce`, `RevokedIsRefused`; `KeepsItsSessions`: it implements `Sessions` |
| `api_keys` | 3 keys, 3 requests, term 2 | 287,441 | `RevocationIsFinal`, `LineKeepsItsTerm`, `OneActivePerLine`; `KeepsItsLines`: it implements `KeyLines` |
| `redis` | idempotency: 2 processes, 3 requests, TTL 3; throttle: 3 attempts, limit 2, lockout 3; with Redis and without | 524,456 | `RetryReplays`, `EffectOnce`, `ReplayedWithinTtl`; `GuessesBounded`, `EveryKeyGetsItsTtl`, `LockoutEndsUnlessDied` |
| `throttle_orphan` | the throttle with Redis | – | violates `LockoutEnds` |
| `flags` | 1 lookup, 2 writers, user and global cell, TTL 1, pause 1, faults | 2,988,610 | `BoundedStaleness` |
| `webhooks` | 2 endpoints, 2 deliveries, 1 dispatch, 2 replays, given up after 3 attempts, no replay after 3 POSTs | 696,762 | `LogIsHonest`, `EveryPostLoggedUnlessDeleted`, `AttemptsCountPosts` |
| `webhooks_lost_log` | one replay, given up after 2 attempts | – | violates `EveryPostLogged` |
| `database` | backfill: 4 rows with gaps between their keys, pages of 1 and 2 (334,886 states); schema: 2 runs of alembic, both kinds of DDL (984); set-up: 3 tasks, 2 URLs, 2 switches (1,949); run-once: 2 replicas, 3 calls (117) | 337,936 | `EveryRowFilled`, `ProcessedIsExact`, `OwnValuesKept`, `Finishes`; `SchemaFollowsVersion`; `SessionHasTables`, `NobodyWaitsForEver`; `AppliedOnce` |
| `schema_drift` | 2 runs of alembic and `create_all` | – | violates `MigratedSchemaServes` |
| `platform` | accounts: 1 chosen and 1 generated id, 2 addresses, 1 identity, 2 requests (3,364,535 states); roles: 3 roles, 1 check (189,752); audit log: 3 entries, pages of 1 (21,373); signed requests: 2 nonces, tolerance 2 s, skew 1 s, half-second ticks (43,599); sockets: 2 users, 3 sockets (242,825); secrets: 2 keys, TTL 2 (117,281) | 3,979,365 | `EmailsUnique`, `LinksFollowAccounts`, `LastChangePrevails`, `ScrubbedStays`, `IdentityKeepsItsAccount`; `CheckIsBracketed`; `PagesMissNothing`; `AcceptedOnce`; `BroadcastDelivers`; `AnswersAreRecent` |

**Why these bounds are enough to be interesting.** Each hazard needs at most two
actors that race and a third that spoils their race: three tasks for a straggler
that meets a probe and a fresh call, three attempts for one at EXPIRE, one that
resets and one that opens the next window, three requests and three keys for a
rotation that races a revocation while the key is in use. Four tokens are two
pairs, hence one login and one refresh; a second refresh that
wins the same race shows as a request about to make a pair, which stands for the
session like a token, so it needs no more of them. Webhooks
needs three attempts where the code has five: with two, a replayed row is never
pending again and two replays cannot disagree on it. The middle cell of the flags
(tenant) does nothing that the user's does not.

In `platform` two accounts are enough for an address or an identity to be in
dispute, and two requests for a race, because pseudonymisation is a third actor
that needs no slot; three roles make a chain with a middle, and a
diamond when the user holds two of them; three entries let one page move while
another entry is committed late and a third is deleted; three sockets of two users
put a neighbour in the list and a neighbour in the dict; a tick of half a second is
what a timestamp cut to seconds can lose. Time spans are the smallest at which
"before", "at" and "after" the limit differ; where a sliding span matters
(throttle, idempotency) it is three.

The clocks (`MaxTime`, `LastTick`, `LastHour`, `LastMoment`), `CountCap`, `PostCap`,
`SwitchCap`, `RunCap` and the finite sets of ids, tokens, keys and uuids are bounds
of the model, named as such in the modules; capped counters stop above every
value the code compares them with. Runs whose system can really stop because such
a supply is used up say `CHECK_DEADLOCK FALSE` and why. Symmetry is used only in
runs without liveness properties. The proofs of section 5 remove the bounds for
most of these properties.

**Conditions in the properties.** Several properties hold only under a condition,
which is part of the formula and carried by a history variable, because the code
promises no more: `died`, `faulted`, `lost`, `crashed` (something failed),
`overlapped`, `contended`, `raced`, `overtaken`, `left` (two actors worked on the
same thing at once), `unasked`, `early`, `spoiled` (the code did not look, or the
outside broke a rule). None is there for convenience: TLC finds the property false
without it, and section 6 says what happens then. The sessions in
`Twice`, in which a token was consumed twice, are of the same kind: a
refresh may pass its lookup, wait until its token has expired, and revoke it again
after the purge has removed the row that a faster rival left.

## 4. Fairness

* `breaker`: weak fairness of `Tick` (time passes) and, per task, of "this
  call ends somehow". A downstream call that never ends would hold its slot for
  ever, and the code has no timeout of its own: that it ends is an assumption
  about the caller.
* Throttle: weak fairness of the clock and of each attempt's `Expire`: a
  coroutine that awaits Redis is resumed, or it fails. No attempt need ever be made.
* Backfill: weak fairness of the script between its statements, and nothing
  about the application or about crashes. A crash ends the script, which
  satisfies `Finishes`.
* Database set-up: weak fairness of the task that has the lock (`TakeLock`), and of
  the database answering or the driver giving up (`CreateTables` or
  `FailToCreate`). That the waiters are served in their order is not fairness but
  the lock's queue. Cancellation, restarts and switches are free.
* No other part has a liveness property. Webhooks and the purge have none to
  check: nothing in the repository ever reads `next_retry_at`. The other parts
  answer each request in a bounded number of steps and wait for nobody.

## 5. The proofs

All theorems are for any values of the constants, under the `ASSUME`s of the
modules only, which TLC evaluates on every run: parameters are natural numbers,
thresholds and TTLs are positive where the code needs it, some sets are finite or
not empty, and the values that stand for "none" are not members. All are
`Spec => []Inv` or `Spec => [][A]_vars`, or that a module implements its abstract
specification. The scheme is the same everywhere: type correctness first, a
strengthening that is inductive, one step per action, and the property from it.
Type invariants are proved and not run.

| module | theorem | inductive invariant, and why it is needed |
|---|---|---|
| `CircuitBreaker_proofs` | `TypeCorrect` | |
| | `ClosedIffBelowThresholdHolds`, `QuietBeforeProbeHolds`, `OpensOnConsecutiveFailuresHolds` | `CountInv`: besides the agreement of state and count, while closed the count *is* the streak of failures; while open no failure is younger than `_opened_at`; half-open means no fresh failure. The action properties are then immediate |
| | `ProbeSlotsHold` | that a running probe holds a slot, by counting the set of probes as it gains or loses a member (needs `Calls` finite) |
| | `SequentialIsFowler` | with at most one caller the breaker refines `FowlerBreaker` exactly: a lone call in flight is never late (`LoneCallFresh`) and `_opened_at` is unset unless open (`AgeInv`) |
| | `FowlerExceptLateHolds` | with any number of callers, every step but a late result refines a step or a stutter of `FowlerBreaker`; `AgeInv` gives the mapping of `waited` |
| `AuthTokens_proofs` | `TypeCorrect` | |
| | `ConsumedOnceHolds`, `RevokedIsRefusedHolds` | `ConsumedInv`: a token revoked and not expired still has its row (so the purge may be there), and requests carry issued tokens only |
| | `OneUsablePerSessionHolds` | `SessionInv`: the same for tokens that were never revoked instead of tokens without a row, which the purge can take away, together with the fact that a session starts with an issued refresh token of the same user. It speaks of each session by itself: a token consumed twice in one spoils no other |
| | `KeepsItsSessionsHolds` | the module refines `Sessions`: each commit of a revocation turns a token in, closes the session, or makes it disputed, according to whether its token was the unspent one; a new pair opens a session or hands out its next token; the death of a refresh after its commit closes the session; all other steps are stutters |
| `ApiKeys_proofs` | `TypeCorrect`, `RevocationIsFinalHolds` | |
| | `LineKeepsItsTermHolds` | `TermInv`: lines are rooted in issued keys, and a key in use has the time left that its root has; `Used`: a request holds an issued key |
| | `OneActivePerLineHolds`, `ClosedStaysClosedHolds` | `LineInv`, that every line without overlap is `Sound`: one active key at most, none once closed, at most one request about to change it, and a rotation about to commit has the active key |
| | `KeepsItsLinesHolds` | the module refines `KeyLines`: each commit is one step of a line, or none, and each SELECT none, or it makes a line disputed. `LineInv` and `TermInv` say which key a commit finds in place; `DisputedInv`: only a line that was started is disputed |
| `Redis_proofs` (throttle) | `ThrottleTypeCorrect`, `EveryKeyGetsItsTtlHolds` | the property is inductive by itself once types are known |
| | `GuessesBoundedHolds` | `WindowInv`, which speaks of every span up to a lockout and not of the longest only: a span saw at most one full count before the present one, and a span no longer than what the present key or entry has lived saw its attempts alone. So when a key expires, and the count begins anew, every span is back to one full count |
| `Redis_proofs` (idempotency) | `TypeCorrect` | |
| | `RetryReplaysHolds`, `ReplayedWithinTtlHolds` | `RedisInv`: while Redis answers, the time left of the entry is that of the last store, and the dicts are empty |
| | `StoredSomewhereHolds` | `KeptInv` |
| | `EffectOnceHolds` | `EffectInv`: in a calm history at most one request is under way, an effect that still counts is stored or about to be, and a handler that runs has no recent effect behind it |
| `Webhooks_proofs` | `TypeCorrect` | with lemmas that say what one changed field does to a record of a row, a dispatch or a replay |
| | `LogIsHonestHolds` | `HonestInv`: not only the rows but both copies a replay carries, what it loaded and what it will write, claim no more than the POSTs so far; since POSTs only grow in number, an honest copy stays honest while it waits |
| | `EveryPostLoggedUnlessDeletedHolds`, `AttemptsCountPostsHolds` | `WorkInv`, while no process died: the rows that a dispatch has made are its own drafts, what it has yet to do was registered, a replay holds a committed row only, and the POSTs of a row are the count in the row or in the hands of its one replay |
| `FeatureFlags_proofs` | `TypeCorrect` | |
| | `BoundedStalenessHolds` | `AgeInv`: the time for which an entry has been wrong and the time it has left are together within the bound, and a lookup about to fill an entry with a wrong value has held it for as long as it has been wrong |
| `Platform_proofs` | `EmailsUniqueHolds` | `UniqueInv`: a request that found its address free, and no rival for it, is the only such request, and no account that was asked for in this way has the address |
| | `LinksFollowAccountsHolds` | `LinksInv`: besides the property, the account of a request that is about to add a reference to it is there, or its erasure was noticed (`raced`). `FreshInv`, a lemma of its own: an id from uuid4 belongs to its request alone until it is inserted |
| | `IdentityKeepsItsAccountHolds` | `HomeInv`: the account an identity signs in to is the one its link names, and a request that has read the link holds what it still says, unless an erasure came between |
| | `LastChangePrevailsHolds` | `LastInv`: a lone profile change of an account has seen the address that was last asked for |
| | `ScrubbedStaysHolds` | `ScrubbedInv`: no profile change of a scrubbed account is under way, and it is soft-deleted, so none begins |
| | `AcceptedOnceHolds` | `NonceInv`: the nonce of a request accepted in time is remembered at least until its timestamp is refused. With the lemma that a timestamp is cut by less than it is compared with |
| | `AnswersAreRecentHolds` | `SecretInv`: whatever either cache holds was the store's at the moment of its stamp or later, which is not after the clock's |
| | `CheckIsBracketedHolds` | `RolesInv`: the roles a walk has visited and those it has yet to visit cover the part of the lineage that stood all along, and what it has read lies between the permissions granted all along and those granted at some time |
| | `PagesMissNothingHolds` | `AuditInv`: an entry the reader has still to get, if it shares its moment with no other, has at least as many entries before it as the offset says. The proof counts the entries before it (`Rank`) through every commit and every page |
| | `BroadcastDeliversHolds` | `ListsInv`: a socket is in one place at most; `CastInv`: ahead of the two cursors of a broadcast nobody was sent the message, and behind them, until someone left, every open socket of the audience was, once |
| `Database_proofs` (backfill) | `TypeCorrect` | `TypeInv`: pages are not empty when updated. It rests on lemmas that a finite set of numbers has a least and a greatest element (`LeastElement`, `GreatestElement`) and that a page is an initial piece of what matches (`FirstOfIsClosed`, `FirstOfNonempty`) |
| | `EveryRowFilledHolds` | `FilledInv`: of the rows that were there when the script began and still are, those before the cursor are filled, those up to the end of a page are filled or on it, and none lies beyond `max_pk` |
| | `ProcessedIsExactHolds`, `OwnValuesKeptHolds` | `PageInv`: with a filter, a page only has rows that the script has not written and, unless something raced, that are NULL or gone |
| `Database_proofs` (set-up) | `SessionHasTablesHolds` | `TablesInv`: unless overtaken, the flag speaks of the engine's database, and whoever creates tables does so there |
| `Database_proofs` (run-once) | `AppliedOnceHolds` | `RunInv`: at most one open transaction has inserted the row, and none while a row is committed |
| `Database_proofs` (migrations) | `SchemaFollowsVersionHolds` | `SchemaInv`: in one transaction nothing is ever half done; without, and unless spoiled, one run is under way, nobody moves the version under it, and what it has made so far is there. It rests on lemmas about the statement lists: `DroppedIs` says what each downgrade drops, a dropped table with all that belongs to it, and `DowngradesUndo` that this leaves what the revisions before its own have made |

What stays with TLC is liveness (`HalfOpenResolvesInWith`, `LockoutEndsUnlessDied`,
`Finishes`, `NobodyWaitsForEver`), since TLAPS has no usable rule for fairness and
`ENABLED`. Every invariant and every action property of the passing runs is a
theorem.

`ClosedIffBelowThreshold`, `ClosedStaysClosed` (covered by `KeepsItsLines`),
`OneUsablePerSession` (covered by `KeepsItsSessions`) and `StoredSomewhere` are
proved and not run. No module here declares a `RECURSIVE`
operator.

## 6. Where code and documents disagree

Shown by runs that expect a violation:

1. `core/circuit_breaker.py:121`. `call()` gives no slot back when a probe is
   cancelled or is refused by a nested breaker; with the slots gone the circuit
   rejects every call for ever (`breaker_wedge`). The context manager does not
   have the problem with cancellation (`HalfOpenResolvesInWith`).
2. `core/throttle.py:17`. A request that dies between INCR and EXPIRE leaves a
   counter without TTL; once past the limit the user is locked out until someone
   deletes the key (`throttle_orphan`).
3. `services/webhook_service.py:102`. An endpoint deleted during a dispatch makes
   the dispatch raise and loses the log of POSTs already sent
   (`webhooks_lost_log`).
4. `alembic/versions/0002_audit_log.py:18`. No revision creates
   `audit_logs.hmac_signature`: after the documented "run migrations, start app"
   every audit entry fails to be inserted (`schema_drift`).

Seen while modelling, and expressed by conditions of the properties that hold:

* **Breaker.** A result that arrives late moves the breaker whatever episode it
  belongs to: a success admitted while CLOSED closes an OPEN circuit without a probe
  (`LateResult`). Since slots are reset by each episode, probes of earlier
  episodes may run beside `half_open_max_calls` new ones; `ProbeSlots` speaks of
  the current episode only.
* **API keys.** Two rotations of one key that overlap leave two working
  replacements, and a rotation that overlaps a revocation leaves one
  (`overlapped` in `OneActivePerLine`, `disputed` in `KeyLines`).
* **Idempotency.** A process that dies between the handler's commit and the store
  repeats the effect on retry, and a swallowed GET error does the same (`lost`,
  `faulted` in `EffectOnce`). Entries of the in-process dict never expire, so
  `ReplayedWithinTtl` is a promise of the Redis backend alone.
* **Flags.** A lookup that read before a commit may fill the entry after the
  invalidation, so "invalidated automatically" means up to 60 seconds and one
  slow lookup later (`services/feature_service.py:115`, `BoundedStaleness`).
* **Accounts.** The address has no unique constraint: two registrations that both
  look first make two accounts with it, and `update_user` does not look at all
  (`unasked` in `EmailsUnique`). Two profile changes at once can undo each other
  (`contended`), and one that overlaps a pseudonymisation brings the address back
  (`scrubbed` says which pseudonymisations had no rival). Pseudonymisation leaves
  the username and the fields of `oauth_accounts`. Soft-deleted users may log in,
  and may reset their password. A link that outlives its user would lock the
  identity out: the callback passes it over, and then fails on the unique
  constraint; `raced` says when that can happen.
* **Roles.** Revoking the last role of a user brings the built-in permissions of
  `User.role` back; granting what is assigned already raises.
* **Audit log.** Entries with one timestamp have no order, so a page may repeat
  one and miss another (`Tied`); an export is cut at 10,000 entries and does not
  say so.
* **Service-to-service.** The expiry of a nonce counts from its arrival, so a
  request that comes before its timestamp can be accepted a second time at the end
  of its window (`early`).
* **Websockets.** A connection that leaves during a broadcast makes the iteration
  pass over its neighbour, or abort with `RuntimeError` (`left`); a send that
  fails takes the rest of the broadcast with it, and an endpoint that ends other
  than by a disconnect leaves its socket in the list (`stuck`).
* **Secrets.** Vault's cache keeps a key that the store has dropped until its
  own stamp is too old.
* **Database set-up.** A creation under way when the URL changes raises the flag
  for a database it has not touched (`overtaken`).
* **Migrations.** A database whose tables `create_all` made cannot be upgraded
  later, the first revision finds its tables there (`spoiled`).
* **Run-once.** On a database without the tracking table two replicas meet already
  in CREATE TABLE IF NOT EXISTS: the second waits for the whole transaction of the
  first, and may then fail. The effect is still applied once.
* **Backfill.** Without a `where_clause` the last row of a page is updated again by
  the next, `processed` counts it twice, and with pages of one row, or when the row
  with the highest key is deleted on the way, the loop may never end
  (`MayBeEndless`). A value that the application sets between the SELECT of a page
  and its UPDATE is overwritten (`raced`). The script of the guide runs all batches
  in one transaction, so its row locks last until the end.
* **Webhooks.** Two replays of one delivery at once lose an attempt of the count
  (`contended`); a replay does not reset `attempts`; nothing reads
  `next_retry_at`, so no retry ever happens by itself.
* **Purge.** `cleanup_tasks` binds `SessionLocal` by value; imported before
  `init_db` the purge raises every day (`SessionBound = FALSE`). No safety
  property depends on the purge.

Seen in parts that no property covers: the readiness probe answers 503 with a body
that says "ready"; the key of the cache decorator leaves out the first argument;
`sa.String()` without a length cannot be compiled for MySQL, whose timestamps
would also drop the microseconds that audit signatures cover; without Redis every
process counts logins for itself, so that n of them allow n times the limit.

## 7. What is not modelled

* Data: names, hashes, signatures, bodies, headers and scopes, wherever no
  property tells them apart.
* The protocols of OAuth and SAML: Authlib, python3-saml and the providers do
  them. What their callbacks do with the answer is in `Accounts`.
* The GDPR export and all listings: they read, in one request, and change nothing.
* The read replica and the tenant filter of `db/`: the first is a second engine
  without state of its own, the second one WHERE clause.
* The cache decorator, the event bus, background jobs: the decorator repeats the
  fill race of `FeatureFlags` without an invalidation; listeners are
  called in order in the caller's task; jobs are handed to Celery.
* Configuration, logging, telemetry, health, middleware: settings, formatting and
  calls into libraries. The rate limits are SlowAPI's own state.
* Object storage, e-mail, the CLI, schemas: input, output and validation.

Assumptions on the environment: PostgreSQL at READ COMMITTED with foreign keys and
unique indexes enforced (`Migrations` also covers databases without transactional
DDL); a Redis whose single commands are atomic and which keeps what it was told
until the TTL (its loss of data is not modelled, its errors are); one event loop
per process; clocks that agree between processes up to the resolution of the
model, except for the signer's in `SignedRequests`.

## 8. What could follow

* An abstract specification for `Accounts`, at most one account per identity and
  address, refined where no request races another.
* `AuthTokens` and `Accounts` on one table of users, so that what becomes of an
  account's sessions after a reset or a pseudonymisation could be asked of both.
