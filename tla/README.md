# TLA+ models of token-engine

token-engine is a gRPC service that issues, refreshes and revokes JWTs on top of
the `jwtauth` library. Several replicas run side by side; everything they share
is in Redis. This directory holds TLA+ models of the parts of the service in
which requests, replicas, timers and failures meet, the TLC configurations that
check them on small instances, and TLAPS proofs of the central properties for
every instance.

## 1. Inventory

| Part | Source | State | Operations | What is hard | Model |
|---|---|---|---|---|---|
| Interceptor chain | `internal/interceptor/{auth,caller,validation}.go`, `internal/registry/caller.go`, chained in `cmd/token-engine/main.go` | none (configuration) | authenticate, authorize, validate | the order: nothing that will be rejected may touch the store (ADR-016) | `InterceptorChain` |
| Idempotency interceptor | `internal/interceptor/idempotency.go` | records in Redis | claim (SET NX), look up, run handler, promote (SET) | concurrent duplicates, lost replies, expiry under a running handler, crashes, records of earlier releases | `Idempotency` |
| Idempotency store | `internal/store` | Redis keys with two TTLs | SetNX, Get, Set | expiry | `Idempotency` |
| Distributed lock | `internal/lock/lock.go` | one Redis key per lock | Acquire, Release | a holder that outlives its TTL, lost replies, orphans | `RedisLock` |
| Key rotation guard | `main.go` 219-255 | ticker per replica, time of the last generation in Redis | check guard, lock, rotate, stamp, release | check before lock, out-of-phase tickers, crash between rotate and stamp | `KeyRotation` |
| Reconciliation | `internal/reconciliation`, `main.go` 257-269 | time of the last pass, ticker | pass over tenants, each under a lock | cancellation in mid-pass, several replicas | `Reconciliation` |
| Readiness | `internal/health/health.go` | none | reconciler check (and pings) | the staleness threshold against ticker phase and pass duration | `Reconciliation` |
| Token handler | `internal/handler/token.go` | none; refresh tokens in Redis (library), audit log | six RPCs | racing refreshes and revocations, a token that is revoked between being read and being rotated, a failure between two of the calls | `TokenHandler` |
| Audit store | `internal/audit` | audit log | Ping, RecordRevocation | failure after the revocation | `TokenHandler` |
| Tenant registry | `internal/registry/multi_tenant.go` | map of tenants under an RWMutex | Add, Drain, Remove, Get, snapshots | removal under requests in flight, re-adding | `TenantRegistry` |
| Configuration | `internal/config/config.go` | none | Load | the order of the checks, parse failures that turn into defaults, `=` inside keys, durations nothing judges | `Config` |
| Startup and shutdown | `cmd/token-engine/main.go`, `internal/registry/{caller,backfill}.go` | the process: context, servers, goroutines, deadlines | startup steps, signal, drain, stop | signals at any point, a drain that times out, connections that grow too old, a Redis that flaps, half-configured service | `Lifecycle` |
| Health, readiness, JWKS | `internal/health/health.go`, `internal/handler/jwks.go` | none | probes, key set | what the endpoints say while keys and Redis come and go and calls are drained | `Lifecycle`, `Reconciliation` |
| Go client | `client/client.go` | one connection | options, dial, calls, Close | which of several keys the server sees, interceptors that replace the metadata, Close under calls in flight | `Client`, `CallPath` |
| Observability | `internal/observability` | metrics, loggers shared by all calls | correlate, redact, log, count | bound loggers shared by concurrent calls, pairing of keys and values, calls that nobody waits for | `Redaction`, `CallPath` |
| Generated code | `gen/v1` | | | | not modelled |

How the parts interact: a request passes the chain, then the idempotency
interceptor, which calls the handler, which asks the registry for the tenant's
manager, calls the library and, for revocations, the audit store. Rotation and
reconciliation run in goroutines of every replica and meet only in Redis, through
the lock. Readiness reads the reconciler's stamp. Shutdown cancels the context
that rotation and reconciliation use for their Redis commands, and then drains the
calls. Around every call are the client's interceptors, outside the process, and
the correlation interceptor, the outermost of the server's.

`PROJECT.json` lists the hazards of each part at the line where they bite.

## 2. Modules

Time, where it matters, is an action `Tick` that ages every TTL and timer at
once; TTLs, deadlines and intervals are constants counted in ticks. Failures are
named strings in the constant `Faults`: a run, or a theorem, states which
failures it admits.

* **`InterceptorChain`**: the decisions of the interceptors as operators on a
  request record, and `Route`, their composition in the order of `main.go`.
  Strings that the code joins with `:` are sequences of segments, so that Redis
  keys collide exactly where they do in the code. SHA-256 is taken to be
  injective. Audiences are sorted before hashing, hence a bag.
* **`Idempotency`** (extends `InterceptorChain`): one process per request; every
  Redis command and every return of a handler is an action (`Arrive`, `Claim`,
  `Lookup`, `HandlerOK`, `HandlerErr`, `Promote`, `Plain`, `Crash`, `Tick`).
  A retry is another request with the same input. `handleIssueTokenIdempotency`
  and `handleRefreshTokenIdempotency` take the same steps and differ in the
  method segment of the key and in the fingerprint. `window` is a history
  variable: how long the retention of a request's effect is still owed. It is
  void when the promotion failed or the replica crashed before it.
* **`Mutex`**: the abstract specification that the idempotency claim and the two
  users of the lock are meant to implement: per resource, at most one process
  inside.
* **`RedisLock`**: Acquire and Release as operators on the value of a lock key.
  The UUID is abstracted to the replica that holds the handle, or `Orphan`.
* **`KeyRotation`**, **`Reconciliation`** (both extend `RedisLock`): the
  goroutines of every replica, their tickers (with Go's channel of capacity one)
  and their use of the lock. In `Reconciliation`, `since` is the age of
  `lastSuccessAt`, and `Check` is the readiness check on it.
* **`TokenHandler`**: each RPC as its sequence of calls (`Calls`), one action per
  call. The library is modelled from its use: a scoped revocation that fails may
  have revoked part of its scope, and a refresh first reads its token (`Read`) and
  then revokes it and signs (`Refresh`). What becomes of a token that was revoked in
  between depends on whom one believes, so it is a fault, `refresh_race`: without
  it the second refresh fails, as "atomically" in `token.go:146`, `README.md:141`
  and `doc/MIGRATION.md:238` has it; with it, it may also go through, as
  `doc/operator-guide.md:82` has it. `late` is a history variable: the refreshes
  that went through. A token is named after the request that minted it.
* **`TenantRegistry`**: the lifecycle under the write lock (Add and Remove do I/O
  while they hold it, so each is two steps), and requests that keep the manager
  they looked up. A `Start` that fails may leave its key manager running: `Add` stops
  nothing on its way out. Other calls that return an error change nothing and are
  not actions.
* **`Config`**: `config.Load` as a function of the environment: its checks in
  their order, its defaults, and the `key=identity` pairs as sequences of
  `=`-separated segments. Durations are integers of nanoseconds that may be zero
  or negative, as in the code; a second is scaled down to a thousand of them, far
  above the only value that anything compares a duration with besides zero (the 10ns
  below which grpc cannot draw a jitter).
* **`Lifecycle`** (extends `Config`): `main` as a sequence of phases with every
  early exit; the background goroutines, the two servers, the calls and the signal
  take steps of their own. `main` passes `MaxConnectionAge` and its grace to grpc
  as they are: a running call may lose its connection for age at any time unless
  either is 0 (`AgeOut`), and the first connection panics on an age that grpc cannot
  jitter (`Call`). `ReadyHandler` and `JWKSHandler` are functions of the
  state a probe finds. `clock` counts the retry window at startup and the time since
  `shutdownCtx` at shutdown; `forced` is a history variable.
* **`Client`** and **`Redaction`**: the options of `NewClient`, the metadata of a
  call, the redaction and the binding of log attributes, all as operators. A user's
  interceptor is any function; the model has the ones that append a pair to the
  outgoing metadata and the ones that put a pair in its place, the static key's
  included.
* **`CallPath`** (extends `Config`, `Client`, `Redaction`; instantiates
  `InterceptorChain` with what the configuration yields): concurrent calls of one
  client, one action per step of the client, the correlation interceptor, the chain
  and the library that logs below the handlers. `written` is the last thing that
  was logged or put on a span.
* **`IdempotencyProofs`**, **`TenantRegistryProofs`**, **`KeyRotationProofs`**,
  **`ReconciliationProofs`**, **`TokenHandlerProofs`**, **`LifecycleProofs`**,
  **`CallPathProofs`**: theorems and proofs about the module of that name;
  **`RedisLockProofs`**: the lemmas about the lock that its two users share. The
  inductive invariants are defined at the end of the component's own module, so that
  TLC can check them before anything is proved.
* **`MC...`**: instances for TLC.

Definitions marked "Mutant" are wrong variants of the definition that follows
them: what a plausible bug in the code would turn it into. They show that the
properties can fail, and nothing else uses them.

## 3. Runs

| Run | Checks | Shows |
|---|---|---|
| `idem_claim` | `ClaimExclusive`, `AtMostOnce`, `OnceInv`, `CompletedOnlyAges` | three requests with one key, handlers faster than the claim's TTL, failing reads, promotions and handlers, crashes: handlers never overlap, responses are never clobbered, one effect per key and retention owed |
| `idem_faults` | `TypeOK`, `ReplayFaithful`, `OnlyAdmittedClaim`, `EventuallyAnswered`, `ClaimResolves` | every failure, handlers slower than the claim: whoever is given a cached response sent the same request; rejected requests leave no record; every request is answered and no claim blocks its key for good |
| `idem_slow_handler` | `ClaimExclusive` | **violated**: handler slower than the claim's TTL |
| `rotation_lock` | `RotationInv`, `ImplementsMutex` | three replicas, every failure: one rotation at a time |
| `rotation_slow` | `ReleaseOnlyOwn`, `OwnRotationsApart`, `KeysKeepRotating`, `LockFreed` | rotations slower than the lock's TTL, lost replies to Acquire, failing releases, crashes between any two steps |
| `rotation_guard_race` | `RotationsApart` | **violated**: the guard is checked before the lock |
| `handler_rpcs` | `TypeOK`, `AckedRevocation`, `AuditSound`, `OneLivePerSession` | three concurrent RPCs of any kind, every failure, refreshes that read a token before another revokes it |
| `handler_audit_gap` | `NoAuditGap` | **violated**: revoked first, recorded afterwards |
| `reconciliation` | `CleanupInv`, `ReadyWhileRunning`, `ImplementsMutex`, `StopEndsIt` | two replicas, two tenants, every failure, shutdown and restart |
| `registry` | `RegistryInv`, `OneRunningStack`, `CutOffOnlyByDrain`, `DrainFence` | two goroutines adding, draining and removing two tenants under two requests, stacks that fail to start (half way, too) or to stop |
| `lifecycle` | `TypeOK`, `GuardedService`, `GrantsExact`, `CallsSurviveShutdown`, `EndpointsOutliveCalls`, `StartupDecides`, `ShutdownCompletes` | one process on 27 hosts, every failure, signals at any time, calls that never return, connections that grow too old: nothing is served half configured, calls are lost only in the ways listed below, the HTTP endpoints outlive the calls, startup and shutdown end |
| `call_path` | `KeyReachesServer`, `NoSecretLogged`, `NothingElseLost`, `CorrelationFollows`, `EveryCallCounted` | two calls at once, clients of every kind, interceptors that append or replace metadata, both TLS modes: attribution, redaction, correlation and counting, also for calls that are rejected or abandoned |

The three violated properties are quotations of the repository's own documents;
`PROJECT.json` ("findings") has the lines. In short:

* The claim lives for `TOKEN_ENGINE_LOCK_TTL` and nothing ends or renews a
  handler that runs longer, so "at most one concurrent request with the same key
  reaches the handler" needs handlers faster than that TTL. The theorems below
  have this as an assumption.
* The rotation guard reads the time of the last generation before it takes the
  lock and does not read it again, so two replicas may rotate back to back. The
  weaker `OwnRotationsApart` does hold. ADR-009 (line 81) counts on the second
  rotation being a no-op in the library; the code asks for it unconditionally.
* Revocation RPCs revoke before they record, while comment D2 (`token.go:19`,
  `audit/store.go:12`) asks for the record first. What does hold of the code's order
  is that an acknowledged revocation is recorded (`AckedRevocation`), and that
  nothing is recorded that did not happen (`AuditSound`). In D2's order the second
  would not hold: the two are alternatives, and the run `handler_audit_gap` shows
  what the code's choice costs.

A fourth disagreement is between the repository's own texts about the library, which
is not part of it, so no run can decide it: whether two refreshes of one token can
both go through (see `TokenHandler` above). `OneLivePerSession` holds under either
reading: a session forks only by a refresh whose token was revoked after that refresh
had read it.

More limits show in the wording of properties that hold:

* When the write that promotes a claim fails, or the replica dies before it, a retry
  after the claim's expiry runs the handler again: `AtMostOnce` speaks of the
  retention that is still owed.
* `CallsSurviveShutdown` lists how a client can lose its call: the drain timed out; a
  signal came before `signal.Notify`; its connection outlived `MaxConnectionAge` and
  the grace, neither of which the operator had set to 0; or the process panicked. It
  panics only on a rotation or reconciliation interval of zero or less (in
  `time.NewTicker`) or a `MAX_CONNECTION_AGE` that is negative or below 10ns (in grpc's
  jitter, when the first client connects), all of which `Load` accepts.
* `EndpointsOutliveCalls` does not say that a process that answers ready is serving.
  No checker looks at the gRPC server and the HTTP server stops last, so between the
  drain and the end, and after `Serve` failed, `/ready` may answer ok with nothing
  listening on the gRPC port.
* `KeyReachesServer` excepts callers that put an `x-api-key` into the context
  themselves (the server reads the first value, which is theirs), and clients with an
  interceptor that replaces the metadata (the client's own key is then lost; the call
  is attributed by the first key that is left).
* `OneRunningStack` excepts stacks whose `Shutdown` failed and stacks whose `Start`
  failed half way.
* `ClaimResolves` is about positive TTLs. `Load` accepts `TOKEN_ENGINE_LOCK_TTL=0`,
  which is no expiry to Redis: a claim whose handler failed then blocks its key for
  ever, which is what the mutant of that property does.

**Bounds.** Three requests on one key are the winner of a claim, a loser, and a
latecomer after expiry; more of them repeat these roles. TTLs of 2 and 3 ticks
are the smallest that tell "fresh", "about to expire" and "expired" apart and
claim and response TTL from each other; deadlines are one below the TTL where
exclusion is claimed, and beyond it elsewhere. The inputs share tenant and key
wherever they can. Two earlier records (legacy, unreadable) may sit in the store.
For locks, a third replica is the one that comes while the first is late and the
second holds the lock. In `reconciliation` the interval is one tick, the pass may
take a whole interval, and two tenants are needed for a pass to be cancelled
between tenants. `MaxStacks = 4` lets each tenant be added again. The hosts of
`lifecycle` are one that runs in each TLS mode, two with an interval that is not
positive, four with a connection age that is unlimited, without a grace, negative or
too small, and one for each setting or file that startup refuses; two calls are one
that drains and one that does not; `DrainLimit = 1 < Budget = 3` leaves ticks on
both sides of the drain's deadline, and `RetryMaxWait = 2` a retry inside the
window. In `call_path` a second call is what a shared logger or a shared id needs to
go wrong; one key is listed twice; the field lists include a value that equals a deny-listed key, a trailing
key, and secrets as strings and as other values; one derived logger
(`MaxBound = 1`) is shared by both calls. Symmetry is
used only in runs without liveness properties, over sets that are
interchangeable in the specification.

**Fairness.** Weak fairness of each step of a goroutine (Go's scheduler, Redis
commands that return or fail) and of `Tick`. Clients are not obliged to send and
nothing is obliged to fail. In `KeyRotation`, strong fairness of `AcquireOK` and
`Rotate` says that a lost reply or a crash may strike any attempt, but not all of a
replica's attempts for ever; without it a Redis that loses every reply would keep the
keys from rotating, and rightly so. `Exit` in `Reconciliation` has strong fairness: when
the ticker and `ctx.Done()` are both ready, `select` picks one at random, so the
cancellation does not lose for ever. In `Lifecycle`, `main` is
scheduled and time passes; a call that was given `shutdownCtx` may block, but not
past its deadline, hence the fairness at `clock = Budget`. Requests may block for
good, Redis may stay down, the goroutines besides `main` may starve, and nothing
makes a signal come. `CHECK_DEADLOCK` is off in `lifecycle` and `call_path`, where
the process ends and the client has made all its calls; elsewhere systems that are
at rest can still tick, or stutter explicitly (`TokenHandler`).

## 4. Proofs

`IdempotencyProofs` proves, for any set of requests, inputs, seeds and TTLs:

* `TypeCorrect`: `Spec => []TypeOK`, under every failure.
* `ClaimExclusion`: `Spec => []ClaimExclusive`, assuming `TimelyHandlers`
  (`HandlerDeadline < PendingTTL`) and `ReliableClaims` (no SetNX fails or loses
  its reply). `ClaimExclusive` is not inductive: nothing in it says why a second
  request cannot claim. The strengthening `ExclusionInv` adds `ClaimBacked`: a
  request in the handler still has its pending record, and the record's remaining
  TTL plus the request's age is exactly `PendingTTL`. With `TimelyHandlers` the
  record therefore cannot expire first.
* `ResponsesOnlyAge`: `Spec => CompletedOnlyAges` from the same invariant:
  whoever promotes finds its own pending claim and never a response.
* `OnceHolds` and `EffectsAtMostOnce`: `Spec => []OnceInv` and
  `Spec => []AtMostOnce` under the same two assumptions, with reads, promotions,
  handlers and replicas failing as they like. `AtMostOnce` alone says nothing of the
  store; `OnceInv` adds that an effect whose retention is owed is covered: its
  request is about to promote, or its response is stored and lives at least as long.
* `ReplaysFaithful`: `Spec => []ReplayFaithful`, under every failure and however
  slow the handlers are. The strengthening `StoredFaithful` says of every stored
  response of a modelled request that it lies under that request's key, with its
  fingerprint, and that the request is over.
* `OnlyAdmittedRequestsClaim`: `Spec => []OnlyAdmittedClaim`, under every failure.
  The strengthening `ClaimsRouted` says that a request at the store or in the handler was sent
  there by `Route`; a lemma shows that such a request is well formed.

`TenantRegistryProofs` proves for any goroutines, requests and tenants:

* `RegistrySafe`: `Spec => []RegistryInv`, also when stacks fail to start or to
  stop.
* `OneStackPerTenant`, `CutOffNeedsDrain` and `DrainIsAFence`: the three
  properties of the `registry` run, from that invariant, whose parts say that the
  mutex holder is the admin in mid-call, that what is registered runs and nothing
  else does but the stacks whose Shutdown failed or whose Start failed half way, and
  that draining is recorded.

`KeyRotationProofs` and `ReconciliationProofs` rest on four lemmas about `RedisLock`
(`LockType`, `AcquiredBy`, `OthersKeepTheirs`, `AgedKeepsHolder`): what each command
leaves of the lock, and for whom. For any replicas, tenants, TTLs and failures:

* `RotationBacked` and `CleanupBacked`: `Spec => []RotationInv` and
  `Spec => []CleanupInv`, assuming `TimelyRotations` and `LocksOutlivePasses` (what is
  done under a lock ends before its TTL; nothing in the code renews a lock). The
  invariants are `TypeOK` and `LockBacked`: whoever is in the critical section is the
  holder, and the lock's remaining life makes up for the replica's age: the two add up
  to at least the TTL, so the lock cannot expire first.
* `RotationImplementsMutex`, `CleanupImplementsMutex` and, in `IdempotencyProofs`,
  `ClaimImplementsMutex`: every initial state and every step of the three users of a
  Redis key is one of `Mutex`, or a stutter, under the assumptions of the exclusion
  theorems. (For the claim this is only proved: one request moves at a time, so a
  run would repeat what `ClaimExclusive` checks.)
* `LateReleaseHarmless`: `Spec => ReleaseOnlyOwn`, with no assumption at all: a replica
  that outlived its lock cannot delete the lock of the next one.
* `OwnGuardHolds`: `Spec => OwnRotationsApart`, assuming `ReliableStamps` (every key
  that is generated is followed by the write of its time, and the time can be read).
  The strengthening `OwnStamped` says that the stamp in Redis is never older than a
  replica's own last rotation.
* `ReadinessHolds`: `Spec => []ReadyWhileRunning`, assuming `PassesKeepUp` (a pass takes
  no longer than the interval). The strengthening `Fresh` bounds the age of the last
  success by the phase of the ticker while a replica waits, and by one interval plus the
  pass while it works.

`TokenHandlerProofs` assumes, but for its last theorem, nothing of failures, interleavings or the number of
requests:

* `HandlerTypeCorrect`, `RevocationHolds`: `Spec => []TypeOK`, `Spec => []RevocationInv`,
  the invariant behind the next two. It says how far a request is past each of its
  calls: what a revocation covered on arrival it still covers, behind the
  revoking call all of it is revoked, what is recorded was revoked before, and what is
  acknowledged was recorded.
* `RevocationComplete` and `AuditTruthful`: `AckedRevocation` and `AuditSound`.
* `ForksOnlyByLateRefresh`: `OneLivePerSession`, from `SessionInv`: a session that no
  late refresh forked has one continuation, either a live token or one request that
  consumed its token and has not minted the successor yet.
* `SessionNeverForks`: `Spec => []NeverForks`, assuming `AtomicRefresh` (the library
  accepts a refresh token once, which is the reading of `token.go`). There is no late
  refresh then, and a session never has two live tokens.

`LifecycleProofs` proves for every host (environment, caller file), number of calls
and deadlines:

* `LifecycleHolds`: `Spec => []LifecycleInv`: what `main` has built by the time it gets
  to each phase (`BuiltInOrder`), that the caller registry comes from an accepted file
  (`FromAcceptedFile`), that what is stopped was drained first and the HTTP server
  closed last (`DrainedFirst`), and `CallsSurviveShutdown` itself.
* `LifecycleTypeCorrect`, `ServiceAlwaysGuarded`, `RegistryExact`, `ShutdownSparesCalls`,
  `EndpointsStayUp`: the five invariants of the `lifecycle` run. They need lemmas about
  `Config`: a failing check makes `Load` refuse, whichever check it is; and an age or an
  interval that breaks the process is one the operator wrote, never a default.

`CallPathProofs` proves, for any number of calls, options, metadata and field lists:

* `CallsAllCounted`: `EveryCallCounted`, from `CountsExact`: the two metrics are the
  cardinalities of the sets of calls that have passed the counter and the timer.
* `CallerAttributed`: `KeyReachesServer`, for every list of `key=identity` pairs that
  `Load` accepts and every chain of interceptors, replacing ones included.
* `SecretsNeverWritten`, `FieldsNeverLost`, `CorrelationKept`: `NoSecretLogged`,
  `NothingElseLost` and `CorrelationFollows`, from `PathInv`, which adds what may be bound
  to a derived logger. They rest on `SlogReadsPairs`: slog's loop, a recursive function
  over the list, yields exactly the pairs by position for a list of any length. It is
  shown from the least position at which it would fail; that the recursion has a solution
  is shown the same way (`LoopDefined`).

Assumptions about constants (`ASSUME`, evaluated by TLC for each instance): environments
and files have the types of what the parsers return; in `CallPath`, an id from `uuid.New`
is one that no client sends, raw tokens are not used as correlation ids, and the library's
lists alternate string keys and values, with raw tokens only under deny-listed keys.

Only model-checked: the liveness properties (`EventuallyAnswered`, `ClaimResolves`,
`KeysKeepRotating`, `LockFreed`, `StopEndsIt`, `StartupDecides`, `ShutdownCompletes`),
since fairness is outside what the proof system handles. What the fold `DialConfig` makes
of a list of options is also left to TLC: the theorems hold whatever it is, as long as it
yields a list of interceptors. Every invariant and action property of a passing run is
stated by a theorem.

## 5. Plan

1. Done: interceptor chain, idempotency, lock, rotation, token handler,
   reconciliation, tenant registry, configuration, startup and shutdown, probes, Go
   client, correlation, redaction and request metrics; proofs of every safety property
   of the runs and of the three refinements of `Mutex`.
2. Next proofs: what the violated runs leave true, as theorems with the weakest
   assumption under which the documents' statements hold (the rotation guard with one
   replica, the audit log without failures).
3. Next model: the composition of `Idempotency` with `TokenHandler` (a retried
   refresh, whose first attempt consumed the token, is answered from the cache;
   replays of tokens revoked since).

## 6. Not modelled

* Generated protobuf code, the mocks of the tests, the no-op implementations of the
  logger, metrics, tracer and client, and the examples.
* The metric labels: `PrometheusMetrics` drops those it is given, so the queries by
  status, method or tenant in `doc/METRICS.md` (lines 15 and 24) select nothing;
  plain from the code, and no behaviour depends on it. Of the metrics only the
  request counter and duration are modelled.
* Status codes of library errors (`MapLibraryError`): all are one `LibraryError`, and
  no property depends on which. `expires_in` values likewise.
* Malformed key/value lists of the library: its lists alternate string keys and
  values, after an optional context; a trailing key is included.
* Wall clocks: replicas share one. Redis alone counts TTLs, so skew only shifts the
  rotation guard.
* The tenant set is fixed at startup in `KeyRotation` and `Reconciliation`, as in
  `main`, which takes one snapshot; nothing in the service adds tenants later. That
  adding a tenant again would register its metrics twice happens in the library.
* A pass of the reconciler that skipped every tenant counts as a success in the
  code and in `Reconciliation`; no property judges it. A refresh that consumed its
  token and then fails is a behaviour of `TokenHandler`; nothing repairs it.
* The client's `WithMTLS` given together with `WithPlaintext` dials in plaintext, in
  the code and in `Client`; a server in mTLS mode refuses it. Errors of `Serve` and
  `ListenAndServe` are only logged: `Lifecycle` has them, and no property asks for
  more.
* The network below a call in `CallPath` (retries inside gRPC, lost answers):
  `Idempotency` has the retries, as separate requests with one input.
* How old a connection is: the model has no clock for it, so `AgeOut` may come at any
  time once a call runs. The handler of a call whose connection was closed, for age or
  by `Stop`, runs on unseen; what it may still do is the business of `Idempotency` and
  `TokenHandler`, where a client that is gone makes no difference.
* The gRPC health service, which `main` registers and never touches again, and gRPC
  reflection.
* Client interceptors that do not call the invoker (no call is made) or call it more
  than once (further calls, each like the ones in `CallPath`), and ones that rewrite
  the request or the answer.
