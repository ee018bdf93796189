# Verification of go-api-management

TLA+ models of the gateway in `src/`: the PKCE login and what becomes of its
tokens, the money transfer from a device to the ledger with its circuit breaker,
the pipeline of checks a banking request passes under a policy that is reloaded
at run time, and the distributed rate limiter. TLC checks each model on
small instances; TLAPS proves its safety properties for every value of the
constants. `PROJECT.json` lists the runs, what each definition models (`map`),
the mutants, the hazards, the findings and the theorems.

    tlc -workers 2 -config MCAuthSession.cfg MCAuthSession
    tlapm AuthSessionProofs.tla

## 1. Inventory of the system

| Component | State | Operations | Interacts with |
|---|---|---|---|
| PKCE login (`auth_service.go`, `auth_handler.go`, `auth0_gateway.go`, `sql_session_repository.go`, `pkce.go`) | table `auth_sessions`, `session_id` cookie of a browser | `Login`/`InitiateAuth`, `Callback`/`HandleCallback`, `DeleteExpired` | browser, Postgres, identity provider (through a breaker) |
| Token lifecycle (same files) | refresh token cookie, tokens at the identity provider | `Refresh`, `Logout` | browser, identity provider |
| Device keys (`sql_key_repository.go`, `attestation_verifier.go`) | table `device_enclave_keys` | `RegisterDeviceKey`, `GetKeysByUserID`, `DeleteKey` | device, Postgres |
| Money transfer (`banking_service.go`, `jwt.go`, `signature.go`, `banking_handler.go`) | handlers in flight, internal tokens, the ledger (a log line) | `InitiateTransfer` at the edge, `ExecuteIntranetTransfer` in the intranet | device, key table, network between the zones |
| Circuit breakers (gobreaker, `banking_service.go:40-49`) | closed/open/half-open, counts | `Execute` | intranet, identity provider |
| Rate limiter (`rate_limiter.go`) | one hash per client in Valkey, with an expiry | one atomic script per request | Valkey, clocks of all gateways |
| Policy engine (`policy_middleware.go`, `policy.rego`) | the prepared query, a file watcher | `Evaluate`, `reload`, `StartWatcher` | file system, every request |
| Request pipeline (`banking_handler.go`, `schema_middleware.go`, `middleware.go`, `attestation_verifier.go`) | requests in flight | schema, policy, caller JWT, handler, attestation, in the order of `EdgeRoutes` and `PrivateRoutes` | policy engine, identity provider's keys, transfer and device keys |
| Masking, telemetry, `tools/indexer.py` | none the behaviour depends on | formatting, metrics, a developer script | logs |

What is hard here. Handlers run concurrently over shared tables without
transactions: `HandleCallback` reads and deletes a session in two statements.
Errors are dropped on purpose (`_ = s.repo.Delete`, `_ = RevokeToken`). The edge
and the intranet only share a network; a timeout at one end says nothing about
the other. Three kinds of clock disagree: gateways, Valkey, and timestamps
rounded to seconds. `hazards` in `PROJECT.json` lists each of these at its line,
with the property that would catch it going wrong.

What makes each component correct:

* login: a browser is only logged in through a login it started; a verifier only
  serves the login it was drawn for; a pending login is not lost; a dead session is
  refused;
* transfer: the ledger holds only what a device of the caller signed; a success
  is never premature; a token dies on time; the edge always answers;
* token lifecycle: the answers of overlapping refreshes do not cost a browser its
  token; no browser gets another's token; a logout sticks;
* breaker: counts match the calls, few probes, no state it cannot leave;
* pipeline and policy: nothing is carried out on a token that was never verified; a
  change of the policy takes effect and is not undone; the checks agree with each
  other on what they read;
* rate limiter: no more than capacity plus refill is admitted, whatever the
  clocks and the expiry of hashes do.

## 2. Modules

| Module | Models | Proofs | Instances |
|---|---|---|---|
| `AuthSession` | login and callback, session table and its sweep, cookies, identity provider | `AuthSessionProofs` | `MCAuthSession` |
| `Transfer` | device keys, edge, network, intranet, ledger | `TransferProofs` | `MCTransfer` |
| `CircuitBreaker` | the breaker around the intranet call | `CircuitBreakerProofs` | `MCCircuitBreaker` |
| `TokenLifecycle` | refresh and logout, the shared cookie, rotating tokens | `TokenLifecycleProofs` | `MCTokenLifecycle` |
| `PolicyReload` | the policy file, its watcher and the evaluator | `PolicyReloadProofs` | (through `RequestPipeline`) |
| `RequestPipeline` | extends `PolicyReload`: schema, policy, JWT and handlers of a banking request | `RequestPipelineProofs` (extends `PolicyReloadProofs`) | `MCRequestPipeline` |
| `TokenBucket` | what the limiter promises: buckets that are never forgotten | `TokenBucketProofs` | `MCTokenBucket` |
| `RateLimiter` | the Lua script on Valkey; instantiates `TokenBucket` with a refinement mapping | `RateLimiterProofs` (instantiates `TokenBucketProofs`) | `MCRateLimiter` |

Definitions named "Variant" in a comment are deliberate mistakes (a dropped
check, a wrong comparison). Nothing uses them; `mutants` in `PROJECT.json`
names the definition each one replaces and the property that then fails.

### AuthSession

A *flow* is one call of `InitiateAuth`: its id, state and verifier are one draw
of `crypto/rand`, so distinct flows never collide. `rows` is the table, one
operator per SQL statement (`Save`, `Found`, `DeleteRow`, `SweepRows`). `login[f]`
is the GET /login handler, `req[r]` a GET /callback handler whose phase is its
program counter: `RepoGet`, `RepoDelete`, `Verify`, the exchange, the user info,
the response. Each database statement and each remote call is one step, so
handlers interleave between any two of them. `RepoDelete` goes on whether or not
the row was deleted, as the code does. An exchange is refused (breaker, no
connection), rejected, or accepted; an accepted one may lose its answer, which
burns the code. `Cancel` is a cancelled context, a crash of the process or a lost
response. `sent` is a history variable: what reached the identity provider.

External, modelled from how the code uses it: the identity provider issues codes
for the challenge and state of the authorization URL and exchanges a code once
against the matching verifier; a browser attaches its one `session_id` cookie
until it expires, and may follow redirects any number of times, with any code, issued
or not, and any state, its own, another's or one nobody drew: the handler takes the
two query parameters independently. A foreign code that comes with the browser's own
state passes `Verify` and is refused by the identity provider only, which compares
the challenge (`IdPAccepts`). `DeleteExpired` may run at any time or never, as nothing
in `src/` calls it. A cookie that `SameSite=Strict` withholds on the
redirect of the identity provider is the `CallbackBadRequest` case.

### Transfer

`keys` is the table; `sub[t]` the edge's handler of a submission, `exec[x]` a request
to the intranet and its handler there, `x` out of `Deliveries`. They are separate
records because they fail separately: the edge times out, disconnects or dies while the
intranet goes on. `Duplicate` delivers a request again, at once or after it has been
carried out; the intranet remembers nothing, so a copy that comes within the life of
its token is executed again. `Alter` lets the network replace the payload on the wire by any
payload with a signature some device has made; the token cannot be replaced (its
HMAC). The intranet authorises (`ExecAuthorize`: schema, policy, token, scope),
reads the keys (`ExecGetKeys`), then checks the signature and writes the ledger
(`ExecTransfer`), three steps between which keys may be deleted and time passes.
`CanonicalTransferBytes` keeps the code's layout: fields joined by colons, the
time rounded down to seconds, no ID. An account is a sequence of `Characters`,
the colon among them, as neither schema nor service excludes it. `signed` and `registered` are history.
An open breaker is `EdgeRefuse`, possible at any time. Requests that the edge's
JWT or policy middleware refuses never become submissions.

### CircuitBreaker

`brk` is gobreaker's state, the time left of it and its counts; `call[c]` a call
under way. Only the settings and the function that is executed are code of the
repository; the rest is gobreaker v1.0.0, modelled as external: expiry is noticed
when somebody asks (`CurrentState`), a change of state starts a new generation
with fresh counts, and a result of an older generation is dropped (`Counted`).
`ReadyToTrip` keeps the ratio as an integer comparison. Every error is a failure,
also a transfer the intranet rejects: `faulty` stands for an outage as well as for
callers whose transfers are refused. `Life` is one tick longer than the setting
because gobreaker compares with Before/After.

### TokenLifecycle

`cookie[b]` is the `refresh_token` cookie all tabs of a browser share, `tok[t]` the
identity provider's record of a token, `req[r]` a handler. A handler takes the
token from the cookie when it starts and its answer is applied when it arrives,
so a second refresh may carry a spent token, and the answers of a refresh and of a
logout may arrive in either order. The identity provider (external) accepts a
token once, issues the next one of the same session (or none, rotation off), may end
the session when a spent token comes back, and its answer may be lost. A revocation
ends the session of the token (`RevokeDone`) or has no effect (`RevokeFailed`): the
breaker is open, the provider fails, or it answers 200 without ending anything, as it
may for a token it no longer takes and as `RevokeToken`, which only sees the status,
cannot tell. All errors of a refresh are a 401 that leaves the cookie alone; the error
of a revocation is dropped. `excused` and `marks` are history: sessions whose token was lost on the
way or which the browser gave up, and what a logout met.

### PolicyReload and RequestPipeline

`file` is the policy file. An edit in place is two writes, with a torn text
between them that may or may not compile; an edit by rename takes the watched
inode away. `loop` is the goroutine of `StartWatcher`: it takes an event, reads,
compiles and installs, one step each, while the file changes and requests are
decided by `active`. Events coalesce. `missed` is history: no event told of the last
change. `Exit` is a crash at any point.

A request carries a header (its scheme, who signed the token, its claims), a body
(which fields are empty or have a wrong form, the amounts, the attestation) and
passes `ValidateSchema`, `EvaluatePolicy`, `CheckJWT` (edge routes only) and its
handler. `extractJWTClaims` and `ScopesOf` read the token without verifying it,
`JWTValid` (external: the auth0 middleware with the options of `JWTMiddleware`) and
`VerifyInternalJWT` verify it. `effect` is what the handler did: a key registered,
a token swapped, a private transfer authorised; what follows is `Transfer`. A policy
document is the set of the shipped rules it keeps.

The body is decoded three times. Schema and handler decode it into a struct, whose
fields take keys in any case, the last one winning (`amount`); the policy decodes it
into a map and asks for the exact key (`policyAmount`, or none). The two differ for a
body that spells the key more than once or not as the schema does. Other fields matter
to the struct readers only. `VerifyAttestation` reads the claims of a JWS and never its
signature, so the inputs have tokens made by either platform's service and by nobody of
them. A handler without `WithOPAMiddleware` has no policy (the input's `policed`):
`AfterSchema` then skips `EvaluatePolicy`, and a private request that is no POST gets as
far as the route, which answers 405.

### TokenBucket and RateLimiter

Levels are integers: one request costs `RefillPeriod`, one millisecond refills
`RefillRate`, a full bucket is `Capacity * RefillPeriod`; the script's fractions
are exact in these units. A request runs the script with a timestamp between
`MaxBehind` before and `MaxAhead` after Valkey's clock, so timestamps arrive in
any order. A hash past its `expireAt` is as good as absent. The answer may be
lost after the script ran; the handler then fails open, as it does when Valkey
cannot be reached. `SkewAssumption` says how much the clocks may disagree: less
than the time an empty bucket takes to fill. The refinement mapping forgets
`expireAt` and keeps the last written hash, expired or not: the claim is that
nobody can tell the difference.

## 3. Runs

| Run | Shows |
|---|---|
| `auth_session` | `TypeOK`, `LoginBinding`, `VerifierServesItsLogin`, `PendingLoginKept`, `DeadSessionRefused` for two browsers, logins and callbacks, with any code and any state |
| `transfer` | `TypeOK`, `LedgerAuthorised`, `SuccessMeansExecuted` for two concurrent submissions of two users whose requests may be altered, exchanged and duplicated |
| `transfer_live` | `LedgerAsSigned` for orders that differ in amount, within a second and in the place of a colon, `TokenWindow` with two ticks to the second and a request delivered twice, and `EdgeAnswers`, under `FairSpec` |
| `token_bucket` | `RateBound` of the abstract buckets |
| `breaker` | `CountsAddUp`, `ProbesBounded`, `ProbesDecide` for four overlapping calls, and `Recovers`, under `FairSpec` |
| `token_lifecycle` | `SessionKept`, `CookieBinding`, `LogoutSticks` for two browsers and four overlapping requests |
| `request_pipeline` | `EffectsVouchedFor`, `NeverOlderPolicy`, `SwapUnderstood`, `LimitLeavesNoGap`, `FormDecidedFirst`, `NothingMissed` for every kind of request under a changing policy or none, and `Converges`, under `FairSpec` |
| `rate_limiter` | `RateBound`, `RetryAfterSuffices` and the refinement `ImplementsBucket`, with skew and expiring hashes |

`RetryAfterSuffices` says exactly what the header is worth: it is rounded down
(`rate_limiter.go:167`), to 0 for a period below a second, so it suffices as it
stands for a period of whole seconds (what the repository's tests configure and
the run has) and needs one second more for any other (`Dropped`).
`LedgerAsSigned` says exactly what the signed bytes determine: not the instant
within a second, and not where one account ends and the other begins once the
signed accounts hold a colon themselves. The run reaches both cases: an order with
the colon in the sender is executed with the colon in the receiver.
`TokenWindow` is as tight as the code allows: the token is issued for a full minute
and compared in whole seconds, so it may be accepted just after its minute, where
the requirements (`spec/requirements.md:59`) say "< 1 minute".

`VerifierServesItsLogin` says what `HandleCallback` itself guarantees: it sends a
verifier only for the browser whose login drew it and with that login's state. That a
code is never sent with a foreign verifier is not true of the code; that such an
exchange is refused is the identity provider's doing, and `LoginBinding` rests on it.
A duplicate of a request is executed again, and so is a signed order a caller submits
again; no document promises at most one execution. `TokenWindow` bounds the former.
`LogoutSticks` names the one way a logout is undone: the revocation had no effect and
a refresh of the same session was under way, whose answer then brings a working token
back. Either alone does not suffice. `SessionKept` excepts a session the identity
provider has ended, also one it ended because two tabs sent the same token: tabs may
cost each other the session that way, but never by the order of their answers.
`EffectsVouchedFor` says nothing of who made an attestation, except that the service of
the other platform did not: its claims would not be those the platform is asked for.

Four runs are expected to fail: each states what a document, a comment or the policy
of the repository says and the code does not do.

| Run | Property | What the trace shows |
|---|---|---|
| `auth_single_use` | `VerifierSentOnce` | two callbacks read the row before either deletes it; both send the verifier (ADR-001 says reuse is prevented). The identity provider still accepts a code only once. |
| `transfer_failure` | `FailureMeansNotExecuted` | the edge times out and answers 500, the ledger has the entry (the API says "execution failed") |
| `policy_in_sync` | `InSync` | the policy is edited between the first load and `watcher.Add`, or a new one is renamed over it; the evaluator keeps the old text and no event will come (README.md:63 says changes are "hot-reloaded instantly") |
| `policy_amount` | `HighValueScoped` | a body with two spellings of `amount_cents`: the policy reads a standard amount, the handler swaps one of high value without the scope (`policy.rego:22` says the scope is required) |

Other disagreements met while modelling, visible in the model but without a run
of their own:

* Nothing in `src/` calls `DeleteExpired`, so the row of a login that is never
  finished, or whose delete fails, stays for good. `session_repo.go:19` calls it "a
  batch background task", `schema.sql:13` speaks of a "background scheduler" and
  `adr-001-session-management.md:52` of "automatic TTL sweep logic". In the model
  the action is never fair, and no property relies on it.
* A timeout of the intranet, a lost connection and an open breaker are a 500 at the
  edge like every other error (`banking_handler.go:163`, `EdgeStatus`).
  `end_user_documentation.md:279` promises 503 for exactly these, and
  `handover_document.md:119` a "`503 Service Unavailable` equivalent" for an open
  breaker. `Transfer!TypeOK` lists the statuses the code can answer; that 503 is not
  among them is this disagreement, not a confirmation of the documents.
* `VerifyAttestation` decodes the claims of a JWS and never looks at its signature
  (`VerifyAttestation` does not read `issuer`, the maker of the token).
  `attestation_verifier.go:44` says it validates that the token "is signed and
  untampered", `plan/roadmap.md:73` that "cryptographically signed tokens" are
  "decoded and checked". The inputs of `request_pipeline` have attestations nobody
  vouched for, and they register devices.
* `HandleCallback` deletes the session before it compares the state; the sequence
  in `tech/design.md:94-95` compares first.
* A session that expired and was swept is "not found", answered with 500; the API
  (`api/openapi.yaml:70-71`) says 401 for an expired session.
* `X-RateLimit-Remaining` carries thousandths of a token (`Remaining`); the user
  documentation (`end_user_documentation.md:266`) calls it the remaining allowance.
* The handover document and the design call the breaker's window sliding; gobreaker
  counts in fixed intervals that start again at zero, so failures on both sides of a
  boundary are never added up.
* The JWT check accepts the scheme `bearer` in any case, the policy only `Bearer`:
  such a caller has no subject for the policy and is refused.

Bounds. Two of each actor are enough for every crossing the properties are about
(two tabs on one cookie, two browsers, two callbacks on one row, two users'
payloads); the theorems remove the bound. In `auth_session` any code meets any state,
so time and codes are short: a session expires with the first tick after its login, a
cookie lives one tick longer (5 and 10 minutes in the code), and the clock makes one
tick, so sessions expire under a live cookie and are swept before, during and after a
callback; the one code may be issued for either login and may come before it is.
`transfer_live` has two ticks to a
second so that rounding is visible, a token that dies with the second it was made in (so
it is accepted up to the end of that second and refused while time goes on), three
orders, and two deliveries of one submission; `transfer` is about crossings, not time: its
clock stands still and the timeout may fire at once. The two deliveries of `transfer` are
those of two submissions, or one request twice. The limiter
runs to tick 16 with hashes that live 8 ticks, so that a hash expires and is
written again, and with the largest skew `SkewAssumption` allows. The breaker
has the code's 3 probes and 5 requests, with four handlers and intervals of one
tick, so that calls outlive the generation they began in. `token_lifecycle` has
three tokens, so that a session rotates while another begins; it was also run once
with five requests (186,066 states) with the same result. `request_pipeline` has one
request, as requests share nothing but the policy, and two edits, so that one edit
falls into the reload of another; its inputs are every header with good bodies,
every faulty body with a good header, bodies with two amounts on either side of the
limit, and attestations of any maker, each at a handler with and without a policy;
`policy_amount` is not about edits and has none. `CHECK_DEADLOCK FALSE` is set where requests
and edits are bounded and simply run out. Users, devices, key IDs,
transaction IDs, submissions and deliveries of `transfer`, and browsers and sessions of
`token_lifecycle`, are symmetric; no run with a temporal property uses symmetry.

Fairness. `AuthSession`, `TokenLifecycle` and the limiter have safety properties only
and assume none; in particular nothing in `src/` schedules the sweep.
`Transfer`: only the edge's handler and time are fair, since the default HTTP
client has a timeout of 10 s; nothing is assumed of the network or the intranet.
`CircuitBreaker`: calls end (the same timeout), time passes and callers keep coming,
since an open breaker changes only when it is asked. `RequestPipeline`: the
watcher's goroutine keeps running; nothing is assumed of requests or operators.
The clock stops at `Horizon`, which is why `EdgeSend` leaves room for the timeout and
`LoginSave` for the expiry.

## 4. Theorems

Assumptions are the named `ASSUME`s of the modules: the constants have their
types and `None` differs from every value; `SkewAssumption` for the limiter.

* `AuthSessionProofs`: `TypeCorrect`, `LoginIsBound`, `VerifiersServeTheirLogin`,
  `PendingLoginsAreKept`, `DeadSessionsAreRefused`. The properties are not
  inductive: that a request at phase "exchange" has the verifier of a login of its
  browser and that login's state depends on what was checked two steps earlier and on
  rows being copies of what the login stored. The invariant says that a row, and the session a request has
  read, is the session its login stored; that a request's session key came from the
  cookie of its own browser, hence from a login of that browser; that every grant
  is the authorization URL of some login; and that a request past `Verify` has the
  state of its session. `LoginIsBound` adds the identity provider's part: a code it
  accepted has the challenge of the verifier sent with it (`AcceptedCode`), hence
  belongs to the same login. `DeadSessionsAreRefused` adds that deadness is stable:
  once the row is gone or expired it never comes back, because a flow saves once.
* `TransferProofs`: `TypeCorrect`, `LedgerIsAuthorised`, `SuccessIsExecution`,
  `TokensExpire`, `LedgerIsAsSigned`, for any number of submissions and deliveries.
  The invariant follows the payload: whatever is on the wire or in
  a handler carries a signature that some device made; the devices a handler has
  read were registered by the token's subject; the token is the one its submission
  was given; a reply of 200 has its ledger entry. `TokensExpire` rests on two
  lemmas about rounding to seconds at both ends. `LedgerIsAsSigned` reads the
  canonical bytes backwards: `BytesDetermine` recovers the fields from the sequence,
  and `JoinedDetermines` shows that two joined accounts are told apart if those of
  one order hold no colon. Nothing is assumed of accounts.
* `CircuitBreakerProofs`: `TypeCorrect`, `CountsAreExact`, `ProbesAreBounded`,
  `ProbesAlwaysDecide`, for any number of calls and any settings. The invariant `Good` relates the counts to
  the set of calls of the current generation; half-open has no failures, fewer
  than `MaxRequests` successes and no more than `MaxRequests` requests, so when it admits nobody
  some request is neither a success nor a failure and must still be out.
* `TokenLifecycleProofs`: `TypeCorrect`, `SessionsAreKept`, `CookiesAreBound`,
  `LogoutsStick`. `SessionKept` holds because a token that is on its way is in no
  cookie, in no other answer and in no handler (`Delivers`), so nobody can spend it
  before it lands. `LogoutsStick` needs `Silences`: after a logout that met no
  refresh, no token of the session is in any cookie or on any way; the case that
  needs most care is a login's answer, which carries the only token of its session
  and so none of a session a logout has a token of. Steps of one handler that touch
  no token share the lemma `HandlerStep`.
* `TokenBucketProofs`: `TypeCorrect`, `RateIsBounded`. `RateBound` is inductive
  once a client without a bucket is known to have admitted nothing; the proof is
  the telescoping of refills over the stretches between requests.
* `RateLimiterProofs`: `TypeCorrect`, `LimiterRefinesBucket`, `RateIsBounded`,
  `RetryAfterIsEnough`. The
  invariant `Clocks` bounds when a hash was written and how far `last_update` was
  ahead then. With it `ExpiredIsFull` shows that whoever sees a hash expired has a
  timestamp at least one whole fill after its `last_update`: EXPIRE gives two
  fills (rounded up), the clocks can take away one. So an absent hash and a refilled one
  agree (`FoundSame`), every admission is an admission of the abstract bucket and
  everything else stutters. The bound is then inherited from `TokenBucketProofs`.
  `RetryAfterIsEnough` needs the invariant `Rejected`: the hash of a client whose last
  answer was a 429 has a `last_update` at most `MaxAhead` after that answer, so
  whoever has waited adds a whole period of refill to it (`WaitCovers`).
* `PolicyReloadProofs` and `RequestPipelineProofs`: `TypeCorrect`,
  `EffectsAreVouchedFor`, `PolicyNeverOlder`, `SwapsAreUnderstood`,
  `NoGapAtLimit`, `FormIsDecidedFirst`, `NothingIsMissed`, for any documents, rules, inputs and
  number of requests. The first module has the invariant `PolicyInv` of the
  evaluator: the policy in force compiled and is no newer than the file; what the
  goroutine is compiling is no older than what is in force; if no change was
  missed, what a reload has read is the file or an event still waits
  (`InformedInv`). The last part makes `NothingMissed` inductive: an edit between
  read and install spoils the reload but leaves an event behind. It also shows that
  the policy in force only advances (`PolicyAdvances`) until the process exits
  (`ExitInv`). The second module adds what the phase of a request says of the checks
  behind it (`Passed`) and that the policy in force is no older than when the
  request came (`Current`); what the policy decided is only among them where there is
  one (`Policed`). `AllowedTransfer` and `AmountsCovered` read the two rules on amounts
  from either side. A step of the file or the evaluator leaves requests
  alone, a step of a request leaves the evaluator alone (`PolicyStutters`).
  `InputAssumption` is what the proofs take from outside: only the swap makes tokens
  with the edge's secret, and the services of the two platforms make attestations with
  their own claims only; nothing is assumed of an attestation anybody else made.

Every invariant and every refinement a run checks has its theorem. Only
model-checked: the liveness properties (`EdgeAnswers`, `Recovers`,
`Converges`), which are outside the prover's reach. The four properties that fail
are refuted by TLC's traces.

## 5. What is not modelled

* Floating point: Lua computes refills in doubles; the model is exact.
* Loss of data in Valkey or Postgres, and a clock of the gateways that runs
  backwards for sessions (one clock serves all of `AuthSession`).
* The JSON, PEM, Base64 and HMAC encodings; a signature or token is valid exactly
  if it was made by the right key over the right content.
* What the identity provider does with a token it no longer takes is its own choice
  in `TokenLifecycle` (see there); its tokens and user info are otherwise taken as
  genuine.
* The breaker of the identity provider, which is made outside the repository's code,
  so it has no settings to model: in `AuthSession` and `TokenLifecycle` it is a
  refusal that may happen at any time. `Transfer` treats its breaker the same way,
  which covers every behaviour of `CircuitBreaker`.
* Policies with rules other than the shipped ones.
* Masking: pure string functions whose result only goes to the log.
* Telemetry, correlation IDs and the indexer tool, on which no behaviour depends.

## 6. Plan

Done: every module of section 2 with its runs, and a theorem for every invariant
and the refinement. Left:

1. Two hazards without a property (`PROJECT.json`): the cookie a late callback
   clears, and the user info that fails after the exchange.
2. Action properties over the same invariants: the policy in force only advances
   while the process lives (now the lemma `PolicyAdvances`), and an execution that is
   over stays over.
3. An abstract specification of a payment (submitted, executed, answered) that `Transfer` refines.
