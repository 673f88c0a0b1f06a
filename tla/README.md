# Verification of Native Kiln

TLA+ models of Native Kiln, a self-hosted build service for mobile applications,
the TLC configurations that check them on small instances, and TLAPS proofs of
the properties that matter most.

Native Kiln is at its first phase: the control plane (an API with one
administrator, a dashboard, a seed, start-up, health) works, the build and store
parts are type definitions, transition tables and stubs. The development follows
that: the authentication of the API, where requests, timers and failures
interleave, is modelled in most detail; the processes and their containers, the
health checks, the seed, the life cycles and the shared libraries follow.

## 1. The system

### Components

| Part | State it keeps | Operations | Talks to |
|---|---|---|---|
| Login rate limiter, `apps/api/src/auth/rate-limit.service.ts` | one Redis counter with an expiry per IP and email | `assertLoginAllowed`, `clear` | Redis |
| Session service, `auth/session.service.ts` | table `sessions`, keyed by the SHA-256 of a token | `create`, `validate`, `revoke` | PostgreSQL |
| Auth service, `auth/auth.service.ts` | `users.lastLoginAt`, `audit_events` | `verifyCredentials` | PostgreSQL |
| Auth controller, `auth/auth.controller.ts` | cookies `kiln_session`, `kiln_csrf` in the browser | `login`, `logout`, `me` | the three above |
| Guards, `auth/auth.guard.ts`, `auth/csrf.guard.ts` | none | `canActivate` before each handler, in the order of `app.module.ts` | session service |
| Health, `health/health.controller.ts`, `packages/shared/src/health-server.ts` | none | `/healthz`, `/readyz` | database, Redis, S3 |
| Redis, Prisma and storage services | one client each | connect, ping, close | the services |
| Build states, `packages/shared/src/build-state.ts` | column `builds.state` | `canTransitionBuild`, `assertBuildTransition` | no caller yet |
| Submission states, `packages/shared/src/submission-state.ts` | column `submissions.state` | `canTransitionSubmission`, `assertSubmissionTransition` | no caller yet |
| Administrator seed, `packages/database/prisma/seed.ts` | table `users`, container logs | one run | PostgreSQL |
| Schema, `schema.prisma`, `migration.sql` | all tables | referential actions, unique constraints | |
| Credential cipher, `packages/credentials` | a current key and previous ones | `encrypt`, `decrypt`, `safeEquals` | no caller but `safeEquals` |
| Redactor, logger, `packages/shared` | patterns | `redact` | |
| Configuration, `packages/config` | none | `loadConfig` and a schema per service | environment |
| Worker, cleanup, `apps/worker` | a BullMQ worker and queue; a timer | a no-op job; shutdown | Redis |
| Runner manager, mac runner, build engine, store connectors | none to speak of | stubs, interfaces | |
| Start-up, `docker-compose.yml` | state and health of each container | health checks, `depends_on`, restarts | |
| Dashboard, `apps/web` | none | login form, a static page | API |

### What is hard in it

- *Interleaving.* Node runs one handler at a time between two awaits, but every
  Redis command and every query is an await, and requests of several tabs or
  clients run through each other there. The `lastSeenAt` refresh of a session is
  not awaited at all.
- *Failure part way.* A login makes seven calls to two stores with no
  transaction. Any of them can throw, have its effect or not, or be the last thing
  the process did.
- *Resending.* The Redis client has `maxRetriesPerRequest: null`: a command whose
  reply was lost is sent again, and waits without limit.
- *Time.* Three clocks matter: the expiry of Redis keys, `expiresAt` of a row
  (computed before the insert, compared after a read), and the lifetimes of two
  cookies (one a date, the other a duration from the arrival of the response).
- *Order.* Responses of several tabs reach the browser in any order, or not.
- *Repetition.* The seed runs on every start of the stack; transition requests
  will be repeated by whoever retries them.
- *Waiting on others.* The API does not listen, and does not react to a signal, before
  object storage has answered; it does not end before its requests have. None of
  these waits has a limit.
- *Restarts.* Compose orders the first start of the containers, Docker restarts
  them in no order; signals arrive at any point of a start, a job or a shutdown.

`PROJECT.json` lists every hazard with its line and the properties that cover it,
or why none does.

### What makes each part correct

- Limiter: a bounded number of attempts per life of a key; a counter is always
  going to expire; a lockout ends.
- Sessions: what was revoked stays revoked; what has ended is never granted;
  nobody's session ends by another's logout.
- API: each path through the handlers uses the two services as they are meant to
  be used; both cookies belong to one login; no session without its audit event;
  no logout without session and CSRF token.
- Life cycles: stages in order, one outcome, terminal states final and only they.
- Seed: never replaces a password, never prints a wrong one, prints each once.
- Readiness: trouble takes the health of a container down, recovery brings it back,
  and a pass says something about the dependencies.
- Processes: none runs before the database is ready for it; a shutdown ends, once what
  it waits for is back, and cuts no job short; what failed comes back.
- Configuration: what `.env.example` describes is accepted.
- Credentials: what was stored stays readable through key rotations, and nothing
  that was not stored is ever read.
- Redaction: no known secret, and no end of a larger match, is left in a text.
- Errors: no internal text reaches the browser.

## 2. Modules

| Module | Models | Composed of | Checked by | Proofs |
|---|---|---|---|---|
| `RateLimit` | the limiter over Redis | | `MCRateLimit`, `RateLimit.cfg`, `RateLimitFaults.cfg` | `RateLimitProofs` |
| `Sessions` | the session service over its table | implements `SessionLife` | `MCSessions`, `Sessions.cfg` | `SessionsProofs` |
| `SessionLife` | the promise of the session service, abstractly | | as `LifeRespected` in `Sessions.cfg` | `SessionsProofs` |
| `AuthApi` | controller, guards, credentials, browser | `RL == INSTANCE RateLimit`, `S == INSTANCE Sessions` | `MCAuthApi`, `AuthApi.cfg` | `AuthApiProofs` |
| `Lifecycles` | builds and submissions | | `Lifecycles.cfg` (no constants) | `LifecyclesProofs` |
| `Seed` | the administrator seed | | `MCSeed`, `Seed.cfg`, `SeedFaults.cfg` | `SeedProofs` |
| `Readiness` | `/readyz` of API, worker and runner manager, and the health Docker derives | | `MCReadiness`, `Readiness.cfg`, `ReadinessFaults.cfg` | `ReadinessProofs` |
| `Config` | the schemas of the environment and `loadConfig` | | with `Processes` | |
| `Processes` | containers and processes from start to exit | `Config` | `MCProcesses`, `Processes.cfg`, `ConfigBlank.cfg` | `ProcessesProofs` |
| `Credentials` | the credential cipher and the rotation of its keys | | with `Library` | `LibraryProofs` |
| `Redaction` | the redactor | | with `Library` | `LibraryProofs` |
| `Errors` | errors, the exception filter and the login page | | with `Library` | `LibraryProofs` |
| `Library` | the three libraries, one exercised at a time | `Credentials`, `Redaction`, `Errors` | `MCLibrary`, `Library.cfg` | `LibraryProofs` |

Definitions under a comment `MUTANT:` are wrong on purpose: each is
a plausible mistake in the code next to it, and replaces the right definition to
see that a property notices. No specification uses them.

### RateLimit

`count[i]` and `ttl[i]` are the key of identifier `i`; `at[r]` is the command that
request `r` has sent and not seen answered; `who[r]` its identifier. One action
is one command executed by Redis together with what the handler does until its
next await:

| Action | Code |
|---|---|
| `Arrive` | the handler builds the identifier and calls `assertLoginAllowed` |
| `Incr` | `INCR`, then `count === 1` or `count > MAX_ATTEMPTS` (a 429) |
| `Expire` | `EXPIRE`, which does nothing to a key that is gone |
| `Fail` | `verifyCredentials` throws |
| `BeginClear`, `Clear` | it returns; `DEL` |
| `Resend` | Redis executes a command a second time for a lost reply |
| `CommandFails` | a command throws, executed or not, and the request ends with a 500 |
| `Crash` | the process dies; commands already executed have had their effect |
| `Tick` | a unit of time passes and keys expire |

Counters are cut off at `CountCap == MaxAttempts + 1`; the code compares them with
1 and `MAX_ATTEMPTS` only. `passes` and `faulted` are history: nothing reads them
but properties.

### Sessions

`rows` is the table, by digest; `left[t]` is the time to `expiresAt`; `touches` the
refreshes under way; `phase[r]` the query request `r` awaits. `Mint` draws the
token and the expiry *before* the query, `Insert` is the query, `Find` the read,
`Check` the later comparison with the clock, `Purge` the deletion of an expired
row (or its swallowed failure), `Touch` the refresh reaching the database, `Revoke`
and `RevokeFails` the delete and its swallowed failure. `InsertFails` leaves the
row written or not. `Hash` is any injective function: the model does not confuse a
token with its digest (storing the raw token is one of the mutants). `given` is
what a cookie can hold, `ended` and `late` are history.

`SessionLife` is what a user of the service may rely on, without table, queries
or clock: a session is new, live or gone and never goes back, and requests get
hold of live sessions only. The mapping: a session is new until its creation has
settled, live while its row is there, gone afterwards; a request holds the session
it found until it has answered. A restart of the process makes requests let go and
turns sessions that were being created into either.

### AuthApi

Its steps are those of `RateLimit` and `Sessions`, conjoined with what the handler
does around them (`doing`, `csrfOk`), the audit trail, the responses on their way
(`out`) and the browser (`cookie`, `csrf`, `csrfLeft`). A login goes
`Login` → `Attempt` (INCR, EXPIRE) → `Reject` or `Accept` → `StampUser` →
`WriteAudit` or `AuditFails` → `ClearAndMint` → `Create` or `CreateFails` →
`DeliverLogin` or `LoseResponse`; `CommandFails` ends it at any command of the limiter,
the `DEL` included. A request behind the guards goes `Send` →
`Authenticate` (Find, Check, Purge) → `Me`, or `Forbid`, or `EnterLogout` → `Logout`
→ `DeliverLogout`. The guard order of `app.module.ts` is the order of these phases.
The CSRF token is named after the session token of the same login. There is one
browser, whose tabs share its cookies; a page may echo the CSRF cookie, an older
token or nothing.

### Lifecycles

`build` and `submission` are the two state columns; `MoveBuild(to)` and
`MoveSubmission(to)` are the assert functions with the caller storing what they
return; a throw changes nothing. `HappyPath`, `Successors` and `BuildTransitions`
build the table as the code does. The `...Seen` variables are history.

### Seed

`users[e]` is the password of the account with email `e`; each run goes `Start` →
`FindExisting`, or `FindNobody` → `Create` or `CreateConflicts` → `Show`; `Die` is a
throwing query or a stopped container at any point, the account written or not.

### Readiness

`mode[d]` says whether a dependency is up, answers with errors or is silent. A
refused connection is an error to Prisma and the S3 client and silence to
ioredis, which reconnects and queues without limit. `stage[s]` is how far the
process of a service is: the API connects to the database (`Connect`) and waits
for an answer about its bucket before it listens (`Listen`), the others listen at
once. A probe goes `Ask` → `Reply`, `Fail` → `Respond`, or ends in `TimeOut` or
`Refused`; `Verdict` is Docker's bookkeeping of `fails` and `health`. The API sends
its three commands at once and catches what they throw; the worker sends a second
command after the first, and the health server turns a throw into 503. The
commands of a probe that was cut off stay queued in the code; nothing reads their
answers, so the model drops them.

### Config and Processes

`Config` has one operator per group of variables of `packages/config/src/schema.ts`,
one schema per service, and `Accepted(v)`: the classes of values variable `v` takes. A
value is unset, blank (set to the empty text, which is what `VAR=` in an `env_file`
means), malformed or good. `Offenders(s, env)` are the keys `loadConfig` names for
service `s`. `Variables` adds `ADMIN_EMAIL`, which only the seed reads, by itself. To a variable that only has to be non-empty every text is good
enough.

`Processes` has one process per service (API, worker, cleanup, runner manager):

| Action | Code |
|---|---|
| `PgUp`, `RedisUp` | the healthy databases |
| `StorageChanges` | the object storage, outside the stack, falls silent or answers again |
| `Migrate` | the one-shot `migrate` container, which migrates, then seeds; it fails without a database it can reach with `DATABASE_URL`, or without an `ADMIN_EMAIL` |
| `ComposeStart` | `depends_on`: healthy databases, `migrate` completed |
| `Restart` | `restart: unless-stopped`, which waits for nothing |
| `ComposeUp` | an operator brings the stack up again; what was stopped starts afresh |
| `Load` (`Refuse` or `Serve`) | the configuration, then clients and handlers |
| `Connect` | `$connect()` of the API, which throws without a database |
| `Listen` | `HeadBucket` of the API was answered, with or without an error, and it listens |
| `Ask`, `Answer` | a request to the API, until it is answered and nothing of it runs on |
| `TakeJob`, `FinishJob` | the queue of the worker |
| `Signal` (`SignalLost`, `ExitAtOnce`, `EnterShutdown`) | SIGTERM or SIGINT at any time, of `docker stop` or not |
| `Advance` | the calls of `shutdown()` that wait at a step get past it |
| `Kill`, `Die`, `LoseDependency`, `Reboot` | the end of Docker's patience; failures |

`runs[s]` is the set of steps at which calls of `shutdown()` wait: each signal adds a
call at the first step, and calls at one step await the same promise, so a set is
enough. `Serve` is one step because nothing in it is awaited. The decisions taken:

- A client of Redis that is not connected may drop what a shutdown sends it or keep it
  until Redis is back, so a step of a shutdown may be taken without Redis, but only with
  Redis is it bound to be.
- Nest is taken to wait for the end of its initialisation, `HeadBucket` included, before it
  runs its shutdown hooks: with the object storage silent an API in stage `connected` gets on
  neither with its start nor with its shutdown.
- After the hooks of Redis and Prisma comes `http.close`: the HTTP server stops accepting and
  waits for the requests under way. Nest then sends the signal to its own process again. No
  handler is left for it and the process is the first of its container (`CMD` starts
  `node` itself, and Compose asks for no `init`), so that signal is lost; the process
  ends, with 0, because nothing keeps its event loop alive. Both are the last `Past` of the
  API. `request` therefore stands for a request whose response is due or whose work still
  runs: either would keep the process. One request stands for many.
- A signal that finds no handler is lost, for the same reason.

### Credentials, Redaction, Errors, Library

`Credentials` takes AES-256-GCM as an ideal cipher: a ciphertext is its key, nonce and
text, and opens only with key, nonce and tag it was made with. `Seal` is
`encrypt` with a fresh nonce; `Rotate` is an operator's: a new cipher under a new
version, with the replaced key among the previous ones, as the design notes of
`packages/credentials` and `.env.example` have it. What a reader is given may
mix the columns of different rows, name any version and have a tag cut short.

`Redaction` follows every symbol of the text: what is left is a sequence of positions,
with 0 for `[REDACTED]`. The variants are modelled by what the encodings do:
base64 by which bytes each symbol depends on and its place among four, the URL
encoding by three symbols for a reserved one. Patterns go longest first, in any order
among those of one length. `redact` is a loop over the patterns around the loop of
`String.replace` with a global pattern: `NextPattern` takes one of the longest patterns
in `todo`, `ReplaceMatch` replaces its first occurrence from `lastIndex` on and moves
behind it, `PatternDone` ends when there is none. `redact` has returned when `Redacted`.
`Redactions` is the set of the pairs of secrets and text that are tried. `[REDACTED]` is one
opaque symbol that no pattern contains: left out are patterns that match inside the
inserted word, or across its edge into the text beside it (a secret such as `REDACTED`,
or one that begins with `]`), with which the code would replace parts of its own
replacements. What is proved and checked about redaction is about secrets of which no
variant is such a pattern.

`Errors` goes from what a handler throws (`Exceptions`) through `Catch`, the exception
filter, to the login page: `Submit`, `Answer` (a response of the API, of a proxy, or
none), `Settle`. A message is either written for the client or internal.

`Library` puts the three beside each other in one run; a behaviour exercises one of
them. Its own steps `CredStep`, `RedactStep`, `ErrorStep` add nothing to theirs, which is
proved (`SideBySide`).

## 3. What is checked

| Run | Instance | What it shows |
|---|---|---|
| `rate_limit` | 3 requests, 2 identifiers, `MaxAttempts` 2, `Window` 2 | `AdmitBudget`, `TtlCovered`, `LockoutEnds`, types |
| `rate_limit_faults` | 2 requests, 1 identifier | violated: `LaterComes` |
| `sessions` | 3 requests, 2 tokens, life of 2 ticks | `RevokedStaysGone`, `NoGrantAfterEnd`, `OnlyOwnLogoutRevokes`, refinement of `SessionLife` (`LifeRespected`), types |
| `auth_api` | 2 requests, 1 identifier, 2 tokens, `MaxAttempts` 1, `Window` 1, `SessionTtl` 2 | `CookiePair`, `SessionsAudited`, `LogoutGuarded`, `ForgottenForCause`, refinement of both components, types |
| `lifecycles` | the real tables | `NoStageSkipped`, `ReviewedInOrder`, `NeverStranded`, `FinishedStaysFinished` |
| `seed` | 2 runs, 2 emails, 3 passwords | `PrintedWorks`, `NeverOverwritten` |
| `seed_faults` | the same | violated: `GeneratedIsPrinted` |
| `readiness` | API and worker, 2 retries | `SilentRedisFailsProbes`, `HealthyHasConnected`, `TroubleTakesDown`, `Recovers` |
| `readiness_faults` | the API, 2 retries | violated: `PassMeansReachable` |
| `library` | 2 keys, 3 versions, 2 nonces, 2 texts; pairs of secrets of 2 or 3 symbols, texts of up to 4 and pairs of variants | `StoredReadable`, `OnlyWhatWasSealed`, `NoSecretLeft`, `LargestMatchGone`, `RepliesSafe` |
| `processes` | the API, or worker and cleanup, or runner manager; 5 environments; 2 failures | `SchemaFirst`, `JobNotCut`, `ShutdownEnds`, `ComesBack`, types |
| `config_blank` | an environment with a blank `S3_ENDPOINT_URL` | violated: `BlankIsUnset` |

**Bounds and why they are enough.** Three attempts on a key with a maximum of
two make every answer of `AfterIncr` happen at once, with a success deleting the
key in between; a window of two ticks tells "just set" from "about to go". Two
identifiers show that keys do not disturb each other. Two sessions and three
requests let a validation overlap a logout of its own and of another session. In
`auth_api` two requests are two tabs, each of which can be anywhere in any
handler; `MaxAttempts` is 1 because `rate_limit` covers more, and a session life of
two ticks lets a response be delivered before, during and after it. `AuditCap`
(the number of tokens) bounds the audit counter where it stops mattering.
In `readiness` two
retries tell one failure from enough of them (Compose has five), and the worker
stands for the runner manager, which sends one command less; every pattern of the
three dependencies is explored. The theorems cover all three services.
In `library` the minimal length of a pattern is 2, not 6, so that short secrets with
long overlaps have all the cases; the texts hold two variants back to back or
overlapping by one symbol, which is where the order of the patterns matters; two
keys with three versions have a key return under another version. In `processes` two
failures are enough to lose a database during a restart that another failure
caused. Services share only databases, `migrate` and an operator, never each other, so
the API, which has the most states, is observed alone, and the cleanup process, which
has the fewest, with the worker. The environments are the documented one and four that
stop all services, all but the runner manager, the migration, or the seed. The storage
falls silent any number of times. The theorems cover any set of services and any number
of failures.
Request slots serve again when idle, so the number of requests is not bounded, only
how many run at once.

**Deadlock** is checked except in `sessions`, `auth_api` and `library`. The tokens of
the first two are a finite set and are never reused, so a model that has used them
up, with every session expired, may stop; the program draws a fresh one. In
`library` a redaction ends with its last pattern, a page that has signed in asks for
nothing more, and nonces and versions run out.

**Symmetry** is used in `sessions`, `auth_api` and `seed` (no liveness there): the
members of each permuted set occur in no other constant than sets and `Hash`,
which the permutations commute with.

**Fairness** is assumed where there is liveness. In `RateLimit`, for `LockoutEnds`
and `LaterComes`: weak fairness of `Tick` (time passes) and of the steps of each request under way
(the event loop serves every settled promise). Nobody is obliged to log in, and no
fault is obliged to happen; `LockoutEnds` assumes none does. In `Readiness`: weak
fairness of Docker's probing (an interval), of the start of a process, of the
reply of a dependency that stays up and of the response to a probe; strong
fairness of `TimeOut`, because time passes also while a dependency comes and goes,
so a probe that is stuck again and again is cut off. Errors, changes of a
dependency and restarts are never obliged. In `Processes`: weak fairness of the return
of the databases (they are `restart: unless-stopped` too), of `Migrate`, of starting,
restarting, loading, connecting and listening (Docker and the event loop), of the end of a
job, of a step of a shutdown while Redis is up, and of the end of a request while
everything it may ask is up. Nobody has to send a signal, to
kill, to take a job, to ask or to bring the stack up. Failures are bounded in number, so
Redis is not lost for ever: with Redis gone for good a process that awaits `quit()` may
wait until Docker kills it, and `ShutdownEnds` does not say otherwise. Nothing obliges
the object storage, which is not part of the stack: `ShutdownEnds` and `ComesBack`
assume of the API, and of no other service, that the storage answers in the end
(`OutsideAnswers`). Without the assumption both fail, with an API that waits for
`HeadBucket` or for a request.

### Four disagreements

*A lockout without end* (`rate_limit_faults`). `INCR` and `EXPIRE` are separate
commands and only the request that is answered 1 sends the second. If the
process dies in between, `EXPIRE` throws, or the client resends an `INCR` and is answered
2, the key has no expiry. Attempts that follow fill it up and the identifier gets "Too many
login attempts. Try again later." until somebody deletes the key by hand. Without
faults the property holds (`LockoutEnds`, and by proof `TtlCovered`).

*A password nobody saw* (`seed_faults`). The seed promises to print a generated
password once, and to be safe to run repeatedly. The account is committed before
the password is printed; a stop in between loses the password, and every later run
finds the account and leaves it alone.

*A health check that passes on trouble* (`readiness_faults`). The comment on
`readiness` says that it means "dependencies are reachable" and is what Compose's
health check uses. The handler answers 200 with `degraded` in the body when a
check throws, and the health check reads the status code. Only silence takes the
API's health down (`TroubleTakesDown`), by way of the time limit of the probe; the
other services answer 503.

*A blank that is not unset* (`config_blank`). `.env.example` says of `S3_ENDPOINT_URL`
"Leave blank/unset for real AWS S3." A blank line in `.env` sets the variable to the
empty text, which `z.string().url().optional()` refuses: API, worker and cleanup exit
with 1 at every start and are restarted without end. The storage service itself
would have taken an empty endpoint for none.

## 4. What is proved

The theorems hold for every value of the constants, under the assumptions named
in the modules: `MaxAttempts`, `Window`, `SessionTtl` and `Retries` positive, `Hash`
injective, `NoToken` not a token, finitely many tokens (in `AuthApi`, to count them),
`None` not a password, `NoKey` not a key, no internal message among those written for
the client, API and worker among the services, environments that give every variable one of
the four classes, secrets and texts that are finite, `MinLength` positive.

- `RateLimitProofs`: `TypeCorrect`, `BudgetKept`, `ExpiryCovered`. `AdmitBudget` is
  not inductive; `BudgetInv` adds that the attempts let through in the life of a key
  are no more than its counter, which an `INCR` that is resent or fails can only
  raise. A late `EXPIRE` or `DEL` touches both or neither. `TtlCovered` is inductive with the types: only the
  `INCR` that creates a key leaves it without an expiry, and its own request has
  the `EXPIRE` still to send; a request ends that wait by setting the expiry.
- `SessionsProofs`: `RevokedGone` rests on `GoneInv` and `FreshInsert`: a token under
  insertion has been given to nobody, hence has not been revoked, and no two
  requests insert one token; so no insert can restore a revoked row.
  `LateNeverGranted` rests on `LateStopped`: a request whose token had ended when it
  arrived either will find no row or will find its time over. `OnlyOwnLogout`
  rests on `PurgeExpired`: what a validation purges has no time left, because time
  does not run back. `ImplementsLife` maps every step to one of `SessionLife` or to
  none, case by case, with the invariants above for what a step may find.
- `AuthApiProofs`: `ComponentsRespected` shows step by step that the handlers only
  ever take steps of `RL!Spec` and `S!Spec`; so the theorems of both components hold
  in the composition and are used there (the module instantiates
  `RateLimitProofs` and `SessionsProofs`, and `SameLimiter` and `SameSessions` say that these speak
  of the same components). `TypeCorrect` adds what responses and cookies can
  carry. `LogoutsGuarded` needs `HandlersTogether`, which ties the phase of a handler to
  what the two services do for it, and `NoGrantAfterEnd` of the sessions.
  `SessionsHaveAudits` counts (`AuditsCover`): every login past its audit event and every
  session begun has an event of its own. `CookiesPaired` is inductive as
  `CookiesCover`: the CSRF cookie has at least as long to live as the session.
  `ForgottenOnlyForCause` is an action property over the same invariants.
  `PromisesKept` carries the theorems of both components over to the API: none of its
  handlers, guards or failures breaks what limiter and sessions promise.
- `LifecyclesProofs`: `StagesInOrder` says how far a build has come, by induction
  over the steps, with the facts about the table (`HappyPathFacts`,
  `LegalBuildMove`) as lemmas; `ReviewComesLast` needs `Behind`, the
  states a submission must have seen to be where it is; `Finished` needs the tables
  only; `NobodyStranded` compares them with the sets of terminal states.
- `SeedProofs`: `PasswordKept` from the guard of `Create`, which is the unique
  constraint on the email; `ShownPasswordWorks` needs `AboutToPrint`, that a run
  about to print holds the password of the account, and `PasswordKept`.

- `ReadinessProofs`: `HealthyConnected` by `StartedConnected`, that only a
  connection to the database gets the API past its start; `SilenceFails` by
  `PingOutstanding`, that a probe which met only silence from Redis still waits for
  its `PING`, whatever the other commands did.

- `LibraryProofs`: `RotationKeepsReadable` by an invariant that every stored value
  was sealed under the key its version has in the current cipher; a rotation takes a
  version that is not in use. `NothingForged` needs only that tags are bound to what
  they were made for. `NothingInternalShown` by what a response and the page can hold.
  `NoSecretLeaves` and `LargestGoes` share `RedactInv`, over any secrets, any text and any
  order of patterns of one length. Its parts are there for these reasons: `RedactTypes`
  keeps patterns non-empty; `InOrder` and `Contiguous` say that a run of symbols without
  `[REDACTED]` is a piece of the text as it was given, so whatever is matched in what
  is left occurs in the text too (`LeftOccurrence`), which gives `OnlyCoveredGone`;
  `AppliedGone` says that a pattern that was applied, or the current one before
  `lastIndex`, occurs nowhere, and a replacement cannot create an occurrence because none
  goes over a `[REDACTED]` (`CutOccurrence`); `LongestFirst` and `LargestWhole` follow an
  occurrence that overlaps shorter ones only: until its own pattern reaches it,
  everything replaced is at least as long, hence apart from it, and it is left as a
  whole. No induction over texts is needed, for the loop is in the steps.
  `RedactEnds` gives the loop its measure: a step takes a pattern from those to come, or
  leaves the current one less to look at, or is done with it.
  `SideBySide` shows that `Library` is all three specifications at once.
- `ProcessesProofs`: `NeverBeforeSchema` by `SchemaInv`: `migrate` is done only with a
  seeded database, and the database does not go back. `JobsNotCut` by `ClosedInv`: a
  call of `shutdown()` past `workers.close` has seen the job end, and no job is taken
  while any call is under way; then no other step exits cleanly (`CleanExit`). The
  number of failures, the services and the environments are arbitrary.
  `NoErrorWithoutCause` rests on `NoCauseInv`: while nothing has failed, a service that uses
  the database was started after it was up, only such a service waits for a
  connection (a documented `DATABASE_URL` reaches it), and an error is that of a service somebody stopped and Docker killed.
  `LoadedFirst` (`ServingInv`) says that only an accepted configuration gets a process as far
  as its handlers. `BlankIsFatal` locates the disagreement over `S3_ENDPOINT_URL`: the
  blank is the only key refused, by every service but the runner manager
  (`BlankOffends`), so these never serve; without the blank `NoErrorWithoutCause` holds.

**Only model-checked:** `LockoutEnds`, `TroubleTakesDown`, `Recovers`, `ShutdownEnds` and
`ComesBack`: liveness under fairness is out of the prover's reach. Every safety
property of a passing run is a theorem. The four disagreements are counterexamples of
TLC; `BlankIsFatal` shows more of one of them.

## 5. Not modelled, and why

- Wording, layout and logging; the cryptography of Argon2, SHA-256, AES-GCM and random
  tokens and identifiers (ideal: injective, bound, never repeated); requests that are
  refused before they touch any state.
- The restart of Redis with `appendonly` (a second of writes may be lost) is not in
  `RateLimit`.
- The web container, which waits for a healthy API and keeps no state, and its static
  pages. The health that `depends_on` reads is in `Readiness`; in `Processes` a database is
  up or not.
- `schema.prisma` beyond the defaults and unique constraints other parts rely on:
  its referential actions on deletion are reached by no code of the repository.
- Build engine (types, and a registry that returns the first match), store connectors
  (interfaces), mac runner (stubs and checks of local tools), the work of the cleanup
  timer and of the runner manager (nothing yet): no state, no concurrency.
- Ranges of numbers in the configuration: in range or not is one class.

Remarks from reading, with no property to check:

- `SESSION_SECRET` is validated and documented as signing sessions, and nothing reads it.
- `docker-compose.yml` publishes `${API_PORT}:4000` and `${WEB_PORT}:3000` while the API
  listens on `API_PORT` itself and the health check asks `WEB_PORT`.
- `login` answers `isAdmin: true` whatever the account is.
- `createLogger` reads `LOG_LEVEL` when a module is loaded, before the configuration is
  validated: a bad level ends the process with an error of the logger.
- The cipher takes previous keys and no environment variable carries them.
- The message of a validation error of an enumeration repeats the value it was given.
- The placeholder of `S3_ENDPOINT_URL` in `.env.example` is not a valid URL.

## 6. Plan

What is left grows with the code:

1. Builds: once a processor moves a build, the caller of `assertBuildTransition` that
   reads, checks and stores, with two workers on one build (today `Lifecycles` stores at
   once, for no caller exists).
2. Cancellation and cleanup of a build adapter, the log redaction on its way, and the
   retention rule of the cleanup process ("must never delete the most recent
   successful production artifact").
3. `Schema`: which deletions succeed, once something deletes.
4. `Readiness` and `Processes` composed, so that a service waits for the health Docker
   has derived, with the web container at the end of the chain.
5. Proofs: the safety half of the liveness properties, as `RedactEnds` is for the
   redactor (a measure that a shutdown or a lockout lowers, with fairness left to TLC),
   and that different secrets have different encodings.
