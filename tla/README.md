# Verification of template-servico-rust

TLA+ models of the service, the TLC runs that check them and the TLAPS proofs
about them. Paths of the code are relative to the repository.

## 1. The system

A small HTTP service: axum handlers over a PostgreSQL pool, behind an optional
JWT gate, a request timeout and a few response layers.

| Component | Code | State it keeps | Operations |
|---|---|---|---|
| JWT gate and JWKS cache | `src/auth.rs` | `cached_json`, an `RwLock<Option<String>>` shared by all requests | look up, fetch, store; verify a token |
| User handlers, health check | `src/handlers.rs`, `src/models.rs` | none of their own | create, list, get, health |
| Pool and table | `src/db.rs`, `migrations/` | 10 slots, the connections in them; the rows of `users` | acquire, execute, give back |
| Error mapping | `src/error.rs` | none | `AppError` to problem details; which database errors are conflicts |
| Router and layers | `src/routes.rs`, `src/security.rs` | the Prometheus recorder | timeout > security headers > CORS > trace > metrics > router > gate > handler |
| Configuration | `src/config.rs` | the environment, read once | load, with a fallback path |
| Start-up, shutdown | `src/main.rs` | the stage the process is in | connect, migrate, connect Redis, serve, drain, close |
| Redis cache | `src/cache.rs` | a connection | get, set, delete; no handler calls them |
| Telemetry | `src/telemetry.rs` | the global subscriber | initialise |

How they interact. A request is one tokio task. It passes the gate, which may
wait for the JWKS endpoint; its handler waits for a slot of the pool, for a
connection in it, and for the statement's result. The gate's cache and the pool
are the only state that requests share in the process; the table is the only
state that outlives it. The task can be dropped at every `.await`: by the
`TimeoutLayer`, or by hyper when the client hangs up.

What is hard here:

* *Cancellation.* A dropped handler takes nothing back: the statement it sent
  is executed or not, and the connection returns to the pool later, in a task
  spawned by the driver.
* *Check, then fetch, then store.* The JWKS cache is read under one lock and
  written under another, with a network call in between.
* *Two clocks.* The pool gives up after 10 s, the request after 10 s, and they
  start at different moments.
* *Failures at every step.* Lost connections whose statement is executed all
  the same, refused connections, an identity provider that hangs or serves error
  pages, a process that is killed with its statements at the server.

What makes each component correct, in a sentence: the gate admits only tokens
that a served key set vouches for, and outages do it no lasting harm; the
handlers tell the truth about what their statement did, and refused requests
leave nothing behind; the pool is bounded and leaks no slot; every request
ends; errors are told apart correctly. PROJECT.json lists the hazards with
their lines.

## 2. Modules

| Module | Models | 
|---|---|
| `Jwks` | `auth.rs` 27-168: the cache and the gate |
| `Gatekeeper` | the abstract gate: what it promises, without a cache |
| `MCJwks` | its instances: a key rotation, an error page, six kinds of token |
| `JwksProofs` | TLAPS proofs about `Jwks` |
| `GatedService` | `routes.rs`: `Jwks` around `UserService`, under the request timeout |
| `MCGatedService`, `GatedProofs` | its instance and TLAPS proofs |
| `Problem` | `error.rs`: pure operators, no state |
| `UserService` | `handlers.rs`, `db.rs`, the migration and the outer layers of `routes.rs`, over a PostgreSQL that may stop |
| `UserStore` | the abstract store: what the user API promises to clients |
| `MCUserService` | the instances of `UserService` |
| `UserServiceProofs` | TLAPS proofs about `UserService` |
| `UserStoreProofs` | TLAPS proofs that the abstract store is one to rely on |
| `StoreProofs` | TLAPS proofs of what is read, and that `UserService` implements `UserStore` and keeps its promise |
| `Lifecycle` | `main.rs` from start to end, with `telemetry.rs`, `db.rs` and `cache.rs` as steps of the start-up; crashes and restarts |
| `GracefulService` | the abstract process: what it promises clients and operators |
| `MCLifecycle`, `LifecycleProofs` | its instances and TLAPS proofs |
| `Config` | `config.rs`, and `build_cors_layer` of `security.rs` |
| `MCConfig`, `ConfigProofs` | its instance and TLAPS proofs |

Three components have an abstract specification that says what they promise to
those outside, and implement it under a refinement mapping: `UserService`
implements `UserStore` (`ImplementsStore`), `Jwks` implements `Gatekeeper`
(`ImplementsGate`), `Lifecycle` implements `GracefulService` (`StopsGracefully`).

`UserService` extends `Problem`. By itself it replaces the gate by a choice between `Admit`
and `Deny`; `GatedService` composes it with `Jwks`, which makes that choice, and
implements both (`PartsAreImplemented`).

### Jwks

State: `cached` is `cached_json`; `step[r]` is the `.await` that request `r` has
reached (`check` the read lock, `fetch` the two awaits of `reqwest`, `store` the
write lock); `json[r]` is the string it goes on with; `endpoint` is what the
identity provider serves now. `published` (all that was ever served), `recent`
(what was served since the process started) and `window` are histories, never
read by an action of the code.

| Action | Code |
|---|---|
| `Arrive` | 98-127: missing header and undecodable JWT are answered at once |
| `ReadCache` | 50-55 |
| `FetchBody`, `FetchFails` | 57-63; the body is whatever is served, the HTTP status is not looked at |
| `StoreBody` | 65-67: overwrites, and returns its own copy |
| `Decide` | 73-87 and 129-160: parse, find the key, validate |
| `Cancel` | the future is dropped at one of the three awaits |
| `Retry` | the client, after a 401 that said "Please try again" or a cut connection |
| `Publish` | the endpoint serves another body |
| `Restart` | the process is killed; the next one makes an empty cache (`main.rs` 26-29) |

A token is its `kid`, the key that signed it and whether its claims are
acceptable (expiry, issuer, audience and algorithm are one Boolean, because the
code hands all of them to `jsonwebtoken::decode`). A body is a model value; the
function `KeySet` gives the keys of those that parse, in order. A request drops
both locks before it does anything else, so each locked section is one action.

`Gatekeeper` has no cache, no locks and no fetches. A request presents what it
has, obtains one body out of those served while this process has been running,
and is admitted exactly if that body vouches for its token; a refusal needs a
body that does not, and whatever fails leaves it unjudged, with another try. In
the mapping, `json` is the body a request is judged by and `step` with `reason`
its verdict (`Verdict`). A body is never exchanged once obtained, and `Renew`
takes the bodies of the last process away: a cache that outlived its process
would break it.

### UserService

State: `phase[r]` follows the task (`gate`, `handler`, `queued` for a slot,
`connecting`, `querying`, then `answered` or `gone`); `conn[r]` is the slot that
`r` has taken of the pool, which it may hold after its end; `stmt[r]` and
`outcome[r]` are the statement at the server; `rows` is the table; `age[r]` and
`begun[r]` are the two clocks. `known[r]` is a history: the users that anybody
was shown before `r` arrived.

| Action | Code |
|---|---|
| `Arrive`, `Admit`, `Deny` | `routes.rs` 100-131, `auth.rs` |
| `Reject` | the extractors (`error.rs` 366-420) and `create_user` 46-56 |
| `AskPool`, `TakeSlot`, `Connect`, `ConnectFails`, `AcquireTimesOut` | `fetch_one(&state.pool)` and its siblings up to the statement, with the pool of `db.rs` 10-13 |
| `Execute` (`Insert`, `Select`) | the statements, atomic at the server |
| `Finish`, `QueryFails` | the handlers' ends, through `DatabaseError` and `AppError` of `Problem` |
| `Timeout` | `routes.rs` 137-140; polls its timer first, so `Running` guards every other step of the task |
| `Disconnect` | hyper drops the task |
| `ReturnConnection` | the task sqlx spawns when a connection is dropped |
| `LoseConnection`, `DbStops`, `DbStarts` | the network and the server |
| `Crash` | the process is killed: tasks and connections go, what was sent to the server stays there |

A user's id is the request that created it: `Uuid::new_v4` is assumed never to
repeat. Names are model values with a function `Trim`; the e-mail is compared as
it is, as the code does. Behaviour of sqlx, tower-http and PostgreSQL is taken
from how the code uses them and marked external in PROJECT.json: refused
connections are retried until the acquire timeout, other failures to connect
are reported at once; a connection is tested before it is handed out; a slot of
a dropped request is free at once when it holds no connection, and when its
statement has ended otherwise; an INSERT ... RETURNING answers when it has
committed. `TakeSlot` lets any waiting request go first; sqlx is fair, so this
allows more behaviours than the code has. Errors of sqlx carry the phrases of
their texts that `error.rs` 288-298 may look for. A duplicate key is told by its
SQLSTATE and its text alike; the two driver errors that reach a handler here (a
broken connection, an exhausted pool) go through the text test of 296-297, which
says no to both. It would say yes only to a text with "unique constraint" or
"duplicate key" in it, which no error of the modelled driver has; the unit test
at 576-583 makes one up.

### UserStore

A call takes effect at most once, atomically. Its reply is definite and says
what the effect was, or a refusal, after which there is never an effect, or
unknown (408, 500, 503, a hang-up), after which the effect may be there, still
come, or never come. `Told` maps answers to these. From its actions follows what
clients may rely on (`Promise`, `EffectsLast`): e-mails are unique, users are
exactly the creates that took effect, definite replies are true, nobody is shown
a user that does not exist, and nothing is taken back.

### GatedService

The state of both parts: a request has a `phase` in the service and a `step` in
the gate, and its `phase` is `gate` as long as the middleware has no verdict.
Every action of a part happens exactly as in its own module.

| Action | Code |
|---|---|
| `Enter` | the routing: `route_layer` puts the gate around `/users` only (100-110); what needs no key is settled at once |
| `Consult` | `get_jwks_json`, up to the body |
| `Judge`, `TurnAway` | the verdict, with `next.run(request)` or the 401 |
| `Drop`, `CutOff` | the timeout or a hang-up ends middleware and handler as the one task they are |
| `Handle` | the handlers, behind the gate or without one |
| `Pass`, `Republish`, `CrashAll` | clock and database, identity provider, the end of the process |

There is no `.await` between the body and the verdict, so a request that looks
its key up is not dropped there, nor does the clock run meanwhile.

### Lifecycle

State: `stage` is where `main` is; `logging` and `tracer` are what telemetry has
installed, `pool` and `migrated` the database as the process sees it; `watcher`
is the task of `shutdown_signal`; `conn[c]` is how far the request on `c`'s
connection is; `left` are the statements that dropped requests have left behind.
`cut` is a history of what the end of the process cut off.

| Action | Code |
|---|---|
| `InitTracing` ... `Bind` | `main.rs` 10-53, one action for each await and for the router |
| `StartFails`, `StartPanics` | the `?` of each of them; `AllowOrigin::list` given `*` |
| `Accept` ... `HangUp` | a connection of `axum::serve`; `TimeOut` is the timeout layer |
| `Install`, `Signal`, `WatcherEnds` | 71-99: the handlers are installed at the first poll, when connections may already be accepted |
| `StopAccepting`, `CloseUnread`, `ClosePool` | the graceful shutdown of 51-53, and the call of `pool.close()` |
| `PoolClosed`, `Exit` | its await, 56; the exporter's shutdown and `Ok`, 58-65 |
| `Kill`, `Restart` | a crash, or a signal before the handlers exist; the supervisor |

That a signal kills a process without handlers is the default of the operating
system; as process 1 of a container, which the Dockerfile makes it, it ignores
the signal instead. Both are in the model: the second changes no state. The
shutdown of the exporter is modelled as asked for; what the OpenTelemetry
library does with it is not.

The graceful shutdown tells every connection to end: hyper finishes the request
that it has read and takes no other. A connection whose next request it has not
read is closed, be it idle or with a request on its way (`sending`); such a
request may also still be read in time, as the first of a fresh connection can
be, so `CloseUnread` and `Receive` are both possible there and the code decides
for neither.

`GracefulService` is the same seen from outside, with no signals, tracing, pool
or configuration: it opens with its table in place, accepts nobody once it stops,
answers every request that it has read unless its client hangs up, ends by itself
only when nobody is there and nothing runs in the database, and may break at any
time. To a request that it has not read when it stops it owes nothing. In the
mapping, `Life` folds the stages of `main` into five and `Talk` the states of a
connection into five.

### Config

One action loads and one builds the CORS layer; what matters is in the
operators, which follow the code's two ways: `FromEnv`, what `envy` makes of the
environment, and `Fallback`, what the code does when `envy` refuses it.
`Completed` is what the code does to the result of either. All eleven fields of
`AppConfig` are there, and all thirteen variables that they are read from. An
`Option` is a set of at most one value. The parsers are functions of model
values, `Serde` and `FromStr`, of which `ConfigAssumption` says what the two
lists of names show: where the strict one succeeds they agree.

## 3. Runs

| Run | Expect | Question |
|---|---|---|
| `jwks_safety` | pass | Is the gate sound, are fetched keys fresh, does the cache settle, does it all implement `Gatekeeper`, with rotations, error pages and restarts? Do failed fetches, dropped requests and restarts leave no harm behind? |
| `jwks_retry_page` | violation | Does trying again help after an error page? |
| `jwks_one_fetch` | violation | Is the cache filled once? |
| `service_all` | pass | Every kind of input: do refusals leave nothing behind, is the store implemented? |
| `service_race` | pass | Three requests race for an e-mail and read the result: is what anybody was told true, and does it stay so for those who read later? |
| `service_live` | pass | Does every request end and every slot return, with a database that may never come back? |
| `gated` | pass | Gate, handlers and timeout together: does nobody get work done without a vouched token, is nobody refused without a reason, does a request end while its fetch hangs, and is each part still the one its module describes? |
| `service_headers` | violation | Do all responses carry the security headers? |
| `service_health_down` | violation | Is a database that is down a 503 on `/health`? |
| `config_loading` | pass | Are the given settings the ones used, whatever else is malformed? Do the two ways of loading agree? |
| `lifecycle` | pass | Do requests always have their pool, does a clean exit cut off nothing that was read, does the shutdown end, is the service up again after any trouble? Is `GracefulService` implemented? |
| `lifecycle_blind` | violation | Does a service that serves have a subscriber? |

Bounds. Two requests suffice for the races of `Jwks`: each is between one
request that fetched early and one that fetched or read late; the proofs cover
any number. `service_race` has a third request, so that two creates race while
another reads, and two slots, so that one of the three waits; its requests `r`
and `s` are symmetric (no input names them) and it checks invariants only. The
timeouts are 1 or 2 ticks: 2 where the order of the clocks matters, 1 where it
only matters that they can expire. One slot where waiting is the point.

`gated` asks about the meeting of the two parts, so it has only what makes them
meet: two requests, each a create or a get that its extractor refuses, one good
token or none, keys that rotate, so that the same token is good or bad depending
on when its request fetched, one slot, and a pool timeout below the request's.
The other inputs and bodies are the business of the parts' own runs; some
432,000 states.

`Lifecycle` has two clients, so that one stalls, leaves or is served while the
other does something else, all 24 configurations that `main` can tell apart, and
any number of restarts; a client comes back only when the statement it left has
ended. `Config` starts in the environments of `Deployments`, two slices of all
there are: every combination of the three environment variables over four names
(one exact, one that only `from_str` reads, one of another environment, one
unknown) with every set of five origins, and every subset of the seven variables
that hold other texts. In both, `DATABASE_URL`, `PORT` (both ends of the 16 bits,
the number beyond, and no number) and `ENVIRONMENT` make `envy` fail in each of
its ways and in none, which is all that the two slices have to do with each
other; the proofs cover all environments.

No other bound is put on a behaviour; every counter ends at a timeout. Deadlock
is not checked: a behaviour ends when every request has.

Fairness. `Jwks!FairSpec` has weak fairness of each request's middleware and
retries. That fetches stop failing and requests stop being dropped is no
fairness but a premise of `OutagesDoNoHarm` and `TryAgainWorks`. They differ in
what is assumed of the endpoint: that all it ever serves are good keys, or that
it comes to do so; the second does not suffice (section 4).
`GatedService!FairGatedSpec` assumes little: the clock runs, a due timeout fires,
and a token whose key set is there is judged. The identity provider may keep
every fetch waiting for ever, and so may the database. `UserService!FairSpec` has weak fairness of each task (tokio
polls a woken task and fires a due timer), of the clock, of the driver's return
task, and of "the server executes what it received, or is down and the driver
notices". It does not assume that the server comes back, nor anything of
clients. A server that is up and never finishes a statement is excluded: the
code sets no `statement_timeout`, and there a slot is indeed held for ever.

`Lifecycle!FairSpec` has weak fairness of the process's own steps: `main`, from
its start on (what it awaits comes or fails), the watcher, each connection's task, handlers (they answer or time out) and the
statements left behind (they end, or the driver notices that they will not), and
an idle connection is closed once the service drains; no such thing is assumed
of one whose request is on its way.
Nothing is assumed of clients; that none keeps the server waiting for ever is a
premise of `ShutdownCompletes`, and a necessary one: axum sets no limit to the
drain. `ComesBack` has more premises, all of them about the world: from some time
on nothing fails or is killed and nobody asks the service to end, and the
supervisor starts what has ended, unless the configuration makes every start
panic. No step that the code itself takes may then bring it down.

## 4. Findings

* An error page served once by the JWKS endpoint is cached for good
  (`jwks_retry_page`).
* Two first requests both fetch, and the later store wins (`jwks_one_fetch`).
* The 408 of the timeout layer has none of the security headers
  (`service_headers`).
* With the database refusing connections, `/health` is a 408 after 10 s, not a
  503 (`service_health_down`).
* An OTLP endpoint that the exporter rejects leaves the service without any
  subscriber, and the error is discarded (`lifecycle_blind`).

Seen in the models, without a run of their own: a name or e-mail of more than
255 characters is a 500 that says to try again later (`handlers.rs` 37 speaks of
a 400 for invalid payloads); a signal handler that cannot be installed starts a
shutdown, where `main.rs` 69 has the function wait for a signal; the first of
`ENVIRONMENT`, `APP_ENV`, `RUST_ENV` that is set decides even when it cannot be
read, and the environment is then Development, with permissive CORS; `*` among
the allowed origins makes a production start panic; Redis, which no handler
uses, has to be there for a start with `REDIS_URL`; a client whose request is on its way
when the shutdown begins may find its connection closed without an answer.

## 5. Proofs

For any number of requests and any values of the other constants that satisfy
`JwksAssumption` and `ServiceAssumption` (sets and functions of the right types,
timeouts and pool size positive, `Trim` idempotent).

`JwksProofs`: `TypeCorrect`, `GateIsSound`, `FreshKeys`, `CacheSettles`,
`GateIsImplemented`. `AdmittedIsVouched` is not inductive: a request about to
decide needs to hold a body that was really served, and a token. The invariant
adds where bodies come from (`Provenance`: the cache and the requests between
fetch and verdict hold bodies served since the process started, the others
none), that the window of a waiting request holds the body the endpoint serves
and the body it fetched (`Windows`), that nobody gets past the first checks
without a token (`HasToken`), and what a denial rests on (`Grounds`).
`GateIsImplemented` is the refinement of `Gatekeeper`: `ReadCache` on a hit and
`FetchBody` obtain, `StoreBody` is a stutter, `Decide` admits, refuses or
excuses, for which a lookup must return one candidate at most (`OneCandidate`).
`Provenance` is what it needs: without it a cache could hold a body of an
earlier process.

`UserServiceProofs`: `TypeCorrect`, `EmailsAreWonOnce`, `CreationsLast`,
`ConflictsAreReal`, `RefusalsLeaveNothing`, `QueueEndsIn408`, `WorkIsBounded`.
The invariant ties the four places that know about a request together: how far
its task is and what it holds of the pool (`Stages`), its statement and what
that did (`Statements`), the rows, which fit the table (`Table`), and the answer
(`Answers`). The properties follow from it without further induction: an answer 201 means an
outcome "inserted", which means a row, and rows have distinct e-mails.
`WorkIsBounded` needs one more invariant, `Pool`: the set of taken slots is
finite and no larger than the pool, and every statement at work for a live
session has a slot. The set only grows in `TakeSlot`, by one.

`StoreProofs`: `ReadsAreMonotonic` rests on `Effects` (what each kind of
statement can have done) and on `Knowledge`: whatever statements have found and
answers have shown is in the table, and what anybody had been shown when a
request arrived is in what its statement has read. `StoreIsImplemented` is the
refinement: the initial states map to the store's, and every step to one of its
steps or to a stutter. `Execute` is where a call takes effect, an arrival makes
the call; a timeout, a hang-up or a driver error leaves one caller in the dark,
a crash all those that were waiting, and the answers of `Finish` inform or refuse.

`UserStoreProofs` is about the abstract store alone: `StoreKeepsPromise`, whose
invariant adds that every call has found only users that exist, and
`StoreEffectsLast`. `PromiseIsKept` carries both over to the service: an instance
of `UserStoreProofs` under the refinement mapping, and `StoreIsImplemented`. It
is the reason for having the abstract store: the promise is short enough to be
read, and the service keeps it whatever fails.

`GatedProofs`: `PartsHold` shows that the composition implements both parts,
step by step. The theorems about the parts then hold of the whole without being
proved again: `GatedStoreIsImplemented` is one line, and `NobodySlipsThrough`
takes `GateIsSound` from an instance of `JwksProofs`, whose assumption is
`GateAssumption` here. What it adds is the invariant `Joint`: whoever is past
the gate in the service was admitted in the gate, and a verdict is final.
`GatedGateIsImplemented` takes the promise of `Gatekeeper` over in the same way.
`RefusalsHaveGrounds` joins `Grounds` of the gate with `Refusals`: a 401 is only
ever given to a request that the gate has denied, and a denial is final.

`LifecycleProofs`: `TypeCorrect`, `PoolIsThere`, `CleanExits`, `FlushesAtExit`,
`ProcessIsGraceful`, for any clients and configurations. The invariant says what
each stage of `main` has behind it (`Ordered`): a pool and the table from a
certain stage on, connections only while serving, abandoned statements only until
the pool is closed. `ProcessIsGraceful` is the refinement of `GracefulService`; it
needs `Ordered` where the service opens (the table is there) and where it ends
(nobody talks, nothing runs).

`ConfigProofs`: `SettingsSurvive` (all fields of `AppConfig` but the environment,
which `DeclaredIsLoaded` is about), `DeclaredIsLoaded`, `OnlyTheListed` and
`WaysOfLoadingAgree`, for any environment in `Environments`, any texts and any two parsers that agree where the
strict one succeeds.

Only model-checked: the liveness properties (`OutagesDoNoHarm`,
`EveryRequestEnds`, `SlotsReturn`, `ShutdownCompletes`, `ComesBack`), which rest
on fairness and are out of the prover's reach. Every invariant and every action
property of a passing run is proved, and so are all refinements.

## 6. Not modelled

* `get`, `set` and `delete` of the Redis cache: no code calls them. Its
  connection is a step of the start-up.
* The formats, filters and the batching of telemetry, the request spans, the
  Prometheus recorder and `/metrics`, the OpenAPI and Swagger pages, the 404 of
  unknown routes: they keep no state that a request depends on.
* `with_instance` and `with_invalid_params` of the problem details, which no
  handler calls.
* CI, container and scripts: build tooling.
* PostgreSQL, sqlx, hyper, the identity provider and the operating system are
  modelled only as far as the code can see them.
* The same process under a start-up and under requests: `Lifecycle` follows
  connections and abandoned statements without their contents, `GatedService`
  the contents without the start-up. What ties them is that requests arrive
  only in a process that serves, with an empty cache at first, which is where
  `GatedInit` and `Crash` begin.
