# TAP in TLA+

A verification project for TAP, the Token Analytics Proxy: a FastAPI service
that sits between applications and OpenAI, authenticates and rate-limits calls,
answers repeated ones from Redis, relays the others (buffered or as a stream)
and keeps a row about each in Postgres, which a dashboard reads.

The modules are translated from `src/backend/app`. `PROJECT.json` maps every
definition to the lines it stands for.

## 1. Inventory

| Component | State it keeps | Operations | Talks to |
| --- | --- | --- | --- |
| `proxy.py`, buffered | per call: handler position, the record to write | `proxy`, `_build_log_record` | auth, rate limiter, cache, provider, log writer |
| `proxy.py`, streamed | per call: relay generator, upstream stream, watcher | `stream_proxy`, `relay`, `_SseUsageWatcher` | provider, client, log writer |
| `auth.py` | none (reads `api_keys`, `projects`) | `resolve_auth`, `require_auth` | Postgres |
| `rate_limit.py` | Redis counters per key and window | `check_rate_limit` | Redis, clock |
| `cache.py` | Redis entries per hash of the payload | `cache_key`, `cache_get`, `cache_set` | Redis |
| `logging_sink.py` | rows of `request_logs` | `write_request_log` | Postgres |
| `providers.py`, `cost.py` | price table, set of models already warned about | `extract_usage`, `compute_cost`, `cache_savings` | - |
| `metrics.py`, `retention.py` | none (read or delete rows) | five queries, `prune_request_logs` | Postgres |
| `cli.py` | `projects`, `api_keys` | create, issue, list, revoke, prune | Postgres |
| `db.py`, `redis_client.py`, `config.py` | connection pools, settings | `get_session`, `get_redis` | - |
| `main.py`, `access.py` | the HTTP client | start-up, readiness, the password guard | Postgres, Redis |
| `migrations`, `frontend`, `dev`, deployment files | the schema; react-query's cache; - | DDL, charts, traffic scripts | - |

One call goes through `require_auth` (a query), `check_rate_limit` (a Redis
transaction), `request.body()`, `cache_get`, the provider, `cache_set`, and,
after the response was sent, `write_request_log`. Every one of these is an await
at which other calls, on the same or another machine, run. Machines share
Postgres and Redis only; Redis is best effort everywhere (errors are swallowed),
Postgres is needed by authentication and best effort for rows.

What is hard here, and what makes each part correct:

- **Buffered calls** (interleaving, partial failure, crash). A cache entry is
  written by one task and read by others at any later time; a row is built
  before the response and written after it. Correct means: a hit replays only
  what it may, a row tells what its client was given, a call that was turned
  away leaves nothing, a revoked key stays out, and what was let through is recorded
  or ends in an exception (a 500) that its own content or the provider's caused.
- **Streamed calls** (cancellation, ordering). The relay's `finally` block may
  run in a cancelled task, in a finaliser or never. Correct means: the
  provider's stream is always let go, the row agrees with what was relayed, and a
  client that stays has its row.
- **SSE watcher** (boundaries). Chunks cut events anywhere, the residual is
  capped. Correct means: chunking does not change what is seen.
- **Rate limiter** (atomicity, lost replies, expiry). The window is computed
  before an await and used after it. Correct means: budgets per counter and
  window, nobody refused early, no counters left behind.
- **Proxy with limiter** (one call, several steps, a failure between them). The
  budget is spent before the body is read, and the handler may be gone when its
  count arrives. Correct means: no more answers than the counters let through, and
  nobody is counted or refused without cause.
- **Connection pool** (hold and wait). A call holds one connection and waits for a
  second, and a client that stalls keeps its call's connection without a timeout.
  Correct means: connections come back on every way out, nobody waits for one for
  ever, rows are lost only when the pool is full.
- **Readiness** (a check that shares what it checks). The probe takes a connection
  of the pool that the calls may all hold, and Fly's patience is shorter than the
  pool's. Correct means: a machine leaves rotation for a cause, a lost dependency
  is noticed, and a machine whose dependencies are back serves again unless stalled
  calls hold its whole pool.
- **Metrics and pruning** (windows against concurrent writes). A row's time is when
  its transaction began, it can be read when it has committed, and a prune's
  cutoff is older than its DELETE. Correct means: reports agree with each other and
  with the past, no row within retention goes, a dry run promises what a prune does.
- **Usage and cost** (two spellings, absent fields, clamping, overlapping prefixes).
  Correct means: for models with a price, a report says what the provider charged for
  the answers its rows have (a cache hit's row has one that was charged before), and
  the savings next to it make up the full price.

`PROJECT.json` lists the hazards at their lines, with the properties that cover
them.

## 2. Modules

| Module | Models | State |
| --- | --- | --- |
| `Proxy` | `proxy()` with `auth.py`, `cache.py`, `logging_sink.py` | requests, cache, active keys, provider, responses, background tasks, rows |
| `RateLimit` | `rate_limit.py` over Redis counters | clock, counters with expiry, requests, history of INCRs |
| `Gateway` | Proxy and RateLimit, joined where `proxy()` awaits `check_rate_limit` | both |
| `SseWatcher` | `_SseUsageWatcher` | pure: `Feed`, `Consume`, and a reference for whole bodies |
| `StreamProxy` | `stream_proxy()`, its relay and the task it runs in | body, relay, task, client, upstream, row |
| `Ledger` | what `request_logs` promises of any call | phase of each call, what its client was told, rows |
| `DbPool` | `db.py`: the sessions of requests and of their log records | Postgres, positions, sessions, rows |
| `Readiness` | `lifespan()` and `readiness()` of `main.py` on the pool, Fly's check | DbPool's, and process, Redis, rotation, the check |
| `Usage` | `OpenAIAdapter` of `providers.py` | pure |
| `Cost` | `cost.py` | pure |
| `RequestLogs` | `metrics.py`, `retention.py` over rows being written | clock, writers, rows, pruner, models warned about |
| `MCProxy`, `MCRateLimit`, `MCGateway`, `MCStreamProxy`, `MCDbPool`, `MCReadiness`, `MCRequestLogs` | instances for TLC | - |
| `ProxyProofs`, `RateLimitProofs`, `GatewayProofs`, `SseWatcherProofs`, `StreamProxyProofs`, `ReadinessProofs` (DbPool and Readiness), `CostProofs`, `RequestLogsProofs` | theorems | - |

`Gateway` extends `Proxy` and instantiates `RateLimit`; `Readiness` extends
`DbPool`; `RequestLogs` extends `Usage` and `Cost`; `Proxy` and `StreamProxy`
instantiate `Ledger` for their refinement mappings.

### Proxy

A request's `pc` names the await it stands at: `auth`, `limit`, `body`,
`lookup`, `upstream`, `store`, `answer`, `log`. Each action is the code between
two awaits that touch shared state. `Authenticate` is `require_auth`;
`CheckRateLimit` leaves the verdict open (RateLimit decides it); `ReadBody` is
the body, its parsing and the two dispatches; `CacheHit` and `CacheMiss` are
`cache_get` with proxy()'s branch; `UpstreamFails` is the `httpx.HTTPError`
branch; `Receive`, `CacheStore` and `Answer` are the rest of the handler, and
`WriteLog` is the background task. `Reject` is an `HTTPException` or an unhandled
exception: Starlette runs no background tasks for either.

Unhandled exceptions answer 500 after the limiter has counted the call, and each has
its place: a body nested too deeply for `json.loads` raises `RecursionError` in
`ReadBody` (`TooDeep`) and, if it is the provider's, in `Receive` (kind `deep`); a path
or a header that httpx cannot make a request of raises before anything is sent
(`Unsendable`, in `UpstreamFails`); and an answer no record can be made of (kind `odd`:
`int()` of a count that is not finite, a model that is no text) raises in
`_build_log_record`, in `Answer`, after the provider was paid and the cache written,
and in `CacheHit` for everybody who finds that entry.

`ProviderAnswers` is separate from `Receive` because a call can be answered, and
billed, upstream and still fail on its way back. A JSON body is named by the
request that fetched it, so "whose answer is this" stays visible. `AnswerKind`
keeps the distinctions the code makes: an object with usage, one without, JSON
that is not an object (stored by `cache_set`, refused by `cache_get`), no JSON, and the
two that raise.

The environment deactivates keys and projects at any time and, where `Faults`
says so, fails Redis commands (applied or not), expires entries, fails Postgres
statements, stops machines, and breaks off request bodies.

Left out: header filtering, URLs, query parameters, latency, wording.
Malformed cache entries cannot be produced by `cache_set`; a Redis error has the
same outcome.

### RateLimit

`check_rate_limit` is `Begin` (limit and window checks, the key computed from the
clock) and, an await later, `Execute` or `RedisFails`, the `MULTI/EXEC` of INCR
and EXPIRE. `RedisFails` covers both a transaction that did not run and one whose
reply was lost. Time is `[win, off]`, seconds in base `window_seconds`; a counter
expires a full window after its last INCR. `life` and `mark` are history: which
life of a counter an INCR met, and what number it got. Clocks of Redis and the
machines are assumed equal.

### Gateway

The handler's await of `check_rate_limit` is RateLimit's request: `Consult` is the
call as far as it gets without Redis, `Resume` the reply, or Redis' failure, with
`proxy()`'s 429 or its way on (`Obey`). A handler that a crash took away may have
sent its command, which then still counts (`Orphan`). Everything else is Proxy's
step (`Proceed`, `Surroundings`) or the clock. `ScopeFits` gives each request the
scope the code derives from its key, or "anonymous". RateLimit's `pc` is called
`verdict` here; its `allowed` stays when the handler has gone on.

### SseWatcher and StreamProxy

A body is a sequence of abstract bytes in which a usage line and a content line
take two bytes each, so that a chunk may end inside a line, inside a delimiter or
at the cap. `ConsumeEvents` is the code's loop, as a recursive function; the
reference (`EventEnds`, `CompleteLines`, `Observes`) finds events without cutting.
A line that merely ends in what would be a whole data line is not among the bytes
modelled (`LinesAssumption`): after truncation by the cap it could be taken for one.
The end of a well-formed data line cannot: where a string was cut open, quotes change
roles, and what follows has an odd number of them.

StreamProxy adds the relay. Three exceptions that are not httpx's leave it:
`OpenRaises` (a request that cannot be made: a 500, no stream, no row), `ReadRaises` (an
event whose JSON is nested too deeply: the relay fails, its `finally` closes the upstream
and writes the row), and a usage object no record can be made of (`Unrecordable`, in
`Write` and `Cancel`: no row). `task` is then `failed`. `Cancel` and `Collect` are external: what Starlette's
`StreamingResponse` does when its listener sees the client go (uvicorn speaks ASGI
2.3, so responses run in a task group that is cancelled), and what becomes of the
generator. Found awaiting a chunk, it runs its `finally` in a cancelled task:
httpcore shields the close, nothing shields the insert. Found at its `yield`, it
is finalised later in a task of its own, and that insert succeeds. Never started,
it runs nothing at all, and only the collection of httpx's own context closes the
stream, although the comment in the code says "the relay generator closes it".

### Ledger

The promise of "One row per forwarded call" as far as the code can keep it: a call
is refused and leaves nothing, or it is served and then recorded, once, with what
its client was told, or something stopped first. `Proxy` implements it with
`phase`, `told` and `rows` read off the handler's position, the response and the
table: a call is served from its `Answer` (or the 502) on, which is also where its
record is fixed, and a crash closes every call of its machine at once (`Stop`).
`StreamProxy` implements it for one streamed call: what the client "was told" is the
relay's record once its `finally` runs, however the stream ended. `KeepsTheLedger` is
`Ledger`'s specification under these mappings, checked in `proxy_faults` and
`stream` and proved for both.

### DbPool and Readiness

A request's `session` is the one `get_session` gives it; it has a connection from
its first statement (`Connect`: the select of `resolve_auth`, or a metrics query)
until FastAPI resumes `get_session` (`Close`), after the response and its background
tasks (FastAPI 0.118 and later; `requirements.txt` pins 0.140). `sink` is the session
`write_request_log` opens meanwhile. `Exhausted` is the pool's patience: a waiter
gives up only when nothing is free and nobody is about to give a connection back,
because 30 seconds are long against an insert and short against a provider whose
answer may take 60. With `Outages`, Postgres is lost and comes back at any time: a
connection then cannot be had (`Unavailable`), and an insert fails before its commit
or loses its reply (`InsertFails`); values that Postgres refuses (`Unwritable`) fail
always. `Serve` is the wait for the provider and for the client, who may take for ever:
`request.body()` and a stream being read have no timeout. The module assumes AUTH_ENABLED, as deployed;
without authentication calls hold no connection while they are served.

`Readiness` puts the machine around the pool. `Startup` is `lifespan`, which needs
Redis' PING and not Postgres; `Shutdown` is a deploy, a suspension or a crash.
`readiness()` is a request of the pool like any other: `Check` asks it,
`CheckDatabase` is `engine.connect()` and `select 1`, and `Verdict` the PING and the
answer, 200 or 503. Fly (`fly.toml`: every 30 seconds, timeout 5) has one check under
way and takes a late answer for a failure (`FlyGivesUp`); the handler stays where it
is, for the pool's 30 seconds. `troubled` is history: checks during which something was
lost. Requests that are running when the machine leaves rotation are served; new
calls come only while it is in rotation (`Traffic`).

### Usage, Cost and RequestLogs

`Usage` has JSON values as records with their type, so that an absent field, a null
and a number stay apart: `ExtractUsage` reads either API's spelling, in the order of
the code's defaults, where a null hides the other spelling. In `Cost` a model name is
the sequence of its hyphen-separated parts, which makes `startswith(key + "-")` a
proper prefix; `LookupPricing` takes the exact entry or the longest it is a release
of. Money is in whole units of a small table, so that sums are exact.

`RequestLogs` is the table between its writers and its readers. `Build` is the
record (`BuildLogRecord`), `Insert` begins the transaction, whose `now()` becomes
`created_at`, `Commit` makes the row visible, `Lose` is any failure of the writer.
The five reports are functions of the visible rows; `ReadCosts` is the one that
changes state, because looking up prices warns. `PruneStart` reads the cutoff,
`PruneCount` and `PruneDelete` are the later statement, `PruneFails` a crash between.
A percentile is read off the ascending order of a bucket's latencies, which `Ascending`
states rank by rank. Reports on adjacent windows are compared where both run forwards
(`Forwards`): a window that ends before it starts is empty, and the two do not add up.

The provider is external: `Tokens` is what it counted for an answer, `Invoice` and
`FullPrice` what it charged and would have charged without its own prompt cache.
`ProviderIsTrue` says that it reports those tokens in either API's spelling
(`ChatSpelling`, `ResponsesSpelling`, written from the APIs and not from
`ExtractUsage`), names the model, and charges by the entry of the price list that the
model is `BilledBy`. `Origin` is the call whose answer a row has: another one's for a
cache hit. `CostsReconcile` compares each line of a report with the sum of
`Invoice[Origin[c]]` over its rows with usage, so a replayed answer counts again with
every hit, as the code has it (section 5, 2). A model without a price costs nothing in
a report whatever the provider charges, and an answer that never arrived is charged and
not reported: the property says the first and is silent on the second, and the
instance has both, next to a hit.

## 3. Runs

| Run | Expectation | Shows |
| --- | --- | --- |
| `proxy_faults` | pass | Two requests on two machines, two projects, all faults at once, answers and bodies that raise: `HitReplaysASuccess`, `RowTellsWhatTheClientGot`, `OneRowOrNone`, the invariant they follow from, and the refinement `KeepsTheLedger`. |
| `proxy_live` | pass | Three overlapping calls with one cache key, deactivations, answers that are arrays or cannot be recorded, with fairness: `RevokedStaysOut`, `WarmStaysWarm` and `LetThroughIsRecorded`. |
| `rate_limit` | pass | Three requests on a limit of 1, windows of two seconds, commands up to a full window late, Redis errors and lost replies, with fairness: what a counter, a window and a window's length let through (`LifetimeBudget`, `PunctualWindowBudget`, `StretchBudget`), who is refused (`RefusedOverBudget`), that no counter stays (`CountersExpire`), and the invariants behind these (`IInv`, `TimingInv`). |
| `gateway` | pass | Two calls on a budget of one, every fault between the count and the answer: `ServedWithinBudget`, `TurnedAwayForCause`. |
| `stream` | pass | Nine bodies in every chunking with a cap of 4; the upstream breaks, the relay raises, the client hangs up anywhere, no record can be made, the machine stops: `WatcherObserves`, `RowTellsTheStream`, `EndedStreamIsSettled`, `HangUpEndsTheStream`, `KeepsTheLedger`. |
| `pool` | pass | Two calls, the row of one refused by Postgres, and Fly's check on a pool of two, while Postgres, Redis and the process come and go and clients may stall: `NoConnectionIsShared`, `RowLostOnlyIfFull`, `EveryWaitEnds`, `OutOnlyForCause`, `LostDependencyIsNoticed`, `ComesBack`. |
| `metrics` | pass | Two of seven calls are recorded, inserted, committed or lost while reports are read and rows are counted and pruned: `ReportsAgree`, `CostsReconcile`, `EveryRowAccountedFor`, `WarnedOnce`, `SettledWindowsOnlyShrink`, `PruneKeepsRecent`, `DryRunPromises`, and the invariant `IInv` behind them. |
| `proxy_error` | violation | `error` is not "never reached OpenAI". |
| `proxy_spend` | violation | A hit's row counts the cached call's tokens and cost again. |
| `rate_limit_straggler` | violation | A window can exceed its limit when an INCR arrives after its counter expired. |
| `stream_done` | violation | Reading a stream to its end does not guarantee its row. |
| `pool_row` | violation | Concurrent calls starve one another's inserts. |

**Bounds.** Every shared-state race of the proxy involves one writer and one
reader or writer of a cache entry, a key or a row, so two requests show it.
`MCCalls` has a payload that two projects send in spellings with the same key, a
call that is not cacheable, a streamed one, one nested too deeply and one httpx cannot
send; `MCAnswers` has each kind of answer. `proxy_live` has three requests with one
key: one whose answer was given, one that may fail or store an array over it, and one
that looks for it; Redis works there, as `WarmStaysWarm` needs, and its faults are in
`proxy_faults`.
A limit of 1 with three requests gives one within and two beyond; windows
of two seconds have an inside and a boundary; `LastWindow = 1` and `MaxDelay = 2`, a full
window, let a command of window 0 or 1 execute up to a window after it began, past the
life of its counter; `Horizon` lets every counter expire. The delay bounds the
exploration, not the properties: what is proved holds for every `MaxDelay`, and for every limit, a limit of 0 included. In
`stream` the database works, as `EndedStreamIsSettled` needs; rows are lost there to
cancellations, crashes and records that cannot be made. The bodies of `MCStreamProxy` place each position of an event, its
delimiter and the cap on a chunk boundary, including an event of exactly `Cap`
bytes, which loses its first byte if its delimiter is split. In `gateway` two
requests on a budget of one give one answer and one refusal, and a count whose
handler is gone; windows of one second and `MaxDelay = 1` let it arrive in the next
one. In `pool`, two calls and a check on two connections can hold and wait in every
mix: the calls have both connections, or one of them while the check has the other;
a probe's name is used again, so that checks go on for ever and one may be asked while
Fly has already given up on the one before. `pool_row` has four requests. In `metrics`
any two of the seven calls meet, which is every pair of records in a report (same model
or not, priced or not, sane or clamped, replayed, failed, without a usage block); three
instants and windows that end at the second and the third have rows before, at and after
an edge and a cutoff, and `UnpricedLimit = 1` is full with the first of the two models without a
price. A machine is modelled by which requests it runs, in Readiness by what its
process and its pool do.

**Deadlock** is not checked where the finite set of calls ends the system; `metrics`
checks it: reports can always be read.

**Fairness.** Handlers' steps are weakly fair because the event loop runs every
ready task and `upstream_timeout_seconds` bounds the wait for the provider;
nothing is assumed of clients, of the provider's answers, of administration or of
faults. `ReadBody` is not fair, since a client may never finish sending:
`LetThroughIsRecorded` begins where the body has arrived, and is stated without crashes
and database failures. `HangUpEndsTheStream` does not assume that clients read: a client
that neither reads nor hangs up may hold a stream open. In RateLimit time passes
and a command that was sent is answered or fails. In StreamProxy collection of
unreachable generators is fair, as reference counting makes it prompt. In Readiness
the process is started again until it runs and Fly asks and gives up (weakly fair);
handlers are strongly fair in what they do of their own (`Unattended`), because the pool
serves its waiters in the order they came: a check that is overtaken for ever, which
weak fairness allows, does not happen. The service of a call is not fair, because its
client may stall with the pool's connection in hand. `EveryWaitEnds` holds all the same:
who waits behind stalled calls is turned away by the pool. `ComesBack` needs fewer
stalled calls than connections; with as many, the machine stays out for as long as they
stall, which is what the code does. Nothing is assumed of traffic, outages and
shutdowns, and the liveness properties say what they need of them
(`<>[](up /\ database /\ redis /\ ...)`).

## 4. Proofs

Every safety invariant and every action property that a passing run checks is stated
by a theorem. The theorems hold for every set of requests, machines, calls, answers,
bodies, limits and faults allowed by the named assumptions of the modules; those that
need more say so below.

- **Proxy.** `TypeCorrect`, `HitsReplaySuccesses`, `RowsAgreeWithClients`,
  `RejectedLeaveNothing` and, for a cache that works (`CacheWorks`: a lifetime, no
  Redis faults, no expiry), the action property `WarmStays` follow from `IInv`. The properties are not inductive:
  that a hit replays a success needs that *every entry* of the cache is a success
  of a call with that key (`CacheOk`), which needs that a handler at its store
  step holds one (`ControlOk`); that rows agree with clients needs that a queued
  record belongs to a handler that has just returned, a written one to a finished
  one (`RowsOk`). `ControlStable`, `CacheStable` and `RowStable` say what survives
  a step that leaves the facts they depend on alone; one lemma per action follows.
  `RevokedStayOut` is temporal without being liveness: a key that was inactive when
  its request arrived has not been resolved, the request waits at `auth` or has been
  rejected, and no step takes it further.
- **The ledger.** `ProxyProofs!ImplementsLedger` and
  `StreamProxyProofs!ImplementsLedger` show each step to be a step of `Ledger` or a
  stutter under the mapping. For Proxy this needs `IInv` and `Queued`: there is a
  background task exactly for the calls that have been answered and not recorded, so
  that `WriteLog` and `Crash` find a served call. `MoveStep`, `RejectStep`,
  `ReturnStep`, `WriteLogStep` and `CrashStep` sort the actions by what the ledger
  sees of them.
- **RateLimit.** `BudgetPerLifetime` rests on `IInv`: INCR hands the requests of
  one life of a counter distinct numbers, none above the counter, and only numbers
  within the limit are let through, so the admitted ones inject into `1 .. limit`.
  `RefusalsAreEarned` is the other half: the numbers of a life have no gaps, so whoever
  got one beyond the limit has `limit` requests of the same life before it.
  `BudgetPerWindow` adds `PunctualInv`: a counter whose first INCR fell in its own
  window outlives that window, so punctual requests all met its first life.
  `BudgetPerStretch` adds `SpacedInv` and `ClockInv`, together `TimingInv`: INCRs that met
  different lives of a counter are a window's length apart, so the requests of one window
  that a shorter stretch lets through all met the same life. It assumes nothing of
  delays. That two windows, and so twice the limit, are all that a stretch can meet is
  what the docstring says and slow commands refute (section 5).
- **Gateway.** `KeepsBoth`: the composition implements `Proxy`'s and `RateLimit`'s
  specifications, so that every theorem about either holds of both together.
  `AnswersFitTheBudget` combines RateLimit's invariant with `Linked`, which says that
  whoever is beyond the limiter's await, or got through, has a verdict that let it
  through; those answered then inject into the numbers within the budget.
  `TurnedAwayHaveCause` follows a 429 back to the number that earned it, and with
  RateLimit's `RefusedOverBudget` to as many requests before it as the budget has; a 401
  to a handler that never consulted the limiter, and a 500 either to one or to a handler
  that was let through and met what `Unforeseen` names.
- **SSE watcher.** `WatcherTellsTheBody` says for every body, chunking and cap what
  `stream` checks for nine bodies and a cap of 4, and `TypeCorrect` that the loop ends
  and the residual stays within the cap. `ConsumeEvents` is a recursive function, whose
  definition is a choice: `LoopExists` gives a function that satisfies it (the last
  watcher of a finite run), `LoopStep` unfolds it, and `LoopKeeps` is induction in
  first-order form: were there a watcher in `Kept` that the loop leads out of it, the one
  with the shortest residual would lead to a shorter one. What is kept is `Splits`: the
  last event ended at `p`, the residual is what came after `q >= p`, no delimiter lies
  between them, and the watcher `Knows` the lines before `p`. The bytes between `p` and
  `q` were lost to the cap, and then the event they belong to does not fit, wherever it
  may end; what its remains tell still is told by the body, for which `LinesAssumption`
  is needed. `EventEnds` pairs newlines from the start of their run, the loop takes
  the first two that it sees: `OddRun`, `NoEnd` and `NextEnd` show that after an event's
  end these are the same. Between chunks `Holds` adds that the residual has no delimiter.
- **StreamProxy.** `RowAgreesWithTheStream` and `EndedIsSettled` rest on `IInv`:
  where the upstream is open (`UpstreamOk`), that only a client that hung up leaves
  the response's task (`TaskOk`), how far the client is behind (`ProgressOk`), and
  when the row appears, or why there is none (`RowOk`, `HasRowOrReason`).
- **DbPool.** `SessionsAreDisjoint` and the action property
  `RowsAreLostOnlyWhenFull` rest on `IInv` (who holds what at which position). A full
  pool in which nobody inserts maps the open requests onto the connections, so there
  are at least as many of them: with fewer concurrent requests than connections the
  pool costs no row.
- **Readiness.** `MachineInvariance` and `MachinesLeaveForCause`. `MachineInv` adds to
  DbPool's invariant that a check during which nothing was lost has found the database
  well as soon as it has asked; then a refusal can only come from a lost dependency,
  and a timeout from those or from an exhausted pool, which `ExhaustedIsFull` counts.
- **Cost.** `BillIsBounded`: for every model and every integer count, a bill is never
  negative and at most the bill without cached tokens. `SavingsComplement`: next to it,
  `cache_savings` makes up the full price exactly when no more tokens are cached than
  sent, and too much otherwise. Both rest on `PricingAssumption`, which is what
  `test_cost.py` demands of the table, and on `LongestCandidate`: a model that is a
  release of some entry has a longest one, so that the lookup's choice is an entry.
- **RequestLogs.** `IInv` adds to the types that a row is the record of its call
  (`RowsAreRecords`), that the cutoff of a prune under way only falls further behind
  (`CutoffIsPast`), and that what a dry run counted is still there to be deleted
  (`PromiseStands`); from it follow `RowsAreAccountedFor`, `WarningsAreSpared`,
  `RecentRowsStay`, `DryRunsHold` and `PastReportsOnlyShrink`. `ReportsDoAgree` and
  `CostsDoReconcile` are about sums over sets of rows. `SumOf` is a fold, a recursive
  function that is chosen: `SumIsUnique` shows by a smallest counterexample that there
  is only one such sum, `SumExists` that there is one, by counting the units that the
  amounts consist of. Everything else is then a matter of cardinalities: `SumOfParts`
  (the buckets of a report add up to its rows), `SumOfSums` (the models add up to the
  calls), `SumOfMultiples`. `Ranked` and `Ascends` say that there is a latency at each
  rank and that they ascend, hence p50 is at most p95 (`PercentilesAscend`).
  `CostsDoReconcile` assumes `ProviderIsTrue` and nothing of the code: `TrueReport` shows
  that the record has the provider's counts whichever spelling they came in, also when
  the answer is replayed (`SameAnswer`), `LookupIsBilling` that the lookup finds the
  entry the model is billed by exactly if there is one, and `Charged` that the recorded
  cost is then the charge. Sums do the rest; `SumOfSome` leaves out the rows without
  usage. The calls and hand-worked invoices of `MCRequestLogs` satisfy the assumption,
  and TLC checks that they do (`AmountsAssumption`).

**Only model-checked.** Liveness: `LetThroughIsRecorded`, `CountersExpire`,
`HangUpEndsTheStream`, `EveryWaitEnds`, `LostDependencyIsNoticed`, `ComesBack`. That
the provider is true is an assumption of both kinds of check.

## 5. Where the code and its documentation part

The first five are runs; `PROJECT.json` quotes the lines.

1. A row's `error` is set on timeouts and broken connections too, when OpenAI may
   have answered and billed the call.
2. The "spend" of the dashboard sums the cost of cache hits.
3. A window's limit can be exceeded by a request whose INCR was delayed over the
   window's end. Per counter life and per punctual request it cannot.
4. A streamed call read to its end may lose its row to the client's disconnect.
5. As many concurrent calls as the pool has connections can cost a forwarded call
   its row, with a healthy database.

Three more are in the models, without a run of their own; the properties make an
exception where they say so.

6. The repository's README.md:22-24 answers "the exact same request" from Redis the second
   time. One answered with a JSON array is stored (proxy.py:275-281) and never returned
   (cache.py:58): the exception of `WarmStaysWarm`.
7. README.md:48-50 works out tokens and cost "*after* the caller already has their answer".
   The record is made before (proxy.py:283): one that cannot be made turns an answer that
   was paid for into a 500, the exception of `OneRowOrNone`, `LetThroughIsRecorded` and
   `TurnedAwayForCause`.
8. rate_limit.py:21 admits "up to 2x`limit` across a boundary". With commands that reach
   Redis a window late, and no timeout is set, the counters of three windows let requests
   through within one window's length; `StretchBudget` speaks of one window's requests.

**Not checked.** `cache_key` hashes the payload and neither the endpoint nor the query
string: two endpoints that are sent the same object share an entry, and the second is
answered with the first one's response. No document says otherwise, so no run refutes
anything; Proxy's `cache` is keyed as the code keys it. That concurrent identical calls
are each forwarded is likewise what the code does; `WarmStaysWarm` says that only an array
can displace what another has stored. As many stalled clients as the pool has connections
keep a machine from serving anybody (`request.body()` and a stream that is not read have
no timeout): no document promises otherwise, and `ComesBack` says where the line is.

## 6. Plan

Done: Proxy, RateLimit, SseWatcher, StreamProxy, DbPool; then Usage, Cost and
RequestLogs, the Ledger and its two refinements, Gateway, and Readiness, each with its
proofs. What is left, in order:

1. `ApiKeys`: create, issue and revoke against concurrent calls.
2. A StreamProxy behind the limiter and the pool: a streamed call holds its connection
   of the pool as long as its client reads.
3. Suspended machines: what a machine that sleeps in the middle of a window or a
   transaction finds when it wakes.

The pure modules stay free of RECURSIVE operators, so that they can be proved about.

**Not modelled, and why.**

- Migrations are straight-line DDL, run once per deploy; the dashboard is five read-only
  queries behind react-query; the development scripts are not part of the system. None
  carries a protocol of its own. The access guard is a stateless comparison of secrets.
- `create`, `issue` and `list` of the CLI are single inserts and selects; `revoke` is
  Proxy's `Deactivate`, `prune-logs` is RequestLogs' pruner.
- The set of models warned about is one process's, and RequestLogs has one process.
- Buckets are whole numbers of ticks; hours and days that PostgreSQL truncates in a time
  zone are not. `percentile_cont` is the database's. Rounding is left out.
- In `Usage` token counts are integers, absent, or not numbers. JSON's non-finite numbers
  get no record: they are `odd` in Proxy and `Unrecordable` in StreamProxy. Which values
  Postgres refuses is `Lose` in RequestLogs, `Unwritable` in DbPool.
- In DbPool a call's exceptions are `Serve`'s way to `closing`; what they are is Proxy's.
- The price table is constant: what a deploy with new prices does to reports that
  compute savings from today's table is not modelled.
