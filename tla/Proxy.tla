------------------------------- MODULE Proxy -------------------------------
(***************************************************************************)
(* The life of a buffered call through TAP: backend/app/proxy.py, with the *)
(* parts of auth.py, cache.py and logging_sink.py it calls.  Requests run  *)
(* concurrently as asyncio tasks on one or more machines that share one    *)
(* Redis and one Postgres.  A step of a request is the code between two    *)
(* awaits that touch shared state, so every interleaving of requests, the  *)
(* key administration, the expiry of cache entries and the faults named in *)
(* Faults is a behaviour.                                                  *)
(*                                                                         *)
(* A JSON body that came from the provider is named by the request that    *)
(* fetched it.  The verdict of the rate limiter is left open here (module  *)
(* RateLimit models how it is reached), and a streamed call is handed over *)
(* at the point where proxy() calls stream_proxy() (module StreamProxy).   *)
(***************************************************************************)
EXTENDS Naturals, Functions

CONSTANTS
    Req,            \* the requests of a behaviour; each arrives once
    Machine, Host,  \* the machines, and the machine each request is routed to
    TapKey,         \* values of the X-TAP-Key header
    Project, ProjectOf,
    Calls,          \* the calls clients may make
    Unsendable,     \* those of them that httpx cannot make a request of
    Answers,        \* the answers the provider may give
    AuthEnabled,    \* settings.auth_enabled
    CacheTTL,       \* settings.cache_ttl_seconds
    Faults,         \* the environment faults a behaviour may show
    Nobody,         \* "no request": an absent JSON body (None, SQL NULL)
    NoProject,      \* project_id NULL
    NotAnObject,    \* a request body that is not a JSON object
    TooDeep,        \* one nested too deeply for json.loads
    NoAnswer, NoResponse

\* The provider's reply: a JSON object with a usage block, an object without
\* one, JSON that is not an object, or a body that is not JSON; and two that end in
\* an exception nobody expects: JSON nested too deeply for json.loads, and an
\* object with a usage block no record can be made of (a count of infinity, no
\* model of its own where the one asked for, part of the cache key, is not a text).
AnswerKind == {"usage", "plain", "array", "none", "deep", "odd"}

FaultKind == {"redis",    \* a Redis command fails, applied or not
              "expiry",   \* a cache entry expires or is evicted
              "db",       \* a Postgres statement fails
              "crash",    \* a machine stops (deploy, suspend, kill)
              "client"}   \* the client disconnects while sending its body

Call == [key: TapKey, method: {"POST", "GET"}, endpoint: STRING,
         payload: {c.payload : c \in Calls}]

ASSUME CallsAssumption   == Calls \subseteq Call /\ Unsendable \subseteq Calls
ASSUME AnswersAssumption == /\ Answers \subseteq [status: Nat, kind: AnswerKind]
                            /\ NoAnswer \notin Answers
ASSUME HostAssumption    == Host \in [Req -> Machine]
ASSUME ProjectAssumption == /\ ProjectOf \in [TapKey -> Project]
                            /\ NoProject \notin Project
ASSUME ConfigAssumption  == /\ AuthEnabled \in BOOLEAN
                            /\ CacheTTL \in Nat
                            /\ Faults \subseteq FaultKind
ASSUME NullAssumption    == /\ Nobody \notin Req
                            /\ NoResponse \notin [status: Nat, body: Req \cup {Nobody}]

VARIABLES
    call,         \* what each request asks for
    pc,           \* where its handler stands
    active,       \* keys and projects whose `active` column is true
    provider,     \* what the provider answered (and billed) each request
    cache,        \* Redis: the request whose JSON is stored under a cache key
    resp,         \* what the client holds
    background,   \* log records queued as background tasks
    request_logs  \* the table

vars == <<call, pc, active, provider, cache, resp, background, request_logs>>

----------------------------------------------------------------------------
(* Pure parts of the handler. *)

NonSemanticFields == {"stream_options", "metadata", "store", "user"}

\* The payload without the fields that cannot change the answer.  Neither the
\* endpoint nor the query string is part of it.
CacheKey(payload) == Restrict(payload, DOMAIN payload \ NonSemanticFields)

IsObject(c)  == c.payload \notin {NotAnObject, TooDeep}
Streams(c)   == IsObject(c) /\ "stream" \in DOMAIN c.payload /\ c.payload["stream"]
Cacheable(c) == c.method = "POST" /\ IsObject(c)
CacheKeys    == {CacheKey(c.payload) : c \in {d \in Calls : Cacheable(d)}}

KeyOf(r) == CacheKey(call[r].payload)

\* resolve_auth: the key and the project that issued it must both be active.
Resolves(k) == k \in active /\ ProjectOf[k] \in active

ProjectId(r) == IF AuthEnabled THEN ProjectOf[call[r].key] ELSE NoProject

\* A control character in the path, or a header that is not ASCII, is refused
\* before anything is sent, and not with an httpx.HTTPError.
Sendable(r) == call[r] \notin Unsendable

\* Whether _build_log_record returns for the JSON fetched by s.
Recordable(s) == provider[s].kind # "odd"

\* _parse_json of the body fetched by s, unless it raises: the body, or None.
ParseJson(s) == IF provider[s].kind = "none" THEN Nobody ELSE s

\* Mutant of UsageOf: a zero for "not reported".
UsageOrZero(src) == IF src # Nobody /\ provider[src].kind = "usage" THEN src ELSE 0

\* Token columns stay NULL unless the JSON is an object with a usage object.
UsageOf(src) == IF src # Nobody /\ provider[src].kind = "usage" THEN src ELSE Nobody

\* _build_log_record; src is the response_json, error whether a text is set.
LogRecord(r, status, cacheHit, src, error) ==
    [req |-> r, project |-> ProjectId(r), status |-> status, cache_hit |-> cacheHit,
     response |-> src, usage |-> UsageOf(src), error |-> error]

Row == [req: Req, project: Project \cup {NoProject}, status: Nat,
        cache_hit: BOOLEAN, response: Req \cup {Nobody},
        usage: Req \cup {Nobody}, error: BOOLEAN]

Response == [status: Nat, body: Req \cup {Nobody}]

PC == {"idle", "auth", "limit", "body", "lookup", "upstream", "store", "answer",
       "log", "streaming", "lost", "done"}

----------------------------------------------------------------------------
Init == /\ call \in [Req -> Calls]
        /\ pc = [r \in Req |-> "idle"]
        /\ active = TapKey \cup Project
        /\ provider = [r \in Req |-> NoAnswer]
        /\ cache = [k \in CacheKeys |-> Nobody]
        /\ resp = [r \in Req |-> NoResponse]
        /\ background = {}
        /\ request_logs = {}

Goto(r, from, to) == pc[r] = from /\ pc' = [pc EXCEPT ![r] = to]

\* An HTTPException or an unhandled exception: an answer of TAP's own, and
\* the background tasks of the handler are never run.
Reject(r, from, status) ==
    /\ Goto(r, from, "done")
    /\ resp' = [resp EXCEPT ![r] = [status |-> status, body |-> Nobody]]
    /\ UNCHANGED <<call, active, provider, cache, background, request_logs>>

\* The handler returns: the log record is queued and the client has its answer.
Return(r, from, status, body, record) ==
    /\ Goto(r, from, "log")
    /\ resp' = [resp EXCEPT ![r] = [status |-> status, body |-> body]]
    /\ background' = background \cup {record}
    /\ UNCHANGED <<call, active, provider, request_logs>>

Arrive(r) ==
    /\ Goto(r, "idle", IF AuthEnabled THEN "auth" ELSE "limit")
    /\ UNCHANGED <<call, active, provider, cache, resp, background, request_logs>>

\* Mutant of Authenticate: an inactive project does not stop its keys.
AuthenticateByKeyOnly(r) ==
    \/ /\ call[r].key \in active
       /\ Goto(r, "auth", "limit")
       /\ UNCHANGED <<call, active, provider, cache, resp, background, request_logs>>
    \/ call[r].key \notin active /\ Reject(r, "auth", 401)

Authenticate(r) ==
    \/ /\ Resolves(call[r].key)
       /\ Goto(r, "auth", "limit")
       /\ UNCHANGED <<call, active, provider, cache, resp, background, request_logs>>
    \/ /\ ~Resolves(call[r].key)
       /\ Reject(r, "auth", 401)
    \/ /\ "db" \in Faults
       /\ Reject(r, "auth", 500)

CheckRateLimit(r) ==
    \/ /\ Goto(r, "limit", "body")
       /\ UNCHANGED <<call, active, provider, cache, resp, background, request_logs>>
    \/ Reject(r, "limit", 429)

\* The whole body is awaited, for as long as the client takes.
ReadBody(r) ==
    \/ /\ call[r].payload # TooDeep
       /\ Goto(r, "body", IF Streams(call[r]) THEN "streaming"
                          ELSE IF Cacheable(call[r]) THEN "lookup" ELSE "upstream")
       /\ UNCHANGED <<call, active, provider, cache, resp, background, request_logs>>
    \/ /\ call[r].payload = TooDeep
       /\ Reject(r, "body", 500)
    \/ /\ "client" \in Faults
       /\ Goto(r, "body", "lost")
       /\ UNCHANGED <<call, active, provider, cache, resp, background, request_logs>>

\* cache_get returns the stored JSON if it is an object.
Found(r) == LET s == cache[KeyOf(r)] IN s # Nobody /\ provider[s].kind # "array"

\* Mutant of CacheHit: the hit is recorded, but proxy() does not return.
CacheHitFallsThrough(r) ==
    /\ Goto(r, "lookup", "upstream") /\ Found(r)
    /\ LET s == cache[KeyOf(r)]
       IN  background' = background \cup {LogRecord(r, 200, TRUE, s, FALSE)}
    /\ UNCHANGED <<call, active, provider, cache, resp, request_logs>>

\* The hit is returned with its record, or fails with it.
CacheHit(r) ==
    /\ pc[r] = "lookup" /\ Found(r)
    /\ LET s == cache[KeyOf(r)]
       IN  \/ /\ Recordable(s)
              /\ Return(r, "lookup", 200, s, LogRecord(r, 200, TRUE, s, FALSE))
              /\ UNCHANGED cache
           \/ ~Recordable(s) /\ Reject(r, "lookup", 500)

CacheMiss(r) ==
    /\ Goto(r, "lookup", "upstream")
    /\ ~Found(r) \/ "redis" \in Faults
    /\ UNCHANGED <<call, active, provider, cache, resp, background, request_logs>>

\* External: the provider completes the call, which it bills.
ProviderAnswers(r) ==
    /\ pc[r] = "upstream" /\ provider[r] = NoAnswer /\ Sendable(r)
    /\ \E a \in Answers : provider' = [provider EXCEPT ![r] = a]
    /\ UNCHANGED <<call, pc, active, cache, resp, background, request_logs>>

\* Mutants of UpstreamFails: the 502 is recorded without an error, or not at all; it
\* drops the entry there was.
UpstreamFailsWithoutError(r) ==
    /\ Sendable(r)
    /\ Return(r, "upstream", 502, Nobody, LogRecord(r, 502, FALSE, Nobody, FALSE))
    /\ UNCHANGED cache

UpstreamFailsUnrecorded(r) ==
    /\ Goto(r, "upstream", "log")
    /\ resp' = [resp EXCEPT ![r] = [status |-> 502, body |-> Nobody]]
    /\ UNCHANGED <<call, active, provider, cache, background, request_logs>>

UpstreamFailsInvalidates(r) ==
    /\ Return(r, "upstream", 502, Nobody, LogRecord(r, 502, FALSE, Nobody, TRUE))
    /\ cache' = IF Cacheable(call[r]) THEN [cache EXCEPT ![KeyOf(r)] = Nobody] ELSE cache

\* httpx.HTTPError: no connection, a timeout, or a reply lost on its way.  What
\* client.request raises for a call it cannot send is not caught.
UpstreamFails(r) ==
    \/ /\ Sendable(r)
       /\ Return(r, "upstream", 502, Nobody, LogRecord(r, 502, FALSE, Nobody, TRUE))
       /\ UNCHANGED cache
    \/ ~Sendable(r) /\ Reject(r, "upstream", 500)

\* Mutant of Storable: errors are cached as well.
StorableWhateverStatus(r) == Cacheable(call[r]) /\ provider[r].kind # "none"

Storable(r) == /\ Cacheable(call[r])
               /\ provider[r].status = 200
               /\ provider[r].kind # "none"

Receive(r) ==
    /\ provider[r] # NoAnswer
    /\ \/ /\ provider[r].kind # "deep"
          /\ Goto(r, "upstream", IF Storable(r) THEN "store" ELSE "answer")
          /\ UNCHANGED <<call, active, provider, cache, resp, background, request_logs>>
       \/ provider[r].kind = "deep" /\ Reject(r, "upstream", 500)

\* cache_set: nothing is stored without a lifetime, and a Redis error is
\* swallowed whether or not the command took effect.
CacheStore(r) ==
    /\ Goto(r, "store", "answer")
    /\ \/ CacheTTL > 0 /\ cache' = [cache EXCEPT ![KeyOf(r)] = r]
       \/ (CacheTTL = 0 \/ "redis" \in Faults) /\ UNCHANGED cache
    /\ UNCHANGED <<call, active, provider, resp, background, request_logs>>

\* Mutant of Answer: the row is awaited before the response is returned.
AnswerAfterRow(r) ==
    /\ Goto(r, "answer", "log")
    /\ resp' = [resp EXCEPT ![r] = [status |-> provider[r].status, body |-> r]]
    /\ request_logs' = request_logs \cup
                          {LogRecord(r, provider[r].status, FALSE, ParseJson(r), FALSE)}
    /\ UNCHANGED <<call, active, provider, cache, background>>

\* The record is built before the response is: where it cannot be, there is neither.
Answer(r) ==
    /\ pc[r] = "answer"
    /\ \/ /\ Recordable(r)
          /\ Return(r, "answer", provider[r].status, r,
                    LogRecord(r, provider[r].status, FALSE, ParseJson(r), FALSE))
          /\ UNCHANGED cache
       \/ ~Recordable(r) /\ Reject(r, "answer", 500)

\* The background task: one insert in a session of its own; a failure is
\* swallowed and the record is gone.
WriteLog(r) ==
    /\ Goto(r, "log", "done")
    /\ background' = {row \in background : row.req # r}
    /\ \/ request_logs' = request_logs \cup {row \in background : row.req = r}
       \/ "db" \in Faults /\ UNCHANGED request_logs
    /\ UNCHANGED <<call, active, provider, cache, resp>>

----------------------------------------------------------------------------
(* The environment. *)

\* cli revoke-key, or an operator marking a project inactive.
Deactivate(x) ==
    /\ x \in active
    /\ active' = active \ {x}
    /\ UNCHANGED <<call, pc, provider, cache, resp, background, request_logs>>

Expire(k) ==
    /\ "expiry" \in Faults /\ cache[k] # Nobody
    /\ cache' = [cache EXCEPT ![k] = Nobody]
    /\ UNCHANGED <<call, pc, active, provider, resp, background, request_logs>>

\* A machine stops and is restarted: the handlers it ran are gone, and with
\* them the background tasks that had not been run.
Crash(m) ==
    LET running == {r \in Req : Host[r] = m /\ pc[r] \notin {"idle", "done", "lost"}}
    IN  /\ "crash" \in Faults /\ running # {}
        /\ pc' = [r \in Req |-> IF r \in running THEN "lost" ELSE pc[r]]
        /\ background' = {row \in background : row.req \notin running}
        /\ UNCHANGED <<call, active, provider, cache, resp, request_logs>>

\* What a handler that has arrived does, but for the wait for its client.
Handle(r) == \/ Authenticate(r) \/ CheckRateLimit(r)
             \/ CacheHit(r) \/ CacheMiss(r) \/ UpstreamFails(r) \/ Receive(r)
             \/ CacheStore(r) \/ Answer(r) \/ WriteLog(r)

Next == \/ \E r \in Req : Arrive(r) \/ ReadBody(r) \/ Handle(r) \/ ProviderAnswers(r)
        \/ \E x \in TapKey \cup Project : Deactivate(x)
        \/ \E k \in CacheKeys : Expire(k)
        \/ \E m \in Machine : Crash(m)

Spec == Init /\ [][Next]_vars

\* The event loop runs every task that is ready, and the upstream wait ends:
\* settings.upstream_timeout_seconds bounds it.  Nothing is assumed of clients,
\* which may never finish sending a body, of the provider, of the administration
\* or of faults.
FairSpec == Spec /\ \A r \in Req : WF_vars(Handle(r))

----------------------------------------------------------------------------
(* Properties. *)

\* Every variable keeps its type.
TypeOK == /\ call \in [Req -> Calls]
          /\ pc \in [Req -> PC]
          /\ active \subseteq TapKey \cup Project
          /\ provider \in [Req -> Answers \cup {NoAnswer}]
          /\ cache \in [CacheKeys -> Req \cup {Nobody}]
          /\ resp \in [Req -> Response \cup {NoResponse}]
          /\ background \subseteq Row
          /\ request_logs \subseteq Row

\* A row served from the cache replays the object another call fetched with
\* status 200 for a payload with the same cache key: cache_set runs after the
\* status check of proxy(), in another task, possibly on another machine, and
\* cache_get may run at any time after it.
HitReplaysASuccess ==
    \A row \in request_logs \cup background : row.cache_hit =>
        LET src == row.response IN
        /\ src \in Req \ {row.req}
        /\ Cacheable(call[src]) /\ Cacheable(call[row.req])
        /\ KeyOf(src) = KeyOf(row.req)
        /\ provider[src].status = 200
        /\ provider[src].kind \in {"usage", "plain"}

\* The table agrees with what each client was given, although rows are built
\* before the response is sent and written after it: same status; the JSON of
\* the body the client holds, or NULL where that is not JSON; tokens exactly
\* where that JSON reports usage; an error text exactly on TAP's own 502.
RowTellsWhatTheClientGot ==
    \A row \in request_logs \cup background :
        LET got == resp[row.req] IN
        /\ got # NoResponse
        /\ row.status = got.status
        /\ row.project = ProjectId(row.req)
        /\ row.error <=> got.body = Nobody
        /\ row.response = IF got.body = Nobody THEN Nobody ELSE ParseJson(got.body)
        /\ row.usage = UsageOf(row.response)

\* TAP's own answer with that status, instead of the provider's.
Refusal(r, status) == resp[r] = [status |-> status, body |-> Nobody]

\* A call is recorded at most once.  One turned away (401, 429) leaves nothing
\* behind: the provider never saw it, no cache entry is its own, and it has no row
\* ("rejected requests aren't recorded").  One that ends in an exception (500) has
\* no row either; what it may leave is an answer that was paid for and could not be
\* parsed or recorded, and in the cache, for others to fail on, only the latter.
OneRowOrNone ==
    /\ \A a, b \in request_logs \cup background : a.req = b.req => a = b
    /\ \A r \in Req : Refusal(r, 401) \/ Refusal(r, 429) =>
          /\ provider[r] = NoAnswer
          /\ \A k \in CacheKeys : cache[k] # r
          /\ \A row \in request_logs \cup background : row.req # r
    /\ \A r \in Req : Refusal(r, 500) =>
          /\ provider[r] # NoAnswer => provider[r].kind \in {"deep", "odd"}
          /\ \A k \in CacheKeys : cache[k] = r => provider[r].kind = "odd"
          /\ \A row \in request_logs \cup background : row.req # r

\* A call that arrives after its key or its project was deactivated is never
\* let through, whatever was cached or in flight at that moment.
RevokedStaysOut ==
    \A r \in Req :
        [](pc[r] = "idle" /\ AuthEnabled /\ ~Resolves(call[r].key)
             => [](provider[r] = NoAnswer /\ \A row \in request_logs : row.req # r))

\* The client of q has a JSON object that q fetched with status 200.
Served(q) == /\ resp[q] = [status |-> 200, body |-> q]
             /\ provider[q].kind \in {"usage", "plain"}

\* Two calls for which cache_key returns the same key.
SameKey(r, q) == Cacheable(call[r]) /\ Cacheable(call[q]) /\ KeyOf(r) = KeyOf(q)

\* A call goes upstream although one with its key was answered with an object only
\* if somebody then stored JSON that cache_get does not return: as long as nothing
\* expires and Redis works, no error, no failed call and no call that was under way
\* takes back what a client was given.
WarmStaysWarm ==
    [][\A r, q \in Req :
          (pc[r] = "lookup" /\ pc'[r] = "upstream" /\ Served(q) /\ SameKey(r, q)) =>
              \E p \in Req : /\ SameKey(r, p) /\ provider[p] # NoAnswer
                            /\ provider[p].status = 200 /\ provider[p].kind = "array"]_vars

\* Why a call ends in an exception after it was let through.
Unforeseen(r) ==
    \/ call[r].payload = TooDeep
    \/ ~Sendable(r)
    \/ provider[r] # NoAnswer /\ provider[r].kind \in {"deep", "odd"}
    \/ \E p \in Req : SameKey(r, p) /\ provider[p] # NoAnswer /\ provider[p].kind = "odd"

\* Every buffered call whose body has arrived ends up in the table, or in a 500
\* that only its own content, or the provider's, can have caused.
LetThroughIsRecorded ==
    \A r \in Req :
        pc[r] \in {"lookup", "upstream"} ~>
            \/ \E row \in request_logs : row.req = r
            \/ Refusal(r, 500) /\ Unforeseen(r)

----------------------------------------------------------------------------
(* The inductive invariant behind HitReplaysASuccess, RowTellsWhatTheClientGot *)
(* and OneRowOrNone.                                                       *)

\* What the position of a handler says about the provider and the client.
ControlOk(r) ==
    /\ pc[r] \in {"idle", "auth", "limit", "body", "lookup", "streaming"}
         => provider[r] = NoAnswer
    /\ ~Sendable(r) => provider[r] = NoAnswer
    /\ pc[r] \in {"store", "answer"} => provider[r] # NoAnswer /\ provider[r].kind # "deep"
    /\ pc[r] = "store" => Storable(r)
    /\ pc[r] = "lookup" => Cacheable(call[r])
    /\ pc[r] \notin {"log", "done", "lost"} => resp[r] = NoResponse
    /\ resp[r] # NoResponse =>
         IF resp[r].body # Nobody THEN provider[resp[r].body] # NoAnswer
         ELSE /\ resp[r].status \notin {500, 502} => provider[r] = NoAnswer
              /\ resp[r].status = 500 /\ provider[r] # NoAnswer
                   => provider[r].kind \in {"deep", "odd"}

\* An entry is a success that a cacheable call with that key fetched.
CacheOk(k) ==
    LET s == cache[k] IN
    s # Nobody => /\ Cacheable(call[s]) /\ KeyOf(s) = k
                  /\ provider[s] # NoAnswer
                  /\ provider[s].status = 200
                  /\ provider[s].kind \notin {"none", "deep"}

\* What the three properties say of one row.
RowOk(row) ==
    LET got == resp[row.req]
        src == row.response
    IN  /\ got # NoResponse
        /\ row.status = got.status
        /\ row.project = ProjectId(row.req)
        /\ row.error <=> got.body = Nobody
        /\ row.error => row.status = 502
        /\ src = IF got.body = Nobody THEN Nobody ELSE ParseJson(got.body)
        /\ row.usage = UsageOf(src)
        /\ row.cache_hit =>
             /\ src \in Req \ {row.req}
             /\ Cacheable(call[src]) /\ Cacheable(call[row.req])
             /\ KeyOf(src) = KeyOf(row.req)
             /\ provider[src].status = 200
             /\ provider[src].kind \in {"usage", "plain"}

\* A queued record belongs to a handler that has just returned, a written one to
\* one that is done; no handler has two.
RowsOk == /\ \A row \in background : pc[row.req] = "log" /\ RowOk(row)
          /\ \A row \in request_logs : pc[row.req] = "done" /\ RowOk(row)
          /\ \A a, b \in request_logs \cup background : a.req = b.req => a = b

IInv == /\ TypeOK
        /\ \A r \in Req : ControlOk(r)
        /\ \A k \in CacheKeys : CacheOk(k)
        /\ RowsOk

----------------------------------------------------------------------------
(* The refinement: the calls of Proxy keep the ledger. *)

Refused(r) == resp[r] # NoResponse /\ resp[r].body = Nobody /\ resp[r].status # 502

LedgerPhase(r) == IF pc[r] = "log" THEN "served"
                  ELSE IF pc[r] \notin {"lost", "done"} THEN "open"
                  ELSE IF pc[r] = "done" /\ Refused(r) THEN "refused"
                  ELSE "closed"

\* What the client holds, as a row would put it; and what a row says.
ClientsTale(r) ==
    LET json == IF resp[r].body = Nobody THEN Nobody ELSE ParseJson(resp[r].body)
    IN  IF resp[r] = NoResponse THEN NoResponse
        ELSE [status |-> resp[r].status, response |-> json, usage |-> UsageOf(json),
              error |-> resp[r].body = Nobody]

RowsTale(row) == [status |-> row.status, response |-> row.response, usage |-> row.usage,
                  error |-> row.error]

phase == [r \in Req |-> LedgerPhase(r)]
told  == [r \in Req |-> ClientsTale(r)]
rows  == {[call |-> row.req, tale |-> RowsTale(row)] : row \in request_logs}

L == INSTANCE Ledger WITH Call <- Req, Untold <- NoResponse

\* proxy() and its background task keep the ledger: whatever fails, and however
\* requests, expiry, deactivations and crashes interleave, a row is written once,
\* after the answer it tells of, and neither changed nor taken back.
KeepsTheLedger == L!Spec

----------------------------------------------------------------------------
(* Claims of the documentation that the code does not keep. *)

\* README.md on the column: error is "set when the request never reached OpenAI
\* at all".  A read timeout or a broken connection also ends in a 502 row, with
\* the call already answered, and billed, upstream.
ErrorMeansNeverReached ==
    \A row \in request_logs : row.error => provider[row.req] = NoAnswer

\* metrics.py sums cost_usd over the rows as the "Spend [...] per model".  The
\* tokens the provider billed once are summed again for every cache hit.
SpendCountedOnce ==
    \A a, b \in request_logs : a.usage # Nobody /\ a.usage = b.usage => a = b
=============================================================================
