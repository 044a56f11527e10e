------------------------------ MODULE Gateway ------------------------------
(***************************************************************************)
(* The proxy with its rate limiter in place: the handlers of Proxy and the *)
(* counters of RateLimit, joined where proxy() awaits check_rate_limit and *)
(* acts on what it returns.  One Redis holds the cache and the counters.   *)
(* Authentication comes first, the body, the cache and the provider after: *)
(* whoever has a key spends budget, and may then never get an answer.      *)
(***************************************************************************)
EXTENDS Proxy, Integers, FiniteSets

CONSTANTS
    Anonymous,     \* the scope of calls without a key: "anonymous"
    ScopeOf,       \* the scope of each request
    Limit, WindowSeconds, MaxDelay, LastWindow


VARIABLES now, verdict, window, age, count, expires, life, mark

limiter == <<now, verdict, window, age, count, expires, life, mark>>
all     == <<vars, limiter>>

Scope == TapKey \cup {Anonymous}

ASSUME AnonymousAssumption == Anonymous \notin TapKey
ASSUME LimiterAssumption   == /\ ScopeOf \in [Req -> Scope] /\ Limit \in [Scope -> Int]
                              /\ WindowSeconds \in Nat /\ MaxDelay \in Nat
                              /\ LastWindow \in Nat

RL == INSTANCE RateLimit WITH pc <- verdict, RedisMayFail <- "redis" \in Faults

----------------------------------------------------------------------------
\* ctx.key_id if the call was authenticated, else "anonymous".
ScopeFits == \A r \in Req : ScopeOf[r] = IF AuthEnabled THEN call[r].key ELSE Anonymous

GatewayInit == Init /\ RL!Init /\ ScopeFits

\* Mutant of Obey: the verdict is awaited and dropped.
Disobey(r) == CheckRateLimit(r) /\ pc'[r] # "done"

\* What proxy() makes of the verdict: 429, or on with the body.
Obey(r) ==
    /\ CheckRateLimit(r)
    /\ pc'[r] = "done" <=> verdict'[r] = "refused"

\* Mutant of Consult: the budget is looked at before the key.
ConsultFirst(r) ==
    /\ pc[r] \in {"auth", "limit"} /\ RL!Begin(r)
    /\ IF verdict'[r] = "pending" \/ pc[r] = "auth" THEN UNCHANGED vars ELSE Obey(r)

\* The call of check_rate_limit, as far as it gets without Redis.
Consult(r) ==
    /\ pc[r] = "limit" /\ RL!Begin(r)
    /\ IF verdict'[r] = "pending" THEN UNCHANGED vars ELSE Obey(r)

Counted(r) == RL!Execute(r) \/ RL!RedisFails(r)

\* Redis answers, or the client gives up on it.
Resume(r) == pc[r] = "limit" /\ Counted(r) /\ Obey(r)

\* The command of a handler that is gone: it had been sent, and may still count.
Orphan(r) == pc[r] = "lost" /\ Counted(r) /\ UNCHANGED vars

\* The rest of the handler, which leaves the counters alone.
Proceed(r) ==
    /\ \/ Arrive(r) \/ Authenticate(r) \/ ReadBody(r) \/ CacheHit(r) \/ CacheMiss(r)
       \/ UpstreamFails(r) \/ Receive(r) \/ CacheStore(r) \/ Answer(r) \/ WriteLog(r)
       \/ ProviderAnswers(r)
    /\ UNCHANGED limiter

Surroundings ==
    /\ \/ \E x \in TapKey \cup Project : Deactivate(x)
       \/ \E k \in CacheKeys : Expire(k)
       \/ \E m \in Machine : Crash(m)
    /\ UNCHANGED limiter

GatewayNext ==
    \/ \E r \in Req : Proceed(r) \/ Consult(r) \/ Resume(r) \/ Orphan(r)
    \/ Surroundings
    \/ RL!Tick /\ UNCHANGED vars

GatewaySpec == GatewayInit /\ [][GatewayNext]_all

----------------------------------------------------------------------------
(* Properties. *)

\* The client has an answer that is not TAP's refusal, or the provider has the call.
GotThrough(r) == \/ provider[r] # NoAnswer
                 \/ resp[r] # NoResponse /\ (resp[r].body # Nobody \/ resp[r].status = 502)

\* While Redis answers, one life of a key's counter gets at most `limit` calls
\* answered, from the cache or by the provider, on all machines together, and
\* whatever expires, crashes or is deactivated between the count and the answer.
ServedWithinBudget ==
    \A k \in RL!Key : \A l \in 0 .. life[k] :
        Cardinality({r \in Req : /\ GotThrough(r)
                                 /\ verdict[r] \notin {"failed_open", "unenforced"}
                                 /\ RL!KeyOf(r) = k /\ mark[r].life = l})
            <= RL!Budget(k[1])

\* What check_rate_limit returns to whoever may go on.
Through == {"allowed", "failed_open", "unenforced"}

\* Only a key that is still honoured draws on its budget, and only an exhausted
\* budget refuses: a call answered 401 was never counted; one answered 429 came after
\* `limit` others that were counted before it, and got no further; and one answered
\* 500 was either never counted, or had been let through and failed on content, its
\* own or the provider's, that nobody expected.
TurnedAwayForCause ==
    \A r \in Req :
        /\ Refusal(r, 401) => mark[r].count = 0 /\ verdict[r] = "idle"
        /\ Refusal(r, 500) => \/ mark[r].count = 0 /\ verdict[r] = "idle"
                              \/ verdict[r] \in Through /\ Unforeseen(r)
        /\ Refusal(r, 429) =>
             /\ provider[r] = NoAnswer
             /\ RL!Budget(ScopeOf[r]) <= Cardinality({q \in Req :
                   /\ RL!KeyOf(q) = RL!KeyOf(r) /\ mark[q].life = mark[r].life
                   /\ 0 < mark[q].count /\ mark[q].count < mark[r].count})
=============================================================================
