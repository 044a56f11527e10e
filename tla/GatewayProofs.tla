--------------------------- MODULE GatewayProofs ---------------------------
(***************************************************************************)
(* Proofs about Gateway: the composition keeps the specifications of its   *)
(* two parts, so that what is proved of Proxy and of RateLimit holds of    *)
(* it, and what the limiter lets through bounds what clients are answered. *)
(***************************************************************************)
EXTENDS Gateway, ProxyProofs, FiniteSetTheorems

\* The limiter with its theorems.  The definitions are those of RL.
RLP == INSTANCE RateLimitProofs WITH pc <- verdict, RedisMayFail <- "redis" \in Faults

LEMMA LimiterAssumptions ==
    RLP!ScopeAssumption /\ RLP!WindowAssumption /\ RLP!DelayAssumption /\ RLP!FaultAssumption
BY LimiterAssumption
   DEF RLP!ScopeAssumption, RLP!WindowAssumption, RLP!DelayAssumption, RLP!FaultAssumption

LEMMA SameInit == RL!Init => RLP!Init
BY DEF RL!Init, RLP!Init, RL!Key, RLP!Key, RL!Window, RLP!Window

LEMMA SameNext == [RL!Next]_limiter => [RLP!Next]_limiter
BY DEF RL!Next, RLP!Next, RL!Begin, RLP!Begin, RL!Execute, RLP!Execute,
       RL!RedisFails, RLP!RedisFails, RL!Increment, RLP!Increment, RL!Tick, RLP!Tick,
       RL!KeyOf, RLP!KeyOf, RL!NextSecond, RLP!NextSecond, RL!Horizon, RLP!Horizon,
       RL!Key, RLP!Key, RL!Window, RLP!Window

----------------------------------------------------------------------------
(* The parts. *)

\* Every step of the composition is a step, or none, of the proxy and of the limiter.
LEMMA StepOfBoth == [GatewayNext]_all => [Next]_vars /\ [RL!Next]_limiter
<1> SUFFICES ASSUME [GatewayNext]_all PROVE [Next]_vars /\ [RL!Next]_limiter
  OBVIOUS
<1>1. CASE UNCHANGED all
  BY <1>1 DEF all
<1>2. ASSUME NEW r \in Req, Proceed(r) PROVE [Next]_vars /\ [RL!Next]_limiter
  BY <1>2 DEF Proceed, Next, Handle
<1>3. ASSUME NEW r \in Req, Consult(r) PROVE [Next]_vars /\ [RL!Next]_limiter
  BY <1>3 DEF Consult, Obey, Next, Handle, RL!Next
<1>4. ASSUME NEW r \in Req, Resume(r) \/ Orphan(r) PROVE [Next]_vars /\ [RL!Next]_limiter
  BY <1>4 DEF Resume, Orphan, Counted, Obey, Next, Handle, RL!Next
<1>5. CASE Surroundings
  BY <1>5 DEF Surroundings, Next
<1>6. CASE RL!Tick /\ UNCHANGED vars
  BY <1>6 DEF RL!Next
<1> QED
  BY <1>1, <1>2, <1>3, <1>4, <1>5, <1>6 DEF GatewayNext

\* Joining proxy and limiter takes nothing from either: what is proved of Proxy and
\* of RateLimit alone holds of both together.
THEOREM KeepsBoth == GatewaySpec => Spec /\ RL!Spec
<1>1. GatewayInit => Init /\ RL!Init
  BY DEF GatewayInit
<1>2. [GatewayNext]_all => [Next]_vars /\ [RL!Next]_(RL!vars)
  BY StepOfBoth DEF RL!vars, limiter
<1> QED
  BY <1>1, <1>2, PTL DEF GatewaySpec, Spec, RL!Spec

LEMMA LimiterInvariance == GatewaySpec => []RLP!IInv
<1>1. GatewayInit => RLP!IInv
  BY SameInit, LimiterAssumptions, RLP!IInvInit DEF GatewayInit
<1>2. RLP!IInv /\ [GatewayNext]_all => RLP!IInv'
  <2>1. RLP!IInv /\ [RLP!Next]_(RLP!vars) => RLP!IInv'
    BY LimiterAssumptions, RLP!IInvNext
  <2> QED
    BY <2>1, StepOfBoth, SameNext DEF RLP!vars, limiter
<1> QED
  BY <1>1, <1>2, PTL DEF GatewaySpec

LEMMA ProxyInvariance == GatewaySpec => []IInv
BY KeepsBoth, Invariance, PTL

----------------------------------------------------------------------------
(* The verdict decides who gets through. *)

\* The positions of a handler that has passed the limiter and is still running.
Beyond == {"body", "lookup", "upstream", "store", "answer", "log", "streaming"}

Linked == \A r \in Req : pc[r] \in Beyond \/ GotThrough(r) => verdict[r] \in Through

LEMMA LinkedInit == GatewayInit => Linked
BY DEF GatewayInit, Init, Linked, Beyond, GotThrough

\* A step after which nobody new is beyond the limiter, and nobody's verdict that
\* let through is taken back.
LEMMA LinkedKept ==
    ASSUME Linked,
           \A q \in Req : (pc'[q] \in Beyond \/ GotThrough(q)')
                              => (pc[q] \in Beyond \/ GotThrough(q) \/ verdict'[q] \in Through),
           \A q \in Req : verdict[q] \in Through => verdict'[q] = verdict[q]
    PROVE  Linked'
BY DEF Linked

\* The handler gets no further than it was, or was beyond the limiter already.
LEMMA ProceedLinked ==
    ASSUME IInv, Linked, NEW r \in Req, Proceed(r) PROVE Linked'
<1>1. verdict' = verdict
  BY DEF Proceed, limiter
<1>2. \A q \in Req : q # r => /\ pc'[q] = pc[q] /\ provider'[q] = provider[q]
                              /\ resp'[q] = resp[q]
  BY OthersStay DEF Proceed, Handle
<1>3. pc[r] \in Beyond \/ ~(pc'[r] \in Beyond \/ GotThrough(r)') \/ GotThrough(r)
  <2>1. CASE Arrive(r)
    BY <2>1 DEF Arrive, Goto, IInv, TypeOK, Beyond, GotThrough
  <2>2. CASE Authenticate(r)
    BY <2>2 DEF Authenticate, Goto, Reject, IInv, TypeOK, Beyond, GotThrough
  <2>3. CASE \/ ReadBody(r) \/ CacheHit(r) \/ CacheMiss(r) \/ UpstreamFails(r) \/ Receive(r)
             \/ CacheStore(r) \/ Answer(r) \/ WriteLog(r) \/ ProviderAnswers(r)
    BY <2>3 DEF ReadBody, CacheHit, CacheMiss, UpstreamFails, Receive, CacheStore, Answer,
                WriteLog, ProviderAnswers, Goto, Return, Reject, Beyond
  <2> QED
    BY <2>1, <2>2, <2>3 DEF Proceed
<1>4. \A q \in Req : pc'[q] \in Beyond \/ GotThrough(q)' => pc[q] \in Beyond \/ GotThrough(q)
  BY <1>2, <1>3 DEF GotThrough
<1> QED
  BY <1>1, <1>4, LinkedKept

\* The limiter's own step on a request that it has not let through yet.
LEMMA CountedFacts ==
    ASSUME RLP!IInv, NEW r \in Req, Counted(r)
    PROVE  /\ verdict[r] = "pending" /\ verdict'[r] \in Through \cup {"refused"}
           /\ \A q \in Req : q # r => verdict'[q] = verdict[q]
BY DEF Counted, RL!Execute, RL!RedisFails, RLP!IInv, RLP!TypeOK, Through

LEMMA BeginFacts ==
    ASSUME RLP!IInv, NEW r \in Req, RL!Begin(r)
    PROVE  /\ verdict[r] = "idle" /\ verdict'[r] \in Through \cup {"refused", "pending"}
           /\ \A q \in Req : q # r => verdict'[q] = verdict[q]
BY DEF RL!Begin, RLP!IInv, RLP!TypeOK, Through

\* A handler that obeys goes on only if it may.
LEMMA ObeyLinked ==
    ASSUME IInv, Linked, NEW r \in Req, Obey(r), verdict[r] \notin Through,
           verdict'[r] \in Through \cup {"refused"},
           \A q \in Req : q # r => verdict'[q] = verdict[q]
    PROVE  Linked'
<1>1. \A q \in Req : q # r => /\ pc'[q] = pc[q] /\ provider'[q] = provider[q]
                              /\ resp'[q] = resp[q]
  BY DEF Obey, CheckRateLimit, Goto, Reject, IInv, TypeOK
<1>2. verdict'[r] \notin Through => ~(pc'[r] \in Beyond \/ GotThrough(r)')
  <2> SUFFICES ASSUME verdict'[r] = "refused" PROVE pc'[r] \notin Beyond /\ ~GotThrough(r)'
    BY DEF Through
  <2>1. pc'[r] = "done" /\ Reject(r, "limit", 429)
    BY DEF Obey, CheckRateLimit, Goto, IInv, TypeOK
  <2>2. provider'[r] = NoAnswer
    BY <2>1 DEF Reject, Goto, IInv, ControlOk, Linked, GotThrough
  <2> QED
    BY <2>1, <2>2 DEF Reject, IInv, TypeOK, Beyond, GotThrough
<1> QED
  BY <1>1, <1>2, LinkedKept DEF GotThrough

LEMMA LinkedNext ==
    ASSUME IInv, RLP!IInv, Linked, [GatewayNext]_all PROVE Linked'
<1>1. CASE UNCHANGED all
  BY <1>1 DEF all, vars, limiter, Linked, GotThrough
<1>2. ASSUME NEW r \in Req, Consult(r) PROVE Linked'
  <2>1. CASE verdict'[r] = "pending"
    <3>1. UNCHANGED <<pc, provider, resp>>
      BY <1>2, <2>1 DEF Consult, vars
    <3> QED
      BY <1>2, <3>1, BeginFacts, LinkedKept DEF Consult, GotThrough, Through
  <2>2. CASE verdict'[r] # "pending"
    BY <1>2, <2>2, BeginFacts, ObeyLinked DEF Consult, Through
  <2> QED
    BY <2>1, <2>2
<1>3. ASSUME NEW r \in Req, Resume(r) PROVE Linked'
  BY <1>3, CountedFacts, ObeyLinked DEF Resume, Through
<1>4. ASSUME NEW r \in Req, Orphan(r) PROVE Linked'
  <2>1. UNCHANGED <<pc, provider, resp>>
    BY <1>4 DEF Orphan, vars
  <2> QED
    BY <1>4, <2>1, CountedFacts, LinkedKept DEF Orphan, GotThrough, Through
<1>5. CASE Surroundings
  <2>1. UNCHANGED <<verdict, provider, resp>>
    BY <1>5 DEF Surroundings, limiter, Deactivate, Expire, Crash
  <2>2. \A q \in Req : pc'[q] \in {pc[q], "lost"}
    BY <1>5 DEF Surroundings, Deactivate, Expire, Crash, IInv, TypeOK
  <2> QED
    BY <2>1, <2>2, LinkedKept DEF GotThrough, Beyond
<1>6. CASE RL!Tick /\ UNCHANGED vars
  <2>1. UNCHANGED <<verdict, pc, provider, resp>>
    BY <1>6 DEF RL!Tick, vars
  <2> QED
    BY <2>1, LinkedKept DEF GotThrough
<1> QED
  BY <1>1, <1>2, <1>3, <1>4, <1>5, <1>6, ProceedLinked DEF GatewayNext

LEMMA LinkedInvariance == GatewaySpec => []Linked
BY LinkedInit, LinkedNext, ProxyInvariance, LimiterInvariance, PTL DEF GatewaySpec

\* Requests that were let through with different numbers fit the budget.
LEMMA AllowedFit ==
    ASSUME RLP!IInv, NEW s \in Scope, NEW S \in SUBSET Req,
           \A r \in S : verdict[r] = "allowed" /\ ScopeOf[r] = s,
           \A r, q \in S : r # q => mark[r].count # mark[q].count
    PROVE  Cardinality(S) <= RL!Budget(s)
<1> DEFINE T == 1 .. Limit[s]
           f == [r \in S |-> mark[r].count]
<1>1. \A r \in S : mark[r].count \in T
  BY LimiterAssumption DEF RLP!IInv, RLP!TypeOK, RLP!NumberOk
<1>2. f \in Injection(S, T)
  BY <1>1 DEF Injection, IsInjective
<1>3. IsFiniteSet(T) /\ Cardinality(T) = RL!Budget(s)
  <2>1. PICK n \in Int : n = Limit[s]
    BY LimiterAssumption
  <2>2. IsFiniteSet(1 .. n) /\ Cardinality(1 .. n) = IF 1 > n THEN 0 ELSE n - 1 + 1
    BY FS_Interval
  <2> QED
    BY <2>1, <2>2 DEF RL!Budget
<1> HIDE DEF f, T
<1> QED
  BY <1>2, <1>3, FS_Injection

LEMMA ServedFits ==
    ASSUME RLP!IInv, Linked PROVE ServedWithinBudget
<1> SUFFICES ASSUME NEW k \in RL!Key, NEW l \in 0 .. life[k]
             PROVE  Cardinality({r \in Req :
                        /\ GotThrough(r) /\ verdict[r] \notin {"failed_open", "unenforced"}
                        /\ RL!KeyOf(r) = k /\ mark[r].life = l}) <= RL!Budget(k[1])
  BY DEF ServedWithinBudget
<1> DEFINE S == {r \in Req :
                        /\ GotThrough(r) /\ verdict[r] \notin {"failed_open", "unenforced"}
                        /\ RL!KeyOf(r) = k /\ mark[r].life = l}
<1>1. S \in SUBSET Req /\ k[1] \in Scope
  BY DEF RL!Key
<1>2. \A r \in S : verdict[r] = "allowed" /\ ScopeOf[r] = k[1]
  BY DEF Linked, Through, RL!KeyOf
<1>3. \A r, q \in S : r # q => mark[r].count # mark[q].count
  BY <1>2 DEF RLP!IInv, RLP!NumbersDiffer, RLP!NumberOk, RLP!KeyOf, RL!KeyOf
<1> HIDE DEF S
<1>4. Cardinality(S) <= RL!Budget(k[1])
  BY <1>1, <1>2, <1>3, AllowedFit
<1> QED
  BY <1>4 DEF S

\* No more calls are answered than the limiter let through: for any number of
\* requests, keys and machines, and whatever fails after the count.
THEOREM AnswersFitTheBudget == GatewaySpec => []ServedWithinBudget
BY ServedFits, LinkedInvariance, LimiterInvariance, PTL

----------------------------------------------------------------------------
(* Why a call is turned away. *)

\* The verdict, and for an exception after it the content, that goes with a refusal.
HasCause(r) ==
    \/ resp[r].status \in {401, 500} /\ verdict[r] = "idle"
    \/ resp[r].status = 429 /\ verdict[r] = "refused"
    \/ resp[r].status = 500 /\ verdict[r] \in Through /\ Unforeseen(r)

\* A handler that has not reached the limiter has no verdict; one that TAP refused is
\* done, and has a cause.
TurnedInv ==
    \A r \in Req :
        /\ pc[r] \in {"idle", "auth"} => verdict[r] = "idle"
        /\ Refused(r) => pc[r] = "done" /\ HasCause(r)

\* What made a call fail is not undone.
LEMMA UnforeseenStable ==
    ASSUME IInv, [Next]_vars, NEW r \in Req, Unforeseen(r)
    PROVE  Unforeseen(r)'
<1>1. call' = call /\ \A p \in Req : provider[p] # NoAnswer => provider'[p] = provider[p]
  <2>1. ASSUME NEW q \in Req, Arrive(q) \/ ReadBody(q) \/ Handle(q)
        PROVE  call' = call /\ provider' = provider
    <3>1. CASE Arrive(q) \/ ReadBody(q) \/ Authenticate(q) \/ CheckRateLimit(q)
      BY <3>1 DEF Arrive, ReadBody, Authenticate, CheckRateLimit, Reject
    <3>2. CASE CacheMiss(q) \/ Receive(q) \/ CacheStore(q) \/ WriteLog(q)
      BY <3>2 DEF CacheMiss, Receive, CacheStore, WriteLog, Reject
    <3>3. CASE CacheHit(q)
      BY <3>3 DEF CacheHit, Return, Reject
    <3>4. CASE UpstreamFails(q)
      BY <3>4 DEF UpstreamFails, Return, Reject
    <3>5. CASE Answer(q)
      BY <3>5 DEF Answer, Return, Reject
    <3>. QED
      BY <2>1, <3>1, <3>2, <3>3, <3>4, <3>5 DEF Handle
  <2>2. ASSUME NEW q \in Req, ProviderAnswers(q)
        PROVE  call' = call /\ \A p \in Req : provider[p] # NoAnswer => provider'[p] = provider[p]
    BY <2>2 DEF ProviderAnswers, IInv, TypeOK
  <2>3. CASE \/ \E x \in TapKey \cup Project : Deactivate(x)
             \/ \E k \in CacheKeys : Expire(k)
             \/ \E m \in Machine : Crash(m)
             \/ UNCHANGED vars
    BY <2>3 DEF Deactivate, Expire, Crash, vars
  <2> QED
    BY <2>1, <2>2, <2>3 DEF Next
<1> QED
  BY <1>1 DEF Unforeseen, Sendable, SameKey, KeyOf

LEMMA TurnedInit == GatewayInit => TurnedInv
BY DEF GatewayInit, Init, RL!Init, TurnedInv, Refused

\* A step after which whoever is new among the refused is done and has a cause, and
\* that changes no verdict of the others.
LEMMA TurnedKept ==
    ASSUME IInv, [Next]_vars, TurnedInv,
           \A q \in Req : pc'[q] \in {"idle", "auth"}
                              => pc[q] \in {"idle", "auth"} /\ verdict'[q] = verdict[q],
           \A q \in Req : Refused(q)' =>
               \/ Refused(q) /\ UNCHANGED <<pc[q], verdict[q], resp[q]>>
               \/ pc'[q] = "done" /\ HasCause(q)'
    PROVE  TurnedInv'
<1> SUFFICES ASSUME NEW q \in Req
             PROVE  /\ pc'[q] \in {"idle", "auth"} => verdict'[q] = "idle"
                    /\ Refused(q)' => pc'[q] = "done" /\ HasCause(q)'
  BY DEF TurnedInv
<1>1. ASSUME Refused(q), UNCHANGED <<pc[q], verdict[q], resp[q]>>
      PROVE  pc'[q] = "done" /\ HasCause(q)'
  BY <1>1, UnforeseenStable DEF TurnedInv, HasCause
<1> QED
  BY <1>1 DEF TurnedInv

\* A call that fails beyond the limiter was let through, and fails on its content or
\* on the provider's.
LEMMA FailureTurned ==
    ASSUME IInv, Linked, TurnedInv, [Next]_vars, NEW r \in Req,
           NEW from \in Beyond \ {"log"}, Reject(r, from, 500), verdict' = verdict, Unforeseen(r)
    PROVE  TurnedInv'
<1>1. /\ \A q \in Req \ {r} : pc'[q] = pc[q] /\ resp'[q] = resp[q]
      /\ pc[r] = from /\ pc'[r] = "done" /\ resp'[r].status = 500
  BY DEF Reject, Goto, IInv, TypeOK
<1>2. verdict[r] \in Through
  BY <1>1 DEF Linked
<1>3. HasCause(r)'
  BY <1>1, <1>2, UnforeseenStable DEF HasCause
<1> QED
  BY <1>1, <1>3, TurnedKept DEF Refused

\* Every exception after the limiter has such content behind it.
LEMMA FailureUnforeseen ==
    ASSUME IInv, NEW r \in Req
    PROVE  /\ ReadBody(r) /\ pc'[r] = "done" => Unforeseen(r) /\ Reject(r, "body", 500)
           /\ CacheHit(r) /\ ~Recordable(cache[KeyOf(r)])
                => Unforeseen(r) /\ Reject(r, "lookup", 500)
           /\ UpstreamFails(r) /\ ~Sendable(r) => Unforeseen(r) /\ Reject(r, "upstream", 500)
           /\ Receive(r) /\ pc'[r] = "done" => Unforeseen(r) /\ Reject(r, "upstream", 500)
           /\ Answer(r) /\ ~Recordable(r) => Unforeseen(r) /\ Reject(r, "answer", 500)
<1>1. ASSUME ReadBody(r), pc'[r] = "done" PROVE Unforeseen(r) /\ Reject(r, "body", 500)
  BY <1>1 DEF ReadBody, Goto, Unforeseen, IInv, TypeOK
<1>2. ASSUME CacheHit(r), ~Recordable(cache[KeyOf(r)])
      PROVE  Unforeseen(r) /\ Reject(r, "lookup", 500)
  <2>1. Cacheable(call[r]) /\ KeyOf(r) \in CacheKeys
    BY <1>2, KeyType DEF CacheHit, IInv, ControlOk
  <2>2. PICK s \in Req : s = cache[KeyOf(r)]
    BY <1>2, <2>1 DEF CacheHit, Found, IInv, TypeOK
  <2>3. SameKey(r, s) /\ provider[s] # NoAnswer /\ provider[s].kind = "odd"
    BY <1>2, <2>1, <2>2, NullAssumption DEF IInv, CacheOk, SameKey, Recordable
  <2> QED
    BY <1>2, <2>3 DEF CacheHit, Unforeseen
<1>3. ASSUME UpstreamFails(r), ~Sendable(r) PROVE Unforeseen(r) /\ Reject(r, "upstream", 500)
  BY <1>3 DEF UpstreamFails, Unforeseen
<1>4. ASSUME Receive(r), pc'[r] = "done" PROVE Unforeseen(r) /\ Reject(r, "upstream", 500)
  BY <1>4 DEF Receive, Goto, Unforeseen, IInv, TypeOK
<1>5. ASSUME Answer(r), ~Recordable(r) PROVE Unforeseen(r) /\ Reject(r, "answer", 500)
  BY <1>5 DEF Answer, Recordable, Unforeseen, IInv, ControlOk
<1> QED
  BY <1>1, <1>2, <1>3, <1>4, <1>5

\* The handler's own steps: its client is left alone, given an answer that is no
\* refusal, or refused for a cause.
LEMMA ProceedTurned ==
    ASSUME IInv, Linked, TurnedInv, NEW r \in Req, Proceed(r), [Next]_vars PROVE TurnedInv'
<1>1. verdict' = verdict
  BY DEF Proceed, limiter
<1>2. ASSUME resp' = resp, \A q \in Req \ {r} : pc'[q] = pc[q], pc[r] # "done",
             pc'[r] \in {"idle", "auth"} => pc[r] = "idle"
      PROVE  TurnedInv'
  <2>1. \A q \in Req : Refused(q)' => Refused(q) /\ q # r
    BY <1>2 DEF Refused, TurnedInv
  <2> QED
    BY <1>1, <1>2, <2>1, TurnedKept
<1>3. CASE Authenticate(r)
  <2>1. /\ \A q \in Req \ {r} : pc'[q] = pc[q] /\ resp'[q] = resp[q]
        /\ pc[r] = "auth" /\ pc'[r] \in {"limit", "done"}
        /\ resp'[r] = resp[r] \/ (resp'[r].status \in {401, 500} /\ pc'[r] = "done")
    BY <1>3 DEF Authenticate, Reject, Goto, IInv, TypeOK
  <2>2. verdict'[r] = "idle" /\ resp[r] = NoResponse
    BY <1>1, <2>1 DEF TurnedInv, IInv, ControlOk
  <2> QED
    BY <1>1, <2>1, <2>2, TurnedKept DEF Refused, HasCause
<1>4. ASSUME NEW from, NEW status, NEW body, NEW record, Return(r, from, status, body, record),
             body # Nobody \/ status = 502
      PROVE  TurnedInv'
  <2>1. /\ \A q \in Req \ {r} : pc'[q] = pc[q] /\ resp'[q] = resp[q]
        /\ pc'[r] = "log" /\ resp'[r] = [status |-> status, body |-> body]
    BY <1>4 DEF Return, Goto, IInv, TypeOK
  <2> QED
    BY <1>1, <1>4, <2>1, TurnedKept DEF Refused
<1>5. ASSUME NEW from \in Beyond \ {"log"}, Reject(r, from, 500), Unforeseen(r) PROVE TurnedInv'
  BY <1>1, <1>5, FailureTurned
<1>6. CASE \/ Arrive(r) \/ CacheMiss(r) \/ CacheStore(r) \/ WriteLog(r) \/ ProviderAnswers(r)
  BY <1>2, <1>6 DEF Arrive, CacheMiss, CacheStore, WriteLog, ProviderAnswers, Goto, IInv, TypeOK
<1>7. CASE ReadBody(r) \/ Receive(r)
  <2>1. CASE pc'[r] = "done"
    BY <1>5, <1>7, <2>1, FailureUnforeseen DEF Beyond
  <2>2. CASE pc'[r] # "done"
    BY <1>2, <1>7, <2>2 DEF ReadBody, Receive, Reject, Goto, IInv, TypeOK
  <2> QED
    BY <2>1, <2>2
<1>8. CASE CacheHit(r)
  <2>1. CASE Recordable(cache[KeyOf(r)])
    <3>1. cache[KeyOf(r)] # Nobody
      BY <1>8 DEF CacheHit, Found
    <3> QED
      BY <1>4, <1>8, <2>1, <3>1 DEF CacheHit
  <2>2. CASE ~Recordable(cache[KeyOf(r)])
    BY <1>5, <1>8, <2>2, FailureUnforeseen DEF Beyond
  <2> QED
    BY <2>1, <2>2
<1>9. CASE UpstreamFails(r)
  <2>1. CASE Sendable(r)
    BY <1>4, <1>9, <2>1 DEF UpstreamFails
  <2>2. CASE ~Sendable(r)
    BY <1>5, <1>9, <2>2, FailureUnforeseen DEF Beyond
  <2> QED
    BY <2>1, <2>2
<1>10. CASE Answer(r)
  <2>1. CASE Recordable(r)
    BY <1>4, <1>10, <2>1, NullAssumption DEF Answer
  <2>2. CASE ~Recordable(r)
    BY <1>5, <1>10, <2>2, FailureUnforeseen DEF Beyond
  <2> QED
    BY <2>1, <2>2
<1> QED
  BY <1>3, <1>6, <1>7, <1>8, <1>9, <1>10 DEF Proceed

\* A handler that obeys is turned away with 429 exactly if its verdict says so.
LEMMA ObeyTurned ==
    ASSUME IInv, TurnedInv, [Next]_vars, NEW r \in Req, Obey(r),
           \A q \in Req : q # r => verdict'[q] = verdict[q]
    PROVE  TurnedInv'
<1>1. /\ \A q \in Req \ {r} : pc'[q] = pc[q] /\ resp'[q] = resp[q]
      /\ pc[r] = "limit" /\ pc'[r] \in {"body", "done"}
      /\ pc'[r] = "done" => resp'[r].status = 429 /\ verdict'[r] = "refused"
      /\ pc'[r] = "body" => resp'[r] = resp[r]
  BY DEF Obey, CheckRateLimit, Reject, Goto, IInv, TypeOK
<1>2. resp[r] = NoResponse
  BY <1>1 DEF IInv, ControlOk
<1> QED
  BY <1>1, <1>2, TurnedKept DEF Refused, HasCause

LEMMA TurnedNext ==
    ASSUME IInv, RLP!IInv, Linked, TurnedInv, [GatewayNext]_all PROVE TurnedInv'
<1>0. [Next]_vars
  BY StepOfBoth
<1>1. CASE UNCHANGED all
  BY <1>0, <1>1, TurnedKept DEF all, vars, limiter, Refused
<1>2. ASSUME NEW r \in Req, Consult(r) PROVE TurnedInv'
  <2>1. CASE verdict'[r] = "pending"
    <3>1. UNCHANGED <<pc, resp>> /\ pc[r] = "limit"
      BY <1>2, <2>1 DEF Consult, vars
    <3> QED
      BY <1>0, <1>2, <3>1, BeginFacts, TurnedKept DEF Consult, Refused, TurnedInv
  <2>2. CASE verdict'[r] # "pending"
    BY <1>0, <1>2, <2>2, BeginFacts, ObeyTurned DEF Consult
  <2> QED
    BY <2>1, <2>2
<1>3. ASSUME NEW r \in Req, Resume(r) PROVE TurnedInv'
  BY <1>0, <1>3, CountedFacts, ObeyTurned DEF Resume
<1>4. ASSUME NEW r \in Req, Orphan(r) PROVE TurnedInv'
  <2>1. UNCHANGED <<pc, resp>> /\ pc[r] = "lost"
    BY <1>4 DEF Orphan, vars
  <2> QED
    BY <1>0, <1>4, <2>1, CountedFacts, TurnedKept DEF Orphan, Refused, TurnedInv
<1>5. CASE Surroundings
  <2>1. UNCHANGED <<verdict, resp>>
    BY <1>5 DEF Surroundings, limiter, Deactivate, Expire, Crash
  <2>2. \A q \in Req : pc'[q] = pc[q] \/ (pc'[q] = "lost" /\ pc[q] # "done")
    BY <1>5 DEF Surroundings, Deactivate, Expire, Crash, IInv, TypeOK
  <2> QED
    BY <1>0, <2>1, <2>2, TurnedKept DEF Refused, TurnedInv
<1>6. CASE RL!Tick /\ UNCHANGED vars
  <2>1. UNCHANGED <<verdict, pc, resp>>
    BY <1>6 DEF RL!Tick, vars
  <2> QED
    BY <1>0, <2>1, TurnedKept DEF Refused
<1> QED
  BY <1>0, <1>1, <1>2, <1>3, <1>4, <1>5, <1>6, ProceedTurned DEF GatewayNext

LEMMA TurnedInvariance == GatewaySpec => []TurnedInv
BY TurnedInit, TurnedNext, ProxyInvariance, LimiterInvariance, LinkedInvariance, PTL
   DEF GatewaySpec

\* A finite set has one cardinality, by the limiter's definitions and by these.
LEMMA SameCardinality ==
    ASSUME NEW S, RLP!IsFiniteSet(S)
    PROVE  IsFiniteSet(S) /\ Cardinality(S) = RLP!Cardinality(S)
<1>1. RLP!Cardinality(S) \in Nat /\ RLP!ExistsBijection(1 .. RLP!Cardinality(S), S)
  BY LimiterAssumptions, RLP!FS_CardinalityType
<1>2. ExistsBijection(1 .. RLP!Cardinality(S), S)
  BY <1>1 DEF ExistsBijection, Bijection, Injection, Surjection, IsInjective,
              RLP!ExistsBijection, RLP!Bijection, RLP!Injection, RLP!Surjection,
              RLP!IsInjective
<1> QED
  BY <1>1, <1>2, FS_NatBijection, FS_CountingElements

\* What the verdict says of the counters.
LEMMA TurnedForCause ==
    ASSUME IInv, RLP!IInv, TurnedInv PROVE TurnedAwayForCause
<1> SUFFICES ASSUME NEW r \in Req, resp[r] # NoResponse, resp[r].body = Nobody
             PROVE  /\ resp[r].status = 401 => mark[r].count = 0 /\ verdict[r] = "idle"
                    /\ resp[r].status = 500 =>
                         \/ mark[r].count = 0 /\ verdict[r] = "idle"
                         \/ verdict[r] \in Through /\ Unforeseen(r)
                    /\ resp[r].status = 429 =>
                         /\ provider[r] = NoAnswer
                         /\ RL!Budget(ScopeOf[r]) <= Cardinality(RLP!Before(r))
  <2>1. ASSUME NEW r \in Req, NEW status \in Nat, Refusal(r, status)
        PROVE  resp[r] # NoResponse /\ resp[r].body = Nobody /\ resp[r].status = status
    BY <2>1, NullAssumption DEF Refusal, Response
  <2> QED
    BY <2>1 DEF TurnedAwayForCause, RLP!Before, RLP!KeyOf, RL!KeyOf
<1>0. resp[r].status # 502 => HasCause(r)
  BY DEF TurnedInv, Refused
<1>1. verdict[r] = "idle" => mark[r].count = 0
  BY DEF RLP!IInv, RLP!NumberOk
<1>2. ASSUME resp[r].status = 429 PROVE provider[r] = NoAnswer
  BY <1>2 DEF IInv, ControlOk
<1>3. ASSUME resp[r].status = 429 PROVE RL!Budget(ScopeOf[r]) <= Cardinality(RLP!Before(r))
  <2>1. verdict[r] = "refused"
    BY <1>0, <1>3 DEF HasCause
  <2>2. RLP!IsFiniteSet(RLP!Before(r))
    BY LimiterAssumptions, RLP!BeforeIsFinite
  <2>3. /\ Cardinality(RLP!Before(r)) \in Nat
        /\ Cardinality(RLP!Before(r)) = RLP!Cardinality(RLP!Before(r))
    BY <2>2, SameCardinality, FS_CardinalityType
  <2>4. RLP!RefusedOverBudget
    BY LimiterAssumptions, RLP!RefusalsFit
  <2>5. Limit[ScopeOf[r]] > 0 => Limit[ScopeOf[r]] <= RLP!Cardinality(RLP!Before(r))
    BY <2>1, <2>4 DEF RLP!RefusedOverBudget, RLP!Before
  <2> QED
    BY <2>3, <2>5 DEF RL!Budget
<1> QED
  BY <1>0, <1>1, <1>2, <1>3 DEF HasCause

\* A key that is not honoured draws on no budget, and nobody is refused before the
\* limit is used up, and what was let through and fails, fails on its content: for
\* any number of requests, keys and machines.
THEOREM TurnedAwayHaveCause == GatewaySpec => []TurnedAwayForCause
BY TurnedForCause, TurnedInvariance, ProxyInvariance, LimiterInvariance, PTL
=============================================================================
