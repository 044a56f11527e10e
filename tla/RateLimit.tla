----------------------------- MODULE RateLimit -----------------------------
(***************************************************************************)
(* backend/app/rate_limit.py: one counter per key and fixed window, held   *)
(* in Redis and shared by all machines.  check_rate_limit reads its clock, *)
(* then awaits a MULTI/EXEC of INCR and EXPIRE; time passes in between.    *)
(*                                                                         *)
(* Seconds are written in base window_seconds: the time is [win, off] with *)
(* win = int(time.time()) // window_seconds, so that adding a window's     *)
(* length is adding 1 to win.  Redis and the machines read the same clock. *)
(***************************************************************************)
EXTENDS Integers, FiniteSets

CONSTANTS
    Req,           \* the requests of a behaviour
    Scope,         \* API key ids, and "anonymous" for unauthenticated traffic
    ScopeOf,       \* whose budget each request draws on
    Limit,         \* ApiKey.rate_limit, or settings.default_rate_limit
    WindowSeconds, \* settings.rate_limit_window_seconds
    RedisMayFail,  \* whether a RedisError can occur
    MaxDelay,      \* bound: clock ticks a command may take to reach Redis
    LastWindow     \* bound: the last window in which requests arrive

ASSUME ScopeAssumption  == ScopeOf \in [Req -> Scope] /\ Limit \in [Scope -> Int]
ASSUME WindowAssumption == WindowSeconds \in Nat /\ LastWindow \in Nat
ASSUME DelayAssumption  == MaxDelay \in Nat
ASSUME FaultAssumption  == RedisMayFail \in BOOLEAN

VARIABLES
    now,      \* the clock
    pc,       \* "idle", "pending", or how check_rate_limit ended
    window,   \* the window a pending request computed its key with
    age,      \* ticks since it did
    count,    \* Redis: the counter under each key, 0 where there is no key
    expires,  \* Redis: when each key expires
    life,     \* how often each key has expired (history)
    mark      \* what each INCR met: life of the key, count, time (history)

vars == <<now, pc, window, age, count, expires, life, mark>>

Window == 0 .. LastWindow
Key    == Scope \X Window

\* The clock runs on until every key has had the time to expire.
Horizon == LastWindow + MaxDelay + 2

Time == [win: Nat, off: Nat]

PC == {"idle", "pending", "allowed", "refused", "failed_open", "unenforced"}

KeyOf(r) == <<ScopeOf[r], window[r]>>

----------------------------------------------------------------------------
Init == /\ now = [win |-> 0, off |-> 0]
        /\ pc = [r \in Req |-> "idle"]
        /\ window = [r \in Req |-> 0]
        /\ age = [r \in Req |-> 0]
        /\ count = [k \in Key |-> 0]
        /\ expires = [k \in Key |-> [win |-> 0, off |-> 0]]
        /\ life = [k \in Key |-> 0]
        /\ mark = [r \in Req |-> [life |-> 0, count |-> 0, at |-> [win |-> 0, off |-> 0]]]

\* check_rate_limit up to the await of pipeline.execute().
Begin(r) ==
    /\ pc[r] = "idle" /\ now.win <= LastWindow
    /\ pc' = [pc EXCEPT ![r] = IF Limit[ScopeOf[r]] <= 0 THEN "refused"
                               ELSE IF WindowSeconds <= 0 THEN "unenforced"
                               ELSE "pending"]
    /\ window' = [window EXCEPT ![r] = now.win]
    /\ UNCHANGED <<now, age, count, expires, life, mark>>

NextSecond == IF now.off + 1 < WindowSeconds
               THEN [now EXCEPT !.off = @ + 1]
               ELSE [win |-> now.win + 1, off |-> 0]

\* Mutants of Increment: a lifetime of a second, or none.
IncrementShortLived(r) ==
    LET k == KeyOf(r) IN
    /\ count' = [count EXCEPT ![k] = @ + 1]
    /\ expires' = [expires EXCEPT ![k] = NextSecond]
    /\ mark' = [mark EXCEPT ![r] = [life |-> life[k], count |-> count[k] + 1, at |-> now]]

IncrementForGood(r) ==
    LET k == KeyOf(r) IN
    /\ count' = [count EXCEPT ![k] = @ + 1]
    /\ mark' = [mark EXCEPT ![r] = [life |-> life[k], count |-> count[k] + 1, at |-> now]]
    /\ UNCHANGED expires

\* The transaction: INCR, then EXPIRE with a full window from now.
Increment(r) ==
    LET k == KeyOf(r) IN
    /\ count' = [count EXCEPT ![k] = @ + 1]
    /\ expires' = [expires EXCEPT ![k] = [now EXCEPT !.win = @ + 1]]
    /\ mark' = [mark EXCEPT ![r] = [life |-> life[k], count |-> count[k] + 1, at |-> now]]

\* Mutants of Execute: the verdict uses the count before INCR, or a strict bound.
ExecuteChecksOldCount(r) ==
    /\ pc[r] = "pending"
    /\ Increment(r)
    /\ pc' = [pc EXCEPT ![r] = IF count[KeyOf(r)] <= Limit[ScopeOf[r]]
                               THEN "allowed" ELSE "refused"]
    /\ UNCHANGED <<now, window, age, life>>

ExecuteChecksBelow(r) ==
    /\ pc[r] = "pending"
    /\ Increment(r)
    /\ pc' = [pc EXCEPT ![r] = IF count'[KeyOf(r)] < Limit[ScopeOf[r]]
                               THEN "allowed" ELSE "refused"]
    /\ UNCHANGED <<now, window, age, life>>

Execute(r) ==
    /\ pc[r] = "pending"
    /\ Increment(r)
    /\ pc' = [pc EXCEPT ![r] = IF count'[KeyOf(r)] <= Limit[ScopeOf[r]]
                               THEN "allowed" ELSE "refused"]
    /\ UNCHANGED <<now, window, age, life>>

\* RedisError: the transaction ran and its reply was lost, or it did not run.
RedisFails(r) ==
    /\ RedisMayFail /\ pc[r] = "pending"
    /\ Increment(r) \/ UNCHANGED <<count, expires, mark>>
    /\ pc' = [pc EXCEPT ![r] = "failed_open"]
    /\ UNCHANGED <<now, window, age, life>>

\* A second passes, and the keys whose time has come are gone.
Tick ==
    LET due == {k \in Key : count[k] > 0 /\ expires[k] = NextSecond}
    IN  /\ NextSecond.win <= Horizon
        /\ \A r \in Req : pc[r] = "pending" => age[r] < MaxDelay
        /\ now' = NextSecond
        /\ age' = [r \in Req |-> IF pc[r] = "pending" THEN age[r] + 1 ELSE age[r]]
        /\ count' = [k \in Key |-> IF k \in due THEN 0 ELSE count[k]]
        /\ life' = [k \in Key |-> IF k \in due THEN life[k] + 1 ELSE life[k]]
        /\ UNCHANGED <<pc, window, expires, mark>>

Next == Tick \/ \E r \in Req : Begin(r) \/ Execute(r) \/ RedisFails(r)

Spec == Init /\ [][Next]_vars

\* Time passes and a command that was sent is answered.
FairSpec == Spec /\ WF_vars(Tick) /\ \A r \in Req : WF_vars(Execute(r) \/ RedisFails(r))

----------------------------------------------------------------------------
(* Properties. *)

\* Every variable keeps its type.
TypeOK == /\ now \in Time
          /\ pc \in [Req -> PC]
          /\ window \in [Req -> Window]
          /\ age \in [Req -> Nat]
          /\ count \in [Key -> Nat]
          /\ expires \in [Key -> Time]
          /\ life \in [Key -> Nat]
          /\ mark \in [Req -> [life: Nat, count: Nat, at: Time]]

Budget(s) == IF Limit[s] > 0 THEN Limit[s] ELSE 0

\* The requests of a key that its counter let through.
Admitted(k) == {r \in Req : pc[r] = "allowed" /\ KeyOf(r) = k}

\* From its first INCR until it expires a counter lets through at most `limit`
\* requests, however the machines interleave and whatever replies are lost.
LifetimeBudget ==
    \A k \in Key : \A l \in 0 .. life[k] :
        Cardinality({r \in Admitted(k) : mark[r].life = l}) <= Budget(k[1])

\* A window lets through at most `limit` of the requests whose INCR is executed
\* within it: a counter cannot expire, and start again, before its window ends.
Punctual(r) == mark[r].at.win = window[r]

PunctualWindowBudget ==
    \A k \in Key : Cardinality({r \in Admitted(k) : Punctual(r)}) <= Budget(k[1])

\* "Consume one unit of `scope`'s budget; return False once it is exhausted": a
\* window lets through at most `limit` requests.  The code does not keep this:
\* the INCR of a request that began at the end of a window may find the
\* window's counter gone.
WindowBudget == \A k \in Key : Cardinality(Admitted(k)) <= Budget(k[1])

Seconds(t) == t.win * WindowSeconds + t.off

\* Stretches of window_seconds, wherever they start.
Stretches == {t .. (t + WindowSeconds - 1) : t \in 0 .. (Horizon * WindowSeconds)}

\* Of the requests of one window, any stretch of window_seconds lets through at most
\* `limit`, however late their commands are: the counter that a straggler starts anew
\* is at least a window's length younger than the one that is gone.  (Nothing of the
\* kind holds over all windows: with commands a window late, the counters of three
\* windows let requests through in one stretch.)
StretchBudget ==
    \A k \in Key : \A stretch \in Stretches :
        Cardinality({r \in Admitted(k) : Seconds(mark[r].at) \in stretch}) <= Budget(k[1])

\* Nobody is refused while budget is left: `limit` other requests were counted
\* against the same counter before the one that gets a 429.
RefusedOverBudget ==
    \A r \in Req : (pc[r] = "refused" /\ Limit[ScopeOf[r]] > 0) =>
        Limit[ScopeOf[r]] <= Cardinality({q \in Req :
            /\ KeyOf(q) = KeyOf(r) /\ mark[q].life = mark[r].life
            /\ 0 < mark[q].count /\ mark[q].count < mark[r].count})

\* Counters do not stay behind in Redis: EXPIRE travels with every INCR.
CountersExpire == \A k \in Key : count[k] > 0 ~> count[k] = 0

----------------------------------------------------------------------------
(* The inductive invariants behind the budgets. *)

\* INCR hands every request of one life of a key a different number, none above
\* the counter; those who got a number within the limit are let through, the
\* others refused.
NumberOk(r) ==
    LET m == mark[r]
        k == KeyOf(r)
    IN  /\ pc[r] \in {"idle", "pending"} => m.count = 0
        /\ m.count > 0 => /\ m.life <= life[k]
                          /\ m.life = life[k] => m.count <= count[k]
        /\ pc[r] = "allowed" => m.count > 0 /\ m.count <= Limit[ScopeOf[r]]
        /\ pc[r] = "refused" /\ Limit[ScopeOf[r]] > 0 => m.count > Limit[ScopeOf[r]]

NumbersDiffer ==
    \A r, q \in Req :
        (/\ r # q /\ KeyOf(r) = KeyOf(q)
         /\ mark[r].count > 0 /\ mark[r].life = mark[q].life)
            => mark[r].count # mark[q].count

\* No number is skipped: a counter, and whoever was counted, has somebody at every
\* number below.
HasNumber(q, k, l, n) == KeyOf(q) = k /\ mark[q].life = l /\ mark[q].count = n

NoGaps ==
    /\ \A k \in Key : \A n \in 1 .. count[k] : \E q \in Req : HasNumber(q, k, life[k], n)
    /\ \A r \in Req : \A n \in 1 .. mark[r].count :
          \E q \in Req : HasNumber(q, KeyOf(r), mark[r].life, n)

IInv == TypeOK /\ (\A r \in Req : NumberOk(r)) /\ NumbersDiffer /\ NoGaps

\* A key whose first INCR fell in its own window outlives that window, so the
\* punctual requests of a window all met the first life of its counter.
PunctualInv ==
    /\ \A r \in Req : mark[r].count > 0 /\ Punctual(r) => mark[r].life = 0
    /\ \A r \in Req : pc[r] = "pending" => window[r] <= now.win
    /\ \A k \in Key : count[k] > 0 => expires[k].win > k[2]
    /\ \A k \in Key : life[k] > 0 => now.win > k[2]

NotAfter(s, t) == s.win < t.win \/ (s.win = t.win /\ s.off <= t.off)
WindowLater(t) == [t EXCEPT !.win = @ + 1]

\* A counter lives a full window after each of its INCRs, so two INCRs that met
\* different lives of it are a window's length apart.
SpacedInv ==
    /\ \A r \in Req : mark[r].count > 0 =>
          /\ NotAfter(mark[r].at, now)
          /\ IF mark[r].life = life[KeyOf(r)]
             THEN NotAfter(WindowLater(mark[r].at), expires[KeyOf(r)])
             ELSE NotAfter(WindowLater(mark[r].at), now)
    /\ \A r, q \in Req :
          mark[r].count > 0 /\ mark[q].count > 0 /\ KeyOf(r) = KeyOf(q) /\ mark[q].life < mark[r].life
              => NotAfter(WindowLater(mark[q].at), mark[r].at)

\* A second of a window is one of window_seconds.
ClockInv ==
    WindowSeconds > 0 => /\ now.off < WindowSeconds
                         /\ \A r \in Req : mark[r].at.off < WindowSeconds

\* When counters expire and commands arrive.
TimingInv == PunctualInv /\ SpacedInv /\ ClockInv
=============================================================================
