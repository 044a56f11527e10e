-------------------------- MODULE RateLimitProofs --------------------------
(***************************************************************************)
(* Proofs about RateLimit, for any number of requests and keys, any limits *)
(* and any window length: the budget of one life of a counter is never     *)
(* exceeded, nor is that of a window by the requests counted within it.    *)
(***************************************************************************)
EXTENDS RateLimit, FiniteSetTheorems, WellFoundedInduction, TLAPS

\* The next second has the type of a time and does not go back.
LEMMA NextSecondFacts ==
    ASSUME now \in Time
    PROVE  NextSecond \in Time /\ NextSecond.win >= now.win
BY WindowAssumption DEF NextSecond, Time

LEMMA KeyType ==
    ASSUME TypeOK, NEW r \in Req
    PROVE  KeyOf(r) \in Key /\ Limit[ScopeOf[r]] \in Int /\ ScopeOf[r] \in Scope
BY ScopeAssumption DEF TypeOK, KeyOf, Key

\* What INCR does to the counter, its expiry and the history.
LEMMA IncrementFacts ==
    ASSUME TypeOK, NEW r \in Req, Increment(r)
    PROVE  /\ count' \in [Key -> Nat] /\ expires' \in [Key -> Time]
           /\ mark' \in [Req -> [life: Nat, count: Nat, at: Time]]
           /\ mark'[r].life = life[KeyOf(r)]
           /\ mark'[r].count = count[KeyOf(r)] + 1
           /\ \A q \in Req \ {r} : mark'[q] = mark[q]
           /\ count'[KeyOf(r)] = count[KeyOf(r)] + 1
           /\ \A k \in Key \ {KeyOf(r)} : count'[k] = count[k] /\ expires'[k] = expires[k]
           /\ expires'[KeyOf(r)].win = now.win + 1
           /\ expires'[KeyOf(r)] = WindowLater(now)
           /\ mark'[r].at = now
<1>1. KeyOf(r) \in Key
  BY KeyType
<1>2. [now EXCEPT !.win = @ + 1] \in Time /\ [now EXCEPT !.win = @ + 1].win = now.win + 1
  BY DEF TypeOK, Time
<1>. QED
  BY <1>1, <1>2 DEF TypeOK, Increment, WindowLater

----------------------------------------------------------------------------
LEMMA IInvInit == Init => IInv
<1>. SUFFICES ASSUME Init PROVE IInv
  OBVIOUS
<1>1. TypeOK /\ (\A r \in Req : NumberOk(r)) /\ NumbersDiffer
  BY WindowAssumption DEF Init, TypeOK, NumberOk, NumbersDiffer, Time, PC, Window, KeyOf
<1>2. NoGaps
  BY DEF Init, NoGaps
<1>. QED
  BY <1>1, <1>2 DEF IInv

\* Steps that count nobody, and give none who was counted another counter, leave
\* every number taken.
LEMMA NumbersStay ==
    ASSUME IInv, mark' = mark,
           \A q \in Req : mark[q].count > 0 => KeyOf(q)' = KeyOf(q),
           \A k \in Key : \/ count'[k] = count[k] /\ life'[k] = life[k]
                         \/ count'[k] = 0
    PROVE  NoGaps'
<1>1. \A q \in Req : mark[q].count \in Nat
  BY DEF IInv, TypeOK
<1>2. ASSUME NEW k \in Key, NEW n \in 1 .. count'[k]
      PROVE  \E q \in Req : HasNumber(q, k, life[k], n)'
  <2>1. count'[k] = count[k] /\ life'[k] = life[k]
    BY <1>2
  <2>2. PICK q \in Req : HasNumber(q, k, life[k], n)
    BY <2>1 DEF IInv, NoGaps
  <2>3. mark[q].count > 0
    BY <2>2 DEF HasNumber
  <2>. QED
    BY <2>1, <2>2, <2>3 DEF HasNumber
<1>3. ASSUME NEW r \in Req, NEW n \in 1 .. mark'[r].count
      PROVE  \E q \in Req : HasNumber(q, KeyOf(r), mark[r].life, n)'
  <2>1. PICK q \in Req : HasNumber(q, KeyOf(r), mark[r].life, n)
    BY <1>3 DEF IInv, NoGaps
  <2>2. mark[q].count > 0 /\ mark[r].count > 0
    BY <1>1, <1>3, <2>1 DEF HasNumber
  <2>. QED
    BY <2>1, <2>2 DEF HasNumber
<1>. QED
  BY <1>2, <1>3 DEF NoGaps

LEMMA BeginOk ==
    ASSUME IInv, NEW r \in Req, Begin(r) PROVE IInv'
<1>0. Limit[ScopeOf[r]] \in Int
  BY KeyType DEF IInv
<1>1. TypeOK'
  BY DEF IInv, TypeOK, Begin, PC, Window, Time
<1>2. mark[r].count = 0 /\ mark' = mark /\ \A q \in Req \ {r} : KeyOf(q)' = KeyOf(q)
  BY DEF IInv, TypeOK, NumberOk, Begin, KeyOf
<1>3. ASSUME NEW q \in Req PROVE NumberOk(q)'
  <2>1. CASE q = r
    <3>1. pc'[r] \in {"pending", "unenforced"} \/ (pc'[r] = "refused" /\ Limit[ScopeOf[r]] <= 0)
      BY <1>0 DEF IInv, TypeOK, Begin
    <3>. QED
      BY <1>0, <1>2, <2>1, <3>1 DEF NumberOk, Begin
  <2>2. CASE q # r
    BY <1>2, <2>2 DEF IInv, TypeOK, NumberOk, Begin
  <2>. QED
    BY <2>1, <2>2
<1>4. NumbersDiffer'
  BY <1>2 DEF IInv, TypeOK, NumbersDiffer
<1>5. NoGaps'
  BY <1>2, NumbersStay DEF Begin
<1>. QED
  BY <1>1, <1>3, <1>4, <1>5 DEF IInv

\* A transaction that ran, whatever became of its reply.
LEMMA IncrementOk ==
    ASSUME IInv, NEW r \in Req, Increment(r), pc[r] = "pending",
           NEW to \in {"allowed", "refused", "failed_open"}, pc' = [pc EXCEPT ![r] = to],
           to = "allowed" => count'[KeyOf(r)] <= Limit[ScopeOf[r]],
           to = "refused" => count'[KeyOf(r)] > Limit[ScopeOf[r]],
           UNCHANGED <<now, window, age, life>>
    PROVE  IInv'
<1>. DEFINE k == KeyOf(r)
<1>0. TypeOK /\ k \in Key /\ mark[r].count = 0
  BY KeyType DEF IInv, NumberOk
<1>1. TypeOK'
  BY <1>0, IncrementFacts DEF TypeOK, PC
<1>2. \A q \in Req : KeyOf(q)' = KeyOf(q) /\ KeyOf(q) \in Key
  BY <1>0, KeyType DEF KeyOf
<1>3. ASSUME NEW q \in Req PROVE NumberOk(q)'
  <2>1. CASE q = r
    <3>1. pc'[r] = to /\ count[k] \in Nat /\ life[k] \in Nat
      BY <1>0 DEF TypeOK
    <3>. QED
      BY <1>0, <1>2, <2>1, <3>1, IncrementFacts DEF NumberOk
  <2>2. CASE q # r
    <3>1. pc'[q] = pc[q] /\ mark'[q] = mark[q] /\ mark[q].count \in Nat
      BY <1>0, <2>2, IncrementFacts DEF TypeOK
    <3>2. count[KeyOf(q)] \in Nat /\ count'[KeyOf(q)] \in Nat
          /\ count'[KeyOf(q)] >= count[KeyOf(q)]
      BY <1>0, <1>2, IncrementFacts DEF TypeOK
    <3>3. NumberOk(q)
      BY DEF IInv
    <3>. QED
      BY <1>2, <3>1, <3>2, <3>3 DEF NumberOk
  <2>. QED
    BY <2>1, <2>2
<1>4. NumbersDiffer'
  <2>1. ASSUME NEW q \in Req \ {r}, KeyOf(q) = k, mark[q].count > 0, mark[q].life = life[k]
        PROVE  mark[q].count # count[k] + 1
    BY <1>0, <2>1 DEF IInv, NumberOk, TypeOK
  <2>2. ASSUME NEW p \in Req, NEW q \in Req, p # q, KeyOf(p) = KeyOf(q),
               mark'[p].count > 0, mark'[p].life = mark'[q].life
        PROVE  mark'[p].count # mark'[q].count
    <3>1. CASE p = r
      <4>1. mark'[p].count = count[k] + 1 /\ mark'[p].life = life[k] /\ mark'[q] = mark[q]
        BY <1>0, <2>2, <3>1, IncrementFacts
      <4>. QED
        BY <1>0, <2>1, <2>2, <3>1, <4>1 DEF TypeOK
    <3>2. CASE q = r
      <4>1. mark'[q].count = count[k] + 1 /\ mark'[q].life = life[k] /\ mark'[p] = mark[p]
        BY <1>0, <2>2, <3>2, IncrementFacts
      <4>. QED
        BY <1>0, <2>1, <2>2, <3>2, <4>1 DEF TypeOK
    <3>3. CASE p # r /\ q # r
      BY <1>0, <2>2, <3>3, IncrementFacts DEF IInv, NumbersDiffer
    <3>. QED
      BY <3>1, <3>2, <3>3
  <2>. QED
    BY <1>2, <2>2 DEF NumbersDiffer
<1>5. NoGaps'
  <2>1. PICK c \in Nat : c = count[k]
    BY <1>0 DEF TypeOK
  <2>2. PICK l \in Nat : l = life[k] /\ l = life'[k]
    BY <1>0 DEF TypeOK
  <2>3. /\ HasNumber(r, KeyOf(r), l, c + 1)'
        /\ count'[k] = c + 1 /\ mark'[r].count = c + 1 /\ mark'[r].life = l /\ KeyOf(r)' = k
    BY <1>0, <1>2, <2>1, <2>2, IncrementFacts DEF HasNumber
  <2>4. ASSUME NEW q \in Req, NEW x \in Key, NEW m, NEW n \in Nat \ {0}, HasNumber(q, x, m, n)
        PROVE  HasNumber(q, x, m, n)'
    <3>1. q # r
      BY <1>0, <2>4 DEF HasNumber
    <3>. QED
      BY <1>0, <1>2, <2>4, <3>1, IncrementFacts DEF HasNumber
  <2>5. ASSUME NEW n \in 1 .. c + 1
        PROVE  \E q \in Req : HasNumber(q, KeyOf(r), l, n)'
    <3>1. CASE n = c + 1
      BY <2>3, <3>1
    <3>2. CASE n \in 1 .. c
      <4>1. PICK q \in Req : HasNumber(q, k, l, n)
        BY <1>0, <2>1, <2>2, <3>2 DEF IInv, NoGaps
      <4>. QED
        BY <1>0, <1>2, <2>4, <4>1
    <3>. QED
      BY <2>1, <3>1, <3>2
  <2>6. ASSUME NEW x \in Key, NEW n \in 1 .. count'[x]
        PROVE  \E q \in Req : HasNumber(q, x, life[x], n)'
    <3>1. CASE x = k
      BY <1>0, <1>2, <2>2, <2>3, <2>5, <3>1
    <3>2. CASE x # k
      <4>1. count'[x] = count[x] /\ life'[x] = life[x]
        BY <1>0, <3>2, IncrementFacts
      <4>2. PICK q \in Req : HasNumber(q, x, life[x], n)
        BY <4>1 DEF IInv, NoGaps
      <4>3. PICK m : m = life[x]
        OBVIOUS
      <4>4. HasNumber(q, x, m, n)'
        BY <2>4, <4>2, <4>3
      <4>. QED
        BY <4>1, <4>3, <4>4
    <3>. QED
      BY <3>1, <3>2
  <2>7. ASSUME NEW p \in Req, NEW n \in 1 .. mark'[p].count
        PROVE  \E q \in Req : HasNumber(q, KeyOf(p), mark[p].life, n)'
    <3>1. CASE p = r
      BY <2>3, <2>5, <3>1
    <3>2. CASE p # r
      <4>1. mark'[p] = mark[p] /\ KeyOf(p)' = KeyOf(p) /\ KeyOf(p) \in Key
        BY <1>0, <1>2, <3>2, IncrementFacts
      <4>2. PICK q \in Req : HasNumber(q, KeyOf(p), mark[p].life, n)
        BY <4>1 DEF IInv, NoGaps
      <4>3. PICK x \in Key : x = KeyOf(p)
        BY <4>1
      <4>4. PICK m : m = mark[p].life
        OBVIOUS
      <4>5. HasNumber(q, x, m, n)'
        BY <2>4, <4>2, <4>3, <4>4
      <4>. QED
        BY <4>1, <4>3, <4>4, <4>5
    <3>. QED
      BY <3>1, <3>2
  <2>. QED
    BY <2>6, <2>7 DEF NoGaps
<1>. QED
  BY <1>1, <1>3, <1>4, <1>5 DEF IInv

LEMMA ExecuteOk ==
    ASSUME IInv, NEW r \in Req, Execute(r) PROVE IInv'
<1>. DEFINE to == IF count'[KeyOf(r)] <= Limit[ScopeOf[r]] THEN "allowed" ELSE "refused"
<1>1. PICK t \in {"allowed", "refused"} : t = to
  OBVIOUS
<1>2. /\ pc' = [pc EXCEPT ![r] = t]
      /\ t = "allowed" => count'[KeyOf(r)] <= Limit[ScopeOf[r]]
      /\ t = "refused" => ~ (count'[KeyOf(r)] <= Limit[ScopeOf[r]])
  BY <1>1 DEF Execute
<1>3. count'[KeyOf(r)] \in Nat /\ Limit[ScopeOf[r]] \in Int
  BY IncrementFacts, KeyType DEF Execute, IInv
<1>4. t = "refused" => count'[KeyOf(r)] > Limit[ScopeOf[r]]
  BY <1>2, <1>3
<1>. HIDE DEF to
<1>. QED
  BY <1>2, <1>4, IncrementOk DEF Execute

LEMMA RedisFailsOk ==
    ASSUME IInv, NEW r \in Req, RedisFails(r) PROVE IInv'
<1>1. CASE Increment(r)
  BY <1>1, IncrementOk DEF RedisFails
<1>2. CASE UNCHANGED <<count, expires, mark>>
  <2>1. TypeOK'
    BY <1>2 DEF IInv, TypeOK, RedisFails, PC
  <2>2. \A q \in Req : NumberOk(q)'
    BY <1>2 DEF IInv, TypeOK, NumberOk, RedisFails, KeyOf
  <2>3. NumbersDiffer'
    BY <1>2 DEF IInv, NumbersDiffer, RedisFails, KeyOf
  <2>4. NoGaps'
    BY <1>2, NumbersStay DEF RedisFails, KeyOf
  <2>. QED
    BY <2>1, <2>2, <2>3, <2>4 DEF IInv
<1>. QED
  BY <1>1, <1>2 DEF RedisFails

\* A key that expires starts a new life, so its old numbers bind it no more.
LEMMA TickOk ==
    ASSUME IInv, Tick PROVE IInv'
<1>1. TypeOK'
  <2>1. now' \in Time
    BY NextSecondFacts DEF IInv, TypeOK, Tick
  <2>. QED
    BY <2>1 DEF IInv, TypeOK, Tick
<1>2. ASSUME NEW q \in Req PROVE NumberOk(q)'
  <2>. DEFINE k == KeyOf(q)
  <2>1. k \in Key /\ KeyOf(q)' = k
    BY KeyType DEF IInv, Tick, KeyOf
  <2>2. \/ life'[k] = life[k] /\ count'[k] = count[k]
        \/ life'[k] = life[k] + 1
    BY <2>1 DEF Tick
  <2>3. life[k] \in Nat /\ mark[q].life \in Nat /\ mark' = mark /\ pc' = pc
    BY <2>1 DEF IInv, TypeOK, Tick
  <2>4. NumberOk(q)
    BY DEF IInv
  <2>. QED
    BY <2>1, <2>2, <2>3, <2>4 DEF NumberOk
<1>3. NumbersDiffer'
  BY DEF IInv, NumbersDiffer, Tick, KeyOf
<1>4. NoGaps'
  BY NumbersStay DEF Tick, KeyOf
<1>. QED
  BY <1>1, <1>2, <1>3, <1>4 DEF IInv

LEMMA IInvNext == IInv /\ [Next]_vars => IInv'
<1>1. ASSUME IInv, UNCHANGED vars PROVE IInv'
  <2>1. TypeOK' /\ NumbersDiffer'
    BY <1>1 DEF IInv, TypeOK, NumbersDiffer, KeyOf, vars
  <2>2. \A r \in Req : NumberOk(r)'
    BY <1>1 DEF IInv, NumberOk, KeyOf, vars
  <2>3. NoGaps'
    BY <1>1, NumbersStay DEF vars, KeyOf
  <2>. QED
    BY <2>1, <2>2, <2>3 DEF IInv
<1>. QED
  BY <1>1, BeginOk, ExecuteOk, RedisFailsOk, TickOk DEF Next

THEOREM Invariance == Spec => []IInv
BY IInvInit, IInvNext, PTL DEF Spec

\* Every variable keeps its type in every behaviour.
THEOREM TypeCorrect == Spec => []TypeOK
<1>1. IInv => TypeOK
  BY DEF IInv
<1>. QED
  BY <1>1, Invariance, PTL

----------------------------------------------------------------------------
(* From different numbers within the limit to a bound on how many. *)

\* A set of admitted requests with different numbers fits the budget.
LEMMA BudgetBound ==
    ASSUME IInv, NEW s \in Scope, NEW S \in SUBSET Req,
           \A r \in S : pc[r] = "allowed" /\ ScopeOf[r] = s,
           \A r, q \in S : r # q => mark[r].count # mark[q].count
    PROVE  IsFiniteSet(S) /\ Cardinality(S) <= Budget(s)
<1>. DEFINE T == 1 .. Limit[s]
            f == [r \in S |-> mark[r].count]
<1>1. Limit[s] \in Int
  BY ScopeAssumption
<1>2. \A r \in S : mark[r].count \in T
  BY <1>1 DEF IInv, TypeOK, NumberOk
<1>3. f \in Injection(S, T)
  BY <1>2 DEF Injection, IsInjective
<1>4. IsFiniteSet(T) /\ Cardinality(T) = Budget(s)
  <2>0. PICK n \in Int : n = Limit[s]
    BY <1>1
  <2>1. IsFiniteSet(1 .. n) /\ Cardinality(1 .. n) = IF 1 > n THEN 0 ELSE n - 1 + 1
    BY FS_Interval
  <2>. QED
    BY <2>0, <2>1 DEF Budget
<1>. HIDE DEF f, T
<1>. QED
  BY <1>3, <1>4, FS_Injection

LEMMA LifetimeFits ==
    ASSUME IInv PROVE LifetimeBudget
<1>1. ASSUME NEW k \in Key, NEW l \in 0 .. life[k]
      PROVE  Cardinality({r \in Admitted(k) : mark[r].life = l}) <= Budget(k[1])
  <2>. DEFINE S == {r \in Admitted(k) : mark[r].life = l}
  <2>1. S \in SUBSET Req /\ k[1] \in Scope
    BY DEF Admitted, Key
  <2>2. \A r \in S : pc[r] = "allowed" /\ ScopeOf[r] = k[1]
    BY DEF Admitted, KeyOf
  <2>3. \A r, q \in S : r # q => mark[r].count # mark[q].count
    BY DEF Admitted, IInv, NumbersDiffer, NumberOk
  <2>. HIDE DEF S
  <2>4. Cardinality(S) <= Budget(k[1])
    BY <2>1, <2>2, <2>3, BudgetBound
  <2>. QED
    BY <2>4 DEF S
<1>. QED
  BY <1>1 DEF LifetimeBudget

\* No life of a counter ever lets through more than the limit: for any number
\* of machines and requests, any delays and any lost replies.
THEOREM BudgetPerLifetime == Spec => []LifetimeBudget
BY Invariance, LifetimeFits, PTL

----------------------------------------------------------------------------
(* Nobody is refused early. *)

\* Those who were counted before r, by the same life of its counter.
Before(r) == {q \in Req : /\ KeyOf(q) = KeyOf(r) /\ mark[q].life = mark[r].life
                          /\ 0 < mark[q].count /\ mark[q].count < mark[r].count}

LEMMA BeforeIsFinite ==
    ASSUME IInv, NEW r \in Req PROVE IsFiniteSet(Before(r))
<1>. DEFINE f == [q \in Before(r) |-> mark[q].count]
<1>1. PICK number \in Nat : number = mark[r].count
  BY DEF IInv, TypeOK
<1>2. \A q \in Before(r) : mark[q].count \in 1 .. number
  BY <1>1 DEF Before, IInv, TypeOK
<1>3. f \in Injection(Before(r), 1 .. number)
  BY <1>2 DEF Before, Injection, IsInjective, IInv, NumbersDiffer
<1>4. IsFiniteSet(1 .. number)
  BY FS_Interval
<1>. HIDE DEF f
<1>. QED
  BY <1>3, <1>4, FS_Injection

LEMMA RefusalsFit ==
    ASSUME IInv PROVE RefusedOverBudget
<1> SUFFICES ASSUME NEW r \in Req, pc[r] = "refused", Limit[ScopeOf[r]] > 0
             PROVE  Limit[ScopeOf[r]] <= Cardinality(Before(r))
  BY DEF RefusedOverBudget, Before
<1>1. PICK limit \in Nat, number \in Nat : limit = Limit[ScopeOf[r]] /\ number = mark[r].count
  BY KeyType DEF IInv, TypeOK
<1>2. limit < number
  BY <1>1 DEF IInv, NumberOk
<1>3. IsFiniteSet(Before(r))
  BY BeforeIsFinite
<1>4. \A n \in 1 .. limit : \E q \in Before(r) : mark[q].count = n
  <2>1. ASSUME NEW n \in 1 .. limit PROVE \E q \in Before(r) : mark[q].count = n
    <3>1. n \in 1 .. mark[r].count /\ 0 < n /\ n < mark[r].count
      BY <1>1, <1>2
    <3>2. PICK q \in Req : HasNumber(q, KeyOf(r), mark[r].life, n)
      BY <3>1 DEF IInv, NoGaps
    <3>. QED
      BY <3>1, <3>2 DEF HasNumber, Before
  <2>. QED
    BY <2>1
<1>5. limit <= Cardinality(Before(r))
  <2>. DEFINE g == [n \in 1 .. limit |-> CHOOSE q \in Before(r) : mark[q].count = n]
  <2>1. \A n \in 1 .. limit : g[n] \in Before(r) /\ mark[g[n]].count = n
    BY <1>4
  <2>2. g \in Injection(1 .. limit, Before(r))
    BY <2>1 DEF Injection, IsInjective
  <2>3. Cardinality(1 .. limit) = limit
    BY FS_Interval
  <2>. HIDE DEF g
  <2>. QED
    BY <1>3, <2>2, <2>3, FS_Injection
<1>. QED
  BY <1>1, <1>5

\* Whoever is refused came after as many others as the limit, counted against the
\* same life of the same counter: no lost reply and no expiry makes a number skip.
THEOREM RefusalsAreEarned == Spec => []RefusedOverBudget
BY Invariance, RefusalsFit, PTL

----------------------------------------------------------------------------
(* The budget of a window, for the requests counted within it. *)

LEMMA PunctualInit == Init => PunctualInv
BY DEF Init, PunctualInv

LEMMA PunctualIncrement ==
    ASSUME IInv, PunctualInv, NEW r \in Req, pc[r] = "pending", Increment(r),
           UNCHANGED <<now, window, life>>,
           \A q \in Req : pc'[q] = "pending" => pc[q] = "pending"
    PROVE  PunctualInv'
<1>. USE DEF PunctualInv
<1>1. TypeOK /\ KeyOf(r) \in Key /\ KeyOf(r)[2] = window[r] /\ window[r] <= now.win
  BY KeyType DEF IInv, KeyOf
<1>2. now.win \in Nat /\ window[r] \in Nat
  BY <1>1, WindowAssumption DEF TypeOK, Time, Window
<1>3. window[r] = now.win => life[KeyOf(r)] = 0
  BY <1>1, <1>2 DEF TypeOK
<1>4. \A q \in Req : mark'[q].count > 0 /\ Punctual(q)' => mark'[q].life = 0
  <2>1. mark'[r].at = now
    BY <1>1 DEF TypeOK, Increment
  <2>. QED
    BY <1>1, <1>3, <2>1, IncrementFacts DEF Punctual
<1>5. \A k \in Key : count'[k] > 0 => expires'[k].win > k[2]
  BY <1>1, <1>2, IncrementFacts
<1>. QED
  BY <1>4, <1>5

LEMMA PunctualNext ==
    ASSUME IInv, PunctualInv, [Next]_vars PROVE PunctualInv'
<1>. USE DEF PunctualInv
<1>1. ASSUME NEW r \in Req, Begin(r) PROVE PunctualInv'
  <2>1. now.win \in Nat /\ mark[r].count = 0
    BY <1>1 DEF Begin, IInv, TypeOK, Time, NumberOk
  <2>. QED
    BY <1>1, <2>1 DEF Begin, IInv, TypeOK, Punctual
<1>2. ASSUME NEW r \in Req, Execute(r) PROVE PunctualInv'
  <2>1. \A q \in Req : pc'[q] = "pending" => pc[q] = "pending"
    BY <1>2 DEF Execute, IInv, TypeOK
  <2>. QED
    BY <1>2, <2>1, PunctualIncrement DEF Execute
<1>3. ASSUME NEW r \in Req, RedisFails(r) PROVE PunctualInv'
  <2>1. \A q \in Req : pc'[q] = "pending" => pc[q] = "pending"
    BY <1>3 DEF RedisFails, IInv, TypeOK
  <2>2. CASE Increment(r)
    BY <1>3, <2>1, <2>2, PunctualIncrement DEF RedisFails
  <2>3. CASE UNCHANGED <<count, expires, mark>>
    BY <1>3, <2>1, <2>3 DEF RedisFails, Punctual
  <2>. QED
    BY <1>3, <2>2, <2>3 DEF RedisFails
<1>4. ASSUME Tick PROVE PunctualInv'
  <2>1. now'.win >= now.win /\ now'.win \in Nat /\ now.win \in Nat
    BY <1>4, NextSecondFacts DEF Tick, IInv, TypeOK, Time
  <2>2. \A r \in Req : window[r] \in Nat
    BY WindowAssumption DEF IInv, TypeOK, Window
  <2>3. ASSUME NEW k \in Key PROVE life'[k] > 0 => now'.win > k[2]
    <3>1. k[2] \in Nat
      BY WindowAssumption DEF Key, Window
    <3>2. CASE life'[k] = life[k]
      BY <2>1, <3>1, <3>2
    <3>3. CASE life'[k] # life[k]
      <4>1. count[k] > 0 /\ expires[k] = now'
        BY <1>4, <3>3 DEF Tick
      <4>. QED
        BY <4>1
    <3>. QED
      BY <3>2, <3>3
  <2>4. \A k \in Key : count'[k] > 0 => expires'[k].win > k[2]
    BY <1>4 DEF Tick
  <2>5. \A r \in Req : pc'[r] = "pending" => window'[r] <= now'.win
    BY <1>4, <2>1, <2>2 DEF Tick
  <2>6. \A r \in Req : mark'[r].count > 0 /\ Punctual(r)' => mark'[r].life = 0
    BY <1>4 DEF Tick, Punctual
  <2>. QED
    BY <2>3, <2>4, <2>5, <2>6
<1>5. ASSUME UNCHANGED vars PROVE PunctualInv'
  BY <1>5 DEF vars, Punctual
<1>. QED
  BY <1>1, <1>2, <1>3, <1>4, <1>5 DEF Next

LEMMA PunctualFits ==
    ASSUME IInv, PunctualInv PROVE PunctualWindowBudget
<1>1. ASSUME NEW k \in Key
      PROVE  Cardinality({r \in Admitted(k) : Punctual(r)}) <= Budget(k[1])
  <2>. DEFINE S == {r \in Admitted(k) : Punctual(r)}
  <2>1. S \in SUBSET Req /\ k[1] \in Scope
    BY DEF Admitted, Key
  <2>2. \A r \in S : pc[r] = "allowed" /\ ScopeOf[r] = k[1]
    BY DEF Admitted, KeyOf
  <2>3. \A r, q \in S : r # q => mark[r].count # mark[q].count
    BY DEF Admitted, IInv, PunctualInv, NumbersDiffer, NumberOk
  <2>. HIDE DEF S
  <2>4. Cardinality(S) <= Budget(k[1])
    BY <2>1, <2>2, <2>3, BudgetBound
  <2>. QED
    BY <2>4 DEF S
<1>. QED
  BY <1>1 DEF PunctualWindowBudget

\* A window lets through at most the limit of the requests counted within it,
\* whatever stragglers of other windows do.
THEOREM BudgetPerWindow == Spec => []PunctualWindowBudget
<1>1. IInv /\ PunctualInv /\ [Next]_vars => PunctualInv'
  BY PunctualNext
<1>2. IInv /\ PunctualInv => PunctualWindowBudget
  BY PunctualFits
<1>. QED
  BY PunctualInit, Invariance, <1>1, <1>2, PTL DEF Spec
----------------------------------------------------------------------------
(* What a stretch as long as a window lets through. *)

\* Times are ordered, and a window later is a window later.
LEMMA TimesAreOrdered ==
    /\ \A t \in Time : NotAfter(t, t) /\ WindowLater(t) \in Time
    /\ \A s, t \in Time : NotAfter(s, t) => NotAfter(WindowLater(s), WindowLater(t))
    /\ \A s, t, u \in Time : NotAfter(s, t) /\ NotAfter(t, u) => NotAfter(s, u)
<1>1. \A t \in Time : /\ WindowLater(t) \in Time
                      /\ WindowLater(t).win = t.win + 1 /\ WindowLater(t).off = t.off
  BY DEF WindowLater, Time
<1>2. \A t \in Time : t.win \in Nat /\ t.off \in Nat
  BY DEF Time
<1>. QED
  BY <1>1, <1>2 DEF NotAfter

LEMMA TimesOf ==
    ASSUME TypeOK
    PROVE  /\ now \in Time /\ \A k \in Key : expires[k] \in Time
           /\ \A r \in Req : mark[r].at \in Time /\ mark[r].count \in Nat /\ mark[r].life \in Nat
           /\ \A k \in Key : life[k] \in Nat
BY DEF TypeOK

\* A second takes the clock forward.
LEMMA SecondFacts ==
    ASSUME now \in Time
    PROVE  /\ NextSecond \in Time /\ NotAfter(now, NextSecond)
           /\ WindowSeconds > 0 => NextSecond.off < WindowSeconds
           /\ \/ NextSecond.win = now.win
              \/ NextSecond.win = now.win + 1 /\ NextSecond.off = 0
<1>1. now.win \in Nat /\ now.off \in Nat
  BY DEF Time
<1>2. CASE now.off + 1 < WindowSeconds
  <2>1. NextSecond = [now EXCEPT !.off = @ + 1]
    BY <1>2 DEF NextSecond
  <2>2. NextSecond \in Time /\ NextSecond.win = now.win /\ NextSecond.off = now.off + 1
    BY <2>1 DEF Time
  <2>. QED
    BY <1>1, <1>2, <2>2, WindowAssumption DEF NotAfter
<1>3. CASE ~ (now.off + 1 < WindowSeconds)
  <2>1. NextSecond = [win |-> now.win + 1, off |-> 0]
    BY <1>3 DEF NextSecond
  <2>2. NextSecond \in Time /\ NextSecond.win = now.win + 1 /\ NextSecond.off = 0
    BY <1>1, <2>1 DEF Time
  <2>. QED
    BY <1>1, <2>2, WindowAssumption DEF NotAfter
<1>. QED
  BY <1>2, <1>3

LEMMA SpacedIncrement ==
    ASSUME IInv, SpacedInv, NEW r \in Req, pc[r] = "pending", Increment(r),
           UNCHANGED <<now, window, life>>
    PROVE  SpacedInv'
<1>. DEFINE k == KeyOf(r)
<1>0. /\ TypeOK /\ k \in Key /\ mark[r].count = 0
      /\ \A q \in Req : KeyOf(q)' = KeyOf(q) /\ KeyOf(q) \in Key
  BY KeyType DEF IInv, NumberOk, KeyOf
<1>1. /\ mark'[r].at = now /\ mark'[r].life = life[k] /\ expires'[k] = WindowLater(now)
      /\ \A q \in Req \ {r} : mark'[q] = mark[q]
      /\ \A x \in Key \ {k} : expires'[x] = expires[x]
  BY <1>0, IncrementFacts
<1>2. ASSUME NEW q \in Req, mark'[q].count > 0
      PROVE  /\ NotAfter(mark'[q].at, now)
             /\ IF mark'[q].life = life[KeyOf(q)]
                THEN NotAfter(WindowLater(mark'[q].at), expires'[KeyOf(q)])
                ELSE NotAfter(WindowLater(mark'[q].at), now)
  <2>1. CASE q = r
    BY <1>0, <1>1, <2>1, TimesOf, TimesAreOrdered
  <2>2. CASE q # r /\ KeyOf(q) # k
    BY <1>0, <1>1, <1>2, <2>2 DEF SpacedInv
  <2>3. CASE q # r /\ KeyOf(q) = k
    <3>1. mark'[q] = mark[q] /\ NotAfter(mark[q].at, now)
      BY <1>1, <1>2, <2>3 DEF SpacedInv
    <3>2. NotAfter(WindowLater(mark[q].at), WindowLater(now))
      BY <1>0, <3>1, TimesOf, TimesAreOrdered
    <3>. QED
      BY <1>1, <1>2, <2>3, <3>1, <3>2 DEF SpacedInv
  <2>. QED
    BY <2>1, <2>2, <2>3
<1>3. ASSUME NEW p \in Req, NEW q \in Req, mark'[p].count > 0, mark'[q].count > 0,
             KeyOf(p) = KeyOf(q), mark'[q].life < mark'[p].life
      PROVE  NotAfter(WindowLater(mark'[q].at), mark'[p].at)
  <2>1. CASE p = r
    <3>1. q # r /\ mark'[q] = mark[q] /\ mark[q].life # life[KeyOf(q)]
      BY <1>0, <1>1, <1>3, <2>1, TimesOf
    <3>. QED
      BY <1>1, <1>3, <2>1, <3>1 DEF SpacedInv
  <2>2. CASE p # r /\ q = r
    <3>1. mark'[p] = mark[p] /\ mark[p].life <= life[KeyOf(p)]
      BY <1>1, <1>3, <2>2 DEF IInv, NumberOk
    <3>. QED
      BY <1>0, <1>1, <1>3, <2>2, <3>1, TimesOf
  <2>3. CASE p # r /\ q # r
    BY <1>1, <1>3, <2>3 DEF SpacedInv
  <2>. QED
    BY <2>1, <2>2, <2>3
<1>. QED
  BY <1>0, <1>2, <1>3 DEF SpacedInv

LEMMA SpacedTick ==
    ASSUME IInv, SpacedInv, Tick PROVE SpacedInv'
<1>0. /\ TypeOK /\ now' = NextSecond /\ mark' = mark /\ expires' = expires
      /\ \A q \in Req : KeyOf(q)' = KeyOf(q) /\ KeyOf(q) \in Key
  BY KeyType DEF IInv, Tick, KeyOf
<1>1. now \in Time /\ now' \in Time /\ NotAfter(now, now')
  BY <1>0, SecondFacts, TimesOf
<1>2. ASSUME NEW q \in Req, mark[q].count > 0
      PROVE  /\ NotAfter(mark[q].at, now')
             /\ IF mark[q].life = life'[KeyOf(q)]
                THEN NotAfter(WindowLater(mark[q].at), expires[KeyOf(q)])
                ELSE NotAfter(WindowLater(mark[q].at), now')
  <2>. DEFINE k == KeyOf(q)
  <2>1. mark[q].at \in Time /\ WindowLater(mark[q].at) \in Time /\ k \in Key
    BY <1>0, TimesOf, TimesAreOrdered
  <2>2. NotAfter(mark[q].at, now')
    BY <1>1, <1>2, <2>1, TimesAreOrdered DEF SpacedInv
  <2>3. CASE life'[k] = life[k]
    BY <1>1, <1>2, <2>1, <2>2, <2>3, TimesAreOrdered DEF SpacedInv
  <2>4. CASE life'[k] # life[k]
    <3>1. expires[k] = now' /\ life'[k] = life[k] + 1
      BY <2>1, <2>4 DEF Tick
    <3>2. mark[q].life <= life[k] /\ mark[q].life \in Nat /\ life[k] \in Nat
      BY <1>0, <1>2, <2>1, TimesOf DEF IInv, NumberOk
    <3>3. mark[q].life # life'[k]
      BY <3>1, <3>2
    <3>4. NotAfter(WindowLater(mark[q].at), now')
      BY <1>1, <1>2, <2>1, <3>1, TimesAreOrdered DEF SpacedInv
    <3>. QED
      BY <2>2, <3>3, <3>4
  <2>. QED
    BY <2>3, <2>4
<1>. QED
  BY <1>0, <1>2 DEF SpacedInv

LEMMA SpacedNext ==
    ASSUME IInv, SpacedInv, [Next]_vars PROVE SpacedInv'
<1>1. ASSUME mark' = mark, UNCHANGED <<now, expires, life>>,
             \A q \in Req : mark[q].count > 0 => KeyOf(q)' = KeyOf(q)
      PROVE  SpacedInv'
  BY <1>1 DEF SpacedInv
<1>2. ASSUME NEW r \in Req, Begin(r) PROVE SpacedInv'
  <2>1. mark[r].count = 0 /\ \A q \in Req \ {r} : KeyOf(q)' = KeyOf(q)
    BY <1>2 DEF IInv, TypeOK, NumberOk, Begin, KeyOf
  <2>. QED
    BY <1>1, <1>2, <2>1 DEF Begin
<1>3. ASSUME NEW r \in Req, Execute(r) PROVE SpacedInv'
  BY <1>3, SpacedIncrement DEF Execute
<1>4. ASSUME NEW r \in Req, RedisFails(r) PROVE SpacedInv'
  <2>1. CASE Increment(r)
    BY <1>4, <2>1, SpacedIncrement DEF RedisFails
  <2>2. CASE UNCHANGED <<count, expires, mark>>
    BY <1>1, <1>4, <2>2 DEF RedisFails, KeyOf
  <2>. QED
    BY <1>4, <2>1, <2>2 DEF RedisFails
<1>5. ASSUME UNCHANGED vars PROVE SpacedInv'
  BY <1>1, <1>5 DEF vars, KeyOf
<1>. QED
  BY <1>2, <1>3, <1>4, <1>5, SpacedTick DEF Next

LEMMA ClockNext ==
    ASSUME IInv, ClockInv, [Next]_vars PROVE ClockInv'
<1>1. TypeOK
  BY DEF IInv
<1>2. ASSUME NEW r \in Req, Execute(r) \/ RedisFails(r) PROVE ClockInv'
  <2>1. /\ now' = now
        /\ \A q \in Req : mark'[q].at = mark[q].at \/ mark'[q].at = now
    BY <1>1, <1>2 DEF Execute, RedisFails, Increment, TypeOK
  <2>. QED
    BY <2>1 DEF ClockInv
<1>3. CASE Tick
  <2>1. now \in Time /\ now' = NextSecond /\ mark' = mark
    BY <1>1, <1>3 DEF Tick, TypeOK
  <2>. QED
    BY <2>1, SecondFacts DEF ClockInv
<1>4. CASE UNCHANGED <<now, mark>>
  BY <1>4 DEF ClockInv
<1>. QED
  BY <1>2, <1>3, <1>4 DEF Next, Begin, vars

\* When counters expire and commands arrive: the invariant behind the budgets of a
\* window and of a stretch as long as one.
THEOREM TimingInvariance == Spec => []TimingInv
<1>1. Init => TimingInv
  BY PunctualInit DEF Init, TimingInv, SpacedInv, ClockInv
<1>2. IInv /\ TimingInv /\ [Next]_vars => TimingInv'
  BY PunctualNext, SpacedNext, ClockNext DEF TimingInv
<1>. QED
  BY <1>1, <1>2, Invariance, PTL DEF Spec

\* Of two times that are a window apart, the seconds are.
LEMMA WindowOfSeconds ==
    ASSUME NEW s \in Time, NEW t \in Time, s.off < WindowSeconds, NotAfter(WindowLater(s), t)
    PROVE  Seconds(s) + WindowSeconds <= Seconds(t)
<1>1. PICK W \in Nat : W = WindowSeconds
  BY WindowAssumption
<1>2. PICK a \in Nat, b \in Nat, i \in Nat, j \in Nat :
        a = s.win /\ b = t.win /\ i = s.off /\ j = t.off
  BY DEF Time
<1>3. (a + 1 = b /\ i <= j) \/ a + 1 < b
  <2>1. WindowLater(s).win = a + 1 /\ WindowLater(s).off = i
    BY <1>2 DEF WindowLater, Time
  <2>. QED
    BY <1>2, <2>1 DEF NotAfter
<1>4. Seconds(s) = a * W + i /\ Seconds(t) = b * W + j /\ i < W
  BY <1>1, <1>2 DEF Seconds
<1>5. PICK d \in Nat : b = a + 1 + d
  <2>1. b - (a + 1) \in Nat /\ b = a + 1 + (b - (a + 1))
    BY <1>3
  <2>. QED
    BY <2>1
<1>6. b * W = a * W + W + d * W
  BY <1>5
<1>7. a * W \in Nat /\ d * W \in Nat /\ (d >= 1 => d * W >= W)
  <2>1. \A m, n \in Nat : m * n \in Nat
    OBVIOUS
  <2>2. CASE d = 0
    BY <2>1, <2>2
  <2>3. CASE d >= 1
    <3>1. d - 1 \in Nat /\ d * W = (d - 1) * W + W
      BY <2>3
    <3>2. (d - 1) * W \in Nat
      BY <2>1, <3>1
    <3>. QED
      BY <2>1, <3>1, <3>2
  <2>. QED
    BY <2>2, <2>3
<1>. QED
  BY <1>1, <1>3, <1>4, <1>5, <1>6, <1>7

\* In a stretch as long as a window, requests of one counter met one life of it.
LEMMA StretchesFit ==
    ASSUME IInv, TimingInv PROVE StretchBudget
<1> SUFFICES ASSUME NEW k \in Key, NEW t \in 0 .. (Horizon * WindowSeconds)
             PROVE  Cardinality({r \in Admitted(k) :
                        Seconds(mark[r].at) \in t .. (t + WindowSeconds - 1)}) <= Budget(k[1])
  BY DEF StretchBudget, Stretches
<1>. DEFINE S == {r \in Admitted(k) : Seconds(mark[r].at) \in t .. (t + WindowSeconds - 1)}
<1>1. \A r, q \in S : ~ (Seconds(mark[r].at) + WindowSeconds <= Seconds(mark[q].at))
  <2>1. t \in Int /\ WindowSeconds \in Int
    BY WindowAssumption
  <2>2. ASSUME NEW a \in t .. (t + WindowSeconds - 1), NEW b \in t .. (t + WindowSeconds - 1)
        PROVE  ~ (a + WindowSeconds <= b)
    BY <2>1
  <2>. QED
    BY <2>2
<1>2. \A r \in S : /\ r \in Req /\ pc[r] = "allowed" /\ KeyOf(r) = k /\ ScopeOf[r] = k[1]
                   /\ mark[r].count > 0 /\ mark[r].life \in Nat /\ mark[r].at \in Time
  BY TimesOf DEF Admitted, KeyOf, IInv, NumberOk
<1>. HIDE DEF S
<1>3. \A r \in S : mark[r].at.off < WindowSeconds
  <2> SUFFICES ASSUME NEW r \in S PROVE mark[r].at.off < WindowSeconds
    OBVIOUS
  <2>1. WindowSeconds > 0
    <3>1. Seconds(mark[r].at) \in Nat
      BY <1>2, WindowAssumption DEF Seconds, Time
    <3>. QED
      BY <1>1, <3>1, WindowAssumption
  <2>. QED
    BY <1>2, <2>1 DEF TimingInv, ClockInv
<1>4. \A r, q \in S : ~ (mark[r].life < mark[q].life)
  BY <1>1, <1>2, <1>3, WindowOfSeconds DEF TimingInv, SpacedInv
<1>5. \A r, q \in S : mark[r].life = mark[q].life
  BY <1>2, <1>4
<1>6. \A r, q \in S : r # q => mark[r].count # mark[q].count
  BY <1>2, <1>5 DEF IInv, NumbersDiffer
<1>7. S \in SUBSET Req /\ k[1] \in Scope
  BY <1>2 DEF Key
<1>8. Cardinality(S) <= Budget(k[1])
  BY <1>2, <1>6, <1>7, BudgetBound
<1>. QED
  BY <1>8 DEF S

\* No stretch as long as a window lets through more than the limit of the requests of
\* one window: for any number of requests and machines, however late their commands
\* reach Redis, and whatever replies are lost.
THEOREM BudgetPerStretch == Spec => []StretchBudget
<1>1. IInv /\ TimingInv => StretchBudget
  BY StretchesFit
<1>. QED
  BY <1>1, Invariance, TimingInvariance, PTL
=============================================================================
