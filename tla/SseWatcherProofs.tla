-------------------------- MODULE SseWatcherProofs --------------------------
(***************************************************************************)
(* Lemmas about SseWatcher for every cap, every body and every chunking:   *)
(* what feed's loop preserves, where it stops, and that the watcher knows  *)
(* of each complete event what Observes asks of it.                        *)
(*                                                                         *)
(* The loop is a function defined by its own value elsewhere.  LoopExists  *)
(* shows that there is such a function, LoopStep that it unfolds, and      *)
(* LoopKeeps, by the smallest counterexample, that a set of watchers which *)
(* consuming an event does not leave is not left by the loop either.       *)
(***************************************************************************)
EXTENDS SseWatcher, WellFoundedInduction, TLAPS

\* A set of natural numbers that is not empty has a smallest member.
LEMMA Smallest ==
    ASSUME NEW S \in SUBSET Nat, S # {}
    PROVE  Min(S) \in S /\ \A m \in S : Min(S) <= m
<1>1. PICK n \in S : \A m \in S : ~ (<<m, n>> \in OpToRel(<, Nat))
  BY NatLessThanWellFounded, WFMin
<1>2. \A m \in S : ~ (m < n)
  BY <1>1 DEF OpToRel
<1>3. \A m \in S : n <= m
  BY <1>2
<1> QED
  BY <1>1, <1>3 DEF Min

\* And a largest, if it is bounded.
LEMMA Largest ==
    ASSUME NEW S \in SUBSET Nat, S # {}, NEW bound \in Nat, \A m \in S : m <= bound
    PROVE  Max(S) \in S /\ \A m \in S : m <= Max(S)
<1> DEFINE Gaps == {bound - m : m \in S}
<1>1. Gaps \in SUBSET Nat /\ Gaps # {}
  <2>1. \A m \in S : bound - m \in Nat
    OBVIOUS
  <2> QED
    BY <2>1
<1>2. Min(Gaps) \in Gaps /\ \A g \in Gaps : Min(Gaps) <= g
  <2> HIDE DEF Gaps
  <2> QED
    BY <1>1, Smallest
<1>3. PICK n \in S : Min(Gaps) = bound - n
  BY <1>2
<1>4. ASSUME NEW m \in S PROVE n >= m
  <2>1. bound - n <= bound - m
    BY <1>2, <1>3
  <2>2. m \in Nat /\ n \in Nat
    OBVIOUS
  <2> QED
    BY <2>1, <2>2
<1> QED
  BY <1>3, <1>4 DEF Max

----------------------------------------------------------------------------
(* The loop of feed. *)

Cut(w)  == Min(Delimiters(w.residual))
Rest(w) == [Consume(w, SubSeq(w.residual, 1, Cut(w) - 1))
              EXCEPT !.residual = SubSeq(w.residual, Cut(w) + 2, Len(w.residual))]

Whole(w) == Delimiters(w.residual) = {}

IsLoop(f) == f = [w \in Watcher |-> IF Whole(w) THEN w ELSE f[Rest(w)]]

LEMMA LoopIsChosen == ConsumeEvents = CHOOSE f : IsLoop(f)
BY DEF ConsumeEvents, IsLoop, Whole, Rest, Cut

LEMMA Residual ==
    ASSUME NEW w \in Watcher
    PROVE  /\ w.residual \in Seq(Byte) /\ Len(w.residual) \in Nat
           /\ w.usage_envelope \in UsageValue \cup {NoUsage} /\ w.ttft \in BOOLEAN
BY DEF Watcher

\* The first delimiter.
LEMMA FirstCut ==
    ASSUME NEW w \in Watcher, ~Whole(w)
    PROVE  /\ Cut(w) \in 1..(Len(w.residual) - 1)
           /\ w.residual[Cut(w)] = "nl" /\ w.residual[Cut(w) + 1] = "nl"
           /\ \A i \in 1..(Cut(w) - 1) : ~(w.residual[i] = "nl" /\ w.residual[i + 1] = "nl")
<1> DEFINE text == w.residual
           D    == Delimiters(text)
<1>1. text \in Seq(Byte) /\ Len(text) \in Nat
  BY Residual
<1>2. D \in SUBSET Nat /\ D # {} /\ Cut(w) = Min(D)
  BY <1>1 DEF Delimiters, Whole, Cut
<1>3. Cut(w) \in D /\ \A i \in D : Cut(w) <= i
  <2> HIDE DEF D
  <2> QED
    BY <1>2, Smallest
<1> HIDE DEF text
<1>4. \A i \in Nat : i \in D <=> i \in 1..(Len(text) - 1) /\ text[i] = "nl" /\ text[i + 1] = "nl"
  BY <1>1 DEF Delimiters
<1>5. Cut(w) \in 1..(Len(text) - 1) /\ text[Cut(w)] = "nl" /\ text[Cut(w) + 1] = "nl"
  BY <1>2, <1>3, <1>4
<1>6. ASSUME NEW i \in 1..(Cut(w) - 1), text[i] = "nl", text[i + 1] = "nl" PROVE FALSE
  <2>1. i \in D
    BY <1>1, <1>4, <1>5, <1>6
  <2> QED
    BY <1>3, <1>5, <2>1
<1> QED
  BY <1>5, <1>6 DEF text

LEMMA Consumed ==
    ASSUME NEW w \in Watcher, NEW event \in Seq(Byte)
    PROVE  LET reports == {s \in LineSpans(event) : ReportsUsage(event, s)}
               ends    == {s[2] : s \in reports}
           IN  /\ Consume(w, event) \in Watcher
               /\ reports = {} => Consume(w, event).usage_envelope = w.usage_envelope
               /\ reports # {} => \E s \in reports :
                     /\ Consume(w, event).usage_envelope = event[s[2]]
                     /\ \A t \in reports : t[2] <= s[2]
               /\ Consume(w, event).ttft
                     = (w.ttft \/ \E s \in LineSpans(event) : HasContentDelta(event, s))
<1> DEFINE reports == {s \in LineSpans(event) : ReportsUsage(event, s)}
           ends    == {s[2] : s \in reports}
           usage   == IF reports = {} THEN w.usage_envelope ELSE event[Max(ends)]
           ttft    == w.ttft \/ \E s \in LineSpans(event) : HasContentDelta(event, s)
<1>1. Len(event) \in Nat
  OBVIOUS
<1>2. ends \in SUBSET Nat /\ \A n \in ends : n <= Len(event)
  <2>1. \A s \in reports : s[2] \in 1..Len(event)
    BY DEF LineSpans
  <2> QED
    BY <1>1, <2>1
<1>3. reports # {} => Max(ends) \in ends /\ \A n \in ends : n <= Max(ends)
  <2>1. reports # {} => ends # {}
    OBVIOUS
  <2> HIDE DEF ends, reports
  <2> QED
    BY <1>1, <1>2, <2>1, Largest
<1>4. reports # {} => \E s \in reports : /\ s[2] = Max(ends) /\ event[s[2]] \in UsageValue
                                         /\ \A t \in reports : t[2] <= s[2]
  <2> SUFFICES ASSUME reports # {}
               PROVE  \E s \in reports : /\ s[2] = Max(ends) /\ event[s[2]] \in UsageValue
                                         /\ \A t \in reports : t[2] <= s[2]
    OBVIOUS
  <2>1. PICK s \in reports : s[2] = Max(ends)
    BY <1>3
  <2>2. event[s[2]] \in UsageValue
    BY DEF ReportsUsage
  <2>3. \A t \in reports : t[2] <= s[2]
    BY <1>3, <2>1
  <2> QED
    BY <2>1, <2>2, <2>3
<1>5. Consume(w, event) = [w EXCEPT !.usage_envelope = usage, !.ttft = ttft]
  BY DEF Consume
<1>6. usage \in UsageValue \cup {NoUsage} /\ ttft \in BOOLEAN
  <2>1. usage \in UsageValue \cup {NoUsage}
    BY <1>4, Residual
  <2>2. ttft \in BOOLEAN
    OBVIOUS
  <2> QED
    BY <2>1, <2>2
<1> HIDE DEF ends, ttft, reports
<1>7. Consume(w, event) = [residual |-> w.residual, usage_envelope |-> usage, ttft |-> ttft]
  BY <1>5 DEF Watcher
<1>8. Consume(w, event) \in Watcher
  BY <1>6, <1>7, Residual DEF Watcher
<1>9. Consume(w, event).usage_envelope = usage /\ Consume(w, event).ttft = ttft
  BY <1>7
<1>10. reports # {} => \E s \in reports : /\ Consume(w, event).usage_envelope = event[s[2]]
                                         /\ \A t \in reports : t[2] <= s[2]
  BY <1>4, <1>9
<1>11. reports = {} => Consume(w, event).usage_envelope = w.usage_envelope
  BY <1>9
<1> HIDE DEF usage
<1> QED
  BY <1>8, <1>9, <1>10, <1>11 DEF ttft, reports

\* What is left of a watcher's text is shorter.
LEMMA RestIsShorter ==
    ASSUME NEW w \in Watcher, ~Whole(w)
    PROVE  /\ Rest(w) \in Watcher
           /\ Len(Rest(w).residual) \in Nat
           /\ Len(Rest(w).residual) < Len(w.residual)
           /\ LET event == SubSeq(w.residual, 1, Cut(w) - 1)
              IN  /\ event \in Seq(Byte)
                  /\ Rest(w).residual = SubSeq(w.residual, Cut(w) + 2, Len(w.residual))
                  /\ Rest(w).usage_envelope = Consume(w, event).usage_envelope
                  /\ Rest(w).ttft = Consume(w, event).ttft
<1> DEFINE event == SubSeq(w.residual, 1, Cut(w) - 1)
           rest  == SubSeq(w.residual, Cut(w) + 2, Len(w.residual))
           after == Consume(w, event)
<1>1. w.residual \in Seq(Byte) /\ Len(w.residual) \in Nat /\ Cut(w) \in 1..(Len(w.residual) - 1)
  BY Residual, FirstCut
<1>2. event \in Seq(Byte)
  BY <1>1
<1>3. rest \in Seq(Byte) /\ Len(rest) = Len(w.residual) - Cut(w) - 1
  BY <1>1
<1>4. after \in Watcher
  BY <1>2, Consumed
<1>5. Rest(w) = [after EXCEPT !.residual = rest]
  BY DEF Rest
<1> HIDE DEF event, rest, after
<1>6. /\ Rest(w) \in Watcher /\ Rest(w).residual = rest
      /\ Rest(w).usage_envelope = after.usage_envelope /\ Rest(w).ttft = after.ttft
  BY <1>3, <1>4, <1>5 DEF Watcher
<1> QED
  BY <1>1, <1>2, <1>3, <1>6 DEF event, rest, after

\* Such a loop exists: what it makes of a watcher is where the watchers it goes
\* through end, which is also where they end from the second one on.
LEMMA LoopExists == \E f : IsLoop(f)
<1> DEFINE IsRun(run, n, w) == /\ run \in [0..n -> Watcher] /\ run[0] = w /\ Whole(run[n])
                               /\ \A i \in 0..(n - 1) : ~Whole(run[i]) /\ run[i + 1] = Rest(run[i])
           Ends(w) == {v \in Watcher : \E n \in Nat : \E run : IsRun(run, n, w) /\ v = run[n]}
           f == [w \in Watcher |-> CHOOSE v : v \in Ends(w)]
<1>1. ASSUME NEW w \in Watcher, Whole(w) PROVE Ends(w) = {w}
  <2>1. w \in Ends(w)
    <3>1. IsRun([i \in 0..0 |-> w], 0, w)
      BY <1>1
    <3> QED
      BY <3>1
  <2>2. ASSUME NEW v \in Ends(w) PROVE v = w
    <3>1. PICK n \in Nat : \E run : IsRun(run, n, w) /\ v = run[n]
      OBVIOUS
    <3>2. PICK run : IsRun(run, n, w) /\ v = run[n]
      BY <3>1
    <3>3. n = 0
      <4>1. n # 0 => 0 \in 0..(n - 1)
        OBVIOUS
      <4> QED
        BY <1>1, <3>2, <4>1
    <3> QED
      BY <3>2, <3>3
  <2> QED
    BY <2>1, <2>2
<1>2. ASSUME NEW w \in Watcher, ~Whole(w) PROVE Ends(w) = Ends(Rest(w))
  <2>1. ASSUME NEW v \in Ends(w) PROVE v \in Ends(Rest(w))
    <3>1. PICK n \in Nat : \E run : IsRun(run, n, w) /\ v = run[n]
      OBVIOUS
    <3>2. PICK run : IsRun(run, n, w) /\ v = run[n]
      BY <3>1
    <3>3. n # 0
      BY <1>2, <3>2
    <3> DEFINE rest == [i \in 0..(n - 1) |-> run[i + 1]]
    <3>4. /\ rest \in [0..(n - 1) -> Watcher]
          /\ rest[0] = run[1] /\ rest[n - 1] = run[n]
          /\ \A i \in 0..((n - 1) - 1) : rest[i] = run[i + 1] /\ rest[i + 1] = run[(i + 1) + 1]
                                         /\ i + 1 \in 0..(n - 1)
      BY <3>2, <3>3
    <3>5. run[0] = w /\ run[1] = Rest(w) /\ Whole(run[n])
      <4>1. 0 \in 0..(n - 1) /\ 0 + 1 = 1
        BY <3>3
      <4> QED
        BY <3>2, <4>1
    <3> HIDE DEF rest
    <3>6. IsRun(rest, n - 1, Rest(w))
      BY <3>2, <3>4, <3>5
    <3> HIDE DEF IsRun
    <3>7. n - 1 \in Nat
      BY <3>3
    <3> QED
      BY <3>2, <3>4, <3>6, <3>7
  <2>2. ASSUME NEW v \in Ends(Rest(w)) PROVE v \in Ends(w)
    <3>1. PICK n \in Nat : \E run : IsRun(run, n, Rest(w)) /\ v = run[n]
      OBVIOUS
    <3>2. PICK run : IsRun(run, n, Rest(w)) /\ v = run[n]
      BY <3>1
    <3> DEFINE more == [i \in 0..(n + 1) |-> IF i = 0 THEN w ELSE run[i - 1]]
    <3>4. more \in [0..(n + 1) -> Watcher] /\ more[0] = w /\ more[n + 1] = run[n]
      BY <3>2
    <3>5. ASSUME NEW i \in 0..((n + 1) - 1) PROVE ~Whole(more[i]) /\ more[i + 1] = Rest(more[i])
      <4>1. CASE i = 0
        BY <1>2, <3>2, <4>1
      <4>2. CASE i # 0
        <5>1. i - 1 \in 0..(n - 1) /\ (i - 1) + 1 = i
          BY <4>2
        <5>2. more[i] = run[i - 1] /\ more[i + 1] = run[i]
          BY <4>2
        <5> QED
          BY <3>2, <5>1, <5>2
      <4> QED
        BY <4>1, <4>2
    <3> HIDE DEF more
    <3>6. IsRun(more, n + 1, w)
      BY <3>2, <3>4, <3>5
    <3> HIDE DEF IsRun
    <3> QED
      BY <3>2, <3>4, <3>6
  <2> QED
    BY <2>1, <2>2
<1> HIDE DEF Ends
<1>3. ASSUME NEW w \in Watcher PROVE f[w] = IF Whole(w) THEN w ELSE f[Rest(w)]
  <2>1. CASE Whole(w)
    BY <1>1, <2>1
  <2>2. CASE ~Whole(w)
    <3>1. Rest(w) \in Watcher
      BY <2>2, RestIsShorter
    <3> QED
      BY <1>2, <2>2, <3>1
  <2> QED
    BY <2>1, <2>2
<1>4. f = [w \in Watcher |-> f[w]]
  OBVIOUS
<1> HIDE DEF f
<1>5. IsLoop(f)
  BY <1>3, <1>4 DEF IsLoop
<1> QED
  BY <1>5

LEMMA LoopStep ==
    ASSUME NEW w \in Watcher
    PROVE  ConsumeEvents[w] = IF Whole(w) THEN w ELSE ConsumeEvents[Rest(w)]
<1>1. IsLoop(ConsumeEvents)
  BY LoopExists, LoopIsChosen
<1> QED
  BY <1>1 DEF IsLoop

\* What consuming an event preserves, the loop preserves; and it comes to an end.
LEMMA LoopKeeps ==
    ASSUME NEW Kept \in SUBSET Watcher, \A w \in Kept : ~Whole(w) => Rest(w) \in Kept
    PROVE  \A w \in Kept : ConsumeEvents[w] \in Kept /\ Whole(ConsumeEvents[w])
<1> DEFINE Good(w) == ConsumeEvents[w] \in Kept /\ Whole(ConsumeEvents[w])
           Bad == {Len(w.residual) : w \in {v \in Kept : ~Good(v)}}
<1>1. SUFFICES ASSUME Bad # {} PROVE FALSE
  OBVIOUS
<1>2. Bad \in SUBSET Nat
  BY DEF Watcher
<1>3. PICK w \in Kept : ~Good(w) /\ Len(w.residual) = Min(Bad)
  <2> HIDE DEF Good
  <2>1. Min(Bad) \in Bad
    <3> HIDE DEF Bad
    <3> QED
      BY <1>1, <1>2, Smallest
  <2> QED
    BY <2>1
<1>4. ~Whole(w)
  BY <1>3, LoopStep
<1>5. Rest(w) \in Kept /\ ConsumeEvents[w] = ConsumeEvents[Rest(w)]
  BY <1>4, LoopStep
<1>6. ~Good(Rest(w))
  BY <1>3, <1>5
<1> HIDE DEF Good
<1>7. Len(Rest(w).residual) \in Bad
  BY <1>5, <1>6
<1>8. Min(Bad) <= Len(Rest(w).residual)
  <2> HIDE DEF Bad
  <2> QED
    BY <1>1, <1>2, <1>7, Smallest
<1>9. Len(Rest(w).residual) < Len(w.residual) /\ Len(w.residual) \in Nat
      /\ Len(Rest(w).residual) \in Nat
  BY <1>4, RestIsShorter
<1> QED
  BY <1>3, <1>8, <1>9

\* feed returns a watcher that holds no more than Cap bytes.
LEMMA FeedType ==
    ASSUME NEW w \in Watcher, NEW chunk \in Seq(Byte)
    PROVE  Feed(w, chunk) \in Watcher /\ Len(Feed(w, chunk).residual) <= Cap
<1> DEFINE fuller == [w EXCEPT !.residual = @ \o chunk]
           fed    == ConsumeEvents[fuller]
<1>1. fuller \in Watcher
  <2>1. w.residual \o chunk \in Seq(Byte)
    BY Residual
  <2> QED
    BY <2>1 DEF Watcher
<1>2. fed \in Watcher
  <2>1. \A v \in Watcher : ~Whole(v) => Rest(v) \in Watcher
    BY RestIsShorter
  <2> QED
    BY <1>1, <2>1, LoopKeeps
<1> HIDE DEF fed
<1>3. KeepLast(fed.residual, Cap) \in Seq(Byte) /\ Len(KeepLast(fed.residual, Cap)) <= Cap
  BY <1>2, Residual, CapAssumption DEF KeepLast
<1>4. Feed(w, chunk) = [fed EXCEPT !.residual = KeepLast(fed.residual, Cap)]
  BY DEF Feed, fed
<1> QED
  BY <1>2, <1>3, <1>4 DEF Watcher

----------------------------------------------------------------------------
(* Where events end. *)

Pair(X, i) == X[i] = "nl" /\ X[i + 1] = "nl"
Bound(X)   == {0} \cup EventEnds(X)

LEMMA MaxIs == ASSUME NEW S \in SUBSET Nat, NEW m \in S, \A x \in S : x <= m PROVE Max(S) = m
<1>1. Max(S) \in S /\ \A x \in S : Max(S) >= x
  <2>1. \A x \in S : m >= x
    OBVIOUS
  <2> QED
    BY <2>1 DEF Max
<1>2. Max(S) <= m /\ Max(S) >= m /\ Max(S) \in Nat
  BY <1>1
<1> QED
  BY <1>2

LEMMA MinIs == ASSUME NEW S \in SUBSET Nat, NEW m \in S, \A x \in S : m <= x PROVE Min(S) = m
<1>1. Min(S) \in S /\ \A x \in S : Min(S) <= x
  BY DEF Min
<1>2. m <= Min(S) /\ Min(S) <= m /\ Min(S) \in Nat
  BY <1>1
<1> QED
  BY <1>2

\* A run of newlines grows by one with each.
LEMMA Runs ==
    ASSUME NEW X \in Seq(Byte), NEW i \in 1..Len(X)
    PROVE  /\ RunLength(X, 0) = 0 /\ RunLength(X, i) \in Nat /\ RunLength(X, i - 1) \in Nat
           /\ X[i] # "nl" => RunLength(X, i) = 0
           /\ X[i] = "nl" => RunLength(X, i) = RunLength(X, i - 1) + 1
<1> DEFINE Before(k) == {0} \cup {j \in 1..k : X[j] # "nl"}
<1>1. ASSUME NEW k \in 0..Len(X)
      PROVE  Max(Before(k)) \in Nat /\ Max(Before(k)) <= k
  <2>1. Before(k) \in SUBSET Nat /\ Before(k) # {} /\ (\A j \in Before(k) : j <= k) /\ k \in Nat
    OBVIOUS
  <2> HIDE DEF Before
  <2> QED
    BY <2>1, Largest
<1>2. Before(0) = {0}
  OBVIOUS
<1>3. X[i] = "nl" => Before(i) = Before(i - 1)
  OBVIOUS
<1>4. X[i] # "nl" => Max(Before(i)) = i
  <2>1. ASSUME X[i] # "nl" PROVE Max(Before(i)) = i
    <3>1. Before(i) \in SUBSET Nat /\ i \in Before(i) /\ \A j \in Before(i) : j <= i
      BY <2>1
    <3> HIDE DEF Before
    <3> QED
      BY <3>1, MaxIs
  <2> QED
    BY <2>1
<1>5. \A k : RunLength(X, k) = k - Max(Before(k))
  BY DEF RunLength
<1>6. 0 \in 0..Len(X) /\ i \in 0..Len(X) /\ i - 1 \in 0..Len(X) /\ Len(X) \in Nat
  OBVIOUS
<1> HIDE DEF Before
<1>7. Max(Before(0)) = 0
  BY <1>1, <1>6
<1> QED
  BY <1>1, <1>3, <1>4, <1>5, <1>6, <1>7

\* After an event's end, and as long as no two newlines follow one another, every
\* newline is an odd one: no event ends there.
LEMMA OddRun ==
    ASSUME NEW X \in Seq(Byte), NEW p \in Bound(X), NEW i \in (p + 1)..Len(X), X[i] = "nl",
           i > p + 1 => ~Pair(X, i - 1)
    PROVE  RunLength(X, i) % 2 = 1 /\ i \notin EventEnds(X)
<1>1. p \in Nat /\ i \in 1..Len(X) /\ Len(X) \in Nat
  BY DEF Bound, EventEnds
<1>2. CASE i = p + 1
  <2>1. RunLength(X, p) \in Nat /\ RunLength(X, p) % 2 = 0
    <3>1. CASE p = 0
      BY <1>1, <3>1, Runs
    <3>2. CASE p # 0
      BY <1>1, <3>2, Runs DEF Bound, EventEnds
    <3> QED
      BY <3>1, <3>2
  <2>2. RunLength(X, i) = RunLength(X, p) + 1
    BY <1>1, <1>2, Runs
  <2> QED
    BY <2>1, <2>2 DEF EventEnds
<1>3. CASE i # p + 1
  <2>1. X[i - 1] # "nl" /\ i - 1 \in 1..Len(X)
    BY <1>1, <1>3 DEF Pair
  <2>2. RunLength(X, i - 1) = 0
    BY <2>1, Runs
  <2>3. RunLength(X, i) = 1
    BY <1>1, <2>2, Runs
  <2> QED
    BY <2>3 DEF EventEnds
<1> QED
  BY <1>2, <1>3

LEMMA NoEnd ==
    ASSUME NEW X \in Seq(Byte), NEW p \in Bound(X), NEW n \in p..Len(X),
           \A j \in (p + 1)..(n - 1) : ~Pair(X, j)
    PROVE  \A i \in (p + 1)..n : i \notin EventEnds(X)
<1> SUFFICES ASSUME NEW i \in (p + 1)..n, i \in EventEnds(X) PROVE FALSE
  OBVIOUS
<1>1. p \in Nat /\ Len(X) \in Nat /\ X[i] = "nl" /\ i \in (p + 1)..Len(X)
  BY DEF Bound, EventEnds
<1>2. i > p + 1 => i - 1 \in (p + 1)..(n - 1)
  BY <1>1
<1> QED
  BY <1>1, <1>2, OddRun

\* The first two newlines that follow one another end the event.
LEMMA NextEnd ==
    ASSUME NEW X \in Seq(Byte), NEW p \in Bound(X), NEW e \in (p + 2)..Len(X), Pair(X, e - 1),
           \A j \in (p + 1)..(e - 2) : ~Pair(X, j)
    PROVE  e \in EventEnds(X) /\ \A i \in (p + 1)..(e - 1) : i \notin EventEnds(X)
<1>1. p \in Nat /\ Len(X) \in Nat /\ e \in 1..Len(X) /\ e - 1 \in (p + 1)..Len(X)
      /\ e - 1 \in p..Len(X) /\ e - 1 \in 1..Len(X)
  BY DEF Bound, EventEnds
<1>2. X[e] = "nl" /\ X[e - 1] = "nl"
  BY <1>1 DEF Pair
<1>3. e - 1 > p + 1 => ~Pair(X, (e - 1) - 1)
  BY <1>1
<1>4. RunLength(X, e - 1) % 2 = 1
  BY <1>1, <1>2, <1>3, OddRun
<1>5. RunLength(X, e) = RunLength(X, e - 1) + 1 /\ RunLength(X, e - 1) \in Nat
  BY <1>1, <1>2, Runs
<1>6. e \in EventEnds(X)
  BY <1>1, <1>2, <1>4, <1>5 DEF EventEnds
<1>7. \A i \in (p + 1)..(e - 1) : i \notin EventEnds(X)
  BY <1>1, NoEnd
<1> QED
  BY <1>6, <1>7

Prefix(B, X) == /\ B \in Seq(Byte) /\ X \in Seq(Byte) /\ Len(B) <= Len(X)
                /\ \A i \in 1..Len(B) : B[i] = X[i]

\* What ends in a body ends there in all that begins with it.
LEMMA EndsAreLocal ==
    ASSUME NEW B, NEW X, Prefix(B, X)
    PROVE  EventEnds(B) = {i \in EventEnds(X) : i <= Len(B)}
<1>1. Len(B) \in Nat /\ Len(X) \in Nat /\ Len(B) <= Len(X)
  BY DEF Prefix
<1>2. ASSUME NEW i \in 1..Len(B) PROVE RunLength(B, i) = RunLength(X, i) /\ B[i] = X[i]
  <2>1. \A j \in 1..i : B[j] = X[j]
    BY <1>1 DEF Prefix
  <2>2. {j \in 1..i : B[j] # "nl"} = {j \in 1..i : X[j] # "nl"}
    BY <2>1
  <2>3. RunLength(B, i) = RunLength(X, i)
    BY <2>2 DEF RunLength
  <2>4. i \in 1..i
    OBVIOUS
  <2> QED
    BY <2>1, <2>3, <2>4
<1> QED
  BY <1>1, <1>2 DEF EventEnds

----------------------------------------------------------------------------
(* Lines, and what a watcher knows of those it has seen. *)

\* A line with a usage object or a content delta starts where a line starts.
LinesStart(X) == \A i \in 2..Len(X) : X[i] \in {"u", "c"} => X[i - 1] = "nl"

LinesTo(X, p) == {s \in LineSpans(X) : s[2] < p}

LEMMA Line ==
    ASSUME NEW X \in Seq(Byte), NEW a, NEW b
    PROVE  <<a, b>> \in LineSpans(X) <=>
               /\ a \in 1..Len(X) /\ b \in 1..Len(X) /\ a <= b
               /\ \A k \in a..b : X[k] # "nl"
               /\ a = 1 \/ X[a - 1] = "nl"
               /\ b = Len(X) \/ X[b + 1] = "nl"
BY DEF LineSpans

LEMMA Spans ==
    ASSUME NEW X \in Seq(Byte), NEW s \in LineSpans(X)
    PROVE  s[1] \in Nat /\ s[2] \in Nat /\ s = <<s[1], s[2]>>
BY DEF LineSpans

LEMMA TwoBytes ==
    ASSUME NEW text \in Seq(Byte), Len(text) = 2
    PROVE  text = <<"c", "t">> <=> text[1] = "c" /\ text[2] = "t"
OBVIOUS

LEMMA Delta ==
    ASSUME NEW X \in Seq(Byte), NEW a \in 1..Len(X), NEW b \in 1..Len(X), a <= b
    PROVE  HasContentDelta(X, <<a, b>>) <=> b = a + 1 /\ X[a] = "c" /\ X[b] = "t"
<1> DEFINE text == SubSeq(X, a, b)
<1>2. Len(text) = b - a + 1 /\ text \in Seq(Byte)
  OBVIOUS
<1>3. \A i \in 1..(b - a + 1) : text[i] = X[a + i - 1]
  OBVIOUS
<1>4. b = a + 1 => (text = <<"c", "t">> <=> X[a] = "c" /\ X[b] = "t")
  <2>1. ASSUME b = a + 1 PROVE text = <<"c", "t">> <=> X[a] = "c" /\ X[b] = "t"
    <3>1. Len(text) = 2 /\ text[1] = X[a] /\ text[2] = X[b]
      BY <1>2, <1>3, <2>1
    <3>2. text = <<"c", "t">> <=> text[1] = "c" /\ text[2] = "t"
      <4> HIDE DEF text
      <4> QED
        BY <1>2, <3>1, TwoBytes
    <3> QED
      BY <3>1, <3>2
  <2> QED
    BY <2>1
<1>5. text = <<"c", "t">> => b = a + 1
  <2>1. Len(<<"c", "t">>) = 2
    OBVIOUS
  <2> HIDE DEF text
  <2> QED
    BY <1>2, <2>1
<1> QED
  BY <1>4, <1>5 DEF HasContentDelta

LEMMA Report ==
    ASSUME NEW X, NEW a, NEW b
    PROVE  ReportsUsage(X, <<a, b>>) <=> b = a + 1 /\ X[a] = "u" /\ X[b] \in UsageValue
BY DEF ReportsUsage

Tells(X, s) == ReportsUsage(X, s) \/ HasContentDelta(X, s)

\* A line that tells something starts with a letter that starts lines only.
LEMMA TellingLine ==
    ASSUME NEW X \in Seq(Byte), NEW a \in 1..Len(X), NEW b \in 1..Len(X), a <= b, Tells(X, <<a, b>>)
    PROVE  X[a] \in {"u", "c"}
BY Delta, Report DEF Tells

\* What a stretch of a body tells is told by the body's lines.
LEMMA SameLine ==
    ASSUME NEW X \in Seq(Byte), NEW Y \in Seq(Byte), NEW p \in Nat,
           NEW a \in 1..Len(X), NEW b \in 1..Len(X), a <= b,
           NEW c \in 1..Len(Y), NEW d \in 1..Len(Y), p + c = a, p + d = b,
           Y[c] = X[a], Y[d] = X[b]
    PROVE  /\ ReportsUsage(X, <<a, b>>) <=> ReportsUsage(Y, <<c, d>>)
           /\ HasContentDelta(X, <<a, b>>) <=> HasContentDelta(Y, <<c, d>>)
<1>1. (b = a + 1 <=> d = c + 1) /\ c <= d
  OBVIOUS
<1>2. HasContentDelta(Y, <<c, d>>) <=> d = c + 1 /\ Y[c] = "c" /\ Y[d] = "t"
  BY <1>1, Delta
<1>3. HasContentDelta(X, <<a, b>>) <=> b = a + 1 /\ X[a] = "c" /\ X[b] = "t"
  BY Delta
<1> QED
  BY <1>1, <1>2, <1>3, Report

\* The bytes of X after q and before the delimiter that ends at e.
Stretch(event, X, q, e) == /\ event \in Seq(Byte) /\ Len(event) = e - 2 - q
                           /\ \A k \in 1..(e - 2 - q) : event[k] = X[q + k]

\* The lines of an event, of which the first q - p bytes may be lost.
LEMMA LinesOfEvent ==
    ASSUME NEW X \in Seq(Byte), LinesStart(X), NEW q \in Nat, NEW e \in (q + 2)..Len(X),
           X[e - 1] = "nl", NEW event, Stretch(event, X, q, e), NEW c \in Nat, NEW d \in Nat,
           <<c, d>> \in LineSpans(event), Tells(event, <<c, d>>)
    PROVE  /\ <<c + q, d + q>> \in LineSpans(X) /\ q < c + q /\ d + q < e
           /\ ReportsUsage(X, <<c + q, d + q>>) <=> ReportsUsage(event, <<c, d>>)
           /\ HasContentDelta(X, <<c + q, d + q>>) <=> HasContentDelta(event, <<c, d>>)
           /\ X[d + q] = event[d]
<1>1. /\ event \in Seq(Byte) /\ Len(event) = e - 2 - q /\ Len(X) \in Nat
      /\ \A k \in 1..(e - 2 - q) : event[k] = X[q + k]
  BY DEF Stretch
<1>2. Tells(event, <<c, d>>) /\ <<c, d>> \in LineSpans(event)
  OBVIOUS
<1>3. /\ c \in 1..(e - 2 - q) /\ d \in 1..(e - 2 - q) /\ c <= d
      /\ c \in 1..Len(event) /\ d \in 1..Len(event)
      /\ \A k \in c..d : event[k] # "nl"
      /\ c = 1 \/ event[c - 1] = "nl"
      /\ d = Len(event) \/ event[d + 1] = "nl"
  <2>1. event \in Seq(Byte)
    BY <1>1
  <2>2. /\ c \in 1..Len(event) /\ d \in 1..Len(event) /\ c <= d
        /\ \A k \in c..d : event[k] # "nl"
        /\ c = 1 \/ event[c - 1] = "nl"
        /\ d = Len(event) \/ event[d + 1] = "nl"
    BY <1>2, <2>1, Line
  <2> QED
    BY <1>1, <2>2
<1> DEFINE a == c + q
           b == d + q
<1>5. /\ a \in 1..Len(X) /\ b \in 1..Len(X) /\ a <= b
      /\ q < a /\ b < e - 1 /\ q + c = a /\ q + d = b
  BY <1>1, <1>3
<1> HIDE DEF a, b
<1>6. X[a] = event[c] /\ X[b] = event[d]
  BY <1>1, <1>3, <1>5
<1>7. \A k \in a..b : X[k] # "nl"
  <2> SUFFICES ASSUME NEW k \in a..b PROVE X[k] # "nl"
    OBVIOUS
  <2>1. k - q \in c..d /\ k - q \in 1..(e - 2 - q) /\ q + (k - q) = k
    BY <1>3, <1>5
  <2> QED
    BY <1>1, <1>3, <2>1
<1>8. a = 1 \/ X[a - 1] = "nl"
  <2>1. CASE c = 1
    <3>1. X[a] \in {"u", "c"}
      BY <1>1, <1>2, <1>3, <1>6, TellingLine
    <3> QED
      BY <1>5, <3>1 DEF LinesStart
  <2>2. CASE c # 1
    <3>1. event[c - 1] = "nl" /\ c - 1 \in 1..(e - 2 - q) /\ q + (c - 1) = a - 1
      BY <1>3, <1>5, <2>2
    <3> QED
      BY <1>1, <3>1
  <2> QED
    BY <2>1, <2>2
<1>9. b = Len(X) \/ X[b + 1] = "nl"
  <2>1. CASE d = Len(event)
    <3>1. b + 1 = e - 1
      BY <1>1, <1>5, <2>1
    <3> QED
      BY <3>1
  <2>2. CASE d # Len(event)
    <3>1. event[d + 1] = "nl" /\ d + 1 \in 1..(e - 2 - q) /\ q + (d + 1) = b + 1
      BY <1>1, <1>3, <1>5, <2>2
    <3> QED
      BY <1>1, <3>1
  <2> QED
    BY <2>1, <2>2
<1>10. <<a, b>> \in LineSpans(X)
  BY <1>5, <1>7, <1>8, <1>9, Line
<1>11. /\ ReportsUsage(X, <<a, b>>) <=> ReportsUsage(event, <<c, d>>)
       /\ HasContentDelta(X, <<a, b>>) <=> HasContentDelta(event, <<c, d>>)
  <2>1. event \in Seq(Byte) /\ event[c] = X[a] /\ event[d] = X[b]
    BY <1>1, <1>6
  <2>2. /\ a \in 1..Len(X) /\ b \in 1..Len(X) /\ a <= b /\ q + c = a /\ q + d = b
        /\ c \in 1..Len(event) /\ d \in 1..Len(event)
    BY <1>3, <1>5
  <2> QED
    BY <2>1, <2>2, SameLine
<1>13. b < e
  BY <1>5
<1> QED
  BY <1>5, <1>6, <1>10, <1>11, <1>13 DEF a, b

\* And every line of an event of which nothing is lost.
LEMMA LinesKept ==
    ASSUME NEW X \in Seq(Byte), NEW p \in Nat, NEW e \in (p + 2)..Len(X), X[e - 1] = "nl",
           NEW event, Stretch(event, X, p, e), NEW a \in Nat, NEW b \in Nat, <<a, b>> \in LineSpans(X), p < a, b < e
    PROVE  /\ <<a - p, b - p>> \in LineSpans(event)
           /\ ReportsUsage(X, <<a, b>>) <=> ReportsUsage(event, <<a - p, b - p>>)
           /\ HasContentDelta(X, <<a, b>>) <=> HasContentDelta(event, <<a - p, b - p>>)
<1>1. /\ event \in Seq(Byte) /\ Len(event) = e - 2 - p /\ Len(X) \in Nat
      /\ \A k \in 1..(e - 2 - p) : event[k] = X[p + k]
  BY DEF Stretch
<1>2. /\ a \in 1..Len(X) /\ b \in 1..Len(X) /\ a <= b
      /\ \A k \in a..b : X[k] # "nl"
      /\ a = 1 \/ X[a - 1] = "nl"
      /\ b = Len(X) \/ X[b + 1] = "nl"
  BY Line
<1>3. b <= e - 2
  <2>1. b # e - 1
    BY <1>2
  <2> QED
    BY <1>2, <2>1
<1> DEFINE c == a - p
           d == b - p
<1>4. /\ c \in 1..(e - 2 - p) /\ d \in 1..(e - 2 - p) /\ c <= d
      /\ p + c = a /\ p + d = b
  BY <1>1, <1>2, <1>3
<1> HIDE DEF c, d
<1>5. event[c] = X[a] /\ event[d] = X[b]
  BY <1>1, <1>4
<1>6. \A k \in c..d : event[k] # "nl"
  <2> SUFFICES ASSUME NEW k \in c..d PROVE event[k] # "nl"
    OBVIOUS
  <2>1. p + k \in a..b /\ k \in 1..(e - 2 - p)
    BY <1>1, <1>4
  <2> QED
    BY <1>1, <1>2, <2>1
<1>7. c = 1 \/ event[c - 1] = "nl"
  <2>1. CASE c # 1
    <3>1. c - 1 \in 1..(e - 2 - p) /\ p + (c - 1) = a - 1 /\ a # 1
      BY <1>1, <1>4, <2>1
    <3> QED
      BY <1>1, <1>2, <3>1
  <2> QED
    BY <2>1
<1>8. d = Len(event) \/ event[d + 1] = "nl"
  <2>1. CASE d # Len(event)
    <3>1. d + 1 \in 1..(e - 2 - p) /\ p + (d + 1) = b + 1 /\ b # Len(X)
      BY <1>1, <1>4, <2>1
    <3> QED
      BY <1>1, <1>2, <3>1
  <2> QED
    BY <2>1
<1>9. <<c, d>> \in LineSpans(event)
  BY <1>1, <1>4, <1>6, <1>7, <1>8, Line
<1>10. /\ ReportsUsage(X, <<a, b>>) <=> ReportsUsage(event, <<c, d>>)
       /\ HasContentDelta(X, <<a, b>>) <=> HasContentDelta(event, <<c, d>>)
  <2>1. event \in Seq(Byte)
    BY <1>1
  <2>2. /\ a \in 1..Len(X) /\ b \in 1..Len(X) /\ a <= b /\ p + c = a /\ p + d = b
        /\ c \in 1..Len(event) /\ d \in 1..Len(event)
    BY <1>1, <1>2, <1>4
  <2> QED
    BY <1>5, <2>1, <2>2, SameLine
<1> QED
  BY <1>9, <1>10 DEF c, d

\* Observes, of the lines before p.
Knows(w, X, p) ==
    /\ w.usage_envelope = NoUsage =>
          \A s \in LinesTo(X, p) : ReportsUsage(X, s) => ~Fits(X, s)
    /\ w.usage_envelope # NoUsage =>
          \E s \in LinesTo(X, p) :
             /\ ReportsUsage(X, s) /\ X[s[2]] = w.usage_envelope
             /\ \A t \in LinesTo(X, p) : ReportsUsage(X, t) /\ Fits(X, t) => t[2] <= s[2]
    /\ w.ttft => \E s \in LinesTo(X, p) : HasContentDelta(X, s)
    /\ \A s \in LinesTo(X, p) : HasContentDelta(X, s) /\ Fits(X, s) => w.ttft

\* Past the last event there is nothing to know.
LEMMA KnowsObserves ==
    ASSUME NEW X \in Seq(Byte), NEW p \in Bound(X), \A e \in EventEnds(X) : e <= p,
           NEW w, Knows(w, X, p)
    PROVE  Observes(w, X)
<1>1. \A s \in LineSpans(X) : s[2] \in 1..Len(X)
  BY DEF LineSpans
<1>2. EventEnds(X) \subseteq 1..Len(X) /\ Len(X) \in Nat /\ p \in Nat
  BY DEF Bound, EventEnds
<1>3. \A s \in LineSpans(X) : (\E e \in EventEnds(X) : s[2] < e) <=> s[2] < p
  BY <1>1, <1>2 DEF Bound
<1>4. CompleteLines(X) = LinesTo(X, p)
  BY <1>3 DEF CompleteLines, LinesTo
<1> DEFINE lines == LinesTo(X, p)
           usage == {s \in lines : ReportsUsage(X, s)}
           content == {s \in lines : HasContentDelta(X, s)}
           fitting == {s \in usage \cup content : Fits(X, s)}
<1> HIDE DEF lines
<1>5. \A s : s \in usage \cap fitting <=> s \in lines /\ ReportsUsage(X, s) /\ Fits(X, s)
  OBVIOUS
<1>6. \A s : s \in content \cap fitting <=> s \in lines /\ HasContentDelta(X, s) /\ Fits(X, s)
  OBVIOUS
<1>7. w.usage_envelope = NoUsage => usage \cap fitting = {}
  <2>1. w.usage_envelope = NoUsage => \A s : s \notin usage \cap fitting
    BY <1>5 DEF Knows, lines
  <2> QED
    BY <2>1
<1>8. w.usage_envelope # NoUsage =>
          \E s \in usage : /\ X[s[2]] = w.usage_envelope
                           /\ \A q \in usage \cap fitting : q[2] <= s[2]
  <2> SUFFICES ASSUME w.usage_envelope # NoUsage
               PROVE  \E s \in usage : /\ X[s[2]] = w.usage_envelope
                                       /\ \A q \in usage \cap fitting : q[2] <= s[2]
    OBVIOUS
  <2>1. PICK s \in lines :
           /\ ReportsUsage(X, s) /\ X[s[2]] = w.usage_envelope
           /\ \A t \in lines : ReportsUsage(X, t) /\ Fits(X, t) => t[2] <= s[2]
    BY DEF Knows, lines
  <2>2. s \in usage
    BY <2>1
  <2>3. \A q \in usage \cap fitting : q[2] <= s[2]
    BY <1>5, <2>1
  <2> HIDE DEF usage, fitting
  <2> QED
    BY <2>1, <2>2, <2>3
<1>9. w.ttft => content # {}
  BY DEF Knows, lines
<1>10. content \cap fitting # {} => w.ttft
  <2>1. \A s : s \in content \cap fitting => w.ttft
    BY <1>6 DEF Knows, lines
  <2> QED
    BY <2>1
<1> HIDE DEF usage, content, fitting
<1>11. Observes(w, X) <=>
          /\ IF w.usage_envelope = NoUsage THEN usage \cap fitting = {}
             ELSE \E s \in usage : /\ X[s[2]] = w.usage_envelope
                                   /\ \A q \in usage \cap fitting : q[2] <= s[2]
          /\ w.ttft => content # {}
          /\ content \cap fitting # {} => w.ttft
  BY <1>4 DEF Observes, usage, content, fitting, lines
<1> QED
  BY <1>7, <1>8, <1>9, <1>10, <1>11

\* The lines of the event from p to e.
LEMMA NewLines ==
    ASSUME NEW X \in Seq(Byte), NEW p \in Bound(X), NEW e \in EventEnds(X), p < e,
           NEW s \in LineSpans(X)
    PROVE  s \in LinesTo(X, e) <=> s \in LinesTo(X, p) \/ (p < s[1] /\ s[2] < e)
<1>1. p \in Nat /\ e \in Nat /\ (p # 0 => X[p] = "nl")
  BY DEF Bound, EventEnds
<1>2. /\ s[1] \in Nat /\ s[2] \in Nat /\ s[1] >= 1 /\ s[1] <= s[2]
      /\ \A k \in s[1]..s[2] : X[k] # "nl"
  BY DEF LineSpans
<1>3. p # 0 => p \notin s[1]..s[2]
  BY <1>1, <1>2
<1>4. s[2] < p \/ p < s[1]
  BY <1>1, <1>2, <1>3
<1> QED
  BY <1>1, <1>2, <1>4 DEF LinesTo

LEMMA LengthOfEvent ==
    ASSUME NEW X \in Seq(Byte), NEW p \in Bound(X), NEW e \in EventEnds(X), p < e,
           \A i \in (p + 1)..(e - 1) : i \notin EventEnds(X),
           NEW s \in LineSpans(X), p < s[1], s[2] < e
    PROVE  Fits(X, s) <=> e - p - 2 < Cap
<1> DEFINE before == {0} \cup {i \in EventEnds(X) : i < s[1]}
           after  == {i \in EventEnds(X) : s[2] < i}
<1>1. EventEnds(X) \in SUBSET Nat /\ p \in Nat /\ e \in Nat
  BY DEF Bound, EventEnds
<1>2. s[1] \in Nat /\ s[2] \in Nat /\ s[1] <= s[2]
  BY DEF LineSpans
<1>3. \A i \in EventEnds(X) : i <= p \/ e <= i
  BY <1>1
<1>4. Max(before) = p
  <2>1. before \in SUBSET Nat /\ p \in before
    BY <1>1, <1>2 DEF Bound
  <2>2. \A i \in before : i <= p
    BY <1>1, <1>2, <1>3
  <2> HIDE DEF before
  <2> QED
    BY <2>1, <2>2, MaxIs
<1>5. Min(after) = e
  <2>1. after \in SUBSET Nat /\ e \in after
    BY <1>1, <1>2
  <2>2. \A i \in after : e <= i
    BY <1>1, <1>2, <1>3
  <2> HIDE DEF after
  <2> QED
    BY <2>1, <2>2, MinIs
<1>6. EventLength(X, s) = Min(after) - Max(before) - 2
  BY DEF EventLength
<1> QED
  BY <1>1, <1>4, <1>5, <1>6 DEF Fits

\* Once an event is consumed the watcher knows of it: of the event from p to e,
\* its last bytes only, if those before q were lost to the cap.
LEMMA KnowsStep ==
    ASSUME NEW X \in Seq(Byte), LinesStart(X), NEW p \in Bound(X), NEW q \in Nat, p <= q,
           NEW e \in EventEnds(X), e >= q + 2, X[e - 1] = "nl",
           \A i \in (p + 1)..(e - 1) : i \notin EventEnds(X),
           p < q => e - p - 2 >= Cap,
           NEW w \in Watcher, Knows(w, X, p)
    PROVE  Knows(Consume(w, SubSeq(X, q + 1, e - 2)), X, e)
<1> DEFINE event == SubSeq(X, q + 1, e - 2)
           v == Consume(w, event)
           old == LinesTo(X, p)
           new == {s \in LineSpans(X) : p < s[1] /\ s[2] < e}
           all == LinesTo(X, e)
           reports == {s \in LineSpans(event) : ReportsUsage(event, s)}
<1>1. p \in Nat /\ e \in (q + 2)..Len(X) /\ p < e /\ Len(X) \in Nat
  BY DEF Bound, EventEnds
<1>2. event \in Seq(Byte) /\ Stretch(event, X, q, e)
  BY <1>1 DEF Stretch
<1>3. all = old \cup new
  BY <1>1, NewLines DEF LinesTo
<1>4. \A s \in new : Fits(X, s) => q = p
  <2>1. \A s \in new : Fits(X, s) <=> e - p - 2 < Cap
    BY <1>1, LengthOfEvent
  <2> QED
    BY <1>1, <2>1, CapAssumption
<1>5. /\ v \in Watcher
      /\ reports = {} => v.usage_envelope = w.usage_envelope
      /\ reports # {} => \E s \in reports : /\ v.usage_envelope = event[s[2]]
                                            /\ \A t \in reports : t[2] <= s[2]
      /\ v.ttft = (w.ttft \/ \E s \in LineSpans(event) : HasContentDelta(event, s))
  <2> HIDE DEF event
  <2> QED
    BY <1>2, Consumed
<1>6. ASSUME NEW s \in LineSpans(event), Tells(event, s)
      PROVE  \E t \in new : /\ ReportsUsage(X, t) <=> ReportsUsage(event, s)
                            /\ HasContentDelta(X, t) <=> HasContentDelta(event, s)
                            /\ X[t[2]] = event[s[2]] /\ t[2] = s[2] + q
                            /\ t[2] \in Nat /\ q < t[2]
  <2>1. s[1] \in Nat /\ s[2] \in Nat /\ s = <<s[1], s[2]>>
    BY <1>2, Spans
  <2> DEFINE c == s[1]
             d == s[2]
             t == <<c + q, d + q>>
  <2> HIDE DEF c, d
  <2>2. c \in Nat /\ d \in Nat /\ s = <<c, d>>
    BY <2>1 DEF c, d
  <2>3. <<c, d>> \in LineSpans(event) /\ Tells(event, <<c, d>>)
    BY <1>6, <2>2
  <2>4. /\ t \in LineSpans(X) /\ q < c + q /\ d + q < e
        /\ ReportsUsage(X, t) <=> ReportsUsage(event, <<c, d>>)
        /\ HasContentDelta(X, t) <=> HasContentDelta(event, <<c, d>>)
        /\ X[d + q] = event[d]
    <3> HIDE DEF event
    <3> QED
      BY <1>1, <1>2, <2>2, <2>3, LinesOfEvent
  <2>5. c + q <= d + q
    BY <2>4 DEF LineSpans
  <2>6. t \in new
    BY <1>1, <2>2, <2>4
  <2>7. t[2] = d + q /\ d + q \in Nat /\ q < d + q /\ s[2] = d
    BY <2>2, <2>4, <2>5
  <2> HIDE DEF t, new, event
  <2> QED
    BY <2>2, <2>4, <2>6, <2>7
<1>7. ASSUME NEW t \in new, q = p
      PROVE  \E s \in LineSpans(event) : /\ ReportsUsage(X, t) <=> ReportsUsage(event, s)
                                         /\ HasContentDelta(X, t) <=> HasContentDelta(event, s)
                                         /\ t[2] = s[2] + q /\ s[2] \in Nat
  <2>1. t[1] \in Nat /\ t[2] \in Nat /\ t = <<t[1], t[2]>> /\ t \in LineSpans(X)
    BY Spans
  <2> DEFINE a == t[1]
             b == t[2]
             s == <<a - p, b - p>>
  <2>2. a <= b /\ p < a /\ b < e
    BY <2>1 DEF LineSpans
  <2> HIDE DEF a, b
  <2>3. a \in Nat /\ b \in Nat /\ t = <<a, b>> /\ <<a, b>> \in LineSpans(X)
    BY <2>1 DEF a, b
  <2>4. /\ s \in LineSpans(event)
        /\ ReportsUsage(X, <<a, b>>) <=> ReportsUsage(event, s)
        /\ HasContentDelta(X, <<a, b>>) <=> HasContentDelta(event, s)
    BY <1>1, <1>2, <1>7, <2>2, <2>3, LinesKept
  <2>5. s[2] = b - p /\ b - p \in Nat /\ t[2] = (b - p) + q
    BY <1>1, <1>7, <2>2, <2>3
  <2> HIDE DEF s, event
  <2> QED
    BY <2>3, <2>4, <2>5
<1>8. \A s \in old : s[2] \in Nat /\ s[2] < p
  BY Spans DEF LinesTo
<1>9. old \subseteq LineSpans(X) /\ new \subseteq LineSpans(X)
  BY DEF LinesTo
<1>10. Knows(w, X, p)
  OBVIOUS
<1> HIDE DEF event, v, old, new, all
<1>11. \A s \in reports : Tells(event, s) /\ s[2] \in Nat
  BY <1>2, Spans DEF Tells
<1>12. ASSUME reports = {}
       PROVE  /\ v.usage_envelope = w.usage_envelope
              /\ \A t \in new : ReportsUsage(X, t) => ~Fits(X, t)
  <2>1. ASSUME NEW t \in new, ReportsUsage(X, t), Fits(X, t) PROVE FALSE
    <3>1. \E s \in LineSpans(event) : ReportsUsage(event, s)
      BY <1>4, <1>7, <2>1
    <3> QED
      BY <1>12, <3>1
  <2> QED
    BY <1>5, <1>12, <2>1
<1>13. ASSUME reports # {}
       PROVE  \E s \in new : /\ ReportsUsage(X, s) /\ X[s[2]] = v.usage_envelope
                             /\ \A t \in all : ReportsUsage(X, t) /\ Fits(X, t) => t[2] <= s[2]
  <2>1. PICK r \in reports : v.usage_envelope = event[r[2]] /\ \A t \in reports : t[2] <= r[2]
    BY <1>5, <1>13
  <2>2. PICK s \in new : /\ ReportsUsage(X, s) /\ X[s[2]] = event[r[2]] /\ s[2] = r[2] + q
                         /\ s[2] \in Nat /\ q < s[2]
    BY <1>6, <1>11
  <2>3. r[2] \in Nat
    BY <1>11
  <2>4. ASSUME NEW t \in new, ReportsUsage(X, t), Fits(X, t) PROVE t[2] <= s[2]
    <3>1. PICK u \in LineSpans(event) : ReportsUsage(event, u) /\ t[2] = u[2] + q /\ u[2] \in Nat
      BY <1>4, <1>7, <2>4
    <3>2. u[2] <= r[2]
      BY <2>1, <3>1
    <3> QED
      BY <2>2, <2>3, <3>1, <3>2
  <2>5. ASSUME NEW t \in old PROVE t[2] <= s[2]
    BY <1>1, <1>8, <2>2
  <2>6. \A t \in all : ReportsUsage(X, t) /\ Fits(X, t) => t[2] <= s[2]
    BY <1>3, <2>4, <2>5
  <2> QED
    BY <2>1, <2>2, <2>6
<1>14. v.usage_envelope = NoUsage =>
          \A s \in all : ReportsUsage(X, s) => ~Fits(X, s)
  <2>1. CASE reports = {}
    <3>1. v.usage_envelope = NoUsage => \A s \in old : ReportsUsage(X, s) => ~Fits(X, s)
      BY <1>10, <1>12, <2>1 DEF Knows, old
    <3> QED
      BY <1>3, <1>12, <2>1, <3>1
  <2>2. CASE reports # {}
    <3>1. v.usage_envelope # NoUsage
      <4>1. PICK s \in new : ReportsUsage(X, s) /\ X[s[2]] = v.usage_envelope
        BY <1>13, <2>2
      <4> QED
        BY <4>1, NoUsageAssumption DEF ReportsUsage
    <3> QED
      BY <3>1
  <2> QED
    BY <2>1, <2>2
<1>15. v.usage_envelope # NoUsage =>
          \E s \in all :
             /\ ReportsUsage(X, s) /\ X[s[2]] = v.usage_envelope
             /\ \A t \in all : ReportsUsage(X, t) /\ Fits(X, t) => t[2] <= s[2]
  <2>1. CASE reports = {}
    <3> SUFFICES ASSUME v.usage_envelope # NoUsage
                 PROVE  \E s \in all :
                           /\ ReportsUsage(X, s) /\ X[s[2]] = v.usage_envelope
                           /\ \A t \in all : ReportsUsage(X, t) /\ Fits(X, t) => t[2] <= s[2]
      OBVIOUS
    <3>1. PICK s \in old :
             /\ ReportsUsage(X, s) /\ X[s[2]] = w.usage_envelope
             /\ \A t \in old : ReportsUsage(X, t) /\ Fits(X, t) => t[2] <= s[2]
      BY <1>10, <1>12, <2>1 DEF Knows, old
    <3>2. \A t \in all : ReportsUsage(X, t) /\ Fits(X, t) => t[2] <= s[2]
      BY <1>3, <1>12, <2>1, <3>1
    <3> QED
      BY <1>3, <1>12, <2>1, <3>1, <3>2
  <2>2. CASE reports # {}
    BY <1>3, <1>13, <2>2
  <2> QED
    BY <2>1, <2>2
<1>16. v.ttft => \E s \in all : HasContentDelta(X, s)
  <2>1. CASE w.ttft
    BY <1>3, <1>10, <2>1 DEF Knows, old
  <2>2. ASSUME NEW s \in LineSpans(event), HasContentDelta(event, s)
        PROVE  \E t \in all : HasContentDelta(X, t)
    BY <1>3, <1>6, <2>2 DEF Tells
  <2> QED
    BY <1>5, <2>1, <2>2
<1>17. \A s \in all : HasContentDelta(X, s) /\ Fits(X, s) => v.ttft
  <2>1. ASSUME NEW s \in old, HasContentDelta(X, s), Fits(X, s) PROVE v.ttft
    BY <1>5, <1>10, <2>1 DEF Knows, old
  <2>2. ASSUME NEW s \in new, HasContentDelta(X, s), Fits(X, s) PROVE v.ttft
    BY <1>4, <1>5, <1>7, <2>2
  <2> QED
    BY <1>3, <2>1, <2>2
<1>18. Knows(v, X, e)
  BY <1>14, <1>15, <1>16, <1>17 DEF Knows, all
<1> QED
  BY <1>18 DEF v, event

----------------------------------------------------------------------------
(* A watcher while it is fed. *)

\* The lines of an event, and what they tell, are the same in all that begins
\* with it.
LEMMA KnowsPrefix ==
    ASSUME NEW B, NEW X, Prefix(B, X), NEW p \in Bound(B), NEW w, Knows(w, B, p)
    PROVE  p \in Bound(X) /\ Knows(w, X, p)
<1>1. /\ B \in Seq(Byte) /\ X \in Seq(Byte) /\ Len(B) \in Nat /\ Len(X) \in Nat
      /\ Len(B) <= Len(X) /\ \A i \in 1..Len(B) : B[i] = X[i]
  BY DEF Prefix
<1>2. EventEnds(B) = {i \in EventEnds(X) : i <= Len(B)}
  BY EndsAreLocal
<1>3. /\ p \in 0..Len(B) /\ p \in Bound(X)
      /\ p # 0 => p \in EventEnds(B) /\ p \in 1..Len(B)
  BY <1>1, <1>2 DEF Bound, EventEnds
<1>4. ASSUME NEW a \in Nat, NEW b \in Nat
      PROVE  <<a, b>> \in LinesTo(B, p) <=> <<a, b>> \in LinesTo(X, p)
  <2>1. <<a, b>> \in LineSpans(B) <=>
               /\ a \in 1..Len(B) /\ b \in 1..Len(B) /\ a <= b
               /\ \A k \in a..b : B[k] # "nl"
               /\ a = 1 \/ B[a - 1] = "nl"
               /\ b = Len(B) \/ B[b + 1] = "nl"
    BY <1>1, Line
  <2>2. <<a, b>> \in LineSpans(X) <=>
               /\ a \in 1..Len(X) /\ b \in 1..Len(X) /\ a <= b
               /\ \A k \in a..b : X[k] # "nl"
               /\ a = 1 \/ X[a - 1] = "nl"
               /\ b = Len(X) \/ X[b + 1] = "nl"
    BY <1>1, Line
  <2>3. CASE b < p /\ 1 <= a /\ a <= b
    <3>1. /\ a \in 1..Len(B) /\ b \in 1..Len(B) /\ b + 1 \in 1..Len(B)
          /\ a \in 1..Len(X) /\ b \in 1..Len(X) /\ b # Len(B) /\ b # Len(X)
      BY <1>1, <1>3, <2>3
    <3>2. B[b + 1] = X[b + 1]
      BY <1>1, <3>1
    <3>3. a # 1 => B[a - 1] = X[a - 1]
      <4>1. a # 1 => a - 1 \in 1..Len(B)
        BY <3>1
      <4> QED
        BY <1>1, <4>1
    <3>4. \A k \in a..b : B[k] = X[k]
      <4>1. \A k \in a..b : k \in 1..Len(B)
        BY <3>1
      <4> QED
        BY <1>1, <4>1
    <3>5. <<a, b>> \in LineSpans(B) <=> <<a, b>> \in LineSpans(X)
      BY <2>1, <2>2, <2>3, <3>1, <3>2, <3>3, <3>4
    <3> QED
      BY <3>5 DEF LinesTo
  <2>4. CASE ~(b < p)
    BY <2>4 DEF LinesTo
  <2>5. CASE ~(1 <= a /\ a <= b)
    <3>1. <<a, b>> \notin LineSpans(B) /\ <<a, b>> \notin LineSpans(X)
      BY <2>1, <2>2, <2>5
    <3> QED
      BY <3>1 DEF LinesTo
  <2> QED
    BY <2>3, <2>4, <2>5
<1>5. LinesTo(B, p) = LinesTo(X, p)
  <2>1. \A s \in LinesTo(B, p) \cup LinesTo(X, p) :
            s[1] \in Nat /\ s[2] \in Nat /\ s = <<s[1], s[2]>>
    BY <1>1, Spans DEF LinesTo
  <2>2. \A s \in LinesTo(B, p) \cup LinesTo(X, p) : s \in LinesTo(B, p) <=> s \in LinesTo(X, p)
    BY <1>4, <2>1
  <2> QED
    BY <2>2
<1>6. ASSUME NEW s \in LinesTo(B, p)
      PROVE  /\ ReportsUsage(B, s) <=> ReportsUsage(X, s)
             /\ HasContentDelta(B, s) <=> HasContentDelta(X, s)
             /\ B[s[2]] = X[s[2]]
             /\ Fits(B, s) <=> Fits(X, s)
  <2> DEFINE a == s[1]
             b == s[2]
  <2>1. s = <<a, b>> /\ a \in 1..Len(B) /\ b \in 1..Len(B) /\ a <= b /\ b < p
    BY <1>1 DEF LinesTo, LineSpans
  <2> HIDE DEF a, b
  <2>2. B[a] = X[a] /\ B[b] = X[b] /\ a \in 1..Len(X) /\ b \in 1..Len(X) /\ 0 + a = a /\ 0 + b = b
    BY <1>1, <2>1
  <2>3. /\ ReportsUsage(X, <<a, b>>) <=> ReportsUsage(B, <<a, b>>)
        /\ HasContentDelta(X, <<a, b>>) <=> HasContentDelta(B, <<a, b>>)
    BY <1>1, <2>1, <2>2, SameLine
  <2> DEFINE afterB == {e \in EventEnds(B) : b < e}
             afterX == {e \in EventEnds(X) : b < e}
  <2>4. {e \in EventEnds(B) : e < a} = {e \in EventEnds(X) : e < a}
    <3>1. \A e \in EventEnds(X) : e \in Nat
      BY DEF EventEnds
    <3> QED
      BY <1>1, <1>2, <2>1, <3>1
  <2>5. Min(afterB) = Min(afterX)
    <3>1. afterB \in SUBSET Nat /\ afterX \in SUBSET Nat
      BY <1>2 DEF EventEnds
    <3>2. p \in afterB
      BY <1>1, <1>3, <2>1
    <3>3. Min(afterB) \in afterB /\ \A e \in afterB : Min(afterB) <= e
      <4> HIDE DEF afterB
      <4> QED
        BY <3>1, <3>2, Smallest
    <3>4. Min(afterB) \in afterX /\ Min(afterB) <= Len(B) /\ Min(afterB) \in Nat
      BY <1>2, <3>1, <3>3
    <3>5. \A e \in afterX : Min(afterB) <= e
      <4> SUFFICES ASSUME NEW e \in afterX PROVE Min(afterB) <= e
        OBVIOUS
      <4>1. e \in Nat /\ (e <= Len(B) => e \in afterB)
        BY <1>2, <3>1
      <4>2. CASE e <= Len(B)
        BY <3>3, <4>1, <4>2
      <4>3. CASE ~(e <= Len(B))
        <5> HIDE DEF afterB, afterX
        <5> QED
          BY <1>1, <3>4, <4>1, <4>3
      <4> QED
        BY <4>2, <4>3
    <3> HIDE DEF afterX
    <3> QED
      BY <3>1, <3>4, <3>5, MinIs
  <2>6. /\ EventLength(B, s) = Min(afterB) - Max({0} \cup {e \in EventEnds(B) : e < a}) - 2
        /\ EventLength(X, s) = Min(afterX) - Max({0} \cup {e \in EventEnds(X) : e < a}) - 2
    BY DEF EventLength, a, b
  <2>7. Fits(B, s) <=> Fits(X, s)
    BY <2>4, <2>5, <2>6 DEF Fits
  <2> QED
    BY <2>1, <2>2, <2>3, <2>7 DEF b
<1> DEFINE lines == LinesTo(B, p)
<1>7. lines = LinesTo(X, p) /\ Knows(w, B, p) /\ lines = LinesTo(B, p)
  BY <1>5
<1> HIDE DEF lines
<1>8. \A s \in lines : /\ ReportsUsage(B, s) <=> ReportsUsage(X, s)
                       /\ HasContentDelta(B, s) <=> HasContentDelta(X, s)
                       /\ B[s[2]] = X[s[2]]
                       /\ Fits(B, s) <=> Fits(X, s)
  BY <1>6, <1>7
<1>9. w.usage_envelope = NoUsage => \A s \in lines : ReportsUsage(X, s) => ~Fits(X, s)
  BY <1>7, <1>8 DEF Knows
<1>10. w.usage_envelope # NoUsage =>
          \E s \in lines :
             /\ ReportsUsage(X, s) /\ X[s[2]] = w.usage_envelope
             /\ \A t \in lines : ReportsUsage(X, t) /\ Fits(X, t) => t[2] <= s[2]
  BY <1>7, <1>8 DEF Knows
<1>11. /\ w.ttft => \E s \in lines : HasContentDelta(X, s)
       /\ \A s \in lines : HasContentDelta(X, s) /\ Fits(X, s) => w.ttft
  BY <1>7, <1>8 DEF Knows
<1> QED
  BY <1>3, <1>7, <1>9, <1>10, <1>11 DEF Knows

\* A piece of the end of a body is a piece of the body.
LEMMA PieceOfTheEnd ==
    ASSUME NEW X \in Seq(Byte), NEW q \in 0..Len(X), NEW a \in Nat \ {0}, NEW b \in Nat,
           q + b <= Len(X), NEW end, end = SubSeq(X, q + 1, Len(X))
    PROVE  SubSeq(end, a, b) = SubSeq(X, q + a, q + b)
<1>1. /\ end \in Seq(Byte) /\ Len(end) = Len(X) - q
      /\ \A i \in 1..(Len(X) - q) : end[i] = X[q + i]
  OBVIOUS
<1>2. SubSeq(end, a, b) = SubSeq(X, q + a, q + b)
  <2>1. SubSeq(end, a, b) = [i \in 1..(b - a + 1) |-> end[i + a - 1]]
    BY <1>1
  <2>2. SubSeq(X, q + a, q + b) = [i \in 1..((q + b) - (q + a) + 1) |-> X[i + (q + a) - 1]]
    OBVIOUS
  <2>3. (q + b) - (q + a) + 1 = b - a + 1
    OBVIOUS
  <2>4. \A i \in 1..(b - a + 1) : end[i + a - 1] = X[i + (q + a) - 1]
    <3> SUFFICES ASSUME NEW i \in 1..(b - a + 1) PROVE end[i + a - 1] = X[i + (q + a) - 1]
      OBVIOUS
    <3>1. i + a - 1 \in 1..(Len(X) - q) /\ q + (i + a - 1) = i + (q + a) - 1
      OBVIOUS
    <3> QED
      BY <1>1, <3>1
  <2> QED
    BY <2>1, <2>2, <2>3, <2>4
<1> QED
  BY <1>2

\* Between chunks.  The last event to end did so at p; the watcher holds what
\* came after q, and the bytes between them were lost to the cap.
Holds(w, X, p, q) ==
    /\ p \in Bound(X) /\ q \in p..Len(X)
    /\ w.residual = SubSeq(X, q + 1, Len(X))
    /\ \A j \in (p + 1)..(Len(X) - 1) : ~Pair(X, j)
    /\ p < q => q < Len(X) /\ Len(X) - p > Cap
    /\ Knows(w, X, p)

\* While feed splits events off: the same, of a residual that may hold several.
Splits(w, X, p, q) ==
    /\ p \in Bound(X) /\ q \in p..Len(X)
    /\ w.residual = SubSeq(X, q + 1, Len(X))
    /\ \A j \in (p + 1)..q : ~Pair(X, j)
    /\ p < q => /\ q < Len(X) /\ Len(X) - p > Cap
                /\ \A e \in EventEnds(X) : p < e => e - p - 2 >= Cap
    /\ Knows(w, X, p)

LEMMA HoldsObserves ==
    ASSUME NEW w, NEW X \in Seq(Byte), NEW p, NEW q, Holds(w, X, p, q)
    PROVE  Observes(w, X)
<1>1. p \in Bound(X) /\ p \in Nat /\ Len(X) \in Nat /\ q \in p..Len(X) /\ Len(X) \in p..Len(X)
  BY DEF Holds, Bound, EventEnds
<1>2. \A i \in (p + 1)..Len(X) : i \notin EventEnds(X)
  BY <1>1, NoEnd DEF Holds
<1>3. \A e \in EventEnds(X) : e \in 1..Len(X)
  BY DEF EventEnds
<1>4. \A e \in EventEnds(X) : e <= p
  BY <1>1, <1>2, <1>3
<1> QED
  BY <1>1, <1>4, KnowsObserves DEF Holds

\* Splitting off an event.
LEMMA SplitOff ==
    ASSUME NEW X \in Seq(Byte), LinesStart(X), NEW p, NEW q,
           NEW w \in Watcher, Splits(w, X, p, q), ~Whole(w)
    PROVE  \E e \in Nat : Splits(Rest(w), X, e, e)
<1> DEFINE cut == Cut(w)
           e == q + cut + 1
<1>1. p \in Nat /\ q \in Nat /\ Len(X) \in Nat /\ q \in 0..Len(X) /\ p <= q /\ p \in Bound(X)
  BY DEF Splits, Bound, EventEnds
<1> DEFINE text == w.residual
<1>0. text = SubSeq(X, q + 1, Len(X))
  BY DEF Splits
<1> HIDE DEF text
<1>2. Len(text) = Len(X) - q /\ \A i \in 1..(Len(X) - q) : text[i] = X[q + i]
  BY <1>0, <1>1
<1>3. /\ cut \in 1..(Len(X) - q - 1)
      /\ text[cut] = "nl" /\ text[cut + 1] = "nl"
      /\ \A i \in 1..(cut - 1) : ~(text[i] = "nl" /\ text[i + 1] = "nl")
  BY <1>1, <1>2, FirstCut DEF text
<1> HIDE DEF cut
<1>4. e \in (p + 2)..Len(X) /\ e >= q + 2 /\ e - 1 = q + cut /\ e = q + (cut + 1)
      /\ e - 2 = q + (cut - 1) /\ cut \in 1..(Len(X) - q) /\ cut + 1 \in 1..(Len(X) - q) /\ e \in Nat
  BY <1>1, <1>3
<1> HIDE DEF e
<1>5. X[e - 1] = "nl" /\ Pair(X, e - 1)
  <2>1. X[q + cut] = "nl" /\ X[q + (cut + 1)] = "nl"
    BY <1>2, <1>3, <1>4
  <2>2. (e - 1) + 1 = e
    BY <1>4
  <2> QED
    BY <1>4, <2>1, <2>2 DEF Pair
<1>6. ASSUME NEW j \in (p + 1)..(e - 2) PROVE ~Pair(X, j)
  <2>1. CASE j <= q
    BY <1>1, <2>1 DEF Splits
  <2>2. CASE j > q
    <3>1. /\ j - q \in 1..(cut - 1) /\ j - q \in 1..(Len(X) - q) /\ (j - q) + 1 \in 1..(Len(X) - q)
          /\ q + (j - q) = j /\ q + ((j - q) + 1) = j + 1
      BY <1>1, <1>4, <2>2
    <3>2. text[j - q] = X[q + (j - q)] /\ text[(j - q) + 1] = X[q + ((j - q) + 1)]
      BY <1>2, <3>1
    <3> QED
      BY <1>3, <3>1, <3>2 DEF Pair
  <2> QED
    BY <1>1, <1>4, <2>1, <2>2
<1>7. e \in EventEnds(X) /\ \A i \in (p + 1)..(e - 1) : i \notin EventEnds(X)
  BY <1>1, <1>4, <1>5, <1>6, NextEnd
<1>8. p < q => e - p - 2 >= Cap
  BY <1>1, <1>4, <1>7 DEF Splits
<1>9. Knows(w, X, p)
  BY DEF Splits
<1>10. Knows(Consume(w, SubSeq(X, q + 1, e - 2)), X, e)
  BY <1>1, <1>4, <1>5, <1>7, <1>8, <1>9, KnowsStep
<1>11. SubSeq(text, 1, cut - 1) = SubSeq(X, q + 1, e - 2)
  <2>1. 1 \in Nat \ {0} /\ cut - 1 \in Nat /\ q + (cut - 1) <= Len(X)
    BY <1>1, <1>3, <1>4
  <2> QED
    BY <1>0, <1>1, <1>4, <2>1, PieceOfTheEnd
<1>12. SubSeq(text, cut + 2, Len(text)) = SubSeq(X, e + 1, Len(X))
  <2>1. /\ cut + 2 \in Nat \ {0} /\ Len(X) - q \in Nat /\ q + (Len(X) - q) = Len(X)
        /\ q + (Len(X) - q) <= Len(X) /\ q + (cut + 2) = e + 1
    BY <1>1, <1>3, <1>4
  <2> DEFINE a == cut + 2
             b == Len(X) - q
  <2>2. a \in Nat \ {0} /\ b \in Nat /\ q + b <= Len(X) /\ Len(text) = b
    BY <1>2, <2>1
  <2> HIDE DEF a, b
  <2>3. SubSeq(text, a, b) = SubSeq(X, q + a, q + b)
    BY <1>0, <1>1, <2>2, PieceOfTheEnd
  <2>4. q + a = e + 1 /\ q + b = Len(X) /\ a = cut + 2
    BY <2>1 DEF a, b
  <2> QED
    BY <2>2, <2>3, <2>4
<1> DEFINE v == Consume(w, SubSeq(X, q + 1, e - 2))
<1>13. v \in Watcher
  <2>1. SubSeq(X, q + 1, e - 2) \in Seq(Byte)
    BY <1>1, <1>4
  <2> QED
    BY <2>1, Consumed
<1> HIDE DEF v
<1>14. Rest(w) = [v EXCEPT !.residual = SubSeq(X, e + 1, Len(X))]
  BY <1>11, <1>12 DEF Rest, cut, v, text
<1>15. /\ Rest(w).residual = SubSeq(X, e + 1, Len(X))
       /\ Rest(w).usage_envelope = v.usage_envelope /\ Rest(w).ttft = v.ttft
  BY <1>13, <1>14 DEF Watcher
<1>16. Knows(Rest(w), X, e)
  BY <1>10, <1>15 DEF Knows, v
<1>17. Splits(Rest(w), X, e, e)
  <2>1. e \in Bound(X) /\ e \in e..Len(X) /\ ~(e < e) /\ (e + 1)..e = {}
    BY <1>1, <1>4, <1>7 DEF Bound
  <2> QED
    BY <1>15, <1>16, <2>1 DEF Splits
<1> QED
  BY <1>4, <1>17

\* Splitting off all there are.
LEMMA SplitAll ==
    ASSUME NEW X \in Seq(Byte), LinesStart(X), NEW w \in Watcher,
           NEW p \in Nat, NEW q \in Nat, Splits(w, X, p, q)
    PROVE  /\ ConsumeEvents[w] \in Watcher /\ Whole(ConsumeEvents[w])
           /\ \E i, j \in Nat : Splits(ConsumeEvents[w], X, i, j)
<1> DEFINE Kept == {v \in Watcher : \E i, j \in Nat : Splits(v, X, i, j)}
<1>1. \A v \in Kept : ~Whole(v) => Rest(v) \in Kept
  <2> SUFFICES ASSUME NEW v \in Watcher, NEW i \in Nat, NEW j \in Nat, Splits(v, X, i, j), ~Whole(v)
               PROVE  Rest(v) \in Kept
    OBVIOUS
  <2>1. Rest(v) \in Watcher
    BY RestIsShorter
  <2>2. \E e \in Nat : Splits(Rest(v), X, e, e)
    BY SplitOff
  <2> QED
    BY <2>1, <2>2
<1>2. w \in Kept
  OBVIOUS
<1>3. \A v \in Kept : ConsumeEvents[v] \in Kept /\ Whole(ConsumeEvents[v])
  <2>1. Kept \in SUBSET Watcher
    OBVIOUS
  <2> HIDE DEF Kept
  <2> QED
    BY <1>1, <2>1, LoopKeeps
<1>4. ConsumeEvents[w] \in Kept /\ Whole(ConsumeEvents[w])
  BY <1>2, <1>3
<1> QED
  BY <1>4

LEMMA Joined ==
    ASSUME NEW r \in Seq(Byte), NEW chunk \in Seq(Byte)
    PROVE  /\ r \o chunk \in Seq(Byte) /\ Len(r \o chunk) = Len(r) + Len(chunk)
           /\ \A i \in 1..Len(r) : (r \o chunk)[i] = r[i]
           /\ \A i \in 1..Len(chunk) : (r \o chunk)[Len(r) + i] = chunk[i]
OBVIOUS

\* A chunk is added to what the watcher holds.
LEMMA TakeIn ==
    ASSUME NEW w \in Watcher, NEW B \in Seq(Byte), NEW chunk \in Seq(Byte),
           NEW p, NEW q, Holds(w, B, p, q)
    PROVE  Splits([w EXCEPT !.residual = @ \o chunk], B \o chunk, p, q)
<1> DEFINE X == B \o chunk
           fuller == [w EXCEPT !.residual = @ \o chunk]
<1>1. /\ X \in Seq(Byte) /\ Len(B) \in Nat /\ Len(chunk) \in Nat
      /\ Len(X) = Len(B) + Len(chunk) /\ \A i \in 1..Len(B) : X[i] = B[i]
      /\ \A i \in 1..Len(chunk) : X[Len(B) + i] = chunk[i]
  OBVIOUS
<1>2. fuller.residual = w.residual \o chunk /\ fuller.usage_envelope = w.usage_envelope
      /\ fuller.ttft = w.ttft
  BY DEF Watcher
<1>3. p \in Nat /\ p \in Bound(B) /\ q \in p..Len(B) /\ q \in Nat
  BY <1>1 DEF Holds, Bound, EventEnds
<1>4. w.residual = SubSeq(B, q + 1, Len(B))
  BY DEF Holds
<1> HIDE DEF X, fuller
<1>5. Prefix(B, X)
  BY <1>1 DEF Prefix
<1>6. p \in Bound(X) /\ Knows(w, X, p)
  BY <1>3, <1>5, KnowsPrefix DEF Holds
<1>7. w.residual \o chunk = SubSeq(X, q + 1, Len(X))
  <2> DEFINE r == w.residual
             s == r \o chunk
             t == SubSeq(X, q + 1, Len(X))
             n == Len(X) - q
  <2>1. /\ r \in Seq(Byte) /\ Len(r) = Len(B) - q
        /\ \A i \in 1..(Len(B) - q) : r[i] = B[q + i]
    BY <1>1, <1>3, <1>4
  <2> HIDE DEF r
  <2>2. /\ s \in Seq(Byte) /\ Len(s) = (Len(B) - q) + Len(chunk)
        /\ \A i \in 1..(Len(B) - q) : s[i] = r[i]
        /\ \A i \in 1..Len(chunk) : s[(Len(B) - q) + i] = chunk[i]
    <3>1. /\ s \in Seq(Byte) /\ Len(s) = Len(r) + Len(chunk)
          /\ \A i \in 1..Len(r) : s[i] = r[i]
          /\ \A i \in 1..Len(chunk) : s[Len(r) + i] = chunk[i]
      BY <2>1, Joined
    <3> HIDE DEF s
    <3> QED
      BY <2>1, <3>1
  <2>3. t \in Seq(Byte) /\ Len(t) = n /\ n \in Nat /\ \A i \in 1..n : t[i] = X[q + i]
    BY <1>1, <1>3
  <2> HIDE DEF s, t
  <2>4. ASSUME NEW i \in 1..n PROVE s[i] = t[i]
    <3>1. CASE i <= Len(B) - q
      <4>1. i \in 1..(Len(B) - q) /\ q + i \in 1..Len(B)
        BY <1>1, <1>3, <3>1
      <4> QED
        BY <1>1, <2>1, <2>2, <2>3, <4>1
    <3>2. CASE ~(i <= Len(B) - q)
      <4> DEFINE k == i - (Len(B) - q)
      <4>1. k \in 1..Len(chunk) /\ (Len(B) - q) + k = i /\ Len(B) + k = q + i
        BY <1>1, <1>3, <3>2
      <4> HIDE DEF k
      <4>2. s[(Len(B) - q) + k] = chunk[k] /\ X[Len(B) + k] = chunk[k]
        BY <1>1, <2>2, <4>1
      <4> QED
        BY <2>3, <4>1, <4>2
    <3> QED
      BY <3>1, <3>2
  <2>5. Len(s) = Len(t)
    BY <1>1, <1>3, <2>2, <2>3
  <2>6. s = t
    <3>1. \A i \in 1..Len(s) : s[i] = t[i]
      BY <2>3, <2>4, <2>5
    <3> HIDE DEF n
    <3> QED
      BY <2>2, <2>3, <2>5, <3>1
  <2> QED
    BY <2>6 DEF s, t, r
<1>8. ASSUME NEW j \in (p + 1)..(Len(B) - 1) PROVE ~Pair(X, j)
  <2>1. ~Pair(B, j) /\ j \in 1..Len(B) /\ j + 1 \in 1..Len(B)
    BY <1>1, <1>3 DEF Holds
  <2> QED
    BY <1>1, <2>1 DEF Pair
<1>9. ASSUME p < q
      PROVE  /\ q < Len(B) /\ Len(B) - p > Cap
             /\ \A e \in EventEnds(X) : p < e => e - p - 2 >= Cap
  <2>1. q < Len(B) /\ Len(B) - p > Cap
    BY <1>9 DEF Holds
  <2>2. \A i \in (p + 1)..Len(B) : i \notin EventEnds(X)
    <3>1. Len(B) \in p..Len(X)
      BY <1>1, <1>3
    <3> QED
      BY <1>1, <1>6, <1>8, <3>1, NoEnd
  <2>3. ASSUME NEW e \in EventEnds(X), p < e PROVE e - p - 2 >= Cap
    <3>1. e \in Nat /\ e > Len(B)
      BY <1>1, <1>3, <2>2, <2>3 DEF EventEnds
    <3> QED
      BY <1>1, <1>3, <2>1, <3>1, CapAssumption
  <2> QED
    BY <2>1, <2>3
<1>10. \A j \in (p + 1)..q : ~Pair(X, j)
  BY <1>1, <1>3, <1>8, <1>9
<1>11. Knows(fuller, X, p)
  BY <1>2, <1>6 DEF Knows
<1>12. Splits(fuller, X, p, q)
  <2>1. q \in p..Len(X) /\ (p < q => q < Len(X) /\ Len(X) - p > Cap)
    BY <1>1, <1>3, <1>9, CapAssumption
  <2> QED
    BY <1>2, <1>6, <1>7, <1>9, <1>10, <1>11, <2>1 DEF Splits
<1> QED
  BY <1>12 DEF fuller, X

\* The cap is applied to what is left.
LEMMA KeepTheLast ==
    ASSUME NEW X \in Seq(Byte), NEW w \in Watcher, NEW p \in Nat, NEW q \in Nat,
           Splits(w, X, p, q), Whole(w)
    PROVE  \E k \in Nat : Holds([w EXCEPT !.residual = KeepLast(@, Cap)], X, p, k)
<1> DEFINE text == w.residual
           v == [w EXCEPT !.residual = KeepLast(@, Cap)]
<1>1. /\ Len(X) \in Nat /\ q \in p..Len(X) /\ q \in 0..Len(X) /\ p \in Bound(X)
      /\ Cap \in Nat /\ Cap > 0
  BY CapAssumption DEF Splits
<1>2. text = SubSeq(X, q + 1, Len(X))
  BY DEF Splits
<1>3. v.residual = KeepLast(text, Cap) /\ v.usage_envelope = w.usage_envelope /\ v.ttft = w.ttft
  BY DEF Watcher
<1>4. Delimiters(text) = {}
  BY DEF Whole
<1> HIDE DEF text, v
<1>5. /\ text \in Seq(Byte) /\ Len(text) = Len(X) - q
      /\ \A i \in 1..(Len(X) - q) : text[i] = X[q + i]
  BY <1>1, <1>2
<1>6. ASSUME NEW j \in (p + 1)..(Len(X) - 1) PROVE ~Pair(X, j)
  <2>1. CASE j <= q
    BY <1>1, <2>1 DEF Splits
  <2>2. CASE j > q
    <3> DEFINE i == j - q
    <3>1. i \in 1..(Len(X) - q) /\ i + 1 \in 1..(Len(X) - q) /\ q + i = j /\ q + (i + 1) = j + 1
      BY <1>1, <2>2
    <3> HIDE DEF i
    <3>2. text[i] = X[q + i] /\ text[i + 1] = X[q + (i + 1)]
      BY <1>5, <3>1
    <3>3. i \in 1..Len(text) /\ i < Len(text)
      BY <1>1, <1>5, <3>1
    <3>4. ~(text[i] = "nl" /\ text[i + 1] = "nl")
      BY <1>4, <3>3 DEF Delimiters
    <3> QED
      BY <3>1, <3>2, <3>4 DEF Pair
  <2> QED
    BY <1>1, <2>1, <2>2
<1>7. Knows(v, X, p)
  BY <1>3 DEF Splits, Knows
<1>8. CASE Len(X) - q <= Cap
  <2>1. v.residual = SubSeq(X, q + 1, Len(X))
    BY <1>2, <1>3, <1>5, <1>8 DEF KeepLast
  <2>2. p < q => q < Len(X) /\ Len(X) - p > Cap
    BY DEF Splits
  <2>3. Holds(v, X, p, q)
    BY <1>1, <1>6, <1>7, <2>1, <2>2 DEF Holds
  <2> QED
    BY <2>3 DEF v
<1>9. CASE ~(Len(X) - q <= Cap)
  <2> DEFINE k == Len(X) - Cap
             a == (Len(X) - q) - Cap + 1
             b == Len(X) - q
  <2>1. /\ k \in Nat /\ k \in p..Len(X) /\ k < Len(X) /\ Len(X) - p > Cap
        /\ a \in Nat \ {0} /\ b \in Nat /\ q + b <= Len(X) /\ q + a = k + 1 /\ q + b = Len(X)
    BY <1>1, <1>9
  <2>2. v.residual = SubSeq(text, a, b)
    BY <1>3, <1>5, <1>9 DEF KeepLast
  <2> HIDE DEF a, b, k
  <2>3. SubSeq(text, a, b) = SubSeq(X, q + a, q + b)
    BY <1>1, <1>2, <2>1, PieceOfTheEnd
  <2>4. v.residual = SubSeq(X, k + 1, Len(X))
    BY <2>1, <2>2, <2>3
  <2>5. Holds(v, X, p, k)
    BY <1>1, <1>6, <1>7, <2>1, <2>4 DEF Holds
  <2> QED
    BY <2>1, <2>5 DEF v
<1> QED
  BY <1>8, <1>9

\* feed keeps what the watcher knows of the body so far.
LEMMA FeedKeeps ==
    ASSUME NEW w \in Watcher, NEW B \in Seq(Byte), NEW chunk \in Seq(Byte), LinesStart(B \o chunk),
           \E p, q \in Nat : Holds(w, B, p, q)
    PROVE  \E p, q \in Nat : Holds(Feed(w, chunk), B \o chunk, p, q)
<1> DEFINE X == B \o chunk
           fuller == [w EXCEPT !.residual = @ \o chunk]
           fed == ConsumeEvents[fuller]
<1>1. PICK p \in Nat, q \in Nat : Holds(w, B, p, q)
  OBVIOUS
<1>2. Splits(fuller, X, p, q)
  BY <1>1, TakeIn
<1>3. fuller \in Watcher /\ X \in Seq(Byte) /\ LinesStart(X)
  <2>1. w.residual \o chunk \in Seq(Byte) /\ B \o chunk \in Seq(Byte)
    BY Residual, Joined
  <2> QED
    BY <2>1 DEF Watcher
<1> HIDE DEF X, fuller
<1>4. fed \in Watcher /\ Whole(fed) /\ \E i, j \in Nat : Splits(fed, X, i, j)
  BY <1>2, <1>3, SplitAll
<1> HIDE DEF fed
<1>5. PICK i \in Nat, j \in Nat : Splits(fed, X, i, j)
  BY <1>4
<1>6. \E k \in Nat : Holds([fed EXCEPT !.residual = KeepLast(@, Cap)], X, i, k)
  BY <1>3, <1>4, <1>5, KeepTheLast
<1>7. Feed(w, chunk) = [fed EXCEPT !.residual = KeepLast(@, Cap)]
  BY DEF Feed, fed, fuller
<1> QED
  BY <1>6, <1>7 DEF X

\* A watcher that has been fed nothing.
LEMMA NewHolds == \E p, q \in Nat : Holds(NewWatcher, <<>>, p, q)
<1>1. EventEnds(<<>>) = {} /\ LineSpans(<<>>) = {}
  BY DEF EventEnds, LineSpans
<1>2. LinesTo(<<>>, 0) = {}
  BY <1>1 DEF LinesTo
<1>3. Knows(NewWatcher, <<>>, 0)
  BY <1>2 DEF Knows, NewWatcher
<1>4. NewWatcher.residual = SubSeq(<<>>, 0 + 1, Len(<<>>))
  BY DEF NewWatcher
<1>5. Holds(NewWatcher, <<>>, 0, 0)
  BY <1>3, <1>4 DEF Holds, Bound
<1> QED
  BY <1>5
=============================================================================
