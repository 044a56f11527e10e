------------------------- MODULE RequestLogsProofs -------------------------
(***************************************************************************)
(* Proofs about RequestLogs, for every set of calls, price table, window   *)
(* and retention: where every row went, whom the warnings spare, and what  *)
(* pruning and reports on the past may never do.                           *)
(***************************************************************************)
EXTENDS RequestLogs, CostProofs, FiniteSetTheorems, SequenceTheorems

----------------------------------------------------------------------------
(* Facts about the definitions the actions are built from. *)

\* A row has the columns of its record.
LEMMA RowFacts ==
    ASSUME NEW c \in Calls
    PROVE  RowOf(c).created_at = started[c] /\ RowOf(c).model = Record(c).model
<1>1. "model" \in DOMAIN Record(c)
  BY DEF Record, BuildLogRecord
<1> QED
  BY <1>1 DEF RowOf

\* What a report on a window names is the label of some call.
LEMMA CostLabels ==
    ASSUME TypeOK, RowsAreRecords, NEW window
    PROVE  /\ DOMAIN QueryCostByModel(window) \subseteq Labels
           /\ IsFiniteSet(DOMAIN QueryCostByModel(window))
<1>1. DOMAIN QueryCostByModel(window) = {ModelLabel(request_logs[c]) : c \in Select(window)}
  BY DEF QueryCostByModel
<1>2. Select(window) \subseteq Calls /\ IsFiniteSet(Select(window))
  BY CallsAssumption, FS_Subset DEF Select, TypeOK
<1>3. \A c \in Select(window) : ModelLabel(request_logs[c]) \in Labels
  <2>1. ASSUME NEW c \in Select(window) PROVE ModelLabel(request_logs[c]) \in Labels
    <3>1. c \in Calls /\ request_logs[c] = RowOf(c)
      BY DEF RowsAreRecords, Select, TypeOK
    <3> QED
      BY <3>1, RowFacts DEF ModelLabel, Labels
  <2> QED
    BY <2>1
<1>4. IsFiniteSet({ModelLabel(request_logs[c]) : c \in Select(window)})
  <2> DEFINE f == [c \in Select(window) |-> ModelLabel(request_logs[c])]
             S == {ModelLabel(request_logs[c]) : c \in Select(window)}
  <2>1. f \in Surjection(Select(window), S)
    BY DEF Surjection
  <2> HIDE DEF f, S
  <2>2. IsFiniteSet(S)
    BY <1>2, <2>1, FS_Surjection
  <2> QED
    BY <2>2 DEF S
<1> QED
  BY <1>1, <1>3, <1>4

\* The model of a call is its label, where it has one.
LEMMA BuiltLabels ==
    ASSUME NEW c \in Calls
    PROVE  LET models == IF Record(c).usage = Null THEN {} ELSE {Record(c).model} \ {Null}
           IN  models \subseteq Labels /\ IsFiniteSet(models)
<1> DEFINE models == IF Record(c).usage = Null THEN {} ELSE {Record(c).model} \ {Null}
<1>1. models \subseteq {Record(c).model}
  OBVIOUS
<1>2. IsFiniteSet({Record(c).model})
  BY FS_Singleton
<1>3. IsFiniteSet(models)
  BY <1>1, <1>2, FS_Subset
<1>4. models \subseteq Labels
  BY DEF Labels, ModelLabel
<1> QED
  BY <1>3, <1>4

----------------------------------------------------------------------------
(* Warnings. *)

\* Looking models up warns of each that is new, and remembers as many as there is
\* room for: where one is mentioned and not remembered, there was no room.
LEMMA WarnStep ==
    ASSUME TypeOK, WarnedOnce, NEW models \in SUBSET Labels, IsFiniteSet(models),
           IsFiniteSet(Labels), WarnUnpriced(models)
    PROVE  /\ unpriced_seen' \subseteq Labels /\ warned' \in [Labels -> 0..2]
           /\ WarnedOnce'
<1> DEFINE fresh == {m \in models : LacksPrice(m)} \ unpriced_seen
           room  == UnpricedLimit - Cardinality(unpriced_seen)
           kept  == IF Cardinality(fresh) <= room THEN Cardinality(fresh) ELSE room
<1>1. PICK m \in kSubset(kept, fresh) : unpriced_seen' = unpriced_seen \cup m
  BY DEF WarnUnpriced
<1>2. warned' = [n \in Labels |->
                   IF n \in fresh /\ warned[n] < 2 THEN warned[n] + 1 ELSE warned[n]]
  BY DEF WarnUnpriced, TypeOK
<1>3. /\ fresh \subseteq Labels /\ fresh \cap unpriced_seen = {}
      /\ IsFiniteSet(fresh) /\ IsFiniteSet(unpriced_seen)
      /\ Cardinality(fresh) \in Nat /\ Cardinality(unpriced_seen) \in Nat
  BY FS_Subset, FS_CardinalityType DEF TypeOK
<1>4. m \subseteq fresh /\ Cardinality(m) = kept /\ IsFiniteSet(m)
  BY <1>1, <1>3, FS_Subset DEF kSubset
<1>5. room \in Nat /\ room = UnpricedLimit - Cardinality(unpriced_seen)
  BY <1>3, BoundsAssumption DEF WarnedOnce
<1>6. kept \in Nat
  BY <1>3, <1>5
<1>7. unpriced_seen' \subseteq Labels /\ warned' \in [Labels -> 0..2]
  BY <1>1, <1>2, <1>3, <1>4 DEF TypeOK
<1> HIDE DEF fresh, room, kept
<1>8. IsFiniteSet(unpriced_seen') /\ Cardinality(unpriced_seen') = Cardinality(unpriced_seen) + kept
  <2>1. unpriced_seen \cap m = {}
    BY <1>3, <1>4
  <2>2. Cardinality(unpriced_seen \cap m) = 0
    BY <2>1, FS_EmptySet
  <2>3. /\ IsFiniteSet(unpriced_seen \cup m)
        /\ Cardinality(unpriced_seen \cup m) = Cardinality(unpriced_seen) + Cardinality(m) - 0
    BY <1>3, <1>4, <2>2, FS_Union
  <2> QED
    BY <1>1, <1>3, <1>4, <1>6, <2>3
<1>9. Cardinality(unpriced_seen') <= UnpricedLimit
  BY <1>3, <1>5, <1>8, BoundsAssumption DEF kept
<1>10. CASE Cardinality(unpriced_seen) = UnpricedLimit
  <2>1. kept = 0
    BY <1>3, <1>5, <1>10, BoundsAssumption DEF kept
  <2>2. m = {}
    BY <1>4, <2>1, FS_EmptySet
  <2>3. unpriced_seen' = unpriced_seen
    BY <1>1, <2>2
  <2>4. \A n \in unpriced_seen : warned'[n] = warned[n]
    BY <1>2, <1>3 DEF TypeOK
  <2> QED
    BY <1>7, <1>9, <1>10, <2>3, <2>4 DEF WarnedOnce
<1>11. CASE Cardinality(unpriced_seen) # UnpricedLimit
  <2>1. \A n \in Labels \ unpriced_seen : warned[n] = 0
    BY <1>11 DEF WarnedOnce, TypeOK
  <2>2. \A n \in unpriced_seen' : warned'[n] = 1
    <3>1. \A n \in unpriced_seen : n \in Labels /\ warned[n] = 1 /\ n \notin fresh
      BY <1>3 DEF WarnedOnce, TypeOK
    <3>2. \A n \in m : n \in Labels /\ n \in fresh /\ warned[n] = 0
      BY <1>3, <1>4, <2>1
    <3> QED
      BY <1>1, <1>2, <3>1, <3>2
  <2>3. ASSUME NEW n \in Labels \ unpriced_seen', warned'[n] > 0
        PROVE  Cardinality(unpriced_seen') = UnpricedLimit
    <3>1. warned[n] = 0
      BY <1>1, <2>1, <2>3
    <3>2. n \in fresh /\ n \notin m
      BY <1>1, <1>2, <2>3, <3>1
    <3>3. kept = room
      <4>1. ASSUME Cardinality(m) = Cardinality(fresh) PROVE FALSE
        BY <1>3, <1>4, <3>2, <4>1, FS_Subset
      <4> QED
        BY <1>4, <4>1 DEF kept
    <3> QED
      BY <1>3, <1>5, <1>8, <3>3, BoundsAssumption
  <2> QED
    BY <1>7, <1>9, <2>2, <2>3 DEF WarnedOnce
<1> QED
  BY <1>7, <1>10, <1>11

LEMMA LabelsFinite == IsFiniteSet(Labels)
<1> DEFINE f == [c \in Calls |-> ModelLabel(Record(c))]
<1>1. f \in Surjection(Calls, Labels)
  BY DEF Surjection, Labels
<1> HIDE DEF f
<1> QED
  BY <1>1, CallsAssumption, FS_Surjection

----------------------------------------------------------------------------
(* The inductive invariant. *)

Committed == {c \in Calls : writer[c] = "committed"}

\* What was deleted is no more than the calls there are.
LEMMA CountsFit ==
    ASSUME NEW C \in SUBSET Calls, NEW D, NEW n \in Nat, IsFiniteSet(D),
           Cardinality(C) = Cardinality(D) + n
    PROVE  n \in 0 .. Cardinality(Calls)
<1>1. /\ Cardinality(Calls) \in Nat /\ Cardinality(C) \in Nat
      /\ Cardinality(C) <= Cardinality(Calls)
  BY CallsAssumption, FS_Subset, FS_CardinalityType
<1>2. Cardinality(D) \in Nat
  BY FS_CardinalityType
<1> QED
  BY <1>1, <1>2

LEMMA IInvInit == Init => IInv
<1> SUFFICES ASSUME Init PROVE IInv
  OBVIOUS
<1>1. /\ Cardinality({}) = 0 /\ DOMAIN request_logs = {}
      /\ {c \in Calls : writer[c] = "committed"} = {}
  BY FS_EmptySet DEF Init
<1>2. Cardinality(Calls) \in Nat
  BY CallsAssumption, FS_CardinalityType
<1>3. TypeOK
  BY <1>1, <1>2, BoundsAssumption DEF Init, TypeOK
<1>4. RowsAreRecords /\ CutoffIsPast /\ PromiseStands
  BY <1>1 DEF Init, RowsAreRecords, CutoffIsPast, PromiseStands
<1>5. EveryRowAccountedFor
  <2>1. Cardinality(DOMAIN request_logs) = 0 /\ deleted = 0
    BY <1>1 DEF Init
  <2>2. Cardinality({c \in Calls : writer[c] = "committed"}) = 0
    BY <1>1
  <2> QED
    BY <2>1, <2>2 DEF EveryRowAccountedFor
<1>6. WarnedOnce
  <2>1. Cardinality(unpriced_seen) = 0 /\ \A m \in DOMAIN warned : warned[m] = 0
    BY <1>1 DEF Init
  <2> QED
    BY <2>1, BoundsAssumption DEF Init, WarnedOnce
<1> QED
  BY <1>3, <1>4, <1>5, <1>6 DEF IInv

\* A step that neither adds a row nor takes one away, and starts no transaction anew.
LEMMA RowsStay ==
    ASSUME IInv, UNCHANGED <<request_logs, deleted>>,
           writer' \in [Calls -> {"idle", "recorded", "inserting", "committed", "lost"}],
           \A c \in Calls : writer'[c] = "committed" <=> writer[c] = "committed",
           \A c \in Calls : writer[c] = "committed" => started'[c] = started[c]
    PROVE  RowsAreRecords' /\ EveryRowAccountedFor' /\ \A t : OlderThan(t)' = OlderThan(t)
<1>1. \A c \in DOMAIN request_logs : c \in Calls /\ writer'[c] = "committed" /\ RowOf(c)' = RowOf(c)
  BY DEF IInv, TypeOK, RowsAreRecords, RowOf
<1>2. {c \in Calls : writer'[c] = "committed"} = {c \in Calls : writer[c] = "committed"}
  OBVIOUS
<1> QED
  BY <1>1, <1>2 DEF IInv, RowsAreRecords, EveryRowAccountedFor, OlderThan

\* A prune that is under way has a retention and a cutoff.
LEMMA PrunerFacts ==
    ASSUME TypeOK, pruner.pc = "started"
    PROVE  pruner.days \in Days /\ pruner.days \in Int /\ pruner.cutoff \in Int
<1>1. pruner \in [pc : {"started"}, days : Days, dry_run : BOOLEAN, cutoff : Int]
  BY DEF TypeOK
<1> QED
  BY <1>1, RetentionAssumption

LEMMA TickOk == ASSUME IInv, Tick PROVE IInv'
<1>1. TypeOK'
  BY BoundsAssumption DEF Tick, IInv, TypeOK
<1>2. /\ RowsAreRecords' /\ EveryRowAccountedFor' /\ \A t : OlderThan(t)' = OlderThan(t)
  BY RowsStay DEF Tick, IInv, TypeOK
<1>3. CutoffIsPast'
  <2>1. clock' = clock + 1 /\ pruner' = pruner /\ clock \in Int
    BY DEF Tick, IInv, TypeOK
  <2> QED
    BY <2>1, PrunerFacts DEF IInv, CutoffIsPast
<1>4. PromiseStands' /\ WarnedOnce'
  BY <1>2 DEF Tick, IInv, PromiseStands, WarnedOnce
<1> QED
  BY <1>1, <1>2, <1>3, <1>4 DEF IInv

LEMMA BuildOk == ASSUME IInv, NEW c \in Calls, Build(c) PROVE IInv'
<1> DEFINE models == IF Record(c).usage = Null THEN {} ELSE {Record(c).model} \ {Null}
<1>1. models \in SUBSET Labels /\ IsFiniteSet(models)
  BY BuiltLabels
<1>2. WarnUnpriced(models)
  BY DEF Build
<1> HIDE DEF models
<1>3. unpriced_seen' \subseteq Labels /\ warned' \in [Labels -> 0..2] /\ WarnedOnce'
  BY <1>1, <1>2, WarnStep, LabelsFinite DEF IInv
<1>4. TypeOK'
  BY <1>3 DEF Build, IInv, TypeOK
<1>5. RowsAreRecords' /\ EveryRowAccountedFor' /\ \A t : OlderThan(t)' = OlderThan(t)
  BY <1>4, RowsStay DEF Build, IInv, TypeOK
<1>6. CutoffIsPast' /\ PromiseStands'
  BY <1>5 DEF Build, IInv, CutoffIsPast, PromiseStands
<1> QED
  BY <1>3, <1>4, <1>5, <1>6 DEF IInv

LEMMA ReadCostsOk == ASSUME IInv, ReadCosts PROVE IInv'
<1>1. PICK window \in Windows : WarnUnpriced(DOMAIN QueryCostByModel(window))
  BY DEF ReadCosts
<1>2. /\ DOMAIN QueryCostByModel(window) \in SUBSET Labels
      /\ IsFiniteSet(DOMAIN QueryCostByModel(window))
  BY CostLabels DEF IInv
<1>3. unpriced_seen' \subseteq Labels /\ warned' \in [Labels -> 0..2] /\ WarnedOnce'
  BY <1>1, <1>2, WarnStep, LabelsFinite DEF IInv
<1>4. TypeOK'
  BY <1>3 DEF ReadCosts, IInv, TypeOK
<1>5. RowsAreRecords' /\ EveryRowAccountedFor' /\ \A t : OlderThan(t)' = OlderThan(t)
  BY RowsStay DEF ReadCosts, IInv, TypeOK
<1>6. CutoffIsPast' /\ PromiseStands'
  BY <1>5 DEF ReadCosts, IInv, CutoffIsPast, PromiseStands
<1> QED
  BY <1>3, <1>4, <1>5, <1>6 DEF IInv

\* A transaction starts, or is given up: the table does not show it.
LEMMA UncommittedOk == ASSUME IInv, NEW c \in Calls, Insert(c) \/ Lose(c) PROVE IInv'
<1>1. TypeOK'
  BY DEF Insert, Lose, IInv, TypeOK
<1>2. RowsAreRecords' /\ EveryRowAccountedFor' /\ \A t : OlderThan(t)' = OlderThan(t)
  BY <1>1, RowsStay DEF Insert, Lose, IInv, TypeOK
<1>3. CutoffIsPast' /\ PromiseStands' /\ WarnedOnce'
  BY <1>2 DEF Insert, Lose, IInv, CutoffIsPast, PromiseStands, WarnedOnce
<1> QED
  BY <1>1, <1>2, <1>3 DEF IInv

LEMMA CommitOk == ASSUME IInv, NEW c \in Calls, Commit(c) PROVE IInv'
<1>1. /\ c \notin DOMAIN request_logs /\ writer[c] # "committed"
      /\ DOMAIN request_logs' = DOMAIN request_logs \cup {c}
      /\ request_logs'[c] = RowOf(c)
      /\ \A d \in DOMAIN request_logs : request_logs'[d] = request_logs[d]
  BY DEF Commit, IInv, RowsAreRecords
<1>2. TypeOK'
  BY <1>1 DEF Commit, IInv, TypeOK
<1>3. RowsAreRecords'
  <2>1. \A d : RowOf(d)' = RowOf(d)
    BY DEF Commit, RowOf
  <2> QED
    BY <1>1, <2>1 DEF Commit, IInv, TypeOK, RowsAreRecords
<1>4. IsFiniteSet(DOMAIN request_logs) /\ IsFiniteSet(Committed)
  BY CallsAssumption, FS_Subset DEF IInv, TypeOK, Committed
<1>5. EveryRowAccountedFor'
  <2>1. Cardinality(DOMAIN request_logs') = Cardinality(DOMAIN request_logs) + 1
    BY <1>1, <1>4, FS_AddElement
  <2>2. Committed' = Committed \cup {c}
    BY DEF Commit, IInv, TypeOK, Committed
  <2>3. Cardinality(Committed') = Cardinality(Committed) + 1
    BY <1>1, <1>4, <2>2, FS_AddElement DEF Committed
  <2>4. Cardinality(DOMAIN request_logs) \in Nat /\ deleted \in Nat /\ deleted' = deleted
    BY <1>4, FS_CardinalityType DEF Commit, IInv, TypeOK
  <2> QED
    BY <2>1, <2>3, <2>4 DEF IInv, EveryRowAccountedFor, Committed
<1>6. PromiseStands'
  <2>1. SUFFICES ASSUME promised # Null
                 PROVE  promised.count <= Cardinality(OlderThan(promised.cutoff)')
    BY DEF Commit, PromiseStands
  <2>2. /\ OlderThan(promised.cutoff) \subseteq OlderThan(promised.cutoff)'
        /\ OlderThan(promised.cutoff)' \subseteq Calls
    BY <1>1, <1>2 DEF OlderThan, TypeOK, Commit
  <2>3. /\ IsFiniteSet(OlderThan(promised.cutoff)')
        /\ Cardinality(OlderThan(promised.cutoff)) <= Cardinality(OlderThan(promised.cutoff)')
    BY <2>2, CallsAssumption, FS_Subset
  <2>4. /\ Cardinality(OlderThan(promised.cutoff)) \in Nat
        /\ Cardinality(OlderThan(promised.cutoff)') \in Nat
    BY <2>2, <2>3, FS_Subset, FS_CardinalityType
  <2> QED
    BY <2>1, <2>3, <2>4 DEF IInv, TypeOK, PromiseStands
<1>7. CutoffIsPast' /\ WarnedOnce'
  BY DEF Commit, IInv, CutoffIsPast, WarnedOnce
<1> QED
  BY <1>2, <1>3, <1>5, <1>6, <1>7 DEF IInv

\* prune-logs starts, counts, or fails.
LEMMA PrunerOk ==
    ASSUME IInv,
           (\E days \in Days, dry_run \in BOOLEAN : PruneStart(days, dry_run))
             \/ PruneCount \/ PruneFails
    PROVE  IInv'
<1>1. UNCHANGED <<clock, writer, started, request_logs, unpriced_seen, warned, deleted>>
  BY DEF PruneStart, PruneCount, PruneFails
<1>2. RowsAreRecords' /\ EveryRowAccountedFor' /\ \A t : OlderThan(t)' = OlderThan(t)
  BY <1>1, RowsStay DEF IInv, TypeOK
<1>3. WarnedOnce'
  BY <1>1 DEF IInv, WarnedOnce
<1>4. CASE \E days \in Days, dry_run \in BOOLEAN : PruneStart(days, dry_run)
  <2>1. PICK days \in Days, dry_run \in BOOLEAN : PruneStart(days, dry_run)
    BY <1>4
  <2>2. days \in Int /\ clock \in Int /\ clock - days \in Int
    BY RetentionAssumption DEF IInv, TypeOK
  <2>3. TypeOK'
    BY <1>1, <2>1, <2>2 DEF PruneStart, IInv, TypeOK
  <2>4. CutoffIsPast' /\ PromiseStands'
    BY <1>1, <1>2, <2>1, <2>2 DEF PruneStart, IInv, CutoffIsPast, PromiseStands
  <2> QED
    BY <1>2, <1>3, <2>3, <2>4 DEF IInv
<1>5. CASE PruneCount
  <2>1. Cardinality(OlderThan(pruner.cutoff)) \in Nat
    BY CallsAssumption, FS_Subset, FS_CardinalityType DEF OlderThan, IInv, TypeOK
  <2>2. TypeOK'
    BY <1>1, <1>5, <2>1 DEF PruneCount, IInv, TypeOK
  <2>3. CutoffIsPast'
    BY <1>5 DEF PruneCount, CutoffIsPast
  <2>4. PromiseStands'
    BY <1>2, <1>5, <2>1 DEF PruneCount, PromiseStands
  <2> QED
    BY <1>2, <1>3, <2>2, <2>3, <2>4 DEF IInv
<1>6. CASE PruneFails
  <2>1. TypeOK' /\ CutoffIsPast' /\ PromiseStands'
    BY <1>1, <1>2, <1>6 DEF PruneFails, IInv, TypeOK, CutoffIsPast, PromiseStands
  <2> QED
    BY <1>2, <1>3, <2>1 DEF IInv
<1> QED
  BY <1>4, <1>5, <1>6

\* A deletion takes the rows it counts, and no others.
LEMMA DeleteFacts ==
    ASSUME IInv, PruneDelete
    PROVE  /\ DOMAIN request_logs' = DOMAIN request_logs \ OlderThan(pruner.cutoff)
           /\ \A c \in DOMAIN request_logs' : request_logs'[c] = request_logs[c]
           /\ IsFiniteSet(DOMAIN request_logs) /\ IsFiniteSet(OlderThan(pruner.cutoff))
           /\ Cardinality(OlderThan(pruner.cutoff)) \in Nat
           /\ Cardinality(DOMAIN request_logs')
                = Cardinality(DOMAIN request_logs) - Cardinality(OlderThan(pruner.cutoff))
<1>1. /\ DOMAIN request_logs' = DOMAIN request_logs \ OlderThan(pruner.cutoff)
      /\ \A c \in DOMAIN request_logs' : request_logs'[c] = request_logs[c]
  BY DEF PruneDelete
<1>2. /\ DOMAIN request_logs \subseteq Calls
      /\ OlderThan(pruner.cutoff) \subseteq DOMAIN request_logs
  BY DEF OlderThan, IInv, TypeOK
<1>3. IsFiniteSet(DOMAIN request_logs) /\ IsFiniteSet(OlderThan(pruner.cutoff))
  BY <1>2, CallsAssumption, FS_Subset
<1>4. Cardinality(OlderThan(pruner.cutoff)) \in Nat
  BY <1>3, FS_CardinalityType
<1>5. DOMAIN request_logs \cap OlderThan(pruner.cutoff) = OlderThan(pruner.cutoff)
  BY <1>2
<1>6. Cardinality(DOMAIN request_logs \ OlderThan(pruner.cutoff))
        = Cardinality(DOMAIN request_logs) - Cardinality(OlderThan(pruner.cutoff))
  BY <1>3, <1>5, FS_Difference
<1> QED
  BY <1>1, <1>3, <1>4, <1>6

LEMMA PruneDeleteOk == ASSUME IInv, PruneDelete PROVE IInv'
<1>1. UNCHANGED <<clock, writer, started, unpriced_seen, warned>>
  BY DEF PruneDelete
<1>2. RowsAreRecords'
  <2>1. \A c : RowOf(c)' = RowOf(c)
    BY <1>1 DEF RowOf
  <2> QED
    BY <1>1, <2>1, DeleteFacts DEF IInv, RowsAreRecords
<1>3. deleted' \in Nat /\ EveryRowAccountedFor'
  <2>1. deleted' = deleted + Cardinality(OlderThan(pruner.cutoff)) /\ deleted \in Nat
    BY DEF PruneDelete, IInv, TypeOK
  <2>2. Cardinality(DOMAIN request_logs) \in Nat
    BY DeleteFacts, FS_CardinalityType
  <2> QED
    BY <1>1, <2>1, <2>2, DeleteFacts DEF IInv, EveryRowAccountedFor
<1>4. deleted' \in 0 .. Cardinality(Calls)
  <2>1. Committed' \in SUBSET Calls
    BY DEF Committed
  <2>2. IsFiniteSet(DOMAIN request_logs')
    BY DeleteFacts, FS_Subset
  <2>3. Cardinality(Committed') = Cardinality(DOMAIN request_logs') + deleted'
    BY <1>3 DEF EveryRowAccountedFor, Committed
  <2> QED
    BY <1>3, <2>1, <2>2, <2>3, CountsFit
<1>5. TypeOK'
  BY <1>1, <1>4, DeleteFacts DEF PruneDelete, IInv, TypeOK
<1>6. CutoffIsPast' /\ PromiseStands' /\ WarnedOnce'
  BY <1>1 DEF PruneDelete, IInv, CutoffIsPast, PromiseStands, WarnedOnce
<1> QED
  BY <1>2, <1>3, <1>5, <1>6 DEF IInv

LEMMA IInvNext == IInv /\ [Next]_vars => IInv'
<1> SUFFICES ASSUME IInv, [Next]_vars PROVE IInv'
  OBVIOUS
<1>1. CASE UNCHANGED vars
  <2>1. \A c : RowOf(c)' = RowOf(c)
    BY <1>1 DEF vars, RowOf
  <2> QED
    BY <1>1, <2>1 DEF vars, IInv, TypeOK, RowsAreRecords, CutoffIsPast, PromiseStands, OlderThan,
                      EveryRowAccountedFor, WarnedOnce
<1> QED
  BY <1>1, TickOk, BuildOk, UncommittedOk, CommitOk, ReadCostsOk, PrunerOk, PruneDeleteOk DEF Next

\* The invariant holds for every set of calls, price table, window and retention.
THEOREM Invariance == Spec => []IInv
BY IInvInit, IInvNext, PTL DEF Spec

\* Every variable keeps its type.
THEOREM TypeCorrect == Spec => []TypeOK
<1>1. IInv => TypeOK
  BY DEF IInv
<1> QED
  BY <1>1, Invariance, PTL

\* No row is lost or counted twice between the inserts and the deletions, however
\* they interleave.
THEOREM RowsAreAccountedFor == Spec => []EveryRowAccountedFor
<1>1. IInv => EveryRowAccountedFor
  BY DEF IInv
<1> QED
  BY <1>1, Invariance, PTL

\* Handlers and reports warn of a model once between them, as long as its name can be
\* remembered: for any number of models and any limit.
THEOREM WarningsAreSpared == Spec => []WarnedOnce
<1>1. IInv => WarnedOnce
  BY DEF IInv
<1> QED
  BY <1>1, Invariance, PTL

----------------------------------------------------------------------------
(* What a step may never do. *)

\* The steps other than a commit and a deletion leave the rows alone.
LEMMA RowsMove ==
    ASSUME [Next]_vars
    PROVE  \/ UNCHANGED <<request_logs, deleted>>
           \/ \E c \in Calls : Commit(c)
           \/ PruneDelete
BY DEF Next, vars, Tick, Build, Insert, Lose, ReadCosts, PruneStart, PruneCount, PruneFails

LEMMA RowTimes ==
    ASSUME IInv, NEW c \in DOMAIN request_logs
    PROVE  c \in Calls /\ request_logs[c].created_at \in Int
<1>1. c \in Calls /\ request_logs[c] = RowOf(c) /\ started[c] \in Int
  BY DEF IInv, TypeOK, RowsAreRecords
<1> QED
  BY <1>1, RowFacts

LEMMA PruneStep ==
    ASSUME IInv, [Next]_vars, NEW c \in DOMAIN request_logs \ DOMAIN request_logs'
    PROVE  \E days \in Days : days > 0 /\ clock - request_logs[c].created_at > days
<1>1. PruneDelete
  BY RowsMove DEF Commit
<1>2. c \in OlderThan(pruner.cutoff) /\ pruner.pc = "started"
  BY <1>1 DEF PruneDelete
<1>3. request_logs[c].created_at < pruner.cutoff /\ request_logs[c].created_at \in Int
  BY <1>2, RowTimes DEF OlderThan
<1>4. /\ pruner.days > 0 /\ clock - pruner.days >= pruner.cutoff
      /\ pruner.days \in Days /\ pruner.days \in Int /\ pruner.cutoff \in Int /\ clock \in Int
  BY <1>2, PrunerFacts DEF IInv, CutoffIsPast, TypeOK
<1> QED
  BY <1>3, <1>4

\* Whatever passes between the cutoff and the DELETE, no row goes that is younger
\* than a retention somebody asked for.
THEOREM RecentRowsStay == Spec => PruneKeepsRecent
<1>1. IInv /\ [Next]_vars =>
        [\A c \in DOMAIN request_logs \ DOMAIN request_logs' :
            \E days \in Days : days > 0 /\ clock - request_logs[c].created_at > days]_vars
  BY PruneStep
<1> QED
  BY <1>1, Invariance, PTL DEF Spec, PruneKeepsRecent

LEMMA PromiseStep ==
    ASSUME IInv, [Next]_vars, promised # Null, deleted' # deleted,
           pruner.cutoff >= promised.cutoff
    PROVE  deleted' - deleted >= promised.count
<1>1. PruneDelete
  BY RowsMove DEF Commit
<1>2. /\ promised.count \in Nat /\ promised.cutoff \in Int
      /\ promised.count <= Cardinality(OlderThan(promised.cutoff))
  BY DEF IInv, TypeOK, PromiseStands
<1>3. pruner.cutoff \in Int
  BY <1>1, PrunerFacts DEF PruneDelete, IInv
<1>4. OlderThan(promised.cutoff) \subseteq OlderThan(pruner.cutoff)
  BY <1>2, <1>3, RowTimes DEF OlderThan
<1>5. /\ IsFiniteSet(OlderThan(promised.cutoff))
      /\ Cardinality(OlderThan(promised.cutoff)) <= Cardinality(OlderThan(pruner.cutoff))
  BY <1>1, <1>4, DeleteFacts, FS_Subset
<1>6. /\ Cardinality(OlderThan(promised.cutoff)) \in Nat
      /\ Cardinality(OlderThan(pruner.cutoff)) \in Nat
  BY <1>1, <1>5, DeleteFacts, FS_CardinalityType
<1>7. deleted' = deleted + Cardinality(OlderThan(pruner.cutoff)) /\ deleted \in Nat
  BY <1>1 DEF PruneDelete, IInv, TypeOK
<1> QED
  BY <1>2, <1>5, <1>6, <1>7

\* A deletion after a dry run takes no fewer rows than were announced.
THEOREM DryRunsHold == Spec => DryRunPromises
<1>1. IInv /\ [Next]_vars =>
        [promised # Null /\ deleted' # deleted /\ pruner.cutoff >= promised.cutoff
            => deleted' - deleted >= promised.count]_vars
  BY PromiseStep
<1> QED
  BY <1>1, Invariance, PTL DEF Spec, DryRunPromises

LEMMA SettledStep ==
    ASSUME IInv, [Next]_vars, NEW window \in Windows, window.end # Null,
           \A c \in Calls : writer[c] = "inserting" => started[c] >= window.end
    PROVE  Select(window)' \subseteq Select(window)
<1>1. CASE UNCHANGED request_logs
  BY <1>1 DEF Select
<1>2. CASE PruneDelete
  BY <1>2, DeleteFacts DEF Select
<1>3. ASSUME NEW c \in Calls, Commit(c) PROVE Select(window)' \subseteq Select(window)
  <2>1. /\ request_logs'[c].created_at = started[c]
        /\ DOMAIN request_logs' = DOMAIN request_logs \cup {c}
        /\ \A d \in DOMAIN request_logs : d # c => request_logs'[d] = request_logs[d]
    BY <1>3, RowFacts DEF Commit
  <2>2. window.end \in Int /\ started[c] \in Int /\ started[c] >= window.end
    BY <1>3, WindowsAssumption DEF Commit, IInv, TypeOK
  <2>3. ~InWindow(started[c], window)
    BY <2>2 DEF InWindow
  <2> QED
    BY <2>1, <2>3 DEF Select
<1> QED
  BY <1>1, <1>2, <1>3, RowsMove

\* A report on a window that is over, and whose transactions are, gains no rows.
THEOREM PastReportsOnlyShrink == Spec => SettledWindowsOnlyShrink
<1>1. IInv /\ [Next]_vars =>
        [\A window \in Windows :
          /\ window.end # Null
          /\ window.end <= clock
          /\ \A c \in Calls : writer[c] = "inserting" => started[c] >= window.end
          => Select(window)' \subseteq Select(window)]_vars
  BY SettledStep
<1> QED
  BY <1>1, Invariance, PTL DEF Spec, SettledWindowsOnlyShrink

----------------------------------------------------------------------------
(* Sizes of sets. *)

\* A part of a finite set is no larger, and smaller if anything is missing.
LEMMA Subsets ==
    ASSUME NEW rows, IsFiniteSet(rows), NEW some, some \subseteq rows, NEW more \in SUBSET rows,
           some \subseteq more
    PROVE  /\ Cardinality(some) \in Nat /\ Cardinality(more) \in Nat
           /\ Cardinality(some) <= Cardinality(more)
           /\ some # more => Cardinality(some) < Cardinality(more)
<1>1. IsFiniteSet(more) /\ IsFiniteSet(some)
  BY FS_Subset
<1> QED
  BY <1>1, FS_Subset, FS_CardinalityType

\* Two sets with nothing in common have their sizes together.
LEMMA Disjoint ==
    ASSUME NEW some, NEW others, IsFiniteSet(some), IsFiniteSet(others), some \cap others = {}
    PROVE  Cardinality(some \cup others) = Cardinality(some) + Cardinality(others)
<1>1. Cardinality(some \cap others) = 0
  BY FS_EmptySet
<1>2. Cardinality(some \cup others) = Cardinality(some) + Cardinality(others) - 0
  BY <1>1, FS_Union
<1> QED
  BY <1>2, FS_CardinalityType

----------------------------------------------------------------------------
(* Sums over the lines of a report. *)

Pick(S) == CHOOSE x \in S : TRUE

\* What a sum adds up, one line after the other.
IsSum(sum, g) == sum = [S \in SUBSET DOMAIN g |->
                           IF S = {} THEN 0 ELSE g[Pick(S)] + sum[S \ {Pick(S)}]]

LEMMA SumIsChosen == ASSUME NEW g PROVE SumOf(g) = (CHOOSE sum : IsSum(sum, g))[DOMAIN g]
BY DEF SumOf, MapThenSumSet, MapThenFoldSet, IsSum, Pick

\* There is one way to add up finitely many lines: of the sets on which two differed
\* a smallest would not be empty, and they would differ on less.
LEMMA SumIsUnique ==
    ASSUME NEW g, IsFiniteSet(DOMAIN g), NEW sum, NEW other, IsSum(sum, g), IsSum(other, g)
    PROVE  sum[DOMAIN g] = other[DOMAIN g]
<1> DEFINE Sizes == {n \in Nat : \E S \in SUBSET DOMAIN g : Cardinality(S) = n /\ sum[S] # other[S]}
<1>1. SUFFICES ASSUME Sizes # {} PROVE FALSE
  <2>1. Cardinality(DOMAIN g) \in Nat
    BY FS_CardinalityType
  <2> QED
    BY <2>1
<1>2. PICK n \in Sizes : \A m \in Sizes : n <= m
  <2>1. Sizes \in SUBSET Nat
    OBVIOUS
  <2> HIDE DEF Sizes
  <2> QED
    BY <1>1, <2>1, Smallest
<1>3. PICK S \in SUBSET DOMAIN g : Cardinality(S) = n /\ sum[S] # other[S]
  BY <1>2
<1>4. IsFiniteSet(S)
  BY FS_Subset
<1>5. S # {}
  BY <1>3 DEF IsSum
<1> DEFINE rest == S \ {Pick(S)}
<1>6. Pick(S) \in S
  BY <1>5 DEF Pick
<1>7. Cardinality(rest) = n - 1 /\ Cardinality(rest) \in Nat
  BY <1>3, <1>4, <1>6, FS_RemoveElement, FS_CardinalityType
<1>8. sum[rest] # other[rest]
  BY <1>3, <1>5 DEF IsSum
<1> QED
  BY <1>2, <1>7, <1>8

\* The sizes of the parts of a set add up to its size.
LEMMA SumOfParts ==
    ASSUME NEW rows, IsFiniteSet(rows), NEW g, IsFiniteSet(DOMAIN g),
           NEW part \in [rows -> DOMAIN g],
           \A t \in DOMAIN g : g[t] = Cardinality({c \in rows : part[c] = t})
    PROVE  SumOf(g) = Cardinality(rows)
<1> DEFINE In(S)  == {c \in rows : part[c] \in S}
           counts == [S \in SUBSET DOMAIN g |-> Cardinality(In(S))]
<1>1. \A S : IsFiniteSet(In(S)) /\ Cardinality(In(S)) \in Nat
  BY FS_Subset, FS_CardinalityType
<1>2. IsSum(counts, g)
  <2>1. ASSUME NEW S \in SUBSET DOMAIN g, S # {}
        PROVE  Cardinality(In(S)) = g[Pick(S)] + Cardinality(In(S \ {Pick(S)}))
    <3>1. Pick(S) \in S
      BY <2>1 DEF Pick
    <3>2. /\ In(S) = In({Pick(S)}) \cup In(S \ {Pick(S)})
          /\ In({Pick(S)}) \cap In(S \ {Pick(S)}) = {}
      BY <3>1
    <3>3. g[Pick(S)] = Cardinality(In({Pick(S)}))
      <4>1. In({Pick(S)}) = {c \in rows : part[c] = Pick(S)}
        OBVIOUS
      <4> QED
        BY <3>1, <4>1
    <3> HIDE DEF In
    <3>4. Cardinality(In({Pick(S)}) \cap In(S \ {Pick(S)})) = 0
      BY <3>2, FS_EmptySet
    <3>5. Cardinality(In(S)) = Cardinality(In({Pick(S)})) + Cardinality(In(S \ {Pick(S)})) - 0
      BY <1>1, <3>2, <3>4, FS_Union
    <3> QED
      BY <1>1, <3>3, <3>5
  <2>2. Cardinality(In({})) = 0
    <3>1. In({}) = {}
      OBVIOUS
    <3> QED
      BY <3>1, FS_EmptySet
  <2> HIDE DEF In
  <2>3. \A S \in SUBSET DOMAIN g : S \ {Pick(S)} \in SUBSET DOMAIN g
    OBVIOUS
  <2>4. counts = [S \in SUBSET DOMAIN g |->
                     IF S = {} THEN 0 ELSE g[Pick(S)] + counts[S \ {Pick(S)}]]
    BY <2>1, <2>2, <2>3
  <2> QED
    BY <2>4 DEF IsSum
<1>3. counts[DOMAIN g] = Cardinality(rows)
  <2>1. In(DOMAIN g) = rows
    OBVIOUS
  <2> QED
    BY <2>1
<1> HIDE DEF counts
<1>4. IsSum(CHOOSE sum : IsSum(sum, g), g)
  BY <1>2
<1> QED
  BY <1>2, <1>3, <1>4, SumIsChosen, SumIsUnique

----------------------------------------------------------------------------
(* Percentiles. *)

Lat(c)          == request_logs[c].latency_ms
UpTo(rows, ms)  == {c \in rows : Lat(c) <= ms}
Below(rows, ms) == {c \in rows : Lat(c) < ms}

\* Of finitely many rows one is slowest: the one with most rows up to it.
LEMMA Slowest ==
    ASSUME NEW rows, IsFiniteSet(rows), rows # {}, \A c \in rows : Lat(c) \in Nat
    PROVE  \E c \in rows : UpTo(rows, Lat(c)) = rows
<1> DEFINE above(c) == Cardinality(rows) - Cardinality(UpTo(rows, Lat(c)))
           Gaps     == {above(c) : c \in rows}
<1>1. \A c \in rows : above(c) \in Nat
  <2>1. ASSUME NEW c \in rows PROVE above(c) \in Nat
    <3>1. UpTo(rows, Lat(c)) \in SUBSET rows
      BY DEF UpTo
    <3> QED
      BY <3>1, Subsets
  <2> QED
    BY <2>1
<1>2. PICK n \in Gaps : \A m \in Gaps : n <= m
  <2>1. Gaps \in SUBSET Nat /\ Gaps # {}
    BY <1>1
  <2> HIDE DEF Gaps
  <2> QED
    BY <2>1, Smallest
<1>3. PICK c \in rows : n = above(c)
  BY <1>2
<1>4. SUFFICES ASSUME NEW d \in rows, ~(Lat(d) <= Lat(c)) PROVE FALSE
  BY DEF UpTo
<1>5. /\ UpTo(rows, Lat(c)) \in SUBSET rows /\ UpTo(rows, Lat(d)) \in SUBSET rows
      /\ UpTo(rows, Lat(c)) \subseteq UpTo(rows, Lat(d))
      /\ UpTo(rows, Lat(c)) # UpTo(rows, Lat(d))
  <2>1. Lat(c) \in Nat /\ Lat(d) \in Nat
    OBVIOUS
  <2>2. \A e \in rows : Lat(e) \in Nat /\ (Lat(e) <= Lat(c) => Lat(e) <= Lat(d))
    BY <1>4, <2>1
  <2>3. d \in UpTo(rows, Lat(d)) /\ d \notin UpTo(rows, Lat(c))
    BY <1>4, <2>1 DEF UpTo
  <2> QED
    BY <2>2, <2>3 DEF UpTo
<1>6. Cardinality(UpTo(rows, Lat(c))) < Cardinality(UpTo(rows, Lat(d)))
      /\ Cardinality(UpTo(rows, Lat(c))) \in Nat /\ Cardinality(UpTo(rows, Lat(d))) \in Nat
  BY <1>5, Subsets
<1>7. Cardinality(rows) \in Nat
  BY FS_CardinalityType
<1>8. above(c) <= above(d)
  BY <1>2, <1>3
<1> QED
  BY <1>6, <1>7, <1>8

\* At each rank there is a value, with fewer rows below it and that many up to it.
LEMMA Ranked ==
    ASSUME NEW rows, IsFiniteSet(rows), \A c \in rows : Lat(c) \in Nat,
           NEW rank \in 1..Cardinality(rows)
    PROVE  /\ Ascending(rows)[rank] \in Nat
           /\ Cardinality(Below(rows, Ascending(rows)[rank])) < rank
           /\ rank <= Cardinality(UpTo(rows, Ascending(rows)[rank]))
<1> DEFINE Values == {Lat(c) : c \in rows}
           High   == {ms \in Values : rank <= Cardinality(UpTo(rows, ms))}
<1>1. Cardinality(rows) \in Nat
  BY FS_CardinalityType
<1>2. rows # {}
  BY <1>1, FS_EmptySet
<1>3. High # {}
  <2>1. PICK c \in rows : UpTo(rows, Lat(c)) = rows
    BY <1>2, Slowest
  <2>2. Lat(c) \in High
    BY <1>1, <2>1
  <2> QED
    BY <2>2
<1>4. PICK v \in High : \A ms \in High : v <= ms
  <2>1. High \in SUBSET Nat
    OBVIOUS
  <2> HIDE DEF High
  <2> QED
    BY <1>3, <2>1, Smallest
<1>5. v \in Nat /\ v \in Values /\ rank <= Cardinality(UpTo(rows, v))
  BY <1>4
<1>6. Cardinality(Below(rows, v)) < rank
  <2>1. Below(rows, v) \in SUBSET rows /\ IsFiniteSet(Below(rows, v))
        /\ Cardinality(Below(rows, v)) \in Nat
    BY FS_Subset, FS_CardinalityType DEF Below
  <2>2. CASE Below(rows, v) = {}
    BY <2>2, FS_EmptySet
  <2>3. CASE Below(rows, v) # {}
    <3>1. PICK d \in Below(rows, v) : UpTo(Below(rows, v), Lat(d)) = Below(rows, v)
      BY <2>1, <2>3, Slowest
    <3>2. d \in rows /\ Lat(d) \in Nat /\ Lat(d) < v
      BY <2>1, <3>1 DEF Below
    <3>3. UpTo(rows, Lat(d)) = Below(rows, v)
      <4>1. \A e \in rows : Lat(e) <= Lat(d) <=> Lat(e) < v
        <5>1. ASSUME NEW e \in rows, Lat(e) < v PROVE Lat(e) <= Lat(d)
          BY <3>1, <5>1 DEF UpTo, Below
        <5>2. ASSUME NEW e \in rows, Lat(e) <= Lat(d) PROVE Lat(e) < v
          BY <1>5, <3>2, <5>2
        <5> QED
          BY <5>1, <5>2
      <4> QED
        BY <4>1 DEF UpTo, Below
    <3>4. ~(v <= Lat(d))
      BY <1>5, <3>2
    <3>5. Lat(d) \notin High
      BY <1>4, <3>4
    <3>6. ~(rank <= Cardinality(UpTo(rows, Lat(d))))
      BY <3>2, <3>5
    <3> QED
      BY <2>1, <3>3, <3>6
  <2> QED
    BY <2>2, <2>3
<1> DEFINE Fits(ms) == /\ Cardinality({c \in rows : request_logs[c].latency_ms < ms}) < rank
                       /\ rank <= Cardinality({c \in rows : request_logs[c].latency_ms <= ms})
           All == {request_logs[c].latency_ms : c \in rows}
<1>7. v \in All /\ Fits(v)
  BY <1>5, <1>6 DEF UpTo, Below, Lat
<1>8. Ascending(rows)[rank] = CHOOSE ms \in All : Fits(ms)
  BY DEF Ascending
<1>9. Ascending(rows)[rank] \in All /\ Fits(Ascending(rows)[rank])
  <2> HIDE DEF All, Fits
  <2> QED
    BY <1>7, <1>8
<1> QED
  BY <1>9 DEF UpTo, Below, Lat

\* The values do not fall from one rank to a later one.
LEMMA Ascends ==
    ASSUME NEW rows, IsFiniteSet(rows), \A c \in rows : Lat(c) \in Nat,
           NEW i \in 1..Cardinality(rows), NEW j \in 1..Cardinality(rows), i <= j
    PROVE  Ascending(rows)[i] <= Ascending(rows)[j]
<1> DEFINE a == Ascending(rows)[i]
           b == Ascending(rows)[j]
<1>1. a \in Nat /\ b \in Nat /\ Cardinality(Below(rows, a)) < i
      /\ j <= Cardinality(UpTo(rows, b))
  BY Ranked
<1> HIDE DEF a, b
<1>2. SUFFICES ASSUME b < a PROVE FALSE
  BY <1>1 DEF a, b
<1>3. UpTo(rows, b) \subseteq Below(rows, a) /\ UpTo(rows, b) \in SUBSET rows
      /\ Below(rows, a) \in SUBSET rows
  <2>1. \A c \in rows : Lat(c) \in Nat /\ (Lat(c) <= b => Lat(c) < a)
    BY <1>1, <1>2
  <2> QED
    BY <2>1 DEF UpTo, Below
<1>4. /\ Cardinality(UpTo(rows, b)) \in Nat /\ Cardinality(Below(rows, a)) \in Nat
      /\ Cardinality(UpTo(rows, b)) <= Cardinality(Below(rows, a))
  BY <1>3, Subsets
<1> QED
  BY <1>1, <1>4

\* A value in proportion between two is between them, and further the larger its part.
LEMMA Between ==
    ASSUME NEW low \in Nat, NEW high \in Nat, low <= high, NEW part \in 0..19
    PROVE  /\ 20 * low + part * (high - low) \in Nat
           /\ 20 * low <= 20 * low + part * (high - low)
           /\ 20 * low + part * (high - low) <= 20 * high
           /\ \A more \in 0..19 : part <= more =>
                 20 * low + part * (high - low) <= 20 * low + more * (high - low)
<1>1. PICK d \in Nat : d = high - low
  OBVIOUS
<1>2. \A more \in 0..20 : part <= more => d * part <= d * more
  BY ProductGrows
<1>3. d * part \in Nat /\ d * part <= d * 20
  BY <1>2, Product
<1>4. \A more \in 0..19 : part <= more => part * d <= more * d
  BY <1>2
<1>5. part * d \in Nat /\ part * d <= 20 * d
  BY <1>3
<1>6. 20 * high = 20 * low + 20 * d
  BY <1>1
<1>7. 20 * low \in Nat /\ \A more \in 0..19 : more * d \in Nat
  BY Product
<1> QED
  BY <1>1, <1>4, <1>5, <1>6, <1>7

\* Of values that do not fall the higher percentile is no less than the lower.
LEMMA PercentilesAscend ==
    ASSUME NEW n \in Nat, n > 0, NEW values \in [1..n -> Nat],
           \A i, j \in 1..n : i <= j => values[i] <= values[j]
    PROVE  PercentileCont(10, values) <= PercentileCont(19, values)
<1> DEFINE k   == n - 1
           At(p)    == (p * k) \div 20
           Frac(p)  == (p * k) % 20
           Low(p)   == values[At(p) + 1]
           High(p)  == values[IF Frac(p) = 0 THEN At(p) + 1 ELSE At(p) + 2]
<1>1. Len(values) = n
  <2>1. values \in Seq(Nat)
    OBVIOUS
  <2>2. Len(values) \in Nat /\ DOMAIN values = 1..Len(values) /\ DOMAIN values = 1..n
    BY <2>1, LenProperties
  <2>3. Len(values) <= n
    <3>1. CASE Len(values) = 0
      BY <3>1
    <3>2. CASE Len(values) # 0
      <4>1. Len(values) \in 1..n
        BY <2>2, <3>2
      <4> QED
        BY <4>1
    <3> QED
      BY <3>1, <3>2
  <2>4. n \in 1..Len(values)
    BY <2>2
  <2> QED
    BY <2>2, <2>3, <2>4
<1>2. \A p \in {10, 19} : PercentileCont(p, values) = 20 * Low(p) + Frac(p) * (High(p) - Low(p))
  BY <1>1 DEF PercentileCont
<1>3. k \in Nat
  OBVIOUS
<1>4. \A p \in {10, 19} : /\ At(p) \in Nat /\ Frac(p) \in Nat /\ Frac(p) \in 0..19
                          /\ At(p) + 1 \in 1..n
                          /\ Frac(p) # 0 => At(p) + 2 \in 1..n
  BY <1>3
<1>5. At(10) <= At(19) /\ (At(10) = At(19) => Frac(10) <= Frac(19))
  BY <1>3
<1> HIDE DEF At, Frac, k
<1>6. \A p \in {10, 19} : Low(p) \in Nat /\ High(p) \in Nat /\ Low(p) <= High(p)
  BY <1>4
<1>7. /\ At(10) < At(19) => High(10) <= Low(19)
      /\ At(10) = At(19) => Low(10) = Low(19)
      /\ At(10) = At(19) /\ Frac(10) # 0 /\ Frac(19) # 0 => High(10) = High(19)
  <2>1. ASSUME At(10) < At(19) PROVE High(10) <= Low(19)
    <3>1. CASE Frac(10) = 0
      <4>1. High(10) = values[At(10) + 1]
        BY <3>1
      <4>2. At(10) + 1 <= At(19) + 1
        BY <1>4, <2>1
      <4> QED
        BY <1>4, <4>1, <4>2
    <3>2. CASE Frac(10) # 0
      <4>1. High(10) = values[At(10) + 2]
        BY <3>2
      <4>2. At(10) + 2 <= At(19) + 1
        BY <1>4, <2>1
      <4> QED
        BY <1>4, <3>2, <4>1, <4>2
    <3> QED
      BY <3>1, <3>2
  <2> QED
    BY <2>1
<1> HIDE DEF Low, High
<1>8. ASSUME NEW p \in {10, 19}
      PROVE  /\ PercentileCont(p, values) \in Int
             /\ 20 * Low(p) <= PercentileCont(p, values)
             /\ PercentileCont(p, values) <= 20 * High(p)
  <2>1. Low(p) \in Nat /\ High(p) \in Nat /\ Low(p) <= High(p) /\ Frac(p) \in 0..19
    BY <1>4, <1>6
  <2>2. PercentileCont(p, values) = 20 * Low(p) + Frac(p) * (High(p) - Low(p))
    BY <1>2
  <2>3. PercentileCont(p, values) \in Int
    <3>1. 20 * Low(p) + Frac(p) * (High(p) - Low(p)) \in Nat
      BY <2>1, Between
    <3> QED
      BY <2>2, <3>1
  <2> QED
    BY <2>1, <2>2, <2>3, Between
<1>9. CASE At(10) < At(19)
  <2>1. /\ High(10) \in Nat /\ Low(19) \in Nat /\ High(10) <= Low(19)
        /\ PercentileCont(10, values) <= 20 * High(10)
        /\ 20 * Low(19) <= PercentileCont(19, values)
        /\ PercentileCont(10, values) \in Int /\ PercentileCont(19, values) \in Int
    BY <1>6, <1>7, <1>8, <1>9
  <2> QED
    BY <2>1
<1>10. CASE At(10) = At(19)
  <2>1. Low(10) = Low(19) /\ Frac(10) <= Frac(19)
    BY <1>5, <1>7, <1>10
  <2>2. CASE Frac(10) = 0
    <3>1. PercentileCont(10, values) = 20 * Low(10)
      <4>1. Low(10) \in Nat /\ High(10) - Low(10) \in Int
        BY <1>6
      <4>2. 0 * (High(10) - Low(10)) = 0
        BY <4>1
      <4> QED
        BY <1>2, <2>2, <4>1, <4>2
    <3>2. 20 * Low(19) <= PercentileCont(19, values)
      BY <1>8
    <3> QED
      BY <2>1, <3>1, <3>2
  <2>3. CASE Frac(10) # 0
    <3>1. Frac(19) # 0
      <4>1. Frac(10) \in Nat /\ Frac(19) \in Nat
        BY <1>4
      <4> QED
        BY <2>1, <2>3, <4>1
    <3>2. High(10) = High(19)
      BY <1>7, <1>10, <2>3, <3>1
    <3>3. /\ Low(10) \in Nat /\ High(10) \in Nat /\ Low(10) <= High(10)
          /\ Frac(10) \in 0..19 /\ Frac(19) \in 0..19
      BY <1>4, <1>6
    <3>4. 20 * Low(10) + Frac(10) * (High(10) - Low(10))
             <= 20 * Low(10) + Frac(19) * (High(10) - Low(10))
      BY <2>1, <3>3, Between
    <3> QED
      BY <1>2, <2>1, <3>2, <3>4
  <2> QED
    BY <2>2, <2>3
<1>11. At(10) \in Nat /\ At(19) \in Nat
  BY <1>4
<1> QED
  BY <1>5, <1>9, <1>10, <1>11

----------------------------------------------------------------------------
(* The reports. *)

\* The rows of a report are finitely many calls, whose latencies are numbers.
LEMMA Selected ==
    ASSUME IInv, NEW window
    PROVE  /\ IsFiniteSet(Select(window))
           /\ \A c \in Select(window) : Lat(c) \in Nat /\ request_logs[c].created_at \in Int
<1>1. Select(window) \subseteq Calls
  BY DEF Select, IInv, TypeOK
<1>2. ASSUME NEW c \in Select(window)
      PROVE  Lat(c) \in Nat /\ request_logs[c].created_at \in Int
  <2>1. c \in DOMAIN request_logs /\ c \in Calls /\ request_logs[c] = RowOf(c)
    BY DEF Select, IInv, TypeOK, RowsAreRecords
  <2>2. "latency_ms" \in DOMAIN Record(c) /\ Record(c).latency_ms = Call[c].latency_ms
    BY DEF Record, BuildLogRecord
  <2>3. Lat(c) = Call[c].latency_ms
    BY <2>1, <2>2 DEF Lat, RowOf
  <2> QED
    BY <2>1, <2>3, RowTimes, CallsAssumption
<1> QED
  BY <1>1, <1>2, FS_Subset, CallsAssumption

\* A line per bucket for some of the rows adds up to them.
LEMMA BucketsAddUp ==
    ASSUME NEW rows, IsFiniteSet(rows), NEW hits \in SUBSET rows, NEW bucket,
           NEW g, DOMAIN g = BucketsOf(rows, bucket),
           \A t \in DOMAIN g :
               g[t] = Cardinality({c \in hits : DateTrunc(bucket, request_logs[c].created_at) = t})
    PROVE  SumOf(g) = Cardinality(hits)
<1> DEFINE part  == [c \in hits |-> DateTrunc(bucket, request_logs[c].created_at)]
           whole == [c \in rows |-> DateTrunc(bucket, request_logs[c].created_at)]
<1>1. part \in [hits -> DOMAIN g]
  BY DEF BucketsOf
<1>2. IsFiniteSet(DOMAIN g)
  <2>1. whole \in Surjection(rows, DOMAIN g)
    BY DEF Surjection, BucketsOf
  <2> QED
    BY <2>1, FS_Surjection
<1>3. IsFiniteSet(hits)
  BY FS_Subset
<1>4. \A t \in DOMAIN g : g[t] = Cardinality({c \in hits : part[c] = t})
  <2>1. ASSUME NEW t \in DOMAIN g PROVE g[t] = Cardinality({c \in hits : part[c] = t})
    <3>1. {c \in hits : part[c] = t}
              = {c \in hits : DateTrunc(bucket, request_logs[c].created_at) = t}
      OBVIOUS
    <3> QED
      BY <3>1
  <2> QED
    BY <2>1
<1> HIDE DEF part
<1> QED
  BY <1>1, <1>2, <1>3, <1>4, SumOfParts

\* The report on calls counts them all.
LEMMA VolumeAddsUp ==
    ASSUME IInv, NEW window, NEW bucket
    PROVE  SumOf(QueryVolume(window, bucket)) = Cardinality(Select(window))
<1> DEFINE rows == Select(window)
           g    == QueryVolume(window, bucket)
<1>1. DOMAIN g = BucketsOf(rows, bucket)
  BY DEF QueryVolume
<1>2. \A t \in DOMAIN g :
          g[t] = Cardinality({c \in rows : DateTrunc(bucket, request_logs[c].created_at) = t})
  BY DEF QueryVolume, RowsAt
<1>3. IsFiniteSet(rows) /\ rows \in SUBSET rows
  BY Selected
<1> HIDE DEF rows, g
<1>4. SumOf(g) = Cardinality(rows)
  BY <1>1, <1>2, <1>3, BucketsAddUp
<1> QED
  BY <1>4 DEF rows, g

\* So do the reports on errors and on cache hits, and on what they are about.
LEMMA ErrorsAddUp ==
    ASSUME IInv, NEW window, NEW bucket
    PROVE  /\ QueryErrorRate(window, bucket).total = Cardinality(Select(window))
           /\ QueryErrorRate(window, bucket).marked
                 = Cardinality({c \in Select(window) : IsError(request_logs[c])})
<1> DEFINE rows   == Select(window)
           hits   == {c \in rows : IsError(request_logs[c])}
           totals == [t \in BucketsOf(rows, bucket) |-> Cardinality(RowsAt(rows, bucket, t))]
           errors == [t \in BucketsOf(rows, bucket) |->
                         Cardinality({c \in RowsAt(rows, bucket, t) : IsError(request_logs[c])})]
<1>1. QueryErrorRate(window, bucket).total = SumOf(totals)
  BY DEF QueryErrorRate, Rate
<1>2. QueryErrorRate(window, bucket).marked = SumOf(errors)
  BY DEF QueryErrorRate, Rate
<1>3. DOMAIN totals = BucketsOf(rows, bucket) /\ DOMAIN errors = BucketsOf(rows, bucket)
  OBVIOUS
<1>4. \A t \in DOMAIN totals :
          totals[t] = Cardinality({c \in rows : DateTrunc(bucket, request_logs[c].created_at) = t})
  BY DEF RowsAt
<1>5. \A t \in DOMAIN errors :
          errors[t] = Cardinality({c \in hits : DateTrunc(bucket, request_logs[c].created_at) = t})
  <2>1. ASSUME NEW t \in DOMAIN errors
        PROVE  errors[t]
                   = Cardinality({c \in hits : DateTrunc(bucket, request_logs[c].created_at) = t})
    <3>1. {c \in RowsAt(rows, bucket, t) : IsError(request_logs[c])}
              = {c \in hits : DateTrunc(bucket, request_logs[c].created_at) = t}
      BY DEF RowsAt
    <3> QED
      BY <3>1
  <2> QED
    BY <2>1
<1>6. IsFiniteSet(rows) /\ rows \in SUBSET rows /\ hits \in SUBSET rows
  BY Selected
<1> HIDE DEF rows, hits, totals, errors
<1>7. SumOf(totals) = Cardinality(rows)
  BY <1>3, <1>4, <1>6, BucketsAddUp
<1>8. SumOf(errors) = Cardinality(hits)
  BY <1>3, <1>5, <1>6, BucketsAddUp
<1> QED
  BY <1>1, <1>2, <1>7, <1>8 DEF rows, hits

LEMMA CacheAddsUp ==
    ASSUME IInv, NEW window, NEW bucket
    PROVE  QueryCacheHitRate(window, bucket).total = Cardinality(Select(window))
<1> DEFINE rows   == Select(window)
           totals == [t \in BucketsOf(rows, bucket) |-> Cardinality(RowsAt(rows, bucket, t))]
<1>1. QueryCacheHitRate(window, bucket).total = SumOf(totals)
  BY DEF QueryCacheHitRate, Rate
<1>2. totals = QueryVolume(window, bucket)
  BY DEF QueryVolume
<1> QED
  BY <1>1, <1>2, VolumeAddsUp

\* And the report on costs, a line for each model.
LEMMA CostsAddUp ==
    ASSUME IInv, NEW window
    PROVE  LET costs == QueryCostByModel(window)
           IN  SumOf([m \in DOMAIN costs |-> costs[m].requests]) = Cardinality(Select(window))
<1> DEFINE rows  == Select(window)
           costs == QueryCostByModel(window)
           g     == [m \in DOMAIN costs |-> costs[m].requests]
           part  == [c \in rows |-> ModelLabel(request_logs[c])]
<1>1. DOMAIN g = {ModelLabel(request_logs[c]) : c \in rows}
  BY DEF QueryCostByModel
<1>2. IsFiniteSet(rows) /\ IsFiniteSet(DOMAIN g)
  BY Selected, CostLabels DEF IInv
<1>3. part \in [rows -> DOMAIN g]
  BY <1>1
<1>4. \A m \in DOMAIN g : g[m] = Cardinality({c \in rows : part[c] = m})
  <2>1. ASSUME NEW m \in DOMAIN g PROVE g[m] = Cardinality({c \in rows : part[c] = m})
    <3>1. {c \in rows : part[c] = m} = {c \in rows : ModelLabel(request_logs[c]) = m}
      OBVIOUS
    <3>2. costs[m].requests = Cardinality({c \in rows : ModelLabel(request_logs[c]) = m})
      BY DEF QueryCostByModel
    <3> QED
      BY <3>1, <3>2
  <2> QED
    BY <2>1
<1> HIDE DEF rows, g, part
<1>5. SumOf(g) = Cardinality(rows)
  BY <1>2, <1>3, <1>4, SumOfParts
<1> QED
  BY <1>5 DEF rows, g

\* Half of the calls of a bucket are answered no later than nineteen in twenty.
LEMMA LatenciesAscend ==
    ASSUME IInv, NEW window, NEW bucket, NEW t \in BucketsOf(Select(window), bucket)
    PROVE  LET latency == QueryLatencyPercentiles(window, bucket)
           IN  latency[t].p50 <= latency[t].p95
<1> DEFINE rows   == RowsAt(Select(window), bucket, t)
           values == Ascending(rows)
           n      == Cardinality(rows)
<1>1. rows \subseteq Select(window) /\ rows # {}
  BY DEF RowsAt, BucketsOf
<1>2. IsFiniteSet(rows) /\ \A c \in rows : Lat(c) \in Nat
  BY <1>1, Selected, FS_Subset
<1>3. n \in Nat /\ n > 0
  BY <1>1, <1>2, FS_CardinalityType, FS_EmptySet
<1> HIDE DEF rows
<1>4. values \in [1..n -> Nat]
  <2>1. \A i \in 1..n : values[i] \in Nat
    BY <1>2, Ranked
  <2> DEFINE at(rank) ==
                 CHOOSE ms \in {request_logs[c].latency_ms : c \in rows} :
                     /\ Cardinality({c \in rows : request_logs[c].latency_ms < ms}) < rank
                     /\ rank <= Cardinality({c \in rows : request_logs[c].latency_ms <= ms})
  <2>2. values = [rank \in 1..n |-> at(rank)]
    BY DEF Ascending
  <2> HIDE DEF values, at
  <2> QED
    BY <2>1, <2>2
<1>5. \A i, j \in 1..n : i <= j => values[i] <= values[j]
  BY <1>2, Ascends
<1> HIDE DEF values, n
<1>6. PercentileCont(10, values) <= PercentileCont(19, values)
  BY <1>3, <1>4, <1>5, PercentilesAscend
<1>7. /\ QueryLatencyPercentiles(window, bucket)[t].p50 = PercentileCont(10, values)
      /\ QueryLatencyPercentiles(window, bucket)[t].p95 = PercentileCont(19, values)
  BY DEF QueryLatencyPercentiles, values, rows
<1> QED
  BY <1>6, <1>7

\* A row is in the two windows together if it is in one, and is never in both.
LEMMA AdjacentWindows ==
    ASSUME IInv, NEW window \in Windows, NEW next \in Windows,
           window.end # Null, next.start = window.end, Forwards(window), Forwards(next)
    PROVE  LET both == [start |-> window.start, end |-> next.end]
           IN  /\ Select(both) = Select(window) \cup Select(next)
               /\ Select(window) \cap Select(next) = {}
<1> DEFINE both == [start |-> window.start, end |-> next.end]
<1>1. /\ window.end \in Int /\ window.start \in Int \cup {Null} /\ next.end \in Int \cup {Null}
      /\ both.start = window.start /\ both.end = next.end
  BY WindowsAssumption
<1> HIDE DEF both
<1>2. \A t \in Int : /\ InWindow(t, both) <=> InWindow(t, window) \/ InWindow(t, next)
                     /\ ~(InWindow(t, window) /\ InWindow(t, next))
  <2> SUFFICES ASSUME NEW t \in Int
               PROVE  /\ InWindow(t, both) <=> InWindow(t, window) \/ InWindow(t, next)
                      /\ ~(InWindow(t, window) /\ InWindow(t, next))
    OBVIOUS
  <2> DEFINE from  == window.start # Null => window.start <= t
             until == next.end # Null => t < next.end
  <2>1. /\ InWindow(t, window) <=> from /\ t < window.end
        /\ InWindow(t, next) <=> window.end <= t /\ until
        /\ InWindow(t, both) <=> from /\ until
    BY <1>1 DEF InWindow
  <2>2. t < window.end => until
    BY <1>1 DEF Forwards
  <2>3. window.end <= t => from
    BY <1>1 DEF Forwards
  <2>4. (t < window.end \/ window.end <= t) /\ ~(t < window.end /\ window.end <= t)
    BY <1>1
  <2> HIDE DEF from, until
  <2> QED
    BY <2>1, <2>2, <2>3, <2>4
<1>3. Select(both) = Select(window) \cup Select(next) /\ Select(window) \cap Select(next) = {}
  BY <1>2, RowTimes DEF Select
<1> QED
  BY <1>3 DEF both

\* So what the two count is what one report on both counts.
LEMMA AdjacentReports ==
    ASSUME IInv, NEW bucket, NEW window \in Windows, NEW next \in Windows,
           window.end # Null, next.start = window.end, Forwards(window), Forwards(next)
    PROVE  LET Until(w) == QueryErrorRate(w, bucket)
               both == Until([start |-> window.start, end |-> next.end])
           IN  /\ both.total = Until(window).total + Until(next).total
               /\ both.marked = Until(window).marked + Until(next).marked
<1> DEFINE both      == [start |-> window.start, end |-> next.end]
           Errors(w) == {c \in Select(w) : IsError(request_logs[c])}
<1>1. Select(both) = Select(window) \cup Select(next) /\ Select(window) \cap Select(next) = {}
  BY AdjacentWindows
<1> HIDE DEF both
<1>2. Errors(both) = Errors(window) \cup Errors(next) /\ Errors(window) \cap Errors(next) = {}
  BY <1>1
<1>3. \A w : IsFiniteSet(Select(w)) /\ IsFiniteSet(Errors(w))
  <2>1. ASSUME NEW w PROVE IsFiniteSet(Select(w)) /\ IsFiniteSet(Errors(w))
    <3>1. IsFiniteSet(Select(w)) /\ Errors(w) \in SUBSET Select(w)
      BY Selected
    <3> QED
      BY <3>1, FS_Subset
  <2> QED
    BY <2>1
<1>4. Cardinality(Select(both)) = Cardinality(Select(window)) + Cardinality(Select(next))
  BY <1>1, <1>3, Disjoint
<1> HIDE DEF Errors
<1>5. Cardinality(Errors(both)) = Cardinality(Errors(window)) + Cardinality(Errors(next))
  BY <1>2, <1>3, Disjoint
<1>6. \A w : /\ QueryErrorRate(w, bucket).total = Cardinality(Select(w))
             /\ QueryErrorRate(w, bucket).marked = Cardinality(Errors(w))
  BY ErrorsAddUp DEF Errors
<1> QED
  BY <1>4, <1>5, <1>6 DEF both

\* What the reports agree about, in any state of the table.
LEMMA Agreement == IInv => ReportsAgree
<1> SUFFICES ASSUME IInv, NEW window \in Windows, NEW bucket \in Buckets
             PROVE  LET volume  == QueryVolume(window, bucket)
                        costs   == QueryCostByModel(window)
                        latency == QueryLatencyPercentiles(window, bucket)
                        cache   == QueryCacheHitRate(window, bucket)
                        errors  == QueryErrorRate(window, bucket)
                        Until(w) == QueryErrorRate(w, bucket)
                    IN  /\ DOMAIN volume = DOMAIN latency
                        /\ \A t \in DOMAIN volume :
                              /\ {latency[t].count, cache.series[t].total, errors.series[t].total}
                                     = {volume[t]}
                              /\ latency[t].p50 <= latency[t].p95
                        /\ {cache.total, errors.total,
                            SumOf([m \in DOMAIN costs |-> costs[m].requests])} = {SumOf(volume)}
                        /\ \A next \in Windows :
                              (/\ window.end # Null /\ next.start = window.end
                               /\ Forwards(window) /\ Forwards(next)) =>
                                  LET both == Until([start |-> window.start, end |-> next.end])
                                  IN  /\ both.total = errors.total + Until(next).total
                                      /\ both.marked = errors.marked + Until(next).marked
  BY DEF ReportsAgree
<1> DEFINE volume  == QueryVolume(window, bucket)
           costs   == QueryCostByModel(window)
           latency == QueryLatencyPercentiles(window, bucket)
           cache   == QueryCacheHitRate(window, bucket)
           errors  == QueryErrorRate(window, bucket)
           lines   == [m \in DOMAIN costs |-> costs[m].requests]
<1>1. DOMAIN volume = BucketsOf(Select(window), bucket) /\ DOMAIN volume = DOMAIN latency
  BY DEF QueryVolume, QueryLatencyPercentiles
<1>2. ASSUME NEW t \in DOMAIN volume
      PROVE  /\ latency[t].count = volume[t]
             /\ cache.series[t].total = volume[t]
             /\ errors.series[t].total = volume[t]
             /\ latency[t].p50 <= latency[t].p95
  <2>1. t \in BucketsOf(Select(window), bucket)
    BY <1>1
  <2>2. volume[t] = Cardinality(RowsAt(Select(window), bucket, t))
    BY <2>1 DEF QueryVolume
  <2>3. latency[t].count = volume[t]
    BY <2>1, <2>2 DEF QueryLatencyPercentiles
  <2>4. cache.series[t].total = volume[t]
    BY <2>1, <2>2 DEF QueryCacheHitRate, Rate
  <2>5. errors.series[t].total = volume[t]
    BY <2>1, <2>2 DEF QueryErrorRate, Rate
  <2>6. latency[t].p50 <= latency[t].p95
    BY <2>1, LatenciesAscend
  <2> QED
    BY <2>3, <2>4, <2>5, <2>6
<1>3. cache.total = SumOf(volume) /\ errors.total = SumOf(volume) /\ SumOf(lines) = SumOf(volume)
  BY VolumeAddsUp, ErrorsAddUp, CacheAddsUp, CostsAddUp
<1>4. ASSUME NEW next \in Windows, window.end # Null, next.start = window.end,
             Forwards(window), Forwards(next)
      PROVE  LET Until(w) == QueryErrorRate(w, bucket)
                 both == Until([start |-> window.start, end |-> next.end])
             IN  /\ both.total = errors.total + Until(next).total
                 /\ both.marked = errors.marked + Until(next).marked
  BY <1>4, AdjacentReports
<1> HIDE DEF volume, latency, cache, errors, lines
<1>5. \A t \in DOMAIN volume :
          /\ {latency[t].count, cache.series[t].total, errors.series[t].total} = {volume[t]}
          /\ latency[t].p50 <= latency[t].p95
  BY <1>2
<1>6. {cache.total, errors.total, SumOf(lines)} = {SumOf(volume)}
  BY <1>3
<1> QED
  BY <1>1, <1>4, <1>5, <1>6 DEF volume, latency, cache, errors, lines

\* metrics.py: in every state of the table, for every window and bucket, the five
\* reports count the same calls, and reports on adjacent windows add up.
THEOREM ReportsDoAgree == Spec => []ReportsAgree
BY Invariance, Agreement, PTL

----------------------------------------------------------------------------
(* Sums of amounts. *)

\* The units that amounts consist of.
UnitsOf(g) == UNION {{t} \X (1..g[t]) : t \in DOMAIN g}

\* Amounts can be added up: the units they consist of are finitely many.
LEMMA SumExists ==
    ASSUME NEW rows, IsFiniteSet(rows), NEW g \in [rows -> Nat]
    PROVE  \E sum \in [SUBSET rows -> Nat] : IsSum(sum, g) /\ sum[rows] = Cardinality(UnitsOf(g))
<1> DEFINE Of(t)    == {t} \X (1..g[t])
           All      == UNION {Of(t) : t \in rows}
           Units(S) == {unit \in All : unit[1] \in S}
           sum      == [S \in SUBSET rows |-> Cardinality(Units(S))]
<1>1. \A t \in rows : IsFiniteSet(Of(t)) /\ Cardinality(Of(t)) = g[t]
  <2>1. ASSUME NEW t \in rows PROVE IsFiniteSet(Of(t)) /\ Cardinality(Of(t)) = g[t]
    <3>1. g[t] \in Nat
      OBVIOUS
    <3>2. IsFiniteSet({t}) /\ Cardinality({t}) = 1
      BY FS_Singleton
    <3>3. IsFiniteSet(1..g[t]) /\ Cardinality(1..g[t]) = g[t]
      BY <3>1, FS_Interval
    <3>4. IsFiniteSet(Of(t)) /\ Cardinality(Of(t)) = 1 * g[t]
      BY <3>2, <3>3, FS_Product
    <3> QED
      BY <3>1, <3>4
  <2> QED
    BY <2>1
<1>2. IsFiniteSet(All)
  <2> DEFINE f == [t \in rows |-> Of(t)]
             parts == {Of(t) : t \in rows}
  <2>1. f \in Surjection(rows, parts)
    BY DEF Surjection
  <2>2. \A part \in parts : IsFiniteSet(part)
    BY <1>1
  <2> HIDE DEF f, parts
  <2>3. IsFiniteSet(parts)
    BY <2>1, FS_Surjection
  <2>4. IsFiniteSet(UNION parts)
    BY <2>2, <2>3, FS_UNION
  <2> QED
    BY <2>4 DEF parts
<1>3. \A t \in rows : Units({t}) = Of(t)
  OBVIOUS
<1> HIDE DEF Of, All
<1>4. \A S : IsFiniteSet(Units(S)) /\ Cardinality(Units(S)) \in Nat
  <2>1. ASSUME NEW S PROVE IsFiniteSet(Units(S)) /\ Cardinality(Units(S)) \in Nat
    <3>1. Units(S) \in SUBSET All
      OBVIOUS
    <3> HIDE DEF Units
    <3> QED
      BY <1>2, <3>1, FS_Subset, FS_CardinalityType
  <2> QED
    BY <2>1
<1>5. ASSUME NEW S \in SUBSET rows, S # {}
      PROVE  Cardinality(Units(S)) = g[Pick(S)] + Cardinality(Units(S \ {Pick(S)}))
  <2>1. Pick(S) \in S
    BY <1>5 DEF Pick
  <2>2. /\ Units(S) = Units({Pick(S)}) \cup Units(S \ {Pick(S)})
        /\ Units({Pick(S)}) \cap Units(S \ {Pick(S)}) = {}
    BY <2>1
  <2>3. Cardinality(Units({Pick(S)})) = g[Pick(S)]
    BY <1>1, <1>3, <2>1
  <2> HIDE DEF Units
  <2> QED
    BY <1>4, <2>2, <2>3, Disjoint
<1>6. Cardinality(Units({})) = 0
  <2>1. Units({}) = {}
    OBVIOUS
  <2> QED
    BY <2>1, FS_EmptySet
<1> HIDE DEF Units
<1>7. sum \in [SUBSET rows -> Nat]
  BY <1>4
<1>8. sum = [S \in SUBSET rows |-> IF S = {} THEN 0 ELSE g[Pick(S)] + sum[S \ {Pick(S)}]]
  <2>1. \A S \in SUBSET rows : S \ {Pick(S)} \in SUBSET rows
    OBVIOUS
  <2> QED
    BY <1>5, <1>6, <2>1
<1>9. IsSum(sum, g)
  BY <1>8 DEF IsSum
<1>10. Units(rows) = UnitsOf(g)
  BY DEF Units, All, Of, UnitsOf
<1> QED
  BY <1>7, <1>9, <1>10

\* SumOf is any function that adds them up.
LEMMA SumOfIs ==
    ASSUME NEW g, IsFiniteSet(DOMAIN g), NEW sum, IsSum(sum, g)
    PROVE  SumOf(g) = sum[DOMAIN g]
<1>1. IsSum(CHOOSE s : IsSum(s, g), g)
  OBVIOUS
<1> QED
  BY <1>1, SumIsChosen, SumIsUnique

LEMMA SumOfType ==
    ASSUME NEW rows, IsFiniteSet(rows), NEW g \in [rows -> Nat]
    PROVE  SumOf(g) \in Nat
<1>1. PICK sum \in [SUBSET rows -> Nat] : IsSum(sum, g)
  BY SumExists
<1> QED
  BY <1>1, SumOfIs

LEMMA SumOfSums ==
    ASSUME NEW rows, IsFiniteSet(rows), NEW a \in [rows -> Nat], NEW b \in [rows -> Nat]
    PROVE  SumOf([t \in rows |-> a[t] + b[t]]) = SumOf(a) + SumOf(b)
<1> DEFINE both == [t \in rows |-> a[t] + b[t]]
<1>1. PICK sa \in [SUBSET rows -> Nat] : IsSum(sa, a)
  BY SumExists
<1>2. PICK sb \in [SUBSET rows -> Nat] : IsSum(sb, b)
  BY SumExists
<1> DEFINE sum == [S \in SUBSET rows |-> sa[S] + sb[S]]
<1>3. ASSUME NEW S \in SUBSET rows
      PROVE  sum[S] = IF S = {} THEN 0 ELSE both[Pick(S)] + sum[S \ {Pick(S)}]
  <2>1. CASE S = {}
    <3>1. sa[S] = 0 /\ sb[S] = 0
      BY <1>1, <1>2, <2>1 DEF IsSum
    <3> QED
      BY <2>1, <3>1
  <2>2. CASE S # {}
    <3>1. Pick(S) \in S /\ Pick(S) \in rows /\ S \ {Pick(S)} \in SUBSET rows
      BY <2>2 DEF Pick
    <3>2. sa[S] = a[Pick(S)] + sa[S \ {Pick(S)}] /\ sb[S] = b[Pick(S)] + sb[S \ {Pick(S)}]
      BY <1>1, <1>2, <2>2 DEF IsSum
    <3>3. /\ a[Pick(S)] \in Nat /\ b[Pick(S)] \in Nat
          /\ sa[S \ {Pick(S)}] \in Nat /\ sb[S \ {Pick(S)}] \in Nat
      BY <3>1
    <3>4. sum[S] = sa[S] + sb[S] /\ sum[S \ {Pick(S)}] = sa[S \ {Pick(S)}] + sb[S \ {Pick(S)}]
          /\ both[Pick(S)] = a[Pick(S)] + b[Pick(S)]
      BY <3>1
    <3> QED
      BY <2>2, <3>2, <3>3, <3>4
  <2> QED
    BY <2>1, <2>2
<1>4. IsSum(sum, both)
  <2>1. sum = [S \in SUBSET rows |-> sum[S]]
    OBVIOUS
  <2>2. DOMAIN both = rows
    OBVIOUS
  <2> HIDE DEF sum, both
  <2> QED
    BY <1>3, <2>1, <2>2 DEF IsSum
<1>5. SumOf(both) = sum[rows]
  <2>1. DOMAIN both = rows
    OBVIOUS
  <2> HIDE DEF sum, both
  <2> QED
    BY <1>4, <2>1, SumOfIs
<1>6. SumOf(a) = sa[rows] /\ SumOf(b) = sb[rows]
  BY <1>1, <1>2, SumOfIs
<1> QED
  BY <1>5, <1>6

LEMMA SumOfMultiples ==
    ASSUME NEW rows, IsFiniteSet(rows), NEW g \in [rows -> Nat], NEW k \in Nat
    PROVE  SumOf([t \in rows |-> k * g[t]]) = k * SumOf(g)
<1> DEFINE times == [t \in rows |-> k * g[t]]
<1>1. PICK sg \in [SUBSET rows -> Nat] : IsSum(sg, g)
  BY SumExists
<1> DEFINE sum == [S \in SUBSET rows |-> k * sg[S]]
<1>2. ASSUME NEW S \in SUBSET rows
      PROVE  sum[S] = IF S = {} THEN 0 ELSE times[Pick(S)] + sum[S \ {Pick(S)}]
  <2>1. CASE S = {}
    <3>1. sg[S] = 0
      BY <1>1, <2>1 DEF IsSum
    <3> QED
      BY <2>1, <3>1
  <2>2. CASE S # {}
    <3>1. Pick(S) \in S /\ Pick(S) \in rows /\ S \ {Pick(S)} \in SUBSET rows
      BY <2>2 DEF Pick
    <3>2. sg[S] = g[Pick(S)] + sg[S \ {Pick(S)}]
      BY <1>1, <2>2 DEF IsSum
    <3>3. g[Pick(S)] \in Nat /\ sg[S \ {Pick(S)}] \in Nat
      BY <3>1
    <3>4. sum[S] = k * sg[S] /\ sum[S \ {Pick(S)}] = k * sg[S \ {Pick(S)}]
          /\ times[Pick(S)] = k * g[Pick(S)]
      BY <3>1
    <3>5. \A x, y \in Nat : k * (x + y) = k * x + k * y
      OBVIOUS
    <3> QED
      BY <2>2, <3>2, <3>3, <3>4, <3>5
  <2> QED
    BY <2>1, <2>2
<1>3. DOMAIN times = rows /\ sum = [S \in SUBSET rows |-> sum[S]]
  OBVIOUS
<1>4. SumOf(times) = sum[rows]
  <2> HIDE DEF sum, times
  <2>1. IsSum(sum, times)
    BY <1>2, <1>3 DEF IsSum
  <2> QED
    BY <1>3, <2>1, SumOfIs
<1>5. SumOf(g) = sg[rows]
  BY <1>1, SumOfIs
<1> QED
  BY <1>4, <1>5

LEMMA SumGrows ==
    ASSUME NEW rows, IsFiniteSet(rows), NEW a \in [rows -> Nat], NEW b \in [rows -> Nat],
           \A t \in rows : a[t] <= b[t]
    PROVE  SumOf(a) <= SumOf(b)
<1> DEFINE more == [t \in rows |-> b[t] - a[t]]
<1>1. more \in [rows -> Nat]
  OBVIOUS
<1>2. b = [t \in rows |-> a[t] + more[t]]
  OBVIOUS
<1> HIDE DEF more
<1>3. SumOf(b) = SumOf(a) + SumOf(more)
  BY <1>1, <1>2, SumOfSums
<1> QED
  BY <1>1, <1>3, SumOfType

----------------------------------------------------------------------------
(* Costs. *)

\* What a record says of a call, if it says anything.
Cached(c) == IF Record(c).usage = Null THEN 0 ELSE Record(c).usage.cached
Cost(c)   == IF Record(c).usage = Null THEN 0 ELSE Record(c).usage.cost
IsSane(c) == Record(c).usage # Null => Record(c).usage.cached <= Record(c).usage.input

\* A lookup finds the entry that a model is billed by, and nothing for the others.
LEMMA LookupIsBilling ==
    ASSUME NEW model, model \in Name \/ Candidates(model) = {}
    PROVE  /\ LookupPricing(model) = Unpriced <=> ~Priced(model)
           /\ LookupPricing(model) # Unpriced =>
                 \E key \in DOMAIN Pricing : BilledBy(key, model) /\ LookupPricing(model) = Pricing[key]
<1>1. CASE model \in DOMAIN Pricing
  <2>1. LookupPricing(model) = Pricing[model] /\ BilledBy(model, model)
    BY <1>1 DEF LookupPricing, BilledBy
  <2>2. LookupPricing(model) # Unpriced
    BY <1>1, <2>1, PricingAssumption
  <2> QED
    BY <1>1, <2>1, <2>2 DEF Priced
<1>2. CASE model \notin DOMAIN Pricing /\ Candidates(model) = {}
  <2>1. LookupPricing(model) = Unpriced
    BY <1>2 DEF LookupPricing
  <2>2. ~Priced(model)
    BY <1>2 DEF Priced, BilledBy, Candidates
  <2> QED
    BY <2>1, <2>2
<1>3. CASE model \notin DOMAIN Pricing /\ Candidates(model) # {}
  <2> DEFINE key == CHOOSE k \in Candidates(model) :
                        \A other \in Candidates(model) : Len(other) <= Len(k)
  <2>1. key \in Candidates(model) /\ \A other \in Candidates(model) : Len(other) <= Len(key)
    BY <1>3, LongestCandidate
  <2>2. LookupPricing(model) = Pricing[key]
    BY <1>3 DEF LookupPricing
  <2> HIDE DEF key
  <2>3. key \in DOMAIN Pricing /\ BilledBy(key, model)
    BY <1>3, <2>1 DEF Candidates, BilledBy
  <2>4. LookupPricing(model) # Unpriced
    BY <2>2, <2>3, PricingAssumption
  <2> QED
    BY <2>2, <2>3, <2>4 DEF Priced
<1> QED
  BY <1>1, <1>2, <1>3

\* A replayed answer is recorded as it was the first time, as far as costs go.
LEMMA SameAnswer ==
    ASSUME NEW c \in Calls
    PROVE  /\ Origin[c] \in Calls /\ ~Call[Origin[c]].cache_hit
           /\ Call[Origin[c]].response = Call[c].response
           /\ Record(c).usage = Record(Origin[c]).usage
           /\ Record(c).model = Record(Origin[c]).model
<1>1. /\ Origin[c] \in Calls /\ ~Call[Origin[c]].cache_hit
      /\ Call[Origin[c]].response = Call[c].response /\ Call[Origin[c]].model = Call[c].model
  BY OriginAssumption
<1> QED
  BY <1>1 DEF Record, BuildLogRecord

\* A count is read as it is written, one below zero as none.
LEMMA CountRead == \A n \in Int : AsTokenCount(Number(n)) = Positive(n) /\ Number(n) # Other
<1> SUFFICES ASSUME NEW n \in Int
             PROVE  AsTokenCount(Number(n)) = Positive(n) /\ Number(n) # Other
  OBVIOUS
<1>1. Number(n).type = "number" /\ Number(n).value = n /\ Other.type = "other"
  BY DEF Number, Other
<1> QED
  BY <1>1 DEF AsTokenCount, Positive

\* The record of a call whose provider is true has the provider's counts, and the
\* name the provider gave the model.
LEMMA TrueReport ==
    ASSUME ProviderIsTrue, NEW c \in Calls, ReportsUsage(Call[c].response)
    PROVE  LET tokens == Tokens[Origin[c]]
               usage  == Record(c).usage
               name   == Get(Call[Origin[c]].response, "model").value
           IN  /\ ReportsUsage(Call[Origin[c]].response)
               /\ {tokens.input, tokens.output, tokens.cached} \subseteq Int
               /\ name \in Name \ {<<>>, Null} /\ Record(c).model = name
               /\ usage.input = Positive(tokens.input) /\ usage.output = Positive(tokens.output)
               /\ usage.cached = Positive(tokens.cached)
               /\ usage.cost = ComputeCost(name, usage.input, usage.output, usage.cached)
<1> DEFINE o        == Origin[c]
           response == Call[o].response
           tokens   == Tokens[o]
           usage    == Get(response, "usage")
           model    == Get(response, "model")
<1>1. ReportsUsage(response) /\ o \in Calls /\ ~Call[o].cache_hit /\ Record(c).usage = Record(o).usage
      /\ Record(c).model = Record(o).model
  BY SameAnswer
<1>2. /\ {tokens.input, tokens.output, tokens.cached} \subseteq Int
      /\ ChatSpelling(usage, tokens) \/ ResponsesSpelling(usage, tokens)
      /\ model.type = "text" /\ model.value \in Name \ {<<>>, Null}
  BY <1>1 DEF ProviderIsTrue
<1>3. IsObject(usage)
  BY <1>1 DEF ReportsUsage
<1>4. /\ ExtractUsage(response).model = model.value
      /\ ExtractUsage(response).input
            = AsTokenCount(GetOr(usage, "prompt_tokens", Get(usage, "input_tokens")))
      /\ ExtractUsage(response).output
            = AsTokenCount(GetOr(usage, "completion_tokens", Get(usage, "output_tokens")))
      /\ ExtractUsage(response).cached = CachedInputTokens(usage)
  BY <1>2, <1>3 DEF ExtractUsage
<1>5. LET read == ExtractUsage(response)
      IN  /\ Record(o).model = model.value
          /\ Record(o).usage.input = read.input /\ Record(o).usage.output = read.output
          /\ Record(o).usage.cached = read.cached
          /\ Record(o).usage.cost = ComputeCost(model.value, read.input, read.output, read.cached)
  BY <1>1, <1>2, <1>4 DEF Record, BuildLogRecord
<1> HIDE DEF o, response, usage, model, tokens
<1>6. ASSUME NEW details, NEW count \in Int, SaysCached(details, count), IsObject(details)
      PROVE  AsTokenCount(Get(details, "cached_tokens")) = Positive(count)
  BY <1>6, CountRead DEF SaysCached
<1>7. ASSUME NEW details, NEW count \in Int, SaysCached(details, count), ~IsObject(details)
      PROVE  Positive(count) = 0
  BY <1>7 DEF SaysCached, Positive
<1>8. ~IsObject(Other)
  BY DEF IsObject, Other
<1>9. LET read == ExtractUsage(response)
      IN  /\ read.input = Positive(tokens.input) /\ read.output = Positive(tokens.output)
          /\ read.cached = Positive(tokens.cached)
  <2>1. CASE ChatSpelling(usage, tokens)
    <3>1. {"prompt_tokens", "completion_tokens"} \subseteq DOMAIN usage.fields
      BY <1>2, <2>1, CountRead DEF ChatSpelling, Get, GetOr
    <3>2. GetOr(usage, "prompt_tokens", Get(usage, "input_tokens")) = Number(tokens.input)
          /\ GetOr(usage, "completion_tokens", Get(usage, "output_tokens")) = Number(tokens.output)
      BY <2>1, <3>1 DEF ChatSpelling, Get, GetOr
    <3>3. Get(usage, "input_tokens_details") = Other
      BY <2>1 DEF ChatSpelling, Get, GetOr
    <3>4. CachedInputTokens(usage) = Positive(tokens.cached)
      BY <1>2, <1>6, <1>7, <1>8, <2>1, <3>3 DEF ChatSpelling, CachedInputTokens
    <3> QED
      BY <1>2, <1>4, <3>2, <3>4, CountRead
  <2>2. CASE ResponsesSpelling(usage, tokens)
    <3>1. GetOr(usage, "prompt_tokens", Get(usage, "input_tokens")) = Number(tokens.input)
          /\ GetOr(usage, "completion_tokens", Get(usage, "output_tokens")) = Number(tokens.output)
      BY <2>2 DEF ResponsesSpelling, GetOr
    <3>2. CachedInputTokens(usage) = Positive(tokens.cached)
      BY <1>2, <1>6, <1>7, <2>2 DEF ResponsesSpelling, CachedInputTokens
    <3> QED
      BY <1>2, <1>4, <3>1, <3>2, CountRead
  <2> QED
    BY <1>2, <2>1, <2>2
<1> QED
  BY <1>1, <1>2, <1>5, <1>9 DEF o, response, model, tokens

\* What is recorded of a model with a price is what the provider charged for the
\* answer, and of a model without one that it cost nothing.
LEMMA Charged ==
    ASSUME ProviderIsTrue, NEW c \in Calls, Record(c).usage # Null
    PROVE  LET usage == Record(c).usage
               name  == Record(c).model
           IN  /\ name \in Name /\ ModelLabel(Record(c)) = name
               /\ usage.input \in Nat /\ usage.output \in Nat /\ usage.cached \in Nat
               /\ usage.cost = ComputeCost(name, usage.input, usage.output, usage.cached)
               /\ Priced(name) => /\ Invoice[Origin[c]] = usage.cost
                                  /\ FullPrice[Origin[c]] = FullPriceOf(name, usage.input, usage.output)
<1> DEFINE o      == Origin[c]
           tokens == Tokens[o]
           usage  == Record(c).usage
           name   == Get(Call[o].response, "model").value
           cached == IF Positive(tokens.cached) <= Positive(tokens.input) THEN Positive(tokens.cached)
                     ELSE Positive(tokens.input)
<1>1. /\ ReportsUsage(Call[o].response)
      /\ {tokens.input, tokens.output, tokens.cached} \subseteq Int
      /\ name \in Name \ {<<>>, Null} /\ Record(c).model = name
      /\ usage.input = Positive(tokens.input) /\ usage.output = Positive(tokens.output)
      /\ usage.cached = Positive(tokens.cached)
      /\ usage.cost = ComputeCost(name, usage.input, usage.output, usage.cached)
  <2>1. ReportsUsage(Call[c].response)
    BY DEF Record, BuildLogRecord
  <2> QED
    BY <2>1, TrueReport
<1>2. usage.input \in Nat /\ usage.output \in Nat /\ usage.cached \in Nat
  BY <1>1 DEF Positive
<1>3. \A n \in Nat : Positive(n) = n
  BY DEF Positive
<1>4. ModelLabel(Record(c)) = name
  BY <1>1 DEF ModelLabel
<1>5. ASSUME Priced(name)
      PROVE  /\ Invoice[o] = usage.cost
             /\ FullPrice[o] = FullPriceOf(name, usage.input, usage.output)
  <2>1. LookupPricing(name) # Unpriced
    BY <1>1, <1>5, LookupIsBilling
  <2>2. PICK key \in DOMAIN Pricing : BilledBy(key, name) /\ LookupPricing(name) = Pricing[key]
    BY <1>1, <2>1, LookupIsBilling
  <2>3. o \in Calls /\ ~Call[o].cache_hit
    BY SameAnswer
  <2>4. /\ Invoice[o] = Charge(Pricing[key], Positive(tokens.input), cached, Positive(tokens.output))
        /\ FullPrice[o] = Charge(Pricing[key], Positive(tokens.input), 0, Positive(tokens.output))
    BY <1>1, <2>2, <2>3 DEF ProviderIsTrue
  <2> HIDE DEF o, tokens, usage, name
  <2>5. usage.cost = Charge(Pricing[key], Positive(tokens.input), cached, Positive(tokens.output))
    BY <1>1, <1>2, <1>3, <2>1, <2>2 DEF ComputeCost, Charge
  <2>6. Positive(0) = 0 /\ 0 <= Positive(tokens.input)
    BY <1>1 DEF Positive
  <2>7. FullPriceOf(name, usage.input, usage.output)
            = Charge(Pricing[key], Positive(tokens.input), 0, Positive(tokens.output))
    BY <1>1, <1>2, <1>3, <2>1, <2>2, <2>6 DEF FullPriceOf, ComputeCost, Charge
  <2> QED
    BY <2>4, <2>5, <2>7
<1> QED
  BY <1>1, <1>2, <1>4, <1>5

\* What is saved on each cached token of a model.
Saving(model) == IF LookupPricing(model) = Unpriced THEN 0
                 ELSE LookupPricing(model).input - CachedInputRate(LookupPricing(model))

LEMMA SavingsAreLinear ==
    ASSUME NEW model, model \in Name \/ LookupPricing(model) = Unpriced, NEW cached \in Nat
    PROVE  Saving(model) \in Nat /\ CacheSavings(model, cached) = Saving(model) * cached
<1>1. CASE LookupPricing(model) = Unpriced
  BY <1>1 DEF Saving, CacheSavings
<1>2. CASE LookupPricing(model) # Unpriced
  <2> DEFINE full == LookupPricing(model).input
             less == CachedInputRate(LookupPricing(model))
  <2>1. full \in Nat /\ less \in Nat /\ less <= full
    BY <1>2, RatesFound
  <2>2. Saving(model) = full - less /\ Positive(cached) = cached
    BY <1>2 DEF Saving, Positive
  <2>3. CacheSavings(model, cached) = Positive(cached) * (full - less)
    BY <1>2 DEF CacheSavings
  <2> HIDE DEF full, less
  <2>4. Saving(model) \in Nat
    BY <2>1, <2>2
  <2>5. cached * Saving(model) = Saving(model) * cached
    BY <2>4
  <2> QED
    BY <2>2, <2>3, <2>4, <2>5
<1> QED
  BY <1>1, <1>2

\* A label is a name, or the one for calls without a name, which is too short to be
\* a release of anything.
LEMMA LabelsAreNames ==
    ASSUME ProviderIsTrue, NEW c \in Calls
    PROVE  ModelLabel(Record(c)) \in Name \/ Candidates(ModelLabel(Record(c))) = {}
<1>1. Record(c).model = Null \/ Record(c).model \in Name
  <2>1. CASE ReportsUsage(Call[c].response)
    BY <2>1, TrueReport
  <2>2. CASE ~ReportsUsage(Call[c].response)
    BY <2>2, CallsAssumption DEF Record, BuildLogRecord
  <2> QED
    BY <2>1, <2>2
<1>2. Candidates(<<"unknown">>) = {}
  <2>1. ASSUME NEW key \in DOMAIN Pricing PROVE ~IsReleaseOf(<<"unknown">>, key)
    <3>1. key \in Seq(STRING) /\ key # <<>>
      BY PricingAssumption DEF Name
    <3>2. Len(key) \in Nat /\ Len(key) # 0
      BY <3>1, EmptySeq
    <3>3. Len(<<"unknown">>) = 1
      OBVIOUS
    <3> QED
      BY <3>2, <3>3 DEF IsReleaseOf
  <2> QED
    BY <2>1 DEF Candidates
<1> QED
  BY <1>1, <1>2 DEF ModelLabel

\* A call without usage costs nothing and saved nothing.  With usage its cost is a
\* number, nothing where its label has no price; and where it has one it is what the
\* provider charged, and with what the cached tokens saved the full price, or more.
LEMMA CallReconciles ==
    ASSUME ProviderIsTrue, NEW c \in Calls, NEW m, ModelLabel(Record(c)) = m
    PROVE  /\ Cost(c) \in Nat /\ Cached(c) \in Nat
           /\ Record(c).usage = Null => Cost(c) = 0 /\ Cached(c) = 0
           /\ ~Priced(m) => Cost(c) = 0
           /\ Priced(m) /\ Record(c).usage # Null =>
                 /\ Invoice[Origin[c]] = Cost(c) /\ FullPrice[Origin[c]] \in Nat
                 /\ FullPrice[Origin[c]] <= Cost(c) + Saving(m) * Cached(c)
                 /\ IsSane(c) => Cost(c) + Saving(m) * Cached(c) = FullPrice[Origin[c]]
<1> DEFINE usage == Record(c).usage
<1>1. CASE usage = Null
  BY <1>1 DEF Cost, Cached
<1>2. CASE usage # Null
  <2>1. /\ m \in Name /\ Record(c).model = m
        /\ usage.input \in Nat /\ usage.output \in Nat /\ usage.cached \in Nat
        /\ usage.cost = ComputeCost(m, usage.input, usage.output, usage.cached)
        /\ Priced(m) => /\ Invoice[Origin[c]] = usage.cost
                        /\ FullPrice[Origin[c]] = FullPriceOf(m, usage.input, usage.output)
    BY <1>2, Charged
  <2>2. Cost(c) = usage.cost /\ Cached(c) = usage.cached /\ (IsSane(c) <=> usage.cached <= usage.input)
    BY <1>2 DEF Cost, Cached, IsSane
  <2> HIDE DEF usage
  <2>3. usage.cost \in Nat
    BY <2>1, BillIsBounded
  <2>4. ~Priced(m) => usage.cost = 0
    BY <2>1, LookupIsBilling DEF ComputeCost
  <2>5. FullPriceOf(m, usage.input, usage.output) \in Nat
    BY <2>1, BillIsBounded DEF FullPriceOf
  <2>6. /\ CacheSavings(m, usage.cached) = Saving(m) * usage.cached
        /\ Saving(m) * usage.cached \in Nat
    BY <2>1, SavingsAreLinear, Product
  <2>7. LET full == FullPriceOf(m, usage.input, usage.output)
        IN  /\ usage.cost + CacheSavings(m, usage.cached) >= full
            /\ usage.cached <= usage.input => usage.cost + CacheSavings(m, usage.cached) = full
    BY <2>1, SavingsComplement
  <2> QED
    BY <1>2, <2>1, <2>2, <2>3, <2>4, <2>5, <2>6, <2>7 DEF usage
<1> QED
  BY <1>1, <1>2

\* Amounts that are looked up answer by answer add up like the lines of a report.
FoldOf(h, rows) == MapThenSumSet(LAMBDA c : h[Origin[c]], rows)

LEMMA FoldsAreSums ==
    ASSUME NEW rows, IsFiniteSet(rows), NEW h, NEW g \in [rows -> Nat], \A c \in rows : g[c] = h[Origin[c]]
    PROVE  FoldOf(h, rows) = SumOf(g)
<1> DEFINE IsFold(sum) == sum = [S \in SUBSET rows |->
                                    IF S = {} THEN 0 ELSE h[Origin[Pick(S)]] + sum[S \ {Pick(S)}]]
<1>1. FoldOf(h, rows) = (CHOOSE sum : IsFold(sum))[rows]
  BY DEF FoldOf, MapThenSumSet, MapThenFoldSet, Pick
<1>2. \A sum : IsFold(sum) <=> IsSum(sum, g)
  <2>1. DOMAIN g = rows /\ \A S \in SUBSET rows : S # {} => g[Pick(S)] = h[Origin[Pick(S)]]
    BY DEF Pick
  <2> QED
    BY <2>1 DEF IsSum
<1>3. PICK sum \in [SUBSET rows -> Nat] : IsSum(sum, g)
  BY SumExists
<1> HIDE DEF IsFold
<1>4. IsSum(CHOOSE s : IsFold(s), g)
  BY <1>2, <1>3
<1> QED
  BY <1>1, <1>4, SumOfIs

\* So do the columns of their rows.
LEMMA TotalsAreSums ==
    ASSUME NEW rows, IsFiniteSet(rows), NEW column, NEW g \in [rows -> Nat],
           \A c \in rows : g[c] = IF request_logs[c].usage = Null THEN 0
                                  ELSE request_logs[c].usage[column]
    PROVE  Total(rows, column) = SumOf(g)
<1> DEFINE value(c)    == IF request_logs[c].usage = Null THEN 0 ELSE request_logs[c].usage[column]
           IsFold(sum) == sum = [S \in SUBSET rows |->
                                    IF S = {} THEN 0 ELSE value(Pick(S)) + sum[S \ {Pick(S)}]]
<1>1. Total(rows, column) = (CHOOSE sum : IsFold(sum))[rows]
  BY DEF Total, MapThenSumSet, MapThenFoldSet, Pick
<1>2. \A sum : IsFold(sum) <=> IsSum(sum, g)
  <2>1. DOMAIN g = rows /\ \A S \in SUBSET rows : S # {} => g[Pick(S)] = value(Pick(S))
    BY DEF Pick
  <2> HIDE DEF value
  <2> QED
    BY <2>1 DEF IsSum
<1>3. PICK sum \in [SUBSET rows -> Nat] : IsSum(sum, g)
  BY SumExists
<1> HIDE DEF IsFold
<1>4. IsSum(CHOOSE s : IsFold(s), g)
  BY <1>2, <1>3
<1> QED
  BY <1>1, <1>4, SumOfIs

\* What adds nothing to a sum can be left out.
LEMMA SumOfSome ==
    ASSUME NEW rows, IsFiniteSet(rows), NEW g \in [rows -> Nat], NEW some \in SUBSET rows
    PROVE  (\A c \in rows \ some : g[c] = 0) => SumOf(g) = SumOf([c \in some |-> g[c]])
<1> SUFFICES ASSUME \A c \in rows \ some : g[c] = 0
             PROVE  SumOf(g) = SumOf([c \in some |-> g[c]])
  OBVIOUS
<1> DEFINE h == [c \in some |-> g[c]]
<1>1. IsFiniteSet(some) /\ h \in [some -> Nat]
  BY FS_Subset
<1>2. PICK sg \in [SUBSET rows -> Nat] : IsSum(sg, g) /\ sg[rows] = Cardinality(UnitsOf(g))
  BY SumExists
<1>3. PICK sh \in [SUBSET some -> Nat] : IsSum(sh, h) /\ sh[some] = Cardinality(UnitsOf(h))
  BY <1>1, SumExists
<1>4. UnitsOf(g) = UnitsOf(h)
  <2>1. \A c \in rows \ some : {c} \X (1..g[c]) = {}
    OBVIOUS
  <2>2. UNION {{c} \X (1..g[c]) : c \in rows} = UNION {{c} \X (1..g[c]) : c \in some}
    BY <2>1
  <2>3. \A c \in some : {c} \X (1..g[c]) = {c} \X (1..h[c])
    OBVIOUS
  <2>4. DOMAIN g = rows /\ DOMAIN h = some
    OBVIOUS
  <2> QED
    BY <2>2, <2>3, <2>4 DEF UnitsOf
<1>5. SumOf(g) = sg[rows]
  BY <1>2, SumOfIs
<1>6. SumOf(h) = sh[some]
  BY <1>1, <1>3, SumOfIs
<1> QED
  BY <1>2, <1>3, <1>4, <1>5, <1>6

\* The line of a model, for the calls that go by its label and those of them that told
\* their usage.
LEMMA ModelReconciles ==
    ASSUME ProviderIsTrue, RowsAreRecords, NEW m, NEW of, IsFiniteSet(of),
           of \subseteq Calls, of \subseteq DOMAIN request_logs, of # {},
           \A c \in of : ModelLabel(request_logs[c]) = m,
           NEW told, told = {c \in of : request_logs[c].usage # Null}
    PROVE  LET bill  == MapThenSumSet(LAMBDA c : Invoice[Origin[c]], told)
               full  == MapThenSumSet(LAMBDA c : FullPrice[Origin[c]], told)
               total == Total(of, "cost") + CacheSavings(m, Total(of, "cached"))
           IN  IF ~Priced(m) THEN Total(of, "cost") = 0 /\ total = 0
               ELSE /\ Total(of, "cost") = bill
                    /\ total >= full
                    /\ (\A c \in told : IsSane(c)) => total = full
<1> DEFINE costs  == [c \in of |-> Cost(c)]
           cached == [c \in of |-> Cached(c)]
           saved  == [c \in of |-> Saving(m) * cached[c]]
           both   == [c \in of |-> costs[c] + saved[c]]
<1>1. ASSUME NEW c \in of
      PROVE  ModelLabel(Record(c)) = m /\ request_logs[c].usage = Record(c).usage
  <2>1. request_logs[c] = RowOf(c) /\ c \in Calls
    BY DEF RowsAreRecords
  <2>2. {"usage", "model"} \subseteq DOMAIN Record(c)
    BY DEF Record, BuildLogRecord
  <2>3. request_logs[c].usage = Record(c).usage /\ request_logs[c].model = Record(c).model
    BY <2>1, <2>2 DEF RowOf
  <2> QED
    BY <2>3 DEF ModelLabel
<1>2. \A c \in of :
          /\ Cost(c) \in Nat /\ Cached(c) \in Nat
          /\ Record(c).usage = Null => Cost(c) = 0 /\ Cached(c) = 0
          /\ ~Priced(m) => Cost(c) = 0
          /\ Priced(m) /\ Record(c).usage # Null =>
                /\ Invoice[Origin[c]] = Cost(c) /\ FullPrice[Origin[c]] \in Nat
                /\ FullPrice[Origin[c]] <= Cost(c) + Saving(m) * Cached(c)
                /\ IsSane(c) => Cost(c) + Saving(m) * Cached(c) = FullPrice[Origin[c]]
  BY <1>1, CallReconciles
<1>3. /\ m \in Name \/ Candidates(m) = {}
      /\ m \in Name \/ LookupPricing(m) = Unpriced
  <2>1. m \in Name \/ Candidates(m) = {}
    BY <1>1, LabelsAreNames
  <2>2. m \in DOMAIN Pricing => m \in Name
    BY PricingAssumption
  <2> QED
    BY <2>1, <2>2 DEF LookupPricing
<1>4. Saving(m) \in Nat
  BY <1>3, SavingsAreLinear
<1>5. costs \in [of -> Nat] /\ cached \in [of -> Nat]
  BY <1>2
<1>6. saved \in [of -> Nat]
  BY <1>4, <1>5, Product
<1>7. both \in [of -> Nat]
  BY <1>5, <1>6
<1>8. Total(of, "cost") = SumOf(costs)
  <2>1. \A c \in of : costs[c] = IF request_logs[c].usage = Null THEN 0
                                 ELSE request_logs[c].usage["cost"]
    BY <1>1 DEF Cost
  <2> HIDE DEF costs
  <2> QED
    BY <1>5, <2>1, TotalsAreSums
<1>9. Total(of, "cached") = SumOf(cached)
  <2>1. \A c \in of : cached[c] = IF request_logs[c].usage = Null THEN 0
                                  ELSE request_logs[c].usage["cached"]
    BY <1>1 DEF Cached
  <2> HIDE DEF cached
  <2> QED
    BY <1>5, <2>1, TotalsAreSums
<1>10. CacheSavings(m, SumOf(cached)) = Saving(m) * SumOf(cached)
  BY <1>3, <1>5, SumOfType, SavingsAreLinear
<1>11. CASE ~Priced(m)
  <2>1. Saving(m) = 0
    BY <1>3, <1>11, LookupIsBilling DEF Saving
  <2>2. SumOf(cached) \in Nat
    BY <1>5, SumOfType
  <2>3. Total(of, "cost") = 0
    <3>1. costs = [c \in of |-> 0 * cached[c]]
      BY <1>2, <1>11
    <3> HIDE DEF costs, cached
    <3>2. SumOf(costs) = 0 * SumOf(cached)
      BY <1>5, <3>1, SumOfMultiples
    <3> QED
      BY <1>8, <2>2, <3>2
  <2> QED
    BY <1>9, <1>10, <1>11, <2>1, <2>2, <2>3
<1>12. CASE Priced(m)
  <2> DEFINE prices == [c \in told |-> FullPrice[Origin[c]]]
             bills  == [c \in told |-> costs[c]]
             sums   == [c \in told |-> both[c]]
  <2>1. told \in SUBSET of /\ IsFiniteSet(told)
    BY FS_Subset
  <2>2. \A c \in told : Record(c).usage # Null
    BY <1>1
  <2>3. \A c \in of \ told : Record(c).usage = Null
    BY <1>1
  <2>4. prices \in [told -> Nat] /\ bills \in [told -> Nat] /\ sums \in [told -> Nat]
    BY <1>2, <1>5, <1>7, <1>12, <2>1, <2>2
  <2>5. \A c \in of \ told : costs[c] = 0 /\ both[c] = 0
    <3>1. Saving(m) * 0 = 0
      BY <1>4
    <3> QED
      BY <1>2, <2>3, <3>1
  <2>6. \A c \in told : bills[c] = Invoice[Origin[c]] /\ prices[c] = FullPrice[Origin[c]]
    BY <1>2, <1>12, <2>1, <2>2
  <2>7. \A c \in told : prices[c] <= sums[c] /\ (IsSane(c) => prices[c] = sums[c])
    BY <1>2, <1>12, <2>1, <2>2
  <2> HIDE DEF costs, cached, prices, bills, sums
  <2>8. SumOf(saved) = Saving(m) * SumOf(cached)
    BY <1>4, <1>5, SumOfMultiples
  <2> HIDE DEF saved
  <2>9. SumOf(both) = SumOf(costs) + SumOf(saved)
    BY <1>5, <1>6, SumOfSums
  <2> HIDE DEF both
  <2>10. SumOf(costs) = SumOf(bills) /\ SumOf(both) = SumOf(sums)
    <3>1. SumOf(costs) = SumOf([c \in told |-> costs[c]])
      BY <1>5, <2>1, <2>5, SumOfSome
    <3>2. SumOf(both) = SumOf([c \in told |-> both[c]])
      BY <1>7, <2>1, <2>5, SumOfSome
    <3> QED
      BY <3>1, <3>2 DEF bills, sums
  <2>11. MapThenSumSet(LAMBDA c : Invoice[Origin[c]], told) = SumOf(bills)
    <3>1. FoldOf(Invoice, told) = SumOf(bills)
      BY <2>1, <2>4, <2>6, FoldsAreSums
    <3> QED
      BY <3>1 DEF FoldOf
  <2>12. MapThenSumSet(LAMBDA c : FullPrice[Origin[c]], told) = SumOf(prices)
    <3>1. FoldOf(FullPrice, told) = SumOf(prices)
      BY <2>1, <2>4, <2>6, FoldsAreSums
    <3> QED
      BY <3>1 DEF FoldOf
  <2>13. SumOf(prices) <= SumOf(sums)
    BY <2>1, <2>4, <2>7, SumGrows
  <2>14. (\A c \in told : IsSane(c)) => SumOf(sums) = SumOf(prices)
    <3>1. ASSUME \A c \in told : IsSane(c) PROVE sums = prices
      BY <2>4, <2>7, <3>1
    <3> QED
      BY <3>1
  <2>15. SumOf(sums) \in Nat /\ SumOf(prices) \in Nat
    BY <2>1, <2>4, SumOfType
  <2>16. Total(of, "cost") + CacheSavings(m, Total(of, "cached")) = SumOf(sums)
    BY <1>8, <1>9, <1>10, <2>8, <2>9, <2>10
  <2>17. Total(of, "cost") = SumOf(bills)
    BY <1>8, <2>10
  <2> QED
    BY <1>12, <2>11, <2>12, <2>13, <2>14, <2>15, <2>16, <2>17
<1> QED
  BY <1>11, <1>12

\* So every line of a report on costs is right if the provider is.
LEMMA Reconciliation == ASSUME ProviderIsTrue PROVE IInv => CostsReconcile
<1> SUFFICES ASSUME IInv, NEW window \in Windows, NEW m \in DOMAIN QueryCostByModel(window)
             PROVE  LET costs == QueryCostByModel(window)
                        told  == {c \in Select(window) : ModelLabel(request_logs[c]) = m
                                                         /\ request_logs[c].usage # Null}
                        Sane(c) == request_logs[c].usage.cached <= request_logs[c].usage.input
                        full  == MapThenSumSet(LAMBDA c : FullPrice[Origin[c]], told)
                        total == costs[m].cost_usd + costs[m].cache_savings_usd
                    IN  IF ~Priced(m) THEN costs[m].cost_usd = 0 /\ total = 0
                        ELSE /\ costs[m].cost_usd
                                    = MapThenSumSet(LAMBDA c : Invoice[Origin[c]], told)
                             /\ total >= full
                             /\ (\A c \in told : Sane(c)) => total = full
  BY DEF CostsReconcile
<1> DEFINE costs == QueryCostByModel(window)
           of    == {c \in Select(window) : ModelLabel(request_logs[c]) = m}
           told  == {c \in of : request_logs[c].usage # Null}
           Sane(c) == request_logs[c].usage.cached <= request_logs[c].usage.input
<1>1. of \subseteq Calls /\ of \subseteq DOMAIN request_logs /\ IsFiniteSet(of)
  <2>1. of \in SUBSET Select(window)
    OBVIOUS
  <2>2. Select(window) \subseteq Calls /\ Select(window) \subseteq DOMAIN request_logs
    BY DEF Select, IInv, TypeOK
  <2> QED
    BY <2>1, <2>2, Selected, FS_Subset
<1>2. of # {} /\ \A c \in of : ModelLabel(request_logs[c]) = m
  BY DEF QueryCostByModel
<1>3. costs[m].cost_usd = Total(of, "cost")
      /\ costs[m].cache_savings_usd = CacheSavings(m, Total(of, "cached"))
  BY DEF QueryCostByModel
<1>4. \A c \in told : Sane(c) => IsSane(c)
  <2>1. ASSUME NEW c \in of PROVE request_logs[c].usage = Record(c).usage
    <3>1. request_logs[c] = RowOf(c)
      BY <1>1 DEF IInv, RowsAreRecords
    <3>2. "usage" \in DOMAIN Record(c)
      BY DEF Record, BuildLogRecord
    <3> QED
      BY <3>1, <3>2 DEF RowOf
  <2> QED
    BY <2>1 DEF IsSane
<1>5. told = {c \in Select(window) : ModelLabel(request_logs[c]) = m
                                     /\ request_logs[c].usage # Null}
  OBVIOUS
<1> HIDE DEF costs, of, Sane
<1>6. LET bill  == MapThenSumSet(LAMBDA c : Invoice[Origin[c]], told)
          full  == MapThenSumSet(LAMBDA c : FullPrice[Origin[c]], told)
          total == Total(of, "cost") + CacheSavings(m, Total(of, "cached"))
      IN  IF ~Priced(m) THEN Total(of, "cost") = 0 /\ total = 0
          ELSE /\ Total(of, "cost") = bill
               /\ total >= full
               /\ (\A c \in told : IsSane(c)) => total = full
  BY <1>1, <1>2, ModelReconciles DEF IInv
<1>7. (\A c \in told : Sane(c)) => \A c \in told : IsSane(c)
  BY <1>4
<1> HIDE DEF told
<1> QED
  BY <1>3, <1>5, <1>6, <1>7 DEF costs, Sane

\* cost.py and metrics.py: where the provider reports true counts, in either of its
\* spellings, and charges by its price list, every line of every report says what it
\* charged for the answers of the line, and the savings next to it what they would
\* have cost without its cache, or more.
THEOREM CostsDoReconcile == ASSUME ProviderIsTrue PROVE Spec => []CostsReconcile
<1>1. IInv => CostsReconcile
  BY Reconciliation
<1> QED
  BY <1>1, Invariance, PTL
=============================================================================
