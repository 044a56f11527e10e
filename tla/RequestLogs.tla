---------------------------- MODULE RequestLogs ----------------------------
(***************************************************************************)
(* The table request_logs: the rows that proxy.py builds and               *)
(* logging_sink.py commits, the reports that metrics.py computes from them *)
(* and the rows that retention.py deletes, all at once.                    *)
(*                                                                         *)
(* created_at is now() in PostgreSQL, the time at which the inserting      *)
(* transaction started; the row can be read only once it has committed.    *)
(* The tests' clock is a small number; a bucket is a number of its ticks.  *)
(***************************************************************************)
EXTENDS Usage, Cost, FiniteSets, FiniteSetsExt

CONSTANTS Calls,         \* the calls that get as far as a log record
          Call,          \* Call[c]: what _build_log_record is told about c
          UnpricedLimit, \* _UNPRICED_SEEN_LIMIT
          Days,          \* retention in days: --days, or the setting (0: off)
          Windows,       \* the windows somebody asks a report about
          Buckets,       \* _ALLOWED_BUCKETS
          Null,
          Origin,        \* the call the provider gave c's answer to: c, or what c replays
          Tokens,        \* what the provider counted for a call it answered,
          Invoice,       \* what it charged for it,
          FullPrice,     \* and would have charged without its prompt cache
          MaxClock, MaxCalls  \* bounds

\* A model that is no text has no row: it cannot be looked up, nor inserted.
ASSUME CallsAssumption ==
    /\ IsFiniteSet(Calls)
    /\ \A c \in Calls : /\ Call[c].latency_ms \in Nat
                        /\ Call[c].model = Null \/ Call[c].model \in Name
\* A cache hit has the answer of a call with its cache key, and so with its model
\* (Proxy, HitReplaysASuccess); every other call has its own.
ASSUME OriginAssumption ==
    /\ Origin \in [Calls -> Calls]
    /\ \A c \in Calls : /\ Call[c].cache_hit \/ Origin[c] = c
                        /\ ~Call[Origin[c]].cache_hit
                        /\ Call[Origin[c]].response = Call[c].response
                        /\ Call[Origin[c]].model = Call[c].model
ASSUME RetentionAssumption == Days \subseteq Int
ASSUME WindowsAssumption   == Windows \subseteq [start: Int \cup {Null}, end: Int \cup {Null}]
ASSUME BoundsAssumption    == UnpricedLimit \in Nat /\ MaxClock \in Nat

VARIABLES clock,
          writer,        \* where write_request_log is with a call
          started,       \* when its transaction started
          request_logs,  \* the rows that can be read, by the call they are about
          pruner,        \* one prune-logs at a time
          unpriced_seen,
          warned,        \* history: the warnings about a model, up to two
          promised,      \* history: the last dry run, if nothing was deleted since
          deleted        \* history: the rows the deletions reported

vars == <<clock, writer, started, request_logs, pruner, unpriced_seen, warned, promised, deleted>>

ModelLabel(row) == IF row.model = Null THEN <<"unknown">> ELSE row.model

----------------------------------------------------------------------------
\* Without a usage block the token columns stay NULL, which is not zero.
BuildLogRecord(call) ==
    LET reported == ReportsUsage(call.response)
        usage    == ExtractUsage(call.response)
        resolved == IF reported /\ usage.model # <<>> THEN usage.model ELSE call.model
    IN  [model       |-> resolved,
         usage       |-> IF ~reported THEN Null
                         ELSE [input  |-> usage.input, output |-> usage.output,
                               cached |-> usage.cached,
                               cost   |-> ComputeCost(IF resolved = Null THEN <<>> ELSE resolved,
                                                      usage.input, usage.output, usage.cached)],
         status_code |-> call.status_code,
         error       |-> call.error,
         cache_hit   |-> call.cache_hit,
         latency_ms  |-> call.latency_ms]

Record(c) == BuildLogRecord(Call[c])

Labels == {ModelLabel(Record(c)) : c \in Calls}

\* The row of a record: the database adds the time its transaction started.
RowOf(c) == [column \in DOMAIN Record(c) \cup {"created_at"} |->
                IF column = "created_at" THEN started[c] ELSE Record(c)[column]]

\* Mutant of WarnUnpriced: nobody remembers the warning.
WarnEveryTime(models) ==
    LET fresh == {m \in models : LacksPrice(m)} \ unpriced_seen
    IN  /\ unpriced_seen' = unpriced_seen
        /\ warned' = [m \in DOMAIN warned |->
                         IF m \in fresh /\ warned[m] < 2 THEN warned[m] + 1 ELSE warned[m]]

\* lookup_pricing on each of models, in any order: a model without rates is
\* remembered while there is room, and mentioned as long as it is not remembered.
WarnUnpriced(models) ==
    LET fresh == {m \in models : LacksPrice(m)} \ unpriced_seen
        room  == UnpricedLimit - Cardinality(unpriced_seen)
        kept  == IF Cardinality(fresh) <= room THEN Cardinality(fresh) ELSE room
    IN  /\ \E m \in kSubset(kept, fresh) : unpriced_seen' = unpriced_seen \cup m
        /\ warned' = [m \in DOMAIN warned |->
                         IF m \in fresh /\ warned[m] < 2 THEN warned[m] + 1 ELSE warned[m]]

----------------------------------------------------------------------------
\* The reports, over the rows that can be read.
\* Mutant of InWindow: closed at both ends.
InClosedWindow(t, window) ==
    /\ window.start # Null => window.start <= t
    /\ window.end # Null => t <= window.end

InWindow(t, window) ==
    /\ window.start # Null => window.start <= t
    /\ window.end # Null => t < window.end

Select(window) == {c \in DOMAIN request_logs : InWindow(request_logs[c].created_at, window)}

DateTrunc(bucket, t) == (t \div bucket) * bucket

BucketsOf(rows, bucket)    == {DateTrunc(bucket, request_logs[c].created_at) : c \in rows}
RowsAt(rows, bucket, t)    == {c \in rows : DateTrunc(bucket, request_logs[c].created_at) = t}
IsError(row)               == row.status_code >= 400 \/ row.error
Total(rows, column)        ==
    MapThenSumSet(LAMBDA c : IF request_logs[c].usage = Null THEN 0
                             ELSE request_logs[c].usage[column], rows)

QueryVolume(window, bucket) ==
    LET rows == Select(window)
    IN  [t \in BucketsOf(rows, bucket) |-> Cardinality(RowsAt(rows, bucket, t))]

\* Mutant of QueryCostByModel: calls that named no model are left out.
QueryCostOfNamed(window) ==
    LET rows == {c \in Select(window) : request_logs[c].model # Null}
        Of(m) == {c \in rows : ModelLabel(request_logs[c]) = m}
    IN  [m \in {ModelLabel(request_logs[c]) : c \in rows} |->
            [requests            |-> Cardinality(Of(m)),
             input_tokens        |-> Total(Of(m), "input"),
             output_tokens       |-> Total(Of(m), "output"),
             cached_input_tokens |-> Total(Of(m), "cached"),
             cache_savings_usd   |-> CacheSavings(m, Total(Of(m), "cached")),
             cost_usd            |-> Total(Of(m), "cost")]]

QueryCostByModel(window) ==
    LET rows == Select(window)
        Of(m) == {c \in rows : ModelLabel(request_logs[c]) = m}
    IN  [m \in {ModelLabel(request_logs[c]) : c \in rows} |->
            [requests            |-> Cardinality(Of(m)),
             input_tokens        |-> Total(Of(m), "input"),
             output_tokens       |-> Total(Of(m), "output"),
             cached_input_tokens |-> Total(Of(m), "cached"),
             cache_savings_usd   |-> CacheSavings(m, Total(Of(m), "cached")),
             cost_usd            |-> Total(Of(m), "cost")]]

\* PostgreSQL's percentile_cont, in twentieths of a millisecond for twentieths
\* of a whole: between two of the sorted values, in proportion.
PercentileCont(twentieths, values) ==
    LET place == twentieths * (Len(values) - 1)
        low   == values[place \div 20 + 1]
        high  == values[IF place % 20 = 0 THEN place \div 20 + 1 ELSE place \div 20 + 2]
    IN  20 * low + (place % 20) * (high - low)

\* The latencies of some rows from the fastest to the slowest: at each rank the
\* value with fewer than that many rows below it, and that many up to it.
Ascending(rows) ==
    [rank \in 1..Cardinality(rows) |->
        CHOOSE ms \in {request_logs[c].latency_ms : c \in rows} :
            /\ Cardinality({c \in rows : request_logs[c].latency_ms < ms}) < rank
            /\ rank <= Cardinality({c \in rows : request_logs[c].latency_ms <= ms})]

QueryLatencyPercentiles(window, bucket) ==
    LET rows == Select(window)
    IN  [t \in BucketsOf(rows, bucket) |->
            [p50   |-> PercentileCont(10, Ascending(RowsAt(rows, bucket, t))),
             p95   |-> PercentileCont(19, Ascending(RowsAt(rows, bucket, t))),
             count |-> Cardinality(RowsAt(rows, bucket, t))]]

\* What the lines of a report add up to.
SumOf(series) == MapThenSumSet(LAMBDA t : series[t], DOMAIN series)

\* query_cache_hit_rate and query_error_rate: the rows that are Marked, and the
\* totals folded from the series.
Rate(window, bucket, Marked(_)) ==
    LET rows   == Select(window)
        series == [t \in BucketsOf(rows, bucket) |->
                      [total  |-> Cardinality(RowsAt(rows, bucket, t)),
                       marked |-> Cardinality({c \in RowsAt(rows, bucket, t) :
                                                  Marked(request_logs[c])})]]
    IN  [series |-> series,
         total  |-> SumOf([t \in DOMAIN series |-> series[t].total]),
         marked |-> SumOf([t \in DOMAIN series |-> series[t].marked])]

QueryCacheHitRate(window, bucket) == Rate(window, bucket, LAMBDA row : row.cache_hit)
QueryErrorRate(window, bucket)    == Rate(window, bucket, IsError)

----------------------------------------------------------------------------
Init ==
    /\ clock = 0
    /\ writer = [c \in Calls |-> "idle"]
    /\ started = [c \in Calls |-> 0]
    /\ request_logs = <<>>
    /\ pruner = [pc |-> "idle"]
    /\ unpriced_seen = {}
    /\ warned = [m \in Labels |-> 0]
    /\ promised = Null
    /\ deleted = 0

Tick ==
    /\ clock < MaxClock
    /\ clock' = clock + 1
    /\ UNCHANGED <<writer, started, request_logs, pruner, unpriced_seen, warned, promised, deleted>>

\* The handler (or the relay, at the end of a stream) builds the record.
Build(c) ==
    /\ writer[c] = "idle"
    /\ Cardinality({d \in Calls : writer[d] # "idle"}) < MaxCalls
    /\ WarnUnpriced(IF Record(c).usage = Null THEN {} ELSE {Record(c).model} \ {Null})
    /\ writer' = [writer EXCEPT ![c] = "recorded"]
    /\ UNCHANGED <<clock, started, request_logs, pruner, promised, deleted>>

\* Mutant of Insert: a write that failed to answer is tried again.
InsertAgain(c) ==
    /\ writer[c] \in {"recorded", "committed"}
    /\ writer' = [writer EXCEPT ![c] = "inserting"]
    /\ started' = [started EXCEPT ![c] = clock]
    /\ UNCHANGED <<clock, request_logs, pruner, unpriced_seen, warned, promised, deleted>>

\* write_request_log: session.add, and the transaction that commit() flushes into.
Insert(c) ==
    /\ writer[c] = "recorded"
    /\ writer' = [writer EXCEPT ![c] = "inserting"]
    /\ started' = [started EXCEPT ![c] = clock]
    /\ UNCHANGED <<clock, request_logs, pruner, unpriced_seen, warned, promised, deleted>>

Commit(c) ==
    /\ writer[c] = "inserting"
    /\ writer' = [writer EXCEPT ![c] = "committed"]
    /\ request_logs' = [d \in DOMAIN request_logs \cup {c} |->
                            IF d = c THEN RowOf(c) ELSE request_logs[d]]
    /\ UNCHANGED <<clock, started, pruner, unpriced_seen, warned, promised, deleted>>

\* No connection, a refused value, a crash: the exception is logged, the row is not.
Lose(c) ==
    /\ writer[c] \in {"recorded", "inserting"}
    /\ writer' = [writer EXCEPT ![c] = "lost"]
    /\ UNCHANGED <<clock, started, request_logs, pruner, unpriced_seen, warned, promised, deleted>>

\* GET /metrics/cost-by-model looks the models up again, "unknown" among them.
\* The other reports change nothing.
ReadCosts ==
    /\ \E window \in Windows : WarnUnpriced(DOMAIN QueryCostByModel(window))
    /\ UNCHANGED <<clock, writer, started, request_logs, pruner, promised, deleted>>

\* prune_logs: retention that is not positive is refused; the cutoff is read
\* before the session is opened.
PruneStart(days, dry_run) ==
    /\ pruner.pc = "idle"
    /\ days > 0
    /\ pruner' = [pc |-> "started", days |-> days, dry_run |-> dry_run, cutoff |-> clock - days]
    /\ UNCHANGED <<clock, writer, started, request_logs, unpriced_seen, warned, promised, deleted>>

\* Mutant of OlderThan: the row at the cutoff goes too.
NotYoungerThan(cutoff) == {c \in DOMAIN request_logs : request_logs[c].created_at <= cutoff}

OlderThan(cutoff) == {c \in DOMAIN request_logs : request_logs[c].created_at < cutoff}

\* Mutant of PruneCount: the count is not of the rows that would go.
PruneCountAtCutoff ==
    /\ pruner.pc = "started"
    /\ pruner.dry_run
    /\ promised' = [days |-> pruner.days, cutoff |-> pruner.cutoff,
                    count |-> Cardinality(NotYoungerThan(pruner.cutoff))]
    /\ pruner' = [pc |-> "idle"]
    /\ UNCHANGED <<clock, writer, started, request_logs, unpriced_seen, warned, deleted>>

PruneCount ==
    /\ pruner.pc = "started"
    /\ pruner.dry_run
    /\ promised' = [days |-> pruner.days, cutoff |-> pruner.cutoff,
                    count |-> Cardinality(OlderThan(pruner.cutoff))]
    /\ pruner' = [pc |-> "idle"]
    /\ UNCHANGED <<clock, writer, started, request_logs, unpriced_seen, warned, deleted>>

\* Mutant of PruneDelete: --dry-run is forgotten on the way.
PruneDeleteAnyway ==
    /\ pruner.pc = "started"
    /\ request_logs' = [c \in DOMAIN request_logs \ OlderThan(pruner.cutoff) |-> request_logs[c]]
    /\ deleted' = IF pruner.dry_run THEN deleted ELSE deleted + Cardinality(OlderThan(pruner.cutoff))
    /\ promised' = Null
    /\ pruner' = [pc |-> "idle"]
    /\ UNCHANGED <<clock, writer, started, unpriced_seen, warned>>

PruneDelete ==
    /\ pruner.pc = "started"
    /\ ~pruner.dry_run
    /\ request_logs' = [c \in DOMAIN request_logs \ OlderThan(pruner.cutoff) |-> request_logs[c]]
    /\ deleted' = deleted + Cardinality(OlderThan(pruner.cutoff))
    /\ promised' = Null
    /\ pruner' = [pc |-> "idle"]
    /\ UNCHANGED <<clock, writer, started, unpriced_seen, warned>>

\* The process is killed, or the database is away: DELETE and COMMIT did not happen.
PruneFails ==
    /\ pruner.pc = "started"
    /\ pruner' = [pc |-> "idle"]
    /\ UNCHANGED <<clock, writer, started, request_logs, unpriced_seen, warned, promised, deleted>>

Next ==
    \/ Tick
    \/ \E c \in Calls : Build(c) \/ Insert(c) \/ Commit(c) \/ Lose(c)
    \/ ReadCosts
    \/ \E days \in Days, dry_run \in BOOLEAN : PruneStart(days, dry_run)
    \/ PruneCount \/ PruneDelete \/ PruneFails

Spec == Init /\ [][Next]_vars

----------------------------------------------------------------------------
(* External: what the provider does, by which the reports on costs are measured. *)

SaysCached(details, count) ==
    IF IsObject(details) THEN Get(details, "cached_tokens") = Number(count) ELSE count = 0

\* A usage object as Chat Completions spells it, and as the Responses API does.
ChatSpelling(usage, tokens) ==
    /\ Get(usage, "prompt_tokens") = Number(tokens.input)
    /\ Get(usage, "completion_tokens") = Number(tokens.output)
    /\ SaysCached(Get(usage, "prompt_tokens_details"), tokens.cached)
    /\ "input_tokens_details" \notin DOMAIN usage.fields

ResponsesSpelling(usage, tokens) ==
    /\ Get(usage, "input_tokens") = Number(tokens.input)
    /\ Get(usage, "output_tokens") = Number(tokens.output)
    /\ SaysCached(Get(usage, "input_tokens_details"), tokens.cached)
    /\ {"prompt_tokens", "completion_tokens"} \cap DOMAIN usage.fields = {}
    /\ ~IsObject(Get(usage, "prompt_tokens_details"))

\* The entry of the price list that a model is billed by: its own, or the longest
\* that it is a release of.
BilledBy(key, model) ==
    \/ key = model
    \/ /\ model \notin DOMAIN Pricing /\ IsReleaseOf(model, key)
       /\ \A other \in DOMAIN Pricing : IsReleaseOf(model, other) => Len(other) <= Len(key)

Priced(model) == \E key \in DOMAIN Pricing : BilledBy(key, model)

Charge(rates, input, cached, output) ==
    (input - cached) * rates.input + cached * CachedInputRate(rates) + output * rates.output

\* A provider that reports usage reports what it counted, a count below zero meaning
\* none, names the model, and charges by its price list, if TAP has its price, for no
\* more cached tokens than there were.
ProviderIsTrue ==
    \A c \in Calls : ~Call[c].cache_hit /\ ReportsUsage(Call[c].response) =>
        LET usage  == Get(Call[c].response, "usage")
            model  == Get(Call[c].response, "model")
            tokens == Tokens[c]
            input  == Positive(tokens.input)
            output == Positive(tokens.output)
            cached == IF Positive(tokens.cached) <= input THEN Positive(tokens.cached) ELSE input
        IN  /\ {tokens.input, tokens.output, tokens.cached} \subseteq Int
            /\ ChatSpelling(usage, tokens) \/ ResponsesSpelling(usage, tokens)
            /\ model.type = "text" /\ model.value \in Name \ {<<>>, Null}
            /\ \A key \in DOMAIN Pricing : BilledBy(key, model.value) =>
                  /\ Invoice[c] = Charge(Pricing[key], input, cached, output)
                  /\ FullPrice[c] = Charge(Pricing[key], input, 0, output)

----------------------------------------------------------------------------
(* Properties. *)

\* Every variable keeps its type.
TypeOK ==
    /\ clock \in 0..MaxClock
    /\ writer \in [Calls -> {"idle", "recorded", "inserting", "committed", "lost"}]
    /\ started \in [Calls -> 0..MaxClock]
    /\ DOMAIN request_logs \subseteq Calls
    /\ pruner \in [pc: {"idle"}] \cup [pc: {"started"}, days: Days, dry_run: BOOLEAN, cutoff: Int]
    /\ unpriced_seen \subseteq Labels
    /\ warned \in [Labels -> 0..2]
    /\ promised \in [days: Days, cutoff: Int, count: Nat] \cup {Null}
    /\ deleted \in 0..Cardinality(Calls)

\* Nothing is in a window that ends before it starts.
Forwards(window) == window.start # Null /\ window.end # Null => window.start <= window.end

\* metrics.py: "the numbers cannot disagree with the rows they summarise".  In
\* one state of the table the five reports on a window count the same calls, over
\* the same buckets; reports on adjacent windows add up to the report on both.
ReportsAgree ==
    \A window \in Windows, bucket \in Buckets :
        LET volume  == QueryVolume(window, bucket)
            costs   == QueryCostByModel(window)
            latency == QueryLatencyPercentiles(window, bucket)
            cache   == QueryCacheHitRate(window, bucket)
            errors  == QueryErrorRate(window, bucket)
            Until(w) == QueryErrorRate(w, bucket)
        IN  /\ DOMAIN volume = DOMAIN latency
            /\ \A t \in DOMAIN volume :
                  /\ {latency[t].count, cache.series[t].total, errors.series[t].total} = {volume[t]}
                  /\ latency[t].p50 <= latency[t].p95
            /\ {cache.total, errors.total,
                SumOf([m \in DOMAIN costs |-> costs[m].requests])} = {SumOf(volume)}
            /\ \A next \in Windows :
                  (/\ window.end # Null /\ next.start = window.end
                   /\ Forwards(window) /\ Forwards(next)) =>
                      LET both == Until([start |-> window.start, end |-> next.end])
                      IN  /\ both.total = errors.total + Until(next).total
                          /\ both.marked = errors.marked + Until(next).marked

\* cost.py and metrics.py: for a model with a price a report says what the provider
\* charged for the answers its rows have, and with the savings next to it what they
\* would have cost without the provider's cache.  A replayed answer counts once more
\* for every cache hit, one that reported no usage does not count, and a model
\* without a price costs nothing.  Where a provider claims to have cached more tokens
\* than it was sent the bill is clamped and the savings are not: then the two
\* together are too much, never too little.
CostsReconcile ==
    \A window \in Windows :
        LET costs == QueryCostByModel(window)
            Of(m) == {c \in Select(window) : ModelLabel(request_logs[c]) = m
                                             /\ request_logs[c].usage # Null}
            Sane(c) == request_logs[c].usage.cached <= request_logs[c].usage.input
        IN  \A m \in DOMAIN costs :
                LET full  == MapThenSumSet(LAMBDA c : FullPrice[Origin[c]], Of(m))
                    total == costs[m].cost_usd + costs[m].cache_savings_usd
                IN  IF ~Priced(m) THEN costs[m].cost_usd = 0 /\ total = 0
                    ELSE /\ costs[m].cost_usd
                                = MapThenSumSet(LAMBDA c : Invoice[Origin[c]], Of(m))
                         /\ total >= full
                         /\ (\A c \in Of(m) : Sane(c)) => total = full

\* Once a window is over, and every transaction that started before its end is,
\* nothing is added to it: a report on the past can change only by retention.
SettledWindowsOnlyShrink ==
    [][\A window \in Windows :
          /\ window.end # Null
          /\ window.end <= clock
          /\ \A c \in Calls : writer[c] = "inserting" => started[c] >= window.end
          => Select(window)' \subseteq Select(window)]_vars

\* retention.py: however long a prune takes between its cutoff and its DELETE, a
\* row that goes is older than a positive retention that somebody asked for.
PruneKeepsRecent ==
    [][\A c \in DOMAIN request_logs \ DOMAIN request_logs' :
          \E days \in Days : days > 0 /\ clock - request_logs[c].created_at > days]_vars

\* --dry-run reports "what would be deleted": a deletion that follows it, with a
\* cutoff no earlier, deletes at least as many rows, whatever was written since.
DryRunPromises ==
    [][promised # Null /\ deleted' # deleted /\ pruner.cutoff >= promised.cutoff
       => deleted' - deleted >= promised.count]_vars

\* A row that was committed is there or was reported as deleted, once.
EveryRowAccountedFor ==
    Cardinality({c \in Calls : writer[c] = "committed"})
        = Cardinality(DOMAIN request_logs) + deleted

\* cost.py: "the warning fires once each rather than per request", as long as
\* there is room to remember it.
WarnedOnce ==
    /\ Cardinality(unpriced_seen) <= UnpricedLimit
    /\ \A m \in unpriced_seen : warned[m] = 1
    /\ \A m \in DOMAIN warned \ unpriced_seen :
          warned[m] > 0 => Cardinality(unpriced_seen) = UnpricedLimit

----------------------------------------------------------------------------
(* The inductive invariant behind the last five. *)

\* A row is the record of a call whose insert is committed.
RowsAreRecords == \A c \in DOMAIN request_logs :
                      writer[c] = "committed" /\ request_logs[c] = RowOf(c)

\* While a prune is under way its cutoff only falls further behind.
CutoffIsPast == pruner.pc = "started" => pruner.days > 0 /\ clock - pruner.days >= pruner.cutoff

\* What a dry run counted is still there.
PromiseStands == promised # Null => promised.count <= Cardinality(OlderThan(promised.cutoff))

IInv == /\ TypeOK /\ RowsAreRecords /\ CutoffIsPast /\ PromiseStands
        /\ EveryRowAccountedFor /\ WarnedOnce
=============================================================================
