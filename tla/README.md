# A TLA+ model of the search metrics platform

This directory holds TLA+ specifications of the platform in this repository,
TLC configurations that check them on small instances, and TLAPS proofs of the
results that hold for every instance. `PROJECT.json` lists the runs, the faulty
variants each property was seen to reject, the source lines behind every
definition, the disagreements found between code and documentation, and the
hazards the properties are for.

```
tlc -config MCMetricsEngine.cfg MCMetricsEngine     # any .cfg with its module
tlapm MetricsEngine_proofs.tla
```

## The system

Instrumented services report searches over HTTP to the **telemetry collector**,
which validates them and publishes to Kafka. The **metrics engine** consumes the
topics, aggregates events into one-minute windows, scores each closed window for
anomalies and writes everything to ClickHouse. The **API gateway** answers the
**dashboard** from ClickHouse through a Redis cache and proxies to the **debug
service**, which assembles traces from spans, ranks root causes and replays
queries. The **query simulator** produces test traffic.

| Part | State | Operations | What is hard | What makes it correct | Modules |
|---|---|---|---|---|---|
| `metrics-engine/engine/aggregation.py` | open windows, watermark | `add`, `close_ready`, `flush` | late and unordered events, boundaries | every event counted once, a window closes once and not early, incremental equals batch | `Windows`, `WindowedAggregator` |
| `metrics-engine/engine/clickhouse.py` | row buffers, time of the last flush | `add`, `should_flush`, `flush` | retries, lost answers, one table of several failing | rows stay until accepted, tables in order, nothing stranded | `ClickHouseWriter` |
| `metrics-engine/engine/main.py`, `pipeline.py` | consumer position, the await the loop is in | `start`, `run`, `stop` | crash or cancellation at any await, failed batches, undecodable records | what is committed is durable but for less than a batch, nothing vanishes, alerts rest on stored anomalies | `MetricsEngine`, `AtLeastOnce` |
| the same, replicated (`helm/values.yaml:91`) | the group's assignment, one row per window | rebalances | a record read twice, two engines with one window | what was committed was counted, a record is read once per assignment, a shutdown loses no count | `EngineGroup` |
| `metrics-engine/engine/anomaly.py` | history per service and metric | `evaluate` | flat and short baselines, order of windows | a window is scored against the windows before it; outliers are reported, familiar levels are not; no alert from a flat or short baseline | `AnomalyDetector` |
| `telemetry-collector/collector/ingest.py`, `main.py`, `libs/common kafka.py` | the producer's queue | `ingest_event`, `ingest_events`, `ingest_spans` | a batch half acknowledged, client retries | an accepted entry is on the log, a rejected one is not, copies need a failure | `EventPublisher`, `TelemetryCollector` |
| `telemetry-collector/collector/rate_limit.py` | tokens per client | `check` | replicas with different clocks, Redis outage | what a bucket grants is at most a burst, the refill of the time and the clocks' spread; a denial is earned; `retry_after` suffices | `TokenBucket` |
| `query-simulator/simulator` | schedule and statistics of a run | `run`, `plan_batches`, `send`, `send_spans` | late batches, phases, answers that never come | the counters bracket the log, a clean run is complete, never faster than asked | `SimulationRunner` |
| `api-gateway/gateway/cache.py`, `queries.py`, `main.py` | cached answers with a TTL | `get_or_set`, `invalidate`, routes | a load that spans an invalidation, concurrent misses | an answer is whole and no older than its TTL and the time to give it | `MetricsCache`, `FreshAnswers` |
| `debug-service/debug_service/trace.py`, `root_cause.py` | none | `build_trace`, `analyse` | missing parents, cycles, repeated spans | every span in the tree once, times add up, reported errors before inferences | `TraceTree`, `RootCause`, `DebugService` |
| `debug-service/debug_service/replay.py`, `storage.py`, `main.py` | replay jobs | `replay_query`, `save`, `get` | failure between two saves, originals half stored | the job a client was told is stored, a pending one has a cause | `ReplayJob` |
| `dashboard/src/hooks/useQuery.ts`, `pages` | data, error, loading | effect, `reload`, timer, replay panel | answers out of order, refresh against a slow request | what is shown belongs to the current request, is recent and never blanks | `UseQuery`, `Dashboard` |

The parts interact through Kafka (collector to engine, engine to the anomalies
topic), ClickHouse (engine writes; gateway and debug service read), Redis
(collector's limiter, gateway's cache) and HTTP (clients, gateway to debug
service, replay to a target). `PROJECT.json` lists all of them, with what is
left out marked as such, and under `hazards` what is hard to test at each line.

## What is modelled

### `Windows`, `WindowedAggregator`

`Windows` holds the definitions of `aggregation.py` as operators without state:
`WindowStart` (`window_start_for`), `AddAll` (what `add` does to the
accumulators), `Advance` (to the watermark), `Ready` (the test of
`close_ready`), `Forget` and `RollupsOf` (what it removes and returns) and
`Aggregate` (`aggregate()`, the reference). An accumulator is the set of its
events: every number in a `MetricRollup` is a function of that set, so two
rollups are equal exactly when they count the same events. Timestamps are whole
seconds, as `window_start_for` truncates them.

`WindowedAggregator` is the class: `Add`, `CloseReady` and `Flush` in any order.

### `ClickHouseWriter`

The row buffers, `should_flush`, and `flush()` as one step per insert:
`WriterOk`, `WriterRetry`, `WriterRaise`. An insert is accepted, refused, or
accepted with its answer lost, which the code cannot tell from refused. `slot`
is a table's position in the dictionary `_buffers`, which decides the order of
the inserts. `elapsed` is the age test; it turns true at any moment and false
when a flush starts. The module also says what a table keeps: a plain MergeTree
every row (`twice` records the rows it holds in two copies), a
ReplacingMergeTree one row per key, the newest. Several rows a results record
expands into travel together and are one row here; one anomaly per rollup
stands for the up to four a window can raise, which are added, stored and
published together as well.

### `MetricsEngine`

The loop of `main.py` with `pipeline.py`, composed from the two modules above.
The loop is one asyncio task, so an action is the code between two awaits and
`phase` names the await the task is suspended in:

| `phase` | suspended in | actions that resume it |
|---|---|---|
| `poll` | `getmany()` | `Process`, `Undecodable`, `Malformed` |
| `flush` | `_insert()` or its retry delay, under `run()` | `InsertOk`, `InsertRetry`, `InsertRaise` |
| `publish` | `publish_anomaly()` | `Publish`, `PublishFails` |
| `commit` | `consumer.commit()` | `Commit`, `CommitFails` |
| `backoff` | `asyncio.sleep(2)` of the `except` clause | `Retry` |
| `closing` | the flush of `stop()` | the inserts, `Exit` |
| `down` | no process | `Start` |

`Process` is everything from the answer of `getmany()` to the next await: the
batch is folded into the windows, ready windows close, their rollups may be
reported as anomalies (which ones is left open), rows go to the writer, and the
loop enters a flush, a publish, a commit or the next poll. `Undecodable` is a
batch with a record `deserialize()` cannot read: nothing of it is used.
`Malformed` is a batch with a span or results record whose id is missing: the
events before it are in the windows (`Before` says which, over every order of
the partitions), no row of it reaches the writer.

`Crash` ends the process at any await. `Stop` is the shutdown: the task is
cancelled at its await, `stop()` adds the rollups of the open windows and
flushes once; `StopIdle` is the shutdown with no window open, which does not
flush. A call cut short by the end of the process may have taken effect: the
failing call with `accepted` true, followed by the end, reaches the same state.

Kafka is modelled as the code uses it: per-partition logs, an in-memory
position moved only by `getmany()`, committed offsets set by `commit()`, and a
new consumer that starts from them (`enable_auto_commit=False`,
`auto_offset_reset="earliest"`). `max_records` is the writer's batch size
because the same setting is passed to both.

`skipped`, `lost` and `late` are history variables: the readable records whose
batch raised before the writer had their rows, the committed records whose rows
died in the buffers of a process, and the windows this process got an event of
after they were due (`Overdue`).

### `AtLeastOnce`

What the engine's documentation promises, as far as the engine keeps it, as a
specification of its own. The documented contract is that offsets move only over
durable records. Here `Slack` is what the engine takes: that many committed
records may be in memory only (`held`), until they are durable or the process
ends, and a record that cannot be read may take that many others with it. With a
slack of zero this is the documented contract. `MetricsEngine` implements it with
a slack of one batch less a row (`ImplementsAtLeastOnce`, with `durable` read from
the tables and `held` from the buffers), for all traffic.

### `EngineGroup`

Several engines in one consumer group, with less detail each: messages are
valid events, of the rows only the rollups are followed (an engine's `pending`,
the `table` with one row per window), and the retries of a flush are one step.
In exchange the group is modelled: `Rebalance` assigns all partitions anew when a
member comes or goes, in the background of whatever a loop awaits; members then
start from the committed offsets, and `CommitOf` commits the positions of the
partitions the committing engine has now.

| Code | Action |
|---|---|
| `start()` | `Start` |
| `getmany()` up to the next await | `Poll` |
| `flush()` | `Write`, `WriteFails` |
| `consumer.commit()` | `Commit` |
| a process that ends, `stop()` | `Crash`; `Stop`, then the flush, then `Leave` |
| the consumer group | `Rebalance` |

A record that is read again is counted again, so an event in a window carries
the number of its reading. `reads`, `replaced` and `lost` are history: how often
a record was polled, the events of rows another row replaced, and the events that
died with a process. What producers send is chosen at the start, because a poll
returns some of it.

### `AnomalyDetector`

`Evaluate` is `evaluate()` for one rollup: every tracked metric is scored
against its history (`Scored`, `Reported`) and then joins it (`Push`, the
`deque` with a `maxlen`). Metrics are natural numbers, so the test of the
z-score is exact: with n values of sum S, `Deviation` is n times the distance
from the mean and `Spread` n^3 times the variance, and `ZAtLeast` is the
comparison `abs(z) >= t` squared and multiplied out. `Closes` is the order in
which `close_ready` hands windows over: per service the next one, or one that a
late event opened again. `alerts` keeps each anomaly with the history its mean
and deviation were taken from, and `seen` all rollups given so far. The history
is memory of the process; a restart is a new behaviour.

### `TokenBucket`

The buckets of one client, in Redis and in the memory of each replica.
`Consume` is both the Lua script and `InMemoryTokenBucket.check()`, which do the
same to different buckets: refill (`Level`), take a token if there is one, and
store what is left and the stamp either way. They differ in the clock (`Skews`:
the script gets the caller's `time.time()`, which may be behind or ahead of the
time it runs at), in the expiry of the key (`Ttl`, dropped by `Tick`) and in how
the wait is rounded (`Wait`). Time is counted in ticks and tokens in ticks of
refill, so no rounding is left out but that of `retry_after`.

| Code | Action |
|---|---|
| `lifespan`, `build_rate_limiter` | `Start`: a replica takes the bucket in Redis, or an empty memory of its own if the ping failed |
| `enforce_rate_limit`, `check` | `Check` |
| the `except` clause of `RedisTokenBucket.check` | `CheckFails`: the script ran or not, the request is let through |
| `EXPIRE` | `Tick` |

`since` counts, for every moment, what a bucket granted from then on, and `due`
the stamps at which denied requests were told to come back; both are history
variables.

### `EventPublisher`, `TelemetryCollector`

A request is received (`Receive`, or `Deny` when the limiter says so), its valid
entries become sends, and its handler is suspended either in a send
(`sending`: `Send`, `SendFails`) or in the acknowledgements (`waiting`:
`Acknowledged` when all have come, `Raises` when one failed). What the producer
does with a queued record goes on beside it: `Store`, or `DeliveryFails` with
the record on the log or not. `Crash` ends the process with every handler and
what the producer still holds. Clients `Post`, stop waiting (`GiveUp`) and send
the same batch again. The producer waits for all replicas and is idempotent, so
its own retries store a record once. Entries are valid or not, carry a status
(an error is sent on its own topic too) and documents or none; which field made
one invalid makes no difference to the handler.

### `SimulationRunner`

`runner.py` and `__main__.py` as one more client of that collector. The task is at
`step`: before the run, in one of its two posts (`events`, `spans`), asleep, or
done. `Begin` is the health check, `Slot` one turn of the loop up to its post
(`BatchSize`, `Interval` and the phase in force are those of `plan_batches` and
`phase_at`), `EventsSent` and `SpansSent` take an answer or none into the statistics
(`CountEvents`, `CountSpans`), `Pace` computes the next deadline, `Wake` is the
return of `sleep()`, `Finish` the end. `--qps` is a float: a rate counts parts of
`1 / UNIT` event per second, and `BatchSize` rounds what is due per batch to whole
events as `round()` does, and to one where that leaves none. `Tick` lets time pass
while the task is suspended, so answers and wake-ups are as late as they like.

### `FreshAnswers`, `MetricsCache`

`FreshAnswers` is the promise of the metric routes to a client: an answer comes
within the wait of its route or not at all, and no row in it is older than the
route allows. `MetricsCache` is the gateway behind it and implements it
(`KeepsThePromise`); the dashboard is checked against the promise alone.

In `MetricsCache` requests (`slots`) run concurrently, each suspended in the
cache read (`get`), a query (`load`) or the cache write (`store`):

| Code | Action |
|---|---|
| a route up to its first await | `Request` |
| `redis.get()` | `Hit`, `Miss` (no entry, an expired one, or Redis fails) |
| the loader's queries, one after the other | `Query`, `QueryFails` (503) |
| `redis.setex()` | `Write`, `WriteFails` |
| `invalidate()`: the scan, each `delete` | `Invalidate`, `Delete`, `Invalidated`, `InvalidateFails` |

ClickHouse changes all the time: a row is identified by the tick it was read at,
and an answer by its oldest row, the number of queries behind it and the window
it was selected for (`TimeRange.last()`). `Turn` is the longest one
`get_or_set` takes. The code sets no timeout on its Redis calls and 20 seconds
on a query, so this is an assumption about the environment.

### `TraceTree`, `RootCause`, `DebugService`

`build_trace` and `analyse` as operators on the stored rows: `RejectsCycle`,
`RootsOf`, `ChildrenOf`, `IsOrphan`, `SelfTime`, `Nodes` (the walk) and
`CriticalPath`; the rules behind the seven kinds of findings, their order (`Order`)
and the service with the largest self time. Python's sort is stable; `Sorted` is
too, and puts the entries at some places of a sequence in the order of their keys,
for children, roots and findings alike. `walk()` and the critical path are recursive
functions over the span ids. A span id may have rows that differ, in their parents
too: parents and cycles are looked up by the last row of an id (`RejectsCycle`), the
tree has the children of all rows, and `HasCycle` is what the walk over that tree
meets. Over a cycle that was not refused the
walk does not end, and both routes answer 500.
`DebugService` stores the spans of one trace in any order, between the others by
start time as the query returns them (`Arrive`), one of them twice (`ArriveAgain`:
an insert the engine repeated into a plain MergeTree), and the query's event later
or never; `GetTrace` and `DebugQuery` are the two routes. Confidences are in
percent, durations small integers in the runs and any integers in the proofs, and
messages and evidence texts are left out. `OrderDoesNotMatter` compares the findings
about the stored rows with those about the same rows read the other way round,
without the place in the list, and of a cache finding without the span it names:
that is the first of the longest misses, and which one is first does depend on the
order.

### `ReplayJob`

A replay is suspended in a call, and `Step` is what the code does until the
next one:

| `phase` | Code | Steps |
|---|---|---|
| `event`, `documents` | `original_run`: two reads | `ReadEvent`, `ReadDocuments`, `Reject` (404, 400) |
| `insert` | `save` of the pending job | `Insert` |
| `run` | `execute_replay` | `Run`: an outcome, a timeout and an error of the target included |
| `update` | `save` of the outcome | `Update` |

`CallFails` is a failing ClickHouse or PostgreSQL call, `Store` the engine
writing the rows of the recorded run at the same time, `Restart` the end of the
process with all requests and, without PostgreSQL, the jobs. `Save` is the
upsert: it inserts the columns of a job (`Row`), and of a row that is there it
updates all but those of the original run. These are empty then, since the job is
saved before `execute_replay` knows that run, and stay empty. `Verdict` is
`diff_runs`.

### `UseQuery`, `Dashboard`

`UseQuery` is the state of one hook and its changes as operators: `Mounted`,
`Restarted` (the effect runs again), `Resolved`, `Rejected`, and `Screen`, what
`AsyncSection` renders. `Dashboard` composes it with `FreshAnswers` (the metric
routes) and `ReplayJob` (the debug service behind the proxy): a polling page
and the debug page of a query with its panel.

| Code | Action |
|---|---|
| navigation, filters, retry | `Open`, `Select`, `Retry` |
| the refresh interval of `useQuery` | `Timer` |
| `fetch` settles, with `active` or without | `Answered`, `Unreachable` |
| time passes, the gateway answers | `Wait`, `Serve` |
| the replay button | `Click` |
| the proxied answer, or the proxy's 30 seconds | `Replied`, `GaveUp` |

## What the runs check

The engine runs use one service, windows of two seconds with one second of
grace and timestamps 0 and 3: an event at 3 closes the window of an event at 0,
and a second one at 0 is late. Bounds: `MaxLog` records per partition,
`MaxFaults` failing calls, `MaxStops` ends of a process.

| Run | Bounds | Shows |
|---|---|---|
| `aggregator` | 3 events of 2 services, timestamps 0..5 | `Conservation`, `AgreesWithAggregate`, `WindowsCloseOnTime` over every order of calls |
| `engine` | 1 partition of 3 records, unreadable ones too, batch 2, 2 attempts, 2 faults, 1 end | the engine keeps its contract (`ImplementsAtLeastOnce`), what it loses is bounded (`LossBounded`), everything else is accounted for (`Accounted`), alerts and anomalies never get ahead of the rows they rest on (`AlertsAreBacked`), copies need a failure |
| `rollups` | 2 topics of 2 records, timestamps 0, 2 and 3, batch 2, 1 fault | until a process ends the rollup of a window without a late event is complete, in whatever order the topics' records come (`RollupsAreComplete`) |
| `progress` | 3 records, unreadable ones too, 1 fault, fair | rows do not strand in the buffers, the loop always returns to polling |
| `group` | 2 engines, partitions of 1 and 2 records, 4 assignments, one failure or end, fair | what was committed was counted and is somewhere (`CommittedIsCounted`), a record is read at most once per assignment, shutdowns lose no count (rows of spans and results they may: `LossBounded` of `engine`), everything is counted in the end |
| `anomaly` | 5 windows of 2 services, 1 reopened; threshold 1, baseline 3, at least 2; 4 observations | evidence comes from the past of the own service alone, what is flat or familiar raises nothing, what lies far outside is reported |
| `token_bucket` | 2 tokens, 2 ticks each, 7 ticks, stamps up to 1 tick off | `LimitUpToSpread`, `DenialsAreEarned`, `RetryAfterSuffices` through expiry, failing calls and restarts |
| `collector` | batches of up to 2 and one of 3, or a run of 2 phases at half an event, one and a half or 4 events a second; 3 attempts, 2 faults (1 in a run), fair | answers match the log (`AnswersMatchTheLog`), the summary of a run is true (`SummaryIsTrue`), the schedule is never ahead (`NeverFasterThanAsked`), runs end and clients that persist get through (`EveryoneFinishes`) |
| `cache` | 1 route of two answers with TTLs 1 and 2, three queries; 2 requests at once, 3 ticks, 1 invalidation | the promise of `FreshAnswers` is kept, announced and selected windows agree up to the TTL, what an invalidation removed stays away except from loads under way |
| `dashboard` | 1 polling page with two settings, 2 queries, 2 requests at once, 3 ticks, refresh every 2; 1 replay of 4 outcomes, 1 failing call or restart, fair | jobs are accounted for and "matches" is said of matches only; the screen is that of the current request, recent, never blanked; replays end |
| `trace` | 3 spans, every choice of parents, 2 shapes of durations, one repeated insert; a fourth row that names another parent | what is refused has a cycle; where the rows of an id agree the tree is that of the stored spans or refused for a cycle, times add up, findings are real and do not depend on the order of arrival |

Two or three records are enough for what the engine's properties are about: a
batch below the size limit, one at the limit, and the poll after either; a
window that stays open, one that closes, and a late event; two faults make a
flush fail for good and the next one be retried, or a lost answer be followed by
a failed commit. One end of the process anywhere, with everything before and
after it, covers each await. `rollups` has two topics since search events come
from two (`events` and `errors`); an event at 2 is within the grace of the window
that one at 0 is in, and one at 3 closes it.

In `group` one of the partitions holds one record and the other two, the last
one closing whatever can be closed; shorter logs add nothing, for a poll may
return a part of these. Four assignments are the first one, one when the second
engine joins and two when one ends and comes back.

The baseline of `anomaly` is small so that five windows fill it, push a value
out of it and are judged after that; both directions of an outlier and a window
of too few queries are among the observations. `OrdinaryIsSilent`
and `OutliersAreReported` bound the z-test from both sides without computing a
deviation: a level seen in more than n / (t^2 + 1) of n windows is never
reported, and one that lies t / 2 times the width of the history beyond all of
it always is.

`token_bucket` needs one replica only: a step on the bucket in Redis does not
depend on which replica takes it, and any two stamps in range may follow each
other. Seven ticks are enough to drain the bucket, refill it and see the key
expire six ticks after its last use.

In `collector` the service has one batch at a time out of the five the
handlers tell apart, and reports when no simulation runs: requests of different
clients do not touch each other. The second phase doubles the rate, so that at
the higher one batches exceed the collector's limit and are refused. A client has
one try more than there are failures.

In `cache` two requests suffice for every way one can overtake another, and
three ticks for an entry to be written, expire and be written again; requests are
symmetric. The invalidation starts after the first tick and requests come
before the last, which leaves every order of a load, its store and an
invalidation. In `dashboard` one query's rows arrive late and the other's service
is outside the allowlist; what is replayed returns as recorded, slower, failing or
without documents; one setting may take as long to answer as the refresh interval;
pages are opened within the first tick, and time
passes on the polling page only, where the properties are about time. A restart
comes after a replay was asked for: before that it is a fresh start, and both kinds
of start are initial states. Three spans
make a cycle, a chain, siblings and a fan-out of two, and the thresholds of
the rules are set to two accordingly.

Deadlock is not checked where a bound (windows, assignments, ticks, batches, spans)
ends the behaviour. In the other runs some step is always possible.

The run `shared_windows` ends in a counterexample. With two engines and every
partition in order, the engines aggregate the same window from different
partitions and the rollup written later replaces the other: its events are no
longer counted anywhere. `aggregation.py:10-12` says of a window emitted before
that "the rollup is recomputed and replaces the old one", and
`metrics-engine/README.md:86` names more replicas as the way to scale.

### Where comments and documents say something else

These came up while modelling; the models contain what the code does.

* `engine/main.py:158` "Only now is the work durable, so only now may offsets
  move": a batch below `batch_size` is committed while its rows are only
  buffered. `AtLeastOnce` has the slack for it, `LossBounded` says how much it can
  cost.
* `engine/main.py:165` "Do not commit: the batch will be redelivered": the
  consumer's position is past the batch and the next commit passes it too.
* `aggregation.py:10` about late events: the accumulator was popped, the new
  rollup counts the late event alone and replaces the full one.
* `clickhouse.py:8` "`ReplacingMergeTree` makes the resulting duplicate insert
  harmless": three of the five tables are plain MergeTree.
* `metrics-engine/README.md:64` "traffic vanishing matters as much as latency
  exploding": a window of fewer than ten queries is not scored.
* `simulator/runner.py:24` "capped by the collector's documented limit": a phase
  above 100 % can make batches larger than the collector accepts; they are refused
  with 413, counted as sent, and the run goes on.
* `gateway/cache.py:3`: requests that miss together all run the query.
* `dashboard` README:30: a failed refresh replaces the data by the failure. After
  a failed first load a new request leaves the old failure on the screen with
  neither `loading` nor `refreshing` set, and no page renders `refreshing`.
* Each refresh cancels the request in flight. The default interval is 30 seconds,
  10 can be chosen (`Filters.tsx:11`), while one query may take 20 and the summary
  makes several: an answer slower than the interval is never shown. `RefreshKeepsUp`
  bounds the age of what is shown and of the request that is to replace it for every
  interval; that a skeleton gives way is said of routes that answer within it only.
* `Debug.tsx:194`: the replay panel has no key, so the outcome of one query is
  still displayed when another is selected.
* The proxy waits 30 seconds, as long as a replay may take: it can answer 502
  while the replay succeeds.
* `storage.py:175`: the upsert never fills the columns of the original run, so a job
  read back later lacks what its client was shown (`AnsweredIsStored` says that the
  rest is there); a job is never stored as running, and one whose second save fails
  stays pending. PostgreSQL going down after the start makes replays fail with 500.
* `storage.py:128` "the recorded execution that a replay is compared against": while
  the documents are still to be stored it has none, and a replay that returns none
  "matches the original run". `MatchMeansMatch` says that this takes a replay that was
  asked for before all was stored.
* `replay.py:102` says "still failing" of a replay that fails also when the
  original succeeded.
* `root_cause.py:92`: the rule for slow spans does not look at the baseline its
  docstring names; `debug_query` does not catch the error of a cyclic trace.
* `debug-service/README.md:40` "A cycle is rejected with a 422": cycles are looked for
  along the last parent seen per id (`trace.py:132`), and rows of a span with different
  parents can make one that escapes; `_assign_depth` then runs into the recursion limit,
  a 500. `TreeIsFaithful` says that nothing else is refused, and that every cycle is
  where the rows of an id agree.
* `simulator/__main__.py:21`: `--qps` is a float, but below one event a second one is
  sent all the same, and 1.5 becomes 2. `NeverFasterThanAsked` allows what rounding
  adds and nothing else.

Three things the models contain have no property of their own. After a restart the
windows that were open come back without the events committed before it
(`RollupsAreComplete` is limited to the time before). A window that a late event
reopens is scored against a history that holds its own first rollup. And in a
group the watermark of an engine is the largest of all its partitions, so the
events of a partition that lags are late.

## Fairness

`MetricsEngine` assumes weak fairness of each kind of step of the loop: the event
loop runs a task that can run, ClickHouse and Kafka answer or fail within their
timeouts, and time passes (`IntervalElapses`). `MaxFaults` bounds failures, so
liveness is claimed for outages that end. For every partition, a poll that
advances it is strongly fair: `getmany()` returns buffered records of every
partition in turn, and a poll that keeps coming back empty while records are
there is not something the client does. Nothing is assumed about producers or
about the end of a process; the progress run has no ends because after a crash
rows of committed records are gone, which `LossBounded` is about.

`EngineGroup` assumes that a process that ended is started again (Kubernetes
does), that a group with members that came or went is rebalanced, and that every
loop moves on.

In the collector and the simulator every behaviour is finite, so it is enough
that one of the steps of `Progress` (or the runner's) is taken while one is
possible: handlers are tasks of an event loop, the producer delivers or gives up
within its timeouts, a client that may try again does. Failures, crashes and
impatience are never assumed to happen.

In the dashboard the steps of a replay and the delivery of its answer are weakly
fair. Nothing is assumed about the operator.

## What is proved

TLAPS checks the following for every value of the constants, within the
assumptions named in the modules: finite sets of services and partitions,
positive sizes, events identified by their place in the log.

* `WindowedAggregator_proofs`: `TypeCorrect`, `EventsConserved`,
  `IncrementalIsAggregate` and `ClosesOnTime`. `IInv` strengthens conservation
  with where an event may be: windows hold added events under their own key,
  rollups hold events of their key only, and a key emitted once and not `late`
  has no open window. That windows close on time needs that the watermark is the
  timestamp of an event (`WatermarkSeen`) and never goes back.
* `MetricsEngine_proofs`: `TypeCorrect`; then the loss account.
  `AtRiskBounded` is not inductive: a commit adds to the risk whatever is
  buffered. `IInv` adds that committed offsets are at most the position and
  the position at most the log, that a flush leaves the tables it is done with
  empty, and that in `publish` and `commit` fewer than `BATCH_SIZE` rows of
  records are buffered (either `should_flush` said so or the flush emptied
  everything). A commit then risks only those; every other step only shrinks
  the risk; and an end of the process moves the risk into `lost`, which gives
  `LossIsBounded` by one `BATCH_SIZE - 1` per end (`closing` is counted when
  it starts). `NothingUnaccounted` is preserved because rows leave the buffers
  only into a table. `OffsetsMonotone` follows from the order of the offsets.
  `RefinesAtLeastOnce` shows step by step, for every batch size and all traffic, that
  the engine implements `AtLeastOnce`: a row is of a record of the log
  (`RowsHaveRecords`), a commit passes what is stored, what the buffers hold, which
  `IInv` bounds, and what was skipped since the last commit, which is at most a batch
  less one for each record that raised (`Toll`). Three more invariants of the same module:
  `NoDuplicates`, because until something failed what the buffers hold is
  not in the tables (`Once`); `AlertsBacked`, because tables are inserted in the order of
  their slots, the rollups' before the anomalies' (`InOrder`), so that every
  insert, however it ends, finds its counterpart stored or still buffered (`Backed`);
  `RollupsComplete`, for any number of partitions and any order of their records, because
  a window with a rollup is behind the watermark by the grace period, so that it stays
  empty unless an event of it comes late (`Completeness`).
* `EngineGroup_proofs`, for every number of engines, partitions, records and
  assignments: `CountsAreKept`, `ReadingsBounded`, `CleanStops`, `NeverReread`.
  That a committed record was counted follows from an invariant about the
  owner of its partition: up to the position every record was read, and what
  was read was counted, in the windows, the pending rollups or the row of some
  key, or in a row that was replaced, or died with a process (`CountInv`); a
  commit copies a position and a rebalance goes back to the offsets.
  `ReadInv` relates the readings of a record to the assignment and the position.
  A shutdown loses no count because an engine whose watermark is set has a window
  open behind it (`ShutdownInv`: the window of the watermark itself is never
  ready), so that `flush_windows()` returns a rollup and `stop()` flushes.
* `AnomalyDetector_proofs`: `TypeCorrect`, `HistoryIsTheSuffix` and
  `EvidenceIsSound`, for every threshold, baseline and set of observations. The
  invariant is that each history is the suffix of what its service showed; one
  step on sequences (`PushKeepsTheSuffix`) carries it over a push, and an
  anomaly's evidence is such a suffix at the time it is raised and stays one as
  `seen` only grows. `ShortBaselineIsSilent`: with `baseline_windows` below
  `min_baseline_windows`, which the constructor accepts, nothing is ever
  reported. `OrdinaryNeverAlerts` and `OutliersAlert` bound the z-test from both
  sides, for every history. Sums are taken over a finite set, and what they need
  (linearity, bounds, how often a value occurs) is proved by induction on its size.
  A value that occurs `j` times among `n` leaves it at least `j` squares of its
  distance from the mean in the variance, so that one `t` deviations away has
  `t * t * j =< n - j` (`ReportedIsRare`); and the variance is at most the product of
  the distances of the mean from the extremes (`RangeSpread`, a chord above a
  parabola), so that a value `t / 2` ranges outside is `t` deviations away
  (`OutlierIsFar`). The invariant says besides that what is in `alerts` was scored
  as the code scores it and that nothing that had to be reported was missed.
* `TokenBucket_proofs`: `TypeCorrect`, `Limit`, `Earned` and `RetryAfter`, for
  every rate, burst, set of replicas and clocks that agree to within the
  60-second margin of `EXPIRE` (`MarginAssumption`). The argument is about the
  balance of a bucket, its tokens less its stamp: time leaves it alone, a grant
  lowers it by one token, capping only lowers it, and a denial leaves it alone
  however far its stamp goes back. `IInv` bounds it from above by what was
  granted (`GrantsArePaid`), from below by the same (`BalanceIsEarned`) and by
  the last use (`NoDebt`). The last one is what makes expiry harmless: a key that
  Redis drops has not been used for as long as its bucket takes to refill, by
  anyone's clock (`TtlCovers`), so a full bucket is what it would be.
* `MetricsCache_proofs`, for every set of routes, keys and TTLs and any number of
  requests: `TypeCorrect`, `WholeAnswers`, `BoundedAge`, `InvalidationIsFinal` and
  `Refinement`, that `MetricsCache` implements `FreshAnswers`. The bound on the
  age of an answer is not inductive; `IInv` says for each await how old the rows
  in a request's hands may be: what is being loaded was read within the turn,
  an entry was stored within a turn of its reading and is served for less than
  its TTL, and every answer a route already has ages by one turn per answer that
  follows. The invalidation is final because an entry stored after it began was
  read at most one turn before. `WindowsAreClose` bounds windows likewise: an
  entry is stored within as many turns of the selection of its window as its place
  in its route (`Windowing`). This is where `PlaceAssumption` is needed:
  an endpoint has the same place in every route that asks for it, as in `main.py`,
  where each has one `get_or_set`; a route that asked late for what another asks
  early would break the bound.
* `Dashboard_proofs`, for every number of jobs, pages, requests at once, failures
  and restarts. `PanelUsesReplays`: the dashboard implements `ReplaySpec`, since
  what an operator does at the panel is what any client may do. So the proofs about
  `ReplayJob` hold behind it: `JobsAccounted` and `MatchesMatch`, from `ReplayInv`,
  which says for each phase what the job in hand is and what of it was saved,
  and counts the jobs that stay pending against the failures and restarts (`Stuck`).
  `DashTypeCorrect`, `CurrentScreen` and `NeverBlanks` follow from `DashInv`: the
  request a hook waits for is for what it is set to, and the panel is
  mounted exactly where there is data. `RefreshesKeepUp` needs the timer, for any
  interval: it was set no later than the request in flight was made (`PollInv`), and a
  skeleton waits for its first request or, on a route that answers within the interval,
  for the one the timer put in its place (`SkeletonInv`).
* `SimulationRunner_proofs`, about the collector with its clients and the runner
  among them, for every set of clients, batches and rates and any number of
  requests. `NeverFaster`: outside its sleep the runner is not ahead of the clock and
  batches are an interval apart (`OnSchedule`), and an interval is long enough for a
  batch at the target rate plus what `round()` adds to it (`RateIsKept`): nothing to a
  rate of whole events or one that fills batches, to others half an event a second or
  what they lack to one. Rates are any positive fractions whose intervals are whole
  ticks (`TickAssumption`).
  `AnswersTrue` starts from what a request's records are: the loop over the entries
  keeps the valid ones in order (`ValidOnly`), the batch has the records of these
  entries, each of them once (`Published`). A handler hands over one after the
  other, waits with the last one and answers 202 when all are acknowledged
  (`Sound`), whatever the producer, a crash or a timeout does meanwhile. Hence a 202
  is for entries on the log; and since a client tries again only after its last try
  failed (`TriesInv`), a record has at most one copy per failed request and one more.
  `SummaryHolds` is about the runner's books (`BooksInv`): every request of the
  runner but the one it awaits is settled, `accepted` is the total size of the
  clean event requests, and as long as no failure was counted every request was
  clean and `accepted` equals `sent`. A clean request is on the log; what the log
  has beyond the clean ones is at most the requests the runner gave up and the one
  it awaits, which `SumSplit` and `SumBounds` put as sums over disjoint sets.
  `SimTypeCorrect` comes from the same invariant.
* The second half of `Dashboard_proofs` is about what the debug page shows of a
  trace: `TreesAreFaithful`, `TimesHold`, `FindingsHold` and `OrderIsIgnored`, for
  every finite set of spans, every baseline and threshold, any order of arrival and
  any number of copies. The inductive invariant is small (`SpansInv`: the rows are
  spans of the trace, and different as long as none was stored twice); the work is
  in what the algorithm makes of such rows.
  1. What is refused has a cycle, and rows that agree are refused exactly if they
     have one (`CycleIsRejected`, `RejectedIsCycle`, `CyclesAre`): an ancestry
     longer than the set meets a span twice, since there is no injection into a
     smaller set. A set without a cycle has depths that grow from parent to child
     (`Depths`: take away the roots, again and again), so its spans are a `Forest`
     (`SpansAreForest`).
  2. Over a forest `walk()` is well defined: walks of n levels no longer
     change once n exceeds the depth (`WalkExists`), and two such walks agree
     (`BottomUp`). A walk holds its span first, then all that is below it, parents in
     front (`AllWalks`), and walks of siblings have nothing in common (`Disjoint`). So
     all walks together hold each span, once if each is stored once (`WalksOnce`), which
     with the stable sort (`Sorting`) is `TreesAreFaithful`.
  3. Sums do not depend on the order of their terms (`AnyOrder`), a walk's is its
     span's and those of the walks below (`TotalOfFlat`), and each self time is at
     least the own duration less the children's, so a root's walk covers the root
     (`WalksCover`). The critical path is the walk of the forest in which each span
     has its longest child only (`Heirs`), so the same lemma says that it exists.
  4. The findings as a set are those the rules name (`FoundAre`), with confidences
     of at most 95, and the sort puts them by `Order`. `Order` separates the kinds,
     hence errors come first (`ErrorsInFront`).
  5. Two lists of the same rows (`Twins`) have the same spans, parents, times and, for
     each span, the same children up to order (`TwinChildren`); the rules only use sums,
     counts and sets of them, so their findings are the same (`TwinFindings`). The
     reversed list is one such twin (`ReversedTwins`), whether or not the trace is
     complete.

The assumptions on constants say what the code has: entries with ids of their own
(`BatchesAssumption`: ids are meant to be unique, `uuid4` by default for events, and
chosen by the service for spans; the collector does not check it, and a service that
uses an id twice asks for two records with that id), recorded runs that are runs,
phases with a duration, traces that are finite sets of spans with integer start
times and no negative duration (`TracesAssumption`; that the spans of one id agree
is a hypothesis where it is needed, `CopiesAgree`), services with a baseline of 0 or
more (`BaselinesAssumption`), a retry threshold that is a number
(`ThresholdAssumption`), ticks that divide the interval (`TickAssumption`; the code
does not round it). TLC evaluates each of them in the run of its module.

Induction over data is done on sets of naturals, from the well-foundedness of
their order: `NaturalInduction` and, for functions defined by recursion,
`Recursion`; sums over a finite set by induction on its size (`FiniteInduction`,
`SumExists`). General facts about operators that take an operator (folds,
`SelectSeq`) are out of the prover's reach, so `ValidEntries` is a recursive
function.

Model-checked only: liveness, which is outside the prover's reach (`EventuallyStored`,
`LoopReturns`, `EventuallyCounted`, `EveryoneFinishes`, `ReplaysEnd`). Every other
property of a passing run has its theorem. The type invariants of the modules with
proofs are proved, and those of the engine, the
aggregator and the detector not checked again by a run.

## Not modelled

Percentiles, averages and rates of a rollup, and what reading `metric_rollups`
without `FINAL` does to them; JSON and HTTP formats, validation of parameters;
metrics, logging and tracing; the rounding of floating-point numbers in z-scores,
token counts and confidences; eviction by Redis (`allkeys-lru`) or its restart;
several clients of the limiter at once (their buckets share nothing) and a
limiter that is switched off; the merge of ClickHouse parts, which is immediate
here; a graceful stop of the collector; what a trace looks like whose rows of one id
differ but form no cycle; the pages for anomalies and traces, which use the same hook, and
charts; the gateway's ingest proxy, which keeps no state; deployment files. The
shared models, settings and topics are data and appear as the constants,
assumptions and message sets of the modules that read them. Windows close only
when a newer event arrives: when traffic stops the last ones stay open, so no
property promises that a window is emitted while the engine runs.

The buffers of the writer are bounded by the records of the log here and by
nothing in the code, so a long ClickHouse outage is not something a property
covers.

## Plan

Larger instances: two services in `engine`, three spans with repeats of each in
`trace`, three requests at once in `cache`.
