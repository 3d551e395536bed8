---------------------------- MODULE MetricsEngine ----------------------------
(***************************************************************************)
(* services/metrics-engine/engine/main.py and pipeline.py: the consumer    *)
(* loop that polls Kafka, folds a batch into the windows, hands rows to    *)
(* the ClickHouse writer, publishes anomalies and commits offsets, with    *)
(* its failures, cancellation, crashes and restarts.                       *)
(*                                                                         *)
(* The loop is one asyncio task.  Between two awaits nothing else runs, so *)
(* an action is the code from one await to the next, and phase names the   *)
(* await the task is suspended in.  Everything the process keeps in memory *)
(* is reset by Crash and by the end of Stop; the log, the committed        *)
(* offsets, the tables and the alerts topic survive.                       *)
(*                                                                         *)
(* Kafka is modelled as the code uses it: getmany() moves an in-memory     *)
(* position, commit() stores the positions, a new consumer starts from the *)
(* stored ones, and nothing else moves a position.  What the anomaly       *)
(* detector says of a rollup is left open here: any of the rollups of a    *)
(* batch may be reported.                                                  *)
(***************************************************************************)
EXTENDS Windows, ClickHouseWriter, Sequences

CONSTANTS
  Partitions,      \* partitions of the subscribed topics
  Messages,        \* the messages producers send
  MaxLog,          \* bound: records per partition
  MaxFaults,       \* bound: inserts, publishes and commits that fail
  MaxStops         \* bound: crashes and shutdowns

\* A message is a search event, a span, a results record, an event that fails
\* validation, a span or results record without its id (its row cannot be
\* built), or bytes that are not JSON.
Message ==
  [kind : {"event"}, service : Services, ts : Times] \cup
  [kind : {"span", "results", "invalid", "malformed", "garbage"}]

Offsets == 1 .. MaxLog
Ids     == Partitions \X Offsets

ASSUME MessageAssumption == Messages \subseteq Message
ASSUME IdAssumption      == EventIds = Ids
ASSUME BoundAssumption   == MaxLog \in Nat /\ MaxFaults \in Nat /\ MaxStops \in Nat
ASSUME PartitionAssumption == IsFiniteSet(Partitions)

VARIABLES
  log,         \* Kafka: the records of each partition
  committed,   \* Kafka: the committed offset of the consumer group
  position,    \* the consumer's position: records up to it were polled
  phase,       \* the await the engine is in, "down" when there is no process
  polled,      \* payloads of the current iteration is not empty
  outgoing,    \* anomalies of the current iteration still to publish
  windows,     \* WindowedAggregator._windows
  watermark,   \* WindowedAggregator._watermark
  alerts,      \* Kafka: anomalies on the anomalies topic
  skipped,     \* history: records whose batch raised before reaching the writer
  lost,        \* history: rows of committed records that died with a process
  late,        \* history: windows this process got an event of after they were due
  faults,      \* failures so far
  stops        \* crashes and shutdowns so far

kafkaVars  == <<log, committed, alerts>>
loopVars   == <<position, phase, polled, outgoing>>
windowVars == <<windows, watermark>>
histVars   == <<skipped, lost, late>>
vars == <<kafkaVars, loopVars, windowVars, writerVars, tableVars, histVars, faults, stops>>

(***************************************************************************)
(* Rows.  A record of the log becomes one row of the table of its kind (a  *)
(* results record becomes one row per document; they travel together).     *)
(***************************************************************************)

Row(t) == IF t \in RecordTables THEN Ids ELSE Rollup

At(r) == log[r[1]][r[2]]

TableOf(kind) ==
  CASE kind = "event" -> "events" [] kind = "results" -> "query_results" [] OTHER -> "spans"

\* The messages that become a row.
YieldsRow(m) == m.kind \in {"event", "span", "results"}

Readable(r) == YieldsRow(At(r))

\* The messages that make their batch raise.
Raises(m) == m.kind \in {"malformed", "garbage"}

EventAt(r) == [id |-> r, service |-> At(r).service, ts |-> At(r).ts]

EventsIn(R) == {EventAt(r) : r \in {q \in R : At(q).kind = "event"}}

RowsIn(R, t) == {r \in R : Readable(r) /\ TableOf(At(r).kind) = t}

InLog(r) == r[2] <= Len(log[r[1]])

Committed(r) == r[2] <= committed[r[1]]

Polled(r) == r[2] <= position[r[1]]

Running == phase # "down"

(***************************************************************************)
(* Init, and what every end of the process leaves behind.                  *)
(***************************************************************************)

Init ==
  /\ log = [p \in Partitions |-> <<>>]
  /\ committed = [p \in Partitions |-> 0]
  /\ alerts = {}
  /\ position = committed
  /\ phase = "down"
  /\ polled = FALSE
  /\ outgoing = {}
  /\ windows = [k \in Keys |-> {}]
  /\ watermark = NoWatermark
  /\ WriterInit
  /\ TablesInit
  /\ skipped = {}
  /\ lost = {}
  /\ late = {}
  /\ faults = 0
  /\ stops = 0

\* Records whose row is in the buffers, and in the tables.
Pending == UNION {buffers[t] : t \in RecordTables}
Durable == UNION {stored[t] : t \in RecordTables}

\* Committed records whose only copy is a row in the buffers.
AtRisk == {r \in Pending : Committed(r)} \ Durable

\* The process is gone and its memory with it.
Die ==
  /\ phase' = "down"
  /\ polled' = FALSE
  /\ outgoing' = {}
  /\ position' = committed
  /\ windows' = [k \in Keys |-> {}]
  /\ watermark' = NoWatermark
  /\ buffers' = [t \in Tables |-> {}]
  /\ slot' = [t \in Tables |-> 0]
  /\ elapsed' = FALSE
  /\ flushing' = {}
  /\ attempt' = 0
  /\ lost' = lost \cup AtRisk
  /\ skipped' = {r \in skipped : Committed(r)}
  /\ late' = {}
  /\ UNCHANGED <<log, committed, alerts, stored, twice, faults>>

\* The except clause of run(): nothing is undone and no position is moved back.
Fail ==
  /\ phase' = "backoff"
  /\ polled' = FALSE
  /\ outgoing' = {}

\* The await that follows the writes of an iteration.
NextAwait(anomalies, some) ==
  IF anomalies # {} THEN "publish" ELSE IF some THEN "commit" ELSE "poll"

Resume(anomalies) ==
  /\ phase' = NextAwait(anomalies, polled)
  /\ polled' = (polled /\ phase' # "poll")
  /\ outgoing' = anomalies

(***************************************************************************)
(* Producers and the start of a process.                                   *)
(***************************************************************************)

Produce(p, m) ==
  /\ Len(log[p]) < MaxLog
  /\ log' = [log EXCEPT ![p] = Append(@, m)]
  /\ UNCHANGED <<committed, alerts, loopVars, windowVars, writerVars, tableVars, histVars,
                 faults, stops>>

Start ==
  /\ phase = "down"
  /\ phase' = "poll"
  /\ UNCHANGED <<kafkaVars, position, polled, outgoing, windowVars, writerVars, tableVars,
                 histVars, faults, stops>>

(***************************************************************************)
(* getmany() returns the records up to the offsets new, and the loop runs  *)
(* on to its next await.                                                   *)
(***************************************************************************)

Batch(new) == {r \in Ids : position[r[1]] < r[2] /\ r[2] <= new[r[1]]}

\* max_records of getmany() is the writer's batch size
\* (settings.clickhouse_insert_batch_size is passed to both).
Fetch(new) ==
  /\ phase = "poll"
  /\ \A p \in Partitions : position[p] <= new[p] /\ new[p] <= Len(log[p])
  /\ Cardinality(Batch(new)) <= BATCH_SIZE
  /\ position' = new

Kinds(R) == {At(r).kind : r \in R}

\* The windows of events that come when the watermark has been past their end
\* by the grace period.
Overdue(E) ==
  {k \in {KeyOf(e) : e \in E} : WindowEnd(k) + GRACE_SECONDS <= watermark}

\* process_batch() on a batch it can read: every event is added, the windows
\* that passed are closed and scored, and the rows go to the writer, which is
\* flushed when it is full or stale or a window closed.
Process(new) ==
  LET batch == Batch(new)
      open  == AddAll(windows, EventsIn(batch))
  IN
  /\ Fetch(new)
  /\ Kinds(batch) \cap {"garbage", "malformed"} = {}
  /\ \E wm \in Advance(watermark, {e.ts : e \in EventsIn(batch)}) :
     \E anomalies \in SUBSET RollupsOf(open, Ready(open, wm)) :
       LET rollups == RollupsOf(open, Ready(open, wm)) IN
       /\ windows' = Forget(open, Ready(open, wm))
       /\ watermark' = wm
       /\ AddRows([t \in Tables |->
            CASE t = "metric_rollups" -> rollups
              [] t = "anomalies" -> anomalies
              [] OTHER -> RowsIn(batch, t)])
       /\ outgoing' = anomalies
       /\ IF ShouldFlush(buffers') \/ rollups # {}
          THEN /\ BeginFlush(buffers')
               /\ phase' = "flush"
               /\ polled' = (batch # {})
          ELSE /\ UNCHANGED <<elapsed, flushing, attempt>>
               /\ phase' = NextAwait(anomalies, batch # {})
               /\ polled' = (batch # {})
  /\ late' = late \cup Overdue(EventsIn(batch))
  /\ UNCHANGED <<kafkaVars, tableVars, skipped, lost, faults, stops>>

\* deserialize() raises before anything of the batch is looked at.
Undecodable(new) ==
  /\ Fetch(new)
  /\ "garbage" \in Kinds(Batch(new))
  /\ skipped' = skipped \cup {r \in Batch(new) : Readable(r)}
  /\ Fail
  /\ UNCHANGED <<kafkaVars, windowVars, writerVars, tableVars, lost, late, faults, stops>>

\* The records process_batch() went through before the malformed record bad:
\* those before it in its partition, and all or none of every other partition.
Before(bad, batch) ==
  {done \in SUBSET batch :
     /\ "malformed" \notin Kinds(done)
     /\ \A r \in batch : r[1] = bad[1] => (r \in done <=> r[2] < bad[2])
     /\ \A r, q \in batch : r[1] = q[1] /\ r[1] # bad[1] /\ r \in done => q \in done}

\* Building a row raises in the middle of process_batch(): the events before
\* it are in the windows, no row of the batch reaches the writer.
Malformed(new) ==
  LET batch == Batch(new) IN
  /\ Fetch(new)
  /\ "garbage" \notin Kinds(batch)
  /\ \E bad \in batch :
       /\ At(bad).kind = "malformed"
       /\ \E done \in Before(bad, batch) :
            /\ windows' = AddAll(windows, EventsIn(done))
            /\ watermark' \in Advance(watermark, {e.ts : e \in EventsIn(done)})
            /\ late' = late \cup Overdue(EventsIn(done))
  /\ skipped' = skipped \cup {r \in batch : Readable(r)}
  /\ Fail
  /\ UNCHANGED <<kafkaVars, writerVars, tableVars, lost, faults, stops>>

Poll ==
  \E new \in [Partitions -> 0 .. MaxLog] :
    \/ Process(new)
    \/ Undecodable(new)
    \/ Malformed(new)

(***************************************************************************)
(* The awaits of flush(), under run() or under stop().                     *)
(***************************************************************************)

FailsOnce == faults < MaxFaults /\ faults' = faults + 1

InsertOk(t) ==
  /\ phase \in {"flush", "closing"}
  /\ WriterOk(t)
  /\ IF phase = "flush" /\ flushing' = {}
     THEN Resume(outgoing)
     ELSE UNCHANGED <<phase, polled, outgoing>>
  /\ UNCHANGED <<kafkaVars, position, windowVars, histVars, faults, stops>>

InsertRetry(t, accepted) ==
  /\ phase \in {"flush", "closing"}
  /\ FailsOnce
  /\ WriterRetry(t, accepted)
  /\ UNCHANGED <<kafkaVars, loopVars, windowVars, histVars, stops>>

\* Faulty variant of InsertRaise: the error of flush() is swallowed.
SwallowRaise(t, accepted) ==
  /\ phase \in {"flush", "closing"}
  /\ FailsOnce
  /\ WriterRaise(t, accepted)
  /\ IF phase = "flush" THEN Resume(outgoing) ELSE UNCHANGED <<phase, polled, outgoing>>
  /\ UNCHANGED <<kafkaVars, position, windowVars, histVars, stops>>

InsertRaise(t, accepted) ==
  /\ phase \in {"flush", "closing"}
  /\ FailsOnce
  /\ WriterRaise(t, accepted)
  /\ IF phase = "flush" THEN Fail ELSE UNCHANGED <<phase, polled, outgoing>>
  /\ UNCHANGED <<kafkaVars, position, windowVars, histVars, stops>>

IntervalElapses ==
  /\ Running
  /\ WriterInterval
  /\ UNCHANGED <<kafkaVars, loopVars, windowVars, histVars, faults, stops>>

(***************************************************************************)
(* Anomalies, then offsets.  A call that fails may have taken effect.      *)
(***************************************************************************)

\* Faulty variant of Publish: the anomaly stays first in line.
PublishAgain(a) ==
  /\ phase = "publish"
  /\ a \in outgoing
  /\ alerts' = alerts \cup {a}
  /\ UNCHANGED <<log, committed, loopVars, windowVars, writerVars, tableVars, histVars,
                 faults, stops>>

Publish(a) ==
  /\ phase = "publish"
  /\ a \in outgoing
  /\ alerts' = alerts \cup {a}
  /\ Resume(outgoing \ {a})
  /\ UNCHANGED <<log, committed, position, windowVars, writerVars, tableVars, histVars,
                 faults, stops>>

PublishFails(a, accepted) ==
  /\ phase = "publish"
  /\ FailsOnce
  /\ a \in outgoing
  /\ alerts' = IF accepted THEN alerts \cup {a} ELSE alerts
  /\ Fail
  /\ UNCHANGED <<log, committed, position, windowVars, writerVars, tableVars, histVars, stops>>

Commit ==
  /\ phase = "commit"
  /\ committed' = position
  /\ phase' = "poll"
  /\ polled' = FALSE
  /\ UNCHANGED <<log, alerts, position, outgoing, windowVars, writerVars, tableVars, histVars,
                 faults, stops>>

CommitFails(accepted) ==
  /\ phase = "commit"
  /\ FailsOnce
  /\ committed' = IF accepted THEN position ELSE committed
  /\ Fail
  /\ UNCHANGED <<log, alerts, position, windowVars, writerVars, tableVars, histVars, stops>>

Retry ==
  /\ phase = "backoff"
  /\ phase' = "poll"
  /\ UNCHANGED <<kafkaVars, position, polled, outgoing, windowVars, writerVars, tableVars,
                 histVars, faults, stops>>

(***************************************************************************)
(* The end of a process.                                                   *)
(***************************************************************************)

\* A call that the end of the process cuts short may have taken effect: the
\* failure of the call with accepted true, followed by Crash or Stop, ends in
\* the same state.
Crash ==
  /\ Running
  /\ stops < MaxStops
  /\ stops' = stops + 1
  /\ Die

\* Shutdown with windows open: the task is cancelled at its await and stop()
\* adds a rollup of every open window, then flushes.  The anomalies of these
\* rollups go nowhere.
Stop ==
  /\ Running /\ phase # "closing"
  /\ stops < MaxStops
  /\ stops' = stops + 1
  /\ Open(windows) # {}
  /\ windows' = [k \in Keys |-> {}]
  /\ AddRows([t \in Tables |->
       IF t = "metric_rollups" THEN RollupsOf(windows, Open(windows)) ELSE {}])
  /\ BeginFlush(buffers')
  /\ phase' = "closing"
  /\ polled' = FALSE
  /\ outgoing' = {}
  /\ UNCHANGED <<kafkaVars, position, watermark, tableVars, histVars, faults>>

\* Shutdown with no window open: stop() does not flush.
StopIdle ==
  /\ Running /\ phase # "closing"
  /\ stops < MaxStops
  /\ stops' = stops + 1
  /\ Open(windows) = {}
  /\ Die

\* stop() is done with its flush, whether or not it succeeded.
Exit ==
  /\ phase = "closing"
  /\ flushing = {}
  /\ Die
  /\ UNCHANGED stops

Inserts ==
  \E t \in Tables :
    \/ InsertOk(t)
    \/ \E accepted \in BOOLEAN : InsertRetry(t, accepted) \/ InsertRaise(t, accepted)

Publishes ==
  \E a \in outgoing : Publish(a) \/ \E accepted \in BOOLEAN : PublishFails(a, accepted)

Commits == Commit \/ \E accepted \in BOOLEAN : CommitFails(accepted)

Next ==
  \/ \E p \in Partitions, m \in Messages : Produce(p, m)
  \/ Start
  \/ Poll
  \/ Inserts
  \/ IntervalElapses
  \/ Publishes
  \/ Commits
  \/ Retry
  \/ Crash
  \/ Stop
  \/ StopIdle
  \/ Exit

Spec == Init /\ [][Next]_vars

\* The event loop runs every task that can run, ClickHouse and Kafka answer,
\* the clock advances, and the broker returns a partition's records in the end.
Fairness ==
  /\ WF_vars(Start) /\ WF_vars(Poll) /\ WF_vars(Inserts) /\ WF_vars(Publishes)
  /\ WF_vars(Commits) /\ WF_vars(Retry) /\ WF_vars(Exit) /\ WF_vars(IntervalElapses)
  /\ \A p \in Partitions : SF_vars(Poll /\ position'[p] > position[p])

FairSpec == Spec /\ Fairness

(***************************************************************************)
(* Properties.                                                             *)
(***************************************************************************)

Phases == {"down", "poll", "flush", "publish", "commit", "backoff", "closing"}

RowsPerTable(f) ==
  /\ f = [t \in Tables |-> f[t]]
  /\ \A t \in Tables : f[t] \subseteq Row(t)

TypeOK ==
  /\ log \in [Partitions -> Seq(Messages)]
  /\ \A p \in Partitions : Len(log[p]) <= MaxLog
  /\ committed \in [Partitions -> 0 .. MaxLog]
  /\ position \in [Partitions -> 0 .. MaxLog]
  /\ phase \in Phases
  /\ polled \in BOOLEAN
  /\ outgoing \in SUBSET Rollup
  /\ alerts \in SUBSET Rollup
  /\ windows \in [Keys -> SUBSET Event]
  /\ watermark \in Times \cup {NoWatermark}
  /\ RowsPerTable(buffers) /\ RowsPerTable(stored) /\ RowsPerTable(twice)
  /\ slot \in [Tables -> Nat]
  /\ elapsed \in BOOLEAN
  /\ flushing \in SUBSET Tables
  /\ attempt \in 0 .. MAX_RETRIES
  /\ skipped \in SUBSET Ids
  /\ lost \in SUBSET Ids
  /\ late \in SUBSET Keys
  /\ faults \in 0 .. MaxFaults
  /\ stops \in 0 .. MaxStops

\* Every record that was polled or committed and can yield a row is accounted
\* for: its row is in a table or in the buffers, or its batch raised before
\* the writer had it, or it was committed and died in the buffers with a
\* process.  A failed flush, a retried insert, a lost answer or a restart
\* loses nothing else.
Accounted ==
  \A r \in Ids :
    InLog(r) /\ Polled(r) /\ Readable(r) => r \in Pending \cup Durable \cup skipped \cup lost

\* What a crash at any moment destroys is less than one batch: the committed
\* records that only the buffers hold never reach BATCH_SIZE, however many
\* flushes failed and however far the position ran ahead.
AtRiskBounded == Cardinality(AtRisk) < BATCH_SIZE

\* So over a whole history at most BATCH_SIZE - 1 rows are lost per process
\* that ended, which is none at all when every row is flushed at once.
LossBounded == Cardinality(lost) <= stops * (BATCH_SIZE - 1)

\* Nothing gets ahead of what it rests on, whatever insert failed before: an
\* anomaly reaches the alerts topic only when the anomalies table can answer
\* for it, and an anomaly row is never without a rollup row of the same window
\* to compare it with (the tables are flushed in the order run() first filled
\* them, the anomalies are published after the flush).
AlertsAreBacked ==
  /\ \A a \in alerts : \E row \in stored["anomalies"] : row.key = a.key
  /\ \A a \in stored["anomalies"] : \E row \in stored["metric_rollups"] : row.key = a.key

\* Until a process ends, the rollup row of a window counts every event of the
\* window that the events table holds, whatever flush failed or insert was
\* repeated meanwhile and in whatever order the records of the partitions come,
\* unless one of its events came after the grace period.  (The watermark is one
\* for all partitions and services: close_ready(), main.py run())
RollupsAreComplete ==
  stops = 0 =>
    \A row \in {q \in stored["metric_rollups"] : q.key \notin late} :
      {EventAt(r) : r \in {q \in stored["events"] : KeyOf(EventAt(q)) = row.key}}
        \subseteq row.events

\* The committed offset never moves back and never passes the position,
\* across failures, cancellations, crashes and restarts.
CommittedMonotone ==
  [][\A p \in Partitions : committed[p] <= committed'[p] /\ committed'[p] <= position'[p]]_vars

\* Every record that yields a row is in a table in the end, unless its batch
\* raised before the writer had it: light traffic, failed flushes and lost
\* answers delay a row but do not strand it in the buffers.
EventuallyStored ==
  \A r \in Ids : (InLog(r) /\ Readable(r)) ~> (r \in Durable \cup skipped)

\* The loop is never wedged in a flush, a publish, a commit or a back-off.
LoopReturns == (phase # "poll") ~> (phase = "poll")

\* Without a failed call and within one life of the process no row is written
\* twice: duplicates come from lost answers and redelivery alone.
DuplicatesNeedAFailure ==
  faults = 0 /\ stops = 0 => \A t \in Tables : twice[t] = {}

\* The engine keeps the at-least-once contract with a slack of one batch less a
\* row: what it commits is in a table or among fewer than BATCH_SIZE records in
\* memory, or came in one batch with a record that raised, through failed
\* flushes, commits that took effect or did not, crashes and shutdowns.
Contract == INSTANCE AtLeastOnce WITH
  durable <- Durable,
  held <- AtRisk,
  Owed <- YieldsRow,
  Unreadable <- Raises,
  Slack <- BATCH_SIZE - 1
ImplementsAtLeastOnce == Contract!Spec
=============================================================================
