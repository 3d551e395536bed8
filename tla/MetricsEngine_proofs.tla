------------------------- MODULE MetricsEngine_proofs -------------------------
(***************************************************************************)
(* Type correctness of the engine, and what it can lose: for every set of  *)
(* partitions, services and messages, every batch size, retry limit and    *)
(* number of faults, crashes and restarts.                                 *)
(***************************************************************************)
EXTENDS MetricsEngine, FiniteSetTheorems, TLAPS

(***************************************************************************)
(* Windows, rows and batches are well typed.                               *)
(***************************************************************************)

\* Every event has a window and a group.
LEMMA KeyOfEvent ==
  ASSUME NEW e \in Event
  PROVE  KeyOf(e) \in Keys
<1>1. e.ts \in Nat /\ e.ts \in Times
  BY TimeAssumption DEF Event, Times
<1>2. e.ts % WINDOW_SECONDS \in 0 .. e.ts
  BY <1>1, WindowAssumption, SMTT(30)
<1>3. WindowStart(e.ts) \in Times
  BY <1>1, <1>2, TimeAssumption DEF WindowStart, Times
<1> QED
  BY <1>3 DEF KeyOf, Keys, Event

\* No window has any events.
LEMMA EmptyWindows == [k \in Keys |-> {}] \in [Keys -> SUBSET Event]
OBVIOUS

\* Folding a batch into the windows gives sets of events.
LEMMA AddAllType ==
  ASSUME NEW wins \in [Keys -> SUBSET Event], NEW E \in SUBSET Event
  PROVE  AddAll(wins, E) \in [Keys -> SUBSET Event]
BY DEF AddAll

\* Forgetting closed windows gives sets of events.
LEMMA ForgetType ==
  ASSUME NEW wins \in [Keys -> SUBSET Event], NEW K
  PROVE  Forget(wins, K) \in [Keys -> SUBSET Event]
BY DEF Forget

\* What closes is a set of rollups.
LEMMA RollupsOfType ==
  ASSUME NEW wins \in [Keys -> SUBSET Event], NEW K \in SUBSET Keys
  PROVE  RollupsOf(wins, K) \in SUBSET Rollup
BY DEF RollupsOf, Rollup

\* The watermark stays a time.
LEMMA AdvanceType ==
  ASSUME NEW wm \in Times \cup {NoWatermark}, NEW E \in SUBSET Event,
         NEW new \in Advance(wm, {e.ts : e \in E})
  PROVE  new \in Times \cup {NoWatermark}
BY DEF Advance, Event

\* A record below the end of its partition is a message.
LEMMA AtType ==
  ASSUME TypeOK, NEW r \in Ids, InLog(r)
  PROVE  At(r) \in Messages
<1>1. r[1] \in Partitions /\ r[2] \in 1 .. Len(log[r[1]])
  BY BoundAssumption DEF Ids, Offsets, InLog, TypeOK
<1>2. log[r[1]] \in Seq(Messages)
  BY <1>1 DEF TypeOK
<1> QED
  BY <1>1, <1>2 DEF At

\* The events parsed from a batch are events.
LEMMA EventsInType ==
  ASSUME TypeOK, NEW R \in SUBSET Ids, \A r \in R : InLog(r)
  PROVE  EventsIn(R) \in SUBSET Event
<1> SUFFICES ASSUME NEW r \in R, At(r).kind = "event" PROVE EventAt(r) \in Event
  BY DEF EventsIn
<1>1. At(r) \in Message
  BY AtType, MessageAssumption
<1>2. At(r) \in [kind : {"event"}, service : Services, ts : Times]
  BY <1>1 DEF Message
<1> QED
  BY <1>2, IdAssumption DEF EventAt, Event

\* Overdue windows are windows.
LEMMA OverdueType ==
  ASSUME NEW E \in SUBSET Event
  PROVE  Overdue(E) \in SUBSET Keys
BY KeyOfEvent DEF Overdue

\* What a poll returns is records of the log.
LEMMA BatchType ==
  ASSUME TypeOK, NEW new \in [Partitions -> 0 .. MaxLog], Fetch(new)
  PROVE  /\ Batch(new) \in SUBSET Ids
         /\ \A r \in Batch(new) : InLog(r) /\ ~Polled(r) /\ r[2] <= new[r[1]]
         /\ EventsIn(Batch(new)) \in SUBSET Event
<1>1. Batch(new) \in SUBSET Ids
  BY DEF Batch
<1>2. ASSUME NEW r \in Batch(new) PROVE InLog(r) /\ ~Polled(r) /\ r[2] <= new[r[1]]
  <2>1. r[1] \in Partitions /\ r[2] \in Nat
    BY BoundAssumption DEF Batch, Ids, Offsets
  <2>2. position[r[1]] \in Nat /\ new[r[1]] \in Nat /\ log[r[1]] \in Seq(Messages)
    BY <2>1, BoundAssumption DEF TypeOK
  <2> QED
    BY <2>1, <2>2 DEF Batch, Fetch, InLog, Polled
<1> QED
  BY <1>1, <1>2, EventsInType

(***************************************************************************)
(* The writer's buffers and tables.                                        *)
(***************************************************************************)

\* There are finitely many tables.
LEMMA TablesFinite == IsFiniteSet(Tables)
<1>1. IsFiniteSet({"events"}) /\ IsFiniteSet({"metric_rollups"})
  BY FS_Singleton
<1>2. IsFiniteSet({"events"} \cup {"query_results"})
  BY <1>1, FS_AddElement
<1>3. IsFiniteSet({"events"} \cup {"query_results"} \cup {"spans"})
  BY <1>2, FS_AddElement
<1>4. IsFiniteSet({"metric_rollups"} \cup {"anomalies"})
  BY <1>1, FS_AddElement
<1>5. RecordTables = {"events"} \cup {"query_results"} \cup {"spans"}
  BY DEF RecordTables
<1>6. ReplacingTables = {"metric_rollups"} \cup {"anomalies"}
  BY DEF ReplacingTables
<1> QED
  BY <1>3, <1>4, <1>5, <1>6, FS_Union DEF Tables

\* A table that accepts rows holds rows.
LEMMA MergeType ==
  ASSUME NEW t \in Tables, NEW old \in SUBSET Row(t), NEW new \in SUBSET Row(t)
  PROVE  Merge(t, old, new) \in SUBSET Row(t)
BY DEF Merge

\* What a batch adds to a buffer is rows.
LEMMA AddedToType ==
  ASSUME NEW bufs, RowsPerTable(bufs), NEW batch, RowsPerTable(batch)
  PROVE  RowsPerTable(AddedTo(bufs, batch))
<1> SUFFICES ASSUME NEW t \in Tables
             PROVE  Merge(t, bufs[t], batch[t]) \subseteq Row(t)
  BY DEF RowsPerTable, AddedTo
<1> QED
  BY MergeType DEF RowsPerTable

\* The slots of the buffers stay in order.
LEMMA SlotsAfterType ==
  ASSUME NEW slots \in [Tables -> Nat], NEW batch
  PROVE  SlotsAfter(slots, batch) \in [Tables -> Nat]
<1> DEFINE known == {t \in Tables : slots[t] # 0}
           new == {t \in Tables \ known : batch[t] # {}}
<1>1. Cardinality(known) \in Nat
  BY TablesFinite, FS_Subset, FS_CardinalityType
<1>2. \A t \in Tables : Cardinality({u \in new : CallOrder[u] <= CallOrder[t]}) \in Nat
  BY TablesFinite, FS_Subset, FS_CardinalityType
<1> DEFINE next(t) == IF t \in new
                      THEN Cardinality(known) + Cardinality({u \in new : CallOrder[u] <= CallOrder[t]})
                      ELSE slots[t]
<1>3. SlotsAfter(slots, batch) = [t \in Tables |-> next(t)]
  BY DEF SlotsAfter
<1>4. \A t \in Tables : next(t) \in Nat
  BY <1>1, <1>2
<1> HIDE DEF next
<1> QED
  BY <1>3, <1>4

\* Accepting a batch keeps the types of what it changes.
LEMMA AcceptType ==
  ASSUME TypeOK, NEW t \in Tables, Accept(t)
  PROVE  RowsPerTable(stored') /\ RowsPerTable(twice')
<1>1. Merge(t, stored[t], buffers[t]) \subseteq Row(t)
  BY MergeType DEF TypeOK, RowsPerTable
<1> QED
  BY <1>1 DEF TypeOK, RowsPerTable, Accept

\* Starting a flush keeps the types of what it changes.
LEMMA BeginFlushType ==
  ASSUME NEW bufs, BeginFlush(bufs)
  PROVE  elapsed' \in BOOLEAN /\ flushing' \in SUBSET Tables /\ attempt' \in 0 .. MAX_RETRIES
<1>1. elapsed' = FALSE
  BY DEF BeginFlush
<1>2. flushing' \in SUBSET Tables
  BY DEF BeginFlush, NonEmpty
<1>3. attempt' \in {0, 1}
  BY DEF BeginFlush
<1>4. 0 \in 0 .. MAX_RETRIES /\ 1 \in 0 .. MAX_RETRIES
  BY SizeAssumption
<1> QED
  BY <1>1, <1>2, <1>3, <1>4, Zenon

\* Losing the process keeps the types of what it changes.
LEMMA DieType ==
  ASSUME TypeOK, Die, stops' \in 0 .. MaxStops
  PROVE  TypeOK'
<1>1. RowsPerTable(buffers')
  BY DEF Die, RowsPerTable
<1>2. AtRisk \in SUBSET Ids
  BY DEF AtRisk, Pending, TypeOK, RowsPerTable, RecordTables, Tables, Row
<1>3. slot' \in [Tables -> Nat] /\ attempt' \in 0 .. MAX_RETRIES
  BY SizeAssumption DEF Die
<1>4. UNCHANGED <<stored, twice>> => RowsPerTable(stored') /\ RowsPerTable(twice')
  BY DEF TypeOK
<1> QED
  BY <1>1, <1>2, <1>3, <1>4 DEF Die, TypeOK, Phases

(***************************************************************************)
(* Type correctness, one lemma for each group of actions.                  *)
(***************************************************************************)

\* The initial states have the right types.
LEMMA InitType == Init => TypeOK
<1> SUFFICES ASSUME Init PROVE TypeOK
  OBVIOUS
<1>1. /\ log \in [Partitions -> Seq(Messages)]
      /\ \A p \in Partitions : Len(log[p]) <= MaxLog
      /\ committed \in [Partitions -> 0 .. MaxLog]
      /\ position \in [Partitions -> 0 .. MaxLog]
  BY BoundAssumption DEF Init
<1>2. RowsPerTable(buffers) /\ RowsPerTable(stored) /\ RowsPerTable(twice)
  BY DEF Init, WriterInit, TablesInit, RowsPerTable
<1>3. slot \in [Tables -> Nat] /\ flushing \in SUBSET Tables
  BY DEF Init, WriterInit
<1>4. attempt \in 0 .. MAX_RETRIES /\ faults \in 0 .. MaxFaults /\ stops \in 0 .. MaxStops
  BY SizeAssumption, BoundAssumption DEF Init, WriterInit
<1>5. polled \in BOOLEAN /\ elapsed \in BOOLEAN
  BY Zenon DEF Init, WriterInit
<1>6. windows \in [Keys -> SUBSET Event] /\ watermark \in Times \cup {NoWatermark}
  BY DEF Init
<1>7. outgoing \in SUBSET Rollup /\ alerts \in SUBSET Rollup /\ skipped \in SUBSET Ids
      /\ lost \in SUBSET Ids /\ late \in SUBSET Keys /\ phase \in Phases
  BY DEF Init, Phases
<1> QED
  BY <1>1, <1>2, <1>3, <1>4, <1>5, <1>6, <1>7 DEF TypeOK

\* Producing a record keeps every type.
LEMMA ProduceType ==
  ASSUME TypeOK, NEW p \in Partitions, NEW m \in Messages, Produce(p, m)
  PROVE  TypeOK'
<1> USE DEF kafkaVars, loopVars, windowVars, writerVars, tableVars, histVars
<1>1. Append(log[p], m) \in Seq(Messages) /\ Len(Append(log[p], m)) = Len(log[p]) + 1
  BY DEF TypeOK
<1>2. /\ log' \in [Partitions -> Seq(Messages)]
      /\ \A q \in Partitions : Len(log'[q]) <= MaxLog
  BY <1>1, BoundAssumption DEF TypeOK, Produce
<1> QED
  BY <1>2 DEF TypeOK, Produce, RowsPerTable

\* Where the loop goes after an exception.
LEMMA FailType ==
  ASSUME Fail
  PROVE  phase' \in Phases /\ polled' \in BOOLEAN /\ outgoing' \in SUBSET Rollup
<1>1. polled' \in BOOLEAN
  BY Zenon DEF Fail
<1> QED
  BY <1>1 DEF Fail, Phases

\* Where the loop goes after an await.
LEMMA ResumeType ==
  ASSUME TypeOK, NEW anomalies \in SUBSET Rollup, Resume(anomalies)
  PROVE  phase' \in Phases /\ polled' \in BOOLEAN /\ outgoing' \in SUBSET Rollup
<1>1. polled' \in BOOLEAN
  BY Zenon DEF Resume
<1> QED
  BY <1>1 DEF Resume, NextAwait, Phases

\* What every outcome of a poll shares.
LEMMA RowsInType ==
  ASSUME NEW R \in SUBSET Ids, NEW found \in SUBSET Rollup, NEW some \in SUBSET Rollup
  PROVE  RowsPerTable([t \in Tables |->
            CASE t = "metric_rollups" -> found
              [] t = "anomalies" -> some
              [] OTHER -> RowsIn(R, t)])
BY DEF RowsPerTable, RowsIn, Row, Tables, RecordTables, ReplacingTables

\* Processing a batch keeps every type.
LEMMA ProcessType ==
  ASSUME TypeOK, NEW new \in [Partitions -> 0 .. MaxLog], Process(new)
  PROVE  TypeOK'
<1> USE DEF kafkaVars, loopVars, windowVars, writerVars, tableVars, histVars
<1> DEFINE batch == Batch(new)
           open == AddAll(windows, EventsIn(batch))
<1>1. Fetch(new)
  BY DEF Process
<1>2. PICK wm \in Advance(watermark, {e.ts : e \in EventsIn(batch)}) :
        \E anomalies \in SUBSET RollupsOf(open, Ready(open, wm)) :
          LET rollups == RollupsOf(open, Ready(open, wm)) IN
          /\ windows' = Forget(open, Ready(open, wm))
          /\ watermark' = wm
          /\ AddRows([t \in Tables |->
               CASE t = "metric_rollups" -> rollups
                 [] t = "anomalies" -> anomalies
                 [] OTHER -> RowsIn(batch, t)])
          /\ outgoing' = anomalies
          /\ IF ShouldFlush(buffers') \/ rollups # {}
             THEN /\ BeginFlush(buffers')
                  /\ phase' = "flush"
                  /\ polled' = (batch # {})
             ELSE /\ UNCHANGED <<elapsed, flushing, attempt>>
                  /\ phase' = NextAwait(anomalies, batch # {})
                  /\ polled' = (batch # {})
  BY DEF Process
<1> DEFINE rollups == RollupsOf(open, Ready(open, wm))
<1>3. PICK anomalies \in SUBSET rollups :
          /\ windows' = Forget(open, Ready(open, wm))
          /\ watermark' = wm
          /\ AddRows([t \in Tables |->
               CASE t = "metric_rollups" -> rollups
                 [] t = "anomalies" -> anomalies
                 [] OTHER -> RowsIn(batch, t)])
          /\ outgoing' = anomalies
          /\ IF ShouldFlush(buffers') \/ rollups # {}
             THEN /\ BeginFlush(buffers')
                  /\ phase' = "flush"
                  /\ polled' = (batch # {})
             ELSE /\ UNCHANGED <<elapsed, flushing, attempt>>
                  /\ phase' = NextAwait(anomalies, batch # {})
                  /\ polled' = (batch # {})
  BY <1>2
<1>4. batch \in SUBSET Ids /\ EventsIn(batch) \in SUBSET Event
  BY <1>1, BatchType
<1>5. open \in [Keys -> SUBSET Event] /\ Ready(open, wm) \in SUBSET Keys
  BY <1>4, AddAllType DEF TypeOK, Ready, Open
<1>6. rollups \in SUBSET Rollup
  BY <1>5, RollupsOfType
<1>7. windows' \in [Keys -> SUBSET Event] /\ watermark' \in Times \cup {NoWatermark}
  BY <1>2, <1>3, <1>4, <1>5, ForgetType, AdvanceType DEF TypeOK
<1> HIDE DEF batch, open, rollups
<1>8. RowsPerTable(buffers') /\ slot' \in [Tables -> Nat]
  BY <1>3, <1>4, <1>6, RowsInType, AddedToType, SlotsAfterType DEF AddRows, TypeOK
<1>9. elapsed' \in BOOLEAN /\ flushing' \in SUBSET Tables /\ attempt' \in 0 .. MAX_RETRIES
  <2>1. CASE BeginFlush(buffers')
    BY <2>1, BeginFlushType
  <2>2. CASE UNCHANGED <<elapsed, flushing, attempt>>
    BY <2>2 DEF TypeOK
  <2> QED
    BY <1>3, <2>1, <2>2
<1>10. polled' \in BOOLEAN /\ phase' \in Phases /\ outgoing' \in SUBSET Rollup
  <2>1. polled' = (batch # {})
    BY <1>3
  <2>2. polled' \in BOOLEAN
    BY <2>1, Zenon
  <2> QED
    BY <1>3, <1>6, <2>2 DEF Phases, NextAwait
<1>11. late' \in SUBSET Keys
  <2>1. late' = late \cup Overdue(EventsIn(batch))
    BY DEF Process, batch
  <2> QED
    BY <1>4, <2>1, OverdueType DEF TypeOK
<1> QED
  BY <1>1, <1>7, <1>8, <1>9, <1>10, <1>11 DEF TypeOK, Process, Fetch, RowsPerTable

\* A batch that raises before anything is written keeps every type.
LEMMA SkipType ==
  ASSUME TypeOK, NEW new \in [Partitions -> 0 .. MaxLog], Undecodable(new) \/ Malformed(new)
  PROVE  TypeOK'
<1> USE DEF kafkaVars, loopVars, windowVars, writerVars, tableVars, histVars
<1>1. Fetch(new) /\ Fail
  BY DEF Undecodable, Malformed
<1>2. Batch(new) \in SUBSET Ids /\ \A r \in Batch(new) : InLog(r)
  BY <1>1, BatchType
<1>3. /\ windows' \in [Keys -> SUBSET Event] /\ watermark' \in Times \cup {NoWatermark}
      /\ late' \in SUBSET Keys
  <2>1. CASE Undecodable(new)
    BY <2>1 DEF Undecodable, TypeOK
  <2>2. CASE Malformed(new)
    <3>1. PICK done \in SUBSET Batch(new) :
            /\ windows' = AddAll(windows, EventsIn(done))
            /\ watermark' \in Advance(watermark, {e.ts : e \in EventsIn(done)})
            /\ late' = late \cup Overdue(EventsIn(done))
      BY <2>2 DEF Malformed, Before
    <3>2. EventsIn(done) \in SUBSET Event
      BY <3>1, <1>2, EventsInType
    <3> QED
      BY <3>1, <3>2, AddAllType, AdvanceType, OverdueType DEF TypeOK
  <2> QED
    BY <2>1, <2>2
<1>4. skipped' \in SUBSET Ids
  BY <1>2 DEF Undecodable, Malformed, TypeOK
<1>5. phase' \in Phases /\ polled' \in BOOLEAN /\ outgoing' \in SUBSET Rollup
  BY <1>1, FailType
<1> QED
  BY <1>1, <1>3, <1>4, <1>5 DEF TypeOK, Undecodable, Malformed, Fetch, RowsPerTable

\* An insert keeps every type.
LEMMA InsertType ==
  ASSUME TypeOK, NEW t \in Tables, NEW accepted \in BOOLEAN,
         InsertOk(t) \/ InsertRetry(t, accepted) \/ InsertRaise(t, accepted)
  PROVE  TypeOK'
<1> USE DEF kafkaVars, loopVars, windowVars, writerVars, tableVars, histVars
<1>1. CASE InsertOk(t)
  <2>1. RowsPerTable(stored') /\ RowsPerTable(twice')
    BY <1>1, AcceptType DEF InsertOk, WriterOk
  <2>2. RowsPerTable(buffers') /\ flushing' \in SUBSET Tables /\ attempt' \in 0 .. MAX_RETRIES
    <3>1. RowsPerTable(buffers') /\ flushing' \in SUBSET Tables
      BY <1>1 DEF InsertOk, WriterOk, TypeOK, RowsPerTable
    <3>2. attempt' \in {0, 1}
      BY <1>1 DEF InsertOk, WriterOk
    <3> QED
      BY <3>1, <3>2, SizeAssumption
  <2>3. phase' \in Phases /\ polled' \in BOOLEAN /\ outgoing' \in SUBSET Rollup
    <3>1. CASE Resume(outgoing)
      BY <3>1, ResumeType DEF TypeOK
    <3>2. CASE UNCHANGED <<phase, polled, outgoing>>
      BY <3>2 DEF TypeOK
    <3> QED
      BY <1>1, <3>1, <3>2 DEF InsertOk
  <2> QED
    BY <1>1, <2>1, <2>2, <2>3 DEF InsertOk, WriterOk, TypeOK
<1>2. CASE InsertRetry(t, accepted)
  <2>1. RowsPerTable(stored') /\ RowsPerTable(twice')
    <3>1. CASE Accept(t)
      BY <3>1, AcceptType
    <3>2. CASE UNCHANGED tableVars
      BY <3>2 DEF TypeOK
    <3> QED
      BY <1>2, <3>1, <3>2 DEF InsertRetry, WriterRetry
  <2>2. attempt' \in 0 .. MAX_RETRIES /\ faults' \in 0 .. MaxFaults
    BY <1>2, SizeAssumption, BoundAssumption DEF InsertRetry, WriterRetry, FailsOnce, TypeOK
  <2> QED
    BY <1>2, <2>1, <2>2 DEF InsertRetry, WriterRetry, TypeOK, RowsPerTable
<1>3. CASE InsertRaise(t, accepted)
  <2>1. RowsPerTable(stored') /\ RowsPerTable(twice')
    <3>1. CASE Accept(t)
      BY <3>1, AcceptType
    <3>2. CASE UNCHANGED tableVars
      BY <3>2 DEF TypeOK
    <3> QED
      BY <1>3, <3>1, <3>2 DEF InsertRaise, WriterRaise
  <2>2. /\ flushing' \in SUBSET Tables /\ attempt' \in 0 .. MAX_RETRIES
        /\ faults' \in 0 .. MaxFaults
    BY <1>3, SizeAssumption, BoundAssumption DEF InsertRaise, WriterRaise, FailsOnce, TypeOK
  <2>3. phase' \in Phases /\ polled' \in BOOLEAN /\ outgoing' \in SUBSET Rollup
    BY <1>3, FailType DEF InsertRaise, TypeOK
  <2> QED
    BY <1>3, <2>1, <2>2, <2>3 DEF InsertRaise, WriterRaise, TypeOK, RowsPerTable
<1> QED
  BY <1>1, <1>2, <1>3

\* Publishing rollups keeps every type.
LEMMA PublishType ==
  ASSUME TypeOK, NEW a \in outgoing, NEW accepted \in BOOLEAN,
         Publish(a) \/ PublishFails(a, accepted)
  PROVE  TypeOK'
<1> USE DEF kafkaVars, loopVars, windowVars, writerVars, tableVars, histVars
<1>1. phase' \in Phases /\ polled' \in BOOLEAN /\ outgoing' \in SUBSET Rollup
  <2>1. outgoing \ {a} \in SUBSET Rollup
    BY DEF TypeOK
  <2> QED
    BY <2>1, FailType, ResumeType DEF Publish, PublishFails
<1>2. alerts' \in SUBSET Rollup /\ faults' \in 0 .. MaxFaults
  BY BoundAssumption DEF Publish, PublishFails, FailsOnce, TypeOK
<1> QED
  BY <1>1, <1>2 DEF TypeOK, Publish, PublishFails, RowsPerTable

\* Committing keeps every type.
LEMMA CommitType ==
  ASSUME TypeOK, NEW accepted \in BOOLEAN, Commit \/ CommitFails(accepted)
  PROVE  TypeOK'
<1> USE DEF kafkaVars, loopVars, windowVars, writerVars, tableVars, histVars
<1>1. phase' \in Phases /\ polled' \in BOOLEAN /\ outgoing' \in SUBSET Rollup
  <2>1. CASE Commit
    <3>1. polled' \in BOOLEAN
      BY <2>1, Zenon DEF Commit
    <3> QED
      BY <2>1, <3>1 DEF Commit, TypeOK, Phases
  <2>2. CASE CommitFails(accepted)
    BY <2>2, FailType DEF CommitFails
  <2> QED
    BY <2>1, <2>2
<1>2. committed' \in [Partitions -> 0 .. MaxLog] /\ faults' \in 0 .. MaxFaults
  BY BoundAssumption DEF Commit, CommitFails, FailsOnce, TypeOK
<1> QED
  BY <1>1, <1>2 DEF TypeOK, Commit, CommitFails, RowsPerTable

\* Stopping keeps every type.
LEMMA StopType ==
  ASSUME TypeOK, Stop
  PROVE  TypeOK'
<1> USE DEF kafkaVars, loopVars, windowVars, writerVars, tableVars, histVars
<1> DEFINE rows == [t \in Tables |->
             IF t = "metric_rollups" THEN RollupsOf(windows, Open(windows)) ELSE {}]
<1>1. RollupsOf(windows, Open(windows)) \in SUBSET Rollup
  BY RollupsOfType DEF TypeOK, Open
<1>2. RowsPerTable(rows)
  BY <1>1 DEF RowsPerTable, Row, Tables, RecordTables, ReplacingTables
<1>3. RowsPerTable(buffers') /\ slot' \in [Tables -> Nat]
  BY <1>2, AddedToType, SlotsAfterType DEF Stop, AddRows, TypeOK
<1>4. elapsed' \in BOOLEAN /\ flushing' \in SUBSET Tables /\ attempt' \in 0 .. MAX_RETRIES
  BY BeginFlushType DEF Stop
<1>5. polled' \in BOOLEAN
  BY Zenon DEF Stop
<1>6. windows' \in [Keys -> SUBSET Event] /\ stops' \in 0 .. MaxStops
  BY BoundAssumption DEF Stop, TypeOK
<1> QED
  BY <1>3, <1>4, <1>5, <1>6 DEF Stop, TypeOK, Phases, RowsPerTable

\* The remaining steps keep every type.
LEMMA OtherType ==
  ASSUME TypeOK, Start \/ IntervalElapses \/ Retry \/ Crash \/ StopIdle \/ Exit
  PROVE  TypeOK'
<1> USE DEF kafkaVars, loopVars, windowVars, writerVars, tableVars, histVars
<1>1. CASE Start \/ Retry
  BY <1>1 DEF Start, Retry, TypeOK, RowsPerTable, Phases
<1>2. CASE IntervalElapses
  <2>1. elapsed' \in BOOLEAN
    BY <1>2, Zenon DEF IntervalElapses, WriterInterval
  <2> QED
    BY <1>2, <2>1 DEF IntervalElapses, WriterInterval, TypeOK, RowsPerTable
<1>3. CASE Crash \/ StopIdle \/ Exit
  <2>1. stops' \in 0 .. MaxStops
    BY <1>3, BoundAssumption DEF Crash, StopIdle, Exit, TypeOK
  <2> QED
    BY <1>3, <2>1, DieType DEF Crash, StopIdle, Exit
<1> QED
  BY <1>1, <1>2, <1>3

\* Every variable of the engine keeps its type, whatever fails and whenever
\* the process stops.
THEOREM TypeCorrect == Spec => []TypeOK
<1>1. TypeOK /\ [Next]_vars => TypeOK'
  <2> SUFFICES ASSUME TypeOK, [Next]_vars PROVE TypeOK'
    OBVIOUS
  <2>1. ASSUME NEW p \in Partitions, NEW m \in Messages, Produce(p, m) PROVE TypeOK'
    BY <2>1, ProduceType
  <2>2. CASE Poll
    BY <2>2, ProcessType, SkipType DEF Poll
  <2>3. CASE Inserts
    BY <2>3, InsertType DEF Inserts
  <2>4. CASE Publishes
    BY <2>4, PublishType DEF Publishes
  <2>5. CASE Commits
    BY <2>5, CommitType DEF Commits
  <2>6. CASE Stop
    BY <2>6, StopType
  <2>7. CASE Start \/ IntervalElapses \/ Retry \/ Crash \/ StopIdle \/ Exit
    BY <2>7, OtherType
  <2>8. CASE UNCHANGED vars
    BY <2>8 DEF vars, kafkaVars, loopVars, windowVars, writerVars, tableVars, histVars,
                TypeOK, RowsPerTable
  <2> QED
    BY <2>1, <2>2, <2>3, <2>4, <2>5, <2>6, <2>7, <2>8 DEF Next
<1> QED
  BY InitType, <1>1, PTL DEF Spec
(***************************************************************************)
(* What the engine can lose.  The invariant: the committed offset is never *)
(* ahead of the position, which is never ahead of the log; a flush has     *)
(* emptied every table it is done with; once the engine has decided not to *)
(* flush, or has flushed, the rows of records still buffered are fewer     *)
(* than BATCH_SIZE, and these are all that a commit can put at risk; a     *)
(* shutdown in progress has not lost anything yet.                         *)
(***************************************************************************)
OffsetsOrdered ==
  \A p \in Partitions : committed[p] <= position[p] /\ position[p] <= Len(log[p])

FlushedAreEmpty ==
  phase = "flush" => \A t \in Tables \ flushing : buffers[t] = {}

SettledIsSmall ==
  phase \in {"publish", "commit"} => Cardinality(Pending) < BATCH_SIZE

LossPerStop ==
  /\ phase = "closing" => stops >= 1
  /\ Cardinality(lost) <= (IF phase = "closing" THEN stops - 1 ELSE stops) * (BATCH_SIZE - 1)

IInv ==
  /\ TypeOK
  /\ OffsetsOrdered
  /\ FlushedAreEmpty
  /\ SettledIsSmall
  /\ Accounted
  /\ AtRiskBounded
  /\ LossPerStop

\* There are finitely many records.
LEMMA IdsFinite == IsFiniteSet(Ids)
<1>1. IsFiniteSet(Offsets)
  BY BoundAssumption, FS_Interval DEF Offsets
<1> QED
  BY <1>1, PartitionAssumption, FS_Product DEF Ids

\* The rows in buffers and tables are those of records.
LEMMA RowSets ==
  ASSUME TypeOK
  PROVE  Pending \in SUBSET Ids /\ Durable \in SUBSET Ids /\ AtRisk \in SUBSET Ids
<1>1. \A t \in RecordTables : buffers[t] \subseteq Ids /\ stored[t] \subseteq Ids
  BY DEF TypeOK, RowsPerTable, Row, Tables
<1> QED
  BY <1>1 DEF Pending, Durable, AtRisk

\* There are finitely many events.
LEMMA EventFinite == IsFiniteSet(Event)
<1> DEFINE D == (EventIds \X Services) \X Times
           f == [x \in D |-> [id |-> x[1][1], service |-> x[1][2], ts |-> x[2]]]
<1>1. IsFiniteSet(Times)
  BY TimeAssumption, FS_Interval DEF Times
<1>2. IsFiniteSet(EventIds)
  BY IdsFinite, IdAssumption
<1>3. IsFiniteSet(D)
  BY <1>1, <1>2, ServiceAssumption, FS_Product
<1>4. f \in Surjection(D, Event)
  <2>1. f \in [D -> Event]
    BY DEF Event
  <2>2. ASSUME NEW e \in Event PROVE \E x \in D : f[x] = e
    <3>1. <<<<e.id, e.service>>, e.ts>> \in D
      BY DEF Event
    <3>2. f[<<<<e.id, e.service>>, e.ts>>] = e
      BY <3>1 DEF Event
    <3> QED
      BY <3>1, <3>2
  <2> QED
    BY <2>1, <2>2 DEF Surjection
<1> QED
  BY <1>3, <1>4, FS_Surjection

\* There are finitely many rollups.
LEMMA RollupFinite == IsFiniteSet(Rollup)
<1> DEFINE D == Keys \X SUBSET Event
           f == [x \in D |-> [key |-> x[1], events |-> x[2]]]
<1>1. IsFiniteSet(Keys)
  <2>1. IsFiniteSet(Times)
    BY TimeAssumption, FS_Interval DEF Times
  <2> QED
    BY <2>1, ServiceAssumption, FS_Product DEF Keys
<1>2. IsFiniteSet(D)
  BY <1>1, EventFinite, FS_SUBSET, FS_Product
<1>3. f \in Surjection(D, Rollup)
  <2>1. f \in [D -> Rollup]
    BY DEF Rollup
  <2>2. ASSUME NEW r \in Rollup PROVE \E x \in D : f[x] = r
    <3>1. <<r.key, r.events>> \in D
      BY DEF Rollup
    <3>2. f[<<r.key, r.events>>] = r
      BY <3>1 DEF Rollup
    <3> QED
      BY <3>1, <3>2
  <2> QED
    BY <2>1, <2>2 DEF Surjection
<1> QED
  BY <1>2, <1>3, FS_Surjection

\* The rows of records are at most all the rows should_flush counts.
LEMMA PendingIsBuffered ==
  ASSUME NEW bufs, RowsPerTable(bufs)
  PROVE  /\ Cardinality(Buffered(bufs)) \in Nat
         /\ Cardinality(UNION {bufs[t] : t \in RecordTables}) <= Cardinality(Buffered(bufs))
         /\ Cardinality(UNION {bufs[t] : t \in RecordTables}) \in Nat
<1> DEFINE P == UNION {bufs[t] : t \in RecordTables}
           D == {x \in Buffered(bufs) : x[1] \in RecordTables}
           f == [x \in D |-> x[2]]
<1>1. IsFiniteSet(Ids \cup Rollup)
  BY IdsFinite, RollupFinite, FS_Union
<1>2. IsFiniteSet(Tables \X (Ids \cup Rollup))
  BY <1>1, TablesFinite, FS_Product
<1>3. Buffered(bufs) \in SUBSET (Tables \X (Ids \cup Rollup))
  BY DEF Buffered, RowsPerTable, Row
<1>4. IsFiniteSet(Buffered(bufs))
  BY <1>2, <1>3, FS_Subset
<1>5. D \in SUBSET Buffered(bufs)
  OBVIOUS
<1>6. IsFiniteSet(D) /\ Cardinality(D) <= Cardinality(Buffered(bufs))
  BY <1>4, <1>5, FS_Subset
<1>7. f \in Surjection(D, P)
  <2>1. \A x \in D : x[2] \in P
    BY DEF Buffered
  <2>2. ASSUME NEW r \in P PROVE \E x \in D : f[x] = r
    <3>1. PICK t \in RecordTables : r \in bufs[t]
      OBVIOUS
    <3>2. <<t, r>> \in D
      BY <3>1 DEF Buffered, Tables
    <3>3. f[<<t, r>>] = r
      BY <3>2
    <3> QED
      BY <3>2, <3>3
  <2>3. f \in [D -> P]
    BY <2>1
  <2> QED
    BY <2>2, <2>3 DEF Surjection
<1>8. IsFiniteSet(P) /\ Cardinality(P) <= Cardinality(D)
  BY <1>6, <1>7, FS_Surjection
<1>9. Cardinality(P) \in Nat /\ Cardinality(D) \in Nat /\ Cardinality(Buffered(bufs)) \in Nat
  BY <1>4, <1>6, <1>8, FS_CardinalityType
<1> HIDE DEF P, D
<1>10. Cardinality(P) <= Cardinality(Buffered(bufs))
  BY <1>6, <1>8, <1>9
<1> QED
  BY <1>9, <1>10 DEF P

\* A set of records smaller than one at risk before is at risk within bounds.
LEMMA RiskShrinks ==
  ASSUME TypeOK, NEW S \in SUBSET Ids, NEW T \in SUBSET S, Cardinality(S) < BATCH_SIZE
  PROVE  Cardinality(T) < BATCH_SIZE
<1>1. IsFiniteSet(S)
  BY IdsFinite, FS_Subset
<1>2. IsFiniteSet(T) /\ Cardinality(T) <= Cardinality(S)
  BY <1>1, FS_Subset
<1>3. Cardinality(T) \in Nat /\ Cardinality(S) \in Nat
  BY <1>1, <1>2, FS_CardinalityType
<1> QED
  BY <1>2, <1>3, SizeAssumption

\* The invariant holds at first.
LEMMA InitIInv == Init => IInv
<1> SUFFICES ASSUME Init PROVE IInv
  OBVIOUS
<1>1. TypeOK
  BY InitType
<1>2. OffsetsOrdered
  BY DEF Init, OffsetsOrdered
<1>3. FlushedAreEmpty /\ SettledIsSmall
  BY DEF Init, FlushedAreEmpty, SettledIsSmall
<1>4. Accounted
  BY DEF Init, Accounted, Polled, Ids, Offsets
<1>5. AtRisk = {} /\ lost = {} /\ phase = "down" /\ stops = 0
  BY DEF Init, AtRisk, Pending, WriterInit, RecordTables, Tables
<1>6. Cardinality(AtRisk) = 0 /\ Cardinality(lost) = 0
  BY <1>5, FS_EmptySet
<1>7. AtRiskBounded /\ LossPerStop
  BY <1>5, <1>6, SizeAssumption DEF AtRiskBounded, LossPerStop
<1> QED
  BY <1>1, <1>2, <1>3, <1>4, <1>7 DEF IInv

(***************************************************************************)
(* Steps that move rows from the buffers to the tables, or nothing at all: *)
(* nothing is polled, committed, skipped or lost.                          *)
(***************************************************************************)
LEMMA KeepsRows ==
  ASSUME IInv, TypeOK',
         UNCHANGED <<log, committed, position, skipped, lost, stops>>,
         phase' = "closing" <=> phase = "closing",
         Durable \subseteq Durable',
         Pending' \subseteq Pending,
         Pending \subseteq Pending' \cup Durable',
         FlushedAreEmpty', SettledIsSmall'
  PROVE  IInv'
<1>1. OffsetsOrdered' /\ LossPerStop'
  BY DEF IInv, OffsetsOrdered, LossPerStop
<1>2. Accounted'
  BY DEF IInv, Accounted, InLog, Polled, Readable, At
<1>3. AtRisk' \subseteq AtRisk
  BY DEF AtRisk, Committed
<1>4. AtRiskBounded'
  BY <1>3, RowSets, RiskShrinks DEF IInv, AtRiskBounded
<1> QED
  BY <1>1, <1>2, <1>4 DEF IInv

\* A step that leaves the rows and offsets alone keeps the invariant.
LEMMA QuietIInv ==
  ASSUME IInv, TypeOK',
         UNCHANGED <<log, committed, position, skipped, lost, stops, buffers, stored>>,
         phase' = "closing" <=> phase = "closing",
         phase' = "flush" => phase = "flush" /\ flushing' = flushing,
         phase' \in {"publish", "commit"} => phase \in {"publish", "commit"}
  PROVE  IInv'
<1>1. Pending' = Pending /\ Durable' = Durable
  BY DEF Pending, Durable
<1>2. FlushedAreEmpty' /\ SettledIsSmall'
  BY <1>1 DEF IInv, FlushedAreEmpty, SettledIsSmall
<1> QED
  BY <1>1, <1>2, KeepsRows

\* Accepting a batch moves no row out of a table.
LEMMA AcceptDurable ==
  ASSUME NEW t \in Tables, TypeOK, Accept(t)
  PROVE  /\ Durable \subseteq Durable'
         /\ t \in RecordTables => buffers[t] \subseteq Durable'
<1>1. \A u \in Tables : stored'[u] = IF u = t THEN Merge(t, stored[t], buffers[t]) ELSE stored[u]
  BY DEF Accept, TypeOK, RowsPerTable
<1>2. \A u \in RecordTables : u \notin ReplacingTables
  BY DEF RecordTables, ReplacingTables
<1>3. t \in RecordTables => stored'[t] = stored[t] \cup buffers[t]
  BY <1>1, <1>2 DEF Merge, Replaces
<1>4. \A u \in RecordTables : stored[u] \subseteq stored'[u]
  BY <1>1, <1>3 DEF Tables
<1> QED
  BY <1>3, <1>4 DEF Durable

\* An insert keeps the invariant: rows move from a buffer to a table.
LEMMA InsertIInv ==
  ASSUME IInv, NEW t \in Tables, NEW accepted \in BOOLEAN,
         InsertOk(t) \/ InsertRetry(t, accepted) \/ InsertRaise(t, accepted)
  PROVE  IInv'
<1>1. TypeOK /\ TypeOK'
  BY InsertType DEF IInv
<1>2. /\ UNCHANGED <<log, committed, position, skipped, lost, stops>>
      /\ phase \in {"flush", "closing"}
      /\ phase' = "closing" <=> phase = "closing"
      /\ phase' = "flush" => phase = "flush"
  BY DEF InsertOk, InsertRetry, InsertRaise, Fail, Resume, NextAwait, kafkaVars, histVars, loopVars
<1>3. CASE InsertOk(t)
  <2>1. Accept(t) /\ buffers' = [buffers EXCEPT ![t] = {}] /\ flushing' = flushing \ {t}
    BY <1>3 DEF InsertOk, WriterOk
  <2>2. Durable \subseteq Durable' /\ (t \in RecordTables => buffers[t] \subseteq Durable')
    BY <1>1, <2>1, AcceptDurable
  <2>3. \A u \in Tables : buffers'[u] = IF u = t THEN {} ELSE buffers[u]
    BY <1>1, <2>1 DEF TypeOK, RowsPerTable
  <2>4. Pending' \subseteq Pending /\ Pending \subseteq Pending' \cup Durable'
    BY <2>2, <2>3 DEF Pending, Tables
  <2>5. FlushedAreEmpty'
    BY <1>2, <2>1, <2>3 DEF IInv, FlushedAreEmpty
  <2>6. SettledIsSmall'
    <3> SUFFICES ASSUME phase' \in {"publish", "commit"} PROVE Cardinality(Pending') < BATCH_SIZE
      BY DEF SettledIsSmall
    <3>1. phase = "flush" /\ flushing' = {}
      BY <1>2, <1>3 DEF InsertOk
    <3>2. \A u \in Tables : buffers'[u] = {}
      BY <2>1, <2>3, <3>1 DEF IInv, FlushedAreEmpty
    <3>3. Pending' = {}
      BY <3>2 DEF Pending, Tables
    <3> QED
      BY <3>3, FS_EmptySet, SizeAssumption
  <2> QED
    BY <1>1, <1>2, <2>2, <2>4, <2>5, <2>6, KeepsRows
<1>4. CASE InsertRetry(t, accepted) \/ InsertRaise(t, accepted)
  <2>1. /\ UNCHANGED buffers
        /\ phase' \notin {"publish", "commit"}
        /\ phase' = "flush" => flushing' = flushing
    BY <1>2, <1>4 DEF InsertRetry, InsertRaise, WriterRetry, WriterRaise, Fail, loopVars
  <2>2. Pending' = Pending
    BY <2>1 DEF Pending
  <2>3. Durable \subseteq Durable'
    <3>1. CASE Accept(t)
      BY <1>1, <3>1, AcceptDurable
    <3>2. CASE UNCHANGED tableVars
      BY <3>2 DEF Durable, tableVars
    <3> QED
      BY <1>4, <3>1, <3>2 DEF InsertRetry, InsertRaise, WriterRetry, WriterRaise
  <2>4. FlushedAreEmpty' /\ SettledIsSmall'
    BY <1>2, <2>1 DEF IInv, FlushedAreEmpty, SettledIsSmall
  <2> QED
    BY <1>1, <1>2, <2>2, <2>3, <2>4, KeepsRows
<1> QED
  BY <1>3, <1>4

\* Publishing leaves the rows and offsets alone.
LEMMA QuietActions ==
  ASSUME IInv, NEW a \in outgoing, NEW accepted \in BOOLEAN,
         Publish(a) \/ PublishFails(a, accepted)
  PROVE  IInv'
<1>1. TypeOK'
  BY PublishType DEF IInv
<1>2. /\ UNCHANGED <<log, committed, position, skipped, lost, stops, buffers, stored>>
      /\ phase = "publish"
      /\ phase' \notin {"closing", "flush"}
  BY DEF Publish, PublishFails, Resume, NextAwait, Fail, histVars, tableVars, writerVars
<1> QED
  BY <1>1, <1>2, QuietIInv

\* The steps between batches keep the invariant.
LEMMA IdleActions ==
  ASSUME IInv, Start \/ Retry \/ IntervalElapses \/ UNCHANGED vars
  PROVE  IInv'
<1> USE DEF kafkaVars, loopVars, windowVars, writerVars, tableVars, histVars
<1>1. TypeOK'
  <2>1. CASE UNCHANGED vars
    BY <2>1 DEF vars, IInv, TypeOK, RowsPerTable
  <2> QED
    BY <2>1, OtherType DEF IInv
<1>2. UNCHANGED <<log, committed, position, skipped, lost, stops, buffers, stored>>
  BY DEF Start, Retry, IntervalElapses, WriterInterval, vars
<1>3. /\ phase' = "closing" <=> phase = "closing"
      /\ phase' = "flush" => phase = "flush" /\ flushing' = flushing
      /\ phase' \in {"publish", "commit"} => phase \in {"publish", "commit"}
  BY DEF Start, Retry, IntervalElapses, WriterInterval, vars
<1> QED
  BY <1>1, <1>2, <1>3, QuietIInv

\* Everything committed is polled, so a commit puts at risk only what is
\* buffered, which is little once the engine has settled.
LEMMA CommitIInv ==
  ASSUME IInv, NEW accepted \in BOOLEAN, Commit \/ CommitFails(accepted)
  PROVE  IInv'
<1> USE DEF kafkaVars, loopVars, windowVars, writerVars, tableVars, histVars
<1>1. TypeOK /\ TypeOK'
  BY CommitType DEF IInv
<1>2. /\ UNCHANGED <<log, position, skipped, lost, stops, buffers, stored>>
      /\ phase = "commit" /\ phase' \in {"poll", "backoff"}
      /\ committed' \in {position, committed}
  BY DEF Commit, CommitFails, Fail
<1>3. OffsetsOrdered'
  <2>1. \A p \in Partitions : position[p] \in Nat
    BY <1>1, BoundAssumption DEF TypeOK
  <2> QED
    BY <1>2, <2>1 DEF IInv, OffsetsOrdered
<1>4. FlushedAreEmpty' /\ SettledIsSmall' /\ LossPerStop'
  BY <1>2 DEF IInv, FlushedAreEmpty, SettledIsSmall, LossPerStop
<1>5. Pending' = Pending /\ Durable' = Durable
  BY <1>2 DEF Pending, Durable
<1>6. Accounted'
  BY <1>2, <1>5 DEF IInv, Accounted, InLog, Polled, Readable, At
<1>7. AtRiskBounded'
  <2>1. AtRisk' \in SUBSET Pending
    BY <1>5 DEF AtRisk
  <2>2. Pending \in SUBSET Ids /\ Cardinality(Pending) < BATCH_SIZE
    BY <1>1, <1>2, RowSets DEF IInv, SettledIsSmall
  <2> QED
    BY <1>1, <2>1, <2>2, RiskShrinks DEF AtRiskBounded
<1> QED
  BY <1>1, <1>3, <1>4, <1>6, <1>7 DEF IInv

\* A record that is produced is beyond every position.
LEMMA ProduceIInv ==
  ASSUME IInv, NEW p \in Partitions, NEW m \in Messages, Produce(p, m)
  PROVE  IInv'
<1> USE DEF kafkaVars, loopVars, windowVars, writerVars, tableVars, histVars
<1>1. TypeOK /\ TypeOK'
  BY ProduceType DEF IInv
<1>2. /\ UNCHANGED <<committed, position, phase, skipped, lost, stops, buffers, flushing, stored>>
      /\ log' = [log EXCEPT ![p] = Append(@, m)]
  BY DEF Produce
<1>3. ASSUME NEW q \in Partitions
      PROVE  /\ Len(log'[q]) >= Len(log[q])
             /\ \A i \in 1 .. Len(log[q]) : log'[q][i] = log[q][i]
  <2>1. log[q] \in Seq(Messages)
    BY <1>1 DEF TypeOK
  <2>2. log'[q] = IF q = p THEN Append(log[q], m) ELSE log[q]
    BY <1>1, <1>2 DEF TypeOK
  <2> QED
    BY <2>1, <2>2
<1>4. \A q \in Partitions : /\ position[q] \in Nat /\ position[q] <= Len(log[q])
                             /\ Len(log[q]) \in Nat /\ Len(log'[q]) \in Nat
  BY <1>1, BoundAssumption DEF IInv, OffsetsOrdered, TypeOK
<1>5. OffsetsOrdered'
  BY <1>2, <1>3, <1>4 DEF IInv, OffsetsOrdered
<1>6. Pending' = Pending /\ Durable' = Durable /\ AtRisk' = AtRisk
  BY <1>2 DEF Pending, Durable, AtRisk, Committed
<1>7. Accounted'
  <2> SUFFICES ASSUME NEW r \in Ids, InLog(r)', Polled(r)', Readable(r)'
               PROVE  r \in Pending' \cup Durable' \cup skipped' \cup lost'
    BY DEF Accounted
  <2>1. r[1] \in Partitions /\ r[2] \in Nat /\ r[2] >= 1
    BY BoundAssumption DEF Ids, Offsets
  <2>2. Polled(r) /\ InLog(r)
    BY <1>2, <1>4, <2>1 DEF Polled, InLog
  <2>3. Readable(r)
    BY <1>3, <1>4, <2>1, <2>2 DEF Readable, At, InLog
  <2> QED
    BY <1>2, <1>6, <2>2, <2>3 DEF IInv, Accounted
<1>8. FlushedAreEmpty' /\ SettledIsSmall' /\ LossPerStop' /\ AtRiskBounded'
  BY <1>2, <1>6 DEF IInv, FlushedAreEmpty, SettledIsSmall, LossPerStop, AtRiskBounded
<1> QED
  BY <1>1, <1>5, <1>7, <1>8 DEF IInv

(***************************************************************************)
(* A poll: what it returns ends up in the buffers or in skipped.           *)
(***************************************************************************)
LEMMA PolledAfter ==
  ASSUME IInv, NEW new \in [Partitions -> 0 .. MaxLog], Fetch(new), UNCHANGED <<log, committed>>
  PROVE  /\ OffsetsOrdered'
         /\ \A r \in Ids : Polled(r)' => Polled(r) \/ r \in Batch(new)
         /\ \A r \in Batch(new) : ~Committed(r)
<1>1. \A p \in Partitions : /\ committed[p] \in Nat /\ position[p] \in Nat /\ new[p] \in Nat
                            /\ Len(log[p]) \in Nat
                            /\ committed[p] <= position[p]
                            /\ position[p] <= new[p] /\ new[p] <= Len(log[p])
  BY BoundAssumption DEF IInv, TypeOK, OffsetsOrdered, Fetch
<1>2. OffsetsOrdered'
  BY <1>1 DEF OffsetsOrdered, Fetch
<1>3. \A r \in Ids : r[1] \in Partitions /\ r[2] \in Nat
  BY BoundAssumption DEF Ids, Offsets
<1>4. \A r \in Ids : Polled(r)' => Polled(r) \/ r \in Batch(new)
  BY <1>1, <1>3 DEF Polled, Batch, Fetch
<1>5. \A r \in Batch(new) : ~Committed(r)
  BY <1>1, <1>3 DEF Batch, Committed
<1> QED
  BY <1>2, <1>4, <1>5

\* A batch that raises before anything is written keeps the invariant.
LEMMA SkipIInv ==
  ASSUME IInv, NEW new \in [Partitions -> 0 .. MaxLog], Undecodable(new) \/ Malformed(new)
  PROVE  IInv'
<1> USE DEF kafkaVars, loopVars, windowVars, writerVars, tableVars, histVars
<1>1. TypeOK /\ TypeOK'
  BY SkipType DEF IInv
<1>2. /\ Fetch(new)
      /\ UNCHANGED <<log, committed, buffers, stored, lost, stops>>
      /\ skipped' = skipped \cup {r \in Batch(new) : Readable(r)}
      /\ phase = "poll" /\ phase' = "backoff"
  BY DEF Undecodable, Malformed, Fail, Fetch
<1>3. Pending' = Pending /\ Durable' = Durable /\ AtRisk' = AtRisk
  BY <1>2 DEF Pending, Durable, AtRisk, Committed
<1>4. Accounted'
  BY <1>2, <1>3, PolledAfter DEF IInv, Accounted, InLog, Readable, At
<1>5. FlushedAreEmpty' /\ SettledIsSmall' /\ LossPerStop' /\ AtRiskBounded'
  BY <1>2, <1>3 DEF IInv, FlushedAreEmpty, SettledIsSmall, LossPerStop, AtRiskBounded
<1> QED
  BY <1>1, <1>2, <1>4, <1>5, PolledAfter DEF IInv

\* A table outside ReplacingTables only gains rows from add().
LEMMA AddedRecords ==
  ASSUME NEW bufs, NEW batch, NEW t \in RecordTables
  PROVE  AddedTo(bufs, batch)[t] = bufs[t] \cup batch[t]
<1>1. t \in Tables /\ t \notin ReplacingTables
  BY DEF RecordTables, ReplacingTables, Tables
<1> QED
  BY <1>1 DEF AddedTo, Merge, Replaces

\* Processing a batch keeps the invariant: its rows join the buffers.
LEMMA ProcessIInv ==
  ASSUME IInv, NEW new \in [Partitions -> 0 .. MaxLog], Process(new)
  PROVE  IInv'
<1> USE DEF kafkaVars, loopVars, windowVars, writerVars, tableVars, histVars
<1>1. TypeOK /\ TypeOK'
  BY ProcessType DEF IInv
<1>2. PICK rollups, anomalies :
        /\ AddRows([t \in Tables |->
             CASE t = "metric_rollups" -> rollups
               [] t = "anomalies" -> anomalies
               [] OTHER -> RowsIn(Batch(new), t)])
        /\ IF ShouldFlush(buffers') \/ rollups # {}
           THEN BeginFlush(buffers') /\ phase' = "flush"
           ELSE phase' = NextAwait(anomalies, Batch(new) # {})
  BY DEF Process
<1>3. Fetch(new) /\ UNCHANGED <<log, committed, stored, skipped, lost, stops>>
  BY DEF Process
<1>4. phase = "poll" /\ phase' \in {"flush", "publish", "commit", "poll"}
  BY <1>2, <1>3 DEF Fetch, NextAwait
<1>5. \A t \in RecordTables : buffers'[t] = buffers[t] \cup RowsIn(Batch(new), t)
  <2> DEFINE rows == [t \in Tables |->
               CASE t = "metric_rollups" -> rollups
                 [] t = "anomalies" -> anomalies
                 [] OTHER -> RowsIn(Batch(new), t)]
  <2>1. \A t \in RecordTables : rows[t] = RowsIn(Batch(new), t)
    BY DEF RecordTables, Tables
  <2>2. buffers' = AddedTo(buffers, rows)
    BY <1>2 DEF AddRows
  <2> HIDE DEF rows
  <2> QED
    BY <2>1, <2>2, AddedRecords
<1>6. \A r \in Batch(new) : Readable(r) => TableOf(At(r).kind) \in RecordTables
  BY DEF Readable, YieldsRow, TableOf, RecordTables
<1>7. /\ Pending \subseteq Pending'
      /\ Pending' \subseteq Pending \cup Batch(new)
      /\ \A r \in Batch(new) : Readable(r) => r \in Pending'
  BY <1>5, <1>6 DEF Pending, RowsIn
<1>8. Durable' = Durable
  BY <1>3 DEF Durable
<1>9. Accounted'
  BY <1>3, <1>7, <1>8, PolledAfter DEF IInv, Accounted, InLog, Readable, At
<1>10. AtRiskBounded'
  <2>1. AtRisk' \in SUBSET AtRisk
    BY <1>3, <1>7, <1>8, PolledAfter DEF AtRisk, Committed
  <2> QED
    BY <1>1, <2>1, RowSets, RiskShrinks DEF IInv, AtRiskBounded
<1>11. FlushedAreEmpty'
  BY <1>2, <1>4 DEF FlushedAreEmpty, BeginFlush, NonEmpty, NextAwait
<1>12. SettledIsSmall'
  <2> SUFFICES ASSUME phase' \in {"publish", "commit"} PROVE Cardinality(Pending') < BATCH_SIZE
    BY DEF SettledIsSmall
  <2>1. RowsPerTable(buffers')
    BY <1>1 DEF TypeOK
  <2>2. ~ShouldFlush(buffers')
    BY <1>2
  <2>3. CASE NonEmpty(buffers') = {}
    <3>1. Pending' = {}
      BY <2>3 DEF NonEmpty, Pending, Tables
    <3> QED
      BY <3>1, FS_EmptySet, SizeAssumption
  <2>4. CASE ~(Cardinality(Buffered(buffers')) >= BATCH_SIZE)
    <3>1. Pending' = UNION {buffers'[t] : t \in RecordTables}
      BY DEF Pending
    <3>2. /\ Cardinality(Buffered(buffers')) \in Nat /\ Cardinality(Pending') \in Nat
          /\ Cardinality(Pending') <= Cardinality(Buffered(buffers'))
      BY <2>1, <3>1, PendingIsBuffered
    <3> QED
      BY <2>4, <3>2, SizeAssumption
  <2> QED
    BY <2>2, <2>3, <2>4 DEF ShouldFlush
<1>13. LossPerStop'
  BY <1>3, <1>4 DEF IInv, LossPerStop
<1> QED
  BY <1>1, <1>3, <1>9, <1>10, <1>11, <1>12, <1>13, PolledAfter DEF IInv

(***************************************************************************)
(* The end of a process.                                                   *)
(***************************************************************************)
LEMMA StopIInv ==
  ASSUME IInv, Stop
  PROVE  IInv'
<1> USE DEF kafkaVars, loopVars, windowVars, writerVars, tableVars, histVars
<1>1. TypeOK /\ TypeOK'
  BY StopType DEF IInv
<1>2. /\ UNCHANGED <<log, committed, position, stored, skipped, lost>>
      /\ phase # "closing" /\ phase' = "closing" /\ stops' = stops + 1
  BY DEF Stop
<1>3. \A t \in RecordTables : buffers'[t] = buffers[t]
  <2> DEFINE rows == [t \in Tables |->
               IF t = "metric_rollups" THEN RollupsOf(windows, Open(windows)) ELSE {}]
  <2>1. \A t \in RecordTables : rows[t] = {}
    BY DEF RecordTables, Tables
  <2>2. buffers' = AddedTo(buffers, rows)
    BY DEF Stop, AddRows
  <2> HIDE DEF rows
  <2>3. \A t \in RecordTables : buffers'[t] = buffers[t] \cup rows[t]
    BY <2>2, AddedRecords
  <2> QED
    BY <2>1, <2>3
<1>4. Pending' = Pending /\ Durable' = Durable /\ AtRisk' = AtRisk
  BY <1>2, <1>3 DEF Pending, Durable, AtRisk, Committed
<1>5. LossPerStop'
  <2>1. stops \in Nat
    BY <1>1, BoundAssumption DEF TypeOK
  <2>2. stops' - 1 = stops /\ stops' >= 1
    BY <1>2, <2>1
  <2> QED
    BY <1>2, <2>2 DEF IInv, LossPerStop
<1>6. OffsetsOrdered' /\ FlushedAreEmpty' /\ SettledIsSmall'
  BY <1>2 DEF IInv, OffsetsOrdered, FlushedAreEmpty, SettledIsSmall
<1>7. Accounted' /\ AtRiskBounded'
  BY <1>2, <1>4 DEF IInv, Accounted, AtRiskBounded, InLog, Polled, Readable, At
<1> QED
  BY <1>1, <1>5, <1>6, <1>7 DEF IInv

\* A process that ends adds to what is lost the rows at risk, fewer than
\* BATCH_SIZE.
LEMMA DieIInv ==
  ASSUME IInv, Crash \/ StopIdle \/ Exit
  PROVE  IInv'
<1>1. TypeOK /\ TypeOK'
  BY OtherType DEF IInv
<1>2. /\ UNCHANGED <<log, committed, stored>>
      /\ phase' = "down" /\ position' = committed
      /\ buffers' = [t \in Tables |-> {}]
      /\ lost' = lost \cup AtRisk
      /\ skipped' = {r \in skipped : Committed(r)}
  BY DEF Crash, StopIdle, Exit, Die
<1>3. Pending' = {} /\ Durable' = Durable /\ AtRisk' = {}
  BY <1>2 DEF Pending, Durable, AtRisk, RecordTables, Tables
<1>4. AtRiskBounded'
  BY <1>3, FS_EmptySet, SizeAssumption DEF AtRiskBounded
<1>5. \A p \in Partitions : /\ committed[p] \in Nat /\ position[p] \in Nat /\ Len(log[p]) \in Nat
                            /\ committed[p] <= position[p] /\ position[p] <= Len(log[p])
  BY <1>1, BoundAssumption DEF IInv, OffsetsOrdered, TypeOK
<1>6. OffsetsOrdered'
  BY <1>2, <1>5 DEF OffsetsOrdered
<1>7. Accounted'
  <2> SUFFICES ASSUME NEW r \in Ids, InLog(r)', Polled(r)', Readable(r)'
               PROVE  r \in Durable' \cup skipped' \cup lost'
    BY DEF Accounted
  <2>1. r[1] \in Partitions /\ r[2] \in Nat
    BY BoundAssumption DEF Ids, Offsets
  <2>2. InLog(r) /\ Readable(r) /\ Committed(r)
    BY <1>2 DEF InLog, Polled, Committed, Readable, At
  <2>3. Polled(r)
    BY <1>5, <2>1, <2>2 DEF Polled, Committed
  <2>4. r \in Pending \cup Durable \cup skipped \cup lost
    BY <2>2, <2>3 DEF IInv, Accounted
  <2> QED
    BY <1>2, <1>3, <2>2, <2>4 DEF AtRisk
<1>8. LossPerStop'
  <2>1. IsFiniteSet(lost) /\ IsFiniteSet(AtRisk)
    BY <1>1, IdsFinite, RowSets, FS_Subset DEF TypeOK
  <2>2. IsFiniteSet(lost \cup AtRisk) /\ IsFiniteSet(lost \cap AtRisk)
    BY <2>1, FS_Union, FS_Intersection
  <2>3. Cardinality(lost \cup AtRisk) = Cardinality(lost) + Cardinality(AtRisk) - Cardinality(lost \cap AtRisk)
    BY <2>1, FS_Union
  <2>4. /\ Cardinality(lost) \in Nat /\ Cardinality(AtRisk) \in Nat
        /\ Cardinality(lost \cap AtRisk) \in Nat /\ Cardinality(lost \cup AtRisk) \in Nat
    BY <2>1, <2>2, FS_CardinalityType
  <2>5. Cardinality(lost') <= Cardinality(lost) + (BATCH_SIZE - 1)
    BY <1>2, <2>3, <2>4, SizeAssumption DEF IInv, AtRiskBounded
  <2> DEFINE before == IF phase = "closing" THEN stops - 1 ELSE stops
  <2>6. before \in Nat /\ stops' \in {before + 1, before + 2} /\ phase' # "closing"
    <3>1. stops \in Nat
      BY <1>1, BoundAssumption DEF TypeOK
    <3>2. phase = "closing" => stops >= 1
      BY DEF IInv, LossPerStop
    <3>3. stops' = stops + 1 \/ (phase = "closing" /\ stops' = stops)
      <4>1. CASE Crash
        BY <4>1 DEF Crash
      <4> QED
        BY <4>1 DEF StopIdle, Exit
    <3>4. CASE stops' = stops + 1
      BY <1>2, <3>1, <3>2, <3>4
    <3>5. CASE phase = "closing" /\ stops' = stops
      BY <1>2, <3>1, <3>2, <3>5
    <3> QED
      BY <3>3, <3>4, <3>5
  <2>7. Cardinality(lost) <= before * (BATCH_SIZE - 1)
    BY DEF IInv, LossPerStop
  <2> HIDE DEF before
  <2>8. /\ (before + 1) * (BATCH_SIZE - 1) = before * (BATCH_SIZE - 1) + (BATCH_SIZE - 1)
        /\ (before + 2) * (BATCH_SIZE - 1)
             = before * (BATCH_SIZE - 1) + (BATCH_SIZE - 1) + (BATCH_SIZE - 1)
    BY <2>6, SizeAssumption
  <2>9. before * (BATCH_SIZE - 1) \in Int /\ BATCH_SIZE - 1 \in Nat
    BY <2>6, SizeAssumption
  <2>10. Cardinality(lost') <= stops' * (BATCH_SIZE - 1)
    <3> DEFINE b == before * (BATCH_SIZE - 1)
    <3>1. Cardinality(lost') \in Nat
      BY <1>2, <2>4
    <3>2. \/ stops' * (BATCH_SIZE - 1) = b + (BATCH_SIZE - 1)
          \/ stops' * (BATCH_SIZE - 1) = b + (BATCH_SIZE - 1) + (BATCH_SIZE - 1)
      BY <2>6, <2>8
    <3>3. Cardinality(lost) <= b /\ b \in Int
      BY <2>7, <2>9
    <3> HIDE DEF b
    <3> QED
      BY <2>4, <2>5, <2>9, <3>1, <3>2, <3>3
  <2> QED
    BY <2>6, <2>10 DEF LossPerStop
<1>9. FlushedAreEmpty' /\ SettledIsSmall'
  BY <1>2 DEF FlushedAreEmpty, SettledIsSmall
<1> QED
  BY <1>1, <1>4, <1>6, <1>7, <1>8, <1>9 DEF IInv

\* IInv holds in every reachable state.
THEOREM Inductive == Spec => []IInv
<1>1. IInv /\ [Next]_vars => IInv'
  <2> SUFFICES ASSUME IInv, [Next]_vars PROVE IInv'
    OBVIOUS
  <2>1. ASSUME NEW p \in Partitions, NEW m \in Messages, Produce(p, m) PROVE IInv'
    BY <2>1, ProduceIInv
  <2>2. CASE Poll
    BY <2>2, ProcessIInv, SkipIInv DEF Poll
  <2>3. CASE Inserts
    BY <2>3, InsertIInv DEF Inserts
  <2>4. CASE Publishes
    BY <2>4, QuietActions DEF Publishes
  <2>5. CASE Commits
    BY <2>5, CommitIInv DEF Commits
  <2>6. CASE Start \/ Retry \/ IntervalElapses \/ UNCHANGED vars
    BY <2>6, IdleActions
  <2>7. CASE Stop
    BY <2>7, StopIInv
  <2>8. CASE Crash \/ StopIdle \/ Exit
    BY <2>8, DieIInv
  <2> QED
    BY <2>1, <2>2, <2>3, <2>4, <2>5, <2>6, <2>7, <2>8 DEF Next
<1> QED
  BY InitIInv, <1>1, PTL DEF Spec

\* Every record that was polled and can yield a row is in a table, in the
\* buffers, among those whose batch raised, or among those that died with a
\* process after their offset was committed.
THEOREM NothingUnaccounted == Spec => []Accounted
<1>1. IInv => Accounted
  BY DEF IInv
<1> QED
  BY Inductive, <1>1, PTL

\* The committed records only the buffers hold are fewer than BATCH_SIZE.
THEOREM RiskBounded == Spec => []AtRiskBounded
<1>1. IInv => AtRiskBounded
  BY DEF IInv
<1> QED
  BY Inductive, <1>1, PTL

\* At most BATCH_SIZE - 1 rows are lost with each process that ends.
THEOREM LossIsBounded == Spec => []LossBounded
<1>1. IInv => LossBounded
  <2> SUFFICES ASSUME IInv PROVE LossBounded
    OBVIOUS
  <2>1. stops \in Nat /\ Cardinality(lost) \in Nat
    <3>1. IsFiniteSet(lost)
      BY IdsFinite, FS_Subset DEF IInv, TypeOK
    <3> QED
      BY <3>1, FS_CardinalityType, BoundAssumption DEF IInv, TypeOK
  <2>2. CASE phase # "closing"
    BY <2>2 DEF IInv, LossPerStop, LossBounded
  <2>3. CASE phase = "closing"
    <3>1. Cardinality(lost) <= (stops - 1) * (BATCH_SIZE - 1) /\ stops - 1 \in Int
      BY <2>1, <2>3 DEF IInv, LossPerStop
    <3>2. (stops - 1) * (BATCH_SIZE - 1) = stops * (BATCH_SIZE - 1) - (BATCH_SIZE - 1)
      BY <2>1, SizeAssumption
    <3> DEFINE b == stops * (BATCH_SIZE - 1)
    <3>3. b \in Int
      BY <2>1, SizeAssumption
    <3>4. Cardinality(lost) <= b - (BATCH_SIZE - 1)
      BY <3>1, <3>2
    <3> HIDE DEF b
    <3>5. Cardinality(lost) <= b
      BY <2>1, <3>3, <3>4, SizeAssumption
    <3> QED
      BY <3>5 DEF b, LossBounded
  <2> QED
    BY <2>2, <2>3
<1> QED
  BY Inductive, <1>1, PTL

\* The committed offset of a partition never moves back and never passes the
\* position.
THEOREM OffsetsMonotone == Spec => CommittedMonotone
<1> DEFINE Step == \A p \in Partitions : committed[p] <= committed'[p] /\ committed'[p] <= position'[p]
<1> USE DEF kafkaVars, loopVars, windowVars, writerVars, tableVars, histVars
<1>1. IInv /\ IInv' /\ [Next]_vars => [Step]_vars
  <2> SUFFICES ASSUME IInv, IInv', Next PROVE Step
    BY DEF vars
  <2>1. \A p \in Partitions : committed'[p] <= position'[p]
    BY DEF IInv, OffsetsOrdered
  <2>2. \A p \in Partitions : /\ committed[p] \in Nat /\ committed[p] <= position[p]
    BY BoundAssumption DEF IInv, TypeOK, OffsetsOrdered
  <2>3. committed' = committed \/ committed' = position
    <3>1. CASE Commits
      BY <3>1 DEF Commits, Commit, CommitFails
    <3>2. CASE Inserts \/ Publishes
      BY <3>2 DEF Inserts, InsertOk, InsertRetry, InsertRaise, Publishes, Publish, PublishFails
    <3>3. CASE Poll
      BY <3>3 DEF Poll, Process, Undecodable, Malformed
    <3>4. CASE Start \/ IntervalElapses \/ Retry \/ Stop
      BY <3>4 DEF Start, IntervalElapses, Retry, Stop
    <3>5. CASE Crash \/ StopIdle \/ Exit
      BY <3>5 DEF Crash, StopIdle, Exit, Die
    <3>6. CASE \E p \in Partitions, m \in Messages : Produce(p, m)
      BY <3>6 DEF Produce
    <3> QED
      BY <3>1, <3>2, <3>3, <3>4, <3>5, <3>6 DEF Next
  <2> QED
    BY <2>1, <2>2, <2>3
<1> QED
  BY Inductive, <1>1, PTL DEF Spec, CommittedMonotone

(***************************************************************************)
(* The refinement of AtLeastOnce.  A row, buffered or stored, is the row   *)
(* of a record of the log; what is lost was committed; what was skipped    *)
(* was polled; and of the records skipped since the last commit there are  *)
(* at most a batch less one for each that raised.                          *)
(***************************************************************************)
RowsHaveRecords == \A r \in Pending \cup Durable : InLog(r)

\* Records that no commit has passed yet: skipped ones, and those that raised.
Unsettled == {r \in skipped : ~Committed(r)}
Spoilers  == {r \in Ids : Polled(r) /\ ~Committed(r) /\ Raises(At(r))}

Toll ==
  /\ \A r \in lost : Committed(r)
  /\ \A r \in skipped : Polled(r)
  /\ Cardinality(Unsettled) <= (BATCH_SIZE - 1) * Cardinality(Spoilers)

\* Sets of records have sizes, and a smaller set a smaller one.
LEMMA Sizes ==
  ASSUME NEW T \in SUBSET Ids, NEW S \in SUBSET T
  PROVE  /\ IsFiniteSet(S) /\ IsFiniteSet(T)
         /\ Cardinality(S) \in Nat /\ Cardinality(T) \in Nat
         /\ Cardinality(S) <= Cardinality(T)
<1>1. IsFiniteSet(T)
  BY IdsFinite, FS_Subset
<1>2. IsFiniteSet(S) /\ Cardinality(S) <= Cardinality(T)
  BY <1>1, FS_Subset
<1> QED
  BY <1>1, <1>2, FS_CardinalityType

LEMMA Multiples ==
  ASSUME NEW a \in Nat, NEW b \in Nat, NEW c \in Nat, a <= b
  PROVE  c * a <= c * b /\ c * a \in Nat /\ c * b \in Nat
<1>1. b - a \in Nat /\ c * b = c * a + c * (b - a) /\ c * a \in Nat
  OBVIOUS
<1>2. c * (b - a) \in Nat
  BY <1>1
<1> QED
  BY <1>1, <1>2

\* A record that was polled or committed is in the log.
LEMMA OldIsInLog ==
  ASSUME IInv, NEW r \in Ids
  PROVE  /\ Polled(r) => InLog(r)
         /\ Committed(r) => Polled(r)
<1>1. r[1] \in Partitions /\ r[2] \in Nat
  BY BoundAssumption DEF Ids, Offsets
<1>2. /\ committed[r[1]] \in Nat /\ position[r[1]] \in Nat /\ Len(log[r[1]]) \in Nat
      /\ committed[r[1]] <= position[r[1]] /\ position[r[1]] <= Len(log[r[1]])
  BY <1>1, BoundAssumption DEF IInv, TypeOK, OffsetsOrdered
<1> QED
  BY <1>1, <1>2 DEF Polled, Committed, InLog

\* The log only grows.
LEMMA LogGrows ==
  ASSUME TypeOK, \/ UNCHANGED log
                 \/ \E p \in Partitions, m \in Messages : log' = [log EXCEPT ![p] = Append(@, m)]
  PROVE  \A r \in Ids : InLog(r) => InLog(r)' /\ At(r)' = At(r)
<1> SUFFICES ASSUME NEW r \in Ids, InLog(r) PROVE InLog(r)' /\ At(r)' = At(r)
  OBVIOUS
<1>1. r[1] \in Partitions /\ r[2] \in Nat /\ r[2] >= 1
  BY BoundAssumption DEF Ids, Offsets
<1>2. CASE UNCHANGED log
  BY <1>2 DEF InLog, At
<1>3. CASE \E p \in Partitions, m \in Messages : log' = [log EXCEPT ![p] = Append(@, m)]
  <2>1. PICK p \in Partitions, m \in Messages : log' = [log EXCEPT ![p] = Append(@, m)]
    BY <1>3
  <2>2. log[r[1]] \in Seq(Messages)
    BY <1>1 DEF TypeOK
  <2>3. log'[r[1]] = IF r[1] = p THEN Append(log[r[1]], m) ELSE log[r[1]]
    BY <1>1, <2>1 DEF TypeOK
  <2> QED
    BY <1>1, <2>2, <2>3 DEF InLog, At
<1> QED
  BY <1>2, <1>3

\* A step whose rows were all in the buffers or tables before, and which does
\* not shorten the log, adds no row without a record.
LEMMA NoNewRows ==
  ASSUME RowsHaveRecords, Pending' \cup Durable' \subseteq Pending \cup Durable, UNCHANGED log
  PROVE  RowsHaveRecords'
BY DEF RowsHaveRecords, InLog

\* An insert moves rows to the tables that were in a buffer, and none out, and
\* what leaves a buffer is in a table.
LEMMA InsertMoves ==
  ASSUME IInv, NEW t \in Tables, NEW accepted \in BOOLEAN,
         InsertOk(t) \/ InsertRetry(t, accepted) \/ InsertRaise(t, accepted)
  PROVE  /\ Pending' \subseteq Pending
         /\ Durable \subseteq Durable' /\ Durable' \subseteq Durable \cup Pending
         /\ Pending \subseteq Pending' \cup Durable'
         /\ UNCHANGED <<log, committed>>
<1> USE DEF kafkaVars, loopVars, windowVars, writerVars, tableVars, histVars
<1>1. UNCHANGED <<log, committed>>
  BY DEF InsertOk, InsertRetry, InsertRaise
<1>2. Pending' \subseteq Pending
  <2>1. \A u \in Tables : buffers'[u] \subseteq buffers[u]
    BY DEF InsertOk, InsertRetry, InsertRaise, WriterOk, WriterRetry, WriterRaise,
           IInv, TypeOK, RowsPerTable
  <2> QED
    BY <2>1 DEF Pending, Tables
<1>3. Accept(t) \/ UNCHANGED stored
  BY DEF InsertOk, InsertRetry, InsertRaise, WriterOk, WriterRetry, WriterRaise
<1>4. Durable \subseteq Durable' /\ Durable' \subseteq Durable \cup Pending
  <2>1. CASE Accept(t)
    <3>1. Durable \subseteq Durable'
      BY <2>1, AcceptDurable DEF IInv
    <3>2. \A u \in RecordTables : stored'[u] \subseteq stored[u] \cup buffers[u]
      BY <2>1 DEF Accept, Merge, Tables, IInv, TypeOK, RowsPerTable
    <3> QED
      BY <3>1, <3>2 DEF Durable, Pending
  <2>2. CASE UNCHANGED stored
    BY <2>2 DEF Durable
  <2> QED
    BY <1>3, <2>1, <2>2
<1>5. Pending \subseteq Pending' \cup Durable'
  <2>1. CASE UNCHANGED buffers
    BY <2>1 DEF Pending
  <2>2. CASE Accept(t) /\ buffers' = [buffers EXCEPT ![t] = {}]
    <3>1. t \in RecordTables => buffers[t] \subseteq Durable'
      BY <2>2, AcceptDurable DEF IInv
    <3>2. \A u \in RecordTables : buffers'[u] = IF u = t THEN {} ELSE buffers[u]
      BY <2>2 DEF IInv, TypeOK, RowsPerTable, Tables
    <3> QED
      BY <3>1, <3>2 DEF Pending
  <2> QED
    BY <2>1, <2>2 DEF InsertOk, InsertRetry, InsertRaise, WriterOk, WriterRetry, WriterRaise
<1> QED
  BY <1>1, <1>2, <1>4, <1>5

\* Processing a batch buffers the rows of the batch, and stores none.
LEMMA ProcessMoves ==
  ASSUME IInv, NEW new \in [Partitions -> 0 .. MaxLog], Process(new)
  PROVE  /\ Pending \subseteq Pending' /\ Pending' \subseteq Pending \cup Batch(new)
         /\ UNCHANGED <<log, committed, stored>>
<1>1. PICK rollups, anomalies :
        AddRows([t \in Tables |->
           CASE t = "metric_rollups" -> rollups
             [] t = "anomalies" -> anomalies
             [] OTHER -> RowsIn(Batch(new), t)])
  BY DEF Process
<1> DEFINE rows == [t \in Tables |->
             CASE t = "metric_rollups" -> rollups
               [] t = "anomalies" -> anomalies
               [] OTHER -> RowsIn(Batch(new), t)]
<1>2. \A t \in RecordTables : rows[t] \subseteq Batch(new)
  BY DEF RecordTables, Tables, RowsIn
<1>3. buffers' = AddedTo(buffers, rows)
  BY <1>1 DEF AddRows
<1> HIDE DEF rows
<1>4. \A t \in RecordTables :
        buffers[t] \subseteq buffers'[t] /\ buffers'[t] \subseteq buffers[t] \cup Batch(new)
  BY <1>2, <1>3, AddedRecords
<1> QED
  BY <1>4 DEF Pending, Process, kafkaVars, tableVars

\* Every row is the row of a record of the log, after every step.
LEMMA RowsHaveRecordsStep ==
  ASSUME IInv, RowsHaveRecords, [Next]_vars
  PROVE  RowsHaveRecords'
<1> USE DEF kafkaVars, loopVars, windowVars, writerVars, tableVars, histVars
<1>1. CASE \E p \in Partitions, m \in Messages : Produce(p, m)
  <2>1. PICK p \in Partitions, m \in Messages : Produce(p, m)
    BY <1>1
  <2>2. /\ log' = [log EXCEPT ![p] = Append(@, m)] /\ UNCHANGED <<buffers, stored>>
    BY <2>1 DEF Produce
  <2>3. \A q \in Partitions : Len(log[q]) \in Nat /\ Len(log'[q]) \in Nat /\ Len(log[q]) <= Len(log'[q])
    <3> SUFFICES ASSUME NEW q \in Partitions
                 PROVE  Len(log[q]) \in Nat /\ Len(log'[q]) \in Nat /\ Len(log[q]) <= Len(log'[q])
      OBVIOUS
    <3>1. log[q] \in Seq(Messages)
      BY DEF IInv, TypeOK
    <3>2. log'[q] = IF q = p THEN Append(log[q], m) ELSE log[q]
      BY <2>2 DEF IInv, TypeOK
    <3> QED
      BY <3>1, <3>2
  <2>4. Pending' = Pending /\ Durable' = Durable
    BY <2>2 DEF Pending, Durable
  <2>5. \A r \in Pending \cup Durable : r[1] \in Partitions /\ r[2] \in Nat
    BY RowSets, BoundAssumption DEF IInv, Ids, Offsets
  <2> QED
    BY <2>3, <2>4, <2>5 DEF RowsHaveRecords, InLog
<1>2. CASE Poll
  <2>1. PICK new \in [Partitions -> 0 .. MaxLog] : Process(new) \/ Undecodable(new) \/ Malformed(new)
    BY <1>2 DEF Poll
  <2>2. CASE Process(new)
    <3>1. \A r \in Batch(new) : InLog(r)
      BY <2>2, BatchType DEF IInv, Process
    <3>2. Pending' \subseteq Pending \cup Batch(new) /\ Durable' = Durable /\ log' = log
      BY <2>2, ProcessMoves DEF Durable
    <3> QED
      BY <3>1, <3>2 DEF RowsHaveRecords, InLog
  <2>3. CASE Undecodable(new) \/ Malformed(new)
    BY <2>3, NoNewRows DEF Undecodable, Malformed, Pending, Durable
  <2> QED
    BY <2>1, <2>2, <2>3
<1>3. CASE Inserts
  BY <1>3, InsertMoves, NoNewRows DEF Inserts
<1>4. CASE Stop
  <2> DEFINE rows == [t \in Tables |->
               IF t = "metric_rollups" THEN RollupsOf(windows, Open(windows)) ELSE {}]
  <2>1. \A t \in RecordTables : rows[t] = {}
    BY DEF RecordTables, Tables
  <2>2. buffers' = AddedTo(buffers, rows)
    BY <1>4 DEF Stop, AddRows
  <2> HIDE DEF rows
  <2>3. \A t \in RecordTables : buffers'[t] = buffers[t] \cup rows[t]
    BY <2>2, AddedRecords
  <2>4. Pending' = Pending /\ Durable' = Durable /\ UNCHANGED log
    BY <1>4, <2>1, <2>3 DEF Pending, Durable, Stop
  <2> QED
    BY <2>4, NoNewRows
<1>5. CASE Crash \/ StopIdle \/ Exit
  <2>1. buffers' = [t \in Tables |-> {}] /\ UNCHANGED <<log, stored>>
    BY <1>5 DEF Crash, StopIdle, Exit, Die
  <2>2. Pending' = {} /\ Durable' = Durable
    BY <2>1 DEF Pending, Durable, Tables
  <2> QED
    BY <2>1, <2>2, NoNewRows
<1>6. CASE Publishes \/ Commits \/ Start \/ Retry \/ IntervalElapses \/ UNCHANGED vars
  <2>1. UNCHANGED <<log, buffers, stored>>
    BY <1>6 DEF Publishes, Publish, PublishFails, Commits, Commit, CommitFails, Start, Retry,
                IntervalElapses, WriterInterval, vars
  <2> QED
    BY <2>1, NoNewRows DEF Pending, Durable
<1> QED
  BY <1>1, <1>2, <1>3, <1>4, <1>5, <1>6 DEF Next

\* The offsets stay or the position advances, and neither skips nor loses.
LEMMA TollStays ==
  ASSUME IInv, TypeOK', Toll, UNCHANGED <<committed, skipped, lost>>,
         \A p \in Partitions : position[p] <= position'[p],
         \A r \in Ids : InLog(r) => At(r)' = At(r)
  PROVE  Toll'
<1>1. \A r \in Ids : r[1] \in Partitions /\ r[2] \in Nat
  BY BoundAssumption DEF Ids, Offsets
<1>2. \A p \in Partitions : position[p] \in Nat /\ position'[p] \in Nat
  BY BoundAssumption DEF IInv, TypeOK
<1>3. \A r \in Ids : /\ Polled(r) => Polled(r)' /\ At(r)' = At(r)
                     /\ Committed(r)' <=> Committed(r)
  BY <1>1, <1>2, OldIsInLog DEF Polled, Committed
<1>4. skipped \in SUBSET Ids /\ lost \in SUBSET Ids
  BY DEF IInv, TypeOK
<1>5. Unsettled' = Unsettled /\ Unsettled \in SUBSET Ids
  BY <1>3, <1>4 DEF Unsettled
<1>6. Spoilers \in SUBSET Spoilers' /\ Spoilers' \in SUBSET Ids
  BY <1>3 DEF Spoilers
<1> DEFINE a == Cardinality(Spoilers)
           b == Cardinality(Spoilers')
           c == BATCH_SIZE - 1
<1>7. a \in Nat /\ b \in Nat /\ a <= b /\ Cardinality(Unsettled) \in Nat /\ c \in Nat
  BY <1>5, <1>6, Sizes, SizeAssumption
<1>8. Cardinality(Unsettled') <= c * b
  <2>1. Cardinality(Unsettled') = Cardinality(Unsettled) /\ Cardinality(Unsettled) <= c * a
    BY <1>5 DEF Toll
  <2> HIDE DEF a, b, c
  <2> QED
    BY <1>7, <2>1, Multiples
<1> QED
  BY <1>3, <1>4, <1>8 DEF Toll

\* A batch that raises has a record that does so, and less than a batch of
\* others.
LEMMA SkipToll ==
  ASSUME IInv, Toll, NEW new \in [Partitions -> 0 .. MaxLog], Undecodable(new) \/ Malformed(new)
  PROVE  Toll'
<1> USE DEF kafkaVars, loopVars, windowVars, writerVars, tableVars, histVars
<1> DEFINE batch == Batch(new)
           owed == {r \in batch : Readable(r)}
<1>1. /\ TypeOK /\ Fetch(new) /\ position' = new /\ UNCHANGED <<log, committed, lost>>
      /\ skipped' = skipped \cup owed
      /\ Cardinality(batch) <= BATCH_SIZE
  BY DEF IInv, Undecodable, Malformed, Fetch
<1>2. /\ batch \in SUBSET Ids
      /\ \A r \in batch : InLog(r) /\ ~Polled(r) /\ r[2] <= new[r[1]] /\ ~Committed(r)
  BY <1>1, BatchType, PolledAfter
<1>3. PICK bad \in batch : Raises(At(bad))
  <2>1. CASE Undecodable(new)
    BY <2>1 DEF Undecodable, Kinds, Raises
  <2>2. CASE Malformed(new)
    BY <2>2 DEF Malformed, Raises
  <2> QED
    BY <2>1, <2>2
<1>4. \A r \in Ids : r[1] \in Partitions /\ r[2] \in Nat
  BY BoundAssumption DEF Ids, Offsets
<1>5. \A p \in Partitions : position[p] \in Nat /\ new[p] \in Nat /\ position[p] <= new[p]
  BY <1>1, BoundAssumption DEF TypeOK, Fetch
<1>6. \A r \in Ids : /\ Polled(r) => Polled(r)'
                     /\ Committed(r)' <=> Committed(r)
                     /\ At(r)' = At(r)
  BY <1>1, <1>4, <1>5 DEF Polled, Committed, At
<1>7. \A r \in batch : Polled(r)'
  BY <1>1, <1>2 DEF Polled
<1>8. ~Readable(bad)
  BY <1>3 DEF Readable, YieldsRow, Raises
<1> DEFINE others == batch \ {bad}
           u == Cardinality(Unsettled)
           s == Cardinality(Spoilers)
           o == Cardinality(others)
           c == BATCH_SIZE - 1
<1>9. o \in Nat /\ c \in Nat /\ o <= c /\ IsFiniteSet(others)
  <2>1. IsFiniteSet(batch) /\ Cardinality(batch) \in Nat
    BY <1>2, Sizes
  <2>2. IsFiniteSet(others) /\ Cardinality(others) = Cardinality(batch) - 1
    BY <1>3, <2>1, FS_RemoveElement
  <2>3. Cardinality(others) \in Nat
    BY <2>2, FS_CardinalityType
  <2> QED
    BY <1>1, <2>1, <2>2, <2>3, SizeAssumption
<1>10. skipped \in SUBSET Ids
  BY <1>1 DEF TypeOK
<1>11. Unsettled \in SUBSET Ids /\ Unsettled' \subseteq Unsettled \cup others
  BY <1>1, <1>2, <1>3, <1>6, <1>8, <1>10 DEF Unsettled
<1>12. /\ IsFiniteSet(Unsettled) /\ u \in Nat
       /\ Cardinality(Unsettled') \in Nat /\ Cardinality(Unsettled') <= u + o
  <2>1. IsFiniteSet(Unsettled) /\ u \in Nat
    BY <1>11, Sizes
  <2>2. Unsettled \cup others \in SUBSET Ids /\ Unsettled' \in SUBSET (Unsettled \cup others)
    BY <1>2, <1>11
  <2>3. /\ Cardinality(Unsettled') \in Nat /\ Cardinality(Unsettled \cup others) \in Nat
        /\ Cardinality(Unsettled') <= Cardinality(Unsettled \cup others)
    BY <2>2, Sizes
  <2>4. Cardinality(Unsettled \cup others) = u + o - Cardinality(Unsettled \cap others)
    BY <1>9, <2>1, FS_Union
  <2>5. Cardinality(Unsettled \cap others) \in Nat
    BY <1>11, Sizes
  <2> HIDE DEF others
  <2> QED
    BY <1>9, <2>1, <2>3, <2>4, <2>5
<1>13. /\ s \in Nat /\ Cardinality(Spoilers') \in Nat
       /\ s + 1 <= Cardinality(Spoilers')
  <2>1. bad \notin Spoilers /\ bad \in Ids
    BY <1>2, <1>3 DEF Spoilers
  <2>2. Spoilers \cup {bad} \in SUBSET Spoilers'
    BY <1>2, <1>3, <1>6, <1>7 DEF Spoilers
  <2>3. Spoilers \in SUBSET Ids /\ Spoilers' \in SUBSET Ids
    BY DEF Spoilers
  <2>4. IsFiniteSet(Spoilers) /\ s \in Nat
    BY <2>3, Sizes
  <2>5. Cardinality(Spoilers \cup {bad}) = s + 1
    BY <2>1, <2>4, FS_AddElement
  <2>6. Cardinality(Spoilers') \in Nat /\ Cardinality(Spoilers \cup {bad}) <= Cardinality(Spoilers')
    BY <2>2, <2>3, Sizes
  <2> QED
    BY <2>4, <2>5, <2>6
<1>14. u <= c * s
  BY DEF Toll
<1>15. Cardinality(Unsettled') <= c * Cardinality(Spoilers')
  <2> DEFINE v == Cardinality(Unsettled')
             t == Cardinality(Spoilers')
  <2>1. v \in Nat /\ t \in Nat /\ v <= u + o /\ s + 1 <= t /\ s + 1 \in Nat
    BY <1>12, <1>13
  <2> HIDE DEF u, s, o, c, v, t
  <2>2. c * (s + 1) <= c * t /\ c * (s + 1) \in Nat /\ c * t \in Nat
    BY <1>9, <2>1, Multiples
  <2>3. c * (s + 1) = c * s + c /\ c * s \in Nat
    BY <1>9, <1>13
  <2>4. v <= c * t
    BY <1>9, <1>12, <1>14, <2>1, <2>2, <2>3
  <2> QED
    BY <2>4 DEF v, t, c
<1>16. \A r \in skipped' : Polled(r)'
  BY <1>1, <1>6, <1>7, <1>10 DEF Toll
<1>17. \A r \in lost' : Committed(r)'
  BY <1>1, <1>6 DEF Toll, TypeOK
<1> QED
  BY <1>15, <1>16, <1>17 DEF Toll

\* Nothing is unsettled once all that was polled is committed.
LEMMA TollSettled ==
  ASSUME Unsettled' = {}, \A r \in lost' : Committed(r)', \A r \in skipped' : Polled(r)'
  PROVE  Toll'
<1>1. Cardinality(Unsettled') = 0
  BY FS_EmptySet
<1>2. Spoilers' \in SUBSET Ids
  BY DEF Spoilers
<1>3. Cardinality(Spoilers') \in Nat
  BY <1>2, Sizes
<1>4. 0 <= (BATCH_SIZE - 1) * Cardinality(Spoilers')
  <2>1. BATCH_SIZE - 1 \in Nat
    BY SizeAssumption
  <2>2. \A a, b \in Nat : 0 <= a * b
    OBVIOUS
  <2> QED
    BY <1>3, <2>1, <2>2
<1> QED
  BY <1>1, <1>4 DEF Toll

\* Every step leaves at most a batch less one skipped for each record that
\* raised.
LEMMA TollStep ==
  ASSUME IInv, TypeOK', Toll, [Next]_vars
  PROVE  Toll'
<1> USE DEF kafkaVars, loopVars, windowVars, writerVars, tableVars, histVars
<1>1. \A p \in Partitions : /\ committed[p] \in Nat /\ position[p] \in Nat
                            /\ committed[p] <= position[p]
  BY BoundAssumption DEF IInv, TypeOK, OffsetsOrdered
<1>2. \A r \in Ids : r[1] \in Partitions /\ r[2] \in Nat
  BY BoundAssumption DEF Ids, Offsets
<1>3. skipped \in SUBSET Ids /\ lost \in SUBSET Ids
  BY DEF IInv, TypeOK
<1>4. CASE \E p \in Partitions, m \in Messages : Produce(p, m)
  <2>1. /\ UNCHANGED <<committed, position, skipped, lost>>
        /\ \E p \in Partitions, m \in Messages : log' = [log EXCEPT ![p] = Append(@, m)]
    BY <1>4 DEF Produce
  <2>2. \A r \in Ids : InLog(r) => At(r)' = At(r)
    BY <2>1, LogGrows DEF IInv
  <2> QED
    BY <1>1, <2>1, <2>2, TollStays
<1>5. CASE Poll
  <2>1. PICK new \in [Partitions -> 0 .. MaxLog] : Process(new) \/ Undecodable(new) \/ Malformed(new)
    BY <1>5 DEF Poll
  <2>2. CASE Process(new)
    <3>1. /\ UNCHANGED <<log, committed, skipped, lost>>
          /\ \A p \in Partitions : position[p] <= position'[p]
      BY <2>2 DEF Process, Fetch
    <3> QED
      BY <3>1, TollStays DEF At
  <2> QED
    BY <2>1, <2>2, SkipToll
<1>6. CASE Commits
  <2>1. committed' \in {committed, position} /\ UNCHANGED <<log, position, skipped, lost>>
    BY <1>6 DEF Commits, Commit, CommitFails
  <2>2. CASE committed' = committed
    BY <1>1, <2>1, <2>2, TollStays DEF At
  <2>3. CASE committed' = position
    <3>1. \A r \in Ids : /\ Committed(r) => Committed(r)'
                         /\ Polled(r) => Committed(r)' /\ Polled(r)'
      BY <1>1, <1>2, <2>1, <2>3 DEF Committed, Polled
    <3>2. Unsettled' = {}
      BY <1>3, <2>1, <3>1 DEF Unsettled, Toll
    <3> QED
      BY <1>3, <2>1, <3>1, <3>2, TollSettled DEF Toll
  <2> QED
    BY <2>1, <2>2, <2>3
<1>7. CASE Crash \/ StopIdle \/ Exit
  <2>1. /\ UNCHANGED committed /\ position' = committed
        /\ lost' = lost \cup AtRisk /\ skipped' = {r \in skipped : Committed(r)}
    BY <1>7 DEF Crash, StopIdle, Exit, Die
  <2>2. \A r : /\ Committed(r)' <=> Committed(r)
               /\ Polled(r)' <=> Committed(r)
    BY <2>1 DEF Committed, Polled
  <2>3. Unsettled' = {}
    BY <2>1, <2>2 DEF Unsettled
  <2> QED
    BY <2>1, <2>2, <2>3, TollSettled DEF Toll, AtRisk
<1>8. CASE Inserts \/ Publishes \/ Start \/ Retry \/ IntervalElapses \/ Stop \/ UNCHANGED vars
  <2>1. UNCHANGED <<log, committed, position, skipped, lost>>
    BY <1>8 DEF Inserts, InsertOk, InsertRetry, InsertRaise, Publishes, Publish, PublishFails,
                Start, Retry, IntervalElapses, Stop, vars
  <2> QED
    BY <1>1, <2>1, TollStays DEF At
<1> QED
  BY <1>4, <1>5, <1>6, <1>7, <1>8 DEF Next

\* A commit moves the offsets over records that are durable, buffered, or
\* skipped with one that raised.
LEMMA CommitContract ==
  ASSUME IInv, IInv', Toll, committed' = position, UNCHANGED <<log, position, buffers, stored, skipped, lost>>
  PROVE  Contract!Commit
<1> DEFINE moved  == UNION {{<<p, i>> : i \in committed[p] + 1 .. committed'[p]} : p \in Partitions}
           missed == {r \in moved : YieldsRow(At(r))} \ (Durable \cup AtRisk')
           spoilt == {r \in moved : Raises(At(r))}
<1>1. \A p \in Partitions : /\ committed[p] \in Nat /\ position[p] \in Nat /\ Len(log[p]) \in Nat
                            /\ committed[p] <= position[p] /\ position[p] <= Len(log[p])
                            /\ Len(log[p]) <= MaxLog
  BY BoundAssumption DEF IInv, TypeOK, OffsetsOrdered
<1>2. \A r \in Ids : r[1] \in Partitions /\ r[2] \in Nat /\ r = <<r[1], r[2]>>
  BY BoundAssumption DEF Ids, Offsets
<1>3. moved = {r \in Ids : Polled(r) /\ ~Committed(r)}
  <2>1. ASSUME NEW p \in Partitions, NEW i \in committed[p] + 1 .. committed'[p]
        PROVE  <<p, i>> \in Ids /\ Polled(<<p, i>>) /\ ~Committed(<<p, i>>)
    <3>1. i \in Nat /\ i >= 1 /\ i <= position[p] /\ ~(i <= committed[p]) /\ i <= MaxLog
      BY <1>1, BoundAssumption
    <3> QED
      BY <3>1, BoundAssumption DEF Ids, Offsets, Polled, Committed
  <2>2. ASSUME NEW r \in Ids, Polled(r), ~Committed(r)
        PROVE  r \in moved
    <3>1. r[1] \in Partitions /\ r[2] \in committed[r[1]] + 1 .. committed'[r[1]]
      BY <1>1, <1>2, <2>2 DEF Polled, Committed
    <3>2. <<r[1], r[2]>> \in moved
      BY <3>1
    <3> HIDE DEF moved
    <3> QED
      BY <1>2, <3>2
  <2> QED
    BY <2>1, <2>2
<1> HIDE DEF moved
<1>4. \A r \in Ids : Committed(r)' <=> Polled(r)
  BY DEF Committed, Polled
<1>5. Pending' = Pending /\ Durable' = Durable /\ Pending \in SUBSET Ids /\ Durable \in SUBSET Ids
  BY RowSets DEF Pending, Durable, IInv
<1>6. AtRisk' = {r \in Pending : Polled(r)} \ Durable
  BY <1>4, <1>5 DEF AtRisk
<1>7. AtRisk \subseteq AtRisk' /\ AtRisk' \subseteq AtRisk \cup moved
  BY <1>3, <1>5, <1>6, OldIsInLog DEF AtRisk
<1>8. Cardinality(AtRisk') <= BATCH_SIZE - 1
  <2>1. AtRisk' \in SUBSET Ids
    BY <1>5, <1>6
  <2>2. Cardinality(AtRisk') \in Nat
    BY <2>1, Sizes
  <2> QED
    BY <2>2, SizeAssumption DEF IInv, AtRiskBounded
<1>9. missed \in SUBSET Unsettled /\ Unsettled \in SUBSET Ids
  <2>1. ASSUME NEW r \in missed PROVE r \in Unsettled
    <3>1. r \in Ids /\ Polled(r) /\ ~Committed(r) /\ Readable(r) /\ r \notin Durable \cup AtRisk'
      BY <1>3 DEF Readable
    <3>2. r \in Pending \cup Durable \cup skipped \cup lost
      BY <3>1, OldIsInLog DEF IInv, Accounted
    <3> QED
      BY <1>6, <3>1, <3>2 DEF Unsettled, Toll
  <2> QED
    BY <2>1 DEF Unsettled, IInv, TypeOK
<1>10. spoilt = Spoilers /\ Spoilers \in SUBSET Ids
  BY <1>3 DEF Spoilers
<1>11. Cardinality(missed) <= (BATCH_SIZE - 1) * Cardinality(spoilt)
  <2>1. /\ Cardinality(missed) \in Nat /\ Cardinality(Unsettled) \in Nat
        /\ Cardinality(missed) <= Cardinality(Unsettled)
    BY <1>9, Sizes
  <2>2. Cardinality(Unsettled) <= (BATCH_SIZE - 1) * Cardinality(spoilt)
    BY <1>10 DEF Toll
  <2>3. (BATCH_SIZE - 1) * Cardinality(spoilt) \in Nat
    <3>1. Cardinality(spoilt) \in Nat /\ BATCH_SIZE - 1 \in Nat
      BY <1>10, Sizes, SizeAssumption
    <3>2. \A a, b \in Nat : a * b \in Nat
      OBVIOUS
    <3> QED
      BY <3>1, <3>2
  <2> HIDE DEF missed, spoilt
  <2> QED
    BY <2>1, <2>2, <2>3
<1>12. \A r : At(r) = log[r[1]][r[2]]
  BY DEF At
<1>13. /\ DOMAIN committed' = Partitions
       /\ \A p \in Partitions : committed'[p] \in committed[p] .. Len(log[p])
       /\ UNCHANGED <<log, Durable>>
  BY <1>1, <1>5 DEF IInv, TypeOK
<1>14. \A S : Contract!Cardinality(S) = Cardinality(S)
  BY DEF Contract!Cardinality, Cardinality
<1>15. {r \in moved : YieldsRow(log[r[1]][r[2]])} \ (Durable \cup AtRisk') = missed
  BY <1>12
<1>16. {r \in moved : Raises(log[r[1]][r[2]])} = spoilt
  BY <1>12
<1>17. Contract!Cardinality(AtRisk') <= BATCH_SIZE - 1
  BY <1>8, <1>14
<1>18. Contract!Cardinality({r \in moved : YieldsRow(log[r[1]][r[2]])} \ (Durable \cup AtRisk'))
         <= (BATCH_SIZE - 1) * Contract!Cardinality({r \in moved : Raises(log[r[1]][r[2]])})
  <2> HIDE DEF missed, spoilt
  <2> QED
    BY <1>11, <1>14, <1>15, <1>16
<1> HIDE DEF missed, spoilt
<1> QED
  BY <1>7, <1>13, <1>17, <1>18, Zenon DEF Contract!Commit, Contract!At, moved

\* A step of the engine is a step of the contract or changes nothing the
\* contract talks about: an insert makes records of the log durable, a commit
\* moves the committed offset, and with the process goes what it held.
LEMMA ContractStep ==
  ASSUME IInv, IInv', RowsHaveRecords, Toll, [Next]_vars
  PROVE  [Contract!Next]_(Contract!vars)
<1> USE DEF kafkaVars, loopVars, windowVars, writerVars, tableVars, histVars
<1>1. CASE \E p \in Partitions, m \in Messages : Produce(p, m)
  <2>1. PICK p \in Partitions, m \in Messages : Produce(p, m)
    BY <1>1
  <2>2. Contract!Produce(p, m)
    BY <2>1 DEF Produce, Contract!Produce, Durable, AtRisk, Pending, Committed
  <2> QED
    BY <2>2 DEF Contract!Next
<1>2. CASE Inserts
  <2>1. /\ Durable \subseteq Durable' /\ Durable' \subseteq Durable \cup Pending
        /\ Pending' \subseteq Pending /\ Pending \subseteq Pending' \cup Durable'
        /\ UNCHANGED <<log, committed>>
    BY <1>2, InsertMoves DEF Inserts
  <2>2. ASSUME NEW r \in Durable' \ Durable
        PROVE  r[1] \in Partitions /\ r[2] \in 1 .. Len(log[r[1]])
    <3>1. r \in Ids /\ InLog(r)
      BY <2>1, RowSets DEF IInv, RowsHaveRecords
    <3>2. r[1] \in Partitions /\ r[2] \in Nat /\ r[2] >= 1
      BY <3>1, BoundAssumption DEF Ids, Offsets
    <3>3. Len(log[r[1]]) \in Nat
      BY <3>2 DEF IInv, TypeOK
    <3> QED
      BY <3>1, <3>2, <3>3 DEF InLog
  <2>3. AtRisk' = AtRisk \ Durable'
    BY <2>1 DEF AtRisk, Committed
  <2>4. Contract!Persist
    BY <2>1, <2>2, <2>3 DEF Contract!Persist
  <2> QED
    BY <2>4 DEF Contract!Next
<1>3. CASE Commits
  <2>1. /\ committed' \in {committed, position}
        /\ UNCHANGED <<log, position, buffers, stored, skipped, lost>>
    BY <1>3 DEF Commits, Commit, CommitFails
  <2>2. CASE committed' = committed
    BY <2>1, <2>2 DEF Contract!vars, Durable, AtRisk, Pending, Committed
  <2>3. CASE committed' = position
    BY <2>1, <2>3, CommitContract DEF Contract!Next
  <2> QED
    BY <2>1, <2>2, <2>3
<1>4. CASE Crash \/ StopIdle \/ Exit
  <2>1. buffers' = [t \in Tables |-> {}] /\ UNCHANGED <<log, committed, stored>>
    BY <1>4 DEF Crash, StopIdle, Exit, Die
  <2>2. Pending' = {} /\ Durable' = Durable
    BY <2>1 DEF Pending, Durable, Tables
  <2>3. Contract!Forget
    BY <2>1, <2>2 DEF Contract!Forget, AtRisk
  <2> QED
    BY <2>3 DEF Contract!Next
<1>5. CASE Poll
  <2>1. PICK new \in [Partitions -> 0 .. MaxLog] : Process(new) \/ Undecodable(new) \/ Malformed(new)
    BY <1>5 DEF Poll
  <2>2. UNCHANGED <<log, committed, stored>>
    BY <2>1 DEF Process, Undecodable, Malformed
  <2>3. AtRisk' = AtRisk
    <3>1. CASE Process(new)
      <4>1. Pending \subseteq Pending' /\ Pending' \subseteq Pending \cup Batch(new) /\ Durable' = Durable
        BY <3>1, ProcessMoves DEF Durable
      <4>2. \A r \in Batch(new) : ~Committed(r)
        BY <2>2, <3>1, PolledAfter DEF Process
      <4> QED
        BY <2>2, <4>1, <4>2 DEF AtRisk, Committed
    <3>2. CASE Undecodable(new) \/ Malformed(new)
      BY <2>2, <3>2 DEF Undecodable, Malformed, AtRisk, Pending, Durable, Committed
    <3> QED
      BY <2>1, <3>1, <3>2
  <2> QED
    BY <2>2, <2>3 DEF Contract!vars, Durable
<1>6. CASE Stop
  <2> DEFINE rows == [t \in Tables |->
               IF t = "metric_rollups" THEN RollupsOf(windows, Open(windows)) ELSE {}]
  <2>1. \A t \in RecordTables : rows[t] = {}
    BY DEF RecordTables, Tables
  <2>2. buffers' = AddedTo(buffers, rows) /\ UNCHANGED <<log, committed, stored>>
    BY <1>6 DEF Stop, AddRows
  <2> HIDE DEF rows
  <2>3. \A t \in RecordTables : buffers'[t] = buffers[t] \cup rows[t]
    BY <2>2, AddedRecords
  <2>4. Pending' = Pending /\ Durable' = Durable
    BY <2>1, <2>2, <2>3 DEF Pending, Durable
  <2> QED
    BY <2>2, <2>4 DEF Contract!vars, AtRisk, Committed
<1>7. CASE Publishes \/ Start \/ Retry \/ IntervalElapses \/ UNCHANGED vars
  <2>1. UNCHANGED <<log, committed, buffers, stored>>
    BY <1>7 DEF Publishes, Publish, PublishFails, Start, Retry, IntervalElapses, WriterInterval,
                vars
  <2> QED
    BY <2>1 DEF Contract!vars, Durable, AtRisk, Pending, Committed
<1> QED
  BY <1>1, <1>2, <1>3, <1>4, <1>5, <1>6, <1>7 DEF Next

\* The engine keeps the at-least-once contract with a slack of BATCH_SIZE - 1
\* records in memory, and as many for each record that makes its batch raise:
\* for every batch size and all traffic, through every failed insert, publish
\* and commit, every crash and every shutdown.
THEOREM RefinesAtLeastOnce == Spec => ImplementsAtLeastOnce
<1>1. Init => Contract!Init /\ RowsHaveRecords /\ Toll
  <2> SUFFICES ASSUME Init PROVE Contract!Init /\ RowsHaveRecords /\ Toll
    OBVIOUS
  <2>1. Pending = {} /\ Durable = {} /\ AtRisk = {}
    BY DEF Init, Pending, Durable, AtRisk, WriterInit, TablesInit, RecordTables, Tables
  <2>2. Unsettled = {} /\ skipped = {} /\ lost = {}
    BY DEF Init, Unsettled
  <2>3. Cardinality(Unsettled) = 0
    BY <2>2, FS_EmptySet
  <2>4. Spoilers \in SUBSET Ids
    BY DEF Spoilers
  <2>5. Cardinality(Spoilers) \in Nat /\ BATCH_SIZE - 1 \in Nat
    BY <2>4, Sizes, SizeAssumption
  <2>6. \A a, b \in Nat : 0 <= a * b
    OBVIOUS
  <2>7. Toll
    BY <2>2, <2>3, <2>5, <2>6 DEF Toll
  <2>8. Contract!Init
    BY <2>1 DEF Init, Contract!Init
  <2> QED
    BY <2>1, <2>7, <2>8 DEF RowsHaveRecords
<1>2. IInv /\ RowsHaveRecords /\ [Next]_vars => RowsHaveRecords'
  BY RowsHaveRecordsStep
<1>3. IInv /\ IInv' /\ Toll /\ [Next]_vars => Toll'
  BY TollStep DEF IInv
<1>4. IInv /\ IInv' /\ RowsHaveRecords /\ Toll /\ [Next]_vars
        => [Contract!Next]_(Contract!vars)
  BY ContractStep
<1> QED
  BY Inductive, <1>1, <1>2, <1>3, <1>4, PTL
     DEF Spec, ImplementsAtLeastOnce, Contract!Spec

(***************************************************************************)
(* When rows are doubled.  Until a call failed or a process ended, the     *)
(* rows in the buffers and those in the tables are of records already      *)
(* polled, and of different ones, so an insert never repeats a row.        *)
(***************************************************************************)
Once ==
  faults = 0 /\ stops = 0 =>
    /\ \A t \in Tables : twice[t] = {}
    /\ \A t \in RecordTables : buffers[t] \cap stored[t] = {}
    /\ \A t \in RecordTables : \A r \in buffers[t] \cup stored[t] : Polled(r)

\* Processing a batch buffers records that were not polled before.
LEMMA ProcessOnce ==
  ASSUME IInv, Once, NEW new \in [Partitions -> 0 .. MaxLog], Process(new)
  PROVE  Once'
<1>1. /\ Fetch(new) /\ UNCHANGED <<stored, twice, faults, stops>>
      /\ \A t \in RecordTables : buffers'[t] = buffers[t] \cup RowsIn(Batch(new), t)
  <2>1. Fetch(new) /\ UNCHANGED <<stored, twice, faults, stops>>
    BY DEF Process, tableVars
  <2>2. PICK rollups, anomalies :
          AddRows([t \in Tables |->
             CASE t = "metric_rollups" -> rollups
               [] t = "anomalies" -> anomalies
               [] OTHER -> RowsIn(Batch(new), t)])
    BY DEF Process
  <2> DEFINE rows == [t \in Tables |->
               CASE t = "metric_rollups" -> rollups
                 [] t = "anomalies" -> anomalies
                 [] OTHER -> RowsIn(Batch(new), t)]
  <2>3. \A t \in RecordTables : rows[t] = RowsIn(Batch(new), t)
    BY DEF RecordTables, Tables
  <2>4. buffers' = AddedTo(buffers, rows)
    BY <2>2 DEF AddRows
  <2> HIDE DEF rows
  <2>5. \A t \in RecordTables : buffers'[t] = buffers[t] \cup RowsIn(Batch(new), t)
    BY <2>3, <2>4, AddedRecords
  <2> QED
    BY <2>1, <2>5
<1>2. \A r \in Batch(new) : ~Polled(r) /\ Polled(r)'
  <2>1. \A r \in Batch(new) : ~Polled(r) /\ r[2] <= new[r[1]]
    BY <1>1, BatchType DEF IInv
  <2> QED
    BY <1>1, <2>1 DEF Polled, Fetch
<1>3. \A r \in Ids : Polled(r) => Polled(r)'
  <2>1. \A r \in Ids : r[1] \in Partitions /\ r[2] \in Nat
    BY BoundAssumption DEF Ids, Offsets
  <2>2. \A p \in Partitions : position[p] \in Nat /\ new[p] \in Nat /\ position[p] <= new[p]
    BY <1>1, BoundAssumption DEF IInv, TypeOK, Fetch
  <2>3. position' = new
    BY <1>1 DEF Fetch
  <2> QED
    BY <2>1, <2>2, <2>3 DEF Polled
<1>4. \A t \in RecordTables : buffers[t] \subseteq Ids /\ stored[t] \subseteq Ids
  BY DEF IInv, TypeOK, RowsPerTable, Row, Tables
<1>5. \A t : RowsIn(Batch(new), t) \subseteq Batch(new)
  BY DEF RowsIn
<1> QED
  BY <1>1, <1>2, <1>3, <1>4, <1>5 DEF Once

\* An accepted insert moves the rows of a table from its buffer.
LEMMA InsertOnce ==
  ASSUME IInv, Once, NEW t \in Tables, InsertOk(t)
  PROVE  Once'
<1>1. /\ UNCHANGED <<position, faults, stops>>
      /\ Accept(t) /\ buffers' = [buffers EXCEPT ![t] = {}]
  BY DEF InsertOk, WriterOk
<1>2. \A u \in Tables :
        /\ buffers'[u] = IF u = t THEN {} ELSE buffers[u]
        /\ stored'[u] = IF u = t THEN Merge(t, stored[t], buffers[t]) ELSE stored[u]
        /\ twice'[u] = IF u = t THEN twice[u] \cup {r \in buffers[t] \cap stored[t] : t \in RecordTables}
                                ELSE twice[u]
  BY <1>1 DEF Accept, IInv, TypeOK, RowsPerTable
<1>3. t \in RecordTables => Merge(t, stored[t], buffers[t]) = stored[t] \cup buffers[t]
  BY DEF Merge, Replaces, RecordTables, ReplacingTables
<1>4. \A r : Polled(r)' <=> Polled(r)
  BY <1>1 DEF Polled
<1>5. RecordTables \subseteq Tables
  BY DEF Tables
<1> SUFFICES ASSUME faults = 0, stops = 0
             PROVE  /\ \A u \in Tables : twice'[u] = {}
                    /\ \A u \in RecordTables : buffers'[u] \cap stored'[u] = {}
                    /\ \A u \in RecordTables : \A r \in buffers'[u] \cup stored'[u] : Polled(r)
  BY <1>1, <1>4 DEF Once
<1>6. /\ \A u \in Tables : twice[u] = {}
      /\ \A u \in RecordTables : buffers[u] \cap stored[u] = {}
      /\ \A u \in RecordTables : \A r \in buffers[u] \cup stored[u] : Polled(r)
  BY DEF Once
<1>7. {r \in buffers[t] \cap stored[t] : t \in RecordTables} = {}
  BY <1>6
<1>8. \A u \in Tables : twice'[u] = {}
  BY <1>2, <1>6, <1>7
<1>9. ASSUME NEW u \in RecordTables
      PROVE  buffers'[u] \cap stored'[u] = {} /\ \A r \in buffers'[u] \cup stored'[u] : Polled(r)
  BY <1>2, <1>3, <1>5, <1>6
<1> QED
  BY <1>8, <1>9

\* A process that is stopping, a call that fails and a process that ends are
\* all counted.
LEMMA CountedSteps ==
  ASSUME IInv,
         \/ \E t \in Tables, accepted \in BOOLEAN : InsertRetry(t, accepted) \/ InsertRaise(t, accepted)
         \/ \E a \in outgoing, accepted \in BOOLEAN : PublishFails(a, accepted)
         \/ \E accepted \in BOOLEAN : CommitFails(accepted)
         \/ Crash \/ Stop \/ StopIdle \/ Exit
  PROVE  ~(faults' = 0 /\ stops' = 0)
<1>1. faults \in Nat /\ stops \in Nat
  BY BoundAssumption DEF IInv, TypeOK
<1>2. CASE faults' = faults + 1
  BY <1>1, <1>2
<1>3. CASE stops' = stops + 1
  BY <1>1, <1>3
<1>4. CASE Exit
  BY <1>4 DEF Exit, IInv, LossPerStop
<1> QED
  BY <1>2, <1>3, <1>4 DEF InsertRetry, InsertRaise, PublishFails, CommitFails, FailsOnce,
       Crash, Stop, StopIdle

\* Until something fails no table holds a row it holds already in the buffers.
LEMMA OnceStep ==
  ASSUME IInv, Once, [Next]_vars
  PROVE  Once'
<1> USE DEF kafkaVars, loopVars, windowVars, writerVars, tableVars, histVars
<1>1. CASE Poll
  <2>1. PICK new \in [Partitions -> 0 .. MaxLog] : Process(new) \/ Undecodable(new) \/ Malformed(new)
    BY <1>1 DEF Poll
  <2>2. CASE Process(new)
    BY <2>2, ProcessOnce
  <2>3. CASE Undecodable(new) \/ Malformed(new)
    <3>1. Fetch(new) /\ UNCHANGED <<buffers, stored, twice, faults, stops>>
      BY <2>3 DEF Undecodable, Malformed
    <3>2. \A r \in Ids : r[1] \in Partitions /\ r[2] \in Nat
      BY BoundAssumption DEF Ids, Offsets
    <3>3. \A p \in Partitions : position[p] \in Nat /\ new[p] \in Nat /\ position[p] <= new[p]
      BY <3>1, BoundAssumption DEF IInv, TypeOK, Fetch
    <3>4. \A r \in Ids : Polled(r) => Polled(r)'
      BY <3>1, <3>2, <3>3 DEF Polled, Fetch
    <3>5. \A t \in RecordTables : buffers[t] \subseteq Ids /\ stored[t] \subseteq Ids
      BY DEF IInv, TypeOK, RowsPerTable, Row, Tables
    <3> QED
      BY <3>1, <3>4, <3>5 DEF Once
  <2> QED
    BY <2>1, <2>2, <2>3
<1>2. CASE \E t \in Tables : InsertOk(t)
  BY <1>2, InsertOnce
<1>3. CASE \/ \E t \in Tables, accepted \in BOOLEAN : InsertRetry(t, accepted) \/ InsertRaise(t, accepted)
           \/ \E a \in outgoing, accepted \in BOOLEAN : PublishFails(a, accepted)
           \/ \E accepted \in BOOLEAN : CommitFails(accepted)
           \/ Crash \/ Stop \/ StopIdle \/ Exit
  BY <1>3, CountedSteps DEF Once
<1>4. CASE \/ \E p \in Partitions, m \in Messages : Produce(p, m)
           \/ \E a \in outgoing : Publish(a)
           \/ Start \/ IntervalElapses \/ Retry \/ Commit \/ UNCHANGED vars
  <2>1. UNCHANGED <<position, buffers, stored, twice, faults, stops>>
    BY <1>4 DEF Produce, Publish, Start, IntervalElapses, WriterInterval, Retry, Commit, vars
  <2> QED
    BY <2>1 DEF Once, Polled
<1> QED
  BY <1>1, <1>2, <1>3, <1>4 DEF Next, Inserts, Publishes, Commits

\* Within one life of the process, and as long as no call fails, no table
\* accepts a row twice.
THEOREM NoDuplicates == Spec => []DuplicatesNeedAFailure
<1>1. Init => Once
  BY DEF Init, Once, WriterInit, TablesInit, RecordTables, Tables
<1>2. Once => DuplicatesNeedAFailure
  BY DEF Once, DuplicatesNeedAFailure
<1> QED
  BY Inductive, OnceStep, <1>1, <1>2, PTL DEF Spec

(***************************************************************************)
(* What the alerts rest on.  An anomaly is in the buffers or the tables    *)
(* from the moment run() holds it, and a rollup of its window is there     *)
(* before it: the tables are inserted in the order of their slots, and the *)
(* rollups got theirs no later than the anomalies.                         *)
(***************************************************************************)
KeysIn(S) == {r.key : r \in S}

Backed ==
  /\ KeysIn(alerts) \subseteq KeysIn(stored["anomalies"])
  /\ KeysIn(stored["anomalies"]) \subseteq KeysIn(stored["metric_rollups"])
  /\ KeysIn(buffers["anomalies"])
       \subseteq KeysIn(buffers["metric_rollups"]) \cup KeysIn(stored["metric_rollups"])
  /\ KeysIn(outgoing) \subseteq KeysIn(buffers["anomalies"]) \cup KeysIn(stored["anomalies"])
  /\ phase = "publish" => KeysIn(outgoing) \subseteq KeysIn(stored["anomalies"])

Known == {t \in Tables : slot[t] # 0}

SlotsInOrder ==
  /\ \A t \in Tables : slot[t] <= Cardinality(Known)
  /\ slot["anomalies"] # 0 =>
       slot["metric_rollups"] # 0 /\ slot["metric_rollups"] < slot["anomalies"]

InOrder ==
  /\ \A t \in Tables : buffers[t] # {} => slot[t] # 0
  /\ SlotsInOrder
  /\ flushing # {} =>
       phase \in {"flush", "closing"} /\ \A t \in Tables \ flushing : buffers[t] = {}

\* The tables that replace rows keep one for every key they were given.
LEMMA MergeKeys ==
  ASSUME NEW t \in ReplacingTables, NEW old, NEW new
  PROVE  KeysIn(Merge(t, old, new)) = KeysIn(old) \cup KeysIn(new)
<1> DEFINE both == Merge(t, old, new)
<1>1. new \subseteq both
  BY DEF Merge
<1>2. both \subseteq old \cup new
  BY DEF Merge
<1>3. ASSUME NEW r \in old PROVE \E m \in both : m.key = r.key
  <2>1. CASE \E n \in new : Replaces(t, n, r)
    BY <2>1, <1>1 DEF Replaces
  <2>2. CASE \A n \in new : ~Replaces(t, n, r)
    <3>1. r \in both
      BY <2>2 DEF Merge
    <3> QED
      BY <3>1
  <2> QED
    BY <2>1, <2>2
<1> HIDE DEF both
<1>4. KeysIn(both) \subseteq KeysIn(old) \cup KeysIn(new)
  BY <1>2 DEF KeysIn
<1>5. KeysIn(old) \cup KeysIn(new) \subseteq KeysIn(both)
  BY <1>1, <1>3 DEF KeysIn
<1> QED
  BY <1>4, <1>5 DEF both

\* An accepted insert adds the keys of its rows.
LEMMA AcceptKeys ==
  ASSUME TypeOK, NEW t \in Tables, Accept(t), NEW u \in ReplacingTables
  PROVE  KeysIn(stored'[u])
           = IF u = t THEN KeysIn(stored[u]) \cup KeysIn(buffers[u]) ELSE KeysIn(stored[u])
<1>1. stored'[u] = IF u = t THEN Merge(u, stored[u], buffers[u]) ELSE stored[u]
  BY DEF Accept, TypeOK, RowsPerTable, Tables
<1> QED
  BY <1>1, MergeKeys

\* Rows added to a buffer add their keys.
LEMMA AddedKeys ==
  ASSUME NEW bufs, NEW batch, NEW t \in ReplacingTables
  PROVE  KeysIn(AddedTo(bufs, batch)[t]) = KeysIn(bufs[t]) \cup KeysIn(batch[t])
BY MergeKeys DEF AddedTo, Tables

\* A set is smaller than one with another element.
LEMMA SmallerSubset ==
  ASSUME NEW S \in SUBSET Tables, NEW T \in SUBSET S, NEW x \in S \ T
  PROVE  /\ Cardinality(T) \in Nat /\ Cardinality(S) \in Nat
         /\ Cardinality(T) + 1 <= Cardinality(S)
<1>1. IsFiniteSet(S) /\ IsFiniteSet(T)
  BY TablesFinite, FS_Subset
<1>2. Cardinality(T) \in Nat /\ Cardinality(S) \in Nat
  BY <1>1, FS_CardinalityType
<1>3. Cardinality(T \cup {x}) = Cardinality(T) + 1
  BY <1>1, FS_AddElement
<1>4. T \cup {x} \in SUBSET S
  OBVIOUS
<1>5. Cardinality(T \cup {x}) <= Cardinality(S)
  BY <1>1, <1>4, FS_Subset
<1> QED
  BY <1>2, <1>3, <1>5

\* A call of add() gives the tables it fills a slot, the rollups one before
\* the anomalies.
LEMMA SlotsStep ==
  ASSUME TypeOK, SlotsInOrder, NEW batch, AddRows(batch),
         batch["anomalies"] # {} => batch["metric_rollups"] # {}
  PROVE  /\ SlotsInOrder'
         /\ \A t \in Tables : slot[t] # 0 \/ batch[t] # {} => slot'[t] # 0
<1> DEFINE new == {t \in Tables \ Known : batch[t] # {}}
           upto(t) == {u \in new : CallOrder[u] <= CallOrder[t]}
<1>1. \A t \in Tables : slot'[t] = IF t \in new THEN Cardinality(Known) + Cardinality(upto(t))
                                                ELSE slot[t]
  BY DEF AddRows, SlotsAfter, Known
<1>2. /\ CallOrder["metric_rollups"] = 2 /\ CallOrder["anomalies"] = 3
      /\ \A t \in Tables : CallOrder[t] \in Nat
      /\ "metric_rollups" \in Tables /\ "anomalies" \in Tables
  BY DEF CallOrder, Tables, RecordTables, ReplacingTables
<1>3. slot \in [Tables -> Nat]
  BY DEF TypeOK
<1>4. IsFiniteSet(Known) /\ IsFiniteSet(new) /\ Known \cap new = {}
  BY TablesFinite, FS_Subset DEF Known
<1>5. Cardinality(Known) \in Nat /\ Cardinality(new) \in Nat
  BY <1>4, FS_CardinalityType
<1>6. ASSUME NEW t \in new
      PROVE  Cardinality(upto(t)) \in Nat /\ 1 <= Cardinality(upto(t))
               /\ Cardinality(upto(t)) <= Cardinality(new)
  <2>1. t \in upto(t) /\ upto(t) \in SUBSET new
    BY <1>2
  <2>2. IsFiniteSet(upto(t)) /\ Cardinality(upto(t)) <= Cardinality(new)
    BY <1>4, <2>1, FS_Subset
  <2>3. Cardinality({}) = 0
    BY FS_EmptySet
  <2>4. {} \in SUBSET upto(t) /\ t \in upto(t) \ {} /\ upto(t) \in SUBSET Tables
    BY <2>1
  <2> HIDE DEF upto
  <2> QED
    BY <2>2, <2>3, <2>4, SmallerSubset
<1>7. ASSUME NEW t \in new
       PROVE  slot'[t] \in Nat /\ slot'[t] # 0 /\ slot'[t] <= Cardinality(Known) + Cardinality(new)
  <2>1. slot'[t] = Cardinality(Known) + Cardinality(upto(t))
    BY <1>1
  <2>2. Cardinality(upto(t)) \in Nat /\ 1 <= Cardinality(upto(t))
          /\ Cardinality(upto(t)) <= Cardinality(new)
    BY <1>6
  <2> HIDE DEF upto, new
  <2> QED
    BY <1>5, <2>1, <2>2
<1>8. \A t \in Tables \ new : slot'[t] = slot[t]
  BY <1>1
<1>9. \A t \in Tables : slot[t] # 0 \/ batch[t] # {} => slot'[t] # 0
  <2> SUFFICES ASSUME NEW t \in Tables, slot[t] # 0 \/ batch[t] # {} PROVE slot'[t] # 0
    OBVIOUS
  <2>1. CASE t \in new
    BY <1>7, <2>1
  <2>2. CASE t \notin new
    BY <1>8, <2>2 DEF Known
  <2> QED
    BY <2>1, <2>2
<1>10. Known' = Known \cup new
  <2>1. \A t \in Tables : slot'[t] # 0 <=> (t \in new \/ slot[t] # 0)
    BY <1>7, <1>8, <1>4 DEF Known
  <2>2. new \subseteq Tables
    OBVIOUS
  <2> HIDE DEF new
  <2> QED
    BY <2>1, <2>2 DEF Known
<1>11. Cardinality(Known') = Cardinality(Known) + Cardinality(new)
  <2>1. Cardinality(Known \cup new)
          = Cardinality(Known) + Cardinality(new) - Cardinality(Known \cap new)
    BY <1>4, FS_Union
  <2>2. Cardinality(Known \cap new) = 0
    BY <1>4, FS_EmptySet
  <2> QED
    BY <1>5, <1>10, <2>1, <2>2
<1>12. \A t \in Tables : slot'[t] <= Cardinality(Known')
  <2> SUFFICES ASSUME NEW t \in Tables PROVE slot'[t] <= Cardinality(Known')
    OBVIOUS
  <2>1. CASE t \in new
    BY <1>11, <1>7, <2>1
  <2>2. CASE t \notin new
    <3>1. slot'[t] = slot[t] /\ slot[t] <= Cardinality(Known) /\ slot[t] \in Nat
      BY <1>1, <1>3, <2>2 DEF SlotsInOrder
    <3> QED
      BY <1>5, <1>11, <3>1
  <2> QED
    BY <2>1, <2>2
<1>13. ASSUME slot'["anomalies"] # 0
       PROVE  slot'["metric_rollups"] # 0 /\ slot'["metric_rollups"] < slot'["anomalies"]
  <2>1. CASE "anomalies" \notin new
    <3>1. slot["anomalies"] # 0 /\ slot'["anomalies"] = slot["anomalies"]
      BY <1>1, <1>2, <1>13, <2>1
    <3>2. "metric_rollups" \notin new
      BY <3>1 DEF SlotsInOrder, Known
    <3> QED
      BY <1>1, <1>2, <3>1, <3>2 DEF SlotsInOrder
  <2>2. CASE "anomalies" \in new /\ "metric_rollups" \in new
    <3>1. upto("metric_rollups") \in SUBSET upto("anomalies")
      BY <1>2
    <3>2. "anomalies" \in upto("anomalies") \ upto("metric_rollups")
      BY <1>2, <2>2
    <3>3. upto("anomalies") \in SUBSET Tables
      OBVIOUS
    <3>4. /\ Cardinality(upto("metric_rollups")) \in Nat /\ Cardinality(upto("anomalies")) \in Nat
          /\ Cardinality(upto("metric_rollups")) + 1 <= Cardinality(upto("anomalies"))
      <4> HIDE DEF upto
      <4> QED
        BY <3>1, <3>2, <3>3, SmallerSubset
    <3> HIDE DEF upto
    <3> QED
      BY <1>1, <1>2, <1>5, <1>6, <2>2, <3>4
  <2>3. CASE "anomalies" \in new /\ "metric_rollups" \notin new
    <3>1. "metric_rollups" \in Known
      BY <1>2, <2>3
    <3>2. slot'["metric_rollups"] = slot["metric_rollups"] /\ slot["metric_rollups"] # 0
          /\ slot["metric_rollups"] <= Cardinality(Known) /\ slot["metric_rollups"] \in Nat
      BY <1>1, <1>2, <1>3, <2>3, <3>1 DEF Known, SlotsInOrder
    <3>3. slot'["anomalies"] = Cardinality(Known) + Cardinality(upto("anomalies"))
      BY <1>1, <1>2, <2>3
    <3>4. Cardinality(upto("anomalies")) \in Nat /\ 1 <= Cardinality(upto("anomalies"))
      BY <1>6, <2>3
    <3> HIDE DEF upto
    <3> QED
      BY <1>5, <3>2, <3>3, <3>4
  <2> QED
    BY <2>1, <2>2, <2>3
<1> QED
  BY <1>9, <1>12, <1>13 DEF SlotsInOrder

\* A table whose insert is in progress can take its rows: when it is the
\* anomalies' turn the rollups of their windows are stored.
LEMMA AcceptBacked ==
  ASSUME TypeOK, Backed, InOrder, NEW t \in Tables, Current(t), Accept(t)
  PROVE  /\ \A u \in ReplacingTables : KeysIn(stored[u]) \subseteq KeysIn(stored'[u])
         /\ KeysIn(stored'["anomalies"]) \subseteq KeysIn(stored'["metric_rollups"])
<1>1. \A u \in ReplacingTables :
        KeysIn(stored'[u])
          = IF u = t THEN KeysIn(stored[u]) \cup KeysIn(buffers[u]) ELSE KeysIn(stored[u])
  BY AcceptKeys
<1>2. "anomalies" \in ReplacingTables /\ "metric_rollups" \in ReplacingTables
      /\ "anomalies" \in Tables /\ "metric_rollups" \in Tables
  BY DEF ReplacingTables, Tables
<1>3. ASSUME t = "anomalies"
      PROVE  KeysIn(buffers["anomalies"]) \subseteq KeysIn(stored["metric_rollups"])
  <2>1. CASE buffers["anomalies"] = {}
    BY <2>1 DEF KeysIn
  <2>2. CASE buffers["anomalies"] # {}
    <3>1. slot["anomalies"] # 0 /\ slot["metric_rollups"] < slot["anomalies"]
      BY <1>2, <2>2 DEF InOrder, SlotsInOrder
    <3>2. slot["anomalies"] \in Nat /\ slot["metric_rollups"] \in Nat
      BY <1>2 DEF TypeOK
    <3>3. "metric_rollups" \notin flushing
      BY <1>3, <3>1, <3>2 DEF Current
    <3>4. buffers["metric_rollups"] = {}
      BY <1>2, <3>3 DEF InOrder, Current
    <3>5. KeysIn(buffers["metric_rollups"]) = {}
      BY <3>4 DEF KeysIn
    <3> QED
      BY <3>5 DEF Backed
  <2> QED
    BY <2>1, <2>2
<1> QED
  BY <1>1, <1>2, <1>3 DEF Backed

\* Rows added, and perhaps a flush begun, keep both invariants.
LEMMA AddBacked ==
  ASSUME TypeOK, Backed, InOrder, NEW batch, AddRows(batch), UNCHANGED <<stored, alerts>>,
         batch["anomalies"] \subseteq batch["metric_rollups"],
         outgoing' \subseteq batch["anomalies"],
         phase' = "publish" => outgoing' = {},
         \/ BeginFlush(buffers') /\ phase' \in {"flush", "closing"}
         \/ UNCHANGED flushing /\ flushing = {}
  PROVE  Backed' /\ InOrder'
<1>1. /\ KeysIn(buffers'["anomalies"]) = KeysIn(buffers["anomalies"]) \cup KeysIn(batch["anomalies"])
      /\ KeysIn(buffers'["metric_rollups"])
           = KeysIn(buffers["metric_rollups"]) \cup KeysIn(batch["metric_rollups"])
  BY AddedKeys DEF AddRows, ReplacingTables
<1>2. /\ KeysIn(batch["anomalies"]) \subseteq KeysIn(batch["metric_rollups"])
      /\ KeysIn(outgoing') \subseteq KeysIn(batch["anomalies"])
      /\ KeysIn({}) = {}
  BY DEF KeysIn
<1>3. Backed'
  BY <1>1, <1>2 DEF Backed
<1>4. SlotsInOrder' /\ \A t \in Tables : slot[t] # 0 \/ batch[t] # {} => slot'[t] # 0
  BY SlotsStep DEF InOrder
<1>5. \A t \in Tables : buffers'[t] # {} => slot'[t] # 0
  <2>1. \A t \in Tables : buffers'[t] \subseteq buffers[t] \cup batch[t]
    BY DEF AddRows, AddedTo, Merge
  <2> QED
    BY <1>4, <2>1 DEF InOrder
<1>6. flushing' # {} =>
        phase' \in {"flush", "closing"} /\ \A t \in Tables \ flushing' : buffers'[t] = {}
  BY DEF BeginFlush, NonEmpty
<1> QED
  BY <1>3, <1>4, <1>5, <1>6 DEF InOrder

\* An insert keeps both invariants.
LEMMA InsertBacked ==
  ASSUME TypeOK, Backed, InOrder, NEW t \in Tables, NEW accepted \in BOOLEAN,
         InsertOk(t) \/ InsertRetry(t, accepted) \/ InsertRaise(t, accepted)
  PROVE  Backed' /\ InOrder'
<1> USE DEF kafkaVars, loopVars, windowVars, writerVars, tableVars, histVars
<1>1. /\ Current(t) /\ UNCHANGED <<alerts, slot>> /\ outgoing' \in {outgoing, {}}
      /\ phase \in {"flush", "closing"}
      /\ Accept(t) \/ UNCHANGED stored
  BY DEF InsertOk, InsertRetry, InsertRaise, WriterOk, WriterRetry, WriterRaise, Resume, Fail
<1>2. /\ \A u \in ReplacingTables : KeysIn(stored[u]) \subseteq KeysIn(stored'[u])
      /\ KeysIn(stored'["anomalies"]) \subseteq KeysIn(stored'["metric_rollups"])
  BY <1>1, AcceptBacked DEF Backed
<1>3. "anomalies" \in ReplacingTables /\ "metric_rollups" \in ReplacingTables
      /\ "anomalies" \in Tables /\ "metric_rollups" \in Tables
  BY DEF ReplacingTables, Tables
<1>4. KeysIn({}) = {} /\ KeysIn(outgoing') \subseteq KeysIn(outgoing)
  BY <1>1 DEF KeysIn
<1>5. CASE InsertOk(t)
  <2>1. /\ Accept(t) /\ flushing' = flushing \ {t}
        /\ \A u \in Tables : buffers'[u] = IF u = t THEN {} ELSE buffers[u]
    BY <1>5 DEF InsertOk, WriterOk, TypeOK, RowsPerTable
  <2>2. \A u \in ReplacingTables :
          KeysIn(stored'[u])
            = IF u = t THEN KeysIn(stored[u]) \cup KeysIn(buffers[u]) ELSE KeysIn(stored[u])
    BY <2>1, AcceptKeys
  <2>3. \A u \in ReplacingTables :
          KeysIn(buffers[u]) \cup KeysIn(stored[u]) = KeysIn(buffers'[u]) \cup KeysIn(stored'[u])
    BY <1>4, <2>1, <2>2 DEF Tables
  <2>4. KeysIn(buffers'["anomalies"]) \subseteq KeysIn(buffers["anomalies"])
    BY <1>3, <1>4, <2>1
  <2>5. ASSUME phase' = "publish" PROVE buffers'["anomalies"] = {}
    <3>1. flushing' = {}
      BY <1>1, <1>5, <2>5 DEF InsertOk
    <3> QED
      BY <1>1, <1>3, <2>1, <3>1 DEF InOrder, Current
  <2>6. Backed'
    BY <1>1, <1>2, <1>3, <1>4, <2>3, <2>4, <2>5 DEF Backed
  <2>7. flushing' # {} =>
          phase' \in {"flush", "closing"} /\ \A u \in Tables \ flushing' : buffers'[u] = {}
    BY <1>1, <1>5, <2>1 DEF InOrder, InsertOk, Current
  <2>8. \A u \in Tables : buffers'[u] # {} => slot'[u] # 0
    BY <1>1, <2>1 DEF InOrder
  <2> QED
    BY <1>1, <2>6, <2>7, <2>8 DEF InOrder, SlotsInOrder, Known
<1>6. CASE InsertRetry(t, accepted) \/ InsertRaise(t, accepted)
  <2>1. /\ UNCHANGED buffers
        /\ phase' # "publish"
        /\ flushing' # {} => flushing' = flushing /\ phase' = phase
    BY <1>1, <1>6 DEF InsertRetry, InsertRaise, WriterRetry, WriterRaise, Fail
  <2>2. Backed'
    BY <1>1, <1>2, <1>3, <1>4, <2>1 DEF Backed
  <2> QED
    BY <1>1, <2>1, <2>2 DEF InOrder, SlotsInOrder, Known
<1> QED
  BY <1>5, <1>6

\* A step that leaves the writer and the tables alone keeps both invariants.
LEMMA QuietBacked ==
  ASSUME Backed, InOrder, UNCHANGED <<buffers, stored, slot, flushing>>,
         outgoing' \subseteq outgoing,
         KeysIn(alerts') \subseteq KeysIn(stored["anomalies"]),
         phase' = "publish" => phase = "publish" \/ outgoing' = {},
         phase' = phase \/ phase \notin {"flush", "closing"}
  PROVE  Backed' /\ InOrder'
<1>1. KeysIn(outgoing') \subseteq KeysIn(outgoing) /\ KeysIn({}) = {}
  BY DEF KeysIn
<1>2. Backed'
  BY <1>1 DEF Backed
<1> QED
  BY <1>2 DEF InOrder, SlotsInOrder, Known

\* Every step keeps the rollups ahead of the anomalies and these ahead of the
\* alerts.
LEMMA BackedStep ==
  ASSUME IInv, Backed, InOrder, [Next]_vars
  PROVE  Backed' /\ InOrder'
<1> USE DEF kafkaVars, loopVars, windowVars, writerVars, tableVars, histVars
<1>1. TypeOK
  BY DEF IInv
<1>2. CASE Poll
  <2>1. PICK new \in [Partitions -> 0 .. MaxLog] : Process(new) \/ Undecodable(new) \/ Malformed(new)
    BY <1>2 DEF Poll
  <2>2. CASE Process(new)
    <3>1. PICK rollups, anomalies :
            /\ anomalies \subseteq rollups
            /\ AddRows([t \in Tables |->
                 CASE t = "metric_rollups" -> rollups
                   [] t = "anomalies" -> anomalies
                   [] OTHER -> RowsIn(Batch(new), t)])
            /\ outgoing' = anomalies
            /\ IF ShouldFlush(buffers') \/ rollups # {}
               THEN BeginFlush(buffers') /\ phase' = "flush"
               ELSE UNCHANGED flushing
      BY <2>2 DEF Process
    <3> DEFINE rows == [t \in Tables |->
                 CASE t = "metric_rollups" -> rollups
                   [] t = "anomalies" -> anomalies
                   [] OTHER -> RowsIn(Batch(new), t)]
    <3>2. rows["metric_rollups"] = rollups /\ rows["anomalies"] = anomalies
      BY DEF Tables, ReplacingTables, RecordTables
    <3>3. AddRows(rows)
      BY <3>1
    <3> HIDE DEF rows
    <3>4. phase = "poll" /\ UNCHANGED <<stored, alerts>>
      BY <2>2 DEF Process, Fetch
    <3>5. flushing = {}
      BY <3>4 DEF InOrder
    <3>6. phase' = "publish" => outgoing' = {}
      BY <3>1
    <3>7. \/ BeginFlush(buffers') /\ phase' \in {"flush", "closing"}
          \/ UNCHANGED flushing /\ flushing = {}
      BY <3>1, <3>5
    <3> QED
      BY <1>1, <3>1, <3>2, <3>3, <3>4, <3>6, <3>7, AddBacked
  <2>3. CASE Undecodable(new) \/ Malformed(new)
    <3>1. /\ UNCHANGED <<buffers, stored, slot, flushing, alerts>> /\ outgoing' = {}
          /\ phase = "poll" /\ phase' = "backoff"
      BY <2>3 DEF Undecodable, Malformed, Fail, Fetch
    <3> QED
      BY <3>1, QuietBacked DEF Backed
  <2> QED
    BY <2>1, <2>2, <2>3
<1>3. CASE Inserts
  BY <1>1, <1>3, InsertBacked DEF Inserts
<1>4. CASE Publishes
  <2>1. PICK a \in outgoing, accepted \in BOOLEAN : Publish(a) \/ PublishFails(a, accepted)
    BY <1>4 DEF Publishes
  <2>2. /\ UNCHANGED <<buffers, stored, slot, flushing>>
        /\ phase = "publish"
        /\ outgoing' \subseteq outgoing /\ alerts' \subseteq alerts \cup {a}
    BY <2>1 DEF Publish, PublishFails, Resume, Fail
  <2>3. KeysIn(alerts') \subseteq KeysIn(alerts) \cup KeysIn(outgoing)
    BY <2>2 DEF KeysIn
  <2>4. KeysIn(alerts') \subseteq KeysIn(stored["anomalies"])
    BY <2>2, <2>3 DEF Backed
  <2> QED
    BY <2>2, <2>4, QuietBacked
<1>5. CASE Stop
  <2> DEFINE rows == [t \in Tables |->
               IF t = "metric_rollups" THEN RollupsOf(windows, Open(windows)) ELSE {}]
  <2>1. rows["anomalies"] = {}
    BY DEF Tables, ReplacingTables
  <2>2. AddRows(rows)
    BY <1>5 DEF Stop
  <2> HIDE DEF rows
  <2>3. /\ UNCHANGED <<stored, alerts>> /\ outgoing' = {}
        /\ BeginFlush(buffers') /\ phase' = "closing"
    BY <1>5 DEF Stop
  <2> QED
    BY <1>1, <2>1, <2>2, <2>3, AddBacked
<1>6. CASE Crash \/ StopIdle \/ Exit
  <2>1. /\ UNCHANGED <<stored, alerts>> /\ phase' = "down" /\ outgoing' = {} /\ flushing' = {}
        /\ buffers' = [t \in Tables |-> {}] /\ slot' = [t \in Tables |-> 0]
    BY <1>6 DEF Crash, StopIdle, Exit, Die
  <2>2. "anomalies" \in Tables /\ "metric_rollups" \in Tables
    BY DEF ReplacingTables, Tables
  <2>3. KeysIn({}) = {}
    BY DEF KeysIn
  <2>4. Backed'
    BY <2>1, <2>2, <2>3 DEF Backed
  <2>5. Known' = {}
    BY <2>1 DEF Known
  <2>6. Cardinality(Known') = 0
    BY <2>5, FS_EmptySet
  <2> QED
    BY <2>1, <2>2, <2>4, <2>6 DEF InOrder, SlotsInOrder
<1>7. CASE \/ \E p \in Partitions, m \in Messages : Produce(p, m)
           \/ Commits \/ Start \/ Retry \/ IntervalElapses \/ UNCHANGED vars
  <2>1. /\ UNCHANGED <<buffers, stored, slot, flushing, alerts>>
        /\ outgoing' \subseteq outgoing
        /\ phase' = "publish" => phase = "publish"
        /\ phase' = phase \/ phase \notin {"flush", "closing"}
    BY <1>7 DEF Produce, Commits, Commit, CommitFails, Fail, Start, Retry, IntervalElapses,
                WriterInterval, vars
  <2> QED
    BY <2>1, QuietBacked DEF Backed
<1> QED
  BY <1>2, <1>3, <1>4, <1>5, <1>6, <1>7 DEF Next

\* An alert on the topic has a row in the anomalies table, and a row in the
\* anomalies table has a rollup of the same window, whatever insert failed,
\* was repeated or was cut short by the end of a process.
THEOREM AlertsBacked == Spec => []AlertsAreBacked
<1>1. Init => Backed /\ InOrder
  <2> SUFFICES ASSUME Init PROVE Backed /\ InOrder
    OBVIOUS
  <2>1. /\ alerts = {} /\ outgoing = {} /\ flushing = {} /\ phase = "down"
        /\ slot = [t \in Tables |-> 0]
        /\ buffers = [t \in Tables |-> {}] /\ stored = [t \in Tables |-> {}]
    BY DEF Init, WriterInit, TablesInit
  <2>2. "anomalies" \in Tables /\ "metric_rollups" \in Tables
    BY DEF ReplacingTables, Tables
  <2>3. KeysIn({}) = {}
    BY DEF KeysIn
  <2>4. Backed
    BY <2>1, <2>2, <2>3 DEF Backed
  <2>5. Known = {}
    BY <2>1 DEF Known
  <2>6. Cardinality(Known) = 0
    BY <2>5, FS_EmptySet
  <2> QED
    BY <2>1, <2>2, <2>4, <2>6 DEF InOrder, SlotsInOrder
<1>2. Backed => AlertsAreBacked
  BY DEF Backed, KeysIn, AlertsAreBacked
<1>3. IInv /\ Backed /\ InOrder /\ [Next]_vars => Backed' /\ InOrder'
  BY BackedStep
<1> QED
  BY Inductive, <1>1, <1>2, <1>3, PTL DEF Spec

(***************************************************************************)
(* When rollups are complete, in the first life of a process.  An event    *)
(* with a row is in its open window or a rollup of that window exists.  A  *)
(* window with a rollup is behind the watermark by the grace period, so an *)
(* event that still comes for it is late, and otherwise it stays empty.    *)
(***************************************************************************)
EventRows  == buffers["events"] \cup stored["events"]
RollupRows == buffers["metric_rollups"] \cup stored["metric_rollups"]

Completeness ==
  /\ \A r \in EventRows : InLog(r) /\ At(r).kind = "event"
  /\ \A row \in RollupRows : Passed(row.key, watermark)
  /\ \A row \in RollupRows : row.key \notin late => windows[row.key] = {}
  /\ \A r \in EventRows :
       \/ KeyOf(EventAt(r)) \in late
       \/ EventAt(r) \in windows[KeyOf(EventAt(r))]
       \/ \E row \in RollupRows : row.key = KeyOf(EventAt(r))
  /\ \A row \in RollupRows, r \in EventRows :
       row.key \notin late /\ KeyOf(EventAt(r)) = row.key => EventAt(r) \in row.events

Complete == stops = 0 => Completeness

\* The rows of the tables are records and rollups.
LEMMA RowTypes ==
  ASSUME TypeOK
  PROVE  /\ EventRows \subseteq Ids
         /\ RollupRows \subseteq Rollup
         /\ \A row \in RollupRows : row.key \in Keys
<1>1. "events" \in Tables /\ "events" \in RecordTables
      /\ "metric_rollups" \in Tables /\ "metric_rollups" \notin RecordTables
  BY DEF Tables, RecordTables, ReplacingTables
<1>2. EventRows \subseteq Ids /\ RollupRows \subseteq Rollup
  BY <1>1 DEF TypeOK, RowsPerTable, Row, EventRows, RollupRows
<1> QED
  BY <1>2 DEF Rollup

\* The event of a record of the log that is one is an event.
LEMMA EventAtType ==
  ASSUME TypeOK, NEW r \in Ids, InLog(r), At(r).kind = "event"
  PROVE  EventAt(r) \in Event /\ KeyOf(EventAt(r)) \in Keys /\ EventAt(r).ts = At(r).ts
<1>1. At(r) \in Message
  BY AtType, MessageAssumption
<1>2. At(r) \in [kind : {"event"}, service : Services, ts : Times]
  BY <1>1 DEF Message
<1>3. EventAt(r) \in Event
  BY <1>2, IdAssumption DEF EventAt, Event
<1> QED
  BY <1>3, KeyOfEvent DEF EventAt

\* A window behind the watermark stays behind it.
LEMMA PassedStays ==
  ASSUME NEW k \in Keys, NEW wm \in Times, NEW later \in Times, Passed(k, wm), wm <= later
  PROVE  Passed(k, later)
<1>1. wm \in Nat /\ later \in Nat /\ k[2] \in Nat
  BY TimeAssumption DEF Times, Keys
<1> QED
  BY <1>1, WindowAssumption, GraceAssumption DEF Passed, WindowEnd, NoWatermark

\* What a poll returns, whole or up to the record that raises, touches no
\* window that has a rollup, or its event is late.
LEMMA BatchIsLate ==
  ASSUME IInv, Completeness, NEW new \in [Partitions -> 0 .. MaxLog], Fetch(new),
         NEW done \in SUBSET Batch(new),
         NEW wm \in Advance(watermark, {e.ts : e \in EventsIn(done)})
  PROVE  \A row \in RollupRows :
           /\ Passed(row.key, wm)
           /\ row.key \notin late \cup Overdue(EventsIn(done)) =>
                /\ AddAll(windows, EventsIn(done))[row.key] = {}
                /\ \A e \in EventsIn(done) : KeyOf(e) # row.key
<1>1. TypeOK
  BY DEF IInv
<1>2. \A r \in done : r \in Ids /\ InLog(r)
  BY <1>1, BatchType
<1>3. \A e \in EventsIn(done) : e \in Event
  BY <1>1, <1>2, EventAtType DEF EventsIn
<1>4. watermark # NoWatermark => watermark \in Times /\ wm \in Times /\ watermark <= wm
  BY <1>1, <1>3, TimeAssumption DEF Advance, TypeOK, Event, Times, NoWatermark
<1> SUFFICES ASSUME NEW row \in RollupRows
             PROVE  /\ Passed(row.key, wm)
                    /\ row.key \notin late \cup Overdue(EventsIn(done)) =>
                         /\ AddAll(windows, EventsIn(done))[row.key] = {}
                         /\ \A e \in EventsIn(done) : KeyOf(e) # row.key
  OBVIOUS
<1>5. row.key \in Keys /\ Passed(row.key, watermark)
  BY <1>1, RowTypes DEF Completeness
<1>6. watermark # NoWatermark
  BY <1>5 DEF Passed
<1>7. WindowEnd(row.key) + GRACE_SECONDS <= watermark
  <2>1. watermark \in Nat /\ row.key[2] \in Nat
    BY <1>4, <1>5, <1>6, TimeAssumption DEF Times, Keys
  <2> QED
    BY <1>5, <2>1, WindowAssumption, GraceAssumption DEF Passed, WindowEnd
<1>8. ASSUME NEW e \in EventsIn(done), KeyOf(e) = row.key
      PROVE  row.key \in Overdue(EventsIn(done))
  BY <1>7, <1>8 DEF Overdue
<1>9. row.key \notin late => windows[row.key] = {}
  BY DEF Completeness
<1> QED
  BY <1>4, <1>5, <1>6, <1>8, <1>9, PassedStays DEF AddAll

\* A batch that can be read: its events join the windows, and those that pass
\* become rollups of all that has a row.
LEMMA ProcessComplete ==
  ASSUME IInv, Completeness, NEW new \in [Partitions -> 0 .. MaxLog], Process(new)
  PROVE  Completeness'
<1> USE DEF kafkaVars, tableVars
<1> DEFINE batch == Batch(new)
           open == AddAll(windows, EventsIn(batch))
<1>1. /\ TypeOK /\ Fetch(new) /\ UNCHANGED <<log, stored>>
      /\ late' = late \cup Overdue(EventsIn(batch))
      /\ batch \in SUBSET Ids
      /\ \A r \in batch : InLog(r)
      /\ EventsIn(batch) \in SUBSET Event
  BY BatchType DEF IInv, Process, Fetch
<1>2. PICK wm \in Advance(watermark, {e.ts : e \in EventsIn(batch)}),
           anomalies \in SUBSET Rollup :
        /\ windows' = Forget(open, Ready(open, wm))
        /\ watermark' = wm
        /\ AddRows([t \in Tables |->
             CASE t = "metric_rollups" -> RollupsOf(open, Ready(open, wm))
               [] t = "anomalies" -> anomalies
               [] OTHER -> RowsIn(batch, t)])
  <2>1. open \in [Keys -> SUBSET Event]
    BY <1>1, AddAllType DEF TypeOK
  <2>2. \A wm : Ready(open, wm) \in SUBSET Keys
    BY DEF Ready, Open
  <2>3. \A wm : RollupsOf(open, Ready(open, wm)) \in SUBSET Rollup
    <3> HIDE DEF open
    <3> QED
      BY <2>1, <2>2, RollupsOfType
  <2> QED
    BY <2>3 DEF Process
<1> DEFINE ready == Ready(open, wm)
           rollups == RollupsOf(open, ready)
<1>3. /\ "events" \in RecordTables /\ "events" \in Tables /\ "metric_rollups" \in Tables
      /\ "metric_rollups" \in ReplacingTables
  BY DEF RecordTables, ReplacingTables, Tables
<1>4. /\ buffers'["events"] = buffers["events"] \cup RowsIn(batch, "events")
      /\ buffers'["metric_rollups"] = Merge("metric_rollups", buffers["metric_rollups"], rollups)
  <2> DEFINE rows == [t \in Tables |->
               CASE t = "metric_rollups" -> rollups
                 [] t = "anomalies" -> anomalies
                 [] OTHER -> RowsIn(batch, t)]
  <2>1. rows["events"] = RowsIn(batch, "events") /\ rows["metric_rollups"] = rollups
    BY <1>3
  <2>2. buffers' = AddedTo(buffers, rows)
    BY <1>2 DEF AddRows
  <2> HIDE DEF rows, rollups, batch
  <2>3. buffers'["events"] = buffers["events"] \cup rows["events"]
    BY <1>3, <2>2, AddedRecords
  <2> QED
    BY <1>3, <2>1, <2>2, <2>3 DEF AddedTo
<1>5. EventRows' = EventRows \cup RowsIn(batch, "events")
  BY <1>1, <1>4 DEF EventRows
<1>6. /\ RollupRows' \subseteq RollupRows \cup rollups
      /\ KeysIn(RollupRows') = KeysIn(RollupRows) \cup KeysIn(rollups)
  <2> HIDE DEF rollups
  <2>1. RollupRows' \subseteq RollupRows \cup rollups
    BY <1>1, <1>4 DEF RollupRows, Merge
  <2>2. KeysIn(buffers'["metric_rollups"]) = KeysIn(buffers["metric_rollups"]) \cup KeysIn(rollups)
    BY <1>3, <1>4, MergeKeys
  <2>3. KeysIn(RollupRows) = KeysIn(buffers["metric_rollups"]) \cup KeysIn(stored["metric_rollups"])
    BY DEF KeysIn, RollupRows
  <2>4. KeysIn(RollupRows') = KeysIn(buffers'["metric_rollups"]) \cup KeysIn(stored["metric_rollups"])
    BY <1>1 DEF KeysIn, RollupRows
  <2> QED
    BY <2>1, <2>2, <2>3, <2>4
<1>7. \A r \in RowsIn(batch, "events") :
        /\ r \in batch /\ r \in Ids /\ InLog(r) /\ At(r).kind = "event"
        /\ EventAt(r) \in EventsIn(batch) /\ EventAt(r) \in open[KeyOf(EventAt(r))]
  <2> SUFFICES ASSUME NEW r \in RowsIn(batch, "events")
               PROVE  /\ r \in batch /\ r \in Ids /\ InLog(r) /\ At(r).kind = "event"
                      /\ EventAt(r) \in EventsIn(batch) /\ EventAt(r) \in open[KeyOf(EventAt(r))]
    OBVIOUS
  <2>1. r \in batch /\ At(r).kind = "event"
    BY DEF RowsIn, TableOf, Readable, YieldsRow
  <2>2. r \in Ids /\ InLog(r)
    BY <1>1, <2>1
  <2>3. EventAt(r) \in EventsIn(batch) /\ KeyOf(EventAt(r)) \in Keys
    BY <1>1, <2>1, <2>2, EventAtType DEF EventsIn
  <2> QED
    BY <2>1, <2>2, <2>3 DEF AddAll
<1>8. \A row \in RollupRows :
        /\ Passed(row.key, wm) /\ row.key \in Keys
        /\ row.key \notin late' =>
             /\ open[row.key] = {}
             /\ \A e \in EventsIn(batch) : KeyOf(e) # row.key
  <2>1. batch \in SUBSET Batch(new)
    OBVIOUS
  <2>2. \A row \in RollupRows : row.key \in Keys
    BY <1>1, RowTypes
  <2> HIDE DEF batch
  <2> QED
    BY <1>1, <2>1, <2>2, BatchIsLate
<1>9. \A row \in rollups : row.key \in ready /\ row.events = open[row.key]
  BY DEF RollupsOf
<1>10. \A k \in ready : k \in Keys /\ Passed(k, wm) /\ open[k] # {} /\ k \in KeysIn(rollups)
  <2>1. \A k \in ready : [key |-> k, events |-> open[k]] \in rollups
    BY DEF RollupsOf
  <2>2. ASSUME NEW k \in ready PROVE k \in KeysIn(rollups)
    <3> DEFINE row == [key |-> k, events |-> open[k]]
    <3>1. row \in rollups /\ row.key = k
      BY <2>1
    <3> HIDE DEF row, rollups
    <3> QED
      BY <3>1 DEF KeysIn
  <2> QED
    BY <2>2 DEF Ready, Open
<1>11. \A k \in Keys : windows'[k] = IF k \in ready THEN {} ELSE open[k]
  BY <1>2 DEF Forget
<1>12. \A r \in Ids : InLog(r) =>
         InLog(r)' /\ At(r)' = At(r) /\ EventAt(r)' = EventAt(r) /\ KeyOf(EventAt(r))' = KeyOf(EventAt(r))
  BY <1>1 DEF InLog, At, EventAt, KeyOf
<1>13. \A r \in EventRows :
         /\ r \in Ids /\ InLog(r) /\ At(r).kind = "event"
         /\ KeyOf(EventAt(r)) \in Keys
         /\ \/ KeyOf(EventAt(r)) \in late
            \/ EventAt(r) \in open[KeyOf(EventAt(r))]
            \/ \E row \in RollupRows : row.key = KeyOf(EventAt(r))
  <2> SUFFICES ASSUME NEW r \in EventRows
               PROVE  /\ r \in Ids /\ InLog(r) /\ At(r).kind = "event"
                      /\ KeyOf(EventAt(r)) \in Keys
                      /\ \/ KeyOf(EventAt(r)) \in late
                         \/ EventAt(r) \in open[KeyOf(EventAt(r))]
                         \/ \E row \in RollupRows : row.key = KeyOf(EventAt(r))
    OBVIOUS
  <2>1. r \in Ids /\ InLog(r) /\ At(r).kind = "event"
    BY <1>1, RowTypes DEF Completeness
  <2>2. KeyOf(EventAt(r)) \in Keys
    BY <1>1, <2>1, EventAtType
  <2>3. windows[KeyOf(EventAt(r))] \subseteq open[KeyOf(EventAt(r))]
    BY <2>2 DEF AddAll
  <2> QED
    BY <2>1, <2>2, <2>3 DEF Completeness
<1> HIDE DEF batch, open, ready, rollups
<1>14. \A r \in EventRows' :
         /\ r \in Ids /\ InLog(r) /\ At(r).kind = "event"
         /\ KeyOf(EventAt(r)) \in Keys
  <2>1. \A r \in RowsIn(batch, "events") : KeyOf(EventAt(r)) \in Keys
    BY <1>1, <1>7, EventAtType
  <2> QED
    BY <1>5, <1>7, <1>13, <2>1
<1>15. \A row \in RollupRows' :
         Passed(row.key, watermark') /\ (row.key \notin late' => windows'[row.key] = {})
  <2>1. \A row \in RollupRows :
          Passed(row.key, wm) /\ (row.key \notin late' => windows'[row.key] = {})
    BY <1>8, <1>11
  <2>2. \A row \in rollups : Passed(row.key, wm) /\ windows'[row.key] = {}
    BY <1>9, <1>10, <1>11
  <2> QED
    BY <1>2, <1>6, <2>1, <2>2
<1>16. \A r \in EventRows' :
         \/ KeyOf(EventAt(r)) \in late'
         \/ EventAt(r) \in windows'[KeyOf(EventAt(r))]
         \/ \E row \in RollupRows' : row.key = KeyOf(EventAt(r))
  <2> SUFFICES ASSUME NEW r \in EventRows'
               PROVE  \/ KeyOf(EventAt(r)) \in late'
                      \/ EventAt(r) \in windows'[KeyOf(EventAt(r))]
                      \/ KeyOf(EventAt(r)) \in KeysIn(RollupRows')
    BY DEF KeysIn
  <2>1. \/ KeyOf(EventAt(r)) \in late'
        \/ EventAt(r) \in open[KeyOf(EventAt(r))]
        \/ KeyOf(EventAt(r)) \in KeysIn(RollupRows)
    BY <1>1, <1>5, <1>7, <1>13 DEF KeysIn
  <2>2. KeyOf(EventAt(r)) \in Keys
    BY <1>14
  <2> QED
    BY <1>6, <1>10, <1>11, <2>1, <2>2
<1>17. \A row \in RollupRows', r \in EventRows' :
         row.key \notin late' /\ KeyOf(EventAt(r)) = row.key => EventAt(r) \in row.events
  <2> SUFFICES ASSUME NEW row \in RollupRows', NEW r \in EventRows',
                      row.key \notin late', KeyOf(EventAt(r)) = row.key
               PROVE  EventAt(r) \in row.events
    OBVIOUS
  <2>1. CASE row \in RollupRows
    <3>1. r \notin RowsIn(batch, "events")
      BY <1>7, <1>8, <2>1
    <3> QED
      BY <1>1, <1>5, <2>1, <3>1 DEF Completeness
  <2>2. CASE row \in rollups
    <3>1. row.events = open[row.key] /\ open[row.key] # {}
      BY <1>9, <1>10, <2>2
    <3>2. \A old \in RollupRows : old.key # row.key
      BY <1>8, <3>1
    <3> QED
      BY <1>1, <1>5, <1>7, <1>13, <3>1, <3>2
  <2> QED
    BY <1>6, <2>1, <2>2
<1>18. \A r \in EventRows' :
         /\ InLog(r)' /\ At(r)'.kind = "event"
         /\ EventAt(r)' = EventAt(r) /\ KeyOf(EventAt(r))' = KeyOf(EventAt(r))
  BY <1>12, <1>14
<1> QED
  BY <1>15, <1>16, <1>17, <1>18 DEF Completeness

\* A batch that raises leaves the rows as they are; the events before the
\* record that raised may be in the windows.
LEMMA SkipComplete ==
  ASSUME IInv, Completeness, NEW new \in [Partitions -> 0 .. MaxLog],
         Undecodable(new) \/ Malformed(new)
  PROVE  Completeness'
<1> USE DEF kafkaVars, windowVars, tableVars, writerVars
<1>1. /\ TypeOK /\ Fetch(new) /\ UNCHANGED <<log, buffers, stored>>
      /\ EventRows' = EventRows /\ RollupRows' = RollupRows
  BY DEF IInv, Undecodable, Malformed, Fetch, EventRows, RollupRows
<1>2. PICK done \in SUBSET Batch(new) :
        /\ \A k \in Keys : windows'[k] = AddAll(windows, EventsIn(done))[k]
        /\ watermark' \in Advance(watermark, {e.ts : e \in EventsIn(done)})
        /\ late' = late \cup Overdue(EventsIn(done))
  <2>1. CASE Malformed(new)
    BY <2>1 DEF Malformed, Before
  <2>2. CASE Undecodable(new)
    <3>1. EventsIn({}) = {} /\ {e.ts : e \in EventsIn({})} = {}
      BY DEF EventsIn
    <3>2. watermark \in Int
      BY <1>1, TimeAssumption DEF TypeOK, Times, NoWatermark
    <3>3. watermark' \in Advance(watermark, {e.ts : e \in EventsIn({})})
      BY <2>2, <3>1, <3>2 DEF Undecodable, Advance
    <3>4. \A k \in Keys : windows'[k] = AddAll(windows, EventsIn({}))[k]
      BY <2>2, <3>1 DEF Undecodable, AddAll
    <3>5. late' = late \cup Overdue(EventsIn({}))
      BY <2>2, <3>1 DEF Undecodable, Overdue
    <3> QED
      BY <3>3, <3>4, <3>5
  <2> QED
    BY <2>1, <2>2
<1>3. \A row \in RollupRows :
        /\ Passed(row.key, watermark')
        /\ row.key \notin late' => AddAll(windows, EventsIn(done))[row.key] = {}
  BY <1>1, <1>2, BatchIsLate
<1>4. \A row \in RollupRows : row.key \in Keys
  BY <1>1, RowTypes
<1>5. \A r \in Ids : InLog(r) =>
        InLog(r)' /\ At(r)' = At(r) /\ EventAt(r)' = EventAt(r) /\ KeyOf(EventAt(r))' = KeyOf(EventAt(r))
  BY <1>1 DEF InLog, At, EventAt, KeyOf
<1>6. \A r \in EventRows :
        /\ r \in Ids /\ InLog(r) /\ At(r).kind = "event"
        /\ KeyOf(EventAt(r)) \in Keys
  BY <1>1, RowTypes, EventAtType DEF Completeness
<1>7. \A k \in Keys : windows[k] \subseteq windows'[k]
  BY <1>2 DEF AddAll
<1>8. \A row \in RollupRows : row.key \notin late' => windows'[row.key] = {}
  BY <1>2, <1>3, <1>4
<1>9. \A r \in EventRows :
        \/ KeyOf(EventAt(r)) \in late'
        \/ EventAt(r) \in windows'[KeyOf(EventAt(r))]
        \/ \E row \in RollupRows : row.key = KeyOf(EventAt(r))
  BY <1>2, <1>6, <1>7 DEF Completeness
<1>10. \A r \in EventRows :
         /\ InLog(r)' /\ At(r)'.kind = "event"
         /\ EventAt(r)' = EventAt(r) /\ KeyOf(EventAt(r))' = KeyOf(EventAt(r))
  BY <1>5, <1>6
<1>11. \A row \in RollupRows, r \in EventRows :
         row.key \notin late' /\ KeyOf(EventAt(r)) = row.key => EventAt(r) \in row.events
  BY <1>2 DEF Completeness
<1> QED
  BY <1>1, <1>3, <1>8, <1>9, <1>10, <1>11 DEF Completeness

\* A step that moves rows from the buffers to the tables keeps a rollup of
\* every window that had one.
LEMMA RowsMoved ==
  ASSUME Completeness, UNCHANGED <<log, windows, watermark, late>>,
         EventRows' = EventRows, RollupRows' \subseteq RollupRows,
         KeysIn(RollupRows') = KeysIn(RollupRows)
  PROVE  Completeness'
<1>1. \A r : /\ (InLog(r)' <=> InLog(r)) /\ At(r)' = At(r)
             /\ EventAt(r)' = EventAt(r) /\ KeyOf(EventAt(r))' = KeyOf(EventAt(r))
  BY DEF InLog, At, EventAt, KeyOf
<1>2. \A r \in EventRows :
        \/ KeyOf(EventAt(r)) \in late
        \/ EventAt(r) \in windows[KeyOf(EventAt(r))]
        \/ KeyOf(EventAt(r)) \in KeysIn(RollupRows')
  BY DEF Completeness, KeysIn
<1>3. \A r \in EventRows :
        \/ KeyOf(EventAt(r)) \in late
        \/ EventAt(r) \in windows[KeyOf(EventAt(r))]
        \/ \E row \in RollupRows' : row.key = KeyOf(EventAt(r))
  BY <1>2 DEF KeysIn
<1> QED
  BY <1>1, <1>3 DEF Completeness

\* An insert moves the events of its table, and keeps the keys of the rollups.
LEMMA InsertComplete ==
  ASSUME IInv, Completeness, NEW t \in Tables, NEW accepted \in BOOLEAN,
         InsertOk(t) \/ InsertRetry(t, accepted) \/ InsertRaise(t, accepted)
  PROVE  Completeness'
<1> USE DEF kafkaVars, loopVars, windowVars, tableVars, histVars
<1>1. /\ TypeOK /\ UNCHANGED <<log, windows, watermark, late>>
      /\ \/ Accept(t) /\ (UNCHANGED buffers \/ buffers' = [buffers EXCEPT ![t] = {}])
         \/ UNCHANGED <<stored, buffers>>
  BY DEF IInv, InsertOk, InsertRetry, InsertRaise, WriterOk, WriterRetry, WriterRaise
<1>2. "events" \in Tables /\ "metric_rollups" \in Tables /\ "metric_rollups" \in ReplacingTables
      /\ "events" \notin ReplacingTables
  BY DEF Tables, RecordTables, ReplacingTables
<1>3. CASE UNCHANGED <<stored, buffers>>
  BY <1>1, <1>3, RowsMoved DEF EventRows, RollupRows
<1>4. CASE Accept(t) /\ (UNCHANGED buffers \/ buffers' = [buffers EXCEPT ![t] = {}])
  <2>1. \A u \in Tables :
          /\ stored'[u] = IF u = t THEN Merge(u, stored[u], buffers[u]) ELSE stored[u]
          /\ buffers'[u] = buffers[u] \/ (u = t /\ buffers'[u] = {})
    BY <1>1, <1>4 DEF Accept, TypeOK, RowsPerTable
  <2>2. Merge("events", stored["events"], buffers["events"]) = stored["events"] \cup buffers["events"]
    BY <1>2 DEF Merge, Replaces
  <2>3. EventRows' = EventRows
    BY <1>2, <2>1, <2>2 DEF EventRows
  <2> DEFINE b == buffers["metric_rollups"]
             s == stored["metric_rollups"]
  <2>4. /\ KeysIn(Merge("metric_rollups", s, b)) = KeysIn(s) \cup KeysIn(b)
        /\ Merge("metric_rollups", s, b) \subseteq s \cup b
    BY <1>2, MergeKeys DEF Merge
  <2>5. /\ RollupRows' \subseteq RollupRows
        /\ KeysIn(RollupRows') = KeysIn(RollupRows)
    <3>1. /\ KeysIn(RollupRows) = KeysIn(b) \cup KeysIn(s)
          /\ KeysIn(RollupRows') = KeysIn(buffers'["metric_rollups"]) \cup KeysIn(stored'["metric_rollups"])
          /\ KeysIn({}) = {}
      BY DEF KeysIn, RollupRows
    <3>2. CASE t = "metric_rollups"
      <4>1. stored'["metric_rollups"] = Merge("metric_rollups", s, b)
            /\ buffers'["metric_rollups"] \in {b, {}}
        BY <1>2, <2>1, <3>2
      <4>2. RollupRows' \subseteq RollupRows
        BY <2>4, <4>1 DEF RollupRows
      <4> HIDE DEF b, s
      <4>3. KeysIn(RollupRows') = KeysIn(RollupRows)
        BY <2>4, <3>1, <4>1
      <4> QED
        BY <4>2, <4>3
    <3>3. CASE t # "metric_rollups"
      <4>1. stored'["metric_rollups"] = s /\ buffers'["metric_rollups"] = b
        BY <1>2, <2>1, <3>3
      <4> QED
        BY <3>1, <4>1 DEF RollupRows
    <3> QED
      BY <3>2, <3>3
  <2> QED
    BY <1>1, <2>3, <2>5, RowsMoved
<1> QED
  BY <1>1, <1>3, <1>4

\* A record that is produced leaves those before it as they are.
LEMMA ProduceComplete ==
  ASSUME IInv, Completeness, NEW p \in Partitions, NEW m \in Messages, Produce(p, m)
  PROVE  Completeness'
<1> USE DEF loopVars, windowVars, writerVars, tableVars, histVars
<1>1. /\ TypeOK /\ UNCHANGED <<windows, watermark, late, buffers, stored>>
      /\ EventRows' = EventRows /\ RollupRows' = RollupRows
  BY DEF IInv, Produce, EventRows, RollupRows
<1>2. \A r \in Ids : InLog(r) => InLog(r)' /\ At(r)' = At(r)
  BY <1>1, LogGrows DEF Produce
<1>3. \A r \in Ids : InLog(r) =>
        EventAt(r)' = EventAt(r) /\ KeyOf(EventAt(r))' = KeyOf(EventAt(r))
  BY <1>2 DEF EventAt, KeyOf
<1>4. EventRows \subseteq Ids
  BY <1>1, RowTypes
<1> QED
  BY <1>1, <1>2, <1>3, <1>4 DEF Completeness

\* Every step of the first life keeps the rollups complete.
LEMMA CompleteStep ==
  ASSUME IInv, Complete, [Next]_vars
  PROVE  Complete'
<1> USE DEF kafkaVars, loopVars, windowVars, writerVars, tableVars, histVars
<1> SUFFICES ASSUME stops' = 0 PROVE Completeness'
  BY DEF Complete
<1>1. TypeOK /\ stops \in Nat
  BY BoundAssumption DEF IInv, TypeOK
<1>2. stops = 0 /\ ~Crash /\ ~Stop /\ ~StopIdle /\ ~Exit
  <2>1. ~Crash /\ ~Stop /\ ~StopIdle /\ ~Exit
    BY <1>1 DEF Crash, Stop, StopIdle, Exit, IInv, LossPerStop
  <2>2. ASSUME Poll PROVE stops = 0
    BY <2>2 DEF Poll, Process, Undecodable, Malformed
  <2>3. ASSUME Inserts \/ Publishes \/ Commits PROVE stops = 0
    BY <2>3 DEF Inserts, InsertOk, InsertRetry, InsertRaise, Publishes, Publish, PublishFails,
                Commits, Commit, CommitFails
  <2>4. ASSUME \/ \E p \in Partitions, m \in Messages : Produce(p, m)
               \/ Start \/ Retry \/ IntervalElapses \/ UNCHANGED vars
        PROVE  stops = 0
    BY <2>4 DEF Produce, Start, Retry, IntervalElapses, vars
  <2> QED
    BY <2>1, <2>2, <2>3, <2>4 DEF Next
<1>4. Completeness
  BY <1>2 DEF Complete
<1>5. CASE \E p \in Partitions, m \in Messages : Produce(p, m)
  BY <1>4, <1>5, ProduceComplete
<1>6. CASE Poll
  BY <1>4, <1>6, ProcessComplete, SkipComplete DEF Poll
<1>7. CASE Inserts
  BY <1>4, <1>7, InsertComplete DEF Inserts
<1>8. CASE Publishes \/ Commits \/ Start \/ Retry \/ IntervalElapses \/ UNCHANGED vars
  <2>1. UNCHANGED <<log, windows, watermark, late, buffers, stored>>
    BY <1>8 DEF Publishes, Publish, PublishFails, Commits, Commit, CommitFails, Start, Retry,
                IntervalElapses, WriterInterval, vars
  <2> QED
    BY <1>4, <2>1, RowsMoved DEF EventRows, RollupRows
<1> QED
  BY <1>2, <1>5, <1>6, <1>7, <1>8 DEF Next

\* While the first process lives, the rollup row of a window counts every event
\* of the window in the events table, unless one of them came after the grace
\* period: over any number of partitions and any order, through every failed or
\* repeated insert, every commit and every batch that raised.
THEOREM RollupsComplete == Spec => []RollupsAreComplete
<1>1. Init => Complete
  <2> SUFFICES ASSUME Init PROVE Completeness
    BY DEF Complete
  <2>1. /\ buffers = [t \in Tables |-> {}] /\ stored = [t \in Tables |-> {}]
        /\ watermark = NoWatermark
    BY DEF Init, WriterInit, TablesInit
  <2>2. EventRows = {} /\ RollupRows = {}
    BY <2>1 DEF EventRows, RollupRows, Tables, RecordTables, ReplacingTables
  <2> QED
    BY <2>1, <2>2 DEF Completeness
<1>2. Complete => RollupsAreComplete
  BY DEF Complete, Completeness, RollupsAreComplete, EventRows, RollupRows
<1>3. IInv /\ Complete /\ [Next]_vars => Complete'
  BY CompleteStep
<1> QED
  BY Inductive, <1>1, <1>2, <1>3, PTL DEF Spec
=============================================================================
