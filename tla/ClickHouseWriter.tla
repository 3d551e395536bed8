-------------------------- MODULE ClickHouseWriter --------------------------
(***************************************************************************)
(* services/metrics-engine/engine/clickhouse.py: rows buffered per table   *)
(* and inserted table by table, each insert retried up to max_retries      *)
(* times, together with what the tables of ClickHouse then hold.           *)
(*                                                                         *)
(* An insert ends in one of three ways: accepted, refused, or accepted     *)
(* with the answer lost (a timeout), which the writer cannot tell from     *)
(* refused.  The wall clock is reduced to the one thing should_flush reads *)
(* from it, whether the flush interval has elapsed since _last_flush.      *)
(***************************************************************************)
EXTENDS Integers, FiniteSets

CONSTANTS
  BATCH_SIZE,    \* batch_size
  MAX_RETRIES    \* max_retries

ASSUME SizeAssumption == BATCH_SIZE \in Nat \ {0} /\ MAX_RETRIES \in Nat \ {0}

\* The tables the engine writes (scripts/clickhouse/init.sql).  Plain MergeTree
\* tables keep every row inserted; a ReplacingMergeTree keeps one row for each
\* value of its sorting key, the newest.
RecordTables    == {"events", "query_results", "spans"}
ReplacingTables == {"metric_rollups", "anomalies"}
Tables          == RecordTables \cup ReplacingTables

Replaces(t, new, old) == t \in ReplacingTables /\ new.key = old.key

\* run() adds to the tables in this order.
CallOrder ==
  [t \in Tables |->
     CASE t = "events" -> 1 [] t = "metric_rollups" -> 2 [] t = "anomalies" -> 3
       [] t = "query_results" -> 4 [] OTHER -> 5]

VARIABLES
  buffers,   \* self._buffers: the rows of each table not yet known to be accepted
  slot,      \* position of a table among the keys of _buffers, 0 when absent
  elapsed,   \* clock() - _last_flush >= flush_interval
  flushing,  \* tables the flush() in progress has still to insert, {} outside one
  attempt,   \* attempt of the insert in progress, 0 outside a flush
  stored,    \* rows held by the tables of ClickHouse
  twice      \* rows accepted a second time by a table that keeps both copies

writerVars == <<buffers, slot, elapsed, flushing, attempt>>
tableVars  == <<stored, twice>>

\* A row joins the rows of a table.  Of two rows of a ReplacingMergeTree with
\* one sorting key the table keeps the newer: the older one is dropped where
\* they meet, in the buffer (both go out in one insert, in order) or stored.
Merge(t, old, new) == {r \in old : \A n \in new : ~Replaces(t, n, r)} \cup new

NonEmpty(bufs) == {t \in Tables : bufs[t] # {}}

Buffered(bufs) == UNION {{<<t, r>> : r \in bufs[t]} : t \in Tables}

\* add() called once per table, in CallOrder, with the rows of batch[t].
AddedTo(bufs, batch) == [t \in Tables |-> Merge(t, bufs[t], batch[t])]

SlotsAfter(slots, batch) ==
  LET known == {t \in Tables : slots[t] # 0}
      new   == {t \in Tables \ known : batch[t] # {}}
  IN  [t \in Tables |->
         IF t \in new
         THEN Cardinality(known) + Cardinality({u \in new : CallOrder[u] <= CallOrder[t]})
         ELSE slots[t]]

\* Faulty variants of ShouldFlush: on size only, and with a size test that is
\* off by one.
FlushOnSize(bufs) == NonEmpty(bufs) # {} /\ Cardinality(Buffered(bufs)) >= BATCH_SIZE

FlushWhenOver(bufs) ==
  /\ NonEmpty(bufs) # {}
  /\ Cardinality(Buffered(bufs)) > BATCH_SIZE \/ elapsed

ShouldFlush(bufs) ==
  /\ NonEmpty(bufs) # {}
  /\ Cardinality(Buffered(bufs)) >= BATCH_SIZE \/ elapsed

(***************************************************************************)
(* Steps.  A caller conjoins them with its own state.                      *)
(***************************************************************************)

WriterInit ==
  /\ buffers = [t \in Tables |-> {}]
  /\ slot = [t \in Tables |-> 0]
  /\ elapsed = FALSE
  /\ flushing = {}
  /\ attempt = 0

TablesInit ==
  /\ stored = [t \in Tables |-> {}]
  /\ twice = [t \in Tables |-> {}]

AddRows(batch) ==
  /\ buffers' = AddedTo(buffers, batch)
  /\ slot' = SlotsAfter(slot, batch)

\* flush() is entered with bufs in the buffers: _last_flush is reset before
\* anything is inserted, and the tables with rows are taken in dictionary order.
BeginFlush(bufs) ==
  /\ elapsed' = FALSE
  /\ flushing' = NonEmpty(bufs)
  /\ attempt' = IF NonEmpty(bufs) = {} THEN 0 ELSE 1

\* The table whose insert is in progress.
Current(t) == t \in flushing /\ \A u \in flushing : slot[t] <= slot[u]

Accept(t) ==
  /\ stored' = [stored EXCEPT ![t] = Merge(t, @, buffers[t])]
  /\ twice' = [twice EXCEPT ![t] =
       @ \cup {r \in buffers[t] \cap stored[t] : t \in RecordTables}]

\* Faulty variant of WriterOk: the accepted rows stay buffered.
KeepRows(t) ==
  /\ Current(t)
  /\ Accept(t)
  /\ flushing' = flushing \ {t}
  /\ attempt' = IF flushing' = {} THEN 0 ELSE 1
  /\ UNCHANGED <<buffers, slot, elapsed>>

WriterOk(t) ==
  /\ Current(t)
  /\ Accept(t)
  /\ buffers' = [buffers EXCEPT ![t] = {}]
  /\ flushing' = flushing \ {t}
  /\ attempt' = IF flushing' = {} THEN 0 ELSE 1
  /\ UNCHANGED <<slot, elapsed>>

\* The insert raised and is retried after a delay; accepted says whether the
\* rows reached the table all the same.
WriterRetry(t, accepted) ==
  /\ Current(t)
  /\ attempt < MAX_RETRIES
  /\ attempt' = attempt + 1
  /\ IF accepted THEN Accept(t) ELSE UNCHANGED tableVars
  /\ UNCHANGED <<buffers, slot, elapsed, flushing>>

\* Faulty variant of WriterRaise: the rows of the table are given up.
DropOnRaise(t, accepted) ==
  /\ Current(t)
  /\ attempt = MAX_RETRIES
  /\ flushing' = {}
  /\ attempt' = 0
  /\ IF accepted THEN Accept(t) ELSE UNCHANGED tableVars
  /\ buffers' = [buffers EXCEPT ![t] = {}]
  /\ UNCHANGED <<slot, elapsed>>

\* The last attempt raised: flush() re-raises with the rows of this table and
\* of the tables after it still buffered.
WriterRaise(t, accepted) ==
  /\ Current(t)
  /\ attempt = MAX_RETRIES
  /\ flushing' = {}
  /\ attempt' = 0
  /\ IF accepted THEN Accept(t) ELSE UNCHANGED tableVars
  /\ UNCHANGED <<buffers, slot, elapsed>>

\* Time passes until the flush interval has gone by.
WriterInterval ==
  /\ ~elapsed
  /\ elapsed' = TRUE
  /\ UNCHANGED <<buffers, slot, flushing, attempt, stored, twice>>
=============================================================================
