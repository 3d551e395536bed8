----------------------------- MODULE EngineGroup -----------------------------
(***************************************************************************)
(* Several metrics engines in one consumer group (engine.replicaCount of   *)
(* helm/values.yaml).  Records are keyed by query id, so the events of a   *)
(* service are spread over all partitions, and every engine that is        *)
(* assigned some of them keeps windows of its own and writes rollups of    *)
(* its own into the one row a (service, window) has in ClickHouse.         *)
(*                                                                         *)
(* The loop of an engine is that of MetricsEngine with less detail: its    *)
(* messages are valid events, of its rows only the rollups are followed,   *)
(* and the retries of one flush are one step.  The consumer is modelled as *)
(* the code uses it: the group assigns all partitions anew whenever a      *)
(* member comes or goes, in the background of whatever the loop awaits;    *)
(* every member then starts from the committed offsets and commits the     *)
(* positions of what it is assigned.                                       *)
(*                                                                         *)
(* A record that is read again is counted again, so the events in the      *)
(* windows carry the number of the reading in their id.  What producers    *)
(* send is chosen at the start: a poll returns some of it, so when a       *)
(* record was appended makes no difference.                                *)
(***************************************************************************)
EXTENDS Windows, Sequences

CONSTANTS
  Engines,         \* the replicas
  NoEngine,        \* owner of a partition nobody is assigned
  Partitions,      \* partitions of the subscribed topics
  Stamps,          \* timestamps producers send
  MaxLog,          \* bound: records per partition
  MaxGenerations,  \* bound: assignments of the partitions
  MaxEnds,         \* bound: crashes and shutdowns
  MaxFaults        \* bound: flushes and commits that fail

Message == [service : Services, ts : Stamps]
Records == Partitions \X (1 .. MaxLog)

ASSUME EngineAssumption == IsFiniteSet(Engines) /\ NoEngine \notin Engines
ASSUME StampAssumption  == Stamps \subseteq Times
ASSUME CountAssumption  ==
  MaxLog \in Nat /\ MaxGenerations \in Nat \ {0} /\ MaxEnds \in Nat /\ MaxFaults \in Nat
ASSUME ReadingAssumption ==
  EventIds = Partitions \X (1 .. MaxLog) \X (1 .. MaxGenerations)

VARIABLES
  log,         \* Kafka: the records of each partition, all there will be
  committed,   \* Kafka: the committed offsets of the group
  members,     \* the engines the current generation knows
  owner,       \* the member each partition is assigned to
  position,    \* the owner's position in the partition
  generation,  \* number of the assignment
  phase,       \* per engine: the await its loop is in, or "down"
  polled,      \* per engine: payloads of the iteration is not empty
  windows,     \* per engine: WindowedAggregator._windows
  watermark,   \* per engine: WindowedAggregator._watermark
  pending,     \* per engine: the rollups in its writer, by key
  table,       \* metric_rollups: the events the row of a key counts
  reads,       \* history: how often a record was polled
  replaced,    \* history: events whose row another row took the place of
  lost,        \* history: events that died with a process
  crashes, stops, faults

groupVars  == <<members, owner, position, generation>>
engineVars == <<phase, polled, windows, watermark, pending>>
tableVars  == <<table, replaced>>
vars == <<log, committed, groupVars, engineVars, tableVars, reads, lost, crashes, stops, faults>>

NoEvents == [k \in Keys |-> {}]

Live == {e \in Engines : phase[e] # "down"}

\* The assignor's shares differ by at most one partition.
Share(assignment, e) == Cardinality({p \in Partitions : assignment[p] = e})

Assignments(group) ==
  {f \in [Partitions -> group] : \A e, d \in group : Share(f, e) <= Share(f, d) + 1}

Init ==
  /\ log \in [Partitions -> UNION {[1 .. n -> Message] : n \in 0 .. MaxLog}]
  /\ committed = [p \in Partitions |-> 0]
  /\ members \in (SUBSET Engines) \ {{}}
  /\ owner \in Assignments(members)
  /\ position = committed
  /\ generation = 1
  /\ phase = [e \in Engines |-> IF e \in members THEN "poll" ELSE "down"]
  /\ polled = [e \in Engines |-> FALSE]
  /\ windows = [e \in Engines |-> NoEvents]
  /\ watermark = [e \in Engines |-> NoWatermark]
  /\ pending = [e \in Engines |-> NoEvents]
  /\ table = NoEvents
  /\ reads = [r \in Records |-> 0]
  /\ replaced = {} /\ lost = {}
  /\ crashes = 0 /\ stops = 0 /\ faults = 0

-----------------------------------------------------------------------------
(***************************************************************************)
(* The group.                                                              *)
(***************************************************************************)

\* An engine that starts has no partitions until the group has rebalanced.
Start(e) ==
  /\ phase[e] = "down"
  /\ phase' = [phase EXCEPT ![e] = "poll"]
  /\ UNCHANGED <<log, committed, groupVars, polled, windows, watermark, pending, tableVars,
                 reads, lost, crashes, stops, faults>>

NeedsRebalance == members # Live \/ \E p \in Partitions : owner[p] = NoEngine

CanRebalance == NeedsRebalance /\ Live # {} /\ generation < MaxGenerations

\* Faulty variant of Rebalance: members go on where the last owner was.
RebalanceFromPosition ==
  /\ CanRebalance
  /\ members' = Live
  /\ owner' \in Assignments(Live)
  /\ generation' = generation + 1
  /\ UNCHANGED <<log, committed, position, engineVars, tableVars, reads, lost,
                 crashes, stops, faults>>

Rebalance ==
  /\ CanRebalance
  /\ members' = Live
  /\ owner' \in Assignments(Live)
  /\ position' = committed
  /\ generation' = generation + 1
  /\ UNCHANGED <<log, committed, engineVars, tableVars, reads, lost, crashes, stops, faults>>

-----------------------------------------------------------------------------
(***************************************************************************)
(* An engine's loop.                                                       *)
(***************************************************************************)

EventsIn(held) == UNION {held[k] : k \in Keys}

EventOf(r) ==
  [id |-> <<r[1], r[2], reads[r] + 1>>, service |-> log[r[1]][r[2]].service,
   ts |-> log[r[1]][r[2]].ts]

Batch(new) == {r \in Records : position[r[1]] < r[2] /\ r[2] <= new[r[1]]}

\* getmany() returns records of the partitions assigned to e.
Fetch(e, new) ==
  /\ phase[e] = "poll"
  /\ \A p \in Partitions : position[p] <= new[p] /\ new[p] <= Len(log[p])
  /\ \A p \in Partitions : new[p] # position[p] => owner[p] = e
  /\ position' = new

\* The rollups of closed windows join those a failed flush left behind; a
\* newer one of the same window goes out after the older and replaces it.
AddRollups(e, held, keys) ==
  /\ pending' = [pending EXCEPT ![e] = [k \in Keys |-> IF k \in keys THEN held[k] ELSE @[k]]]
  /\ replaced' = replaced \cup UNION {pending[e][k] : k \in keys}

\* The await after the one in phase: rollups are flushed at once, and what a
\* failed flush left behind when the buffer is full or old enough.
Proceed(e, batch, keys) ==
  LET rest == IF batch # {} THEN "commit" ELSE "poll" IN
  /\ phase' \in {[phase EXCEPT ![e] = a] :
       a \in IF keys # {} THEN {"write"}
             ELSE IF EventsIn(pending[e]) # {} THEN {"write", rest} ELSE {rest}}
  /\ polled' = [polled EXCEPT ![e] = batch # {} /\ phase'[e] # "poll"]

Poll(e) ==
  \E new \in [Partitions -> 0 .. MaxLog] :
    LET batch  == Batch(new)
        events == {EventOf(r) : r \in batch}
        open   == AddAll(windows[e], events)
    IN
    /\ Fetch(e, new)
    /\ batch # {} \/ EventsIn(pending[e]) # {}
    /\ \E wm \in Advance(watermark[e], {v.ts : v \in events}) :
         /\ windows' = [windows EXCEPT ![e] = Forget(open, Ready(open, wm))]
         /\ watermark' = [watermark EXCEPT ![e] = wm]
         /\ AddRollups(e, open, Ready(open, wm))
         /\ Proceed(e, batch, Ready(open, wm))
    /\ reads' = [r \in Records |-> IF r \in batch THEN reads[r] + 1 ELSE reads[r]]
    /\ UNCHANGED <<log, committed, members, owner, generation, table, lost,
                   crashes, stops, faults>>

\* The rows of e are inserted: they take the place of the rows with their key.
Insert(e) ==
  /\ table' = [k \in Keys |-> IF pending[e][k] # {} THEN pending[e][k] ELSE table[k]]
  /\ replaced' = replaced \cup UNION {table[k] \ pending[e][k] : k \in {q \in Keys : pending[e][q] # {}}}

FailsOnce == faults < MaxFaults /\ faults' = faults + 1

Write(e) ==
  /\ phase[e] = "write"
  /\ Insert(e)
  /\ pending' = [pending EXCEPT ![e] = NoEvents]
  /\ phase' = [phase EXCEPT ![e] = IF polled[e] THEN "commit" ELSE "poll"]
  /\ UNCHANGED <<log, committed, groupVars, polled, windows, watermark, reads, lost,
                 crashes, stops, faults>>

\* Faulty variant of WriteFails: the batch is read again, by the same process.
WriteFailsAndRewinds(e, accepted) ==
  /\ phase[e] = "write"
  /\ FailsOnce
  /\ IF accepted THEN Insert(e) ELSE UNCHANGED tableVars
  /\ phase' = [phase EXCEPT ![e] = "poll"]
  /\ polled' = [polled EXCEPT ![e] = FALSE]
  /\ position' = [p \in Partitions |-> IF owner[p] = e THEN committed[p] ELSE position[p]]
  /\ UNCHANGED <<log, committed, members, owner, generation, windows, watermark, pending,
                 reads, lost, crashes, stops>>

\* The rows stay in the buffer, the position where it is.
WriteFails(e, accepted) ==
  /\ phase[e] = "write"
  /\ FailsOnce
  /\ IF accepted THEN Insert(e) ELSE UNCHANGED tableVars
  /\ phase' = [phase EXCEPT ![e] = "poll"]
  /\ polled' = [polled EXCEPT ![e] = FALSE]
  /\ UNCHANGED <<log, committed, groupVars, windows, watermark, pending, reads, lost,
                 crashes, stops>>

Own(e) == {p \in Partitions : owner[p] = e}

\* Faulty variant of CommitOf: the end of each partition is committed.
CommitOfLog(e) == [p \in Partitions |-> IF p \in Own(e) THEN Len(log[p]) ELSE committed[p]]

\* commit() stores the positions in the partitions e has now.
CommitOf(e) == [p \in Partitions |-> IF p \in Own(e) THEN position[p] ELSE committed[p]]

Commit(e) ==
  /\ phase[e] = "commit"
  /\ \/ committed' = CommitOf(e) /\ UNCHANGED faults
     \/ committed' \in {committed, CommitOf(e)} /\ FailsOnce
  /\ phase' = [phase EXCEPT ![e] = "poll"]
  /\ polled' = [polled EXCEPT ![e] = FALSE]
  /\ UNCHANGED <<log, groupVars, windows, watermark, pending, tableVars, reads, lost,
                 crashes, stops>>

-----------------------------------------------------------------------------
(***************************************************************************)
(* The end of a process.                                                   *)
(***************************************************************************)

Held(e) == EventsIn(windows[e]) \cup EventsIn(pending[e])

\* e is gone, with the events dead, and the group notices.
Depart(e, dead) ==
  /\ phase' = [phase EXCEPT ![e] = "down"]
  /\ polled' = [polled EXCEPT ![e] = FALSE]
  /\ windows' = [windows EXCEPT ![e] = NoEvents]
  /\ watermark' = [watermark EXCEPT ![e] = NoWatermark]
  /\ pending' = [pending EXCEPT ![e] = NoEvents]
  /\ members' = members \ {e}
  /\ owner' = [p \in Partitions |-> IF owner[p] = e THEN NoEngine ELSE owner[p]]
  /\ lost' = lost \cup dead
  /\ UNCHANGED <<log, committed, position, generation, reads>>

Crash(e) ==
  /\ phase[e] # "down"
  /\ crashes + stops < MaxEnds
  /\ crashes' = crashes + 1
  /\ Depart(e, Held(e))
  /\ UNCHANGED <<tableVars, stops, faults>>

\* Faulty variant of Stop: the windows are not flushed.
StopAtOnce(e) ==
  /\ phase[e] \in {"poll", "write", "commit"}
  /\ crashes + stops < MaxEnds
  /\ stops' = stops + 1
  /\ Depart(e, Held(e))
  /\ UNCHANGED <<tableVars, crashes, faults>>

\* The loop is cancelled at its await, and stop() makes a rollup of every open
\* window; without one it flushes nothing.
Stop(e) ==
  /\ phase[e] \in {"poll", "write", "commit"}
  /\ crashes + stops < MaxEnds
  /\ stops' = stops + 1
  /\ \/ /\ Open(windows[e]) = {}
        /\ Depart(e, Held(e))
        /\ UNCHANGED tableVars
     \/ /\ Open(windows[e]) # {}
        /\ AddRollups(e, windows[e], Open(windows[e]))
        /\ windows' = [windows EXCEPT ![e] = NoEvents]
        /\ phase' = [phase EXCEPT ![e] = "closing"]
        /\ polled' = [polled EXCEPT ![e] = FALSE]
        /\ UNCHANGED <<log, committed, groupVars, watermark, table, reads, lost>>
  /\ UNCHANGED <<crashes, faults>>

\* The flush of stop(), whose failure is suppressed, and consumer.stop().
Leave(e) ==
  /\ phase[e] = "closing"
  /\ \/ /\ Insert(e)
        /\ Depart(e, {})
        /\ UNCHANGED faults
     \/ /\ FailsOnce
        /\ Insert(e) \/ UNCHANGED tableVars
        /\ Depart(e, Held(e))
  /\ UNCHANGED <<crashes, stops>>

Loop(e) ==
  \/ Poll(e) \/ Write(e) \/ Commit(e) \/ Leave(e)
  \/ \E accepted \in BOOLEAN : WriteFails(e, accepted)

Next ==
  \/ Rebalance
  \/ \E e \in Engines : Start(e) \/ Loop(e) \/ Crash(e) \/ Stop(e)

Spec == Init /\ [][Next]_vars

\* Replicas that ended are started again, the group assigns its partitions,
\* and loops run on.
Fairness ==
  /\ WF_vars(Rebalance)
  /\ \A e \in Engines : WF_vars(Start(e)) /\ WF_vars(Loop(e))

FairSpec == Spec /\ Fairness

-----------------------------------------------------------------------------
(***************************************************************************)
(* Properties.                                                             *)
(***************************************************************************)

InLog(r) == r[2] <= Len(log[r[1]])
Committed(r) == r[2] <= committed[r[1]]

\* Some reading of r is among the events.
Counts(events, r) == \E v \in events : v.id[1] = r[1] /\ v.id[2] = r[2]

InMemory == UNION {Held(e) : e \in Engines}
Visible  == EventsIn(table)

\* Every variable has its type; partitions belong to members, positions lie
\* between what is committed and what there is.
GroupTypeOK ==
  /\ members \subseteq Live
  /\ \A p \in Partitions :
       /\ owner[p] \in members \cup {NoEngine}
       /\ committed[p] \in 0 .. position[p] /\ position[p] \in 0 .. Len(log[p])
  /\ windows \in [Engines -> [Keys -> SUBSET Event]]
  /\ pending \in [Engines -> [Keys -> SUBSET Event]]
  /\ table \in [Keys -> SUBSET Event]
  /\ watermark \in [Engines -> Times \cup {NoWatermark}]
  /\ phase \in [Engines -> {"down", "poll", "write", "commit", "closing"}]
  /\ \A e \in Engines : polled[e] => phase[e] \in {"write", "commit"}

\* A committed record was counted, and the count is in an engine's memory, in
\* the row of its window, in a row that another row took the place of, or died
\* with a process.  Whatever order members join, leave, fail and commit in,
\* there is no other way for it to go.  (run, commit, stop)
CommittedIsCounted ==
  \A r \in Records :
    Committed(r) => Counts(InMemory \cup Visible \cup replaced \cup lost, r)

\* A record is read once per assignment of the partitions at most: failed
\* flushes and commits do not count it twice, only changes of the group do.
ReadingsAreBounded == \A r \in Records : reads[r] <= generation

\* "On shutdown, open windows are flushed": if every process that ended was
\* shut down and no call failed, no count was lost with one, also when the
\* shutdown cut a flush short.  (stop)
CleanStopsLoseNothing == crashes = 0 /\ faults = 0 => lost = {}

\* A record whose offset is committed is never counted again, by no member.
CommittedIsNeverReread ==
  [][\A r \in Records : Committed(r) => reads'[r] = reads[r]]_vars

\* A record whose count dies with a process before its offset is committed is
\* counted again by whoever gets its partition: in the end every record has a
\* count that no process took with it, or was committed.
EventuallyCounted ==
  <>[](\A r \in Records :
         InLog(r) => Committed(r) \/ Counts(InMemory \cup Visible \cup replaced, r))

\* "The rollup is recomputed and replaces the old row": the row of a window
\* counts what the rows it replaced counted.
RollupsAreRecomputed ==
  \A v \in replaced : Counts(table[KeyOf(v)], v.id)
=============================================================================
