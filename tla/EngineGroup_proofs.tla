------------------------- MODULE EngineGroup_proofs -------------------------
(***************************************************************************)
(* What a group of engines keeps and loses, for every number of replicas,  *)
(* partitions and services, and every order of joins, ends and failures.   *)
(***************************************************************************)
EXTENDS EngineGroup, SequenceTheorems, TLAPS

Phases == {"down", "poll", "write", "commit", "closing"}

\* Every variable in its type, positions between the committed offset and the
\* end of the log, partitions with members.
TypeInv ==
  /\ \A p \in Partitions : log[p] \in Seq(Message) /\ Len(log[p]) <= MaxLog
  /\ committed \in [Partitions -> Nat] /\ position \in [Partitions -> Nat]
  /\ \A p \in Partitions : committed[p] <= position[p] /\ position[p] <= Len(log[p])
  /\ members \subseteq Live
  /\ owner \in [Partitions -> members \cup {NoEngine}]
  /\ generation \in 1 .. MaxGenerations
  /\ phase \in [Engines -> Phases] /\ polled \in [Engines -> BOOLEAN]
  /\ \A e \in Engines : polled[e] => phase[e] \in {"write", "commit"}
  /\ windows \in [Engines -> [Keys -> SUBSET Event]]
  /\ pending \in [Engines -> [Keys -> SUBSET Event]]
  /\ watermark \in [Engines -> Times \cup {NoWatermark}]
  /\ table \in [Keys -> SUBSET Event]
  /\ crashes \in Nat /\ stops \in Nat /\ faults \in Nat

\* A record the position has not passed was not read in this generation, one
\* it has passed was read in some generation.
ReadInv ==
  /\ reads \in [Records -> Nat]
  /\ \A r \in Records :
       /\ reads[r] <= generation
       /\ position[r[1]] < r[2] => reads[r] < generation
       /\ r[2] <= position[r[1]] => reads[r] > 0

Everywhere == InMemory \cup Visible \cup replaced \cup lost

\* What was read was counted, and the count is somewhere.
CountInv == \A r \in Records : reads[r] > 0 => Counts(Everywhere, r)

\* The window the watermark lies in is open.
HasCurrentWindow(e) ==
  \E k \in Keys : windows[e][k] # {} /\ k[2] <= watermark[e] /\ watermark[e] < WindowEnd(k)

\* An engine with a watermark has a window open, one with rows in its writer
\* has a watermark: so what a shutdown finds, it flushes.
ShutdownInv ==
  /\ \A e \in Engines :
       /\ phase[e] = "down" =>
            /\ windows[e] = NoEvents /\ pending[e] = NoEvents
            /\ watermark[e] = NoWatermark
       /\ phase[e] = "closing" => windows[e] = NoEvents
       /\ phase[e] \in {"poll", "write", "commit"} =>
            /\ watermark[e] # NoWatermark => HasCurrentWindow(e)
            /\ watermark[e] = NoWatermark => pending[e] = NoEvents
  /\ crashes = 0 /\ faults = 0 => lost = {}

IInv == TypeInv /\ ReadInv /\ CountInv /\ ShutdownInv

-----------------------------------------------------------------------------
(***************************************************************************)
(* Lemmas.                                                                 *)
(***************************************************************************)

\* A timestamp lies in its window (window_start_for).
LEMMA InItsWindow ==
  ASSUME NEW v \in Event
  PROVE  /\ KeyOf(v) \in Keys
         /\ KeyOf(v)[2] <= v.ts /\ v.ts < WindowEnd(KeyOf(v))
<1>1. v.ts \in Nat /\ v.ts \in Times /\ v.service \in Services
  BY TimeAssumption DEF Event, Times
<1>2. /\ v.ts % WINDOW_SECONDS \in 0 .. v.ts
      /\ v.ts % WINDOW_SECONDS < WINDOW_SECONDS
  BY <1>1, WindowAssumption, SMTT(30)
<1>3. WindowStart(v.ts) \in Times
  BY <1>1, <1>2, TimeAssumption DEF WindowStart, Times
<1>4. WindowStart(v.ts) <= v.ts /\ v.ts < WindowStart(v.ts) + WINDOW_SECONDS
  BY <1>1, <1>2, WindowAssumption DEF WindowStart
<1> QED
  BY <1>1, <1>3, <1>4 DEF KeyOf, Keys, WindowEnd

\* A window the watermark lies in has not passed (close_ready).
LEMMA CurrentHasNotPassed ==
  ASSUME NEW k \in Keys, NEW wm \in Times, wm < WindowEnd(k)
  PROVE  ~Passed(k, wm)
<1>1. WindowEnd(k) \in Int /\ wm \in Int
  BY WindowAssumption, TimeAssumption DEF WindowEnd, Keys, Times
<1> QED
  BY <1>1, GraceAssumption DEF Passed

\* A record within the log that was not read in this generation makes an event.
LEMMA EventOfRecord ==
  ASSUME TypeInv, ReadInv, NEW r \in Records,
         position[r[1]] < r[2], r[2] <= Len(log[r[1]])
  PROVE  /\ EventOf(r) \in Event
         /\ EventOf(r).id[1] = r[1] /\ EventOf(r).id[2] = r[2]
<1>1. r[1] \in Partitions /\ r[2] \in 1 .. MaxLog
  BY DEF Records
<1>2. log[r[1]] \in Seq(Message)
  BY <1>1 DEF TypeInv
<1>3. log[r[1]][r[2]] \in Message
  BY <1>1, <1>2, CountAssumption, LenProperties, ElementOfSeq
<1>4. reads[r] \in Nat /\ reads[r] < generation /\ generation \in 1 .. MaxGenerations
  BY DEF ReadInv, TypeInv
<1>5. reads[r] + 1 \in 1 .. MaxGenerations
  BY <1>4, CountAssumption
<1>6. <<r[1], r[2], reads[r] + 1>> \in EventIds
  BY <1>1, <1>5, ReadingAssumption
<1>7. log[r[1]][r[2]].service \in Services /\ log[r[1]][r[2]].ts \in Times
  BY <1>3, StampAssumption DEF Message
<1> QED
  BY <1>6, <1>7 DEF EventOf, Event

\* An event is among those of the windows where one of them holds it.
LEMMA InEventsIn ==
  ASSUME NEW f, NEW k \in Keys, NEW v \in f[k]
  PROVE  v \in EventsIn(f)
BY DEF EventsIn

\* The largest of a set of timestamps and the watermark before them.
LEMMA AdvanceValue ==
  ASSUME NEW wm \in Times \cup {NoWatermark}, NEW stamps \in SUBSET Times,
         NEW next \in Advance(wm, stamps)
  PROVE  /\ next \in Times \cup {NoWatermark}
         /\ next = wm \/ next \in stamps
         /\ stamps # {} => next # NoWatermark
         /\ wm # NoWatermark => next # NoWatermark
<1>1. \A t \in Times : t \in Int /\ 0 <= t
  BY TimeAssumption DEF Times
<1> QED
  BY <1>1 DEF Advance, NoWatermark

\* A poll reads records of the log that this generation had not read, and
\* turns them into events.
LEMMA PollReads ==
  ASSUME TypeInv, ReadInv, NEW e \in Engines, NEW new \in [Partitions -> 0 .. MaxLog],
         Fetch(e, new)
  PROVE  /\ \A r \in Batch(new) :
              /\ r \in Records /\ position[r[1]] < r[2] /\ r[2] <= Len(log[r[1]])
              /\ EventOf(r) \in Event
              /\ EventOf(r).id[1] = r[1] /\ EventOf(r).id[2] = r[2]
         /\ {EventOf(r) : r \in Batch(new)} \in SUBSET Event
         /\ position' \in [Partitions -> Nat]
         /\ \A p \in Partitions : position[p] <= position'[p] /\ position'[p] <= Len(log[p])
         /\ \A r \in Records : r[2] <= position'[r[1]] =>
              r[2] <= position[r[1]] \/ r \in Batch(new)
         /\ \A r \in Records : position'[r[1]] < r[2] =>
              r \notin Batch(new) /\ position[r[1]] < r[2]
<1>1. \A r \in Records : r[1] \in Partitions /\ r[2] \in Nat
  BY CountAssumption DEF Records
<1>2. position' = new /\ \A p \in Partitions : position[p] <= new[p] /\ new[p] <= Len(log[p])
  BY DEF Fetch
<1>3. \A p \in Partitions : position[p] \in Nat /\ new[p] \in Nat /\ Len(log[p]) \in Nat
  BY CountAssumption, LenProperties DEF TypeInv
<1>4. ASSUME NEW r \in Batch(new)
      PROVE  r \in Records /\ position[r[1]] < r[2] /\ r[2] <= Len(log[r[1]])
  BY <1>1, <1>2, <1>3, <1>4 DEF Batch
<1>5. ASSUME NEW r \in Batch(new)
      PROVE  EventOf(r) \in Event /\ EventOf(r).id[1] = r[1] /\ EventOf(r).id[2] = r[2]
  BY <1>4, <1>5, EventOfRecord
<1>6. position' \in [Partitions -> Nat]
  BY <1>2, CountAssumption
<1>7. \A r \in Records : r[2] <= position'[r[1]] =>
        r[2] <= position[r[1]] \/ r \in Batch(new)
  BY <1>1, <1>2, <1>3 DEF Batch
<1>8. \A r \in Records : position'[r[1]] < r[2] =>
        r \notin Batch(new) /\ position[r[1]] < r[2]
  BY <1>1, <1>2, <1>3 DEF Batch
<1> QED
  BY <1>2, <1>4, <1>5, <1>6, <1>7, <1>8

\* Inserting rows keeps the table a table of events.
LEMMA InsertType ==
  ASSUME TypeInv, NEW e \in Engines, Insert(e)
  PROVE  table' \in [Keys -> SUBSET Event]
BY DEF TypeInv, Insert

\* The end of a process keeps the types.
LEMMA DepartKeepsTypes ==
  ASSUME TypeInv, NEW e \in Engines, NEW dead, Depart(e, dead),
         table' \in [Keys -> SUBSET Event],
         crashes' \in Nat, stops' \in Nat, faults' \in Nat
  PROVE  TypeInv'
<1>1. NoEvents \in [Keys -> SUBSET Event]
  BY DEF NoEvents
<1>2. phase' \in [Engines -> Phases] /\ polled' \in [Engines -> BOOLEAN]
  BY DEF TypeInv, Depart, Phases
<1>3. \A d \in Engines : polled'[d] => phase'[d] \in {"write", "commit"}
  BY DEF TypeInv, Depart
<1>4. members' \subseteq Live'
  BY DEF TypeInv, Depart, Live
<1>5. owner' \in [Partitions -> members' \cup {NoEngine}]
  BY DEF TypeInv, Depart
<1>6. /\ windows' \in [Engines -> [Keys -> SUBSET Event]]
      /\ pending' \in [Engines -> [Keys -> SUBSET Event]]
  BY <1>1 DEF TypeInv, Depart
<1>7. watermark' \in [Engines -> Times \cup {NoWatermark}]
  BY DEF TypeInv, Depart
<1>8. UNCHANGED <<log, committed, position, generation>>
  BY DEF Depart
<1> QED
  BY <1>2, <1>3, <1>4, <1>5, <1>6, <1>7, <1>8 DEF TypeInv

-----------------------------------------------------------------------------
(***************************************************************************)
(* Types.                                                                  *)
(***************************************************************************)

\* The other steps of an engine and of the group.
OtherSteps ==
  \/ Rebalance
  \/ \E e \in Engines :
       \/ Start(e) \/ Write(e) \/ Commit(e) \/ Crash(e) \/ Stop(e) \/ Leave(e)
       \/ \E accepted \in BOOLEAN : WriteFails(e, accepted)

\* A poll keeps the types.
LEMMA PollKeepsTypes ==
  ASSUME TypeInv, ReadInv, NEW e \in Engines, Poll(e)
  PROVE  TypeInv'
<1>1. PICK new \in [Partitions -> 0 .. MaxLog] :
        /\ Fetch(e, new)
        /\ LET batch  == Batch(new)
               events == {EventOf(r) : r \in batch}
               open   == AddAll(windows[e], events)
           IN  \E wm \in Advance(watermark[e], {v.ts : v \in events}) :
                 /\ windows' = [windows EXCEPT ![e] = Forget(open, Ready(open, wm))]
                 /\ watermark' = [watermark EXCEPT ![e] = wm]
                 /\ AddRollups(e, open, Ready(open, wm))
                 /\ Proceed(e, batch, Ready(open, wm))
        /\ UNCHANGED <<log, committed, members, owner, generation, table, lost,
                       crashes, stops, faults>>
  BY DEF Poll
<1> DEFINE batch  == Batch(new)
           events == {EventOf(r) : r \in batch}
           open   == AddAll(windows[e], events)
<1>2. PICK wm \in Advance(watermark[e], {v.ts : v \in events}) :
        /\ windows' = [windows EXCEPT ![e] = Forget(open, Ready(open, wm))]
        /\ watermark' = [watermark EXCEPT ![e] = wm]
        /\ AddRollups(e, open, Ready(open, wm))
        /\ Proceed(e, batch, Ready(open, wm))
  BY <1>1
<1>3. events \in SUBSET Event
  BY <1>1, PollReads
<1>4. open \in [Keys -> SUBSET Event]
  BY <1>3 DEF TypeInv, AddAll
<1>5. Forget(open, Ready(open, wm)) \in [Keys -> SUBSET Event]
  <2> HIDE DEF open
  <2> QED BY <1>4 DEF Forget
<1>6. windows' \in [Engines -> [Keys -> SUBSET Event]]
  BY <1>2, <1>5 DEF TypeInv
<1>7. pending' \in [Engines -> [Keys -> SUBSET Event]]
  <2> HIDE DEF open
  <2> QED BY <1>2, <1>4 DEF TypeInv, AddRollups
<1>8. watermark' \in [Engines -> Times \cup {NoWatermark}]
  <2>1. {v.ts : v \in events} \in SUBSET Times
    BY <1>3 DEF Event
  <2>2. wm \in Times \cup {NoWatermark}
    <3>1. watermark[e] \in Times \cup {NoWatermark}
      BY DEF TypeInv
    <3> HIDE DEF events
    <3> QED BY <3>1, <2>1, AdvanceValue
  <2> QED
    BY <2>2, <1>2 DEF TypeInv
<1>9. /\ phase' \in [Engines -> Phases] /\ polled' \in [Engines -> BOOLEAN]
      /\ \A d \in Engines : polled'[d] => phase'[d] \in {"write", "commit"}
      /\ phase'[e] # "down" /\ \A d \in Engines : d # e => phase'[d] = phase[d]
  <2>1. PICK a \in {"write", "commit", "poll"} : phase' = [phase EXCEPT ![e] = a]
    BY <1>2 DEF Proceed
  <2>2. polled' = [polled EXCEPT ![e] = batch # {} /\ phase'[e] # "poll"]
    BY <1>2 DEF Proceed
  <2> HIDE DEF batch
  <2> QED
    BY <2>1, <2>2 DEF TypeInv, Phases
<1>10. members' \subseteq Live'
  BY <1>1, <1>9 DEF TypeInv, Live
<1>11. /\ position' \in [Partitions -> Nat]
       /\ \A p \in Partitions : position[p] <= position'[p] /\ position'[p] <= Len(log[p])
  BY <1>1, PollReads
<1>12. \A p \in Partitions : committed'[p] <= position'[p] /\ position'[p] <= Len(log'[p])
  <2>1. \A p \in Partitions : committed[p] \in Nat /\ position[p] \in Nat /\ position'[p] \in Nat
    BY <1>11 DEF TypeInv
  <2> QED
    BY <2>1, <1>1, <1>11 DEF TypeInv
<1>13. /\ \A p \in Partitions : log'[p] \in Seq(Message) /\ Len(log'[p]) <= MaxLog
       /\ committed' \in [Partitions -> Nat]
       /\ owner' \in [Partitions -> members' \cup {NoEngine}]
       /\ generation' \in 1 .. MaxGenerations
       /\ table' \in [Keys -> SUBSET Event]
       /\ crashes' \in Nat /\ stops' \in Nat /\ faults' \in Nat
  BY <1>1 DEF TypeInv
<1> HIDE DEF batch, events, open
<1> QED
  BY <1>6, <1>7, <1>8, <1>9, <1>10, <1>11, <1>12, <1>13 DEF TypeInv

\* Every other step of an engine and of the group keeps the types.
LEMMA OthersKeepTypes ==
  ASSUME TypeInv, OtherSteps
  PROVE  TypeInv'
<1>0. /\ \A p \in Partitions : committed[p] \in Nat /\ position[p] \in Nat /\ Len(log[p]) \in Nat
      /\ crashes + 1 \in Nat /\ stops + 1 \in Nat /\ faults + 1 \in Nat
  BY LenProperties DEF TypeInv
<1>1. CASE Rebalance
  <2>1. owner' \in [Partitions -> members' \cup {NoEngine}]
    BY <1>1 DEF Rebalance, Assignments
  <2>2. position' \in [Partitions -> Nat]
        /\ \A p \in Partitions : committed'[p] <= position'[p] /\ position'[p] <= Len(log'[p])
    BY <1>0, <1>1 DEF Rebalance, TypeInv
  <2>3. generation' \in 1 .. MaxGenerations
    BY <1>1, CountAssumption DEF Rebalance, CanRebalance, TypeInv
  <2> QED
    BY <1>1, <2>1, <2>2, <2>3
    DEF Rebalance, TypeInv, Live, engineVars, tableVars
<1>2. ASSUME NEW e \in Engines, Start(e) PROVE TypeInv'
  <2>1. phase' \in [Engines -> Phases] /\ members' \subseteq Live'
    BY <1>2 DEF Start, TypeInv, Live, Phases, groupVars
  <2>2. \A d \in Engines : polled'[d] => phase'[d] \in {"write", "commit"}
    BY <1>2 DEF Start, TypeInv
  <2> QED
    BY <1>2, <2>1, <2>2 DEF Start, TypeInv, groupVars, tableVars
<1>3. ASSUME NEW e \in Engines, Write(e) PROVE TypeInv'
  <2>1. table' \in [Keys -> SUBSET Event]
    BY <1>3, InsertType DEF Write
  <2>2. pending' \in [Engines -> [Keys -> SUBSET Event]]
    BY <1>3 DEF Write, TypeInv, NoEvents
  <2>3. /\ phase' \in [Engines -> Phases] /\ members' \subseteq Live'
        /\ \A d \in Engines : polled'[d] => phase'[d] \in {"write", "commit"}
    BY <1>3 DEF Write, TypeInv, Live, Phases, groupVars
  <2> QED
    BY <1>3, <2>1, <2>2, <2>3 DEF Write, TypeInv, groupVars
<1>4. ASSUME NEW e \in Engines, Commit(e) PROVE TypeInv'
  <2>1. /\ committed' \in [Partitions -> Nat]
        /\ \A p \in Partitions : committed'[p] <= position[p]
    <3>1. /\ CommitOf(e) \in [Partitions -> Nat]
          /\ \A p \in Partitions : CommitOf(e)[p] <= position[p]
      BY <1>0 DEF CommitOf, TypeInv
    <3>2. committed' \in {committed, CommitOf(e)}
      BY <1>4 DEF Commit
    <3> QED BY <3>1, <3>2 DEF TypeInv
  <2>2. /\ phase' \in [Engines -> Phases] /\ polled' \in [Engines -> BOOLEAN]
        /\ members' \subseteq Live'
        /\ \A d \in Engines : polled'[d] => phase'[d] \in {"write", "commit"}
    BY <1>4 DEF Commit, TypeInv, Live, Phases, groupVars
  <2>3. faults' \in Nat
    BY <1>0, <1>4 DEF Commit, FailsOnce, TypeInv
  <2> QED
    BY <1>4, <2>1, <2>2, <2>3 DEF Commit, TypeInv, groupVars, tableVars
<1>5. ASSUME NEW e \in Engines, Crash(e) PROVE TypeInv'
  <2>1. crashes' \in Nat
    BY <1>0, <1>5 DEF Crash
  <2> QED
    BY <1>5, <2>1, DepartKeepsTypes DEF Crash, TypeInv, tableVars
<1>6. ASSUME NEW e \in Engines, Stop(e) PROVE TypeInv'
  <2>0. stops' \in Nat
    BY <1>0, <1>6 DEF Stop
  <2>1. CASE Open(windows[e]) = {}
    <3>1. Depart(e, Held(e)) /\ UNCHANGED <<tableVars, crashes, faults>>
      BY <1>6, <2>1 DEF Stop
    <3> QED
      BY <2>0, <3>1, DepartKeepsTypes DEF TypeInv, tableVars
  <2>2. CASE Open(windows[e]) # {}
    <3>1. /\ AddRollups(e, windows[e], Open(windows[e]))
          /\ windows' = [windows EXCEPT ![e] = NoEvents]
          /\ phase' = [phase EXCEPT ![e] = "closing"]
          /\ polled' = [polled EXCEPT ![e] = FALSE]
          /\ UNCHANGED <<log, committed, groupVars, watermark, table, reads, lost>>
          /\ UNCHANGED <<crashes, faults>>
      BY <1>6, <2>2 DEF Stop
    <3>2. /\ windows' \in [Engines -> [Keys -> SUBSET Event]]
          /\ pending' \in [Engines -> [Keys -> SUBSET Event]]
      BY <3>1 DEF TypeInv, AddRollups, NoEvents
    <3>3. /\ phase' \in [Engines -> Phases] /\ polled' \in [Engines -> BOOLEAN]
          /\ members' \subseteq Live'
          /\ \A d \in Engines : polled'[d] => phase'[d] \in {"write", "commit"}
      BY <3>1 DEF TypeInv, Live, Phases, groupVars
    <3> QED
      BY <2>0, <3>1, <3>2, <3>3 DEF TypeInv, groupVars
  <2> QED
    BY <2>1, <2>2
<1>7. ASSUME NEW e \in Engines, Leave(e) PROVE TypeInv'
  <2>1. table' \in [Keys -> SUBSET Event] /\ faults' \in Nat
    BY <1>0, <1>7, InsertType DEF Leave, FailsOnce, TypeInv, tableVars
  <2>2. Depart(e, {}) \/ Depart(e, Held(e))
    BY <1>7 DEF Leave
  <2>3. crashes' \in Nat /\ stops' \in Nat
    BY <1>7 DEF Leave, TypeInv
  <2> QED
    BY <2>1, <2>2, <2>3, DepartKeepsTypes
<1>8. ASSUME NEW e \in Engines, NEW accepted \in BOOLEAN, WriteFails(e, accepted) PROVE TypeInv'
  <2>1. table' \in [Keys -> SUBSET Event] /\ faults' \in Nat
    BY <1>0, <1>8, InsertType DEF WriteFails, FailsOnce, TypeInv, tableVars
  <2>2. /\ phase' \in [Engines -> Phases] /\ polled' \in [Engines -> BOOLEAN]
        /\ members' \subseteq Live'
        /\ \A d \in Engines : polled'[d] => phase'[d] \in {"write", "commit"}
    BY <1>8 DEF WriteFails, TypeInv, Live, Phases, groupVars
  <2> QED
    BY <1>8, <2>1, <2>2 DEF WriteFails, TypeInv, groupVars
<1> QED
  BY <1>1, <1>2, <1>3, <1>4, <1>5, <1>6, <1>7, <1>8 DEF OtherSteps

-----------------------------------------------------------------------------
(***************************************************************************)
(* Readings.                                                               *)
(***************************************************************************)

\* A poll raises the count of what it reads by one, and moves the position
\* past it.
LEMMA PollKeepsReads ==
  ASSUME TypeInv, ReadInv, NEW e \in Engines, Poll(e)
  PROVE  /\ ReadInv'
         /\ \A r \in Records : Committed(r) => reads'[r] = reads[r]
<1>1. PICK new \in [Partitions -> 0 .. MaxLog] :
        /\ Fetch(e, new)
        /\ reads' = [r \in Records |-> IF r \in Batch(new) THEN reads[r] + 1 ELSE reads[r]]
        /\ UNCHANGED generation
  BY DEF Poll
<1>2. \A r \in Records : reads[r] \in Nat /\ r[1] \in Partitions /\ r[2] \in Nat
  BY CountAssumption DEF ReadInv, Records
<1>3. generation \in Nat
  BY CountAssumption DEF TypeInv
<1>4. \A r \in Batch(new) : reads[r] < generation
  BY <1>1, PollReads DEF ReadInv
<1>5. reads' \in [Records -> Nat]
  BY <1>1, <1>2
<1>6. ASSUME NEW r \in Records
      PROVE  /\ reads'[r] <= generation'
             /\ position'[r[1]] < r[2] => reads'[r] < generation'
             /\ r[2] <= position'[r[1]] => reads'[r] > 0
  <2>1. position'[r[1]] < r[2] => r \notin Batch(new) /\ position[r[1]] < r[2]
    BY <1>1, PollReads
  <2>2. r[2] <= position'[r[1]] => r[2] <= position[r[1]] \/ r \in Batch(new)
    BY <1>1, PollReads
  <2>3. reads'[r] = IF r \in Batch(new) THEN reads[r] + 1 ELSE reads[r]
    BY <1>1
  <2> QED
    BY <1>1, <1>2, <1>3, <1>4, <2>1, <2>2, <2>3 DEF ReadInv
<1>7. ASSUME NEW r \in Records, Committed(r) PROVE reads'[r] = reads[r]
  <2>1. committed[r[1]] <= position[r[1]] /\ committed[r[1]] \in Nat /\ position[r[1]] \in Nat
    BY <1>2 DEF TypeInv
  <2>2. r \notin Batch(new)
    BY <2>1, <1>2, <1>7 DEF Batch, Committed
  <2> QED
    BY <1>1, <2>2
<1> QED
  BY <1>5, <1>6, <1>7 DEF ReadInv

\* They read nothing, and only a new assignment moves a position, back to the
\* committed offset.
LEMMA OthersKeepReads ==
  ASSUME TypeInv, ReadInv, OtherSteps
  PROVE  ReadInv' /\ reads' = reads
<1>1. CASE Rebalance
  <2>1. \A r \in Records : /\ reads[r] \in Nat /\ r[2] \in Nat
                           /\ committed[r[1]] \in Nat /\ position[r[1]] \in Nat
                           /\ committed[r[1]] <= position[r[1]]
    BY CountAssumption DEF ReadInv, TypeInv, Records
  <2>2. generation' = generation + 1 /\ generation \in Nat
    BY <1>1, CountAssumption DEF Rebalance, TypeInv
  <2>3. reads' = reads /\ position' = committed
    BY <1>1 DEF Rebalance
  <2>4. ASSUME NEW r \in Records
        PROVE  /\ reads[r] <= generation' /\ reads[r] < generation'
               /\ r[2] <= committed[r[1]] => reads[r] > 0
    BY <2>1, <2>2 DEF ReadInv
  <2> QED
    BY <2>3, <2>4 DEF ReadInv
<1>2. CASE ~Rebalance
  <2>1. UNCHANGED <<reads, position, generation>>
    BY <1>2 DEF OtherSteps, Start, Write, Commit, Crash, Stop, Leave, WriteFails, Depart, groupVars
  <2> QED
    BY <2>1 DEF ReadInv
<1> QED
  BY <1>1, <1>2

-----------------------------------------------------------------------------
(***************************************************************************)
(* Counts.                                                                 *)
(***************************************************************************)

\* Where an event can be.
LEMMA WhereAnEventIs ==
  ASSUME NEW v
  PROVE  v \in Everywhere <=>
           \/ \E e \in Engines, k \in Keys : v \in windows[e][k] \/ v \in pending[e][k]
           \/ \E k \in Keys : v \in table[k]
           \/ v \in replaced \/ v \in lost
BY DEF Everywhere, InMemory, Held, Visible, EventsIn

\* An insert moves the rows of a writer into the table, and what the table
\* no longer counts into "replaced".
LEMMA InsertKeepsEvents ==
  ASSUME TypeInv, NEW e \in Engines, Insert(e)
  PROVE  /\ \A k \in Keys : pending[e][k] \subseteq table'[k]
         /\ \A k \in Keys : table[k] \subseteq table'[k] \cup replaced'
         /\ replaced \subseteq replaced'
<1>1. \A k \in Keys : table'[k] = IF pending[e][k] # {} THEN pending[e][k] ELSE table[k]
  BY DEF Insert
<1>2. replaced' = replaced \cup
        UNION {table[k] \ pending[e][k] : k \in {q \in Keys : pending[e][q] # {}}}
  BY DEF Insert
<1> QED
  BY <1>1, <1>2

\* Adding rollups to a writer moves the ones they replace into "replaced".
LEMMA AddRollupsKeepsEvents ==
  ASSUME TypeInv, NEW e \in Engines, NEW held, NEW keys \in SUBSET Keys,
         AddRollups(e, held, keys)
  PROVE  /\ \A k \in Keys : pending[e][k] \subseteq pending'[e][k] \cup replaced'
         /\ \A k \in keys : held[k] \subseteq pending'[e][k]
         /\ \A d \in Engines : d # e => pending'[d] = pending[d]
         /\ replaced \subseteq replaced'
<1>1. \A k \in Keys : pending'[e][k] = IF k \in keys THEN held[k] ELSE pending[e][k]
  BY DEF AddRollups, TypeInv
<1>2. \A d \in Engines : d # e => pending'[d] = pending[d]
  BY DEF AddRollups, TypeInv
<1>3. replaced' = replaced \cup UNION {pending[e][k] : k \in keys}
  BY DEF AddRollups
<1> QED
  BY <1>1, <1>2, <1>3

\* No event is anywhere and then nowhere.
LEMMA OthersKeepEvents ==
  ASSUME TypeInv, ShutdownInv, OtherSteps, NEW v \in Everywhere
  PROVE  v \in Everywhere'
<1> DEFINE InEngine(d) == \E k \in Keys : v \in windows[d][k] \/ v \in pending[d][k]
           InTable == \E k \in Keys : v \in table[k]
           Old == replaced \cup lost
<1>0. (\E d \in Engines : InEngine(d)) \/ InTable \/ v \in Old
  BY WhereAnEventIs
<1>1. \/ \E d \in Engines : InEngine(d)'
      \/ InTable' \/ v \in Old'
      => v \in Everywhere'
  BY DEF Everywhere, InMemory, Held, Visible, EventsIn
<1>2. CASE Rebalance
  BY <1>0, <1>1, <1>2 DEF Rebalance, engineVars, tableVars
<1>3. ASSUME NEW e \in Engines, Start(e) \/ Commit(e) PROVE v \in Everywhere'
  BY <1>0, <1>1, <1>3 DEF Start, Commit, tableVars
<1>4. ASSUME NEW e \in Engines, Write(e) PROVE v \in Everywhere'
  <2>1. /\ \A k \in Keys : pending[e][k] \subseteq table'[k]
        /\ \A k \in Keys : table[k] \subseteq table'[k] \cup replaced'
        /\ replaced \subseteq replaced'
    BY <1>4, InsertKeepsEvents DEF Write
  <2>2. /\ windows' = windows /\ lost' = lost
        /\ \A d \in Engines : d # e => pending'[d] = pending[d]
    BY <1>4 DEF Write, TypeInv
  <2> QED
    BY <1>0, <1>1, <2>1, <2>2
<1>5. ASSUME NEW e \in Engines, NEW accepted \in BOOLEAN, WriteFails(e, accepted)
      PROVE  v \in Everywhere'
  <2>1. /\ \A k \in Keys : table[k] \subseteq table'[k] \cup replaced'
        /\ replaced \subseteq replaced'
    BY <1>5, InsertKeepsEvents DEF WriteFails, tableVars
  <2>2. windows' = windows /\ lost' = lost /\ pending' = pending
    BY <1>5 DEF WriteFails
  <2> QED
    BY <1>0, <1>1, <2>1, <2>2
<1>6. ASSUME NEW e \in Engines, Crash(e) PROVE v \in Everywhere'
  <2>1. /\ lost' = lost \cup Held(e) /\ UNCHANGED <<table, replaced>>
        /\ \A d \in Engines : d # e => windows'[d] = windows[d] /\ pending'[d] = pending[d]
    BY <1>6 DEF Crash, Depart, TypeInv, tableVars
  <2>2. InEngine(e) => v \in Held(e)
    BY DEF Held, EventsIn
  <2> QED
    BY <1>0, <1>1, <2>1, <2>2
<1>7. ASSUME NEW e \in Engines, Stop(e) PROVE v \in Everywhere'
  <2>1. CASE Open(windows[e]) = {}
    <3>1. /\ lost' = lost \cup Held(e) /\ UNCHANGED <<table, replaced>>
          /\ \A d \in Engines : d # e => windows'[d] = windows[d] /\ pending'[d] = pending[d]
      BY <1>7, <2>1 DEF Stop, Depart, TypeInv, tableVars
    <3>2. InEngine(e) => v \in Held(e)
      BY DEF Held, EventsIn
    <3> QED
      BY <1>0, <1>1, <3>1, <3>2
  <2>2. CASE Open(windows[e]) # {}
    <3>1. /\ AddRollups(e, windows[e], Open(windows[e]))
          /\ UNCHANGED <<table, lost>>
          /\ \A d \in Engines : d # e => windows'[d] = windows[d]
      BY <1>7, <2>2 DEF Stop, TypeInv
    <3>2. Open(windows[e]) \in SUBSET Keys
          /\ \A k \in Keys : v \in windows[e][k] => k \in Open(windows[e])
      BY DEF Open
    <3>3. /\ \A k \in Keys : pending[e][k] \subseteq pending'[e][k] \cup replaced'
          /\ \A k \in Open(windows[e]) : windows[e][k] \subseteq pending'[e][k]
          /\ \A d \in Engines : d # e => pending'[d] = pending[d]
          /\ replaced \subseteq replaced'
      BY <3>1, <3>2, AddRollupsKeepsEvents
    <3> QED
      BY <1>0, <1>1, <3>1, <3>2, <3>3
  <2> QED
    BY <2>1, <2>2
<1>8. ASSUME NEW e \in Engines, Leave(e) PROVE v \in Everywhere'
  <2>1. \A k \in Keys : v \notin windows[e][k]
    BY <1>8 DEF Leave, ShutdownInv, NoEvents
  <2>2. \/ Insert(e) /\ Depart(e, {})
        \/ (Insert(e) \/ UNCHANGED tableVars) /\ Depart(e, Held(e))
    BY <1>8 DEF Leave
  <2>3. /\ \A d \in Engines : d # e => windows'[d] = windows[d] /\ pending'[d] = pending[d]
        /\ lost \subseteq lost'
    BY <2>2 DEF Depart, TypeInv
  <2>4. /\ \A k \in Keys : table[k] \subseteq table'[k] \cup replaced'
        /\ replaced \subseteq replaced'
    BY <2>2, InsertKeepsEvents DEF tableVars
  <2>5. InEngine(e) => InTable' \/ v \in lost'
    <3>1. CASE Insert(e) /\ Depart(e, {})
      BY <2>1, <3>1, InsertKeepsEvents
    <3>2. CASE Depart(e, Held(e))
      BY <3>2 DEF Depart, Held, EventsIn
    <3> QED
      BY <2>2, <3>1, <3>2
  <2> QED
    BY <1>0, <1>1, <2>3, <2>4, <2>5
<1> QED
  BY <1>2, <1>3, <1>4, <1>5, <1>6, <1>7, <1>8 DEF OtherSteps

\* An event is in an engine, in the table or gone: it is somewhere.
LEMMA SomewhereAfter ==
  ASSUME NEW v,
         \/ \E d \in Engines, k \in Keys : v \in windows'[d][k] \/ v \in pending'[d][k]
         \/ \E k \in Keys : v \in table'[k]
         \/ v \in replaced' \/ v \in lost'
  PROVE  v \in Everywhere'
BY DEF Everywhere, InMemory, Held, Visible, EventsIn

\* A poll loses no event and adds those of the records it read.
LEMMA PollKeepsEvents ==
  ASSUME TypeInv, ReadInv, NEW e \in Engines, Poll(e)
  PROVE  \E new \in [Partitions -> 0 .. MaxLog] :
           /\ Fetch(e, new)
           /\ reads' = [r \in Records |-> IF r \in Batch(new) THEN reads[r] + 1 ELSE reads[r]]
           /\ \A v \in Everywhere : v \in Everywhere'
           /\ \A r \in Batch(new) : EventOf(r) \in Everywhere'
<1>1. PICK new \in [Partitions -> 0 .. MaxLog] :
        /\ Fetch(e, new)
        /\ LET batch  == Batch(new)
               events == {EventOf(r) : r \in batch}
               open   == AddAll(windows[e], events)
           IN  \E wm \in Advance(watermark[e], {v.ts : v \in events}) :
                 /\ windows' = [windows EXCEPT ![e] = Forget(open, Ready(open, wm))]
                 /\ AddRollups(e, open, Ready(open, wm))
        /\ reads' = [r \in Records |-> IF r \in Batch(new) THEN reads[r] + 1 ELSE reads[r]]
        /\ UNCHANGED <<table, lost>>
  BY DEF Poll
<1> DEFINE events == {EventOf(r) : r \in Batch(new)}
           open   == AddAll(windows[e], events)
<1>2. PICK wm :
        /\ windows' = [windows EXCEPT ![e] = Forget(open, Ready(open, wm))]
        /\ AddRollups(e, open, Ready(open, wm))
  BY <1>1
<1>3. \A k \in Keys : /\ windows[e][k] \subseteq open[k]
                      /\ \A v \in events : KeyOf(v) = k => v \in open[k]
  BY DEF AddAll
<1>4. events \in SUBSET Event
  BY <1>1, PollReads
<1> DEFINE keys == Ready(open, wm)
<1>5. keys \in SUBSET Keys
  BY DEF Ready, Open
<1> HIDE DEF open, events
<1>6. \A k \in Keys : k \notin keys => windows'[e][k] = open[k]
  BY <1>2 DEF TypeInv, Forget
<1>7. \A d \in Engines : d # e => windows'[d] = windows[d]
  BY <1>2 DEF TypeInv
<1> HIDE DEF keys
<1>8. AddRollups(e, open, keys)
  BY <1>2 DEF keys
<1>9. /\ \A k \in Keys : pending[e][k] \subseteq pending'[e][k] \cup replaced'
      /\ \A k \in keys : open[k] \subseteq pending'[e][k]
      /\ \A d \in Engines : d # e => pending'[d] = pending[d]
      /\ replaced \subseteq replaced'
  BY <1>5, <1>8, AddRollupsKeepsEvents
<1>10. ASSUME NEW k \in Keys, NEW v \in open[k] PROVE v \in Everywhere'
  <2>1. v \in windows'[e][k] \/ v \in pending'[e][k]
    BY <1>6, <1>9
  <2> QED BY <2>1, SomewhereAfter
<1>11. ASSUME NEW v \in Everywhere PROVE v \in Everywhere'
  <2>1. CASE \E k \in Keys : v \in windows[e][k]
    BY <2>1, <1>3, <1>10
  <2>2. CASE \E k \in Keys : v \in pending[e][k]
    BY <2>2, <1>9, SomewhereAfter
  <2>3. CASE \E d \in Engines, k \in Keys : d # e /\ (v \in windows[d][k] \/ v \in pending[d][k])
    BY <2>3, <1>7, <1>9, SomewhereAfter
  <2>4. CASE (\E k \in Keys : v \in table[k]) \/ v \in replaced \/ v \in lost
    BY <2>4, <1>1, <1>9, SomewhereAfter
  <2> QED
    BY <2>1, <2>2, <2>3, <2>4, WhereAnEventIs
<1>12. ASSUME NEW r \in Batch(new) PROVE EventOf(r) \in Everywhere'
  <2>1. EventOf(r) \in events
    BY DEF events
  <2>2. KeyOf(EventOf(r)) \in Keys
    BY <2>1, <1>4, InItsWindow
  <2> QED
    BY <2>1, <2>2, <1>3, <1>10
<1> QED
  BY <1>1, <1>11, <1>12

\* What was read stays counted.
LEMMA CountsStay ==
  ASSUME TypeInv, ReadInv, ShutdownInv, CountInv, Next
  PROVE  CountInv'
<1>1. ASSUME NEW e \in Engines, Poll(e) PROVE CountInv'
  <2>1. PICK new \in [Partitions -> 0 .. MaxLog] :
          /\ Fetch(e, new)
          /\ reads' = [r \in Records |-> IF r \in Batch(new) THEN reads[r] + 1 ELSE reads[r]]
          /\ \A v \in Everywhere : v \in Everywhere'
          /\ \A r \in Batch(new) : EventOf(r) \in Everywhere'
    BY <1>1, PollKeepsEvents
  <2>2. \A r \in Batch(new) : EventOf(r).id[1] = r[1] /\ EventOf(r).id[2] = r[2]
    BY <2>1, PollReads
  <2> SUFFICES ASSUME NEW r \in Records, reads'[r] > 0
               PROVE  \E v \in Everywhere' : v.id[1] = r[1] /\ v.id[2] = r[2]
    BY DEF CountInv, Counts
  <2>3. CASE r \in Batch(new)
    BY <2>1, <2>2, <2>3
  <2>4. CASE r \notin Batch(new)
    <3>1. reads[r] > 0
      BY <2>1, <2>4
    <3> QED
      BY <3>1, <2>1 DEF CountInv, Counts
  <2> QED BY <2>3, <2>4
<1>2. CASE OtherSteps
  <2>1. reads' = reads
    BY <1>2, OthersKeepReads
  <2>2. \A v \in Everywhere : v \in Everywhere'
    BY <1>2, OthersKeepEvents
  <2> HIDE DEF Everywhere
  <2> QED
    BY <2>1, <2>2 DEF CountInv, Counts
<1> QED
  BY <1>1, <1>2 DEF Next, Loop, OtherSteps

-----------------------------------------------------------------------------
(***************************************************************************)
(* Shutdowns.                                                              *)
(***************************************************************************)

\* What ShutdownInv says of one engine.
Closable(d) ==
  /\ phase[d] = "down" =>
       windows[d] = NoEvents /\ pending[d] = NoEvents /\ watermark[d] = NoWatermark
  /\ phase[d] = "closing" => windows[d] = NoEvents
  /\ phase[d] \in {"poll", "write", "commit"} =>
       /\ watermark[d] # NoWatermark => HasCurrentWindow(d)
       /\ watermark[d] = NoWatermark => pending[d] = NoEvents

\* A poll leaves the window of its watermark open.
LEMMA PollKeepsShutdown ==
  ASSUME TypeInv, ReadInv, ShutdownInv, NEW e \in Engines, Poll(e)
  PROVE  ShutdownInv'
<1>1. PICK new \in [Partitions -> 0 .. MaxLog] :
        /\ Fetch(e, new)
        /\ LET batch  == Batch(new)
               events == {EventOf(r) : r \in batch}
               open   == AddAll(windows[e], events)
           IN  \E wm \in Advance(watermark[e], {v.ts : v \in events}) :
                 /\ windows' = [windows EXCEPT ![e] = Forget(open, Ready(open, wm))]
                 /\ watermark' = [watermark EXCEPT ![e] = wm]
                 /\ AddRollups(e, open, Ready(open, wm))
                 /\ Proceed(e, batch, Ready(open, wm))
        /\ UNCHANGED <<lost, crashes, faults>>
  BY DEF Poll
<1> DEFINE batch  == Batch(new)
           events == {EventOf(r) : r \in batch}
           open   == AddAll(windows[e], events)
<1>2. PICK wm \in Advance(watermark[e], {v.ts : v \in events}) :
        /\ windows' = [windows EXCEPT ![e] = Forget(open, Ready(open, wm))]
        /\ watermark' = [watermark EXCEPT ![e] = wm]
        /\ AddRollups(e, open, Ready(open, wm))
        /\ Proceed(e, batch, Ready(open, wm))
  BY <1>1
<1>3. events \in SUBSET Event
  BY <1>1, PollReads
<1>4. /\ wm \in Times \cup {NoWatermark}
      /\ wm = watermark[e] \/ wm \in {v.ts : v \in events}
      /\ {v.ts : v \in events} # {} => wm # NoWatermark
      /\ watermark[e] # NoWatermark => wm # NoWatermark
  <2>1. {v.ts : v \in events} \in SUBSET Times
    BY <1>3 DEF Event
  <2>2. watermark[e] \in Times \cup {NoWatermark}
    BY DEF TypeInv
  <2> HIDE DEF events
  <2> QED BY <2>1, <2>2, AdvanceValue
<1>5. \A k \in Keys : /\ windows[e][k] \subseteq open[k]
                      /\ \A v \in events : KeyOf(v) = k => v \in open[k]
  BY DEF AddAll
<1>6. phase[e] = "poll" /\ Closable(e)
  BY <1>1 DEF Fetch, ShutdownInv, Closable
<1> DEFINE keys == Ready(open, wm)
<1>7. \A k \in keys : k \in Keys /\ open[k] # {} /\ Passed(k, wm)
  BY DEF Ready, Open
<1> HIDE DEF batch, events, open
<1>8. \A k \in Keys : k \notin keys => windows'[e][k] = open[k]
  BY <1>2 DEF TypeInv, Forget
<1>9. \A k \in Keys : pending'[e][k] = IF k \in keys THEN open[k] ELSE pending[e][k]
  BY <1>2 DEF TypeInv, AddRollups
<1>10. pending' \in [Engines -> [Keys -> SUBSET Event]]
  BY <1>1, PollKeepsTypes DEF TypeInv
<1>11. phase'[e] \in {"write", "commit", "poll"}
  <2>1. PICK a \in {"write", "commit", "poll"} : phase' = [phase EXCEPT ![e] = a]
    BY <1>2 DEF Proceed
  <2> QED BY <2>1 DEF TypeInv
<1>12. \A d \in Engines : d # e =>
         /\ windows'[d] = windows[d] /\ pending'[d] = pending[d]
         /\ watermark'[d] = watermark[d] /\ phase'[d] = phase[d]
  <2>1. PICK a \in {"write", "commit", "poll"} : phase' = [phase EXCEPT ![e] = a]
    BY <1>2 DEF Proceed
  <2> HIDE DEF keys
  <2> QED BY <1>2, <2>1 DEF TypeInv, AddRollups
<1>13. watermark'[e] = wm
  BY <1>2 DEF TypeInv
<1>14. ASSUME wm # NoWatermark PROVE HasCurrentWindow(e)'
  <2>1. PICK k \in Keys : open[k] # {} /\ k[2] <= wm /\ wm < WindowEnd(k)
    <3>1. CASE wm = watermark[e]
      <4>1. PICK k \in Keys : windows[e][k] # {} /\ k[2] <= wm /\ wm < WindowEnd(k)
        BY <1>6, <1>14, <3>1 DEF Closable, HasCurrentWindow
      <4> QED BY <4>1, <1>5
    <3>2. CASE wm \in {v.ts : v \in events}
      <4>1. PICK v \in events : wm = v.ts
        BY <3>2
      <4>2. KeyOf(v) \in Keys /\ KeyOf(v)[2] <= wm /\ wm < WindowEnd(KeyOf(v))
        BY <4>1, <1>3, InItsWindow
      <4> QED BY <4>1, <4>2, <1>5
    <3> QED BY <3>1, <3>2, <1>4
  <2>2. k \notin keys
    <3>1. wm \in Times
      BY <1>4, <1>14
    <3>2. ~Passed(k, wm)
      BY <3>1, <2>1, CurrentHasNotPassed
    <3> QED BY <3>2, <1>7
  <2>3. windows'[e][k] # {}
    BY <2>1, <2>2, <1>8
  <2> HIDE DEF keys
  <2> QED
    BY <2>1, <2>3, <1>13 DEF HasCurrentWindow, WindowEnd
<1>15. ASSUME wm = NoWatermark PROVE pending'[e] = NoEvents
  <2>1. watermark[e] = NoWatermark
    BY <1>4, <1>15
  <2>2. pending[e] = NoEvents
    BY <2>1, <1>6 DEF Closable
  <2>3. keys = {}
    BY <1>7, <1>15 DEF Passed
  <2>4. \A k \in Keys : pending'[e][k] = {}
    BY <1>9, <2>2, <2>3 DEF NoEvents
  <2> QED
    BY <2>4, <1>10 DEF NoEvents
<1> HIDE DEF keys
<1>16. Closable(e)'
  BY <1>11, <1>13, <1>14, <1>15 DEF Closable
<1>17. \A d \in Engines : d # e => (Closable(d) => Closable(d)')
  BY <1>12 DEF Closable, HasCurrentWindow, WindowEnd
<1>18. \A d \in Engines : Closable(d)
  BY DEF ShutdownInv, Closable
<1>19. \A d \in Engines : Closable(d)'
  BY <1>16, <1>17, <1>18
<1> QED
  BY <1>1, <1>19 DEF ShutdownInv, Closable

\* A process that is gone holds nothing, and the others are as they were.
LEMMA DepartKeepsClosable ==
  ASSUME TypeInv, ShutdownInv, NEW e \in Engines, NEW dead, Depart(e, dead)
  PROVE  \A d \in Engines : Closable(d)'
<1>1. /\ phase'[e] = "down" /\ windows'[e] = NoEvents /\ pending'[e] = NoEvents
      /\ watermark'[e] = NoWatermark
  BY DEF Depart, TypeInv
<1>2. \A d \in Engines : d # e =>
         /\ windows'[d] = windows[d] /\ pending'[d] = pending[d]
         /\ watermark'[d] = watermark[d] /\ phase'[d] = phase[d]
  BY DEF Depart, TypeInv
<1>3. Closable(e)'
  BY <1>1 DEF Closable
<1>4. ASSUME NEW d \in Engines, d # e PROVE Closable(d)'
  BY <1>2, <1>4 DEF ShutdownInv, Closable, HasCurrentWindow, WindowEnd
<1> QED
  BY <1>3, <1>4

\* What a shutdown finds, it flushes; the other ends of a process are crashes,
\* and what else costs counts is a fault.
LEMMA OthersKeepShutdown ==
  ASSUME TypeInv, ShutdownInv, OtherSteps
  PROVE  ShutdownInv'
<1>0. /\ crashes \in Nat /\ faults \in Nat
      /\ \A d \in Engines : phase[d] \in Phases
      /\ \A d \in Engines : Closable(d)
  BY DEF TypeInv, ShutdownInv, Closable
<1> DEFINE Lossless == crashes = 0 /\ faults = 0 => lost = {}
<1>1. Lossless
  BY DEF ShutdownInv
<1>2. (\A d \in Engines : Closable(d)') /\ Lossless' => ShutdownInv'
  BY DEF ShutdownInv, Closable
<1>3. CASE Rebalance
  <2>1. UNCHANGED <<phase, windows, watermark, pending, lost, crashes, faults>>
    BY <1>3 DEF Rebalance, engineVars
  <2> QED
    BY <2>1, <1>0, <1>1, <1>2 DEF Closable, HasCurrentWindow, WindowEnd
<1>4. ASSUME NEW e \in Engines, Start(e) PROVE ShutdownInv'
  <2>1. /\ phase[e] = "down" /\ phase'[e] = "poll"
        /\ \A d \in Engines : d # e => phase'[d] = phase[d]
        /\ UNCHANGED <<windows, watermark, pending, lost, crashes, faults>>
    BY <1>4 DEF Start, TypeInv
  <2>2. \A d \in Engines : Closable(d)'
    BY <2>1, <1>0 DEF Closable, HasCurrentWindow, WindowEnd
  <2> QED
    BY <2>1, <2>2, <1>1, <1>2
<1>5. ASSUME NEW e \in Engines, Write(e) PROVE ShutdownInv'
  <2>1. /\ phase[e] = "write" /\ phase'[e] \in {"commit", "poll"} /\ pending'[e] = NoEvents
        /\ \A d \in Engines : d # e => phase'[d] = phase[d] /\ pending'[d] = pending[d]
        /\ UNCHANGED <<windows, watermark, lost, crashes, faults>>
    BY <1>5 DEF Write, TypeInv
  <2>2. \A d \in Engines : Closable(d)'
    BY <2>1, <1>0 DEF Closable, HasCurrentWindow, WindowEnd
  <2> QED
    BY <2>1, <2>2, <1>1, <1>2
<1>6. ASSUME NEW e \in Engines, NEW accepted \in BOOLEAN, WriteFails(e, accepted)
      PROVE  ShutdownInv'
  <2>1. /\ phase[e] = "write" /\ phase'[e] = "poll"
        /\ \A d \in Engines : d # e => phase'[d] = phase[d]
        /\ UNCHANGED <<windows, watermark, pending>> /\ faults' = faults + 1
    BY <1>6 DEF WriteFails, FailsOnce, TypeInv
  <2>2. \A d \in Engines : Closable(d)'
    BY <2>1, <1>0 DEF Closable, HasCurrentWindow, WindowEnd
  <2> QED
    BY <2>1, <2>2, <1>0, <1>2
<1>7. ASSUME NEW e \in Engines, Commit(e) PROVE ShutdownInv'
  <2>1. /\ phase[e] = "commit" /\ phase'[e] = "poll"
        /\ \A d \in Engines : d # e => phase'[d] = phase[d]
        /\ UNCHANGED <<windows, watermark, pending, lost, crashes>>
        /\ faults' = faults \/ faults' = faults + 1
    BY <1>7 DEF Commit, FailsOnce, TypeInv
  <2>2. \A d \in Engines : Closable(d)'
    BY <2>1, <1>0 DEF Closable, HasCurrentWindow, WindowEnd
  <2> QED
    BY <2>1, <2>2, <1>0, <1>1, <1>2
<1>8. ASSUME NEW e \in Engines, Crash(e) PROVE ShutdownInv'
  <2>1. Depart(e, Held(e)) /\ crashes' = crashes + 1
    BY <1>8 DEF Crash
  <2>2. \A d \in Engines : Closable(d)'
    BY <2>1, DepartKeepsClosable
  <2> QED
    BY <2>1, <2>2, <1>0, <1>2
<1>9. ASSUME NEW e \in Engines, Stop(e) PROVE ShutdownInv'
  <2>0. phase[e] \in {"poll", "write", "commit"} /\ UNCHANGED <<crashes, faults>>
    BY <1>9 DEF Stop
  <2>1. CASE Open(windows[e]) = {}
    <3>1. Depart(e, Held(e))
      BY <1>9, <2>1 DEF Stop
    <3>2. \A k \in Keys : windows[e][k] = {}
      BY <2>1 DEF Open
    <3>3. pending[e] = NoEvents
      BY <1>0, <2>0, <3>2 DEF Closable, HasCurrentWindow
    <3>4. Held(e) = {}
      BY <3>2, <3>3 DEF Held, EventsIn, NoEvents
    <3>5. lost' = lost
      BY <3>1, <3>4 DEF Depart
    <3>6. \A d \in Engines : Closable(d)'
      BY <3>1, DepartKeepsClosable
    <3> QED
      BY <2>0, <3>5, <3>6, <1>1, <1>2
  <2>2. CASE Open(windows[e]) # {}
    <3>1. /\ AddRollups(e, windows[e], Open(windows[e]))
          /\ windows' = [windows EXCEPT ![e] = NoEvents]
          /\ phase' = [phase EXCEPT ![e] = "closing"]
          /\ UNCHANGED <<watermark, lost>>
      BY <1>9, <2>2 DEF Stop
    <3>2. /\ phase'[e] = "closing" /\ windows'[e] = NoEvents
          /\ \A d \in Engines : d # e => /\ windows'[d] = windows[d]
                                         /\ pending'[d] = pending[d]
                                         /\ phase'[d] = phase[d]
      BY <3>1 DEF AddRollups, TypeInv
    <3>3. Closable(e)'
      BY <3>2 DEF Closable
    <3>4. \A d \in Engines : d # e => Closable(d)'
      BY <3>1, <3>2, <1>0 DEF Closable, HasCurrentWindow, WindowEnd
    <3> QED
      BY <2>0, <3>1, <3>3, <3>4, <1>1, <1>2
  <2> QED
    BY <2>1, <2>2
<1>10. ASSUME NEW e \in Engines, Leave(e) PROVE ShutdownInv'
  <2>1. UNCHANGED crashes
    BY <1>10 DEF Leave
  <2>2. CASE Depart(e, {}) /\ UNCHANGED faults
    <3>1. lost' = lost
      BY <2>2 DEF Depart
    <3> QED
      BY <2>1, <2>2, <3>1, <1>1, <1>2, DepartKeepsClosable
  <2>3. CASE Depart(e, Held(e)) /\ faults' = faults + 1
    <3>1. \A d \in Engines : Closable(d)'
      BY <2>3, DepartKeepsClosable
    <3> QED
      BY <2>3, <3>1, <1>0, <1>2
  <2> QED
    BY <1>10, <2>2, <2>3 DEF Leave, FailsOnce
<1> QED
  BY <1>3, <1>4, <1>5, <1>6, <1>7, <1>8, <1>9, <1>10 DEF OtherSteps

-----------------------------------------------------------------------------
(***************************************************************************)
(* Theorems.                                                               *)
(***************************************************************************)

\* The invariant holds at the start.
LEMMA Starts == Init => IInv
<1> SUFFICES ASSUME Init PROVE IInv
  OBVIOUS
<1>1. \A p \in Partitions : log[p] \in Seq(Message) /\ Len(log[p]) <= MaxLog /\ Len(log[p]) \in Nat
  <2> SUFFICES ASSUME NEW p \in Partitions
               PROVE  log[p] \in Seq(Message) /\ Len(log[p]) <= MaxLog /\ Len(log[p]) \in Nat
    OBVIOUS
  <2>0. log \in [Partitions -> UNION {[1 .. n -> Message] : n \in 0 .. MaxLog}]
    BY DEF Init
  <2>1. PICK n \in 0 .. MaxLog : log[p] \in [1 .. n -> Message]
    BY <2>0
  <2>2. n \in Nat
    BY CountAssumption
  <2>3. log[p] \in Seq(Message)
    BY <2>1, <2>2, SeqDef
  <2>4. Len(log[p]) = n
    BY <2>1, <2>2, <2>3, LenProperties
  <2> QED
    BY <2>2, <2>3, <2>4, CountAssumption
<1>2. NoEvents \in [Keys -> SUBSET Event]
  BY DEF NoEvents
<1>3. owner \in [Partitions -> members] /\ members \subseteq Engines
  BY DEF Init, Assignments
<1>4. /\ phase \in [Engines -> Phases]
      /\ \A e \in Engines : phase[e] = IF e \in members THEN "poll" ELSE "down"
  BY DEF Init, Phases
<1>5. members \subseteq Live
  BY <1>3, <1>4 DEF Live
<1>6. /\ committed \in [Partitions -> Nat] /\ position \in [Partitions -> Nat]
      /\ \A p \in Partitions : committed[p] <= position[p] /\ position[p] <= Len(log[p])
      /\ \A p \in Partitions : position[p] = 0
  BY <1>1 DEF Init
<1>7. generation \in 1 .. MaxGenerations /\ generation = 1
  BY CountAssumption DEF Init
<1>8. TypeInv
  BY <1>1, <1>2, <1>3, <1>4, <1>5, <1>6, <1>7 DEF Init, TypeInv
<1>9. reads \in [Records -> Nat] /\ \A r \in Records : reads[r] = 0
  BY DEF Init
<1>10. ReadInv
  <2>1. \A r \in Records : r[1] \in Partitions /\ r[2] \in Nat /\ r[2] > 0
    BY CountAssumption DEF Records
  <2> QED
    BY <1>6, <1>7, <1>9, <2>1 DEF ReadInv
<1>11. CountInv
  BY <1>9 DEF CountInv
<1>12. ShutdownInv
  BY <1>4 DEF Init, ShutdownInv
<1> QED
  BY <1>8, <1>10, <1>11, <1>12 DEF IInv

\* Every step keeps it.
LEMMA StepKeeps == IInv /\ [Next]_vars => IInv'
<1> SUFFICES ASSUME IInv, [Next]_vars PROVE IInv'
  OBVIOUS
<1>1. TypeInv /\ ReadInv /\ CountInv /\ ShutdownInv
  BY DEF IInv
<1>2. ASSUME NEW e \in Engines, Poll(e) PROVE IInv'
  <2>1. Next
    BY <1>2 DEF Next, Loop
  <2> QED
    BY <1>1, <1>2, <2>1, PollKeepsTypes, PollKeepsReads, CountsStay, PollKeepsShutdown DEF IInv
<1>3. CASE OtherSteps
  <2>1. Next
    BY <1>3 DEF OtherSteps, Next, Loop
  <2> QED
    BY <1>1, <1>3, <2>1, OthersKeepTypes, OthersKeepReads, CountsStay, OthersKeepShutdown DEF IInv
<1>4. CASE UNCHANGED vars
  <2>1. UNCHANGED <<log, committed, members, owner, position, generation, phase, polled,
                    windows, watermark, pending, table, replaced, reads, lost,
                    crashes, stops, faults>>
    BY <1>4 DEF vars, groupVars, engineVars, tableVars
  <2>2. TypeInv'
    BY <1>1, <2>1 DEF TypeInv, Live
  <2>3. ReadInv'
    BY <1>1, <2>1 DEF ReadInv
  <2>4. Everywhere' = Everywhere
    BY <2>1 DEF Everywhere, InMemory, Held, Visible, EventsIn
  <2>5. CountInv'
    BY <1>1, <2>1, <2>4 DEF CountInv, Counts
  <2>6. ShutdownInv'
    BY <1>1, <2>1 DEF ShutdownInv, HasCurrentWindow, WindowEnd
  <2> QED
    BY <2>2, <2>3, <2>5, <2>6 DEF IInv
<1> QED
  BY <1>2, <1>3, <1>4 DEF Next, Loop, OtherSteps

\* The invariant holds in every state of a group.
THEOREM Inductive == Spec => []IInv
BY Starts, StepKeeps, PTL DEF Spec

\* Variables keep their types, partitions belong to members, positions lie
\* between what is committed and what there is (build_consumer, run_forever).
THEOREM TypeCorrect == Spec => []GroupTypeOK
<1>1. IInv => GroupTypeOK
  <2> SUFFICES ASSUME TypeInv PROVE GroupTypeOK
    BY DEF IInv
  <2>1. \A p \in Partitions : Len(log[p]) \in Nat
    BY LenProperties DEF TypeInv
  <2> QED
    BY <2>1 DEF TypeInv, GroupTypeOK, Phases
<1> QED
  BY <1>1, Inductive, PTL

\* A committed record was counted, and its count is in memory, in the table,
\* in a replaced row or died with a process (commit follows process_batch).
THEOREM CountsAreKept == Spec => []CommittedIsCounted
<1>1. IInv => CommittedIsCounted
  <2> SUFFICES ASSUME TypeInv, ReadInv, CountInv, NEW r \in Records, Committed(r)
               PROVE  Counts(Everywhere, r)
    BY DEF IInv, CommittedIsCounted, Everywhere
  <2>1. r[1] \in Partitions /\ r[2] \in Nat
    BY CountAssumption DEF Records
  <2>2. r[2] <= position[r[1]]
    BY <2>1 DEF TypeInv, Committed
  <2>3. reads[r] > 0
    BY <2>2 DEF ReadInv
  <2> QED
    BY <2>3 DEF CountInv
<1> QED
  BY <1>1, Inductive, PTL

\* A record is read once per assignment of the partitions at most: neither a
\* failed flush nor a failed commit reads it again (run_forever goes on).
THEOREM ReadingsBounded == Spec => []ReadingsAreBounded
<1>1. IInv => ReadingsAreBounded
  BY DEF IInv, ReadInv, ReadingsAreBounded
<1> QED
  BY <1>1, Inductive, PTL

\* Shutdowns alone lose no count: an engine that holds any has a window open,
\* so stop() flushes.
THEOREM CleanStops == Spec => []CleanStopsLoseNothing
<1>1. IInv => CleanStopsLoseNothing
  BY DEF IInv, ShutdownInv, CleanStopsLoseNothing
<1> QED
  BY <1>1, Inductive, PTL

\* A record whose offset is committed is never counted again, whoever gets
\* its partition (getmany, commit).
THEOREM NeverReread == Spec => CommittedIsNeverReread
<1>1. IInv /\ [Next]_vars => [\A r \in Records : Committed(r) => reads'[r] = reads[r]]_vars
  <2> SUFFICES ASSUME TypeInv, ReadInv, Next
               PROVE  \A r \in Records : Committed(r) => reads'[r] = reads[r]
    BY DEF IInv
  <2>1. ASSUME NEW e \in Engines, Poll(e)
        PROVE  \A r \in Records : Committed(r) => reads'[r] = reads[r]
    BY <2>1, PollKeepsReads
  <2>2. CASE OtherSteps
    <3>1. reads' = reads
      BY <2>2, OthersKeepReads
    <3> QED BY <3>1
  <2> QED
    BY <2>1, <2>2 DEF Next, Loop, OtherSteps
<1> QED
  BY <1>1, Inductive, PTL DEF Spec, CommittedIsNeverReread
=============================================================================
