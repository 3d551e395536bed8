-------------------------- MODULE Dashboard_proofs --------------------------
(***************************************************************************)
(* Proofs about Dashboard and the replays behind it, for every set of      *)
(* routes, queries, runs and jobs, any number of requests in flight, of    *)
(* failing calls and of restarts; and, in the second half, about what      *)
(* DebugService shows of a trace on the dashboard's debug page, for every  *)
(* set of spans, in whatever order and how often they arrive.              *)
(***************************************************************************)
EXTENDS Dashboard, DebugService, FiniteSetTheorems, WellFoundedInduction, TLAPS

-----------------------------------------------------------------------------
(***************************************************************************)
(* Replays.                                                                *)
(***************************************************************************)

\* The recorded run with its documents, or before they are stored.
Originals(q) ==
    {[Recorded[q].run EXCEPT !.docs = d] : d \in {Recorded[q].run.docs, {}}}

AllJobs ==
    [query : Queries, status : Statuses,
     original : {None} \cup UNION {Originals(q) : q \in Queries}, replay : {None} \cup Runs,
     diff : {None} \cup Verdicts]

\* The columns of the original run stay empty.
AllRows ==
    [query : Queries, status : Statuses, original : {None},
     replay : {None} \cup Latencies, diff : {None} \cup Verdicts]

Ends == [phase : {"idle", "refused", "lost"}]

Reading == {"read event", "read documents"}

Active == Reading \cup {"insert", "run", "update", "answered"}

Going == [phase : Active, job : AllJobs, pooled : BOOLEAN, whole : BOOLEAN]

ReplayShape ==
    /\ recorded \in [Queries -> SUBSET Tables]
    /\ pool \in BOOLEAN
    /\ memory \in [Jobs -> {None} \cup AllJobs]
    /\ table \in [Jobs -> {None} \cup AllRows]
    /\ replays \in [Jobs -> Ends \cup Going]
    /\ faults \in 0..MaxFaults
    /\ crashes \in 0..MaxCrashes

\* What the job of a request is in each phase of it.
JobAt(phase, job) ==
    /\ phase \in Reading => job.status = "pending" /\ job.original = None
    /\ phase \in Active \ Reading => job.original \in Originals(job.query)
    /\ phase = "insert" => job.status = "pending"
    /\ phase = "run" => job.status = "running"
    /\ phase \in {"update", "answered"} => job.status \in {"succeeded", "failed"}
    /\ IF job.status = "succeeded"
       THEN job.replay \in Runs /\ job.diff = Verdict(job.original, job.replay)
       ELSE job.replay = None /\ job.diff = None

\* A request that found the recorded run whole is compared with all of it.
WholeAt(r) ==
    r.whole =>
        /\ recorded[r.job.query] = Tables
        /\ r.phase \notin Reading => r.job.original.docs = Recorded[r.job.query].run.docs

\* What the request has in the table.
RowAt(r, row) ==
    /\ r.phase \in Reading \cup {"idle", "insert"} => row = None
    /\ r.phase \in {"run", "update"} /\ pool => row = NewJob(r.job.query)
    /\ r.phase = "answered" /\ r.pooled => row = [Row(r.job) EXCEPT !.original = None]

\* What is stored was saved before the query ran or after.
SavedOK(saved, outcomes) ==
    saved # None => JobOK(saved, outcomes) /\ saved.status # "running"

ReplayInv ==
    /\ ReplayShape
    /\ \A j \in Jobs :
         /\ replays[j].phase \in Active =>
              JobAt(replays[j].phase, replays[j].job) /\ WholeAt(replays[j])
         /\ SavedOK(table[j], Latencies) /\ SavedOK(memory[j], Runs)
         /\ RowAt(replays[j], table[j])
    /\ PendingIsAccounted

\* The jobs that stay pending for good.
Stuck == {j \in Jobs : table[j] # None /\ table[j].status = "pending"
                       /\ replays[j].phase \in {"lost", "refused"}}

LEMMA FailuresCover ==
  /\ PendingIsAccounted <=> Cardinality(Stuck) =< faults + crashes * Cardinality(Jobs)
  /\ Cardinality(Jobs) \in Nat
  /\ \A c \in Nat : /\ c * Cardinality(Jobs) \in Nat
                    /\ (c + 1) * Cardinality(Jobs) = c * Cardinality(Jobs) + Cardinality(Jobs)
  /\ \A S \in SUBSET Jobs : IsFiniteSet(S) /\ Cardinality(S) \in Nat
                            /\ Cardinality(S) <= Cardinality(Jobs)
<1>1. IsFiniteSet(Jobs) /\ Cardinality(Jobs) \in Nat
  BY ReplayAssumption, FS_CardinalityType
<1>2. PendingIsAccounted <=> Cardinality(Stuck) =< faults + crashes * Cardinality(Jobs)
  BY DEF PendingIsAccounted, Stuck
<1>3. \A S \in SUBSET Jobs : IsFiniteSet(S) /\ Cardinality(S) \in Nat
                             /\ Cardinality(S) <= Cardinality(Jobs)
  BY <1>1, FS_Subset, FS_CardinalityType
<1> DEFINE n == Cardinality(Jobs)
<1>4. n \in Nat
  BY <1>1
<1> HIDE DEF n
<1>5. \A c \in Nat : c * n \in Nat /\ (c + 1) * n = c * n + n
  BY <1>4
<1> QED BY <1>1, <1>2, <1>3, <1>5 DEF n

LEMMA ReplayInitInv == ReplayInit => ReplayInv
<1> SUFFICES ASSUME ReplayInit PROVE ReplayInv
  OBVIOUS
<1>1. ReplayShape
  BY ReplayAssumption DEF ReplayInit, ReplayShape, Idle, Ends, Tables
<1>2. \A j \in Jobs : replays[j].phase = "idle" /\ table[j] = None /\ memory[j] = None
  BY DEF ReplayInit, Idle
<1>3. \A j \in Jobs : RowAt(replays[j], table[j])
  BY <1>2 DEF RowAt
<1>4. PendingIsAccounted
  <2>1. Stuck = {}
    BY <1>2 DEF Stuck
  <2>2. Cardinality(Stuck) = 0
    BY <2>1, FS_EmptySet
  <2>3. faults = 0 /\ crashes = 0 /\ 0 * Cardinality(Jobs) \in Nat
    BY FailuresCover DEF ReplayInit
  <2> QED BY <2>2, <2>3, FailuresCover
<1>5. \A j \in Jobs : SavedOK(table[j], Latencies) /\ SavedOK(memory[j], Runs)
  BY <1>2 DEF SavedOK
<1>6. "idle" \notin Active
  BY DEF Active, Reading
<1> QED BY <1>1, <1>2, <1>3, <1>4, <1>5, <1>6 DEF ReplayInv

\* One request moves on to r and leaves t in the table and m in the process.
LEMMA MovesOn ==
  ASSUME ReplayInv, NEW j \in Jobs,
         NEW r \in Ends \cup Going, replays' = [replays EXCEPT ![j] = r],
         NEW t \in {None} \cup AllRows, table' = [table EXCEPT ![j] = t],
         NEW m \in {None} \cup AllJobs, memory' = [memory EXCEPT ![j] = m],
         UNCHANGED <<recorded, pool, crashes>>,
         faults' \in 0..MaxFaults, faults' >= faults,
         r.phase \in Active => JobAt(r.phase, r.job) /\ WholeAt(r),
         SavedOK(t, Latencies), SavedOK(m, Runs), RowAt(r, t),
         t # None /\ t.status = "pending" /\ r.phase \in {"lost", "refused"} =>
             faults' = faults + 1
  PROVE  ReplayInv'
<1>1. ReplayShape'
  BY DEF ReplayInv, ReplayShape
<1>2. /\ replays'[j] = r /\ table'[j] = t /\ memory'[j] = m
      /\ \A i \in Jobs \ {j} : /\ replays'[i] = replays[i] /\ table'[i] = table[i]
                               /\ memory'[i] = memory[i]
  BY DEF ReplayInv, ReplayShape
<1>3. \A i \in Jobs :
         /\ replays'[i].phase \in Active =>
              JobAt(replays'[i].phase, replays'[i].job) /\ WholeAt(replays'[i])
         /\ SavedOK(table'[i], Latencies) /\ SavedOK(memory'[i], Runs)
         /\ RowAt(replays'[i], table'[i])
  BY <1>2 DEF ReplayInv
<1>4. \A i \in Jobs :
         /\ WholeAt(replays[i])' = WholeAt(replays'[i])
         /\ RowAt(replays[i], table[i])' = RowAt(replays'[i], table'[i])
  BY DEF WholeAt, RowAt
<1>5. PendingIsAccounted'
  <2>1. Stuck \in SUBSET Jobs /\ Stuck' \in SUBSET Jobs
    BY DEF Stuck
  <2>2. Stuck' \subseteq Stuck \cup {j}
    BY <1>2 DEF Stuck
  <2> DEFINE n == crashes * Cardinality(Jobs)
             s == Cardinality(Stuck)
  <2>3. /\ Cardinality(Stuck') \in Nat /\ s \in Nat /\ s <= faults + n
        /\ n \in Nat /\ faults \in Nat
    <3>1. crashes \in Nat /\ faults \in Nat
      BY ReplayAssumption DEF ReplayInv, ReplayShape
    <3>2. s <= faults + n
      BY FailuresCover DEF ReplayInv
    <3> QED BY <2>1, <3>1, <3>2, FailuresCover
  <2>4. CASE j \in Stuck'
    <3>1. faults' = faults + 1
      BY <1>2, <2>4 DEF Stuck
    <3>2. Cardinality(Stuck') <= Cardinality(Stuck) + 1
      <4>1. IsFiniteSet(Stuck \cup {j}) /\ Cardinality(Stuck \cup {j}) <= Cardinality(Stuck) + 1
        <5>1. IsFiniteSet(Stuck) /\ Cardinality(Stuck) \in Nat
          BY <2>1, FailuresCover
        <5>2. IsFiniteSet(Stuck \cup {j})
              /\ (Cardinality(Stuck \cup {j}) = Cardinality(Stuck)
                  \/ Cardinality(Stuck \cup {j}) = Cardinality(Stuck) + 1)
          BY <5>1, FS_AddElement
        <5> QED BY <5>1, <5>2
      <4>2. Cardinality(Stuck') <= Cardinality(Stuck \cup {j})
        BY <2>2, <4>1, FS_Subset
      <4>3. Stuck \cup {j} \in SUBSET Jobs
        BY <2>1
      <4>4. /\ Cardinality(Stuck') \in Nat /\ Cardinality(Stuck) \in Nat
            /\ Cardinality(Stuck \cup {j}) \in Nat
        BY <2>1, <4>3, FailuresCover
      <4> QED BY <4>1, <4>2, <4>4
    <3>3. Cardinality(Stuck') <= faults' + n
      <4> HIDE DEF n, s
      <4> QED BY <2>3, <3>1, <3>2 DEF s
    <3> QED BY <3>3, FailuresCover DEF PendingIsAccounted, Stuck
  <2>5. CASE j \notin Stuck'
    <3>1. Cardinality(Stuck') <= Cardinality(Stuck)
      <4>1. Stuck' \subseteq Stuck
        BY <2>2, <2>5
      <4> QED BY <2>1, <4>1, FailuresCover, FS_Subset
    <3>3. Cardinality(Stuck') <= faults' + n
      <4> HIDE DEF n, s
      <4> QED BY <2>3, <3>1 DEF s
    <3> QED BY <3>3, FailuresCover DEF PendingIsAccounted, Stuck
  <2> QED BY <2>4, <2>5
<1> QED BY <1>1, <1>3, <1>4, <1>5 DEF ReplayInv

\* A request at work has a job of its phase.
LEMMA AtWork ==
  ASSUME ReplayInv, NEW j \in Jobs, replays[j].phase \in Active
  PROVE  /\ replays[j] \in Going /\ replays[j].job \in AllJobs
         /\ replays[j].job.query \in Queries
         /\ JobAt(replays[j].phase, replays[j].job)
<1>1. replays[j].phase \notin {"idle", "refused", "lost"}
  BY DEF Active, Reading
<1>2. replays[j] \in Going
  BY <1>1 DEF ReplayInv, ReplayShape, Ends
<1> QED BY <1>2 DEF ReplayInv, Going, AllJobs

\* Advance() makes a request of this form.
LEMMA AdvanceIs ==
  ASSUME ReplayInv, NEW j \in Jobs, NEW phase \in Active, NEW job \in AllJobs,
         Advance(j, phase, job),
         \/ replays[j] = Idle /\ phase \in Reading
         \/ /\ replays[j].phase \in Active /\ job.query = replays[j].job.query
            /\ \/ phase \in Reading
               \/ replays[j].phase \notin Reading /\ job.original = replays[j].job.original
               \/ job.original = OriginalRun(job.query)
  PROVE  \E r \in Going : /\ replays' = [replays EXCEPT ![j] = r]
                          /\ r.phase = phase /\ r.job = job /\ r.pooled = pool
                          /\ WholeAt(r)
<1> DEFINE w == IF replays[j] = Idle THEN recorded[job.query] = Tables ELSE replays[j].whole
           r == [phase |-> phase, job |-> job, pooled |-> pool, whole |-> w]
<1>1. replays' = [replays EXCEPT ![j] = r]
  BY DEF Advance
<1>2. CASE replays[j] = Idle /\ phase \in Reading
  <2>1. w = (recorded[job.query] = Tables)
    BY <1>2
  <2>2. r \in Going
    BY <2>1 DEF Going, ReplayInv, ReplayShape
  <2>3. WholeAt(r)
    BY <1>2, <2>1 DEF WholeAt
  <2> QED BY <1>1, <2>2, <2>3
<1>3. CASE replays[j].phase \in Active
  <2>1. replays[j] # Idle /\ replays[j] \in Going
    <3>1. Idle.phase \notin Active
      BY DEF Idle, Active, Reading
    <3> QED BY <1>3, <3>1, AtWork
  <2>2. w = replays[j].whole /\ w \in BOOLEAN
    BY <2>1 DEF Going
  <2>3. r \in Going
    <3> HIDE DEF w
    <3> QED BY <2>2 DEF Going, ReplayInv, ReplayShape
  <2>4. WholeAt(replays[j])
    BY <1>3 DEF ReplayInv
  <2>5. /\ job.query = replays[j].job.query /\ job.query \in Queries
        /\ \/ phase \in Reading
           \/ replays[j].phase \notin Reading /\ job.original = replays[j].job.original
           \/ job.original = OriginalRun(job.query)
    <3>1. replays[j] # Idle
      BY <2>1
    <3> QED BY <3>1 DEF AllJobs
  <2>6. CASE job.original = OriginalRun(job.query) /\ r.whole
    <3> DEFINE run == Recorded[job.query].run
    <3>1. recorded[job.query] = Tables
      BY <2>2, <2>4, <2>5, <2>6 DEF WholeAt
    <3>2. OriginalRun(job.query) = [run EXCEPT !.docs = run.docs]
      BY <3>1 DEF OriginalRun, Documents, Tables
    <3>3. run = [status |-> run.status, latency |-> run.latency, docs |-> run.docs]
      BY <2>5, ReplayAssumption
    <3>4. job.original.docs = run.docs
      <4> HIDE DEF run
      <4> QED BY <2>6, <3>2, <3>3
    <3> QED BY <1>1, <2>3, <3>1, <3>4 DEF WholeAt
  <2>7. CASE ~r.whole
    BY <1>1, <2>3, <2>7 DEF WholeAt
  <2>8. CASE phase \in Reading \/ (replays[j].phase \notin Reading /\ job.original = replays[j].job.original)
    <3>1. WholeAt(r)
      <4> HIDE DEF w
      <4> QED BY <2>2, <2>4, <2>5, <2>8 DEF WholeAt
    <3> QED BY <1>1, <2>3, <3>1
  <2> QED BY <2>5, <2>6, <2>7, <2>8
<1> QED BY <1>2, <1>3

\* A request that keeps what is saved for it and whose job does not end.
LEMMA Advances ==
  ASSUME ReplayInv, NEW j \in Jobs, NEW phase \in Active \ {"answered"}, NEW job \in AllJobs,
         JobAt(phase, job), Advance(j, phase, job),
         \/ replays[j] = Idle /\ phase \in Reading
         \/ /\ replays[j].phase \in Active /\ job.query = replays[j].job.query
            /\ \/ phase \in Reading
               \/ replays[j].phase \notin Reading /\ job.original = replays[j].job.original
               \/ job.original = OriginalRun(job.query),
         phase \in Reading \cup {"insert"} => table[j] = None,
         phase \in {"run", "update"} /\ pool => table[j] = NewJob(job.query),
         UNCHANGED <<recorded, pool, memory, table, faults, crashes>>
  PROVE  ReplayInv'
<1>1. PICK r \in Going : /\ replays' = [replays EXCEPT ![j] = r]
                         /\ r.phase = phase /\ r.job = job /\ r.pooled = pool
                         /\ WholeAt(r)
  BY AdvanceIs
<1>2. /\ table[j] \in {None} \cup AllRows /\ table' = [table EXCEPT ![j] = table[j]]
      /\ memory[j] \in {None} \cup AllJobs /\ memory' = [memory EXCEPT ![j] = memory[j]]
      /\ SavedOK(table[j], Latencies) /\ SavedOK(memory[j], Runs)
  BY DEF ReplayInv, ReplayShape
<1>3. faults' \in 0..MaxFaults /\ faults' >= faults
  BY ReplayAssumption DEF ReplayInv, ReplayShape
<1>4. phase # "answered" /\ phase \notin {"lost", "refused", "idle"}
  BY DEF Active, Reading
<1>5. RowAt(r, table[j])
  BY <1>1, <1>4 DEF RowAt
<1> QED BY <1>1, <1>2, <1>3, <1>4, <1>5, MovesOn

\* A request is refused, where nothing pending is saved or the fault counts.
LEMMA Rejects ==
  ASSUME ReplayInv, NEW j \in Jobs, Reject(j),
         UNCHANGED <<recorded, pool, memory, table, crashes>>,
         \/ UNCHANGED faults /\ table[j] = None
         \/ faults' = faults + 1 /\ faults < MaxFaults
  PROVE  ReplayInv'
<1> DEFINE r == Over("refused")
<1>1. r \in Ends /\ r.phase = "refused"
  BY DEF Over, Ends
<1>2. replays' = [replays EXCEPT ![j] = r]
  BY DEF Reject
<1>3. /\ table[j] \in {None} \cup AllRows /\ table' = [table EXCEPT ![j] = table[j]]
      /\ memory[j] \in {None} \cup AllJobs /\ memory' = [memory EXCEPT ![j] = memory[j]]
      /\ SavedOK(table[j], Latencies) /\ SavedOK(memory[j], Runs)
  BY DEF ReplayInv, ReplayShape
<1>4. faults' \in 0..MaxFaults /\ faults' >= faults
  BY ReplayAssumption DEF ReplayInv, ReplayShape
<1>5. table[j] # None => faults' = faults + 1
  OBVIOUS
<1>6. "refused" \notin Active \cup {"idle"} /\ RowAt(r, table[j])
  BY <1>1 DEF Active, Reading, RowAt
<1> HIDE DEF r
<1> QED BY <1>1, <1>2, <1>3, <1>4, <1>5, <1>6, MovesOn

LEMMA OriginalIs ==
  ASSUME NEW q \in Queries
  PROVE  OriginalRun(q) \in Originals(q)
BY DEF OriginalRun, Originals, Documents

LEMMA VerdictIs == \A o, r : Verdict(o, r) \in Verdicts
BY DEF Verdict, Verdicts

\* A job in its phase may be saved if it is pending or has its outcome, and
\* so may its row.
LEMMA JobMayBeSaved ==
  ASSUME NEW job \in AllJobs,
         \/ JobAt("update", job)
         \/ job.status = "pending" /\ job.replay = None /\ job.diff = None
  PROVE  LET row == [Row(job) EXCEPT !.original = None]
         IN  SavedOK(job, Runs) /\ SavedOK(row, Latencies) /\ row \in AllRows
<1> DEFINE row == [Row(job) EXCEPT !.original = None]
<1>1. job.query \in Queries /\ job.status \in Statuses /\ job.diff \in {None} \cup Verdicts
  BY DEF AllJobs
<1>2. row = [query |-> job.query, status |-> job.status, original |-> None,
             replay |-> Columns(job.replay), diff |-> job.diff]
  <2>1. job = [query |-> job.query, status |-> job.status, original |-> job.original,
               replay |-> job.replay, diff |-> job.diff]
    BY DEF AllJobs
  <2> DEFINE o == Columns(job.original)
             c == Columns(job.replay)
  <2>2. Row(job) = [job EXCEPT !.original = o, !.replay = c]
    BY DEF Row
  <2> HIDE DEF o, c
  <2>3. Row(job) = [query |-> job.query, status |-> job.status, original |-> o,
                    replay |-> c, diff |-> job.diff]
    BY <2>1, <2>2, ZenonT(30)
  <2>4. row = [query |-> job.query, status |-> job.status, original |-> None,
               replay |-> c, diff |-> job.diff]
    BY <2>3
  <2> QED BY <2>4 DEF c
<1>3. /\ IF job.status = "succeeded"
         THEN job.replay \in Runs /\ job.diff \in Verdicts
         ELSE job.replay = None /\ job.diff = None
      /\ job.status # "running"
  BY VerdictIs DEF JobAt
<1>4. /\ job.replay = None => Columns(job.replay) = None
      /\ job.replay \in Runs => Columns(job.replay) \in Latencies
  BY ReplayAssumption DEF Latencies, Columns
<1>5. row \in AllRows
  BY <1>1, <1>2, <1>3, <1>4 DEF AllRows
<1>6. SavedOK(job, Runs)
  BY <1>1, <1>3 DEF SavedOK, JobOK
<1>7. SavedOK(row, Latencies)
  BY <1>1, <1>2, <1>3, <1>4 DEF SavedOK, JobOK
<1> QED BY <1>5, <1>6, <1>7

LEMMA PostInv ==
  ASSUME ReplayInv, NEW j \in Jobs, NEW q \in Queries, Post(j, q)
  PROVE  ReplayInv'
<1> DEFINE job == NewJob(q)
<1>1. job \in AllJobs
  BY DEF NewJob, AllJobs, Statuses
<1>2. JobAt("read event", job)
  BY DEF NewJob, JobAt, Reading, Active
<1>3. replays[j] = Idle /\ table[j] = None
  <2>1. replays[j] = Idle
    BY DEF Post
  <2>2. replays[j].phase = "idle"
    BY <2>1 DEF Idle
  <2> QED BY <2>1, <2>2 DEF ReplayInv, RowAt
<1>4. "read event" \in Active \ {"answered"} /\ "read event" \in Reading
      /\ "read event" \notin {"run", "update"}
  BY DEF Active, Reading
<1>5. Advance(j, "read event", job) /\ UNCHANGED <<recorded, pool, memory, table, faults, crashes>>
  BY DEF Post
<1> HIDE DEF job
<1> QED BY <1>1, <1>2, <1>3, <1>4, <1>5, Advances

LEMMA ReadInv ==
  ASSUME ReplayInv, NEW j \in Jobs, ReadEvent(j) \/ ReadDocuments(j)
  PROVE  ReplayInv'
<1> DEFINE job == replays[j].job
           next == [job EXCEPT !.original = OriginalRun(job.query)]
<1>1. replays[j].phase \in Reading
  BY DEF ReadEvent, ReadDocuments, Reading
<1>2. /\ job \in AllJobs /\ job.query \in Queries /\ JobAt(replays[j].phase, job)
      /\ table[j] = None /\ replays[j].phase \in Active
  BY <1>1, AtWork DEF Active, ReplayInv, RowAt
<1>3. job.status = "pending" /\ job.original = None /\ job.replay = None /\ job.diff = None
  BY <1>1, <1>2 DEF JobAt
<1>4. /\ {"read documents", "insert"} \subseteq Active \ {"answered"}
      /\ "read documents" \in Reading
  BY DEF Active, Reading
<1>5. CASE Reject(j)
  BY <1>2, <1>5, Rejects DEF ReadEvent, ReadDocuments
<1>6. CASE Advance(j, "read documents", job) /\ ReadEvent(j)
  <2>1. JobAt("read documents", job)
    BY <1>3 DEF JobAt, Reading, Active
  <2> QED BY <1>2, <1>4, <1>6, <2>1, Advances DEF ReadEvent
<1>7. CASE Advance(j, "insert", next) /\ ReadDocuments(j)
  <2>1. OriginalRun(job.query) \in Originals(job.query)
    BY <1>2, OriginalIs
  <2>2. /\ next \in AllJobs /\ next.status = "pending" /\ next.replay = None
        /\ next.diff = None
        /\ next.query = job.query /\ next.original = OriginalRun(job.query)
    BY <1>2, <1>3, <2>1 DEF AllJobs
  <2>3. JobAt("insert", next)
    BY <2>1, <2>2 DEF JobAt, Reading
  <2> HIDE DEF next
  <2> QED BY <1>2, <1>4, <1>7, <2>2, <2>3, Advances DEF ReadDocuments
<1> QED BY <1>5, <1>6, <1>7 DEF ReadEvent, ReadDocuments

LEMMA RunInv ==
  ASSUME ReplayInv, NEW j \in Jobs, Run(j)
  PROVE  ReplayInv'
<1> DEFINE job == replays[j].job
<1>1. /\ replays[j].phase = "run" /\ "run" \in Active \ Reading
      /\ "update" \in Active \ (Reading \cup {"answered", "insert"})
  BY DEF Run, Active, Reading
<1>2. /\ job \in AllJobs /\ job.original \in Originals(job.query) /\ job.replay = None
      /\ job.diff = None
  BY <1>1, AtWork DEF JobAt
<1>3. PICK next \in AllJobs :
        /\ JobAt("update", next) /\ Advance(j, "update", next)
        /\ next.query = job.query /\ next.original = job.original
  <2>1. CASE \E run \in Runs : Advance(j, "update", Succeeded(job, run))
    <3>1. PICK run \in Runs : Advance(j, "update", Succeeded(job, run))
      BY <2>1
    <3> DEFINE next == Succeeded(job, run)
               verdict == Verdict(job.original, run)
    <3>2. verdict \in Verdicts
      BY VerdictIs
    <3>3. next = [job EXCEPT !.status = "succeeded", !.replay = run, !.diff = verdict]
      BY DEF Succeeded
    <3> HIDE DEF next, verdict
    <3>4. /\ next \in AllJobs /\ next.status = "succeeded" /\ next.replay = run
          /\ next.query = job.query /\ next.original = job.original /\ next.diff = verdict
      BY <1>2, <3>2, <3>3 DEF AllJobs, Statuses
    <3>5. JobAt("update", next)
      BY <1>1, <1>2, <3>4 DEF JobAt, Reading, verdict
    <3> QED BY <3>1, <3>4, <3>5 DEF next
  <2>2. CASE Advance(j, "update", [job EXCEPT !.status = "failed"])
    <3> DEFINE next == [job EXCEPT !.status = "failed"]
    <3>1. /\ next \in AllJobs /\ next.status = "failed" /\ next.replay = None
          /\ next.query = job.query /\ next.original = job.original /\ next.diff = None
      BY <1>2 DEF AllJobs, Statuses
    <3>2. JobAt("update", next)
      BY <1>1, <1>2, <3>1 DEF JobAt, Reading
    <3> QED BY <2>2, <3>1, <3>2
  <2> QED BY <2>1, <2>2 DEF Run
<1>4. pool => table[j] = NewJob(job.query)
  BY <1>1 DEF ReplayInv, RowAt
<1>5. UNCHANGED <<recorded, pool, memory, table, faults, crashes>>
  BY DEF Run
<1> QED BY <1>1, <1>3, <1>4, <1>5, Advances

\* A request that saves s as it moves on to the next phase with its job.
LEMMA Saves ==
  ASSUME ReplayInv, NEW j \in Jobs, NEW phase \in {"run", "answered"}, NEW job \in AllJobs,
         JobAt(phase, job), Advance(j, phase, job),
         replays[j].phase \in Active \ Reading,
         job.query = replays[j].job.query, job.original = replays[j].job.original,
         NEW s \in AllJobs, SavedOK(s, Runs), Save(j, s),
         NEW row \in AllRows, row = [Row(s) EXCEPT !.original = None], SavedOK(row, Latencies),
         pool => \/ table[j] = None /\ s.original = None
                 \/ table[j] # None,
         phase = "run" => row = NewJob(job.query),
         phase = "answered" => s = job,
         UNCHANGED <<recorded, pool, faults, crashes>>
  PROVE  ReplayInv'
<1> DEFINE t == IF pool THEN row ELSE table[j]
           m == IF pool THEN memory[j] ELSE s
<1>1. {"run", "answered"} \subseteq Active \ (Reading \cup {"idle", "insert", "lost", "refused"})
  BY DEF Active, Reading
<1>2. PICK r \in Going : /\ replays' = [replays EXCEPT ![j] = r]
                         /\ r.phase = phase /\ r.job = job /\ r.pooled = pool
                         /\ WholeAt(r)
  BY <1>1, AdvanceIs
<1>3. ASSUME pool PROVE table' = [table EXCEPT ![j] = row]
  <2>1. CASE table[j] = None /\ s.original = None
    <3>1. Row(s) = row
      BY <2>1 DEF Row, Columns, AllJobs
    <3> QED BY <1>3, <2>1, <3>1 DEF Save
  <2>2. CASE table[j] # None
    <3>1. table[j].original = None
      BY <2>2 DEF ReplayInv, ReplayShape, AllRows
    <3> QED BY <1>3, <2>2, <3>1 DEF Save
  <2> QED BY <1>3, <2>1, <2>2
<1>4. /\ t \in {None} \cup AllRows /\ table' = [table EXCEPT ![j] = t] /\ SavedOK(t, Latencies)
      /\ m \in {None} \cup AllJobs /\ memory' = [memory EXCEPT ![j] = m] /\ SavedOK(m, Runs)
  <2>1. CASE pool
    BY <1>3, <2>1 DEF ReplayInv, ReplayShape, Save
  <2>2. CASE ~pool
    BY <2>2 DEF ReplayInv, ReplayShape, Save
  <2> QED BY <2>1, <2>2
<1>5. faults' \in 0..MaxFaults /\ faults' >= faults
  BY ReplayAssumption DEF ReplayInv, ReplayShape
<1>6. RowAt(r, t)
  BY <1>1, <1>2 DEF RowAt
<1> HIDE DEF t, m
<1> QED BY <1>1, <1>2, <1>4, <1>5, <1>6, MovesOn

LEMMA InsertInv ==
  ASSUME ReplayInv, NEW j \in Jobs, Insert(j)
  PROVE  ReplayInv'
<1> DEFINE job == replays[j].job
           next == [job EXCEPT !.status = "running"]
           s == [job EXCEPT !.original = None]
           row == [Row(s) EXCEPT !.original = None]
<1>1. /\ replays[j].phase = "insert" /\ "insert" \in Active \ Reading
      /\ "run" \in Active \ (Reading \cup {"update", "answered", "insert"})
  BY DEF Insert, Active, Reading
<1>2. /\ job \in AllJobs /\ job.original \in Originals(job.query) /\ job.replay = None
      /\ job.status = "pending" /\ job.diff = None
  BY <1>1, AtWork DEF JobAt
<1>3. /\ next \in AllJobs /\ next.status = "running" /\ next.replay = None
      /\ next.query = job.query /\ next.original = job.original /\ next.diff = None
  BY <1>2 DEF AllJobs, Statuses
<1>4. JobAt("run", next)
  BY <1>1, <1>2, <1>3 DEF JobAt
<1>5. /\ s \in AllJobs /\ s.original = None /\ s.status = "pending" /\ s.replay = None
      /\ s.diff = None /\ s = NewJob(job.query)
  BY <1>2 DEF AllJobs, NewJob
<1>6. SavedOK(s, Runs) /\ SavedOK(row, Latencies) /\ row \in AllRows
  <2> HIDE DEF s
  <2> QED BY <1>5, JobMayBeSaved
<1>7. row = NewJob(job.query)
  BY <1>5 DEF Row, Columns, NewJob
<1>8. Save(j, s) /\ Advance(j, "run", next) /\ UNCHANGED <<recorded, pool, faults, crashes>>
  BY DEF Insert
<1>9. table[j] = None
  BY <1>1 DEF ReplayInv, RowAt
<1>10. row = [Row(s) EXCEPT !.original = None] /\ "run" # "answered"
  OBVIOUS
<1>11. /\ replays[j].phase \in Active \ Reading /\ next.query = replays[j].job.query
       /\ next.original = replays[j].job.original /\ row = NewJob(next.query)
  BY <1>1, <1>3, <1>7
<1> HIDE DEF job, s, next, row
<1> QED BY <1>3, <1>4, <1>5, <1>6, <1>8, <1>9, <1>10, <1>11, Saves

LEMMA UpdateInv ==
  ASSUME ReplayInv, NEW j \in Jobs, Update(j)
  PROVE  ReplayInv'
<1> DEFINE job == replays[j].job
           row == [Row(job) EXCEPT !.original = None]
<1>1. replays[j].phase = "update" /\ {"update", "answered"} \subseteq Active \ Reading
      /\ "answered" # "run"
  BY DEF Update, Active, Reading
<1>2. job \in AllJobs /\ JobAt("update", job) /\ job.query \in Queries
  BY <1>1, AtWork
<1>3. JobAt("answered", job)
  BY <1>1, <1>2 DEF JobAt
<1>4. SavedOK(job, Runs) /\ SavedOK(row, Latencies) /\ row \in AllRows
  <2> HIDE DEF job
  <2> QED BY <1>2, JobMayBeSaved
<1>5. Save(j, job) /\ Advance(j, "answered", job) /\ UNCHANGED <<recorded, pool, faults, crashes>>
  BY DEF Update
<1>6. pool => table[j] # None
  BY <1>1, <1>2, ReplayAssumption DEF ReplayInv, RowAt
<1>7. /\ job = replays[j].job /\ job.query = replays[j].job.query
      /\ job.original = replays[j].job.original
      /\ row = [Row(job) EXCEPT !.original = None]
  OBVIOUS
<1> HIDE DEF job, row
<1> QED BY <1>1, <1>2, <1>3, <1>4, <1>5, <1>6, <1>7, Saves

LEMMA CallFailsInv ==
  ASSUME ReplayInv, NEW j \in Jobs, CallFails(j)
  PROVE  ReplayInv'
BY Rejects DEF CallFails

LEMMA StoreInv ==
  ASSUME ReplayInv, NEW q \in Queries, NEW t \in Tables, Store(q, t)
  PROVE  ReplayInv'
<1>1. ReplayShape'
  BY DEF ReplayInv, ReplayShape, Store
<1>2. UNCHANGED <<pool, memory, table, replays, faults, crashes>>
  BY DEF Store
<1>3. \A p \in Queries : recorded[p] = Tables => recorded'[p] = Tables
  <2>1. \A p \in Queries : recorded[p] \subseteq recorded'[p] /\ recorded'[p] \subseteq Tables
    BY <1>1 DEF ReplayInv, ReplayShape, Store
  <2> QED BY <2>1
<1>4. \A j \in Jobs : replays[j].phase \in Active => WholeAt(replays[j])'
  <2> SUFFICES ASSUME NEW j \in Jobs, replays[j].phase \in Active PROVE WholeAt(replays[j])'
    OBVIOUS
  <2>1. replays[j].job.query \in Queries /\ WholeAt(replays[j])
    BY AtWork DEF ReplayInv
  <2> QED BY <1>2, <1>3, <2>1 DEF WholeAt
<1>5. \A j \in Jobs : RowAt(replays[j], table[j])'
  BY <1>2 DEF ReplayInv, RowAt
<1> QED BY <1>1, <1>2, <1>4, <1>5 DEF ReplayInv, PendingIsAccounted

\* What a restart leaves of a request.
LEMMA RestartInv ==
  ASSUME ReplayInv, Restart
  PROVE  ReplayInv'
<1>1. \A j \in Jobs : /\ replays'[j] = Lost(replays[j])
                      /\ memory'[j] = None
  BY DEF Restart
<1>2. \A j \in Jobs : replays'[j] = replays[j] \/ replays'[j] = Over("lost")
  BY <1>1 DEF Lost
<1>3. Over("lost") \in Ends /\ Over("lost").phase = "lost"
  BY DEF Over, Ends
<1>4. ReplayShape'
  <2>1. \A j \in Jobs : replays'[j] \in Ends \cup Going
    BY <1>2, <1>3 DEF ReplayInv, ReplayShape
  <2>2. replays' \in [Jobs -> Ends \cup Going]
    BY <2>1 DEF Restart
  <2>3. memory' \in [Jobs -> {None} \cup AllJobs]
    BY DEF Restart
  <2>4. crashes' \in 0..MaxCrashes
    BY ReplayAssumption DEF ReplayInv, ReplayShape, Restart
  <2> QED BY <2>2, <2>3, <2>4 DEF ReplayInv, ReplayShape, Restart
<1>5. "lost" \notin Active \cup {"idle"}
  BY DEF Active, Reading
<1>6. \A j \in Jobs :
         /\ replays'[j].phase \in Active =>
              JobAt(replays'[j].phase, replays'[j].job) /\ WholeAt(replays[j])'
         /\ SavedOK(table'[j], Latencies) /\ SavedOK(memory'[j], Runs)
  BY <1>1, <1>2, <1>3, <1>5 DEF ReplayInv, Restart, SavedOK, WholeAt
<1>7. \A j \in Jobs : RowAt(replays[j], table[j])'
  <2> SUFFICES ASSUME NEW j \in Jobs PROVE RowAt(replays[j], table[j])'
    OBVIOUS
  <2>1. CASE replays'[j] = Over("lost")
    <3>1. replays'[j].phase = "lost"
      BY <1>3, <2>1
    <3> QED BY <3>1 DEF RowAt, Reading
  <2>2. CASE replays'[j] = replays[j] /\ replays[j].phase \notin {"run", "update"}
    BY <2>2 DEF RowAt, ReplayInv, Restart
  <2>3. CASE replays[j].phase \in {"run", "update"}
    BY <1>1, <2>1, <2>3 DEF Lost
  <2> QED BY <1>2, <2>1, <2>2, <2>3
<1>8. PendingIsAccounted'
  <2> DEFINE n == Cardinality(Jobs)
             x == crashes * n
             y == (crashes + 1) * n
  <2>1. Stuck' \in SUBSET Jobs
    BY DEF Stuck
  <2>2. Cardinality(Stuck') \in Nat /\ Cardinality(Stuck') <= n /\ n \in Nat
    BY <2>1, FailuresCover
  <2>3. crashes \in Nat /\ faults \in Nat /\ crashes' = crashes + 1 /\ faults' = faults
    BY ReplayAssumption DEF ReplayInv, ReplayShape, Restart
  <2>4. x \in Nat /\ y = x + n
    BY <2>3, FailuresCover
  <2>5. Cardinality(Stuck') <= faults' + y
    <3> HIDE DEF n, x, y
    <3> QED BY <2>2, <2>3, <2>4
  <2>6. Cardinality(Stuck') <= faults' + crashes' * Cardinality(Jobs)
    BY <2>3, <2>5
  <2> QED BY <2>6 DEF PendingIsAccounted, Stuck
<1> QED BY <1>4, <1>6, <1>7, <1>8 DEF ReplayInv

LEMMA ReplayNextInv ==
  ASSUME ReplayInv, [ReplayNext]_replayVars
  PROVE  ReplayInv'
<1>1. CASE UNCHANGED replayVars
  BY <1>1 DEF replayVars, ReplayInv, ReplayShape, WholeAt, RowAt, PendingIsAccounted
<1>2. CASE ReplayNext
  BY <1>2, PostInv, ReadInv, InsertInv, RunInv, UpdateInv, CallFailsInv, StoreInv, RestartInv, SMTT(30)
     DEF ReplayNext, Step
<1> QED BY <1>1, <1>2

\* What a replay says of its query.
LEMMA MatchIs == ReplayInv => MatchMeansMatch
<1> SUFFICES ASSUME ReplayInv, NEW j \in Jobs, Matches(j)
             PROVE  /\ Outcome(j).status = RecordedRun(j).status
                    /\ ~Slower(RecordedRun(j), Outcome(j))
                    /\ Outcome(j).docs \in
                         {RecordedRun(j).docs} \cup (IF replays[j].whole THEN {} ELSE {{}})
  BY DEF MatchMeansMatch
<1> DEFINE job == replays[j].job
           run == Recorded[job.query].run
<1>1. /\ replays[j].phase = "answered" /\ replays[j].phase \in Active \ Reading
      /\ job.query \in Queries /\ job.original \in Originals(job.query)
      /\ JobAt("answered", job) /\ replays[j].whole \in BOOLEAN
      /\ job.status = "succeeded" /\ job.diff = "matches the original run"
  BY AtWork DEF Active, Reading, JobAt, Matches, Going
<1>2. job.replay \in Runs /\ Verdict(job.original, job.replay) = "matches the original run"
  BY <1>1 DEF JobAt
<1>3. run = [status |-> run.status, latency |-> run.latency, docs |-> run.docs]
  BY <1>1, ReplayAssumption
<1>4. /\ job.original.status = run.status /\ job.original.latency = run.latency
      /\ job.original.docs \in {run.docs, {}}
  <2>1. PICK d \in {run.docs, {}} : job.original = [run EXCEPT !.docs = d]
    BY <1>1, ZenonT(30) DEF Originals
  <2> HIDE DEF run
  <2> QED BY <1>3, <2>1, ZenonT(30)
<1>5. /\ job.original.status = job.replay.status
      /\ ~Slower(job.original, job.replay)
      /\ job.original.docs = job.replay.docs
  BY <1>2 DEF Verdict
<1>6. Slower(run, job.replay) <=> Slower(job.original, job.replay)
  BY <1>4 DEF Slower
<1>7. replays[j].whole => job.original.docs = run.docs
  BY <1>1 DEF ReplayInv, WholeAt
<1>8. Outcome(j) = job.replay /\ RecordedRun(j) = run
  BY DEF Outcome, RecordedRun
<1> HIDE DEF job, run
<1> QED BY <1>1, <1>4, <1>5, <1>6, <1>7, <1>8

LEMMA ReplayTypes == ReplayInv => ReplayTypeOK
<1> SUFFICES ASSUME ReplayInv PROVE ReplayTypeOK
  OBVIOUS
<1>1. ASSUME NEW j \in Jobs, replays[j].phase \notin {"idle", "refused", "lost"}
      PROVE  JobOK(replays[j].job, Runs)
  <2>1. replays[j].phase \in Active
    BY <1>1 DEF ReplayInv, ReplayShape, Ends, Going
  <2> DEFINE job == replays[j].job
  <2>2. job \in AllJobs /\ JobAt(replays[j].phase, job)
    BY <2>1, AtWork
  <2>3. job.query \in Queries /\ job.status \in Statuses
    BY <2>2 DEF AllJobs
  <2> HIDE DEF job
  <2>4. IF job.status = "succeeded"
        THEN job.replay \in Runs /\ job.diff \in Verdicts
        ELSE job.replay = None /\ job.diff = None
    BY <2>2, VerdictIs DEF JobAt
  <2> QED BY <2>3, <2>4 DEF JobOK, job
<1> QED BY <1>1 DEF ReplayInv, ReplayShape, SavedOK, ReplayTypeOK

\* The replay service keeps its accounts, whoever uses it.
LEMMA ReplaysHold == ReplaySpec => [](ReplayTypeOK /\ JobsAreAccounted /\ MatchMeansMatch)
<1>1. ReplayInv => ReplayTypeOK /\ JobsAreAccounted /\ MatchMeansMatch
  BY ReplayTypes, MatchIs DEF ReplayInv, JobsAreAccounted, AnsweredIsStored, RowAt
<1> QED BY <1>1, ReplayInitInv, ReplayNextInv, PTL DEF ReplaySpec

-----------------------------------------------------------------------------
(***************************************************************************)
(* The page, its requests and its panel.                                   *)
(***************************************************************************)

Answers == [of : Routes, read : Nat]

Hooks ==
    [dep : Routes, data : {Absent} \cup Answers, error : {Absent} \cup Routes,
     loading : BOOLEAN, refreshing : BOOLEAN, active : Slots \cup {Absent}]

Panels ==
    [mounted : {TRUE}, job : {None} \cup AllJobs, error : BOOLEAN, running : BOOLEAN,
     post : Jobs \cup {None}]

InFlight ==
    [state : {"pending", "failed"}, route : Routes, asked : Nat]
      \cup [state : {"answered"}, route : Routes, asked : Nat, read : Nat]

DashShape ==
    /\ now \in Nat /\ due \in Nat /\ started \in 0..now
    /\ page \in {"overview", "debug"}
    /\ requests \in [Slots -> {NoRequest} \cup InFlight]
    /\ hook \in Hooks
    /\ panel \in {NoPanel} \cup Panels

\* A request at time t: it is not overdue, its answer was young when it came.
RequestInv(q, t) ==
    /\ q.asked <= t /\ t <= q.asked + MaxWait[q.route]
    /\ q.state = "answered" => q.read <= t /\ q.asked < q.read + MaxAge[q.route]

\* The hook waits for a request of its own, for what it is set to.
HookInv ==
    /\ hook.dep \in RoutesOf(page)
    /\ hook.data # Absent => hook.data.of \in RoutesOf(page) /\ hook.data.read <= now
    /\ hook.active # Absent =>
         requests[hook.active] # NoRequest /\ requests[hook.active].route = hook.dep
    /\ ScreenIsCurrent

PanelInv ==
    /\ panel.mounted <=> (page = "debug" /\ Screen(hook) = "data")
    /\ panel.mounted /\ panel.running => panel.post \in Jobs

\* A polling page: what it waits for was asked for no longer ago than the timer
\* was set, so that what it shows is young enough until the timer fires again.
PollInv ==
    /\ due <= now + REFRESH
    /\ page = "overview" =>
         /\ now <= due
         /\ hook.active # Absent => due <= requests[hook.active].asked + REFRESH
         /\ Screen(hook) = "data" /\ ~hook.refreshing =>
              due < hook.data.read + MaxAge[hook.dep] + REFRESH

DashInv ==
    /\ DashShape
    /\ \A h \in Slots : requests[h] # NoRequest => RequestInv(requests[h], now)
    /\ HookInv
    /\ PanelInv
    /\ PollInv

-----------------------------------------------------------------------------
LEMMA Absence ==
  /\ \A d \in Answers : d # Absent
  /\ \A r \in Routes : r # Absent
  /\ \A h \in Slots : h # Absent
  /\ NoRequest \notin InFlight
BY DashboardAssumption DEF Answers, NoRequest, InFlight

LEMMA Pages ==
  ASSUME page \in {"overview", "debug"}
  PROVE  /\ RoutesOf(page) \subseteq Routes
         /\ \A r \in Routes \ RoutesOf(page) : r \in MetricRoutes <=> page = "debug"
BY DashboardAssumption DEF RoutesOf

LEMMA Screens ==
  ASSUME NEW u
  PROVE  /\ Screen(u) = "data" <=> ~u.loading /\ u.error = Absent /\ u.data # Absent
         /\ Screen(u) = "failure" <=> ~u.loading /\ u.error # Absent
BY DEF Screen

\* A hook whose effect runs again.
LEMMA RestartedIs ==
  ASSUME NEW u \in Hooks, NEW r \in Routes, NEW h \in Slots
  PROVE  LET v == Restarted([u EXCEPT !.dep = r], h) IN
         /\ v \in Hooks
         /\ v.dep = r /\ v.active = h /\ v.data = u.data /\ v.error = u.error
         /\ v.loading = u.loading
         /\ v.refreshing <=> u.refreshing \/ u.data # Absent
         /\ r = u.dep => v = Restarted(u, h)
<1> DEFINE w == [u EXCEPT !.dep = r]
           v == Restarted(w, h)
<1>1. w \in Hooks /\ w.data = u.data
  BY DEF Hooks
<1>2. /\ w.dep = r /\ w.error = u.error /\ w.loading = u.loading /\ w.refreshing = u.refreshing
      /\ w.active = u.active
  BY DEF Hooks
<1>3. r = u.dep => w = u
  BY DEF Hooks
<1> HIDE DEF w
<1>4. (w.refreshing \/ w.data # Absent) \in BOOLEAN
  BY <1>1 DEF Hooks
<1>5. v \in Hooks
  BY <1>1, <1>4 DEF Restarted, Hooks
<1>6. /\ v.dep = w.dep /\ v.active = h /\ v.data = w.data /\ v.error = w.error
      /\ v.loading = w.loading /\ v.refreshing = (w.refreshing \/ w.data # Absent)
  BY <1>1 DEF Restarted, Hooks
<1> QED BY <1>1, <1>2, <1>3, <1>5, <1>6 DEF w

LEMMA AgainIs ==
  ASSUME NEW u \in Hooks, NEW h \in Slots
  PROVE  LET v == Restarted(u, h) IN
         v.dep = u.dep /\ v.active = h /\ v.loading = u.loading
BY DEF Restarted, Hooks

LEMMA ResolvedIs ==
  ASSUME NEW u \in Hooks, NEW d \in Answers
  PROVE  LET v == Resolved(u, d) IN
         /\ v \in Hooks
         /\ v.dep = u.dep /\ v.active = Absent /\ v.data = d /\ v.error = Absent
         /\ v.loading = FALSE /\ v.refreshing = FALSE
BY DEF Resolved, Hooks

LEMMA RejectedIs ==
  ASSUME NEW u \in Hooks
  PROVE  LET v == Rejected(u) IN
         /\ v \in Hooks
         /\ v.dep = u.dep /\ v.active = Absent /\ v.data = u.data /\ v.error = u.dep
         /\ v.loading = FALSE /\ v.refreshing = FALSE
BY DEF Rejected, Hooks

LEMMA MountedIs ==
  ASSUME NEW r \in Routes, NEW h \in Slots
  PROVE  LET v == Mounted(r, h) IN
         /\ v \in Hooks
         /\ v.dep = r /\ v.active = h /\ v.data = Absent /\ v.error = Absent
         /\ v.loading = TRUE /\ v.refreshing = FALSE
BY DEF Mounted, Hooks

\* The panel is there where the debug page shows data.
LEMMA PanelIs ==
  ASSUME DashShape, PanelInv, NEW u, Show(u), page' = page
  PROVE  PanelInv' /\ panel' \in {NoPanel} \cup Panels
<1>1. panel' = PanelWith(page, u) /\ hook' = u
  BY DEF Show
<1>2. CASE page = "overview" \/ Screen(u) # "data"
  <2>1. panel' = NoPanel
    BY <1>1, <1>2 DEF PanelWith
  <2> QED BY <1>1, <1>2, <2>1 DEF PanelInv, NoPanel
<1>3. CASE page = "debug" /\ Screen(u) = "data" /\ panel.mounted
  <2>1. panel' = panel
    BY <1>1, <1>3 DEF PanelWith
  <2> QED BY <1>1, <1>3, <2>1 DEF PanelInv, DashShape
<1>4. CASE page = "debug" /\ Screen(u) = "data" /\ ~panel.mounted
  <2>1. panel' = FreshPanel
    BY <1>1, <1>4 DEF PanelWith
  <2>2. FreshPanel \in Panels /\ FreshPanel.mounted = TRUE /\ FreshPanel.running = FALSE
    BY DEF FreshPanel, Panels
  <2> QED BY <1>1, <1>4, <2>1, <2>2 DEF PanelInv
<1> QED BY <1>2, <1>3, <1>4 DEF DashShape

\* A client asks: its request starts now, the others stay as they are.
LEMMA AskIs ==
  ASSUME DashInv, NEW h \in Slots, NEW r \in Routes, Ask(h, r)
  PROVE  /\ now' = now
         /\ requests' \in [Slots -> {NoRequest} \cup InFlight]
         /\ requests'[h] # NoRequest /\ requests'[h].route = r /\ requests'[h].asked = now
         /\ \A g \in Slots : g # h => requests'[g] = requests[g]
         /\ \A g \in Slots : requests'[g] # NoRequest => RequestInv(requests'[g], now)
<1> DEFINE q == [state |-> "pending", route |-> r, asked |-> now]
<1>1. requests' = [requests EXCEPT ![h] = q] /\ now' = now
  BY DEF Ask, Pending
<1>2. q \in InFlight /\ now \in Nat /\ MaxWait[r] \in Nat
  BY DashboardAssumption DEF DashInv, DashShape, InFlight
<1>3. q.state = "pending" /\ q.route = r /\ q.asked = now
  OBVIOUS
<1> HIDE DEF q
<1>4. RequestInv(q, now)
  BY <1>2, <1>3 DEF RequestInv
<1> QED BY <1>1, <1>2, <1>3, <1>4, Absence DEF DashInv, DashShape
\* The effect of the page runs again: for another setting, after a failure, or
\* because the timer fired.
LEMMA StartsInv ==
  ASSUME DashInv, NEW h \in Slots, NEW r \in RoutesOf(page),
         Ask(h, r), Show(Restarted([hook EXCEPT !.dep = r], h)), page' = page,
         started' \in {started, now}, due' \in {due, now + REFRESH}
  PROVE  DashInv'
<1> DEFINE v == Restarted([hook EXCEPT !.dep = r], h)
<1>1. DashShape /\ HookInv /\ PanelInv /\ PollInv /\ hook \in Hooks /\ now \in Nat
      /\ REFRESH \in Nat /\ due \in Nat /\ started \in 0..now
  BY DashboardAssumption DEF DashInv, DashShape
<1>2. r \in Routes
  BY <1>1, Pages DEF DashShape
<1>3. /\ v \in Hooks
      /\ v.dep = r /\ v.active = h /\ v.data = hook.data /\ v.error = hook.error
      /\ v.loading = hook.loading
      /\ v.refreshing <=> hook.refreshing \/ hook.data # Absent
  BY <1>1, <1>2, RestartedIs
<1>4. hook' = v
  BY DEF Show
<1>5. /\ now' = now /\ requests' \in [Slots -> {NoRequest} \cup InFlight]
      /\ requests'[h] # NoRequest /\ requests'[h].route = r /\ requests'[h].asked = now
      /\ \A g \in Slots : requests'[g] # NoRequest => RequestInv(requests'[g], now)
  BY <1>2, AskIs
<1>6. PanelInv' /\ panel' \in {NoPanel} \cup Panels
  BY <1>1, PanelIs
<1> HIDE DEF v
<1>7. DashShape'
  BY <1>1, <1>3, <1>4, <1>5, <1>6 DEF DashShape
<1>8. HookInv'
  <2>1. (hook'.data # Absent => hook'.data.of \in RoutesOf(page) /\ hook'.data.read <= now)
    BY <1>1, <1>3, <1>4 DEF HookInv
  <2>2. hook'.active = h /\ h # Absent
    BY <1>3, <1>4, Absence
  <2>3. FlagsTellTheTruth'
    BY <1>3, <1>4, <2>2 DEF FlagsTellTheTruth
  <2>4. ~(Screen(hook') = "data" /\ ~hook'.refreshing)
    BY <1>3, <1>4, Screens
  <2> QED BY <1>3, <1>4, <1>5, <2>1, <2>2, <2>3, <2>4 DEF HookInv, ScreenIsCurrent, RoutesOf
<1>9. PollInv'
  <2>1. hook'.active = h /\ ~(Screen(hook') = "data" /\ ~hook'.refreshing)
    BY <1>3, <1>4, Screens
  <2>2. due' <= now' + REFRESH /\ (page = "overview" => now' <= due')
    BY <1>1, <1>5 DEF PollInv
  <2> QED BY <1>5, <2>1, <2>2 DEF PollInv
<1> QED BY <1>5, <1>6, <1>7, <1>8, <1>9 DEF DashInv

\* The same page, set to what it was.
LEMMA AgainInv ==
  ASSUME DashInv, NEW h \in Slots,
         Ask(h, hook.dep), Show(Restarted(hook, h)), page' = page,
         started' \in {started, now}, due' \in {due, now + REFRESH}
  PROVE  DashInv'
<1>1. hook \in Hooks /\ hook.dep \in Routes /\ hook.dep \in RoutesOf(page)
  BY DEF DashInv, DashShape, HookInv, Hooks
<1>2. Restarted([hook EXCEPT !.dep = hook.dep], h) = Restarted(hook, h)
  BY <1>1, RestartedIs
<1>3. \E r \in RoutesOf(page) : r = hook.dep
  BY <1>1
<1>4. PICK r \in RoutesOf(page) : r = hook.dep
  BY <1>3
<1>5. Ask(h, r) /\ Show(Restarted([hook EXCEPT !.dep = r], h))
  BY <1>2, <1>4
<1> QED BY <1>5, StartsInv

LEMMA OpenInv ==
  ASSUME DashInv, NEW h \in Slots, NEW r \in Routes, Open(h, r)
  PROVE  DashInv'
<1> DEFINE v == Mounted(r, h)
<1>1. DashShape /\ now \in Nat /\ REFRESH \in Nat \ {0} /\ page \in {"overview", "debug"}
  BY DashboardAssumption DEF DashInv, DashShape
<1>2. /\ v \in Hooks
      /\ v.dep = r /\ v.active = h /\ v.data = Absent /\ v.error = Absent
      /\ v.loading = TRUE /\ v.refreshing = FALSE
  BY MountedIs
<1>3. hook' = v /\ due' = now + REFRESH /\ started' = now /\ panel' = NoPanel
      /\ page' \in {"overview", "debug"} /\ r \in RoutesOf(page')
  <2>1. page' = "overview" => r \in MetricRoutes
    BY DEF Open
  <2>2. page' = "debug" => r \in Queries
    BY DashboardAssumption DEF Open
  <2> QED BY <2>1, <2>2 DEF Open, RoutesOf
<1>4. /\ now' = now /\ requests' \in [Slots -> {NoRequest} \cup InFlight]
      /\ requests'[h] # NoRequest /\ requests'[h].route = r /\ requests'[h].asked = now
      /\ \A g \in Slots : requests'[g] # NoRequest => RequestInv(requests'[g], now)
  BY AskIs DEF Open
<1> HIDE DEF v
<1>5. Screen(hook') # "data" /\ h # Absent
  BY <1>2, <1>3, Screens, Absence
<1>6. DashShape'
  BY <1>1, <1>2, <1>3, <1>4 DEF DashShape
<1>7. HookInv'
  <2>1. FlagsTellTheTruth'
    BY <1>2, <1>3, <1>5 DEF FlagsTellTheTruth
  <2>2. hook'.data = Absent /\ hook'.active = h /\ hook'.dep = r
    BY <1>2, <1>3
  <2> QED BY <1>3, <1>4, <1>5, <2>1, <2>2 DEF HookInv, ScreenIsCurrent, RoutesOf
<1>8. PanelInv'
  BY <1>3, <1>5 DEF PanelInv, NoPanel
<1>9. PollInv'
  BY <1>1, <1>2, <1>3, <1>4, <1>5 DEF PollInv
<1> QED BY <1>4, <1>6, <1>7, <1>8, <1>9 DEF DashInv

\* A request that is answered where nobody waits for it leaves the hook alone.
LEMMA DeliverIs ==
  ASSUME DashInv, NEW h \in Slots, Deliver(h)
  PROVE  /\ now' = now
         /\ requests' \in [Slots -> {NoRequest} \cup InFlight]
         /\ requests[h] \in InFlight /\ RequestInv(requests[h], now)
         /\ \A g \in Slots : g # h => requests'[g] = requests[g]
         /\ \A g \in Slots : requests'[g] # NoRequest => RequestInv(requests'[g], now)
<1>1. requests' = [requests EXCEPT ![h] = NoRequest] /\ now' = now
  BY DEF Deliver
<1>2. requests[h] # NoRequest
  BY DEF Deliver, NoRequest
<1> QED BY <1>1, <1>2 DEF DashInv, DashShape

\* The request that is waited for failed.
LEMMA RejectInv ==
  ASSUME DashInv, hook' = Rejected(hook), PanelInv', panel' \in {NoPanel} \cup Panels,
         UNCHANGED <<now, page, due, started>>,
         requests' \in [Slots -> {NoRequest} \cup InFlight],
         \A g \in Slots : requests'[g] # NoRequest => RequestInv(requests'[g], now)
  PROVE  DashInv'
<1>1. DashShape /\ HookInv /\ PollInv /\ hook \in Hooks
  BY DEF DashInv, DashShape
<1>2. /\ hook' \in Hooks
      /\ hook'.dep = hook.dep /\ hook'.active = Absent /\ hook'.data = hook.data
      /\ hook'.error = hook.dep /\ hook'.loading = FALSE /\ hook'.refreshing = FALSE
  BY <1>1, RejectedIs
<1>3. Screen(hook') # "data"
  BY <1>1, <1>2, Screens, Absence DEF Hooks
<1>4. DashShape'
  BY <1>1, <1>2 DEF DashShape
<1>5. HookInv'
  <2>1. FlagsTellTheTruth'
    BY <1>2 DEF FlagsTellTheTruth
  <2> QED BY <1>1, <1>2, <1>3, <2>1 DEF HookInv, ScreenIsCurrent, RoutesOf
<1>6. PollInv'
  BY <1>1, <1>2, <1>3 DEF PollInv
<1> QED BY <1>4, <1>5, <1>6 DEF DashInv

LEMMA AnsweredInv ==
  ASSUME DashInv, NEW h \in Slots, Answered(h)
  PROVE  DashInv'
<1> DEFINE q == requests[h]
           v == CASE h # hook.active -> hook
                  [] h = hook.active /\ q.state = "answered" ->
                         Resolved(hook, [of |-> q.route, read |-> q.read])
                  [] OTHER -> Rejected(hook)
<1>1. DashShape /\ HookInv /\ PanelInv /\ PollInv /\ hook \in Hooks /\ now \in Nat
      /\ REFRESH \in Nat /\ due \in Nat
  BY DashboardAssumption DEF DashInv, DashShape
<1>2. Deliver(h) /\ Show(v) /\ page' = page /\ due' = due /\ started' = started
  BY DEF Answered
<1>3. /\ now' = now /\ requests' \in [Slots -> {NoRequest} \cup InFlight]
      /\ q \in InFlight /\ RequestInv(q, now)
      /\ \A g \in Slots : g # h => requests'[g] = requests[g]
      /\ \A g \in Slots : requests'[g] # NoRequest => RequestInv(requests'[g], now)
  BY <1>2, DeliverIs
<1>4. hook' = v /\ PanelInv' /\ panel' \in {NoPanel} \cup Panels
  BY <1>1, <1>2, PanelIs DEF Show
<1>5. CASE h # hook.active
  <2>1. hook' = hook
    BY <1>4, <1>5
  <2>2. hook.active # Absent => hook.active \in Slots /\ requests'[hook.active] = requests[hook.active]
    BY <1>1, <1>3, <1>5 DEF Hooks
  <2>3. HookInv'
    BY <1>1, <1>2, <1>3, <2>1, <2>2
       DEF HookInv, ScreenIsCurrent, FlagsTellTheTruth, RoutesOf
  <2>4. PollInv'
    BY <1>1, <1>2, <1>3, <2>1, <2>2 DEF PollInv
  <2> HIDE DEF v
  <2>5. DashShape'
    BY <1>1, <1>2, <1>3, <1>4, <2>1 DEF DashShape
  <2> QED BY <1>3, <1>4, <2>3, <2>4, <2>5 DEF DashInv
<1>6. CASE h = hook.active /\ q.state = "answered"
  <2> DEFINE d == [of |-> q.route, read |-> q.read]
  <2>1. /\ d \in Answers /\ q.route \in Routes /\ q.read \in Nat /\ q.asked \in Nat
        /\ q.read <= now /\ q.asked < q.read + MaxAge[q.route] /\ MaxAge[q.route] \in Nat
    BY <1>3, <1>6, DashboardAssumption DEF InFlight, Answers, RequestInv
  <2>2. hook' = Resolved(hook, d)
    BY <1>4, <1>6
  <2>3. d.of = q.route /\ d.read = q.read
    OBVIOUS
  <2>4. q.route = hook.dep /\ hook.dep \in RoutesOf(page) /\ hook.active # Absent
    BY <1>1, <1>6, Absence DEF HookInv
  <2> HIDE DEF d, v
  <2>5. /\ hook' \in Hooks
        /\ hook'.dep = hook.dep /\ hook'.active = Absent /\ hook'.data = d
        /\ hook'.error = Absent /\ hook'.loading = FALSE /\ hook'.refreshing = FALSE
    BY <1>1, <2>1, <2>2, ResolvedIs
  <2>6. DashShape'
    BY <1>1, <1>2, <1>3, <1>4, <2>5 DEF DashShape
  <2>7. HookInv'
    <3>1. FlagsTellTheTruth'
      BY <2>5 DEF FlagsTellTheTruth
    <3> QED BY <1>2, <1>3, <2>1, <2>3, <2>4, <2>5, <3>1 DEF HookInv, ScreenIsCurrent, RoutesOf
  <2>8. PollInv'
    <3>1. page = "overview" => due < q.read + MaxAge[q.route] + REFRESH
      BY <1>1, <1>6, <2>1, <2>4 DEF PollInv
    <3> QED BY <1>1, <1>2, <1>3, <2>3, <2>4, <2>5, <3>1 DEF PollInv
  <2> QED BY <1>3, <1>4, <2>6, <2>7, <2>8 DEF DashInv
<1>7. CASE h = hook.active /\ q.state # "answered"
  <2>1. hook' = Rejected(hook)
    BY <1>4, <1>7
  <2> HIDE DEF v
  <2> QED BY <1>1, <1>2, <1>3, <1>4, <2>1, RejectInv DEF DashInv
<1> QED BY <1>5, <1>6, <1>7
LEMMA UnreachableInv ==
  ASSUME DashInv, Unreachable
  PROVE  DashInv'
<1>1. PanelInv' /\ panel' \in {NoPanel} \cup Panels
  BY PanelIs DEF DashInv, Unreachable
<1>2. /\ hook' = Rejected(hook) /\ UNCHANGED <<requests, now, page, due, started>>
  BY DEF Unreachable, Show
<1> QED BY <1>1, <1>2, RejectInv DEF DashInv, DashShape

\* The page and the panel stay as they are.
LEMMA SamePage ==
  ASSUME DashInv, UNCHANGED <<page, hook, panel>>
  PROVE  PanelInv' /\ UNCHANGED <<Screen(hook), RoutesOf(page)>>
BY DEF DashInv, PanelInv, Screen, RoutesOf

LEMMA ServeInv ==
  ASSUME DashInv, NEW h \in Slots, Serve(h)
  PROVE  DashInv'
<1>1. DashShape /\ HookInv /\ PollInv /\ now \in Nat
  BY DEF DashInv, DashShape
<1>2. UNCHANGED <<now, page, hook, due, started, panel>> /\ requests[h].state = "pending"
  BY DEF Serve, Reply, Refuse
<1>3. PICK q \in InFlight : /\ requests' = [requests EXCEPT ![h] = q]
                            /\ q.route = requests[h].route /\ q.asked = requests[h].asked
                            /\ RequestInv(q, now)
  <2>1. requests[h] \in InFlight /\ RequestInv(requests[h], now)
    BY <1>1, <1>2 DEF DashShape, DashInv, NoRequest
  <2>2. requests[h].route \in Routes /\ requests[h].asked \in Nat
    BY <2>1 DEF InFlight
  <2>3. CASE Reply(h)
    <3>1. PICK read \in 0..now :
            /\ now < read + MaxAge[requests[h].route]
            /\ requests' = [requests EXCEPT ![h] =
                              Answer(requests[h].route, requests[h].asked, read)]
      BY <2>3 DEF Reply
    <3> DEFINE q == Answer(requests[h].route, requests[h].asked, read)
    <3>2. q \in InFlight /\ q.state = "answered" /\ q.read = read
          /\ q.route = requests[h].route /\ q.asked = requests[h].asked
      BY <1>1, <2>2 DEF Answer, InFlight
    <3>3. MaxAge[requests[h].route] \in Nat
      BY <2>2, DashboardAssumption
    <3>4. RequestInv(q, now)
      <4> HIDE DEF q
      <4> QED BY <1>1, <2>1, <2>2, <3>1, <3>2, <3>3 DEF RequestInv
    <3> QED BY <3>1, <3>2, <3>4
  <2>4. CASE Refuse(h)
    <3> DEFINE q == Refusal(requests[h].route, requests[h].asked)
    <3>1. q \in InFlight /\ q.state = "failed"
          /\ q.route = requests[h].route /\ q.asked = requests[h].asked
      BY <2>2 DEF Refusal, InFlight
    <3>2. RequestInv(q, now)
      BY <2>1, <3>1 DEF RequestInv
    <3> QED BY <2>4, <3>1, <3>2 DEF Refuse
  <2> QED BY <2>3, <2>4 DEF Serve
<1>4. /\ requests' \in [Slots -> {NoRequest} \cup InFlight]
      /\ \A g \in Slots : requests'[g] # NoRequest => RequestInv(requests'[g], now)
      /\ \A g \in Slots : requests[g] # NoRequest =>
           /\ requests'[g] # NoRequest /\ requests'[g].route = requests[g].route
           /\ requests'[g].asked = requests[g].asked
  BY <1>1, <1>3, Absence DEF DashInv, DashShape
<1>5. DashShape'
  BY <1>1, <1>2, <1>4 DEF DashShape
<1>6. hook.active # Absent => hook.active \in Slots /\ requests[hook.active] # NoRequest
  BY <1>1 DEF DashShape, Hooks, HookInv
<1>7. HookInv' /\ PollInv'
  BY <1>1, <1>2, <1>4, <1>6, SamePage
     DEF HookInv, PollInv, ScreenIsCurrent, FlagsTellTheTruth
<1> QED BY <1>2, <1>4, <1>5, <1>7, SamePage DEF DashInv

LEMMA WaitInv ==
  ASSUME DashInv, Wait
  PROVE  DashInv'
<1>1. DashShape /\ HookInv /\ PollInv /\ now \in Nat /\ due \in Nat /\ REFRESH \in Nat
  BY DashboardAssumption DEF DashInv, DashShape
<1>2. /\ UNCHANGED <<requests, page, hook, due, started, panel>> /\ now' = now + 1
      /\ page = "overview" /\ now < due
  BY <1>1 DEF Wait, Pass, TimerDue
<1>3. \A h \in Slots : requests'[h] # NoRequest => RequestInv(requests'[h], now')
  <2> SUFFICES ASSUME NEW h \in Slots, requests[h] # NoRequest
               PROVE  RequestInv(requests[h], now + 1)
    BY <1>2
  <2> DEFINE q == requests[h]
  <2>1. q \in InFlight /\ RequestInv(q, now)
    BY <1>1 DEF DashInv, DashShape
  <2>2. /\ q.route \in Routes /\ q.asked \in Nat /\ (q.state = "answered" => q.read \in Nat)
        /\ MaxWait[q.route] \in Nat
    BY <2>1, DashboardAssumption DEF InFlight
  <2>3. now < q.asked + MaxWait[q.route]
    <3>1. ~(now >= q.asked + MaxWait[q.route])
      BY DEF Wait, Pass, Overdue
    <3> DEFINE t == q.asked + MaxWait[q.route]
    <3>2. t \in Nat
      BY <2>2
    <3> HIDE DEF t
    <3>3. now < t
      BY <1>1, <3>1, <3>2 DEF t
    <3> QED BY <3>3 DEF t
  <2>4. q.asked <= now + 1 /\ now + 1 <= q.asked + MaxWait[q.route]
    <3> DEFINE wait == MaxWait[q.route]
    <3>1. q.asked <= now /\ wait \in Nat /\ now < q.asked + wait
      BY <2>1, <2>2, <2>3 DEF RequestInv
    <3> HIDE DEF q, wait
    <3>2. q.asked <= now + 1 /\ now + 1 <= q.asked + wait
      BY <1>1, <2>2, <3>1
    <3> QED BY <3>2 DEF wait
  <2>5. q.state = "answered" => q.read <= now + 1 /\ q.asked < q.read + MaxAge[q.route]
    <3> HIDE DEF q
    <3> QED BY <1>1, <2>1, <2>2 DEF RequestInv
  <2> QED BY <2>4, <2>5 DEF RequestInv
<1>4. DashShape'
  BY <1>1, <1>2 DEF DashShape
<1>5. HookInv'
  <2>1. hook.data # Absent => hook.data.read \in Nat
    BY <1>1 DEF DashShape, Hooks, Answers
  <2> QED BY <1>1, <1>2, <2>1, SamePage DEF HookInv, ScreenIsCurrent, FlagsTellTheTruth
<1>6. PollInv'
  BY <1>1, <1>2, SamePage DEF PollInv
<1> QED BY <1>2, <1>3, <1>4, <1>5, <1>6, SamePage DEF DashInv

LEMMA BrowseInv ==
  ASSUME DashInv, Browse
  PROVE  DashInv'
<1>1. now \in Nat /\ started \in 0..now
  BY DEF DashInv, DashShape
<1>2. ASSUME NEW h \in Slots, NEW r \in Routes, Select(h, r) PROVE DashInv'
  <2>1. r \in RoutesOf(page)
    BY <1>2 DEF Select
  <2> QED BY <1>2, <2>1, StartsInv DEF Select
<1>3. ASSUME NEW h \in Slots, Retry(h) \/ Timer(h) PROVE DashInv'
  BY <1>3, AgainInv DEF Retry, Timer
<1> QED BY <1>2, <1>3, OpenInv, AnsweredInv, UnreachableInv, ServeInv, WaitInv DEF Browse

\* The panel replays queries, and takes the job it is answered with.
LEMMA ReplayingInv ==
  ASSUME DashInv, ReplayInv, Replaying
  PROVE  DashInv' /\ [ReplayNext]_replayVars
<1>1. DashShape /\ HookInv /\ PanelInv /\ PollInv /\ panel \in {NoPanel} \cup Panels
  BY DEF DashInv, DashShape
<1>2. UNCHANGED <<answersVars, page, hook, due, started>>
  BY DEF Replaying
<1>3. ASSUME panel' \in {NoPanel} \cup Panels, panel'.mounted = panel.mounted,
             panel'.mounted /\ panel'.running => panel'.post \in Jobs
      PROVE  DashInv'
  <2>1. DashShape'
    BY <1>1, <1>2, <1>3 DEF DashShape, answersVars
  <2>2. HookInv' /\ PollInv' /\ UNCHANGED <<requests, now>>
    BY <1>1, <1>2
       DEF HookInv, PollInv, ScreenIsCurrent, FlagsTellTheTruth, RoutesOf, Screen, answersVars
  <2>3. PanelInv'
    BY <1>1, <1>2, <1>3 DEF PanelInv, Screen
  <2> QED BY <2>1, <2>2, <2>3 DEF DashInv
<1>4. ASSUME NEW j \in Jobs, Click(j) PROVE DashInv' /\ [ReplayNext]_replayVars
  <2>1. panel \in Panels
    BY <1>1, <1>4 DEF Click, NoPanel
  <2>2. hook.data.of \in Queries
    <3>1. page = "debug" /\ hook.data # Absent
      BY <1>1, <1>4, Screens DEF Click, PanelInv
    <3> QED BY <1>1, <3>1 DEF HookInv, RoutesOf
  <2>3. /\ panel' \in Panels /\ panel'.mounted = panel.mounted
        /\ panel'.post = j
    BY <1>4, <2>1 DEF Click, Panels
  <2> QED BY <1>3, <1>4, <2>2, <2>3 DEF Click, ReplayNext
<1>5. ASSUME Waiting, panel.post \in Jobs, UNCHANGED replayVars,
             \/ panel' = [panel EXCEPT !.running = FALSE, !.error = TRUE]
             \/ /\ replays[panel.post].phase = "answered"
                /\ panel' = [panel EXCEPT !.running = FALSE, !.job = replays[panel.post].job]
      PROVE  DashInv'
  <2>1. panel \in Panels
    BY <1>1, <1>5 DEF Waiting, NoPanel
  <2>2. replays[panel.post].phase = "answered" => replays[panel.post].job \in AllJobs
    BY <1>5, AtWork DEF Active
  <2>3. panel' \in Panels /\ panel'.mounted = panel.mounted /\ panel'.running = FALSE
    BY <1>5, <2>1, <2>2 DEF Panels
  <2> QED BY <1>3, <2>3
<1>6. CASE Replied \/ GaveUp
  <2>1. panel.post \in Jobs
    BY <1>1, <1>6 DEF Replied, GaveUp, Waiting, PanelInv
  <2>2. DashInv'
    BY <1>5, <1>6, <2>1 DEF Replied, GaveUp
  <2> QED BY <1>6, <2>2 DEF Replied, GaveUp
<1>7. CASE /\ \/ \E j \in Jobs : Step(j) \/ CallFails(j)
              \/ \E q \in Queries, t \in Tables : Store(q, t)
              \/ Restart
           /\ UNCHANGED panel
  <2>1. DashInv'
    BY <1>1, <1>3, <1>7 DEF PanelInv
  <2> QED BY <1>7, <2>1 DEF ReplayNext
<1> QED BY <1>4, <1>6, <1>7 DEF Replaying
LEMMA DashInitInv == DashInit => DashInv /\ ReplayInv
<1> SUFFICES ASSUME DashInit PROVE DashInv /\ ReplayInv
  OBVIOUS
<1>1. PICK h \in Slots, r \in RoutesOf(page) :
        /\ requests = [s \in Slots |->
             IF s = h THEN [state |-> "pending", route |-> r, asked |-> 0] ELSE NoRequest]
        /\ hook = Mounted(r, h)
  BY DEF DashInit
<1>2. /\ now = 0 /\ due = REFRESH /\ REFRESH \in Nat /\ started = 0 /\ panel = NoPanel
      /\ page \in {"overview", "debug"}
  BY DashboardAssumption DEF DashInit
<1>3. r \in Routes /\ MaxWait[r] \in Nat /\ h # Absent
  BY <1>2, Pages, Absence, DashboardAssumption
<1> DEFINE q == [state |-> "pending", route |-> r, asked |-> 0]
<1>4. q \in InFlight /\ q.state = "pending" /\ q.route = r /\ q.asked = 0
  BY <1>3 DEF InFlight
<1>5. \A s \in Slots : requests[s] = IF s = h THEN q ELSE NoRequest
  BY <1>1
<1>6. requests \in [Slots -> {NoRequest} \cup InFlight]
  BY <1>1, <1>4
<1> HIDE DEF q
<1>7. q # NoRequest /\ RequestInv(q, now)
  BY <1>2, <1>3, <1>4, Absence DEF RequestInv
<1>8. /\ hook \in Hooks
      /\ hook.dep = r /\ hook.active = h /\ hook.data = Absent /\ hook.error = Absent
      /\ hook.loading = TRUE /\ hook.refreshing = FALSE
  <2> DEFINE v == Mounted(r, h)
  <2>1. /\ v \in Hooks
        /\ v.dep = r /\ v.active = h /\ v.data = Absent /\ v.error = Absent
        /\ v.loading = TRUE /\ v.refreshing = FALSE
    BY <1>3, MountedIs
  <2>2. hook = v
    BY <1>1
  <2> HIDE DEF v
  <2> QED BY <2>1, <2>2
<1>9. Screen(hook) # "data"
  BY <1>8, Screens
<1>10. DashShape
  BY <1>2, <1>6, <1>8 DEF DashShape
<1>11. HookInv
  BY <1>1, <1>3, <1>4, <1>5, <1>7, <1>8, <1>9 DEF HookInv, ScreenIsCurrent, FlagsTellTheTruth
<1>12. PanelInv
  BY <1>2, <1>9 DEF PanelInv, NoPanel
<1>13. PollInv
  BY <1>2, <1>4, <1>5, <1>8, <1>9 DEF PollInv
<1>14. ReplayInv
  BY ReplayInitInv DEF DashInit
<1> QED BY <1>5, <1>7, <1>10, <1>11, <1>12, <1>13, <1>14 DEF DashInv

LEMMA DashNextInv ==
  ASSUME DashInv, ReplayInv, [DashNext]_dashVars
  PROVE  DashInv' /\ ReplayInv' /\ [ReplayNext]_replayVars
<1>1. CASE Browse
  <2>1. UNCHANGED replayVars
    BY <1>1 DEF Browse
  <2> QED BY <1>1, <2>1, BrowseInv, ReplayNextInv
<1>2. CASE Replaying
  BY <1>2, ReplayingInv, ReplayNextInv
<1>3. CASE UNCHANGED dashVars
  <2>1. UNCHANGED replayVars /\ UNCHANGED <<now, requests, page, hook, due, started, panel>>
    BY <1>3 DEF dashVars, answersVars
  <2>2. DashInv'
    BY <2>1 DEF DashInv, DashShape, HookInv, PanelInv, PollInv, ScreenIsCurrent,
                FlagsTellTheTruth, RoutesOf, Screen
  <2> QED BY <2>1, <2>2, ReplayNextInv
<1> QED BY <1>1, <1>2, <1>3 DEF DashNext

LEMMA DashInductive == DashSpec => [](DashInv /\ ReplayInv)
<1>1. DashInit => DashInv /\ ReplayInv
  BY DashInitInv
<1>2. DashInv /\ ReplayInv /\ [DashNext]_dashVars => DashInv' /\ ReplayInv'
  BY DashNextInv
<1> QED BY <1>1, <1>2, PTL DEF DashSpec

\* Through the panel an operator does with the replay service what any client
\* may do, however often it gives up on a replay: whatever holds of ReplayJob
\* by itself holds behind the dashboard.
THEOREM PanelUsesReplays == DashSpec => ReplaySpec
<1>1. DashInit => ReplayInit
  BY DEF DashInit
<1>2. DashInv /\ ReplayInv /\ [DashNext]_dashVars => [ReplayNext]_replayVars
  BY DashNextInv
<1> QED BY <1>1, <1>2, DashInductive, PTL DEF DashSpec, ReplaySpec

\* The outcome a client was answered with is the stored one through every later
\* failure and restart, while the columns of the original run stay empty; each
\* job that stays pending is owed to a failure or a restart.
THEOREM JobsAccounted == ReplaySpec => []JobsAreAccounted
BY ReplaysHold, PTL

\* No replay is said to match the recorded run unless it ended like it and was
\* not slower; and its documents are the recorded ones, or none if the rows of
\* that run were still being stored when the replay was asked for.
THEOREM MatchesMatch == ReplaySpec => []MatchMeansMatch
BY ReplaysHold, PTL

\* The page, its hook and its panel are what their types say, and the panel is
\* mounted exactly where the debug page has data to show.
THEOREM DashTypeCorrect == DashSpec => []DashTypeOK
<1>1. ASSUME DashInv, ReplayInv PROVE DashTypeOK
  <2>1. DashShape /\ HookInv /\ PanelInv /\ hook \in Hooks
    BY <1>1 DEF DashInv, DashShape
  <2>2. hook.data = Absent \/ hook.data.read \in Nat
    BY <2>1 DEF Hooks, Answers
  <2>3. DataOK(hook.data)
    BY <2>1, <2>2 DEF DashShape, HookInv, DataOK
  <2>4. panel.mounted => panel.post \in Jobs \cup {None}
    <3>1. CASE panel = NoPanel
      BY <3>1 DEF NoPanel
    <3>2. CASE panel \in Panels
      BY <3>2 DEF Panels
    <3> QED BY <2>1, <3>1, <3>2 DEF DashShape
  <2>5. hook.active \in Slots \cup {Absent}
    BY <2>1 DEF Hooks
  <2> QED BY <1>1, <2>1, <2>3, <2>4, <2>5, ReplayTypes
          DEF DashTypeOK, DashShape, HookInv, PanelInv
<1> QED BY <1>1, DashInductive, PTL

\* Whatever is asked for, answered, given up and answered after all, and in
\* whatever order, the screen is that of the setting chosen now or says that
\* it is about to be.
THEOREM CurrentScreen == DashSpec => []ScreenIsCurrent
<1>1. DashInv => ScreenIsCurrent
  BY DEF DashInv, HookInv
<1> QED BY <1>1, DashInductive, PTL

\* A refresh never blanks the screen.
THEOREM NeverBlanks == DashSpec => NeverBlank
<1>1. ASSUME DashInv, [DashNext]_dashVars, page' = page, Screen(hook) \in {"data", "failure"}
      PROVE  Screen(hook') \in {"data", "failure"}
  <2> USE <1>1
  <2>1. DashShape /\ HookInv /\ hook \in Hooks /\ hook.dep \in Routes
    BY DEF DashInv, DashShape, Hooks
  <2>2. ~hook.loading /\ (hook.error # Absent \/ hook.data # Absent)
    BY Screens
  <2>3. ASSUME NEW h \in Slots, NEW r \in Routes,
               hook' = Restarted([hook EXCEPT !.dep = r], h)
        PROVE  Screen(hook') \in {"data", "failure"}
    <3>1. /\ hook'.loading = hook.loading /\ hook'.error = hook.error
          /\ hook'.data = hook.data
      BY <2>1, <2>3, RestartedIs
    <3> QED BY <2>2, <3>1, Screens
  <2>4. ASSUME NEW h \in Slots, hook' = Restarted(hook, h)
        PROVE  Screen(hook') \in {"data", "failure"}
    BY <2>1, <2>3, <2>4, RestartedIs, ZenonT(30)
  <2>5. ASSUME hook' = Rejected(hook)
        PROVE  Screen(hook') \in {"data", "failure"}
    <3>1. hook'.loading = FALSE /\ hook'.error = hook.dep
      BY <2>1, <2>5, RejectedIs
    <3> QED BY <2>1, <3>1, Screens, Absence
  <2>6. ASSUME NEW d \in Answers, hook' = Resolved(hook, d)
        PROVE  Screen(hook') \in {"data", "failure"}
    <3>1. hook'.loading = FALSE /\ hook'.error = Absent /\ hook'.data = d
      BY <2>1, <2>6, ResolvedIs
    <3> QED BY <3>1, Screens, Absence
  <2>7. ASSUME NEW h \in Slots, Answered(h)
        PROVE  Screen(hook') \in {"data", "failure"}
    <3>1. requests[h] \in InFlight
      BY <2>7, DeliverIs DEF Answered
    <3>2. requests[h].state = "answered" =>
            [of |-> requests[h].route, read |-> requests[h].read] \in Answers
      BY <3>1 DEF InFlight, Answers
    <3> QED BY <2>5, <2>6, <2>7, <3>2 DEF Answered, Show
  <2>8. CASE UNCHANGED hook
    BY <2>8
  <2>9. ASSUME NEW h \in Slots, NEW r \in Routes, Open(h, r)
        PROVE  Screen(hook') \in {"data", "failure"}
    <3>1. page' # page
      BY <2>1, <2>9, Pages DEF Open, DashShape
    <3> QED BY <3>1
  <2>10. ASSUME NEW h \in Slots, NEW r \in Routes, Select(h, r)
         PROVE  Screen(hook') \in {"data", "failure"}
    BY <2>3, <2>10 DEF Select, Show
  <2>11. ASSUME NEW h \in Slots, Retry(h) \/ Timer(h)
         PROVE  Screen(hook') \in {"data", "failure"}
    BY <2>4, <2>11 DEF Retry, Timer, Show
  <2>12. CASE Unreachable
    BY <2>5, <2>12 DEF Unreachable, Show
  <2>13. CASE Replaying \/ Wait \/ (\E h \in Slots : Serve(h)) \/ UNCHANGED dashVars
    BY <2>8, <2>13 DEF Replaying, Wait, Serve, dashVars
  <2> QED BY <2>7, <2>9, <2>10, <2>11, <2>12, <2>13 DEF DashNext, Browse
<1> QED BY <1>1, DashInductive, PTL DEF DashSpec, NeverBlank

-----------------------------------------------------------------------------
(***************************************************************************)
(* The timer keeps a polling page up to date.                              *)
(***************************************************************************)

\* A skeleton waits for the request it began with, or for the one the timer
\* put in its place, which ends before the timer fires again.
SkeletonInv ==
    page = "overview" /\ hook.loading /\ MaxWait[hook.dep] < REFRESH =>
        LET q == requests[hook.active] IN
        \/ q.asked = started
        \/ /\ started <= q.asked /\ q.asked <= started + MaxWait[hook.dep]
           /\ due = q.asked + REFRESH

\* Asked again while the skeleton is on display, the request of a setting is
\* the first one or that of the timer.
LEMMA AgainSkeleton ==
  ASSUME DashInv, SkeletonInv, NEW h \in Slots, Timer(h)
  PROVE  SkeletonInv'
<1>1. /\ DashShape /\ HookInv /\ hook \in Hooks /\ hook.dep \in Routes
      /\ now \in Nat /\ due \in Nat /\ started \in 0..now /\ REFRESH \in Nat
  BY DashboardAssumption DEF DashInv, DashShape, Hooks
<1>2. Ask(h, hook.dep) /\ hook' = Restarted(hook, h) /\ due' = now + REFRESH
      /\ UNCHANGED <<page, started>> /\ page = "overview" /\ now >= due
  BY DEF Timer, TimerDue, Show
<1>3. /\ hook'.dep = hook.dep /\ hook'.active = h /\ hook'.loading = hook.loading
  BY <1>1, <1>2, AgainIs
<1>4. requests'[h].asked = now
  BY <1>1, <1>2, AskIs
<1>5. hook.loading /\ MaxWait[hook.dep] < REFRESH => now <= started + MaxWait[hook.dep]
  <2> SUFFICES ASSUME hook.loading, MaxWait[hook.dep] < REFRESH
               PROVE  now <= started + MaxWait[hook.dep]
    OBVIOUS
  <2> DEFINE q == requests[hook.active]
             wait == MaxWait[hook.dep]
  <2>1. hook.active # Absent /\ hook.active \in Slots /\ q # NoRequest /\ q.route = hook.dep
    BY <1>1 DEF HookInv, ScreenIsCurrent, FlagsTellTheTruth, Hooks
  <2>2. q \in InFlight /\ RequestInv(q, now)
    BY <1>1, <2>1 DEF DashShape, DashInv
  <2>3. q.asked \in Nat /\ wait \in Nat /\ now <= q.asked + wait
    BY <1>1, <2>1, <2>2, DashboardAssumption DEF InFlight, RequestInv
  <2>4. wait < REFRESH
    OBVIOUS
  <2>5. q.asked = started \/ due = q.asked + REFRESH
    BY <1>2 DEF SkeletonInv
  <2> HIDE DEF q, wait
  <2>6. now <= started + wait
    BY <1>1, <1>2, <2>3, <2>4, <2>5
  <2> QED BY <2>6 DEF wait
<1> QED BY <1>1, <1>2, <1>3, <1>4, <1>5 DEF SkeletonInv

LEMMA SkeletonNext ==
  ASSUME DashInv, SkeletonInv, [DashNext]_dashVars
  PROVE  SkeletonInv'
<1>1. DashShape /\ HookInv /\ hook \in Hooks /\ hook.dep \in Routes /\ RoutesOf(page) \subseteq Routes
  BY Pages DEF DashInv, DashShape, Hooks
<1>2. ASSUME NEW h \in Slots, NEW r \in Routes, Open(h, r) PROVE SkeletonInv'
  <2>1. hook' = Mounted(r, h) /\ started' = now /\ Ask(h, r)
    BY <1>2 DEF Open
  <2>2. requests'[h].asked = now /\ hook'.active = h
    <3>1. requests'[h].asked = now
      BY <2>1, AskIs
    <3>2. hook'.active = h
      BY <2>1, MountedIs
    <3> QED BY <3>1, <3>2
  <2> QED BY <2>1, <2>2 DEF SkeletonInv
<1>3. ASSUME NEW h \in Slots, NEW r \in Routes, Select(h, r) PROVE SkeletonInv'
  <2>1. requests'[h].asked = now /\ hook'.active = h /\ started' = now
    BY <1>1, <1>3, AskIs, RestartedIs DEF Select, Show
  <2> QED BY <2>1 DEF SkeletonInv
<1>4. ASSUME NEW h \in Slots, Retry(h) PROVE SkeletonInv'
  <2>1. ~hook.loading
    BY <1>4, Screens DEF Retry
  <2>2. hook' = Restarted(hook, h)
    BY <1>4 DEF Retry, Show
  <2>3. hook'.loading = hook.loading
    BY <1>1, <2>2, AgainIs
  <2> QED BY <2>1, <2>3 DEF SkeletonInv
<1>5. ASSUME ~hook'.loading PROVE SkeletonInv'
  BY <1>5 DEF SkeletonInv
<1>6. ASSUME UNCHANGED <<page, hook, due, started>>,
             hook.loading => /\ requests'[hook.active].asked = requests[hook.active].asked
      PROVE  SkeletonInv'
  BY <1>6 DEF SkeletonInv
<1>7. ASSUME NEW h \in Slots, Answered(h) PROVE SkeletonInv'
  <2>1. CASE h = hook.active
    <3>1. requests[h] \in InFlight
      BY <1>7, DeliverIs DEF Answered
    <3>2. requests[h].state = "answered" =>
            [of |-> requests[h].route, read |-> requests[h].read] \in Answers
      BY <3>1 DEF InFlight, Answers
    <3>3. \/ hook' = Rejected(hook)
          \/ \E d \in Answers : hook' = Resolved(hook, d)
      BY <1>7, <2>1, <3>2 DEF Answered, Show
    <3> QED BY <1>1, <1>5, <3>3, RejectedIs, ResolvedIs
  <2>2. CASE h # hook.active
    <3>1. UNCHANGED <<page, hook, due, started>>
      BY <1>7, <2>2 DEF Answered, Show
    <3>2. hook.loading => hook.active \in Slots
      BY <1>1 DEF HookInv, ScreenIsCurrent, FlagsTellTheTruth, Hooks
    <3> QED BY <1>6, <1>7, <2>2, <3>1, <3>2, DeliverIs DEF Answered
  <2> QED BY <2>1, <2>2
<1>8. CASE Unreachable
  <2>1. hook' = Rejected(hook)
    BY <1>8 DEF Unreachable, Show
  <2> QED BY <1>1, <1>5, <2>1, RejectedIs
<1>9. ASSUME NEW h \in Slots, Serve(h) PROVE SkeletonInv'
  <2>1. hook.loading => hook.active \in Slots
    BY <1>1 DEF HookInv, ScreenIsCurrent, FlagsTellTheTruth, Hooks
  <2>2. \A g \in Slots : requests'[g].asked = requests[g].asked
    BY <1>1, <1>9 DEF DashShape, Serve, Reply, Refuse, Answer, Refusal
  <2> QED BY <1>6, <1>9, <2>1, <2>2 DEF Serve
<1>10. CASE Replaying \/ Wait \/ UNCHANGED dashVars
  BY <1>6, <1>10 DEF Replaying, Wait, Pass, dashVars, answersVars
<1> QED BY <1>2, <1>3, <1>4, <1>7, <1>8, <1>9, <1>10, AgainSkeleton DEF DashNext, Browse

\* Whatever the interval and the routes: data older than its route allows and
\* one interval is on the screen only while a request is under way, none that
\* the page waits for is older than an interval, and the skeleton of a route
\* that answers within the interval gives way within two requests.
THEOREM RefreshesKeepUp == DashSpec => []RefreshKeepsUp
<1>1. DashInit => SkeletonInv
  <2> SUFFICES ASSUME DashInit PROVE SkeletonInv
    OBVIOUS
  <2>1. PICK h \in Slots, r \in RoutesOf(page) :
          /\ requests = [s \in Slots |->
               IF s = h THEN [state |-> "pending", route |-> r, asked |-> 0] ELSE NoRequest]
          /\ hook = Mounted(r, h)
    BY DEF DashInit
  <2>2. requests[hook.active].asked = 0 /\ started = 0
    BY <2>1 DEF DashInit, Mounted
  <2> QED BY <2>2 DEF SkeletonInv
<1>2. DashInv /\ SkeletonInv /\ [DashNext]_dashVars => SkeletonInv'
  BY SkeletonNext
<1>3. ASSUME DashInv, SkeletonInv PROVE RefreshKeepsUp
  <2>1. /\ DashShape /\ HookInv /\ PollInv /\ hook \in Hooks /\ hook.dep \in Routes
        /\ now \in Nat /\ due \in Nat /\ started \in 0..now /\ REFRESH \in Nat
    BY <1>3, DashboardAssumption DEF DashInv, DashShape, Hooks
  <2>2. ShownIsRecent
    <3> SUFFICES ASSUME page = "overview", Screen(hook) = "data", ~hook.refreshing
                 PROVE  now < hook.data.read + MaxAge[hook.dep] + REFRESH
      BY DEF ShownIsRecent
    <3> DEFINE t == hook.data.read + MaxAge[hook.dep] + REFRESH
    <3>1. hook.data.read \in Nat /\ MaxAge[hook.dep] \in Nat
      BY <2>1, Screens, DashboardAssumption DEF Hooks, Answers
    <3>2. t \in Nat
      BY <2>1, <3>1
    <3>3. now <= due /\ due < t
      BY <2>1 DEF PollInv
    <3> HIDE DEF t
    <3>4. now < t
      BY <2>1, <3>2, <3>3
    <3> QED BY <3>4 DEF t
  <2>3. SkeletonIsBrief
    <3> SUFFICES ASSUME page = "overview", hook.loading, MaxWait[hook.dep] < REFRESH
                 PROVE  now =< started + 2 * MaxWait[hook.dep]
      BY DEF SkeletonIsBrief
    <3> DEFINE q == requests[hook.active]
               wait == MaxWait[hook.dep]
    <3>1. hook.active # Absent /\ hook.active \in Slots /\ q # NoRequest /\ q.route = hook.dep
      BY <2>1 DEF HookInv, ScreenIsCurrent, FlagsTellTheTruth, Hooks
    <3>2. q \in InFlight /\ RequestInv(q, now)
      BY <1>3, <2>1, <3>1 DEF DashShape, DashInv
    <3>3. q.asked \in Nat /\ wait \in Nat /\ now <= q.asked + wait
      BY <2>1, <3>1, <3>2, DashboardAssumption DEF InFlight, RequestInv
    <3>4. q.asked <= started + wait
      <4>1. q.asked = started \/ q.asked <= started + wait
        BY <1>3 DEF SkeletonInv
      <4> HIDE DEF q, wait
      <4> QED BY <2>1, <3>3, <4>1
    <3> HIDE DEF q, wait
    <3>5. now <= started + 2 * wait
      BY <2>1, <3>3, <3>4
    <3> QED BY <3>5 DEF wait
  <2>4. AwaitedIsNew
    <3> SUFFICES ASSUME page = "overview", hook.active # Absent
                 PROVE  /\ now =< requests[hook.active].asked + MaxWait[hook.dep]
                        /\ now =< requests[hook.active].asked + REFRESH
      BY DEF AwaitedIsNew
    <3> DEFINE q == requests[hook.active]
    <3>1. hook.active \in Slots /\ q # NoRequest /\ q.route = hook.dep
      BY <2>1 DEF HookInv, Hooks
    <3>2. q \in InFlight /\ RequestInv(q, now)
      BY <1>3, <2>1, <3>1 DEF DashShape, DashInv
    <3>3. q.asked \in Nat /\ now <= q.asked + MaxWait[hook.dep]
      BY <3>1, <3>2 DEF InFlight, RequestInv
    <3>4. now <= due /\ due <= q.asked + REFRESH
      BY <2>1 DEF PollInv
    <3> HIDE DEF q
    <3>5. now <= q.asked + REFRESH
      BY <2>1, <3>3, <3>4
    <3> QED BY <3>3, <3>5 DEF q
  <2> QED BY <2>2, <2>3, <2>4 DEF RefreshKeepsUp
<1> QED BY <1>1, <1>2, <1>3, DashInductive, PTL DEF DashSpec

-----------------------------------------------------------------------------
(***************************************************************************)
(* Induction and recursion over the naturals, which the forest below is    *)
(* walked with.                                                            *)
(***************************************************************************)

\* Every nonempty set of naturals has a least element.
LEMMA LeastNatural ==
  ASSUME NEW T, T \subseteq Nat, T # {}
  PROVE  \E x \in T : \A y \in T : x <= y
<1> DEFINE R == OpToRel(<, Nat)
<1>1. IsWellFoundedOn(R, Nat)
  BY NatLessThanWellFounded
<1>2. PICK x \in T : \A y \in T : ~(<<y, x>> \in R)
  <2> HIDE DEF R
  <2> QED BY <1>1, WFMin
<1>3. \A y \in T : ~(y < x)
  BY <1>2 DEF OpToRel
<1> HIDE DEF R
<1> QED BY <1>2, <1>3

\* Induction, over a set instead of a predicate.
LEMMA NaturalInduction ==
  ASSUME NEW S, S \subseteq Nat, 0 \in S, \A n \in S : n + 1 \in S
  PROVE  Nat \subseteq S
<1> SUFFICES ASSUME Nat \ S # {} PROVE FALSE
  OBVIOUS
<1>1. PICK n \in Nat \ S : \A m \in Nat \ S : n <= m
  BY LeastNatural
<1>2. n # 0 /\ n - 1 \in Nat /\ n - 1 < n
  BY <1>1
<1>3. n - 1 \in S
  BY <1>1, <1>2
<1>4. (n - 1) + 1 \in S
  BY <1>3
<1> QED BY <1>1, <1>2, <1>4

\* A step function and a start define a function on 0..N.
LEMMA Recursion ==
  ASSUME NEW S, NEW a \in S, NEW N \in Nat, NEW F \in [1..N -> [S -> S]]
  PROVE  \E f \in [0..N -> S] : f[0] = a /\ \A n \in 1..N : f[n] = F[n][f[n - 1]]
<1> DEFINE IsSoFar(m, f) == f[0] = a /\ \A n \in 1..m : f[n] = F[n][f[n - 1]]
           T == {m \in Nat : m <= N => \E f \in [0..m -> S] : IsSoFar(m, f)}
<1>1. 0 \in T
  <2>1. [n \in 0..0 |-> a] \in [0..0 -> S] /\ IsSoFar(0, [n \in 0..0 |-> a])
    OBVIOUS
  <2> QED BY <2>1
<1>2. ASSUME NEW m \in T PROVE m + 1 \in T
  <2> SUFFICES ASSUME m + 1 <= N
               PROVE  \E f \in [0..m + 1 -> S] : IsSoFar(m + 1, f)
    OBVIOUS
  <2>1. PICK f \in [0..m -> S] : IsSoFar(m, f)
    OBVIOUS
  <2> DEFINE g == [n \in 0..m + 1 |-> IF n = m + 1 THEN F[m + 1][f[m]] ELSE f[n]]
  <2>2. F[m + 1][f[m]] \in S
    OBVIOUS
  <2>3. g \in [0..m + 1 -> S]
    BY <2>2
  <2>4. g[0] = a /\ g[m + 1] = F[m + 1][g[m]]
    BY <2>1
  <2>5. ASSUME NEW n \in 1..m PROVE g[n] = F[n][g[n - 1]]
    <3>1. g[n] = f[n] /\ g[n - 1] = f[n - 1]
      OBVIOUS
    <3> QED BY <2>1, <3>1
  <2>6. IsSoFar(m + 1, g)
    <3> HIDE DEF g
    <3>1. ASSUME NEW n \in 1..m + 1 PROVE g[n] = F[n][g[n - 1]]
      <4>1. CASE n = m + 1
        <5>1. n - 1 = m
          BY <4>1
        <5> QED BY <2>4, <4>1, <5>1
      <4>2. CASE n # m + 1
        <5>1. n \in 1..m
          BY <4>2
        <5> QED BY <2>5, <5>1
      <4> QED BY <4>1, <4>2
    <3> QED BY <2>4, <3>1
  <2> QED BY <2>3, <2>6
<1>3. N \in T
  <2>1. T \subseteq Nat
    OBVIOUS
  <2> HIDE DEF T
  <2> QED BY <1>1, <1>2, <2>1, NaturalInduction
<1> QED BY <1>3

\* A nonempty set of the first n numbers has a greatest element.
LEMMA MaxInSet ==
  ASSUME NEW n \in Nat, NEW S, S \subseteq 1..n, S # {}
  PROVE  Max(S) \in S
<1> DEFINE T == {n - x : x \in S}
<1>1. T \subseteq Nat /\ T # {}
  <2>1. \A x \in S : x \in 1..n /\ n - x \in Nat
    OBVIOUS
  <2>2. PICK x : x \in S
    OBVIOUS
  <2>3. n - x \in T
    BY <2>2
  <2> QED BY <2>1, <2>3
<1> HIDE DEF T
<1>2. PICK y \in T : \A z \in T : y <= z
  BY <1>1, LeastNatural
<1>3. PICK x \in S : y = n - x
  BY DEF T
<1>4. \A z \in S : x >= z
  <2> TAKE z \in S
  <2>1. n - z \in T
    BY DEF T
  <2>2. n - x <= n - z
    BY <1>2, <1>3, <2>1
  <2>3. x \in Int /\ z \in Int
    OBVIOUS
  <2> QED BY <2>2, <2>3
<1>5. \E m \in S : \A z \in S : m >= z
  BY <1>4
<1> QED BY <1>5 DEF Max

\* FlattenSeq, sequence by sequence.
LEMMA FlatByOne ==
  ASSUME NEW R, NEW ss, NEW N \in Nat
  PROVE  /\ Len(ss) = N
         /\ N = 0 => ss = <<>>
         /\ \A n \in 1..N : ss[n] \in Seq(R)
         => \E f \in [0..N -> Seq(R)] :
              /\ f[0] = <<>>
              /\ \A n \in 1..N : f[n] = f[n - 1] \o ss[n]
              /\ FlattenSeq(ss) = f[N]
<1> DEFINE Q == Seq(R)
           F == [n \in 1..N |-> [s \in Q |-> s \o ss[n]]]
           Loop(v) == [n \in 1..N |-> IF n = 1 THEN ss[n] ELSE v[n - 1] \o ss[n]]
<1>0. SUFFICES ASSUME Len(ss) = N,
                      N = 0 => ss = <<>>,
                      \A n \in 1..N : ss[n] \in Q
               PROVE  \E f \in [0..N -> Q] :
                        /\ f[0] = <<>>
                        /\ \A n \in 1..N : f[n] = f[n - 1] \o ss[n]
                        /\ FlattenSeq(ss) = f[N]
  OBVIOUS
<1>1. <<>> \in Q
  OBVIOUS
<1>2. F \in [1..N -> [Q -> Q]]
  <2>1. ASSUME NEW n \in 1..N, NEW s \in Q PROVE s \o ss[n] \in Q
    BY <1>0
  <2> QED BY <2>1
<1>3. PICK f \in [0..N -> Q] : f[0] = <<>> /\ \A n \in 1..N : f[n] = F[n][f[n - 1]]
  <2>1. PICK a \in Q : a = <<>>
    BY <1>1
  <2>2. N \in Nat /\ F \in [1..N -> [Q -> Q]]
    BY <1>1, <1>2
  <2> HIDE DEF F, Q
  <2>3. \E f \in [0..N -> Q] : f[0] = a /\ \A n \in 1..N : f[n] = F[n][f[n - 1]]
    BY <2>2, Recursion
  <2> QED BY <2>1, <2>3
<1>4. \A n \in 1..N : f[n] = f[n - 1] \o ss[n]
  <2> TAKE n \in 1..N
  <2>1. f[n - 1] \in Q
    <3>1. n - 1 \in 0..N
      BY <1>1
    <3> HIDE DEF Q
    <3> QED BY <3>1
  <2>2. F[n][f[n - 1]] = f[n - 1] \o ss[n]
    BY <2>1
  <2> QED BY <1>3, <2>2
<1>5. N # 0 => f[1] = ss[1]
  <2> SUFFICES ASSUME N # 0 PROVE f[1] = ss[1]
    OBVIOUS
  <2>1. 1 \in 1..N /\ 1 - 1 = 0
    BY <1>1
  <2>2. f[1] = f[0] \o ss[1]
    <3> HIDE DEF F, Q
    <3>1. f[1] = f[1 - 1] \o ss[1]
      BY <1>4, <2>1
    <3> QED BY <2>1, <3>1
  <2>3. ss[1] \in Q /\ f[0] = <<>>
    BY <1>0, <1>3, <2>1
  <2>4. <<>> \o ss[1] = ss[1]
    BY <2>3
  <2> HIDE DEF Q
  <2> QED BY <2>2, <2>3, <2>4
<1>6. CASE N = 0
  <2>1. FlattenSeq(ss) = ss /\ ss = <<>>
    BY <1>0, <1>6 DEF FlattenSeq
  <2> QED BY <1>1, <1>3, <1>6, <2>1
<1>7. CASE N # 0
  <2> DEFINE g == [n \in 1..N |-> f[n]]
             v == CHOOSE v : v = Loop(v)
  <2>1. g = Loop(g)
    <3>1. \A n \in 1..N : n # 1 => n - 1 \in 1..N
      BY <1>1
    <3>2. \A n \in 1..N : g[n] = Loop(g)[n]
      <4> HIDE DEF F, Q
      <4>1. ASSUME NEW n \in 1..N PROVE g[n] = Loop(g)[n]
        <5>1. CASE n = 1
          <6>1. Loop(g)[n] = ss[n]
            BY <5>1
          <6> QED BY <1>5, <1>7, <5>1, <6>1
        <5>2. CASE n # 1
          <6>1. Loop(g)[n] = g[n - 1] \o ss[n] /\ g[n - 1] = f[n - 1] /\ g[n] = f[n]
            BY <3>1, <5>2
          <6> QED BY <1>4, <6>1
        <5> QED BY <5>1, <5>2
      <4> QED BY <4>1
    <3> HIDE DEF F
    <3> QED BY <3>2
  <2>2. v = Loop(v)
    <3> HIDE DEF Loop, g
    <3> QED BY <2>1
  <2>3. FlattenSeq(ss) = v[N]
    BY <1>0, <1>7 DEF FlattenSeq
  <2> DEFINE T == {n \in Nat : n + 1 <= N => v[n + 1] = f[n + 1]}
  <2>4. 0 \in T
    <3>1. v[1] = ss[1]
      <4> HIDE DEF v
      <4>1. 1 \in 1..N
        BY <1>1, <1>7
      <4> QED BY <2>2, <4>1
    <3> HIDE DEF v
    <3> QED BY <1>5, <1>7, <3>1
  <2>5. ASSUME NEW n \in T PROVE n + 1 \in T
    <3> HIDE DEF v
    <3> SUFFICES ASSUME (n + 1) + 1 <= N PROVE v[(n + 1) + 1] = f[(n + 1) + 1]
      OBVIOUS
    <3>1. n + 1 \in 1..N /\ n + 2 \in 1..N /\ n + 2 # 1 /\ (n + 2) - 1 = n + 1 /\ (n + 1) + 1 = n + 2
      OBVIOUS
    <3>2. v[n + 1] = f[n + 1]
      BY <3>1
    <3>3. v[n + 2] = v[n + 1] \o ss[n + 2]
      BY <2>2, <3>1
    <3>4. f[n + 2] = f[n + 1] \o ss[n + 2]
      BY <1>4, <3>1
    <3> QED BY <3>1, <3>2, <3>3, <3>4
  <2>6. N - 1 \in T
    <3> HIDE DEF v
    <3>1. T \subseteq Nat /\ N - 1 \in Nat
      BY <1>1, <1>7
    <3> HIDE DEF T
    <3> QED BY <2>4, <2>5, <3>1, NaturalInduction
  <2>7. FlattenSeq(ss) = f[N]
    <3> HIDE DEF v
    <3>1. (N - 1) + 1 = N
      BY <1>1
    <3> QED BY <1>1, <2>3, <2>6, <3>1
  <2> QED BY <1>3, <1>4, <2>7
<1> QED BY <1>6, <1>7

\* The elements of a concatenation.
LEMMA Concatenated ==
  ASSUME NEW R, NEW s \in Seq(R), NEW t \in Seq(R)
  PROVE  /\ s \o t \in Seq(R) /\ Len(s) \in Nat /\ Len(t) \in Nat
         /\ Len(s \o t) = Len(s) + Len(t)
         /\ \A k \in 1..Len(s) : k \in 1..Len(s \o t) /\ (s \o t)[k] = s[k]
         /\ \A j \in 1..Len(t) : Len(s) + j \in 1..Len(s \o t) /\ (s \o t)[Len(s) + j] = t[j]
         /\ \A k \in 1..Len(s \o t) : k \in 1..Len(s) \/ k - Len(s) \in 1..Len(t)
         /\ \A k \in 1..Len(s \o t) : k \notin 1..Len(s) => (s \o t)[k] = t[k - Len(s)]
<1>1. s \o t \in Seq(R) /\ Len(s) \in Nat /\ Len(t) \in Nat /\ Len(s \o t) = Len(s) + Len(t)
  OBVIOUS
<1>2. \A k \in 1..Len(s) + Len(t) : (s \o t)[k] = IF k <= Len(s) THEN s[k] ELSE t[k - Len(s)]
  OBVIOUS
<1>3. \A j \in 1..Len(t) : ~(Len(s) + j <= Len(s)) /\ (Len(s) + j) - Len(s) = j /\ Len(s) + j \in 1..Len(s) + Len(t)
  BY <1>1
<1>4. \A k \in 1..Len(s) + Len(t) : k <= Len(s) <=> k \in 1..Len(s)
  BY <1>1
<1>5. \A k \in 1..Len(s) + Len(t) : ~(k <= Len(s)) => k - Len(s) \in 1..Len(t)
  BY <1>1
<1>6. \A k \in 1..Len(s) : k \in 1..Len(s) + Len(t)
  BY <1>1
<1> QED BY <1>1, <1>2, <1>3, <1>4, <1>5, <1>6

-----------------------------------------------------------------------------
(***************************************************************************)
(* Concatenations: where in FlattenSeq each part lies.                     *)
(***************************************************************************)

\* ss has n parts over R; s has the elements of the parts, part by part: at place
\* k that at place c[k] of part b[k].
Parts(ss, R, n) ==
  Len(ss) = n /\ (n = 0 => ss = <<>>) /\ \A i \in 1..n : ss[i] \in Seq(R)
Laid(s, ss, n, b, c) ==
  /\ \A k \in 1..Len(s) : b[k] \in 1..n /\ c[k] \in 1..Len(ss[b[k]]) /\ s[k] = ss[b[k]][c[k]]
  /\ \A k, l \in 1..Len(s) : k < l => b[k] < b[l] \/ (b[k] = b[l] /\ c[k] < c[l])
  /\ \A i \in 1..n : \A j \in 1..Len(ss[i]) : \E k \in 1..Len(s) : b[k] = i /\ c[k] = j

\* One part more.
LEMMA LaidByOne ==
  ASSUME NEW R, NEW ss, NEW n \in Nat, NEW s \in Seq(R), NEW t \in Seq(R), t = ss[n + 1],
         NEW b, NEW c, Laid(s, ss, n, b, c)
  PROVE  \E d, e : Laid(s \o t, ss, n + 1, d, e)
<1> DEFINE u == s \o t
           d == [k \in 1..Len(u) |-> IF k \in 1..Len(s) THEN b[k] ELSE n + 1]
           e == [k \in 1..Len(u) |-> IF k \in 1..Len(s) THEN c[k] ELSE k - Len(s)]
<1>1. /\ Len(s) \in Nat /\ Len(t) \in Nat /\ Len(u) \in Nat
      /\ \A k \in 1..Len(s) : k \in 1..Len(u) /\ u[k] = s[k]
      /\ \A j \in 1..Len(t) : Len(s) + j \in 1..Len(u) /\ u[Len(s) + j] = t[j]
      /\ \A k \in 1..Len(u) : k \in 1..Len(s) \/ k - Len(s) \in 1..Len(t)
      /\ \A k \in 1..Len(u) : k \notin 1..Len(s) => u[k] = t[k - Len(s)]
  <2>1. u \in Seq(R)
    OBVIOUS
  <2>2. Len(u) \in Nat
    BY <2>1
  <2> HIDE DEF u
  <2> QED BY <2>2, Concatenated, SMTT(30) DEF u
<1>2. \A i : i \in 1..n + 1 <=> i \in 1..n \/ i = n + 1
  OBVIOUS
<1>3. \A i \in 1..n : i < n + 1
  OBVIOUS
<1>4. \A k \in 1..Len(u) : k \in 1..Len(s) => d[k] = b[k] /\ e[k] = c[k]
  OBVIOUS
<1>5. \A k \in 1..Len(u) : k \notin 1..Len(s) => d[k] = n + 1 /\ e[k] = k - Len(s)
  OBVIOUS
<1> HIDE DEF u, d, e
<1>6. ASSUME NEW k \in 1..Len(u)
      PROVE  d[k] \in 1..n + 1 /\ e[k] \in 1..Len(ss[d[k]]) /\ u[k] = ss[d[k]][e[k]]
  <2>1. CASE k \in 1..Len(s)
    <3>1. b[k] \in 1..n /\ c[k] \in 1..Len(ss[b[k]]) /\ s[k] = ss[b[k]][c[k]]
      BY <2>1 DEF Laid
    <3>2. d[k] = b[k] /\ e[k] = c[k] /\ u[k] = s[k]
      BY <1>1, <1>4, <2>1
    <3> QED BY <1>2, <3>1, <3>2
  <2>2. CASE k \notin 1..Len(s)
    <3>1. d[k] = n + 1 /\ e[k] = k - Len(s)
      BY <1>5, <2>2
    <3>2. k - Len(s) \in 1..Len(t) /\ u[k] = t[k - Len(s)]
      BY <1>1, <2>2
    <3> QED BY <1>2, <3>1, <3>2
  <2> QED BY <2>1, <2>2
<1>7. ASSUME NEW k \in 1..Len(u), NEW l \in 1..Len(u), k < l
      PROVE  d[k] < d[l] \/ (d[k] = d[l] /\ e[k] < e[l])
  <2>1. CASE k \in 1..Len(s) /\ l \in 1..Len(s)
    <3>1. b[k] < b[l] \/ (b[k] = b[l] /\ c[k] < c[l])
      BY <1>7, <2>1 DEF Laid
    <3> QED BY <1>4, <2>1, <3>1
  <2>2. CASE k \in 1..Len(s) /\ l \notin 1..Len(s)
    <3>1. d[k] \in 1..n /\ d[l] = n + 1
      BY <1>4, <1>5, <2>2 DEF Laid
    <3> QED BY <1>3, <3>1
  <2>3. CASE k \notin 1..Len(s)
    <3>0. Len(s) \in Nat /\ k \in Nat /\ l \in Nat /\ k >= 1
      BY <1>1
    <3>1. l \notin 1..Len(s)
      <4>1. ~(k <= Len(s))
        BY <2>3, <3>0
      <4> QED BY <1>7, <3>0, <4>1
    <3>2. d[k] = d[l] /\ e[k] = k - Len(s) /\ e[l] = l - Len(s)
      BY <1>5, <2>3, <3>1
    <3> QED BY <1>7, <3>0, <3>2
  <2> QED BY <2>1, <2>2, <2>3
<1>8. ASSUME NEW i \in 1..n + 1, NEW j \in 1..Len(ss[i])
      PROVE  \E k \in 1..Len(u) : d[k] = i /\ e[k] = j
  <2>1. CASE i \in 1..n
    <3>1. PICK k \in 1..Len(s) : b[k] = i /\ c[k] = j
      BY <2>1 DEF Laid
    <3> QED BY <1>1, <1>4, <3>1
  <2>2. CASE i = n + 1
    <3>1. j \in 1..Len(t) /\ j \in Nat
      BY <2>2
    <3>2. Len(s) + j \in 1..Len(u) /\ Len(s) + j \notin 1..Len(s) /\ (Len(s) + j) - Len(s) = j
      BY <1>1, <3>1
    <3> QED BY <1>5, <2>2, <3>2
  <2> QED BY <1>2, <2>1, <2>2
<1>9. Laid(u, ss, n + 1, d, e)
  BY <1>6, <1>7, <1>8 DEF Laid
<1> QED BY <1>9 DEF u

\* f[n] is the concatenation of the first n of the N parts of ss.
Flattens(f, ss, R, N) ==
  /\ f \in [0..N -> Seq(R)] /\ f[0] = <<>>
  /\ \A n \in 1..N : f[n] = f[n - 1] \o ss[n]
  /\ FlattenSeq(ss) = f[N]

\* FlattenSeq is such a concatenation.
LEMMA Flattening ==
  ASSUME NEW R, NEW ss, NEW N \in Nat, Parts(ss, R, N)
  PROVE  \E f : Flattens(f, ss, R, N)
<1>1. /\ Len(ss) = N
      /\ N = 0 => ss = <<>>
      /\ \A n \in 1..N : ss[n] \in Seq(R)
      => \E f \in [0..N -> Seq(R)] :
            /\ f[0] = <<>>
            /\ \A n \in 1..N : f[n] = f[n - 1] \o ss[n]
            /\ FlattenSeq(ss) = f[N]
  BY FlatByOne, ZenonT(60)
<1>2. PICK f \in [0..N -> Seq(R)] : /\ f[0] = <<>>
                                    /\ \A n \in 1..N : f[n] = f[n - 1] \o ss[n]
                                    /\ FlattenSeq(ss) = f[N]
  BY <1>1 DEF Parts
<1>3. Flattens(f, ss, R, N)
  BY <1>2 DEF Flattens
<1> QED BY <1>3

\* A concatenation has its parts one after the other.
LEMMA Laying ==
  ASSUME NEW R, NEW ss, NEW N \in Nat, Parts(ss, R, N)
  PROVE  FlattenSeq(ss) \in Seq(R) /\ \E b, c : Laid(FlattenSeq(ss), ss, N, b, c)
<1>0. Len(ss) = N /\ (N = 0 => ss = <<>>) /\ \A n \in 1..N : ss[n] \in Seq(R)
  BY DEF Parts
<1>1. PICK f \in [0..N -> Seq(R)] :
         /\ f[0] = <<>>
         /\ \A n \in 1..N : f[n] = f[n - 1] \o ss[n]
         /\ FlattenSeq(ss) = f[N]
  <2>1. PICK f : Flattens(f, ss, R, N)
    BY Flattening
  <2> QED BY <2>1 DEF Flattens
<1> DEFINE T == {n \in Nat : n <= N => \E b, c : Laid(f[n], ss, n, b, c)}
<1>2. 0 \in T
  <2>1. 1..Len(f[0]) = {} /\ 1..0 = {}
    BY <1>1
  <2>2. Laid(f[0], ss, 0, <<>>, <<>>)
    BY <2>1 DEF Laid
  <2> QED BY <2>2
<1>3. ASSUME NEW n \in T PROVE n + 1 \in T
  <2> SUFFICES ASSUME n + 1 <= N PROVE \E b, c : Laid(f[n + 1], ss, n + 1, b, c)
    OBVIOUS
  <2>1. n \in Nat /\ n + 1 \in 1..N /\ (n + 1) - 1 = n /\ n \in 0..N
    OBVIOUS
  <2>2. f[n] \in Seq(R) /\ ss[n + 1] \in Seq(R) /\ f[n + 1] = f[n] \o ss[n + 1]
    BY <1>0, <1>1, <2>1
  <2>3. PICK b, c : Laid(f[n], ss, n, b, c)
    BY <2>1
  <2>4. PICK s \in Seq(R), t \in Seq(R) : s = f[n] /\ t = ss[n + 1]
    BY <2>2
  <2> HIDE DEF T
  <2>5. \E d, e : Laid(s \o t, ss, n + 1, d, e)
    BY <2>1, <2>3, <2>4, LaidByOne
  <2> QED BY <2>2, <2>4, <2>5
<1>4. \E b, c : Laid(f[N], ss, N, b, c)
  <2>1. T \subseteq Nat
    OBVIOUS
  <2> HIDE DEF T
  <2>2. N \in T
    BY <1>2, <1>3, <2>1, NaturalInduction
  <2> QED BY <2>2 DEF T
<1>5. f[N] \in Seq(R)
  OBVIOUS
<1> QED BY <1>1, <1>4, <1>5

-----------------------------------------------------------------------------
(***************************************************************************)
(* Forests.  With a depth that grows from parent to child, walk() of       *)
(* trace.py is defined by recursion, and what holds of a span if it holds  *)
(* of those below (or of the one above) holds of all.                      *)
(***************************************************************************)

\* The sequences g gives the entries of ks.
Mapped(ks, g) == [i \in DOMAIN ks |-> g[ks[i]]]

\* The walks of some spans are parts to concatenate.
LEMMA MappedParts ==
  ASSUME NEW X, NEW ks \in Seq(X), NEW g \in [X -> Seq(X)]
  PROVE  Parts(Mapped(ks, g), X, Len(ks))
<1> DEFINE ss == Mapped(ks, g)
<1>1. DOMAIN ks = 1..Len(ks) /\ Len(ks) \in Nat
  OBVIOUS
<1>2. \A i \in 1..Len(ks) : ks[i] \in X
  OBVIOUS
<1>3. ss = [i \in 1..Len(ks) |-> g[ks[i]]]
  BY <1>1 DEF Mapped
<1>4. \A i \in 1..Len(ks) : ss[i] \in Seq(X)
  BY <1>2, <1>3
<1>5. ss \in Seq(Seq(X)) /\ Len(ss) = Len(ks)
  <2>1. PICK n \in Nat : n = Len(ks)
    BY <1>1, ZenonT(30)
  <2> HIDE DEF ss
  <2> QED BY <1>2, <1>3, <2>1, SMTT(30)
<1>6. Len(ks) = 0 => ss = <<>>
  <2> HIDE DEF ss
  <2> QED BY <1>5
<1> QED BY <1>4, <1>5, <1>6 DEF Parts

\* A forest over X: each x has a list of children, which are those that have it
\* as their parent, and depths grow from parents to children.
Forest(X, par, kids, d, N) ==
  /\ N \in Nat
  /\ \A x \in X : d[x] \in 0..N /\ kids[x] \in Seq(X)
  /\ \A x \in X : \A i \in 1..Len(kids[x]) : par[kids[x][i]] = x
  /\ \A y \in X : par[y] \in X =>
       d[par[y]] < d[y] /\ \E i \in 1..Len(kids[par[y]]) : kids[par[y]][i] = y

\* From each x, itself and then what g gives its children.
OneUp(X, kids, g) == [x \in X |-> <<x>> \o FlattenSeq(Mapped(kids[x], g))]

\* One level more leaves it a walk over X for every span.
LEMMA OneUpType ==
  ASSUME NEW X, NEW kids, \A x \in X : kids[x] \in Seq(X), NEW g \in [X -> Seq(X)]
  PROVE  OneUp(X, kids, g) \in [X -> Seq(X)]
<1>1. ASSUME NEW x \in X PROVE <<x>> \o FlattenSeq(Mapped(kids[x], g)) \in Seq(X)
  <2>1. PICK ks \in Seq(X) : ks = kids[x]
    OBVIOUS
  <2>2. Parts(Mapped(ks, g), X, Len(ks)) /\ Len(ks) \in Nat
    BY MappedParts
  <2>3. FlattenSeq(Mapped(ks, g)) \in Seq(X)
    BY <2>2, Laying
  <2>4. <<x>> \in Seq(X)
    OBVIOUS
  <2> QED BY <2>1, <2>3, <2>4
<1> QED BY <1>1 DEF OneUp

\* The walks through a forest exist: those of N levels walk through all of it.
LEMMA WalkExists ==
  ASSUME NEW X, NEW par, NEW kids, NEW d, NEW N \in Nat, Forest(X, par, kids, d, N)
  PROVE  \E w \in [X -> Seq(X)] : w = OneUp(X, kids, w)
<1> DEFINE S == [X -> Seq(X)]
           M == N + 2
           F == [n \in 1..M |-> [g \in S |-> OneUp(X, kids, g)]]
<1>1. \A x \in X : kids[x] \in Seq(X) /\ d[x] \in 0..N
  BY DEF Forest
<1>2. \A g \in S : OneUp(X, kids, g) \in S
  BY <1>1, OneUpType
<1>3. PICK a \in S : TRUE
  <2>1. <<>> \in Seq(X)
    OBVIOUS
  <2>2. [x \in X |-> <<>>] \in S
    BY <2>1
  <2> QED BY <2>2
<1>4. F \in [1..M -> [S -> S]] /\ M \in Nat
  BY <1>2
<1>5. PICK f \in [0..M -> S] : f[0] = a /\ \A n \in 1..M : f[n] = F[n][f[n - 1]]
  <2>1. PICK m \in Nat : m = M
    BY <1>4
  <2>2. F \in [1..m -> [S -> S]] /\ a \in S
    BY <1>4, <2>1
  <2> HIDE DEF F, S, M
  <2>3. \E f \in [0..m -> S] : f[0] = a /\ \A n \in 1..m : f[n] = F[n][f[n - 1]]
    BY <2>2, Recursion
  <2> QED BY <2>1, <2>3
<1>6. \A n \in 1..M : n - 1 \in 0..M /\ f[n - 1] \in S
  <2>1. \A n \in 1..M : n - 1 \in 0..M
    OBVIOUS
  <2> HIDE DEF S, F, M
  <2> QED BY <2>1
<1>7. \A n \in 1..M : f[n] = OneUp(X, kids, f[n - 1])
  <2> HIDE DEF S, M
  <2> QED BY <1>5, <1>6
<1> HIDE DEF F
<1> DEFINE T == {n \in Nat : n <= N => \A x \in X : N - d[x] <= n => f[n + 2][x] = f[n + 1][x]}
<1>8. ASSUME NEW n \in Nat, n <= N,
             \A x \in X : N - d[x] < n => f[n + 1][x] = f[n][x],
             NEW x \in X, N - d[x] <= n
      PROVE  f[n + 2][x] = f[n + 1][x]
  <2>1. n + 1 \in 1..M /\ n + 2 \in 1..M /\ (n + 1) - 1 = n /\ (n + 2) - 1 = n + 1
    BY <1>8
  <2>2. ASSUME NEW i \in DOMAIN kids[x] PROVE f[n + 1][kids[x][i]] = f[n][kids[x][i]]
    <3>0. PICK ks \in Seq(X) : ks = kids[x]
      BY <1>1
    <3>1. kids[x] \in Seq(X) /\ i \in 1..Len(kids[x])
      <4>1. DOMAIN ks = 1..Len(ks)
        OBVIOUS
      <4>2. i \in DOMAIN ks
        BY <3>0
      <4> QED BY <3>0, <4>1, <4>2
    <3>2. kids[x][i] \in X
      BY <3>1
    <3>3. d[x] < d[kids[x][i]]
      <4>1. par[kids[x][i]] = x
        BY <3>1 DEF Forest
      <4>2. \A y \in X : par[y] \in X => d[par[y]] < d[y]
        BY DEF Forest
      <4> QED BY <3>2, <4>1, <4>2
    <3>4. PICK p, q : p = d[x] /\ q = d[kids[x][i]]
      OBVIOUS
    <3>5. p \in Int /\ q \in Int /\ p < q /\ N - p <= n
      <4>1. p \in 0..N /\ q \in 0..N
        BY <1>1, <3>2, <3>4
      <4> QED BY <1>8, <3>3, <3>4, <4>1, SMTT(30)
    <3>6. N - q < n
      BY <3>5
    <3> QED BY <1>8, <3>2, <3>4, <3>6
  <2>3. Mapped(kids[x], f[n + 1]) = Mapped(kids[x], f[n])
    BY <2>2 DEF Mapped
  <2>4. f[n + 2] = OneUp(X, kids, f[n + 1]) /\ f[n + 1] = OneUp(X, kids, f[n])
    BY <1>7, <2>1
  <2>5. \A g : OneUp(X, kids, g)[x] = <<x>> \o FlattenSeq(Mapped(kids[x], g))
    BY DEF OneUp
  <2> QED BY <2>3, <2>4, <2>5
<1>9. 0 \in T
  <2>1. \A x \in X : ~(N - d[x] < 0)
    BY <1>1
  <2> QED BY <1>8, <2>1
<1>10. ASSUME NEW n \in T PROVE n + 1 \in T
  <2> SUFFICES ASSUME n + 1 <= N, NEW x \in X, N - d[x] <= n + 1
               PROVE  f[(n + 1) + 2][x] = f[(n + 1) + 1][x]
    BY SMTT(30)
  <2>1. \A y \in X : N - d[y] < n + 1 => f[(n + 1) + 1][y] = f[n + 1][y]
    <3> TAKE y \in X
    <3> HAVE N - d[y] < n + 1
    <3>1. d[y] \in Int
      BY <1>1, SMTT(30)
    <3>2. N - d[y] <= n /\ n <= N
      <4>1. PICK p \in Int : p = N - d[y] /\ p < n + 1
        BY <3>1, SMTT(30)
      <4>2. n \in Int
        OBVIOUS
      <4> HIDE DEF T
      <4>3. p <= n /\ n <= N
        BY <4>1, <4>2, SMTT(30)
      <4> QED BY <4>1, <4>3
    <3>3. f[n + 2][y] = f[n + 1][y]
      BY <3>2
    <3> QED BY <3>3
  <2>2. n + 1 \in Nat
    OBVIOUS
  <2> HIDE DEF T
  <2> QED BY <1>8, <2>1, <2>2
<1>11. N \in T
  <2>1. T \subseteq Nat
    OBVIOUS
  <2> HIDE DEF T
  <2> QED BY <1>9, <1>10, <2>1, NaturalInduction
<1>12. \A x \in X : f[N + 2][x] = f[N + 1][x]
  <2>1. \A x \in X : N - d[x] <= N
    BY <1>1
  <2> QED BY <1>11, <2>1
<1>13. N + 2 \in 1..M /\ (N + 2) - 1 = N + 1 /\ N + 1 \in 0..M /\ N + 2 \in 0..M
  OBVIOUS
<1>14. f[N + 2] = f[N + 1]
  <2>1. f[N + 2] \in S /\ f[N + 1] \in S
    <3> HIDE DEF S, M
    <3> QED BY <1>13
  <2> QED BY <1>12, <2>1
<1> QED BY <1>7, <1>13, <1>14

\* S has a span if it has all below it; if it has the one above it.
Rises(S, X, kids) == \A x \in X : (\A i \in 1..Len(kids[x]) : kids[x][i] \in S) => x \in S
Falls(S, X, par) == \A x \in X : (par[x] \in X => par[x] \in S) => x \in S

\* Induction from the leaves of a forest to its roots.
LEMMA BottomUp ==
  ASSUME NEW X, NEW par, NEW kids, NEW d, NEW N \in Nat, Forest(X, par, kids, d, N),
         NEW S, Rises(S, X, kids)
  PROVE  X \subseteq S
<1> SUFFICES ASSUME X \ S # {} PROVE FALSE
  OBVIOUS
<1> DEFINE T == {N - d[x] : x \in X \ S}
<1>1. \A x \in X : d[x] \in 0..N /\ N - d[x] \in Nat
  BY DEF Forest
<1>2. T \subseteq Nat /\ T # {}
  BY <1>1
<1>3. PICK n \in T : \A m \in T : n <= m
  <2> HIDE DEF T
  <2> QED BY <1>2, LeastNatural
<1>4. PICK x \in X \ S : n = N - d[x]
  BY <1>3
<1>5. ASSUME NEW i \in 1..Len(kids[x]) PROVE kids[x][i] \in S
  <2> SUFFICES ASSUME kids[x][i] \notin S PROVE FALSE
    OBVIOUS
  <2>1. PICK y \in X : y = kids[x][i]
    BY DEF Forest
  <2>2. par[y] = x
    BY <2>1 DEF Forest
  <2>3. d[x] < d[y]
    BY <2>2 DEF Forest
  <2>4. N - d[y] \in T
    BY <2>1
  <2>5. n <= N - d[y]
    BY <1>3, <2>4
  <2>6. d[x] \in Int /\ d[y] \in Int
    BY <1>1
  <2> HIDE DEF T
  <2> QED BY <1>4, <2>3, <2>5, <2>6
<1> QED BY <1>5 DEF Rises

\* Induction from the roots to the leaves.
LEMMA TopDown ==
  ASSUME NEW X, NEW par, NEW kids, NEW d, NEW N \in Nat, Forest(X, par, kids, d, N),
         NEW S, Falls(S, X, par)
  PROVE  X \subseteq S
<1> SUFFICES ASSUME X \ S # {} PROVE FALSE
  OBVIOUS
<1> DEFINE T == {d[x] : x \in X \ S}
<1>1. \A x \in X : d[x] \in Nat
  BY DEF Forest
<1>2. T \subseteq Nat /\ T # {}
  BY <1>1
<1>3. PICK n \in T : \A m \in T : n <= m
  <2> HIDE DEF T
  <2> QED BY <1>2, LeastNatural
<1>4. PICK x \in X \ S : n = d[x]
  BY <1>3
<1>5. par[x] \in X => par[x] \in S
  <2> SUFFICES ASSUME par[x] \in X, par[x] \notin S PROVE FALSE
    OBVIOUS
  <2>1. d[par[x]] < d[x]
    BY DEF Forest
  <2>2. d[par[x]] \in T
    OBVIOUS
  <2>3. n <= d[par[x]]
    BY <1>3, <2>2
  <2>4. d[x] \in Int /\ d[par[x]] \in Int
    BY <1>1
  <2> HIDE DEF T
  <2> QED BY <1>4, <2>1, <2>3, <2>4
<1> QED BY <1>5 DEF Falls

\* s has x; all it has but some roots come after their parents; it has every
\* child of what it has.
Has(s, x) == \E i \in 1..Len(s) : s[i] = x
Rooted(s, par, roots) ==
  \A i \in 1..Len(s) : s[i] \in roots \/ \E j \in 1..Len(s) : j < i /\ s[j] = par[s[i]]
ClosedDown(s, X, par) == \A y \in X : Has(s, par[y]) => Has(s, y)

\* s is a walk through the tree below x.
IsWalk(s, x, X, par, d) ==
  /\ s \in Seq(X) /\ Len(s) >= 1 /\ s[1] = x
  /\ Rooted(s, par, {x}) /\ ClosedDown(s, X, par)
  /\ \A i \in 1..Len(s) : s[i] = x \/ d[x] < d[s[i]]

\* s is a walk through the trees below ks, one after the other.
IsGrove(s, ks, X, par, g) ==
  /\ s \in Seq(X)
  /\ Rooted(s, par, {ks[i] : i \in 1..Len(ks)}) /\ ClosedDown(s, X, par)
  /\ \A i \in 1..Len(ks) : Has(s, ks[i])
  /\ \A k \in 1..Len(s) : \E i \in 1..Len(ks) : Has(g[ks[i]], s[k])

\* The walks of some spans, one after the other, hold each in front of what is below it.
LEMMA Grove ==
  ASSUME NEW X, NEW par, NEW d, NEW ks \in Seq(X), NEW g \in [X -> Seq(X)],
         \A i \in 1..Len(ks) : IsWalk(g[ks[i]], ks[i], X, par, d)
  PROVE  IsGrove(FlattenSeq(Mapped(ks, g)), ks, X, par, g)
<1> DEFINE ss == Mapped(ks, g)
           s == FlattenSeq(ss)
           n == Len(ks)
<1>1. n \in Nat /\ Parts(ss, X, n)
  BY MappedParts
<1>2. s \in Seq(X) /\ \E b, c : Laid(s, ss, n, b, c)
  <2> HIDE DEF ss, n
  <2> QED BY <1>1, Laying
<1>3. PICK b, c : Laid(s, ss, n, b, c)
  BY <1>2
<1>4. \A i \in 1..n : ss[i] = g[ks[i]] /\ ks[i] \in X
  BY DEF Mapped
<1> HIDE DEF ss, s, n
<1>5. ASSUME NEW k \in 1..Len(s)
      PROVE  /\ b[k] \in 1..n /\ c[k] \in 1..Len(ss[b[k]]) /\ s[k] = ss[b[k]][c[k]]
  BY <1>3 DEF Laid
<1>6. ASSUME NEW i \in 1..n, NEW j \in 1..Len(ss[i])
      PROVE  \E k \in 1..Len(s) : b[k] = i /\ c[k] = j /\ s[k] = ss[i][j]
  <2>1. PICK k \in 1..Len(s) : b[k] = i /\ c[k] = j
    BY <1>3, ZenonT(30) DEF Laid
  <2> QED BY <1>5, <2>1
<1>7. ASSUME NEW i \in 1..n, NEW y, Has(ss[i], y) PROVE Has(s, y)
  <2>1. PICK j \in 1..Len(ss[i]) : ss[i][j] = y
    BY <1>7 DEF Has
  <2>2. \E k \in 1..Len(s) : b[k] = i /\ c[k] = j /\ s[k] = ss[i][j]
    BY <1>6, ZenonT(30)
  <2>3. PICK k \in 1..Len(s) : s[k] = ss[i][j]
    BY <2>2
  <2> QED BY <2>1, <2>3 DEF Has
<1>8. \A i \in 1..n : IsWalk(ss[i], ks[i], X, par, d)
  BY <1>4 DEF n
<1>9. ASSUME NEW i \in 1..n
      PROVE  Has(s, ks[i])
  <2>1. Len(ss[i]) >= 1 /\ ss[i] \in Seq(X) /\ ss[i][1] = ks[i]
    BY <1>8 DEF IsWalk
  <2>2. 1 \in 1..Len(ss[i])
    BY <2>1
  <2> QED BY <1>7, <2>1, <2>2 DEF Has
<1>10. ClosedDown(s, X, par)
  <2> SUFFICES ASSUME NEW y \in X, Has(s, par[y]) PROVE Has(s, y)
    BY DEF ClosedDown
  <2>1. PICK k \in 1..Len(s) : s[k] = par[y]
    BY DEF Has
  <2>2. b[k] \in 1..n /\ Has(ss[b[k]], par[y])
    BY <1>5, <2>1, ZenonT(30) DEF Has
  <2>3. Has(ss[b[k]], y)
    BY <1>8, <2>2 DEF IsWalk, ClosedDown
  <2> QED BY <1>7, <2>2, <2>3
<1>11. Rooted(s, par, {ks[i] : i \in 1..n})
  <2> SUFFICES ASSUME NEW k \in 1..Len(s), \A i \in 1..n : s[k] # ks[i]
               PROVE  \E l \in 1..Len(s) : l < k /\ s[l] = par[s[k]]
    BY DEF Rooted
  <2>0. PICK i \in 1..n : b[k] = i
    BY <1>5
  <2>1. PICK j \in 1..Len(ss[i]) : b[k] = i /\ c[k] = j /\ s[k] = ss[i][j]
    BY <1>5, <2>0
  <2>2. ss[i][j] # ks[i]
    BY <2>1
  <2>3. Rooted(ss[i], par, {ks[i]}) /\ ss[i] \in Seq(X)
    BY <1>8 DEF IsWalk
  <2>4. PICK m \in 1..Len(ss[i]) : m < j /\ ss[i][m] = par[ss[i][j]]
    BY <2>2, <2>3 DEF Rooted
  <2>5. PICK l \in 1..Len(s) : b[l] = i /\ c[l] = m /\ s[l] = ss[i][m]
    BY <1>6
  <2>6. l < k
    <3>1. ~(k < l)
      <4> SUFFICES ASSUME k < l PROVE FALSE
        OBVIOUS
      <4>1. b[k] < b[l] \/ (b[k] = b[l] /\ c[k] < c[l])
        BY <1>3 DEF Laid
      <4>2. i \in Int /\ j \in Int /\ m \in Int
        BY <1>1
      <4> QED BY <2>1, <2>4, <2>5, <4>1, <4>2
    <3>2. k # l
      BY <2>1, <2>4, <2>5
    <3>3. k \in Int /\ l \in Int
      OBVIOUS
    <3> QED BY <3>1, <3>2, <3>3
  <2> QED BY <2>1, <2>4, <2>5, <2>6
<1>12. ASSUME NEW k \in 1..Len(s) PROVE \E i \in 1..n : Has(g[ks[i]], s[k])
  <2>1. b[k] \in 1..n /\ Has(ss[b[k]], s[k])
    BY <1>5 DEF Has
  <2> QED BY <1>4, <2>1
<1>13. IsGrove(s, ks, X, par, g)
  BY <1>2, <1>9, <1>10, <1>11, <1>12 DEF IsGrove, n
<1> QED BY <1>13 DEF s, ss

\* A sequence after a first element.
LEMMA Headed ==
  ASSUME NEW X, NEW x \in X, NEW s \in Seq(X)
  PROVE  /\ <<x>> \o s \in Seq(X) /\ Len(s) \in Nat /\ Len(<<x>> \o s) = Len(s) + 1
         /\ (<<x>> \o s)[1] = x
         /\ \A k \in 1..Len(s) : k + 1 \in 1..Len(s) + 1 /\ (<<x>> \o s)[k + 1] = s[k]
         /\ \A k \in 1..Len(s) + 1 : k = 1 \/ (k - 1 \in 1..Len(s) /\ (k - 1) + 1 = k /\ k > 1)
<1>1. PICK h \in Seq(X) : h = <<x>>
  <2>1. <<x>> \in Seq(X)
    OBVIOUS
  <2> QED BY <2>1
<1>2. Len(h) = 1 /\ h[1] = x
  BY <1>1
<1>3. /\ h \o s \in Seq(X) /\ Len(h) \in Nat /\ Len(s) \in Nat /\ Len(h \o s) = Len(h) + Len(s)
      /\ \A k \in 1..Len(h) : k \in 1..Len(h \o s) /\ (h \o s)[k] = h[k]
      /\ \A k \in 1..Len(s) : Len(h) + k \in 1..Len(h \o s) /\ (h \o s)[Len(h) + k] = s[k]
  BY Concatenated
<1>4. Len(h \o s) = Len(s) + 1 /\ (h \o s)[1] = x
  BY <1>2, <1>3
<1>5. ASSUME NEW k \in 1..Len(s) PROVE k + 1 \in 1..Len(s) + 1 /\ (h \o s)[k + 1] = s[k]
  <2>1. Len(h) + k = k + 1
    BY <1>2
  <2> QED BY <1>3, <1>4, <2>1
<1>6. \A k \in 1..Len(s) + 1 : k = 1 \/ (k - 1 \in 1..Len(s) /\ (k - 1) + 1 = k /\ k > 1)
  BY <1>3
<1> QED BY <1>1, <1>3, <1>4, <1>5, <1>6

\* The walk below x is x and the walks below its children.
LEMMA TreeStep ==
  ASSUME NEW X, NEW par, NEW kids, NEW d, NEW N \in Nat, Forest(X, par, kids, d, N),
         NEW g \in [X -> Seq(X)], NEW x \in X,
         \A i \in 1..Len(kids[x]) : IsWalk(g[kids[x][i]], kids[x][i], X, par, d)
  PROVE  IsWalk(<<x>> \o FlattenSeq(Mapped(kids[x], g)), x, X, par, d)
<1>1. PICK ks \in Seq(X) : ks = kids[x]
  BY DEF Forest
<1> DEFINE s == FlattenSeq(Mapped(ks, g))
           t == <<x>> \o s
<1>2. IsGrove(s, ks, X, par, g)
  BY <1>1, Grove
<1>3. /\ s \in Seq(X) /\ ClosedDown(s, X, par) /\ \A i \in 1..Len(ks) : Has(s, ks[i])
      /\ \A k \in 1..Len(s) : \E i \in 1..Len(ks) : Has(g[ks[i]], s[k])
      /\ \A k \in 1..Len(s) : \/ \E i \in 1..Len(ks) : s[k] = ks[i]
                              \/ \E j \in 1..Len(s) : j < k /\ s[j] = par[s[k]]
  <2> HIDE DEF s
  <2>1. Rooted(s, par, {ks[i] : i \in 1..Len(ks)})
    BY <1>2 DEF IsGrove
  <2> QED BY <1>2, <2>1 DEF IsGrove, Rooted
<1>4. \A y \in X : par[y] = x => \E i \in 1..Len(ks) : ks[i] = y
  <2> SUFFICES ASSUME NEW y \in X, par[y] = x PROVE \E i \in 1..Len(ks) : ks[i] = y
    OBVIOUS
  <2>1. \E i \in 1..Len(kids[par[y]]) : kids[par[y]][i] = y
    BY DEF Forest
  <2> QED BY <1>1, <2>1
<1>5. \A i \in 1..Len(ks) : ks[i] \in X /\ par[ks[i]] = x
  BY <1>1 DEF Forest
<1> HIDE DEF s
<1>6. /\ t \in Seq(X) /\ Len(s) \in Nat /\ Len(t) = Len(s) + 1 /\ t[1] = x
      /\ \A k \in 1..Len(s) : k + 1 \in 1..Len(t) /\ t[k + 1] = s[k]
      /\ \A k \in 1..Len(t) : k = 1 \/ (k - 1 \in 1..Len(s) /\ (k - 1) + 1 = k /\ k > 1)
  <2>1. s \in Seq(X)
    BY <1>3
  <2> QED BY <2>1, Headed
<1> HIDE DEF t
<1>7. \A k \in 1..Len(t) : k = 1 \/ (k - 1 \in 1..Len(s) /\ k > 1 /\ t[k] = s[k - 1])
  BY <1>6
<1>8. Rooted(t, par, {x})
  <2> SUFFICES ASSUME NEW k \in 1..Len(t), t[k] # x
               PROVE  \E l \in 1..Len(t) : l < k /\ t[l] = par[t[k]]
    BY DEF Rooted
  <2>1. k - 1 \in 1..Len(s) /\ k > 1 /\ t[k] = s[k - 1]
    BY <1>6, <1>7
  <2>2. CASE \E i \in 1..Len(ks) : s[k - 1] = ks[i]
    <3>1. par[t[k]] = x
      BY <1>5, <2>1, <2>2
    <3>2. 1 \in 1..Len(t)
      BY <1>6
    <3> QED BY <1>6, <2>1, <3>1, <3>2
  <2>3. CASE \E j \in 1..Len(s) : j < k - 1 /\ s[j] = par[s[k - 1]]
    <3>1. PICK j \in 1..Len(s) : j < k - 1 /\ s[j] = par[s[k - 1]]
      BY <2>3
    <3>2. j + 1 \in 1..Len(t) /\ t[j + 1] = par[t[k]]
      BY <1>6, <2>1, <3>1
    <3>3. j + 1 < k
      <4>1. j \in Int /\ k \in Int
        BY <1>6
      <4> QED BY <3>1, <4>1
    <3> QED BY <3>2, <3>3
  <2> QED BY <1>3, <2>1, <2>2, <2>3
<1>9. \A y : Has(s, y) => Has(t, y)
  BY <1>6 DEF Has
<1>10. ClosedDown(t, X, par)
  <2> SUFFICES ASSUME NEW y \in X, Has(t, par[y]) PROVE Has(t, y)
    BY DEF ClosedDown
  <2>1. PICK k \in 1..Len(t) : t[k] = par[y]
    BY DEF Has
  <2>2. CASE k = 1
    <3>1. par[y] = x
      BY <1>6, <2>1, <2>2
    <3>2. Has(s, y)
      BY <1>3, <1>4, <3>1
    <3> QED BY <1>9, <3>2
  <2>3. CASE k # 1
    <3>1. Has(s, par[y])
      BY <1>7, <2>1, <2>3 DEF Has
    <3> QED BY <1>3, <1>9, <3>1 DEF ClosedDown
  <2> QED BY <2>2, <2>3
<1>11. ASSUME NEW k \in 1..Len(t) PROVE t[k] = x \/ d[x] < d[t[k]]
  <2>1. CASE k = 1
    BY <1>6, <2>1
  <2>2. CASE k # 1
    <3>1. k - 1 \in 1..Len(s) /\ t[k] = s[k - 1]
      BY <1>7, <2>2
    <3>2. PICK i \in 1..Len(ks) : Has(g[ks[i]], s[k - 1])
      BY <1>3, <3>1
    <3>3. PICK y \in X : y = ks[i] /\ par[y] = x
      BY <1>5
    <3>4. IsWalk(g[y], y, X, par, d)
      BY <1>1, <3>3
    <3>5. PICK m \in 1..Len(g[y]) : g[y][m] = s[k - 1]
      BY <3>2, <3>3 DEF Has
    <3>6. t[k] = y \/ d[y] < d[t[k]]
      BY <3>1, <3>4, <3>5 DEF IsWalk
    <3>7. d[x] < d[y]
      BY <3>3 DEF Forest
    <3>8. t[k] \in X
      BY <1>6
    <3>9. d[x] \in Int /\ d[y] \in Int /\ d[t[k]] \in Int
      <4>1. \A z \in X : d[z] \in Int
        <5>1. \A z \in X : d[z] \in 0..N
          BY DEF Forest
        <5> QED BY <5>1, SMTT(30)
      <4> QED BY <3>3, <3>8, <4>1
    <3>10. ASSUME NEW p \in Int, NEW q \in Int, NEW r \in Int, p < q, q < r PROVE p < r
      BY <3>10
    <3>11. CASE t[k] = y
      BY <3>7, <3>11
    <3>12. CASE d[y] < d[t[k]]
      BY <3>7, <3>9, <3>10, <3>12
    <3> QED BY <3>6, <3>11, <3>12
  <2> QED BY <2>1, <2>2
<1>12. Len(t) >= 1
  BY <1>6
<1>13. IsWalk(t, x, X, par, d)
  BY <1>6, <1>8, <1>10, <1>11, <1>12 DEF IsWalk
<1> QED BY <1>1, <1>13 DEF s, t

\* So is what the recursion defines.
LEMMA AllWalks ==
  ASSUME NEW X, NEW par, NEW kids, NEW d, NEW N \in Nat, Forest(X, par, kids, d, N),
         NEW w \in [X -> Seq(X)], w = OneUp(X, kids, w)
  PROVE  \A x \in X : IsWalk(w[x], x, X, par, d)
<1> DEFINE S == {x \in X : IsWalk(w[x], x, X, par, d)}
<1>1. ASSUME NEW x \in X, \A i \in 1..Len(kids[x]) : kids[x][i] \in S
      PROVE  x \in S
  <2>1. IsWalk(<<x>> \o FlattenSeq(Mapped(kids[x], w)), x, X, par, d)
    BY <1>1, TreeStep
  <2>2. OneUp(X, kids, w)[x] = <<x>> \o FlattenSeq(Mapped(kids[x], w))
    BY DEF OneUp
  <2>3. w[x] = <<x>> \o FlattenSeq(Mapped(kids[x], w))
    BY <2>2
  <2> QED BY <2>1, <2>3
<1>2. X \subseteq S
  <2> HIDE DEF S
  <2>1. Rises(S, X, kids)
    BY <1>1 DEF Rises
  <2> QED BY <2>1, BottomUp
<1> QED BY <1>2

Walks(X, par, kids, d, w) ==
  w \in [X -> Seq(X)] /\ \A x \in X : IsWalk(w[x], x, X, par, d)

\* What a walk has is x or has its parent in the walk, deeper than x.
LEMMA WalkMember ==
  ASSUME NEW X, NEW par, NEW kids, NEW d, NEW w, Walks(X, par, kids, d, w),
         NEW x \in X, NEW y, Has(w[x], y)
  PROVE  y \in X /\ (y = x \/ (d[x] < d[y] /\ Has(w[x], par[y])))
<1>1. IsWalk(w[x], x, X, par, d) /\ w[x] \in Seq(X)
  BY DEF Walks
<1>2. PICK i \in 1..Len(w[x]) : w[x][i] = y
  BY DEF Has
<1>3. y = x \/ d[x] < d[y]
  BY <1>1, <1>2 DEF IsWalk
<1>4. y = x \/ \E j \in 1..Len(w[x]) : w[x][j] = par[y]
  BY <1>1, <1>2 DEF IsWalk, Rooted
<1> QED BY <1>1, <1>2, <1>3, <1>4 DEF Has

\* Siblings, or roots.
Alike(x, y, X, par) == par[x] = par[y] \/ (par[x] \notin X /\ par[y] \notin X)

\* The walk below y does not reach the parent of y, nor of a sibling.
LEMMA NotUp ==
  ASSUME NEW X, NEW par, NEW kids, NEW d, NEW N \in Nat, Forest(X, par, kids, d, N),
         NEW w, Walks(X, par, kids, d, w),
         NEW x \in X, NEW y \in X, Alike(x, y, X, par)
  PROVE  ~Has(w[y], par[x])
<1> SUFFICES ASSUME Has(w[y], par[x]) PROVE FALSE
  OBVIOUS
<1>1. par[x] \in X /\ (par[x] = y \/ d[y] < d[par[x]])
  BY WalkMember
<1>2. par[y] = par[x]
  BY <1>1 DEF Alike
<1>3. d[par[x]] < d[y]
  BY <1>1, <1>2 DEF Forest
<1>4. \A z \in X : d[z] \in Int
  BY DEF Forest
<1>5. d[y] \in Int /\ d[par[x]] \in Int
  BY <1>1, <1>4
<1>6. ~(d[y] < d[par[x]])
  BY <1>3, <1>5
<1>7. par[x] = y
  BY <1>1, <1>6
<1> QED BY <1>3, <1>5, <1>7

\* The walks below two siblings have nothing in common.
LEMMA Disjoint ==
  ASSUME NEW X, NEW par, NEW kids, NEW d, NEW N \in Nat, Forest(X, par, kids, d, N),
         NEW w, Walks(X, par, kids, d, w),
         NEW x \in X, NEW y \in X, x # y, Alike(x, y, X, par)
  PROVE  \A z : ~(Has(w[x], z) /\ Has(w[y], z))
<1> DEFINE S == {z \in X : ~(Has(w[x], z) /\ Has(w[y], z))}
<1>1. Alike(y, x, X, par)
  BY DEF Alike
<1>2. ASSUME NEW z \in X, par[z] \in X => par[z] \in S PROVE z \in S
  <2> SUFFICES ASSUME Has(w[x], z), Has(w[y], z) PROVE FALSE
    OBVIOUS
  <2>1. z = x \/ Has(w[x], par[z])
    BY WalkMember
  <2>2. z = y \/ Has(w[y], par[z])
    BY WalkMember
  <2>3. z # x
    <3> SUFFICES ASSUME z = x PROVE FALSE
      OBVIOUS
    <3>1. Has(w[y], par[x])
      BY <2>2
    <3> HIDE DEF S
    <3> QED BY <3>1, NotUp
  <2>4. z # y
    <3> SUFFICES ASSUME z = y PROVE FALSE
      OBVIOUS
    <3>1. Has(w[x], par[y])
      BY <2>1
    <3> HIDE DEF S
    <3> QED BY <1>1, <3>1, NotUp
  <2>5. Has(w[x], par[z]) /\ Has(w[y], par[z])
    BY <2>1, <2>2, <2>3, <2>4
  <2>6. par[z] \in X
    BY <2>5, WalkMember
  <2> QED BY <1>2, <2>5, <2>6
<1>3. X \subseteq S
  <2> HIDE DEF S
  <2>1. Falls(S, X, par)
    BY <1>2 DEF Falls
  <2> QED BY <2>1, TopDown
<1> SUFFICES ASSUME NEW z, Has(w[x], z), Has(w[y], z) PROVE FALSE
  OBVIOUS
<1>4. z \in X
  BY WalkMember
<1> QED BY <1>3, <1>4

\* No element twice; siblings in the order of st.
Once(s) == \A k, l \in 1..Len(s) : s[k] = s[l] => k = l
InOrder(s, par, st) ==
  \A j, k \in 1..Len(s) : j < k /\ par[s[j]] = par[s[k]] => st[s[j]] <= st[s[k]]

\* Different siblings, in the order of st.
Siblings(ks, X, par, st) ==
  /\ \A i, j \in 1..Len(ks) : Alike(ks[i], ks[j], X, par)
  /\ \A i, j \in 1..Len(ks) : i < j => ks[i] # ks[j] /\ st[ks[i]] <= st[ks[j]]

\* If the spans are different siblings, none comes twice in their walks together.
LEMMA GroveOnce ==
  ASSUME NEW X, NEW par, NEW kids, NEW d, NEW N \in Nat, Forest(X, par, kids, d, N),
         NEW w, Walks(X, par, kids, d, w), NEW st,
         NEW ks \in Seq(X), Siblings(ks, X, par, st),
         \A i \in 1..Len(ks) : Once(w[ks[i]]) /\ InOrder(w[ks[i]], par, st)
  PROVE  Once(FlattenSeq(Mapped(ks, w))) /\ InOrder(FlattenSeq(Mapped(ks, w)), par, st)
<1> DEFINE ss == Mapped(ks, w)
           s == FlattenSeq(ss)
           n == Len(ks)
<1>1. n \in Nat /\ Parts(ss, X, n)
  <2>1. w \in [X -> Seq(X)]
    BY DEF Walks
  <2> QED BY <2>1, MappedParts
<1>2. s \in Seq(X) /\ \E b, c : Laid(s, ss, n, b, c)
  <2> HIDE DEF ss, n
  <2> QED BY <1>1, Laying
<1>3. PICK b, c : Laid(s, ss, n, b, c)
  BY <1>2
<1>4. \A i \in 1..n : ss[i] = w[ks[i]] /\ ks[i] \in X
  BY DEF Mapped
<1>5. \A i \in 1..n : Once(ss[i]) /\ InOrder(ss[i], par, st)
  BY <1>4
<1>6. \A i, j \in 1..n : i # j => Alike(ks[i], ks[j], X, par) /\ ks[i] # ks[j]
  <2> SUFFICES ASSUME NEW i \in 1..n, NEW j \in 1..n, i # j
               PROVE  Alike(ks[i], ks[j], X, par) /\ ks[i] # ks[j]
    OBVIOUS
  <2>1. i < j \/ j < i
    BY <1>1
  <2> QED BY <2>1 DEF Siblings
<1>7. \A i, j \in 1..n : i < j => st[ks[i]] <= st[ks[j]]
  BY DEF Siblings
<1> HIDE DEF ss, s, n
<1>8. ASSUME NEW k \in 1..Len(s)
      PROVE  /\ b[k] \in 1..n /\ c[k] \in 1..Len(ss[b[k]]) /\ s[k] = ss[b[k]][c[k]]
             /\ Has(w[ks[b[k]]], s[k]) /\ ks[b[k]] \in X
  <2>1. b[k] \in 1..n /\ c[k] \in 1..Len(ss[b[k]]) /\ s[k] = ss[b[k]][c[k]]
    BY <1>3 DEF Laid
  <2> QED BY <1>4, <2>1 DEF Has
<1>9. \A k, l \in 1..Len(s) : k < l => b[k] < b[l] \/ (b[k] = b[l] /\ c[k] < c[l])
  BY <1>3 DEF Laid
<1>10. ASSUME NEW k \in 1..Len(s), NEW l \in 1..Len(s), k < l PROVE s[k] # s[l]
  <2> SUFFICES ASSUME s[k] = s[l] PROVE FALSE
    OBVIOUS
  <2>1. b[k] \in Int /\ b[l] \in Int /\ c[k] \in Int /\ c[l] \in Int
    BY <1>1, <1>8, SMTT(30)
  <2>2. b[k] < b[l] \/ (b[k] = b[l] /\ c[k] < c[l])
    BY <1>9, <1>10
  <2>3. CASE b[k] = b[l]
    <3>1. c[k] < c[l]
      BY <2>1, <2>2, <2>3
    <3>2. c[k] = c[l]
      <4>1. PICK i \in 1..n : i = b[k]
        BY <1>8
      <4>2. c[k] \in 1..Len(ss[i]) /\ c[l] \in 1..Len(ss[i]) /\ ss[i][c[k]] = ss[i][c[l]]
        BY <1>8, <2>3, <4>1
      <4>3. Once(ss[i])
        BY <1>5
      <4> QED BY <4>2, <4>3 DEF Once
    <3> QED BY <2>1, <3>1, <3>2
  <2>4. CASE b[k] # b[l]
    <3>1. PICK x \in X, y \in X : x = ks[b[k]] /\ y = ks[b[l]]
      BY <1>8
    <3>2. x # y /\ Alike(x, y, X, par)
      BY <1>6, <1>8, <2>4, <3>1
    <3>3. Has(w[x], s[k]) /\ Has(w[y], s[k])
      BY <1>8, <3>1
    <3> QED BY <3>2, <3>3, Disjoint
  <2> QED BY <2>3, <2>4
<1>11. Once(s)
  <2> SUFFICES ASSUME NEW k \in 1..Len(s), NEW l \in 1..Len(s), s[k] = s[l], k # l PROVE FALSE
    BY DEF Once
  <2>1. k < l \/ l < k
    OBVIOUS
  <2> QED BY <1>10, <2>1
<1>12. ASSUME NEW k \in 1..Len(s), NEW l \in 1..Len(s), k < l, par[s[k]] = par[s[l]]
       PROVE  st[s[k]] <= st[s[l]]
  <2>1. b[k] < b[l] \/ (b[k] = b[l] /\ c[k] < c[l])
    BY <1>9, <1>12
  <2>2. CASE b[k] = b[l] /\ c[k] < c[l]
    <3>1. PICK i \in 1..n : i = b[k]
      BY <1>8
    <3>2. /\ c[k] \in 1..Len(ss[i]) /\ c[l] \in 1..Len(ss[i])
          /\ s[k] = ss[i][c[k]] /\ s[l] = ss[i][c[l]]
      BY <1>8, <2>2, <3>1
    <3>3. InOrder(ss[i], par, st)
      BY <1>5
    <3> QED BY <1>12, <2>2, <3>2, <3>3 DEF InOrder
  <2>3. CASE b[k] < b[l]
    <3>1. PICK x \in X, y \in X : x = ks[b[k]] /\ y = ks[b[l]]
      BY <1>8
    <3>2. b[k] # b[l]
      BY <1>1, <1>8, <2>3
    <3>3. x # y /\ Alike(x, y, X, par) /\ Alike(y, x, X, par)
      BY <1>6, <1>8, <3>1, <3>2, ZenonT(30) DEF Alike
    <3>4. Has(w[x], s[k]) /\ Has(w[y], s[l])
      BY <1>8, <3>1
    <3>5. s[k] = x \/ Has(w[x], par[s[k]])
      BY <3>4, WalkMember
    <3>6. s[l] = y \/ Has(w[y], par[s[k]])
      BY <1>12, <3>4, WalkMember
    <3>7. s[k] = x
      <4> SUFFICES ASSUME Has(w[x], par[s[k]]) PROVE FALSE
        BY <3>5
      <4>1. CASE s[l] = y
        <5>1. Has(w[x], par[y])
          BY <1>12, <4>1
        <5> QED BY <3>3, <5>1, NotUp
      <4>2. CASE Has(w[y], par[s[k]])
        BY <3>3, <4>2, Disjoint
      <4> QED BY <3>6, <4>1, <4>2
    <3>8. s[l] = y
      <4> SUFFICES ASSUME Has(w[y], par[x]) PROVE FALSE
        BY <3>6, <3>7
      <4> QED BY <3>3, NotUp
    <3> QED BY <1>7, <1>8, <2>3, <3>1, <3>7, <3>8, SMTT(30)
  <2> QED BY <2>1, <2>2, <2>3
<1>13. InOrder(s, par, st)
  BY <1>12 DEF InOrder
<1> QED BY <1>11, <1>13 DEF s, ss

\* So have the walks themselves.
LEMMA WalksOnce ==
  ASSUME NEW X, NEW par, NEW kids, NEW d, NEW N \in Nat, Forest(X, par, kids, d, N),
         NEW w, Walks(X, par, kids, d, w), w = OneUp(X, kids, w), NEW st,
         \A x \in X : Siblings(kids[x], X, par, st)
  PROVE  \A x \in X : Once(w[x]) /\ InOrder(w[x], par, st)
<1> DEFINE S == {x \in X : Once(w[x]) /\ InOrder(w[x], par, st)}
<1>1. ASSUME NEW x \in X, \A i \in 1..Len(kids[x]) : kids[x][i] \in S
      PROVE  x \in S
  <2>1. PICK ks \in Seq(X) : ks = kids[x]
    BY DEF Forest
  <2>2. Siblings(ks, X, par, st)
    BY <2>1
  <2> DEFINE s == FlattenSeq(Mapped(ks, w))
  <2>3. Once(s) /\ InOrder(s, par, st)
    <3>1. \A i \in 1..Len(ks) : Once(w[ks[i]]) /\ InOrder(w[ks[i]], par, st)
      BY <1>1, <2>1
    <3> HIDE DEF S
    <3> QED BY <2>2, <3>1, GroveOnce
  <2>4. w[x] = <<x>> \o s
    <3>1. OneUp(X, kids, w)[x] = <<x>> \o FlattenSeq(Mapped(kids[x], w))
      BY DEF OneUp
    <3> HIDE DEF S
    <3> QED BY <2>1, <3>1
  <2>5. IsGrove(s, ks, X, par, w)
    <3>1. w \in [X -> Seq(X)] /\ \A i \in 1..Len(ks) : IsWalk(w[ks[i]], ks[i], X, par, d)
      BY DEF Walks
    <3> HIDE DEF S
    <3> QED BY <3>1, Grove
  <2>6. s \in Seq(X)
    <3> HIDE DEF s
    <3> QED BY <2>5 DEF IsGrove
  <2>7. /\ w[x] \in Seq(X) /\ Len(s) \in Nat /\ Len(w[x]) = Len(s) + 1 /\ w[x][1] = x
        /\ \A k \in 1..Len(s) : k + 1 \in 1..Len(w[x]) /\ w[x][k + 1] = s[k]
        /\ \A k \in 1..Len(w[x]) : k = 1 \/ (k - 1 \in 1..Len(s) /\ (k - 1) + 1 = k /\ k > 1)
    <3> HIDE DEF s
    <3> QED BY <2>4, <2>6, Headed
  <2>8. \A k \in 1..Len(s) : s[k] \in X /\ d[x] < d[s[k]] /\ Has(w[x], par[s[k]])
    <3> SUFFICES ASSUME NEW k \in 1..Len(s) PROVE s[k] \in X /\ d[x] < d[s[k]] /\ Has(w[x], par[s[k]])
      OBVIOUS
    <3> HIDE DEF s
    <3>1. PICK i \in 1..Len(ks) : Has(w[ks[i]], s[k])
      BY <2>5 DEF IsGrove
    <3>2. PICK y \in X : y = ks[i] /\ par[y] = x
      BY <2>1 DEF Forest
    <3>3. s[k] \in X /\ (s[k] = y \/ (d[y] < d[s[k]] /\ Has(w[y], par[s[k]])))
      BY <3>1, <3>2, WalkMember
    <3>4. d[x] < d[y]
      BY <3>2 DEF Forest
    <3>5. \A z \in X : d[z] \in Int
      BY DEF Forest
    <3>6. d[x] < d[s[k]]
      <4>1. CASE s[k] = y
        BY <3>4, <4>1
      <4>2. CASE d[y] < d[s[k]]
        <5>1. ASSUME NEW p \in Int, NEW q \in Int, NEW r \in Int, p < q, q < r PROVE p < r
          BY <5>1
        <5> QED BY <3>3, <3>4, <3>5, <4>2, <5>1
      <4> QED BY <3>3, <4>1, <4>2
    <3>7. Has(w[x], s[k])
      BY <2>7 DEF Has
    <3>8. s[k] # x
      BY <3>5, <3>6
    <3>9. Has(w[x], par[s[k]])
      BY <3>7, <3>8, WalkMember
    <3> QED BY <3>3, <3>6, <3>9
  <2> HIDE DEF s, S
  <2>9. \A z \in X : d[z] \in Int
    BY DEF Forest
  <2>10. ASSUME NEW k \in 1..Len(w[x]), NEW l \in 1..Len(w[x]), w[x][k] = w[x][l]
         PROVE  k = l
    <3>1. \A m \in 1..Len(s) : s[m] # x
      BY <2>8, <2>9
    <3>2. CASE k = 1 \/ l = 1
      <4>1. \A m \in 1..Len(w[x]) : w[x][m] = x => m = 1
        <5> SUFFICES ASSUME NEW m \in 1..Len(w[x]), m # 1 PROVE w[x][m] # x
          OBVIOUS
        <5>1. m - 1 \in 1..Len(s) /\ w[x][m] = s[m - 1]
          BY <2>7
        <5> QED BY <3>1, <5>1
      <4> QED BY <2>7, <2>10, <3>2, <4>1
    <3>3. CASE k # 1 /\ l # 1
      <4>1. k - 1 \in 1..Len(s) /\ l - 1 \in 1..Len(s) /\ s[k - 1] = s[l - 1]
        BY <2>7, <2>10, <3>3
      <4>2. k - 1 = l - 1
        <5>1. ASSUME NEW p \in 1..Len(s), NEW q \in 1..Len(s), s[p] = s[q] PROVE p = q
          BY <2>3, <5>1 DEF Once
        <5> QED BY <4>1, <5>1
      <4> QED BY <2>7, <4>2
    <3> QED BY <3>2, <3>3
  <2>11. ASSUME NEW k \in 1..Len(w[x]), NEW l \in 1..Len(w[x]), k < l, par[w[x][k]] = par[w[x][l]]
         PROVE  st[w[x][k]] <= st[w[x][l]]
    <3>1. l - 1 \in 1..Len(s) /\ w[x][l] = s[l - 1]
      BY <2>7, <2>11
    <3>2. CASE k = 1
      <4>1. Has(w[x], par[x])
        BY <2>7, <2>8, <2>11, <3>1, <3>2
      <4>2. Alike(x, x, X, par)
        BY DEF Alike
      <4> QED BY <4>1, <4>2, NotUp
    <3>3. CASE k # 1
      <4>1. k - 1 \in 1..Len(s) /\ w[x][k] = s[k - 1] /\ k - 1 < l - 1
        BY <2>7, <2>11, <3>3
      <4>2. ASSUME NEW p \in 1..Len(s), NEW q \in 1..Len(s), p < q, par[s[p]] = par[s[q]]
            PROVE  st[s[p]] <= st[s[q]]
        BY <2>3, <4>2 DEF InOrder
      <4> QED BY <2>11, <3>1, <4>1, <4>2
    <3> QED BY <3>2, <3>3
  <2>12. Once(w[x]) /\ InOrder(w[x], par, st)
    BY <2>10, <2>11 DEF Once, InOrder
  <2> QED BY <2>12 DEF S
<1>2. X \subseteq S
  <2> HIDE DEF S
  <2>1. Rises(S, X, kids)
    BY <1>1 DEF Rises
  <2> QED BY <2>1, BottomUp
<1> QED BY <1>2

\* The first n numbers are n.
LEMMA CountTo ==
  ASSUME NEW n \in Nat
  PROVE  IsFiniteSet(1..n) /\ Cardinality(1..n) = n
<1>1. n \in Int /\ 1 \in Int /\ (~(1 > n) \/ n = 0)
  OBVIOUS
<1>2. IsFiniteSet(1..n) /\ Cardinality(1..n) = IF 1 > n THEN 0 ELSE n - 1 + 1
  BY <1>1, FS_Interval
<1> QED BY <1>1, <1>2

-----------------------------------------------------------------------------
(***************************************************************************)
(* Sorting.                                                                *)
(***************************************************************************)

\* r has the entries of s at the places in I, each once, by rising keys: its n-th
\* entry is the one at p[n].
IsSorting(r, s, I, key, p) ==
  /\ Cardinality(I) \in Nat
  /\ r = [n \in 1..Cardinality(I) |-> s[p[n]]]
  /\ \A n \in 1..Cardinality(I) : p[n] \in I
  /\ \A i \in I : \E n \in 1..Cardinality(I) : p[n] = i
  /\ \A n, m \in 1..Cardinality(I) : n < m => p[n] # p[m] /\ key[p[n]] <= key[p[m]]

\* Sorted puts the places in the order of their keys.
LEMMA Sorting ==
  ASSUME NEW N \in Nat, NEW I, I \subseteq 1..N, NEW key, \A i \in I : key[i] \in Int, NEW s
  PROVE  \E p : IsSorting(Sorted(s, I, key), s, I, key, p)
<1> DEFINE Ahead(j, i) == key[j] < key[i] \/ (key[j] = key[i] /\ j =< i)
           Before(i) == {j \in I : Ahead(j, i)}
           C == Cardinality(I)
           place == [i \in I |-> Cardinality(Before(i))]
           p == [n \in 1..C |-> CHOOSE i \in I : Cardinality(Before(i)) = n]
<1>1. IsFiniteSet(I) /\ C \in Nat
  <2>1. IsFiniteSet(1..N)
    BY CountTo
  <2> QED BY <2>1, FS_Subset, FS_CardinalityType
<1>2. \A i \in I : IsFiniteSet(Before(i)) /\ Cardinality(Before(i)) \in Nat /\ Cardinality(Before(i)) <= C
  BY <1>1, FS_Subset, FS_CardinalityType
<1>3. \A i, j \in I : i \in Int /\ j \in Int /\ key[i] \in Int /\ key[j] \in Int
  OBVIOUS
<1>4. ASSUME NEW i \in I, NEW j \in I, i # j, Ahead(i, j)
      PROVE  place[i] < place[j]
  <2>1. \A k \in I : Ahead(k, i) => Ahead(k, j)
    BY <1>3, <1>4
  <2>2. Before(i) \subseteq Before(j)
    BY <2>1
  <2>3. j \in Before(j) /\ j \notin Before(i)
    BY <1>3, <1>4
  <2>4. Cardinality(Before(i)) <= Cardinality(Before(j)) /\ Cardinality(Before(i)) # Cardinality(Before(j))
    <3> DEFINE A == Before(i)
               B == Before(j)
    <3>1. IsFiniteSet(B) /\ A \in SUBSET B /\ A # B
      BY <1>2, <2>2, <2>3
    <3>2. Cardinality(A) <= Cardinality(B) /\ (Cardinality(B) = Cardinality(A) => B = A)
      <4> HIDE DEF A, B
      <4> QED BY <3>1, FS_Subset
    <3> QED BY <3>1, <3>2
  <2> QED BY <1>2, <2>4
<1>5. \A i, j \in I : i # j => place[i] # place[j]
  <2> SUFFICES ASSUME NEW i \in I, NEW j \in I, i # j PROVE place[i] # place[j]
    OBVIOUS
  <2>1. Ahead(i, j) \/ Ahead(j, i)
    BY <1>3
  <2>2. place[i] \in Int /\ place[j] \in Int
    BY <1>2
  <2>3. place[i] < place[j] \/ place[j] < place[i]
    <3> HIDE DEF Ahead, place
    <3> QED BY <1>4, <2>1
  <2> HIDE DEF place
  <2> QED BY <2>2, <2>3
<1>6. \A i \in I : place[i] \in 1..C
  <2> SUFFICES ASSUME NEW i \in I PROVE place[i] \in 1..C
    OBVIOUS
  <2>1. i \in Before(i)
    BY <1>3
  <2>2. Cardinality(Before(i)) # 0
    <3> DEFINE B == Before(i)
    <3>1. IsFiniteSet(B) /\ B # {}
      BY <1>2, <2>1
    <3> HIDE DEF B
    <3>2. Cardinality(B) # 0
      BY <3>1, FS_EmptySet
    <3> QED BY <3>2 DEF B
  <2> QED BY <1>2, <2>2
<1>7. \A n \in 1..C : \E i \in I : place[i] = n
  <2>1. place \in Injection(I, 1..C)
    <3>1. place \in [I -> 1..C]
      BY <1>6
    <3> HIDE DEF place
    <3> QED BY <1>5, <3>1 DEF Injection, IsInjective
  <2>2. IsFiniteSet(1..C) /\ Cardinality(1..C) = C
    BY <1>1, CountTo
  <2>3. place \in Surjection(I, 1..C)
    <3> HIDE DEF place
    <3> QED BY <2>1, <2>2, FS_Injection
  <2> HIDE DEF place
  <2> QED BY <2>3 DEF Surjection
<1>8. \A n \in 1..C : p[n] \in I /\ place[p[n]] = n
  BY <1>7
<1>9. Sorted(s, I, key) = [n \in 1..C |-> s[p[n]]]
  BY DEF Sorted
<1>10. \A i \in I : \E n \in 1..C : p[n] = i
  <2> SUFFICES ASSUME NEW i \in I PROVE \E n \in 1..C : p[n] = i
    OBVIOUS
  <2>1. PICK n \in 1..C : n = place[i]
    BY <1>6
  <2>2. p[n] \in I /\ place[p[n]] = place[i]
    BY <1>8, <2>1
  <2> HIDE DEF p, place
  <2>3. p[n] = i
    BY <1>5, <2>2
  <2> QED BY <2>3
<1>11. ASSUME NEW n \in 1..C, NEW m \in 1..C, n < m
       PROVE  p[n] # p[m] /\ key[p[n]] <= key[p[m]]
  <2>1. p[n] \in I /\ p[m] \in I /\ place[p[n]] = n /\ place[p[m]] = m
    BY <1>8
  <2> HIDE DEF p
  <2>2. p[n] # p[m]
    BY <1>11, <2>1
  <2>3. ~Ahead(p[m], p[n])
    <3> SUFFICES ASSUME Ahead(p[m], p[n]) PROVE FALSE
      OBVIOUS
    <3> HIDE DEF Ahead, place
    <3>1. m < n
      BY <1>4, <2>1, <2>2
    <3> QED BY <1>11, <3>1
  <2>4. ~(key[p[m]] < key[p[n]])
    BY <2>3
  <2>5. key[p[m]] \in Int /\ key[p[n]] \in Int
    BY <1>3, <2>1
  <2> QED BY <2>2, <2>4, <2>5
<1>12. IsSorting(Sorted(s, I, key), s, I, key, p)
  <2> HIDE DEF p
  <2> QED BY <1>1, <1>8, <1>9, <1>10, <1>11 DEF IsSorting
<1> QED BY <1>12

-----------------------------------------------------------------------------
(***************************************************************************)
(* A set of spans without a cycle has such depths.                         *)
(***************************************************************************)

\* A group in which everyone has their parent.
IsCycle(group, X, par) == group \in SUBSET X /\ group # {} /\ \A x \in group : par[x] \in group

\* Part of a forest, down from its roots, and depths in it.
PartTree(S, X, par, d, n) ==
  \A x \in S : d[x] \in Nat /\ d[x] < n /\ (par[x] \in X => par[x] \in S /\ d[par[x]] < d[x])

\* Where there is no such group, parents can be placed before their children.
LEMMA Depths ==
  ASSUME NEW X, IsFiniteSet(X), NEW par, \A group : ~IsCycle(group, X, par)
  PROVE  \E d : PartTree(X, X, par, d, Cardinality(X))
<1> DEFINE C == Cardinality(X)
           T == {n \in Nat : n <= C => \E S \in SUBSET X : Cardinality(S) = n /\ \E d : PartTree(S, X, par, d, n)}
<1>1. C \in Nat /\ \A S \in SUBSET X : IsFiniteSet(S)
  BY FS_CardinalityType, FS_Subset
<1>2. 0 \in T
  <2>1. PartTree({}, X, par, <<>>, 0)
    BY DEF PartTree
  <2> QED BY <2>1, FS_EmptySet
<1>3. ASSUME NEW n \in T PROVE n + 1 \in T
  <2> SUFFICES ASSUME n + 1 <= C
               PROVE  \E S \in SUBSET X : Cardinality(S) = n + 1 /\ \E d : PartTree(S, X, par, d, n + 1)
    OBVIOUS
  <2>1. n \in Nat /\ n <= C /\ n # C
    BY <1>1
  <2>2. PICK S \in SUBSET X : Cardinality(S) = n /\ \E d : PartTree(S, X, par, d, n)
    BY <2>1
  <2>3. PICK d : PartTree(S, X, par, d, n)
    BY <2>2
  <2>4. X \ S # {}
    BY <2>1, <2>2
  <2>5. PICK x \in X \ S : par[x] \notin X \ S
    BY <2>4 DEF IsCycle
  <2> DEFINE e == [y \in S \cup {x} |-> IF y = x THEN n ELSE d[y]]
  <2>6. e[x] = n /\ \A y \in S : e[y] = d[y]
    BY <2>5
  <2> HIDE DEF e
  <2>7. ASSUME NEW y \in S \cup {x}
        PROVE  e[y] \in Nat /\ e[y] < n + 1
               /\ (par[y] \in X => par[y] \in S \cup {x} /\ e[par[y]] < e[y])
    <3>1. CASE y \in S
      <4>1. d[y] \in Nat /\ d[y] < n /\ (par[y] \in X => par[y] \in S /\ d[par[y]] < d[y])
        BY <2>3, <3>1 DEF PartTree
      <4> QED BY <2>1, <2>6, <3>1, <4>1
    <3>2. CASE y = x
      <4>1. e[y] = n
        BY <2>6, <3>2
      <4>2. par[y] \in X => par[y] \in S
        BY <2>5, <3>2
      <4>3. par[y] \in S => e[par[y]] < n
        BY <2>3, <2>6 DEF PartTree
      <4> QED BY <2>1, <4>1, <4>2, <4>3
    <3> QED BY <3>1, <3>2
  <2>8. PartTree(S \cup {x}, X, par, e, n + 1)
    BY <2>7 DEF PartTree
  <2>9. Cardinality(S \cup {x}) = n + 1
    <3>1. IsFiniteSet(S) /\ x \notin S
      BY <1>1, <2>5
    <3>2. Cardinality(S \cup {x}) = Cardinality(S) + 1
      <4> HIDE DEF T
      <4> QED BY <3>1, FS_AddElement
    <3> QED BY <2>2, <3>2
  <2> QED BY <2>5, <2>8, <2>9
<1>4. C \in T
  <2>1. T \subseteq Nat
    OBVIOUS
  <2> HIDE DEF T, C
  <2> QED BY <1>1, <1>2, <1>3, <2>1, NaturalInduction
<1>5. PICK S \in SUBSET X : Cardinality(S) = C /\ \E d : PartTree(S, X, par, d, C)
  BY <1>1, <1>4
<1>6. S = X
  <2> HIDE DEF T
  <2> QED BY <1>5, FS_Subset
<1> QED BY <1>5, <1>6

\* What the storage returns: spans with ids, some of them more than once.
AreRows(spans) ==
  /\ Len(spans) \in Nat /\ DOMAIN spans = 1..Len(spans)
  /\ \A i \in 1..Len(spans) : spans[i].id # NoParent

\* Rows of spans whose copies agree.
WellFormed(spans) ==
  /\ Len(spans) \in Nat /\ DOMAIN spans = 1..Len(spans)
  /\ \A i \in 1..Len(spans) :
       spans[i].id # NoParent /\ spans[i].start \in Int /\ spans[i].duration \in Nat
  /\ \A i, j \in 1..Len(spans) : spans[i].id = spans[j].id => spans[i] = spans[j]

\* The span of an id is one of its rows.
LEMMA LastRow ==
  ASSUME NEW spans, AreRows(spans), NEW x \in Ids(spans)
  PROVE  \E i \in 1..Len(spans) : spans[i].id = x /\ SpanOf(spans, x) = spans[i]
<1> DEFINE n == Len(spans)
           P == {j \in DOMAIN spans : spans[j].id = x}
<1>1. P \subseteq 1..n /\ P # {} /\ n \in Nat
  BY DEF AreRows, Ids
<1>2. Max(P) \in P
  <2> HIDE DEF P, n
  <2> QED BY <1>1, MaxInSet
<1>3. SpanOf(spans, x) = spans[Max(P)]
  BY DEF SpanOf
<1>4. Max(P) \in 1..Len(spans) /\ spans[Max(P)].id = x
  BY <1>1, <1>2
<1> HIDE DEF P
<1> QED BY <1>3, <1>4

\* The ids of what is stored, and the span of each.
LEMMA IdsAre ==
  ASSUME NEW spans, WellFormed(spans)
  PROVE  /\ Ids(spans) = {spans[i].id : i \in 1..Len(spans)}
         /\ IsFiniteSet(Ids(spans)) /\ Cardinality(Ids(spans)) \in Nat
         /\ Cardinality(Ids(spans)) <= Len(spans)
         /\ \A i \in 1..Len(spans) : SpanOf(spans, spans[i].id) = spans[i]
         /\ NoParent \notin Ids(spans)
<1> DEFINE n == Len(spans)
           D == 1..n
           X == Ids(spans)
           f == [i \in D |-> spans[i].id]
<1>1. X = {spans[i].id : i \in D} /\ n \in Nat
  BY DEF Ids, WellFormed
<1>2. IsFiniteSet(X) /\ Cardinality(X) <= n
  <2>1. IsFiniteSet(D) /\ Cardinality(D) = n
    <3>1. n \in Nat /\ 1 \in Int
      BY <1>1
    <3> HIDE DEF n
    <3> QED BY <3>1, CountTo
  <2>2. f \in Surjection(D, X)
    BY <1>1 DEF Surjection
  <2> HIDE DEF D, X, f
  <2> QED BY <2>1, <2>2, FS_Surjection
<1>3. ASSUME NEW i \in D PROVE SpanOf(spans, spans[i].id) = spans[i]
  <2> DEFINE P == {j \in DOMAIN spans : spans[j].id = spans[i].id}
  <2>1. P \subseteq 1..n /\ P # {}
    BY DEF WellFormed
  <2>2. Max(P) \in P
    <3> HIDE DEF P, n
    <3> QED BY <1>1, <2>1, MaxInSet
  <2>3. Max(P) \in D /\ spans[Max(P)].id = spans[i].id
    <3> HIDE DEF D
    <3> QED BY <2>1, <2>2 DEF D
  <2> QED BY <2>3 DEF SpanOf, WellFormed
<1>4. NoParent \notin X
  BY <1>1 DEF WellFormed
<1>5. Cardinality(X) \in Nat
  BY <1>2, FS_CardinalityType
<1> QED BY <1>1, <1>2, <1>3, <1>4, <1>5

-----------------------------------------------------------------------------
(***************************************************************************)
(* The spans of a trace as a forest.                                       *)
(***************************************************************************)

Par(spans) == [id \in Ids(spans) |-> ParentOf(spans, id)]

\* up lists the ancestors of id: the parent of the last, as long as it is there.
IsLine(up, id, spans) ==
  /\ DOMAIN up = 1..Len(spans) + 1
  /\ up[1] = ParentOf(spans, id)
  /\ \A n \in 1..Len(spans) :
       up[n + 1] = IF up[n] \in Ids(spans) THEN ParentOf(spans, up[n]) ELSE NoParent

\* Ancestry is such a list.
LEMMA AncestryIs ==
  ASSUME NEW spans, AreRows(spans), NEW id \in Ids(spans)
  PROVE  IsLine(Ancestry(spans, id), id, spans)
<1> DEFINE X == Ids(spans)
           Up(p) == IF p \in X THEN ParentOf(spans, p) ELSE NoParent
           S == {ParentOf(spans, x) : x \in X} \cup {NoParent}
           L == Len(spans)
           F == [n \in 1..L |-> [p \in S |-> Up(p)]]
           Loop(v) == [n \in 1..L + 1 |->
                         IF n = 1 THEN ParentOf(spans, id)
                         ELSE LET last == v[n - 1] IN
                              IF last \in Ids(spans) THEN ParentOf(spans, last) ELSE NoParent]
           up == CHOOSE v : v = Loop(v)
<1>1. L \in Nat
  BY DEF AreRows
<1>2. F \in [1..L -> [S -> S]] /\ ParentOf(spans, id) \in S
  <2>1. \A p \in S : Up(p) \in S
    OBVIOUS
  <2>2. ParentOf(spans, id) \in S
    OBVIOUS
  <2> HIDE DEF S, Up, L
  <2> QED BY <2>1, <2>2
<1>3. PICK f \in [0..L -> S] : f[0] = ParentOf(spans, id) /\ \A n \in 1..L : f[n] = F[n][f[n - 1]]
  <2>1. PICK a \in S : a = ParentOf(spans, id)
    BY <1>2
  <2>2. PICK m \in Nat : m = L
    BY <1>1
  <2>3. F \in [1..m -> [S -> S]] /\ a \in S
    BY <1>2, <2>1, <2>2
  <2> HIDE DEF F, S, L
  <2>4. \E f \in [0..m -> S] : f[0] = a /\ \A n \in 1..m : f[n] = F[n][f[n - 1]]
    BY <2>3, Recursion, SMTT(30)
  <2> QED BY <2>1, <2>2, <2>4
<1>4. \A n \in 1..L : f[n] = Up(f[n - 1])
  <2> TAKE n \in 1..L
  <2>1. n - 1 \in 0..L
    BY <1>1
  <2>2. f[n - 1] \in S
    <3> HIDE DEF S, L
    <3> QED BY <2>1
  <2> HIDE DEF S, L, Up
  <2> QED BY <1>3, <2>2
<1> HIDE DEF F
<1> DEFINE g == [n \in 1..L + 1 |-> f[n - 1]]
<1>5. g = Loop(g)
  <2>1. ASSUME NEW n \in 1..L + 1 PROVE g[n] = Loop(g)[n]
    <3>1. CASE n = 1
      <4>1. g[n] = f[0] /\ Loop(g)[n] = ParentOf(spans, id)
        BY <3>1
      <4> QED BY <1>3, <4>1
    <3>2. CASE n # 1
      <4>1. n - 1 \in 1..L /\ n - 1 \in 1..L + 1
        BY <1>1, <3>2
      <4>2. g[n] = f[n - 1] /\ g[n - 1] = f[(n - 1) - 1]
        BY <4>1
      <4>3. f[n - 1] = Up(f[(n - 1) - 1])
        BY <1>4, <4>1
      <4>4. Loop(g)[n] = Up(g[n - 1])
        BY <3>2
      <4> QED BY <4>2, <4>3, <4>4
    <3> QED BY <3>1, <3>2
  <2> QED BY <2>1
<1>6. up = Loop(up)
  <2> HIDE DEF Loop, g
  <2> QED BY <1>5
<1>7. Ancestry(spans, id) = up
  BY DEF Ancestry
<1> HIDE DEF up
<1>8. up[1] = ParentOf(spans, id)
  <2>1. 1 \in 1..L + 1
    BY <1>1
  <2>2. Loop(up)[1] = ParentOf(spans, id)
    BY <2>1
  <2> QED BY <1>6, <2>2
<1>9. ASSUME NEW n \in 1..L
      PROVE  up[n + 1] = IF up[n] \in Ids(spans) THEN ParentOf(spans, up[n]) ELSE NoParent
  <2>1. n + 1 \in 1..L + 1 /\ n + 1 # 1 /\ (n + 1) - 1 = n
    BY <1>1
  <2>2. Loop(up)[n + 1] = IF up[n] \in Ids(spans) THEN ParentOf(spans, up[n]) ELSE NoParent
    BY <2>1
  <2> QED BY <1>6, <2>2
<1>10. DOMAIN up = 1..L + 1
  BY <1>6
<1> HIDE DEF Loop
<1> QED BY <1>7, <1>8, <1>9, <1>10 DEF IsLine

\* A group with their parents is caught: its members' ancestors never end, and
\* there are fewer spans than places in the list.
LEMMA CycleIsRejected ==
  ASSUME NEW spans, WellFormed(spans), NEW group, IsCycle(group, Ids(spans), Par(spans))
  PROVE  RejectsCycle(spans)
<1> DEFINE X == Ids(spans)
           L == Len(spans)
<1>1. \A x \in group : x \in X /\ ParentOf(spans, x) \in group
  BY DEF IsCycle, Par
<1>2. PICK id \in X : id \in group
  BY DEF IsCycle
<1>3. PICK up : up = Ancestry(spans, id) /\ IsLine(up, id, spans)
  BY AncestryIs DEF AreRows, WellFormed
<1>4. L \in Nat /\ IsFiniteSet(X) /\ Cardinality(X) <= L /\ Cardinality(X) \in Nat
  BY IdsAre DEF WellFormed
<1> DEFINE T == {n \in Nat : n <= L => up[n + 1] \in group}
<1>5. 0 \in T
  BY <1>1, <1>2, <1>3 DEF IsLine
<1>6. ASSUME NEW n \in T PROVE n + 1 \in T
  <2> SUFFICES ASSUME n + 1 <= L PROVE up[(n + 1) + 1] \in group
    OBVIOUS
  <2>1. n + 1 \in 1..L /\ n <= L
    BY <1>4
  <2>2. up[n + 1] \in group
    BY <2>1
  <2>3. up[(n + 1) + 1] = IF up[n + 1] \in X THEN ParentOf(spans, up[n + 1]) ELSE NoParent
    BY <1>3, <2>1 DEF IsLine
  <2> QED BY <1>1, <2>2, <2>3
<1>7. \A n \in 1..L + 1 : up[n] \in group
  <2> TAKE n \in 1..L + 1
  <2>1. T \subseteq Nat
    OBVIOUS
  <2> HIDE DEF T
  <2>2. Nat \subseteq T
    BY <1>5, <1>6, <2>1, NaturalInduction
  <2>3. n - 1 \in Nat /\ n - 1 <= L /\ (n - 1) + 1 = n
    BY <1>4
  <2>4. n - 1 \in T
    BY <2>2, <2>3
  <2> QED BY <2>3, <2>4 DEF T
<1> DEFINE D == 1..L + 1
           f == [n \in D |-> up[n]]
<1>8. f \in [D -> X]
  BY <1>1, <1>7
<1>9. IsFiniteSet(D) /\ Cardinality(D) = L + 1
  <2>1. L + 1 \in Nat
    BY <1>4
  <2> HIDE DEF L
  <2> QED BY <2>1, CountTo
<1>10. \E x, y \in D : x # y /\ f[x] = f[y]
  <2>1. Cardinality(X) < Cardinality(D)
    BY <1>4, <1>9
  <2> HIDE DEF D, f, X
  <2> QED BY <1>4, <1>8, <1>9, <2>1, FS_PigeonHole
<1>11. PICK n \in D, m \in D : m < n /\ up[m] = up[n]
  <2>1. PICK x \in D, y \in D : x # y /\ f[x] = f[y]
    BY <1>10
  <2>2. x < y \/ y < x
    BY <1>4, <2>1
  <2> QED BY <2>1, <2>2
<1>12. n \in DOMAIN up /\ m \in 1..n - 1 /\ up[n] \in X
  <2>1. n \in DOMAIN up
    BY <1>3 DEF IsLine
  <2>2. m \in 1..n - 1
    BY <1>4, <1>11
  <2> QED BY <1>1, <1>7, <2>1, <2>2
<1> QED BY <1>3, <1>11, <1>12 DEF RejectsCycle

\* From a place of the list on there are only known ids up to one that is known.
LEMMA KnownUpTo ==
  ASSUME NEW spans, AreRows(spans), NEW id, NEW up, IsLine(up, id, spans),
         NEW n \in 1..Len(spans) + 1, up[n] \in Ids(spans)
  PROVE  /\ \A k \in 1..n : up[k] \in Ids(spans)
         /\ \A k \in 1..n : k < n => k \in 1..Len(spans) /\ up[k + 1] = ParentOf(spans, up[k])
<1> DEFINE L == Len(spans)
           X == Ids(spans)
           T == {k \in Nat : k < n => up[n - k] \in X}
<1>1. L \in Nat /\ NoParent \notin X
  BY DEF AreRows, Ids
<1>2. 0 \in T
  <2>1. n - 0 = n
    BY <1>1
  <2> QED BY <2>1
<1>3. ASSUME NEW k \in T PROVE k + 1 \in T
  <2> SUFFICES ASSUME k + 1 < n, up[n - (k + 1)] \notin X PROVE FALSE
    OBVIOUS
  <2>1. k \in Nat /\ k < n /\ n - (k + 1) \in 1..L /\ (n - (k + 1)) + 1 = n - k
    BY <1>1
  <2>2. up[n - k] = NoParent
    BY <2>1 DEF IsLine
  <2> QED BY <1>1, <2>1, <2>2
<1>4. ASSUME NEW k \in 1..n PROVE up[k] \in X
  <2>1. T \subseteq Nat
    OBVIOUS
  <2> HIDE DEF T
  <2>2. Nat \subseteq T
    BY <1>2, <1>3, <2>1, NaturalInduction
  <2>3. n - k \in Nat /\ n - k < n /\ n - (n - k) = k
    BY <1>1
  <2>4. n - k \in T
    BY <2>2, <2>3
  <2> QED BY <2>3, <2>4 DEF T
<1>5. ASSUME NEW k \in 1..n, k < n PROVE k \in 1..L /\ up[k + 1] = ParentOf(spans, up[k])
  <2>1. k \in 1..L
    BY <1>1, <1>5
  <2> QED BY <1>4, <2>1 DEF IsLine
<1> QED BY <1>4, <1>5

\* What is caught is such a group: the ancestors between the two places.
LEMMA RejectedIsCycle ==
  ASSUME NEW spans, AreRows(spans), RejectsCycle(spans)
  PROVE  \E group : IsCycle(group, Ids(spans), Par(spans))
<1> DEFINE X == Ids(spans)
           L == Len(spans)
<1>1. PICK id \in X :
        \E n \in DOMAIN Ancestry(spans, id) :
          /\ Ancestry(spans, id)[n] \in X
          /\ \/ Ancestry(spans, id)[n] = id
             \/ \E m \in 1..n - 1 : Ancestry(spans, id)[m] = Ancestry(spans, id)[n]
  BY DEF RejectsCycle
<1>2. PICK up : up = Ancestry(spans, id) /\ IsLine(up, id, spans)
  BY AncestryIs
<1>3. PICK n \in 1..L + 1 : up[n] \in X /\ (up[n] = id \/ \E m \in 1..n - 1 : up[m] = up[n])
  BY <1>1, <1>2 DEF IsLine
<1>4. L \in Nat
  BY DEF AreRows
<1>5. /\ \A k \in 1..n : up[k] \in X
      /\ \A k \in 1..n : k < n => k \in 1..L /\ up[k + 1] = ParentOf(spans, up[k])
  BY <1>2, <1>3, KnownUpTo
<1>6. ASSUME NEW m \in 1..n, ParentOf(spans, up[n]) = up[m]
      PROVE  IsCycle({up[k] : k \in m..n}, X, Par(spans))
  <2> DEFINE group == {up[k] : k \in m..n}
  <2>1. \A k \in m..n : k \in 1..n
    BY <1>4
  <2>2. group \in SUBSET X /\ group # {}
    <3>1. n \in m..n
      BY <1>4
    <3> QED BY <1>5, <2>1, <3>1
  <2>3. ASSUME NEW k \in m..n PROVE Par(spans)[up[k]] \in group
    <3>1. Par(spans)[up[k]] = ParentOf(spans, up[k])
      BY <1>5, <2>1 DEF Par
    <3>2. CASE k = n
      <4>1. m \in m..n
        BY <1>4
      <4> QED BY <1>6, <3>1, <3>2, <4>1
    <3>3. CASE k # n
      <4>1. k < n /\ k + 1 \in m..n
        BY <1>4, <3>3
      <4>2. up[k + 1] = ParentOf(spans, up[k])
        BY <1>5, <2>1, <4>1
      <4> QED BY <3>1, <4>1, <4>2
    <3> QED BY <3>2, <3>3
  <2>4. \A x \in group : Par(spans)[x] \in group
    BY <2>3
  <2> HIDE DEF group
  <2>5. IsCycle(group, X, Par(spans))
    BY <2>2, <2>4 DEF IsCycle
  <2> QED BY <2>5 DEF group
<1>7. CASE up[n] = id
  <2>1. 1 \in 1..n /\ up[1] = ParentOf(spans, up[n])
    BY <1>2, <1>4, <1>7 DEF IsLine
  <2> QED BY <1>6, <2>1
<1>8. CASE \E m \in 1..n - 1 : up[m] = up[n]
  <2>1. PICK m \in 1..n - 1 : up[m] = up[n]
    BY <1>8
  <2>2. m \in 1..n /\ m < n /\ m + 1 \in 1..n
    BY <1>4
  <2>3. up[m + 1] = ParentOf(spans, up[n])
    BY <1>5, <2>1, <2>2
  <2> QED BY <1>6, <2>2, <2>3
<1> QED BY <1>3, <1>7, <1>8

Kids(spans) == [id \in Ids(spans) |-> ChildrenOf(spans, id)]
Starts(spans) == [id \in Ids(spans) |-> SpanOf(spans, id).start]

\* No span is stored twice.
StoredOnce(spans) == \A i, j \in 1..Len(spans) : spans[i].id = spans[j].id => i = j

\* ks lists the spans at the places I by their start.
IsByStart(ks, spans, I) ==
  /\ ks \in Seq(Ids(spans)) /\ Len(ks) = Cardinality(I) /\ Cardinality(I) \in Nat
  /\ \E p :
       /\ \A i \in 1..Len(ks) : p[i] \in I /\ ks[i] = spans[p[i]].id
       /\ \A k \in I : \E i \in 1..Len(ks) : p[i] = k
       /\ \A i, j \in 1..Len(ks) : i < j => p[i] # p[j] /\ spans[p[i]].start <= spans[p[j]].start

\* ByStart lists the spans at some places in the order they started.
LEMMA ByStartIs ==
  ASSUME NEW spans, WellFormed(spans), NEW I, I \subseteq 1..Len(spans)
  PROVE  IsByStart(ByStart(spans, I), spans, I)
<1> DEFINE s == [i \in DOMAIN spans |-> spans[i].id]
           key == [i \in I |-> SpanOf(spans, spans[i].id).start]
           ks == ByStart(spans, I)
           C == Cardinality(I)
           X == Ids(spans)
<1>1. /\ Len(spans) \in Nat /\ DOMAIN spans = 1..Len(spans)
      /\ \A i \in 1..Len(spans) : spans[i].start \in Int /\ spans[i].id \in X
                                  /\ SpanOf(spans, spans[i].id) = spans[i]
  BY IdsAre, SMTT(30) DEF WellFormed
<1>2. \A i \in I : key[i] = spans[i].start /\ key[i] \in Int
  BY <1>1
<1>3. \A i \in I : s[i] = spans[i].id /\ s[i] \in X
  BY <1>1
<1>4. ks = Sorted(s, I, key)
  BY DEF ByStart
<1> HIDE DEF key, s, ks, X
<1>5. PICK p : IsSorting(ks, s, I, key, p)
  BY <1>1, <1>2, <1>4, Sorting
<1>6. /\ C \in Nat /\ ks = [n \in 1..C |-> s[p[n]]]
      /\ \A n \in 1..C : p[n] \in I
      /\ \A i \in I : \E n \in 1..C : p[n] = i
      /\ \A n, m \in 1..C : n < m => p[n] # p[m] /\ key[p[n]] <= key[p[m]]
  BY <1>5 DEF IsSorting
<1> HIDE DEF C
<1>7. ks \in Seq(X) /\ Len(ks) = C
  <2>1. \A n \in 1..C : s[p[n]] \in X
    BY <1>3, <1>6
  <2> QED BY <1>6, <2>1
<1>8. \A i \in 1..C : p[i] \in I /\ ks[i] = spans[p[i]].id
  BY <1>3, <1>6
<1>9. \A i, j \in 1..C : i < j => p[i] # p[j] /\ spans[p[i]].start <= spans[p[j]].start
  BY <1>2, <1>6, ZenonT(30)
<1>10. \E q : /\ \A i \in 1..Len(ks) : q[i] \in I /\ ks[i] = spans[q[i]].id
              /\ \A k \in I : \E i \in 1..Len(ks) : q[i] = k
              /\ \A i, j \in 1..Len(ks) : i < j => q[i] # q[j] /\ spans[q[i]].start <= spans[q[j]].start
  BY <1>6, <1>7, <1>8, <1>9, SMTT(30)
<1> QED BY <1>6, <1>7, <1>10 DEF IsByStart, ks, X, C

\* What a list of children, or of the roots, has.
LEMMA ListHas ==
  ASSUME NEW spans, WellFormed(spans), NEW I, I \subseteq 1..Len(spans), NEW ks,
         IsByStart(ks, spans, I)
  PROVE  /\ ks \in Seq(Ids(spans))
         /\ \A i \in 1..Len(ks) : \E k \in I : ks[i] = spans[k].id
         /\ \A k \in I : \E i \in 1..Len(ks) : ks[i] = spans[k].id
         /\ StoredOnce(spans) => \A i, j \in 1..Len(ks) :
              i < j => ks[i] # ks[j] /\ Starts(spans)[ks[i]] <= Starts(spans)[ks[j]]
<1>1. PICK p :
       /\ \A i \in 1..Len(ks) : p[i] \in I /\ ks[i] = spans[p[i]].id
       /\ \A k \in I : \E i \in 1..Len(ks) : p[i] = k
       /\ \A i, j \in 1..Len(ks) : i < j => p[i] # p[j] /\ spans[p[i]].start <= spans[p[j]].start
  BY DEF IsByStart
<1>2. ks \in Seq(Ids(spans))
  BY DEF IsByStart
<1>3. ASSUME StoredOnce(spans), NEW i \in 1..Len(ks), NEW j \in 1..Len(ks), i < j
      PROVE  ks[i] # ks[j] /\ Starts(spans)[ks[i]] <= Starts(spans)[ks[j]]
  <2>1. p[i] \in 1..Len(spans) /\ p[j] \in 1..Len(spans) /\ p[i] # p[j]
        /\ ks[i] = spans[p[i]].id /\ ks[j] = spans[p[j]].id
    BY <1>1, <1>3
  <2>2. ks[i] # ks[j]
    BY <1>3, <2>1 DEF StoredOnce
  <2>3. ASSUME NEW k \in 1..Len(spans) PROVE Starts(spans)[spans[k].id] = spans[k].start
    <3>1. spans[k].id \in Ids(spans) /\ SpanOf(spans, spans[k].id) = spans[k]
      BY IdsAre
    <3> QED BY <3>1 DEF Starts
  <2>4. Starts(spans)[ks[i]] = spans[p[i]].start /\ Starts(spans)[ks[j]] = spans[p[j]].start
    BY <2>1, <2>3
  <2>5. spans[p[i]].start <= spans[p[j]].start
    BY <1>1, <1>3
  <2> QED BY <2>2, <2>4, <2>5
<1>4. \A i \in 1..Len(ks) : \E k \in I : ks[i] = spans[k].id
  BY <1>1
<1>5. \A k \in I : \E i \in 1..Len(ks) : ks[i] = spans[k].id
  BY <1>1
<1> QED BY <1>2, <1>3, <1>4, <1>5

ChildPlaces(spans, id) == {i \in DOMAIN spans : spans[i].parent = id}
RootPlaces(spans) == {i \in DOMAIN spans : spans[i].parent \notin Ids(spans)}

\* The parent of a span is the one it names.
LEMMA ParentIs ==
  ASSUME NEW spans, WellFormed(spans), NEW k \in 1..Len(spans)
  PROVE  /\ spans[k].id \in Ids(spans) /\ SpanOf(spans, spans[k].id) = spans[k]
         /\ ParentOf(spans, spans[k].id) = spans[k].parent
         /\ Par(spans)[spans[k].id] = spans[k].parent
<1>1. spans[k].id \in Ids(spans) /\ SpanOf(spans, spans[k].id) = spans[k]
  BY IdsAre
<1> QED BY <1>1 DEF ParentOf, Par

\* ChildrenOf lists the spans whose parent the span is.
LEMMA ChildrenAre ==
  ASSUME NEW spans, WellFormed(spans), NEW x \in Ids(spans)
  PROVE  /\ ChildPlaces(spans, x) \subseteq 1..Len(spans)
         /\ Kids(spans)[x] = ChildrenOf(spans, x)
         /\ IsByStart(Kids(spans)[x], spans, ChildPlaces(spans, x))
         /\ \A i \in 1..Len(Kids(spans)[x]) : Par(spans)[Kids(spans)[x][i]] = x
         /\ StoredOnce(spans) => Siblings(Kids(spans)[x], Ids(spans), Par(spans), Starts(spans))
<1> DEFINE I == ChildPlaces(spans, x)
           ks == Kids(spans)[x]
<1>1. I \subseteq 1..Len(spans)
  BY DEF WellFormed, ChildPlaces
<1>2. ks = ChildrenOf(spans, x)
  BY DEF Kids
<1>3. ChildrenOf(spans, x) = ByStart(spans, I)
  BY DEF ChildrenOf, ChildPlaces
<1> HIDE DEF I, ks
<1>4. IsByStart(ks, spans, I)
  BY <1>1, <1>2, <1>3, ByStartIs
<1>5. /\ ks \in Seq(Ids(spans))
      /\ \A i \in 1..Len(ks) : \E k \in I : ks[i] = spans[k].id
      /\ \A k \in I : \E i \in 1..Len(ks) : ks[i] = spans[k].id
      /\ StoredOnce(spans) => \A i, j \in 1..Len(ks) :
           i < j => ks[i] # ks[j] /\ Starts(spans)[ks[i]] <= Starts(spans)[ks[j]]
  BY <1>1, <1>4, ListHas
<1>6. ASSUME NEW i \in 1..Len(ks) PROVE Par(spans)[ks[i]] = x
  <2>1. PICK k \in I : ks[i] = spans[k].id
    BY <1>5
  <2>2. k \in 1..Len(spans) /\ spans[k].parent = x
    BY <1>1, <2>1 DEF I, ChildPlaces
  <2> QED BY <2>1, <2>2, ParentIs
<1>7. StoredOnce(spans) => Siblings(ks, Ids(spans), Par(spans), Starts(spans))
  <2>1. \A i, j \in 1..Len(ks) : Alike(ks[i], ks[j], Ids(spans), Par(spans))
    BY <1>6 DEF Alike
  <2> QED BY <1>5, <2>1 DEF Siblings
<1> QED BY <1>1, <1>2, <1>4, <1>6, <1>7 DEF I, ks

\* RootsOf lists the spans whose parent is not there.
LEMMA RootsAre ==
  ASSUME NEW spans, WellFormed(spans)
  PROVE  /\ RootPlaces(spans) \subseteq 1..Len(spans)
         /\ IsByStart(RootsOf(spans), spans, RootPlaces(spans))
         /\ RootsOf(spans) \in Seq(Ids(spans))
         /\ \A i \in 1..Len(RootsOf(spans)) : Par(spans)[RootsOf(spans)[i]] \notin Ids(spans)
         /\ \A x \in Ids(spans) : Par(spans)[x] \notin Ids(spans) =>
              \E i \in 1..Len(RootsOf(spans)) : RootsOf(spans)[i] = x
         /\ StoredOnce(spans) => Siblings(RootsOf(spans), Ids(spans), Par(spans), Starts(spans))
<1> DEFINE I == RootPlaces(spans)
           ks == RootsOf(spans)
<1>1. I \subseteq 1..Len(spans)
  BY DEF WellFormed, RootPlaces
<1>2. ks = ByStart(spans, I)
  BY DEF RootsOf, RootPlaces
<1> HIDE DEF I, ks
<1>3. IsByStart(ks, spans, I)
  BY <1>1, <1>2, ByStartIs
<1>4. /\ ks \in Seq(Ids(spans))
      /\ \A i \in 1..Len(ks) : \E k \in I : ks[i] = spans[k].id
      /\ \A k \in I : \E i \in 1..Len(ks) : ks[i] = spans[k].id
      /\ StoredOnce(spans) => \A i, j \in 1..Len(ks) :
           i < j => ks[i] # ks[j] /\ Starts(spans)[ks[i]] <= Starts(spans)[ks[j]]
  BY <1>1, <1>3, ListHas
<1>5. ASSUME NEW i \in 1..Len(ks) PROVE Par(spans)[ks[i]] \notin Ids(spans)
  <2>1. PICK k \in I : ks[i] = spans[k].id
    BY <1>4
  <2>2. k \in 1..Len(spans) /\ spans[k].parent \notin Ids(spans)
    BY <1>1, <2>1 DEF I, RootPlaces
  <2> QED BY <2>1, <2>2, ParentIs
<1>6. ASSUME NEW x \in Ids(spans), Par(spans)[x] \notin Ids(spans)
      PROVE  \E i \in 1..Len(ks) : ks[i] = x
  <2>1. PICK k \in 1..Len(spans) : x = spans[k].id
    BY IdsAre
  <2>2. k \in I
    BY <1>6, <2>1, ParentIs DEF I, RootPlaces, WellFormed
  <2> QED BY <1>4, <2>1, <2>2
<1>7. StoredOnce(spans) => Siblings(ks, Ids(spans), Par(spans), Starts(spans))
  <2>1. \A i, j \in 1..Len(ks) : Alike(ks[i], ks[j], Ids(spans), Par(spans))
    BY <1>5 DEF Alike
  <2> QED BY <1>4, <2>1 DEF Siblings
<1> QED BY <1>1, <1>3, <1>4, <1>5, <1>6, <1>7 DEF I, ks

\* Spans without a cycle are a forest.
LEMMA SpansAreForest ==
  ASSUME NEW spans, WellFormed(spans), ~RejectsCycle(spans)
  PROVE  \E d : \E N \in Nat : Forest(Ids(spans), Par(spans), Kids(spans), d, N)
<1> DEFINE X == Ids(spans)
<1>1. IsFiniteSet(X) /\ Cardinality(X) \in Nat
  BY IdsAre
<1>2. \A group : ~IsCycle(group, X, Par(spans))
  BY CycleIsRejected
<1>3. PICK N \in Nat : N = Cardinality(X)
  BY <1>1
<1>4. PICK d : PartTree(X, X, Par(spans), d, N)
  <2> HIDE DEF X
  <2> QED BY <1>1, <1>2, <1>3, Depths
<1>5. ASSUME NEW x \in X PROVE d[x] \in 0..N /\ Kids(spans)[x] \in Seq(X)
  <2>1. d[x] \in 0..N
    BY <1>4 DEF PartTree
  <2> QED BY <2>1, ChildrenAre DEF IsByStart
<1>6. \A x \in X : \A i \in 1..Len(Kids(spans)[x]) : Par(spans)[Kids(spans)[x][i]] = x
  BY ChildrenAre
<1>7. ASSUME NEW y \in X, Par(spans)[y] \in X
      PROVE  /\ d[Par(spans)[y]] < d[y]
             /\ \E i \in 1..Len(Kids(spans)[Par(spans)[y]]) : Kids(spans)[Par(spans)[y]][i] = y
  <2>1. d[Par(spans)[y]] < d[y]
    BY <1>4, <1>7 DEF PartTree
  <2>2. PICK k \in 1..Len(spans) : y = spans[k].id
    BY IdsAre
  <2>3. PICK x \in X : x = Par(spans)[y]
    BY <1>7
  <2>4. k \in ChildPlaces(spans, x)
    BY <2>2, <2>3, ParentIs DEF ChildPlaces, WellFormed
  <2>5. /\ ChildPlaces(spans, x) \subseteq 1..Len(spans)
        /\ IsByStart(Kids(spans)[x], spans, ChildPlaces(spans, x))
    BY ChildrenAre
  <2>6. \E i \in 1..Len(Kids(spans)[x]) : Kids(spans)[x][i] = spans[k].id
    <3> HIDE DEF X
    <3> QED BY <2>4, <2>5, ListHas, SMTT(30)
  <2> QED BY <2>1, <2>2, <2>3, <2>6
<1>8. Forest(X, Par(spans), Kids(spans), d, N)
  BY <1>5, <1>6, <1>7 DEF Forest
<1> QED BY <1>8

\* The walks Nodes is made of.
LEMMA NodesAre ==
  ASSUME NEW spans, WellFormed(spans), NEW d, NEW N \in Nat,
         Forest(Ids(spans), Par(spans), Kids(spans), d, N)
  PROVE  \E w : /\ Walks(Ids(spans), Par(spans), Kids(spans), d, w)
                /\ w = OneUp(Ids(spans), Kids(spans), w)
                /\ Nodes(spans) = FlattenSeq(Mapped(RootsOf(spans), w))
<1> DEFINE X == Ids(spans)
           Loop(v) == [id \in X |-> <<id>> \o FlattenSeq([i \in DOMAIN ChildrenOf(spans, id) |->
                                                            v[ChildrenOf(spans, id)[i]]])]
           walk == CHOOSE v : v = Loop(v)
<1>1. Nodes(spans) = FlattenSeq(Mapped(RootsOf(spans), walk))
  BY DEF Nodes, Mapped
<1>2. ASSUME NEW v PROVE Loop(v) = OneUp(X, Kids(spans), v)
  <2>1. \A id \in X : Kids(spans)[id] = ChildrenOf(spans, id)
    BY DEF Kids
  <2> QED BY <2>1 DEF OneUp, Mapped
<1>3. PICK w \in [X -> Seq(X)] : w = OneUp(X, Kids(spans), w)
  BY WalkExists
<1>4. walk = OneUp(X, Kids(spans), walk)
  <2> HIDE DEF Loop, X
  <2> QED BY <1>2, <1>3
<1> HIDE DEF walk, Loop
<1> DEFINE S == {x \in X : walk[x] = w[x]}
<1>5. ASSUME NEW x \in X, \A i \in 1..Len(Kids(spans)[x]) : Kids(spans)[x][i] \in S
      PROVE  x \in S
  <2>1. PICK ks \in Seq(X) : ks = Kids(spans)[x]
    BY DEF Forest
  <2>2. DOMAIN ks = 1..Len(ks)
    OBVIOUS
  <2>3. Mapped(ks, walk) = Mapped(ks, w)
    BY <1>5, <2>1, <2>2 DEF Mapped
  <2>4. \A v : OneUp(X, Kids(spans), v)[x] = <<x>> \o FlattenSeq(Mapped(ks, v))
    BY <2>1 DEF OneUp
  <2>5. walk[x] = w[x]
    <3> HIDE DEF S, X
    <3> QED BY <1>3, <1>4, <2>3, <2>4
  <2> QED BY <2>5
<1>6. X \subseteq S
  <2> DEFINE par == Par(spans)
             kids == Kids(spans)
  <2>1. Forest(X, par, kids, d, N)
    OBVIOUS
  <2>2. Rises(S, X, kids)
    BY <1>5 DEF Rises
  <2> HIDE DEF S, X, par, kids
  <2> QED BY <2>1, <2>2, BottomUp
<1>7. walk = w
  <2>1. walk = [x \in X |-> walk[x]]
    BY <1>4 DEF OneUp
  <2>2. \A x \in X : walk[x] = w[x]
    BY <1>6
  <2> HIDE DEF S, X
  <2> QED BY <1>3, <2>1, <2>2
<1>8. \A x \in X : IsWalk(w[x], x, X, Par(spans), d)
  <2> HIDE DEF S
  <2> QED BY <1>3, AllWalks
<1>9. Walks(X, Par(spans), Kids(spans), d, w)
  BY <1>3, <1>8 DEF Walks
<1> QED BY <1>1, <1>3, <1>7, <1>9

\* The nodes are the spans; each comes after its parent.
LEMMA NodesAreSpans ==
  ASSUME NEW spans, WellFormed(spans), ~RejectsCycle(spans)
  PROVE  /\ Nodes(spans) \in Seq(Ids(spans))
         /\ \A x \in Ids(spans) : Has(Nodes(spans), x)
         /\ \A i \in 1..Len(Nodes(spans)) : Par(spans)[Nodes(spans)[i]] \in Ids(spans) =>
              \E j \in 1..Len(Nodes(spans)) : j < i /\ Nodes(spans)[j] = Par(spans)[Nodes(spans)[i]]
<1> DEFINE X == Ids(spans)
           ks == RootsOf(spans)
           s == Nodes(spans)
           par == Par(spans)
<1>1. PICK d : \E N \in Nat : Forest(X, par, Kids(spans), d, N)
  BY SpansAreForest
<1>2. PICK N \in Nat : Forest(X, par, Kids(spans), d, N)
  BY <1>1
<1>3. PICK w : /\ Walks(X, par, Kids(spans), d, w)
               /\ w = OneUp(X, Kids(spans), w)
               /\ s = FlattenSeq(Mapped(ks, w))
  BY <1>2, NodesAre
<1>4. /\ ks \in Seq(X)
      /\ \A i \in 1..Len(ks) : par[ks[i]] \notin X
      /\ \A x \in X : par[x] \notin X => \E i \in 1..Len(ks) : ks[i] = x
  BY RootsAre
<1> HIDE DEF X, ks, s, par
<1>5. IsGrove(s, ks, X, par, w)
  <2>1. w \in [X -> Seq(X)] /\ \A i \in 1..Len(ks) : IsWalk(w[ks[i]], ks[i], X, par, d)
    BY <1>3, <1>4 DEF Walks
  <2> QED BY <1>3, <1>4, <2>1, Grove
<1> DEFINE S == {x \in X : Has(s, x)}
<1>6. ASSUME NEW x \in X, par[x] \in X => par[x] \in S PROVE x \in S
  <2>1. CASE par[x] \in X
    BY <1>5, <1>6, <2>1 DEF IsGrove, ClosedDown
  <2>2. CASE par[x] \notin X
    BY <1>4, <1>5, <2>2 DEF IsGrove
  <2> QED BY <2>1, <2>2
<1>7. X \subseteq S
  <2> HIDE DEF S
  <2>1. Falls(S, X, par)
    BY <1>6 DEF Falls
  <2> QED BY <1>2, <2>1, TopDown
<1>8. ASSUME NEW i \in 1..Len(s), par[s[i]] \in X
      PROVE  \E j \in 1..Len(s) : j < i /\ s[j] = par[s[i]]
  <2>1. Rooted(s, par, {ks[k] : k \in 1..Len(ks)})
    BY <1>5 DEF IsGrove
  <2>2. s[i] \notin {ks[k] : k \in 1..Len(ks)}
    BY <1>4, <1>8
  <2> QED BY <2>1, <2>2 DEF Rooted
<1>9. s \in Seq(X)
  BY <1>5 DEF IsGrove
<1> QED BY <1>7, <1>8, <1>9 DEF X, s, par

\* If no span is stored twice, none is shown twice, and siblings are shown in
\* the order they started.
LEMMA NodesOnce ==
  ASSUME NEW spans, WellFormed(spans), ~RejectsCycle(spans), StoredOnce(spans)
  PROVE  /\ Once(Nodes(spans)) /\ InOrder(Nodes(spans), Par(spans), Starts(spans))
         /\ Len(Nodes(spans)) = Len(spans)
<1> DEFINE X == Ids(spans)
           ks == RootsOf(spans)
           s == Nodes(spans)
           par == Par(spans)
           st == Starts(spans)
           kids == Kids(spans)
<1>1. PICK d : \E N \in Nat : Forest(X, par, kids, d, N)
  BY SpansAreForest
<1>2. PICK N \in Nat : Forest(X, par, kids, d, N)
  BY <1>1
<1>3. PICK w : /\ Walks(X, par, kids, d, w)
               /\ w = OneUp(X, kids, w)
               /\ s = FlattenSeq(Mapped(ks, w))
  BY <1>2, NodesAre
<1>4. ks \in Seq(X) /\ Siblings(ks, X, par, st)
  BY RootsAre
<1>5. \A x \in X : Siblings(kids[x], X, par, st)
  BY ChildrenAre
<1>6. s \in Seq(X) /\ \A x \in X : Has(s, x)
  BY NodesAreSpans
<1>7. /\ X = {spans[i].id : i \in 1..Len(spans)} /\ IsFiniteSet(X)
      /\ Len(spans) \in Nat
  BY IdsAre DEF WellFormed
<1> HIDE DEF X, ks, s, par, st, kids
<1>8. \A x \in X : Once(w[x]) /\ InOrder(w[x], par, st)
  BY <1>2, <1>3, <1>5, WalksOnce
<1>9. Once(s) /\ InOrder(s, par, st)
  <2>1. \A i \in 1..Len(ks) : Once(w[ks[i]]) /\ InOrder(w[ks[i]], par, st)
    BY <1>4, <1>8
  <2> QED BY <1>2, <1>3, <1>4, <2>1, GroveOnce
<1>10. Len(s) \in Nat /\ Cardinality(X) = Len(s)
  <2> DEFINE D == 1..Len(s)
             f == [i \in D |-> s[i]]
  <2>1. Len(s) \in Nat
    BY <1>6
  <2>2. f \in Injection(D, X) /\ f \in Surjection(D, X)
    <3>1. f \in [D -> X]
      BY <1>6
    <3>2. \A a, b \in D : f[a] = f[b] => a = b
      BY <1>9 DEF Once
    <3>3. \A x \in X : \E i \in D : f[i] = x
      BY <1>6 DEF Has
    <3> HIDE DEF D, f
    <3> QED BY <3>1, <3>2, <3>3 DEF Injection, Surjection, IsInjective
  <2>3. Cardinality(D) = Len(s)
    <3> HIDE DEF s
    <3> QED BY <2>1, CountTo
  <2> HIDE DEF D, f
  <2> QED BY <1>7, <2>1, <2>2, <2>3, FS_Injection
<1>11. Cardinality(X) = Len(spans)
  <2> DEFINE D == 1..Len(spans)
             f == [i \in D |-> spans[i].id]
  <2>1. f \in Injection(D, X) /\ f \in Surjection(D, X)
    <3>1. f \in [D -> X] /\ \A x \in X : \E i \in D : f[i] = x
      BY <1>7
    <3>2. \A a, b \in D : f[a] = f[b] => a = b
      BY DEF StoredOnce
    <3> HIDE DEF D, f
    <3> QED BY <3>1, <3>2 DEF Injection, Surjection, IsInjective
  <2>2. Cardinality(D) = Len(spans)
    BY <1>7, CountTo
  <2> HIDE DEF D, f
  <2> QED BY <1>7, <2>1, <2>2, FS_Injection
<1> QED BY <1>9, <1>10, <1>11 DEF s, par, st

\* One element more, at place i.
LEMMA Insertion ==
  ASSUME NEW T, NEW q \in Seq(T), NEW s \in T, NEW i \in 1..Len(q) + 1
  PROVE  LET r == InsertAt(q, i, s) IN
         /\ r \in Seq(T) /\ Len(r) = Len(q) + 1
         /\ \A k \in 1..Len(r) : r[k] = IF k < i THEN q[k] ELSE IF k = i THEN s ELSE q[k - 1]
<1> DEFINE a == SubSeq(q, 1, i - 1)
           b == SubSeq(q, i, Len(q))
           r == InsertAt(q, i, s)
<1>1. Len(q) \in Nat /\ i \in Nat
  OBVIOUS
<1>2. a \in Seq(T) /\ Len(a) = i - 1 /\ \A k \in 1..i - 1 : a[k] = q[k]
  OBVIOUS
<1>3. b \in Seq(T) /\ Len(b) = (Len(q) - i) + 1 /\ \A k \in 1..(Len(q) - i) + 1 : b[k] = q[(i + k) - 1]
  OBVIOUS
<1>4. r = a \o <<s>> \o b
  BY DEF InsertAt
<1> HIDE DEF a, b, r
<1>5. PICK h \in Seq(T) : h = <<s>>
  <2>1. <<s>> \in Seq(T)
    OBVIOUS
  <2> QED BY <2>1
<1>6. Len(h) = 1 /\ h[1] = s
  BY <1>5
<1>7. PICK c \in Seq(T) : c = a \o h /\ Len(c) = i /\ \A k \in 1..i : c[k] = IF k < i THEN q[k] ELSE s
  <2>1. a \o h \in Seq(T) /\ Len(a \o h) = Len(a) + Len(h)
    BY <1>2, <1>5
  <2>2. \A k \in 1..Len(a) + Len(h) : (a \o h)[k] = IF k <= Len(a) THEN a[k] ELSE h[k - Len(a)]
    BY <1>2, <1>5
  <2>3. Len(a) + Len(h) = i /\ Len(a) = i - 1
    BY <1>1, <1>2, <1>6
  <2>4. \A k \in 1..i : (a \o h)[k] = IF k < i THEN q[k] ELSE s
    <3> SUFFICES ASSUME NEW k \in 1..i PROVE (a \o h)[k] = IF k < i THEN q[k] ELSE s
      OBVIOUS
    <3>1. CASE k < i
      BY <1>1, <1>2, <2>2, <2>3, <3>1
    <3>2. CASE k = i
      <4>1. k - Len(a) = 1 /\ ~(k <= Len(a)) /\ ~(k < i)
        BY <1>1, <2>3, <3>2
      <4>2. (a \o h)[k] = h[k - Len(a)]
        BY <2>2, <2>3, <4>1
      <4> QED BY <1>6, <4>1, <4>2
    <3>3. k < i \/ k = i
      BY <1>1
    <3> QED BY <3>1, <3>2, <3>3
  <2> QED BY <2>1, <2>3, <2>4
<1>8. r = c \o b
  BY <1>4, <1>5, <1>7
<1>9. r \in Seq(T) /\ Len(r) = Len(q) + 1
  BY <1>1, <1>3, <1>7, <1>8
<1>10. ASSUME NEW k \in 1..Len(r)
       PROVE  r[k] = IF k < i THEN q[k] ELSE IF k = i THEN s ELSE q[k - 1]
  <2>1. CASE k <= i
    BY <1>1, <1>3, <1>7, <1>8, <1>9, <2>1
  <2>2. CASE k > i
    <3>1. k - i \in 1..(Len(q) - i) + 1 /\ (i + (k - i)) - 1 = k - 1 /\ ~(k < i) /\ k # i
      BY <1>1, <1>9, <2>2
    <3>2. r[k] = b[k - i]
      BY <1>1, <1>3, <1>7, <1>8, <1>9, <2>2, SMTT(30)
    <3> QED BY <1>3, <3>1, <3>2
  <2> QED BY <1>1, <1>9, <2>1, <2>2
<1> QED BY <1>9, <1>10 DEF r

-----------------------------------------------------------------------------
(***************************************************************************)
(* What is stored, and the first theorem about it.                         *)
(***************************************************************************)

\* What is stored are spans of the query's trace, and, as long as no insert was
\* repeated, different ones.
SpansInv ==
  /\ trace \in Traces
  /\ stored \in Seq(trace)
  /\ twice \in Nat
  /\ twice = 0 => \A i, j \in 1..Len(stored) : stored[i] = stored[j] => i = j

LEMMA StoreInit == DebugInit => SpansInv
<1> SUFFICES ASSUME DebugInit PROVE SpansInv
  OBVIOUS
<1>1. stored = <<>> /\ twice = 0 /\ trace \in Traces
  BY DEF DebugInit
<1>2. stored \in Seq(trace) /\ 1..Len(stored) = {}
  BY <1>1
<1> QED BY <1>1, <1>2 DEF SpansInv

LEMMA StoreNext == SpansInv /\ [DebugNext]_debugVars => SpansInv'
<1> SUFFICES ASSUME SpansInv, [DebugNext]_debugVars PROVE SpansInv'
  OBVIOUS
<1> USE DEF SpansInv
<1>1. ASSUME NEW s \in trace, stored' \in Inserted(s)
      PROVE  /\ stored' \in Seq(trace)
             /\ \E i \in 1..Len(stored) + 1 :
                  /\ Len(stored') = Len(stored) + 1
                  /\ \A k \in 1..Len(stored') :
                       stored'[k] = IF k < i THEN stored[k] ELSE IF k = i THEN s ELSE stored[k - 1]
  <2>1. PICK i \in 1..Len(stored) + 1 : stored' = InsertAt(stored, i, s)
    BY <1>1 DEF Inserted
  <2>2. PICK r : r = InsertAt(stored, i, s)
    OBVIOUS
  <2>3. /\ r \in Seq(trace) /\ Len(r) = Len(stored) + 1
        /\ \A k \in 1..Len(r) : r[k] = IF k < i THEN stored[k] ELSE IF k = i THEN s ELSE stored[k - 1]
    BY <2>2, Insertion
  <2> QED BY <2>1, <2>2, <2>3
<1>2. ASSUME NEW s \in trace, Arrive(s) PROVE SpansInv'
  <2>1. s \notin ToSet(stored) /\ stored' \in Inserted(s) /\ trace' = trace /\ twice' = twice
    BY <1>2 DEF Arrive
  <2>2. stored' \in Seq(trace)
    BY <1>1, <2>1
  <2>3. PICK i \in 1..Len(stored) + 1 :
          /\ Len(stored') = Len(stored) + 1
          /\ \A k \in 1..Len(stored') :
               stored'[k] = IF k < i THEN stored[k] ELSE IF k = i THEN s ELSE stored[k - 1]
    BY <1>1, <2>1
  <2>4. Len(stored) \in Nat /\ \A k \in 1..Len(stored) : stored[k] # s
    BY <2>1 DEF ToSet
  <2>5. ASSUME twice = 0, NEW k \in 1..Len(stored'), NEW l \in 1..Len(stored'), stored'[k] = stored'[l]
        PROVE  k = l
    <3>1. \A m \in 1..Len(stored') : m < i => m \in 1..Len(stored) /\ stored'[m] = stored[m]
      BY <2>3, <2>4
    <3>2. \A m \in 1..Len(stored') : m > i => m - 1 \in 1..Len(stored) /\ stored'[m] = stored[m - 1]
      BY <2>3, <2>4
    <3>3. \A m \in 1..Len(stored') : m = i => stored'[m] = s
      BY <2>3, <2>4
    <3>4. \A m, n \in 1..Len(stored) : stored[m] = stored[n] => m = n
      BY <2>5
    <3>5. k \in Int /\ l \in Int /\ i \in Int
      BY <2>3, <2>4
    <3>6. CASE k = i \/ l = i
      <4>1. ASSUME NEW m \in 1..Len(stored'), m # i PROVE stored'[m] # s
        <5>1. CASE m < i
          BY <2>4, <3>1, <5>1
        <5>2. CASE m > i
          BY <2>4, <3>2, <5>2
        <5> QED BY <3>5, <4>1, <5>1, <5>2
      <4> QED BY <2>5, <3>3, <3>6, <4>1
    <3>7. CASE k < i /\ l < i
      BY <2>5, <3>1, <3>4, <3>7
    <3>8. CASE k > i /\ l > i
      <4>1. k - 1 = l - 1
        BY <2>5, <3>2, <3>4, <3>8
      <4> QED BY <3>5, <4>1
    <3>9. CASE (k < i /\ l > i) \/ (k > i /\ l < i)
      <4>1. ASSUME NEW a \in 1..Len(stored'), NEW b \in 1..Len(stored'), a < i, b > i, stored'[a] = stored'[b]
            PROVE  FALSE
        <5>1. a = b - 1
          BY <3>1, <3>2, <3>4, <4>1
        <5>2. a \in Int /\ b \in Int
          OBVIOUS
        <5> QED BY <3>5, <4>1, <5>1, <5>2
      <4> QED BY <2>5, <3>9, <4>1
    <3> QED BY <3>5, <3>6, <3>7, <3>8, <3>9
  <2> QED BY <2>1, <2>2, <2>5
<1>3. ASSUME NEW s \in trace, ArriveAgain(s) PROVE SpansInv'
  <2>1. stored' \in Inserted(s) /\ trace' = trace /\ twice' = twice + 1
    BY <1>3 DEF ArriveAgain
  <2>2. stored' \in Seq(trace)
    BY <1>1, <2>1
  <2>3. twice' \in Nat /\ twice' # 0
    BY <2>1
  <2> QED BY <2>1, <2>2, <2>3
<1>4. CASE EventArrives
  BY <1>4 DEF EventArrives
<1>5. CASE UNCHANGED debugVars
  BY <1>5 DEF debugVars
<1> QED BY <1>2, <1>3, <1>4, <1>5 DEF DebugNext

\* It holds throughout.
LEMMA StoreInvAlways == DebugSpec => []SpansInv
<1> QED BY StoreInit, StoreNext, PTL DEF DebugSpec

\* So the lemmas above are about what is stored, where copies agree.
LEMMA StoredIsWellFormed ==
  ASSUME SpansInv, CopiesAgree
  PROVE  WellFormed(stored) /\ (Single => StoredOnce(stored))
<1>1. \A s \in trace : s.id # NoParent /\ s.start \in Int /\ s.duration \in Nat
  BY TracesAssumption DEF TracesAssumption, SpansInv
<1>2. \A i, j \in 1..Len(stored) : stored[i].id = stored[j].id => stored[i] = stored[j]
  BY DEF CopiesAgree, SpansInv
<1>3. Len(stored) \in Nat /\ DOMAIN stored = 1..Len(stored) /\ \A i \in 1..Len(stored) : stored[i] \in trace
  BY DEF SpansInv
<1>4. WellFormed(stored)
  BY <1>1, <1>2, <1>3 DEF WellFormed
<1>5. Single => StoredOnce(stored)
  BY <1>2, <1>3 DEF Single, StoredOnce, SpansInv
<1> QED BY <1>4, <1>5

\* What is shown is something, and has no cycle.
LEMMA ShownIs == Shown => stored # <<>> /\ ~RejectsCycle(stored) /\ ~HasCycle(stored)
<1> SUFFICES ASSUME Shown PROVE stored # <<>> /\ ~RejectsCycle(stored) /\ ~HasCycle(stored)
  OBVIOUS
<1>1. CASE stored = <<>>
  <2>1. GetTrace.status = 404
    BY <1>1 DEF GetTrace, Status
  <2> QED BY <2>1 DEF Shown
<1>2. CASE stored # <<>> /\ RejectsCycle(stored)
  <2>1. GetTrace.status = 422
    BY <1>2 DEF GetTrace, Status
  <2> QED BY <2>1 DEF Shown
<1>3. CASE stored # <<>> /\ ~RejectsCycle(stored) /\ HasCycle(stored)
  <2>1. GetTrace.status = 500
    BY <1>3 DEF GetTrace, Status
  <2> QED BY <2>1 DEF Shown
<1> QED BY <1>1, <1>2, <1>3

\* Where the last row of every span in a group names a parent in the group,
\* the rows have a cycle; where copies agree, a cycle is such a group.
LEMMA CyclesAre ==
  ASSUME SpansInv
  PROVE  CyclesAreFound
<1> DEFINE X == Ids(stored)
           Rows == 1..Len(stored)
<1>1. DOMAIN stored = Rows /\ Len(stored) \in Nat /\ X = {stored[i].id : i \in Rows}
  BY DEF SpansInv, Ids
<1>2. \A group : group \in (SUBSET X) \ {{}} <=> group \subseteq X /\ group # {}
  OBVIOUS
<1>3. AreRows(stored)
  <2>1. \A s \in trace : s.id # NoParent
    BY TracesAssumption DEF TracesAssumption, SpansInv
  <2> QED BY <1>1, <2>1 DEF AreRows, SpansInv
<1>4. ASSUME RejectsCycle(stored) PROVE HasCycle(stored)
  <2>1. PICK group : IsCycle(group, X, Par(stored))
    BY <1>4, <1>3, RejectedIsCycle
  <2>2. ASSUME NEW x \in group
        PROVE  \E i \in DOMAIN stored : stored[i].id = x /\ stored[i].parent \in group
    <3>1. x \in X /\ Par(stored)[x] = ParentOf(stored, x) /\ ParentOf(stored, x) \in group
      BY <2>1, <2>2 DEF IsCycle, Par
    <3>2. PICK i \in Rows : stored[i].id = x /\ SpanOf(stored, x) = stored[i]
      BY <1>3, <3>1, LastRow
    <3> QED BY <1>1, <3>1, <3>2 DEF ParentOf
  <2> QED BY <1>2, <2>1, <2>2 DEF HasCycle, IsCycle
<1>5. ASSUME CopiesAgree, HasCycle(stored) PROVE RejectsCycle(stored)
  <2>1. WellFormed(stored)
    BY <1>5, StoredIsWellFormed
  <2>2. PICK group \in (SUBSET X) \ {{}} :
          \A x \in group : \E i \in DOMAIN stored : stored[i].id = x /\ stored[i].parent \in group
    BY <1>5 DEF HasCycle
  <2>3. ASSUME NEW x \in group PROVE Par(stored)[x] \in group
    <3>1. PICK i \in Rows : stored[i].id = x /\ stored[i].parent \in group
      BY <1>1, <2>2
    <3>2. SpanOf(stored, x) = stored[i]
      BY <2>1, <3>1, IdsAre
    <3>3. Par(stored)[x] = ParentOf(stored, x)
      BY <2>2 DEF Par
    <3> QED BY <3>1, <3>2, <3>3 DEF ParentOf
  <2>4. IsCycle(group, X, Par(stored))
    BY <2>2, <2>3 DEF IsCycle
  <2> QED BY <2>1, <2>4, CycleIsRejected
<1> QED BY <1>4, <1>5 DEF CyclesAreFound

\* What is refused has a cycle; and of spans whose copies agree every cycle is
\* refused and all else is shown as it is: every span, once if it is stored once,
\* below its parent, siblings in the order of their start, for every trace and in
\* whatever order its spans arrive.  (build_trace, _reject_cycles)
THEOREM TreesAreFaithful == DebugSpec => []TreeIsFaithful
<1>1. ASSUME SpansInv PROVE TreeIsFaithful
  <2> DEFINE X == Ids(stored)
             nodes == Nodes(stored)
  <2>2. CyclesAreFound
    BY <1>1, CyclesAre
  <2>3. ASSUME Shown, CopiesAgree
        PROVE  /\ ToSet(nodes) = X
               /\ Single => Len(nodes) = Len(stored)
               /\ \A i \in DOMAIN nodes :
                    /\ ParentOf(stored, nodes[i]) \in X =>
                          \E j \in 1..i - 1 : nodes[j] = ParentOf(stored, nodes[i])
                    /\ Single => \A j \in 1..i - 1 :
                          ParentOf(stored, nodes[j]) = ParentOf(stored, nodes[i]) =>
                             SpanOf(stored, nodes[j]).start =< SpanOf(stored, nodes[i]).start
    <3>1. ~RejectsCycle(stored) /\ WellFormed(stored) /\ (Single => StoredOnce(stored))
      BY <1>1, <2>3, ShownIs, StoredIsWellFormed
    <3>2. /\ nodes \in Seq(X) /\ \A x \in X : Has(nodes, x)
          /\ \A i \in 1..Len(nodes) : Par(stored)[nodes[i]] \in X =>
               \E j \in 1..Len(nodes) : j < i /\ nodes[j] = Par(stored)[nodes[i]]
      BY <3>1, NodesAreSpans
    <3>3. Single => /\ InOrder(nodes, Par(stored), Starts(stored))
                    /\ Len(nodes) = Len(stored)
      BY <3>1, NodesOnce
    <3> HIDE DEF nodes, X
    <3>4. DOMAIN nodes = 1..Len(nodes) /\ Len(nodes) \in Nat /\ \A i \in 1..Len(nodes) : nodes[i] \in X
      BY <3>2
    <3>5. \A i \in 1..Len(nodes) : /\ Par(stored)[nodes[i]] = ParentOf(stored, nodes[i])
                                   /\ Starts(stored)[nodes[i]] = SpanOf(stored, nodes[i]).start
      BY <3>4 DEF Par, Starts, X
    <3>6. ToSet(nodes) = X
      BY <3>2, <3>4 DEF ToSet, Has
    <3>7. ASSUME NEW i \in DOMAIN nodes, ParentOf(stored, nodes[i]) \in X
          PROVE  \E j \in 1..i - 1 : nodes[j] = ParentOf(stored, nodes[i])
      <4>1. PICK j \in 1..Len(nodes) : j < i /\ nodes[j] = Par(stored)[nodes[i]]
        BY <3>2, <3>4, <3>5, <3>7
      <4>2. j \in 1..i - 1
        BY <3>4, <4>1
      <4> QED BY <3>4, <3>5, <4>1, <4>2
    <3>8. ASSUME NEW i \in DOMAIN nodes, Single, NEW j \in 1..i - 1,
                 ParentOf(stored, nodes[j]) = ParentOf(stored, nodes[i])
          PROVE  SpanOf(stored, nodes[j]).start =< SpanOf(stored, nodes[i]).start
      <4>1. i \in 1..Len(nodes) /\ j \in 1..Len(nodes) /\ j < i
        BY <3>4
      <4> QED BY <3>3, <3>5, <3>8, <4>1 DEF InOrder
    <3> QED BY <3>3, <3>6, <3>7, <3>8
  <2>4. EverySpanIsShown
    BY <2>3 DEF EverySpanIsShown
  <2> QED BY <2>2, <2>4 DEF TreeIsFaithful
<1> QED BY <1>1, StoreInvAlways, PTL

-----------------------------------------------------------------------------
(***************************************************************************)
(* Sums.                                                                   *)
(***************************************************************************)

\* The summand SumFunction takes next.
NextOf(s) == CHOOSE x \in s : TRUE

\* Taking elements out of a finite set, one by one, leads to the empty set.
LEMMA FiniteInduction ==
  ASSUME NEW D, IsFiniteSet(D), NEW T, {} \in T,
         \A s \in SUBSET D : s # {} /\ s \ {NextOf(s)} \in T => s \in T
  PROVE  SUBSET D \subseteq T
<1> DEFINE U == {n \in Nat : \A s \in SUBSET D : Cardinality(s) = n => s \in T}
<1>1. \A s \in SUBSET D : IsFiniteSet(s) /\ Cardinality(s) \in Nat
  BY FS_Subset, FS_CardinalityType
<1>2. 0 \in U
  BY <1>1, FS_EmptySet
<1>3. ASSUME NEW n \in U PROVE n + 1 \in U
  <2> SUFFICES ASSUME NEW s \in SUBSET D, Cardinality(s) = n + 1 PROVE s \in T
    OBVIOUS
  <2>1. s # {}
    BY FS_EmptySet
  <2>2. NextOf(s) \in s
    BY <2>1 DEF NextOf
  <2>3. Cardinality(s \ {NextOf(s)}) = n
    <3>1. IsFiniteSet(s) /\ n \in Nat
      BY <1>1
    <3>2. Cardinality(s \ {NextOf(s)}) = Cardinality(s) - 1
      <4> HIDE DEF U
      <4> QED BY <2>2, <3>1, FS_RemoveElement
    <3> QED BY <3>1, <3>2
  <2>4. s \ {NextOf(s)} \in T
    BY <2>3
  <2> QED BY <2>1, <2>4
<1>4. U \subseteq Nat
  OBVIOUS
<1>5. Nat \subseteq U
  <2> HIDE DEF U
  <2> QED BY <1>2, <1>3, <1>4, NaturalInduction
<1> QED BY <1>1, <1>5

\* g gives the sum of f over every subset of its domain.
IsSum(f, D, g) ==
  /\ g \in [SUBSET D -> Int]
  /\ g[{}] = 0
  /\ \A s \in SUBSET D : s # {} => g[s] = f[NextOf(s)] + g[s \ {NextOf(s)}]

\* The recursion of SumFunction defines such sums.
LEMMA SumExists ==
  ASSUME NEW D, IsFiniteSet(D), NEW f \in [D -> Int]
  PROVE  \E g : IsSum(f, D, g) /\ SumFunction(f) = g[D]
<1> DEFINE Term(s, g) == IF s = {} THEN 0 ELSE f[NextOf(s)] + g[s \ {NextOf(s)}]
           UpTo(n, g) == \A s \in SUBSET D : Cardinality(s) <= n => g[s] = Term(s, g)
           U == {n \in Nat : \E g \in [SUBSET D -> Int] : UpTo(n, g)}
           Loop(g) == [s \in SUBSET D |-> Term(s, g)]
<1>1. \A s \in SUBSET D : IsFiniteSet(s) /\ Cardinality(s) \in Nat
  BY FS_Subset, FS_CardinalityType
<1>2. ASSUME NEW s \in SUBSET D, s # {}
      PROVE  /\ NextOf(s) \in D /\ s \ {NextOf(s)} \in SUBSET D
             /\ Cardinality(s \ {NextOf(s)}) = Cardinality(s) - 1
  <2>1. NextOf(s) \in s
    BY <1>2 DEF NextOf
  <2> QED BY <1>1, <2>1, FS_RemoveElement
<1>3. ASSUME NEW s \in SUBSET D, NEW g \in [SUBSET D -> Int] PROVE Term(s, g) \in Int
  BY <1>2, SMTT(30)
<1>4. 0 \in U
  <2> DEFINE g == [s \in SUBSET D |-> 0]
  <2>1. g \in [SUBSET D -> Int]
    OBVIOUS
  <2>2. UpTo(0, g)
    <3>1. \A s \in SUBSET D : Cardinality(s) <= 0 => s = {}
      BY <1>1, FS_EmptySet
    <3> QED BY <3>1
  <2> QED BY <2>1, <2>2
<1>5. ASSUME NEW n \in U PROVE n + 1 \in U
  <2>1. PICK g \in [SUBSET D -> Int] : UpTo(n, g)
    OBVIOUS
  <2> DEFINE h == [s \in SUBSET D |-> IF Cardinality(s) <= n THEN g[s] ELSE Term(s, g)]
  <2>2. h \in [SUBSET D -> Int]
    BY <1>3
  <2>3. ASSUME NEW s \in SUBSET D, Cardinality(s) <= n + 1 PROVE h[s] = Term(s, h)
    <3>1. h[s] = Term(s, g)
      BY <2>1
    <3>2. ASSUME s # {} PROVE h[s \ {NextOf(s)}] = g[s \ {NextOf(s)}]
      <4>1. /\ s \ {NextOf(s)} \in SUBSET D
            /\ Cardinality(s \ {NextOf(s)}) = Cardinality(s) - 1
            /\ Cardinality(s) \in Nat /\ n \in Nat
        BY <1>1, <1>2, <3>2
      <4>2. Cardinality(s \ {NextOf(s)}) <= n
        BY <2>3, <4>1
      <4> QED BY <4>1, <4>2
    <3>3. Term(s, h) = Term(s, g)
      <4> HIDE DEF h
      <4> QED BY <3>2
    <3> QED BY <3>1, <3>3
  <2>4. UpTo(n + 1, h)
    <3> HIDE DEF h, Term
    <3> QED BY <2>3
  <2> HIDE DEF h, UpTo
  <2> QED BY <2>2, <2>4
<1>6. PICK g \in [SUBSET D -> Int] : g = Loop(g)
  <2>1. Cardinality(D) \in U
    <3>1. U \subseteq Nat /\ Cardinality(D) \in Nat
      BY FS_CardinalityType
    <3> HIDE DEF U
    <3> QED BY <1>4, <1>5, <3>1, NaturalInduction
  <2>2. PICK g \in [SUBSET D -> Int] : UpTo(Cardinality(D), g)
    BY <2>1
  <2>3. \A s \in SUBSET D : g[s] = Term(s, g)
    BY <1>1, <2>2, FS_Subset
  <2>4. g = [s \in SUBSET D |-> g[s]]
    OBVIOUS
  <2>5. g = Loop(g)
    <3> HIDE DEF Term
    <3> QED BY <2>3, <2>4
  <2> QED BY <2>5
<1> DEFINE sum == CHOOSE v : v = Loop(v)
<1>7. sum = Loop(sum)
  <2> HIDE DEF Loop
  <2> QED BY <1>6
<1>8. DOMAIN f = D
  OBVIOUS
<1>9. SumFunction(f) = sum[D]
  BY <1>8 DEF SumFunction, SumFunctionOnSet, FoldFunctionOnSet, MapThenFoldSet, NextOf
<1> HIDE DEF sum
<1>10. /\ sum[{}] = 0
       /\ \A s \in SUBSET D : s # {} => sum[s] = f[NextOf(s)] + sum[s \ {NextOf(s)}]
  BY <1>7
<1>11. \A s \in SUBSET D : sum[s] \in Int
  <2> DEFINE T == {s \in SUBSET D : sum[s] \in Int}
  <2>1. {} \in T
    BY <1>10
  <2>2. ASSUME NEW s \in SUBSET D, s # {}, s \ {NextOf(s)} \in T PROVE s \in T
    <3>1. NextOf(s) \in D /\ f[NextOf(s)] \in Int
      BY <1>2, <2>2
    <3>2. sum[s \ {NextOf(s)}] \in Int
      BY <2>2
    <3>3. sum[s] = f[NextOf(s)] + sum[s \ {NextOf(s)}]
      BY <1>10, <2>2
    <3>4. sum[s] \in Int
      BY <3>1, <3>2, <3>3
    <3> QED BY <3>4
  <2> HIDE DEF T
  <2>3. SUBSET D \subseteq T
    BY <2>1, <2>2, FiniteInduction
  <2> QED BY <2>3 DEF T
<1>12. sum \in [SUBSET D -> Int]
  BY <1>7, <1>11
<1> QED BY <1>9, <1>10, <1>12 DEF IsSum

\* The order of the summands does not matter.
Orderless(f, D, g) == \A s \in SUBSET D : \A x \in s : g[s] = f[x] + g[s \ {x}]

\* A sum does not depend on which element is added first.
LEMMA AnyOrder ==
  ASSUME NEW D, IsFiniteSet(D), NEW f \in [D -> Int], NEW g, IsSum(f, D, g)
  PROVE  Orderless(f, D, g)
<1> DEFINE U == {n \in Nat : \A s \in SUBSET D : Cardinality(s) = n =>
                               \A x \in s : g[s] = f[x] + g[s \ {x}]}
<1>1. \A s \in SUBSET D : IsFiniteSet(s) /\ Cardinality(s) \in Nat
  BY FS_Subset, FS_CardinalityType
<1>2. \A s \in SUBSET D : \A x \in s : Cardinality(s \ {x}) = Cardinality(s) - 1
  BY <1>1, FS_RemoveElement
<1>3. 0 \in U
  <2>1. \A s \in SUBSET D : Cardinality(s) = 0 => s = {}
    BY <1>1, FS_EmptySet
  <2> QED BY <2>1
<1>4. ASSUME NEW n \in U PROVE n + 1 \in U
  <2> SUFFICES ASSUME NEW s \in SUBSET D, Cardinality(s) = n + 1, NEW x \in s
               PROVE  g[s] = f[x] + g[s \ {x}]
    OBVIOUS
  <2> DEFINE y == NextOf(s)
             r == s \ {x, y}
  <2>1. y \in s
    BY DEF NextOf
  <2>2. g[s] = f[y] + g[s \ {y}]
    BY DEF IsSum
  <2>3. Cardinality(s \ {x}) = n /\ Cardinality(s \ {y}) = n
    <3>1. n \in Nat
      OBVIOUS
    <3> HIDE DEF U, y
    <3> QED BY <1>2, <2>1, <3>1
  <2>4. CASE x = y
    BY <2>2, <2>4
  <2>5. CASE x # y
    <3>1. s \ {x} \in SUBSET D /\ s \ {y} \in SUBSET D /\ r \in SUBSET D
      OBVIOUS
    <3>2. y \in s \ {x} /\ x \in s \ {y}
      BY <2>1, <2>5
    <3>3. (s \ {x}) \ {y} = r /\ (s \ {y}) \ {x} = r
      OBVIOUS
    <3> HIDE DEF y, r
    <3>4. g[s \ {x}] = f[y] + g[r] /\ g[s \ {y}] = f[x] + g[r]
      BY <2>3, <3>1, <3>2, <3>3
    <3>5. f[x] \in Int /\ f[y] \in Int /\ g[r] \in Int
      BY <2>1, <3>1 DEF IsSum
    <3> QED BY <2>2, <3>4, <3>5
  <2> QED BY <2>4, <2>5
<1>5. U \subseteq Nat
  OBVIOUS
<1>6. Nat \subseteq U
  <2> HIDE DEF U
  <2> QED BY <1>3, <1>4, <1>5, NaturalInduction
<1> QED BY <1>1, <1>6 DEF Orderless

\* P gives the sums of the first summands.
AddsUp(P, h, N) ==
  P \in [0..N -> Int] /\ P[0] = 0 /\ \A n \in 1..N : P[n] = P[n - 1] + h[n]

\* The sum of a list adds up entry by entry.
LEMMA PartialSums ==
  ASSUME NEW N \in Nat, NEW h \in [1..N -> Int]
  PROVE  \E P : AddsUp(P, h, N) /\ SumFunction(h) = P[N]
<1>1. IsFiniteSet(1..N)
  BY CountTo
<1>2. PICK g : IsSum(h, 1..N, g) /\ SumFunction(h) = g[1..N]
  BY <1>1, SumExists
<1>3. Orderless(h, 1..N, g)
  BY <1>1, <1>2, AnyOrder
<1> DEFINE P == [n \in 0..N |-> g[1..n]]
<1>4. \A n \in 0..N : 1..n \in SUBSET (1..N) /\ g[1..n] \in Int
  BY <1>2 DEF IsSum
<1>5. P \in [0..N -> Int] /\ P[N] = SumFunction(h)
  BY <1>2, <1>4
<1>6. P[0] = 0
  <2>1. 1..0 = {}
    OBVIOUS
  <2>2. g[{}] = 0
    BY <1>2 DEF IsSum
  <2> QED BY <2>1, <2>2
<1>7. ASSUME NEW n \in 1..N PROVE P[n] = P[n - 1] + h[n]
  <2>1. n - 1 \in 0..N /\ n \in 0..N /\ n \in 1..n /\ (1..n) \ {n} = 1..n - 1
    OBVIOUS
  <2>2. g[1..n] = h[n] + g[1..n - 1]
    <3>1. g[1..n] = h[n] + g[(1..n) \ {n}]
      BY <1>3, <1>4, <2>1 DEF Orderless
    <3>2. g[(1..n) \ {n}] = g[1..n - 1]
      BY <2>1
    <3> QED BY <3>1, <3>2
  <2>3. g[1..n - 1] \in Int /\ h[n] \in Int
    BY <1>4, <2>1
  <2>4. P[n] = g[1..n] /\ P[n - 1] = g[1..n - 1]
    BY <2>1
  <2> HIDE DEF P
  <2> QED BY <2>1, <2>2, <2>3, <2>4
<1> HIDE DEF P
<1>8. AddsUp(P, h, N)
  BY <1>5, <1>6, <1>7 DEF AddsUp
<1> QED BY <1>5, <1>8

\* Larger summands have a larger sum.
LEMMA SumsCompare ==
  ASSUME NEW N \in Nat, NEW h \in [1..N -> Int], NEW k \in [1..N -> Int],
         \A n \in 1..N : h[n] <= k[n]
  PROVE  SumFunction(h) \in Int /\ SumFunction(k) \in Int /\ SumFunction(h) <= SumFunction(k)
<1>1. PICK P : AddsUp(P, h, N) /\ SumFunction(h) = P[N]
  BY PartialSums
<1>2. PICK Q : AddsUp(Q, k, N) /\ SumFunction(k) = Q[N]
  BY PartialSums
<1> DEFINE S == {n \in Nat : n <= N => P[n] <= Q[n]}
<1>3. 0 \in S
  BY <1>1, <1>2 DEF AddsUp
<1>4. ASSUME NEW n \in S PROVE n + 1 \in S
  <2> SUFFICES ASSUME n + 1 <= N PROVE P[n + 1] <= Q[n + 1]
    OBVIOUS
  <2>1. n \in 0..N /\ n + 1 \in 1..N /\ (n + 1) - 1 = n /\ P[n] <= Q[n]
    OBVIOUS
  <2>2. P[n + 1] = P[n] + h[n + 1] /\ Q[n + 1] = Q[n] + k[n + 1]
    BY <1>1, <1>2, <2>1 DEF AddsUp
  <2>3. P[n] \in Int /\ Q[n] \in Int /\ h[n + 1] \in Int /\ k[n + 1] \in Int /\ h[n + 1] <= k[n + 1]
    BY <1>1, <1>2, <2>1 DEF AddsUp
  <2> QED BY <2>1, <2>2, <2>3
<1>5. Nat \subseteq S
  <2>1. S \subseteq Nat
    OBVIOUS
  <2> HIDE DEF S
  <2> QED BY <1>3, <1>4, <2>1, NaturalInduction
<1>6. N \in 0..N
  OBVIOUS
<1> QED BY <1>1, <1>2, <1>5, <1>6 DEF AddsUp

\* A sum of naturals is one.
LEMMA SumOfNaturals ==
  ASSUME NEW N \in Nat, NEW h \in [1..N -> Nat]
  PROVE  SumFunction(h) \in Nat
<1> DEFINE z == [n \in 1..N |-> 0]
<1>1. z \in [1..N -> Int] /\ h \in [1..N -> Int] /\ \A n \in 1..N : z[n] <= h[n]
  OBVIOUS
<1>2. SumFunction(z) \in Int /\ SumFunction(h) \in Int /\ SumFunction(z) <= SumFunction(h)
  <2> HIDE DEF z
  <2> QED BY <1>1, SumsCompare
<1>3. SumFunction(z) = 0
  <2>1. PICK P : AddsUp(P, z, N) /\ SumFunction(z) = P[N]
    <3> HIDE DEF z
    <3> QED BY <1>1, PartialSums
  <2> DEFINE S == {n \in Nat : n <= N => P[n] = 0}
  <2>2. 0 \in S
    BY <2>1 DEF AddsUp
  <2>3. ASSUME NEW n \in S PROVE n + 1 \in S
    <3> SUFFICES ASSUME n + 1 <= N PROVE P[n + 1] = 0
      OBVIOUS
    <3>1. n + 1 \in 1..N /\ (n + 1) - 1 = n /\ P[n] = 0
      OBVIOUS
    <3>2. P[n + 1] = P[n] + z[n + 1]
      BY <2>1, <3>1 DEF AddsUp
    <3> QED BY <3>1, <3>2
  <2>4. Nat \subseteq S
    <3>1. S \subseteq Nat
      OBVIOUS
    <3> HIDE DEF S
    <3> QED BY <2>2, <2>3, <3>1, NaturalInduction
  <2> QED BY <2>1, <2>4
<1> QED BY <1>2, <1>3

\* ks lists the elements of S, each once.
ListsOnce(ks, S) ==
  /\ Len(ks) \in Nat /\ DOMAIN ks = 1..Len(ks)
  /\ \A i \in 1..Len(ks) : ks[i] \in S
  /\ \A y \in S : \E i \in 1..Len(ks) : ks[i] = y
  /\ \A i, j \in 1..Len(ks) : ks[i] = ks[j] => i = j

\* The sum over such a list is the sum over the set.
LEMMA SumOfList ==
  ASSUME NEW D, IsFiniteSet(D), NEW f \in [D -> Int], NEW p, ListsOnce(p, D)
  PROVE  SumFunction([n \in DOMAIN p |-> f[p[n]]]) = SumFunction(f)
<1>0. PICK N \in Nat : /\ N = Len(p) /\ DOMAIN p = 1..N
                       /\ \A n \in 1..N : p[n] \in D
                       /\ \A x \in D : \E n \in 1..N : p[n] = x
                       /\ \A n, m \in 1..N : p[n] = p[m] => n = m
  BY ZenonT(30) DEF ListsOnce
<1> DEFINE h == [n \in 1..N |-> f[p[n]]]
           E(n) == {p[k] : k \in 1..n}
<1>1. h \in [1..N -> Int]
  BY <1>0
<1>2. PICK P : AddsUp(P, h, N) /\ SumFunction(h) = P[N]
  <2> HIDE DEF h
  <2> QED BY <1>1, PartialSums
<1>3. PICK g : IsSum(f, D, g) /\ SumFunction(f) = g[D]
  BY SumExists
<1>4. Orderless(f, D, g)
  BY <1>3, AnyOrder
<1> DEFINE S == {n \in Nat : n <= N => P[n] = g[E(n)]}
<1>5. 0 \in S
  <2>1. E(0) = {}
    OBVIOUS
  <2>2. g[{}] = 0 /\ P[0] = 0
    BY <1>2, <1>3 DEF IsSum, AddsUp
  <2> QED BY <2>1, <2>2
<1>6. ASSUME NEW n \in S PROVE n + 1 \in S
  <2> SUFFICES ASSUME n + 1 <= N PROVE P[n + 1] = g[E(n + 1)]
    OBVIOUS
  <2>1. n + 1 \in 1..N /\ (n + 1) - 1 = n /\ P[n] = g[E(n)] /\ n \in Nat
    OBVIOUS
  <2>2. P[n + 1] = P[n] + h[n + 1] /\ h[n + 1] = f[p[n + 1]]
    BY <1>2, <2>1 DEF AddsUp
  <2>3. p[n + 1] \in E(n + 1) /\ E(n + 1) \in SUBSET D /\ E(n) \in SUBSET D
    BY <1>0, <2>1
  <2>4. E(n + 1) \ {p[n + 1]} = E(n)
    <3>1. \A k \in 1..n : k \in 1..N /\ k \in 1..n + 1 /\ k # n + 1
      BY <2>1
    <3>2. \A k \in 1..n : p[k] # p[n + 1]
      BY <1>0, <2>1, <3>1
    <3>3. \A k \in 1..n + 1 : k = n + 1 \/ k \in 1..n
      BY <2>1
    <3> QED BY <3>1, <3>2, <3>3
  <2> HIDE DEF E, h
  <2>5. g[E(n + 1)] = f[p[n + 1]] + g[E(n)]
    BY <1>4, <2>3, <2>4, ZenonT(30) DEF Orderless
  <2>6. g[E(n)] \in Int /\ f[p[n + 1]] \in Int
    BY <1>3, <2>1, <2>3 DEF IsSum
  <2> QED BY <2>1, <2>2, <2>5, <2>6
<1>7. Nat \subseteq S
  <2>1. S \subseteq Nat
    OBVIOUS
  <2> HIDE DEF S
  <2> QED BY <1>5, <1>6, <2>1, NaturalInduction
<1>8. E(N) = D
  BY <1>0
<1>9. P[N] = g[E(N)]
  BY <1>7
<1>10. SumFunction(h) = SumFunction(f)
  <2> HIDE DEF h, E
  <2> QED BY <1>2, <1>3, <1>8, <1>9
<1> QED BY <1>0, <1>10

-----------------------------------------------------------------------------
(***************************************************************************)
(* Lists as the sets of what is in them.                                   *)
(***************************************************************************)

\* What is in a list, place by place.
LEMMA InList ==
  ASSUME NEW R, NEW s \in Seq(R)
  PROVE  /\ Len(s) \in Nat /\ DOMAIN s = 1..Len(s) /\ ToSet(s) \subseteq R
         /\ \A k \in 1..Len(s) : s[k] \in ToSet(s)
         /\ \A x \in ToSet(s) : \E k \in 1..Len(s) : s[k] = x
<1>1. Len(s) \in Nat /\ DOMAIN s = 1..Len(s) /\ \A k \in 1..Len(s) : s[k] \in R
  OBVIOUS
<1> QED BY <1>1 DEF ToSet

\* What is in a concatenation.
LEMMA InBoth ==
  ASSUME NEW R, NEW s \in Seq(R), NEW t \in Seq(R)
  PROVE  s \o t \in Seq(R) /\ ToSet(s \o t) = ToSet(s) \cup ToSet(t)
<1>1. /\ s \o t \in Seq(R)
      /\ \A k \in 1..Len(s) : k \in 1..Len(s \o t) /\ (s \o t)[k] = s[k]
      /\ \A j \in 1..Len(t) : Len(s) + j \in 1..Len(s \o t) /\ (s \o t)[Len(s) + j] = t[j]
      /\ \A k \in 1..Len(s \o t) : k \in 1..Len(s) \/ k - Len(s) \in 1..Len(t)
      /\ \A k \in 1..Len(s \o t) : k \notin 1..Len(s) => (s \o t)[k] = t[k - Len(s)]
  BY Concatenated
<1> DEFINE u == s \o t
<1>2. u \in Seq(R)
  BY <1>1
<1>3. ASSUME NEW x \in ToSet(u) PROVE x \in ToSet(s) \cup ToSet(t)
  <2>1. PICK k \in 1..Len(u) : u[k] = x
    <3> HIDE DEF u
    <3> QED BY <1>2, InList
  <2>2. CASE k \in 1..Len(s)
    BY <1>1, <2>1, <2>2, InList
  <2>3. CASE k \notin 1..Len(s)
    <3>1. u[k] = t[k - Len(s)] /\ k - Len(s) \in 1..Len(t)
      BY <1>1, <2>1, <2>3
    <3>2. t[k - Len(s)] \in ToSet(t)
      BY <3>1, InList
    <3> QED BY <2>1, <3>1, <3>2
  <2> QED BY <2>2, <2>3
<1>4. ASSUME NEW x \in ToSet(s) PROVE x \in ToSet(u)
  <2>1. PICK k \in 1..Len(s) : s[k] = x
    BY InList
  <2>2. k \in 1..Len(u) /\ u[k] = x
    BY <1>1, <2>1
  <2> HIDE DEF u
  <2> QED BY <1>2, <2>2, InList
<1>5. ASSUME NEW x \in ToSet(t) PROVE x \in ToSet(u)
  <2>1. PICK k \in 1..Len(t) : t[k] = x
    BY InList
  <2>2. Len(s) + k \in 1..Len(u) /\ u[Len(s) + k] = x
    BY <1>1, <2>1
  <2> HIDE DEF u
  <2> QED BY <1>2, <2>2, InList
<1> HIDE DEF u
<1>6. ToSet(u) = ToSet(s) \cup ToSet(t)
  BY <1>3, <1>4, <1>5
<1> QED BY <1>2, <1>6 DEF u

\* Sorting moves entries, adds none and drops none.
LEMMA SortedList ==
  ASSUME NEW R, NEW s \in Seq(R), NEW I, I \subseteq DOMAIN s, NEW key, \A i \in I : key[i] \in Int
  PROVE  /\ Sorted(s, I, key) \in Seq(R)
         /\ ToSet(Sorted(s, I, key)) = {s[i] : i \in I}
<1> DEFINE r == Sorted(s, I, key)
<1>1. Len(s) \in Nat /\ DOMAIN s = 1..Len(s)
  BY InList
<1>2. PICK p : IsSorting(r, s, I, key, p)
  BY <1>1, Sorting
<1> DEFINE n == Cardinality(I)
<1>3. /\ n \in Nat /\ r = [k \in 1..n |-> s[p[k]]]
      /\ \A k \in 1..n : p[k] \in I
      /\ \A i \in I : \E k \in 1..n : p[k] = i
  BY <1>2 DEF IsSorting
<1> HIDE DEF r, n
<1>4. r \in Seq(R)
  <2>1. \A i \in I : s[i] \in R
    BY <1>1
  <2> QED BY <1>3, <2>1
<1>5. DOMAIN r = 1..n /\ \A k \in 1..n : r[k] = s[p[k]]
  BY <1>3
<1>6. ToSet(r) = {s[i] : i \in I}
  <2>1. ToSet(r) = {r[k] : k \in 1..n}
    BY <1>5 DEF ToSet
  <2>2. ASSUME NEW k \in 1..n PROVE r[k] \in {s[i] : i \in I}
    BY <1>3, <1>5
  <2>3. ASSUME NEW i \in I PROVE s[i] \in {r[k] : k \in 1..n}
    <3>1. PICK k \in 1..n : p[k] = i
      BY <1>3
    <3> QED BY <1>5, <3>1
  <2> QED BY <2>1, <2>2, <2>3
<1> QED BY <1>4, <1>6 DEF r

\* Among lists the entries that are in the set.
LEMMA AmongList ==
  ASSUME NEW R, NEW s \in Seq(R), NEW set
  PROVE  Among(s, set) \in Seq(R) /\ ToSet(Among(s, set)) = ToSet(s) \cap set
<1> DEFINE I == {i \in DOMAIN s : s[i] \in set}
           key == [i \in I |-> i]
<1>1. DOMAIN s = 1..Len(s) /\ \A i \in I : key[i] \in Int
  BY InList
<1>2. Among(s, set) = Sorted(s, I, key)
  BY DEF Among
<1>3. I \subseteq DOMAIN s
  OBVIOUS
<1>4. Sorted(s, I, key) \in Seq(R) /\ ToSet(Sorted(s, I, key)) = {s[i] : i \in I}
  <2> HIDE DEF I, key
  <2> QED BY <1>1, <1>3, SortedList
<1>5. {s[i] : i \in I} = ToSet(s) \cap set
  BY DEF ToSet
<1> QED BY <1>2, <1>4, <1>5

\* A list of all elements of a finite set.
LEMMA ListOfSet ==
  ASSUME NEW S, IsFiniteSet(S)
  PROVE  SetToSeq(S) \in Seq(S) /\ ToSet(SetToSeq(S)) = S
<1> DEFINE n == Cardinality(S)
           f == SetToSeq(S)
<1>1. n \in Nat /\ ExistsBijection(1..n, S)
  BY FS_CardinalityType
<1>2. PICK g \in [1..n -> S] : IsInjective(g)
  BY <1>1 DEF ExistsBijection, Bijection, Injection
<1>3. f \in [1..n -> S] /\ IsInjective(f)
  BY <1>2 DEF SetToSeq
<1> HIDE DEF f, n
<1>4. f \in Injection(1..n, S)
  BY <1>3 DEF Injection
<1>5. Cardinality(1..n) = n
  BY <1>1, CountTo
<1>6. f \in Surjection(1..n, S)
  BY <1>4, <1>5, FS_Injection DEF n
<1>7. f \in Seq(S) /\ DOMAIN f = 1..n
  BY <1>1, <1>3
<1>8. ToSet(f) = S
  BY <1>3, <1>6, <1>7 DEF Surjection, ToSet
<1> QED BY <1>7, <1>8 DEF f

\* Some of the numbers of a list is the greatest.
LEMMA Greatest ==
  ASSUME NEW N \in Nat \ {0}, NEW e, \A k \in 1..N : e[k] \in Int
  PROVE  \E m \in 1..N : \A k \in 1..N : e[k] <= e[m]
<1> DEFINE S == {n \in Nat : n + 1 <= N => \E m \in 1..n + 1 : \A k \in 1..n + 1 : e[k] <= e[m]}
<1>1. 0 \in S
  OBVIOUS
<1>2. ASSUME NEW n \in S PROVE n + 1 \in S
  <2> SUFFICES ASSUME (n + 1) + 1 <= N
               PROVE  \E m \in 1..(n + 1) + 1 : \A k \in 1..(n + 1) + 1 : e[k] <= e[m]
    OBVIOUS
  <2>1. n \in Nat /\ n + 1 <= N
    OBVIOUS
  <2>2. PICK m \in 1..n + 1 : \A k \in 1..n + 1 : e[k] <= e[m]
    BY <2>1
  <2>3. m \in 1..(n + 1) + 1 /\ (n + 1) + 1 \in 1..(n + 1) + 1 /\ e[m] \in Int /\ e[(n + 1) + 1] \in Int
    BY <2>1
  <2>4. \A k \in 1..(n + 1) + 1 : (k \in 1..n + 1 \/ k = (n + 1) + 1) /\ e[k] \in Int
    BY <2>1
  <2>5. CASE e[(n + 1) + 1] <= e[m]
    BY <2>2, <2>3, <2>4, <2>5
  <2>6. CASE e[m] <= e[(n + 1) + 1]
    BY <2>2, <2>3, <2>4, <2>6
  <2> QED BY <2>3, <2>5, <2>6
<1>3. Nat \subseteq S
  <2>1. S \subseteq Nat
    OBVIOUS
  <2> HIDE DEF S
  <2> QED BY <1>1, <1>2, <2>1, NaturalInduction
<1>4. N - 1 \in S /\ (N - 1) + 1 = N
  BY <1>3
<1> QED BY <1>4

\* What Max and Min are of the entries of a list.
LEMMA LargestIs ==
  ASSUME NEW N \in Nat \ {0}, NEW e, \A k \in 1..N : e[k] \in Int
  PROVE  LET top == Max({e[k] : k \in 1..N}) IN top \in Int /\ \A k \in 1..N : e[k] <= top
<1> DEFINE T == {e[k] : k \in 1..N}
<1>1. PICK m \in 1..N : \A k \in 1..N : e[k] <= e[m]
  BY Greatest
<1>2. e[m] \in T /\ \A y \in T : e[m] >= y
  BY <1>1
<1>3. Max(T) \in T /\ \A y \in T : Max(T) >= y
  <2> HIDE DEF T
  <2> QED BY <1>2 DEF Max
<1>4. Max(T) \in Int
  BY <1>3
<1> QED BY <1>3, <1>4

LEMMA SmallestIs ==
  ASSUME NEW N \in Nat \ {0}, NEW e, \A k \in 1..N : e[k] \in Int
  PROVE  LET low == Min({e[k] : k \in 1..N}) IN low \in Int /\ \A k \in 1..N : low <= e[k]
<1> DEFINE T == {e[k] : k \in 1..N}
           f == [k \in 1..N |-> -e[k]]
<1>1. PICK m \in 1..N : \A k \in 1..N : f[k] <= f[m]
  <2>1. \A k \in 1..N : f[k] \in Int
    OBVIOUS
  <2> HIDE DEF f
  <2> QED BY <2>1, Greatest
<1>2. e[m] \in T /\ \A y \in T : e[m] <= y
  BY <1>1
<1>3. Min(T) \in T /\ \A y \in T : Min(T) <= y
  <2> HIDE DEF T
  <2> QED BY <1>2 DEF Min
<1>4. Min(T) \in Int
  BY <1>3
<1> QED BY <1>3, <1>4

\* No span is longer than the trace.
LEMMA TotalIs ==
  ASSUME NEW spans, WellFormed(spans), spans # <<>>
  PROVE  /\ Len(spans) \in Nat \ {0}
         /\ TotalDuration(spans) \in Int
         /\ \A k \in 1..Len(spans) : spans[k].duration <= TotalDuration(spans)
<1> DEFINE N == Len(spans)
           e == [k \in 1..N |-> spans[k].start + spans[k].duration]
           s == [k \in 1..N |-> spans[k].start]
           top == Max({e[k] : k \in 1..N})
           low == Min({s[k] : k \in 1..N})
<1>1. N \in Nat \ {0}
  BY DEF WellFormed
<1>2. \A k \in 1..N : spans[k].start \in Int /\ spans[k].duration \in Nat
  BY DEF WellFormed
<1>3. \A k \in 1..N : e[k] \in Int /\ s[k] \in Int
  BY <1>2
<1>4. top \in Int /\ \A k \in 1..N : e[k] <= top
  <2> HIDE DEF e, N
  <2> QED BY <1>1, <1>3, LargestIs
<1>5. low \in Int /\ \A k \in 1..N : low <= s[k]
  <2> HIDE DEF s, N
  <2> QED BY <1>1, <1>3, SmallestIs
<1>6. TotalDuration(spans) = top - low
  <2>1. DOMAIN spans = 1..N
    BY DEF WellFormed
  <2>2. /\ {spans[i].start + spans[i].duration : i \in DOMAIN spans} = {e[k] : k \in 1..N}
        /\ {spans[i].start : i \in DOMAIN spans} = {s[k] : k \in 1..N}
    BY <2>1
  <2> QED BY <2>2 DEF TotalDuration
<1>7. ASSUME NEW k \in 1..N PROVE spans[k].duration <= top - low
  <2>1. e[k] = spans[k].start + spans[k].duration /\ s[k] = spans[k].start
    OBVIOUS
  <2> HIDE DEF e, s, top, low
  <2> QED BY <1>2, <1>4, <1>5, <2>1
<1> HIDE DEF top, low
<1> QED BY <1>1, <1>4, <1>5, <1>6, <1>7

\* What a span says of itself.
LEMMA SpanIs ==
  ASSUME NEW spans, WellFormed(spans), NEW x \in Ids(spans)
  PROVE  /\ \E k \in 1..Len(spans) : spans[k].id = x /\ SpanOf(spans, x) = spans[k]
         /\ SpanOf(spans, x).id = x /\ SpanOf(spans, x).duration \in Nat /\ SpanOf(spans, x).start \in Int
<1>1. PICK k \in 1..Len(spans) : spans[k].id = x
  BY IdsAre
<1>2. SpanOf(spans, x) = spans[k]
  BY <1>1, IdsAre
<1> QED BY <1>1, <1>2 DEF WellFormed

\* Durations add up to a natural number.
LEMMA SumOfSpans ==
  ASSUME NEW spans, WellFormed(spans), NEW ids \in Seq(Ids(spans))
  PROVE  SumOf(spans, ids) \in Nat
<1> DEFINE h == [i \in DOMAIN ids |-> SpanOf(spans, ids[i]).duration]
<1>1. Len(ids) \in Nat /\ DOMAIN ids = 1..Len(ids) /\ \A i \in 1..Len(ids) : ids[i] \in Ids(spans)
  OBVIOUS
<1>2. h \in [1..Len(ids) -> Nat]
  BY <1>1, SpanIs
<1>3. SumFunction(h) \in Nat
  <2> HIDE DEF h
  <2> QED BY <1>1, <1>2, SumOfNaturals
<1> QED BY <1>3 DEF SumOf

\* A span has no more time of its own than it took.
LEMMA SelfTimeIs ==
  ASSUME NEW spans, WellFormed(spans), NEW x \in Ids(spans)
  PROVE  /\ SelfTime(spans, x) \in Nat
         /\ SelfTime(spans, x) <= SpanOf(spans, x).duration
         /\ SelfTime(spans, x) + SumOf(spans, ChildrenOf(spans, x)) >= SpanOf(spans, x).duration
         /\ SumOf(spans, ChildrenOf(spans, x)) \in Nat
<1>1. ChildrenOf(spans, x) \in Seq(Ids(spans))
  BY ChildrenAre DEF IsByStart
<1>2. SumOf(spans, ChildrenOf(spans, x)) \in Nat
  BY <1>1, SumOfSpans
<1>3. SpanOf(spans, x).duration \in Nat
  BY SpanIs
<1> QED BY <1>2, <1>3 DEF SelfTime

\* What build_trace() returns.
LEMMA TreeIs ==
  ASSUME NEW spans, WellFormed(spans), ~RejectsCycle(spans), spans # <<>>
  PROVE  /\ BuildTrace(spans).nodes = Nodes(spans)
         /\ BuildTrace(spans).total = TotalDuration(spans)
         /\ BuildTrace(spans).orphans = OrphanCount(spans)
         /\ Nodes(spans) \in Seq(Ids(spans)) /\ ToSet(Nodes(spans)) = Ids(spans)
<1>1. /\ BuildTrace(spans).nodes = Nodes(spans)
      /\ BuildTrace(spans).total = TotalDuration(spans)
      /\ BuildTrace(spans).orphans = OrphanCount(spans)
  BY DEF BuildTrace
<1>2. Nodes(spans) \in Seq(Ids(spans)) /\ \A x \in Ids(spans) : Has(Nodes(spans), x)
  BY NodesAreSpans
<1>3. \A x \in Ids(spans) : x \in ToSet(Nodes(spans))
  BY <1>2, InList, SMTT(30) DEF Has
<1>4. ToSet(Nodes(spans)) \subseteq Ids(spans)
  BY <1>2, InList
<1> QED BY <1>1, <1>2, <1>3, <1>4

\* One of a list of spans that took no less time than any of them.
LEMMA LongestIs ==
  ASSUME NEW spans, WellFormed(spans), NEW ids \in Seq(Ids(spans)), ids # <<>>
  PROVE  \E m \in 1..Len(ids) :
           /\ Longest(spans, ids) = ids[m]
           /\ \A j \in 1..Len(ids) : SpanOf(spans, ids[j]).duration <= SpanOf(spans, ids[m]).duration
<1> DEFINE N == Len(ids)
           e == [k \in 1..N |-> SpanOf(spans, ids[k]).duration]
           T == {i \in DOMAIN ids : \A j \in DOMAIN ids :
                   SpanOf(spans, ids[j]).duration =< SpanOf(spans, ids[i]).duration}
<1>1. N \in Nat \ {0} /\ DOMAIN ids = 1..N /\ \A k \in 1..N : ids[k] \in Ids(spans)
  <2>1. Len(ids) \in Nat /\ Len(ids) # 0
    OBVIOUS
  <2> QED BY <2>1
<1>2. \A k \in 1..N : e[k] \in Int
  BY <1>1, SpanIs
<1>3. PICK i \in 1..N : \A k \in 1..N : e[k] <= e[i]
  <2> HIDE DEF e, N
  <2> QED BY <1>1, <1>2, Greatest
<1>4. i \in T
  BY <1>1, <1>3
<1>5. T \subseteq Nat /\ T # {}
  BY <1>1, <1>4, SMTT(30)
<1>6. Min(T) \in T
  <2> HIDE DEF T
  <2>1. \E x \in T : \A y \in T : x <= y
    BY <1>5, LeastNatural
  <2> QED BY <2>1 DEF Min
<1>7. Longest(spans, ids) = ids[Min(T)]
  BY DEF Longest
<1> QED BY <1>1, <1>6, <1>7

-----------------------------------------------------------------------------
(***************************************************************************)
(* Findings, as sets.                                                      *)
(***************************************************************************)

\* Findings as they are made about the spans X.
Reports(X) == [kind : ToSet(KIND_PRIORITY), id : X \cup {NoParent}, confidence : 0..95]

\* The kinds there are.
LEMMA Kinds == ToSet(KIND_PRIORITY) = {"error", "baseline", "slow", "retry", "missing", "fan out", "cache"}
<1>1. DOMAIN KIND_PRIORITY = 1..7
  BY DEF KIND_PRIORITY
<1>2. 1..7 = {1, 2, 3, 4, 5, 6, 7}
  OBVIOUS
<1>3. /\ KIND_PRIORITY[1] = "error" /\ KIND_PRIORITY[2] = "baseline" /\ KIND_PRIORITY[3] = "slow"
      /\ KIND_PRIORITY[4] = "retry" /\ KIND_PRIORITY[5] = "missing"
      /\ KIND_PRIORITY[6] = "fan out" /\ KIND_PRIORITY[7] = "cache"
  BY DEF KIND_PRIORITY
<1>4. ToSet(KIND_PRIORITY) = {KIND_PRIORITY[i] : i \in {1, 2, 3, 4, 5, 6, 7}}
  BY <1>1, <1>2 DEF ToSet
<1>5. ToSet(KIND_PRIORITY) = {KIND_PRIORITY[1], KIND_PRIORITY[2], KIND_PRIORITY[3], KIND_PRIORITY[4],
                              KIND_PRIORITY[5], KIND_PRIORITY[6], KIND_PRIORITY[7]}
  BY <1>4
<1> QED BY <1>3, <1>5

\* Errors come first in the order of the findings.
LEMMA OrderIs ==
  ASSUME NEW X, NEW f \in Reports(X)
  PROVE  /\ Order(f) \in Int
         /\ f.kind # "error" => Order(f) >= 105
         /\ f.kind = "error" => Order(f) =< 100
<1>1. PICK k \in DOMAIN KIND_PRIORITY : KIND_PRIORITY[k] = f.kind
  BY DEF Reports, ToSet
<1>2. Rank(f) \in DOMAIN KIND_PRIORITY /\ KIND_PRIORITY[Rank(f)] = f.kind
  BY <1>1 DEF Rank
<1>3. DOMAIN KIND_PRIORITY = 1..7
  BY DEF KIND_PRIORITY
<1>4. /\ KIND_PRIORITY[1] = "error"
      /\ \A n \in 2..7 : KIND_PRIORITY[n] # "error"
  <2>1. 2..7 = {2, 3, 4, 5, 6, 7}
    OBVIOUS
  <2> QED BY <2>1 DEF KIND_PRIORITY
<1>5. f.confidence \in 0..95
  BY DEF Reports
<1>6. f.kind # "error" => Rank(f) >= 2
  BY <1>2, <1>3, <1>4
<1>7. f.kind = "error" => Rank(f) = 1
  BY <1>2, <1>3, <1>4
<1>8. Rank(f) \in Int
  BY <1>2, <1>3
<1> QED BY <1>5, <1>6, <1>7, <1>8 DEF Order

\* C are the confidences of findings about Y, c the same by their place in ids.
Sure(C, Y) == \A x \in Y : C[x] \in 0..95
InPlace(c, C, ids) == \A i \in DOMAIN ids : c[i] = C[ids[i]]

\* One finding for each of the nodes Y.
Each(kind, Y, C) == {Finding(kind, x, C[x]) : x \in Y}
Lists(r, X, set) == r \in Seq(Reports(X)) /\ ToSet(r) = set

\* PerNode lists a finding for each of the nodes.
LEMMA OnePerNode ==
  ASSUME NEW X, NEW Y, NEW ids \in Seq(X), ToSet(ids) = Y, NEW kind \in ToSet(KIND_PRIORITY),
         NEW C, Sure(C, Y), NEW c, InPlace(c, C, ids)
  PROVE  Lists(PerNode(kind, ids, c), X, Each(kind, Y, C))
<1> DEFINE r == PerNode(kind, ids, c)
<1>1. Len(ids) \in Nat /\ DOMAIN ids = 1..Len(ids)
  BY InList
<1>2. \A k \in 1..Len(ids) : ids[k] \in X /\ ids[k] \in Y
  BY InList
<1>3. r = [i \in 1..Len(ids) |-> Finding(kind, ids[i], c[i])]
  BY <1>1 DEF PerNode
<1>4. \A i \in 1..Len(ids) : Finding(kind, ids[i], c[i]) = Finding(kind, ids[i], C[ids[i]])
  BY <1>1 DEF InPlace
<1>5. \A x \in X \cap Y : Finding(kind, x, C[x]) \in Reports(X)
  BY DEF Finding, Reports, Sure
<1> HIDE DEF r
<1>6. r \in Seq(Reports(X))
  BY <1>1, <1>2, <1>3, <1>4, <1>5
<1>7. DOMAIN r = 1..Len(ids) /\ \A i \in 1..Len(ids) : r[i] = Finding(kind, ids[i], C[ids[i]])
  BY <1>3, <1>4
<1>8. \A x \in Y : \E i \in 1..Len(ids) : ids[i] = x
  BY InList
<1>9. ToSet(r) = {Finding(kind, x, C[x]) : x \in Y}
  <2>1. \A y \in ToSet(r) : \E x \in Y : y = Finding(kind, x, C[x])
    BY <1>2, <1>7 DEF ToSet
  <2>2. \A x \in Y : Finding(kind, x, C[x]) \in ToSet(r)
    BY <1>7, <1>8 DEF ToSet
  <2> QED BY <2>1, <2>2
<1> QED BY <1>6, <1>9 DEF r, Each, Lists

\* A tree that shows the spans.
IsTree(tree, spans) ==
  /\ WellFormed(spans)
  /\ tree.nodes \in Seq(Ids(spans)) /\ ToSet(tree.nodes) = Ids(spans)
  /\ tree.total \in Int

\* The nodes that are selected.
LEMMA SomeNodes ==
  ASSUME NEW spans, NEW tree, IsTree(tree, spans), NEW Y, Y \subseteq Ids(spans),
         NEW ids, ids = Among(tree.nodes, Y),
         NEW kind \in ToSet(KIND_PRIORITY), NEW C, Sure(C, Y), NEW c, InPlace(c, C, ids)
  PROVE  Lists(PerNode(kind, ids, c), Ids(spans), Each(kind, Y, C))
<1> DEFINE X == Ids(spans)
<1>1. ids \in Seq(X) /\ ToSet(ids) = ToSet(tree.nodes) \cap Y
  BY AmongList DEF IsTree
<1>2. ToSet(ids) = Y
  BY <1>1 DEF IsTree
<1>3. InPlace(c, C, ids)
  OBVIOUS
<1> HIDE DEF X
<1>4. Lists(PerNode(kind, ids, c), X, Each(kind, Y, C))
  BY <1>1, <1>2, <1>3, OnePerNode
<1> QED BY <1>4 DEF X

\* Among lists them.
LEMMA AmongNodes ==
  ASSUME NEW spans, NEW tree, IsTree(tree, spans), NEW Y, Y \subseteq Ids(spans)
  PROVE  /\ Among(tree.nodes, Y) \in Seq(Ids(spans))
         /\ \A i \in DOMAIN Among(tree.nodes, Y) : Among(tree.nodes, Y)[i] \in Y
         /\ Among(tree.nodes, Y) = <<>> <=> Y = {}
<1> DEFINE ids == Among(tree.nodes, Y)
<1>1. ids \in Seq(Ids(spans)) /\ ToSet(ids) = Y
  <2>1. ids \in Seq(Ids(spans)) /\ ToSet(ids) = ToSet(tree.nodes) \cap Y
    BY AmongList DEF IsTree
  <2> QED BY <2>1 DEF IsTree
<1> HIDE DEF ids
<1>2. \A i \in DOMAIN ids : ids[i] \in Y
  BY <1>1 DEF ToSet
<1>3. ids = <<>> => Y = {}
  BY <1>1 DEF ToSet
<1>4. Y = {} => ids = <<>>
  <2> SUFFICES ASSUME Y = {} PROVE ids = <<>>
    OBVIOUS
  <2>1. Len(ids) \in Nat /\ \A k \in 1..Len(ids) : ids[k] \in Y
    BY <1>1, InList
  <2>2. Len(ids) = 0
    <3>1. 1 \notin 1..Len(ids)
      BY <2>1
    <3> QED BY <2>1, <3>1
  <2> QED BY <1>1, <2>2
<1> QED BY <1>1, <1>2, <1>3, <1>4 DEF ids

ErrorsIn(spans) == {Finding("error", x, 95) : x \in {y \in Ids(spans) : SpanOf(spans, y).error}}

\* ErrorFindings lists the errors.
LEMMA ErrorsAre ==
  ASSUME NEW spans, NEW tree, IsTree(tree, spans)
  PROVE  Lists(ErrorFindings(spans, tree), Ids(spans), ErrorsIn(spans))
<1> DEFINE Y == {y \in Ids(spans) : SpanOf(spans, y).error}
           C == [x \in Y |-> 95]
           ids == Among(tree.nodes, Y)
           c == [i \in DOMAIN ids |-> 95]
<1>1. ErrorFindings(spans, tree) = PerNode("error", ids, c)
  BY DEF ErrorFindings, IsTree
<1>2. ErrorsIn(spans) = Each("error", Y, C)
  BY DEF ErrorsIn, Each
<1>3. Y \subseteq Ids(spans)
  OBVIOUS
<1> HIDE DEF Y
<1>4. "error" \in ToSet(KIND_PRIORITY)
  BY Kinds, ZenonT(30)
<1>5. Sure(C, Y)
  BY DEF Sure
<1>6. \A i \in DOMAIN ids : ids[i] \in Y
  BY <1>3, AmongNodes
<1>7. InPlace(c, C, ids)
  BY <1>6 DEF InPlace
<1>8. ids = Among(tree.nodes, Y)
  OBVIOUS
<1> HIDE DEF C, c, ids
<1>9. Lists(PerNode("error", ids, c), Ids(spans), Each("error", Y, C))
  BY <1>3, <1>4, <1>5, <1>7, <1>8, SomeNodes
<1> QED BY <1>1, <1>2, <1>9

\* Confidences are below 100.
LEMMA AtMostIs == \A n \in Nat : \A b \in 0..95 : AtMost(n, b) \in 0..95
<1> QED BY DEF AtMost

\* The services of the spans have baselines.
Known(base, spans) == \A x \in Ids(spans) : base[SpanOf(spans, x).service] \in Nat

Breaches(spans, base) ==
  {x \in Ids(spans) :
     /\ base[SpanOf(spans, x).service] > 0
     /\ SpanOf(spans, x).duration >= BASELINE_MULTIPLIER * base[SpanOf(spans, x).service]}
BreachConfidence(spans, base, x) ==
  AtMost(55 + (SpanOf(spans, x).duration * 5) \div base[SpanOf(spans, x).service], 95)
BaselinesIn(spans, base) ==
  {Finding("baseline", x, BreachConfidence(spans, base, x)) : x \in Breaches(spans, base)}

\* BaselineFindings lists the breaches.
LEMMA BaselinesAre ==
  ASSUME NEW spans, NEW tree, IsTree(tree, spans), NEW base, Known(base, spans)
  PROVE  Lists(BaselineFindings(spans, tree, base), Ids(spans), BaselinesIn(spans, base))
<1> DEFINE Y == Breaches(spans, base)
           C == [x \in Y |-> BreachConfidence(spans, base, x)]
           ids == Among(tree.nodes, Y)
           c == [i \in DOMAIN ids |-> BreachConfidence(spans, base, ids[i])]
<1>1. BaselineFindings(spans, tree, base) = PerNode("baseline", ids, c)
  BY DEF BaselineFindings, IsTree, Breaches, BreachConfidence
<1>2. BaselinesIn(spans, base) = Each("baseline", Y, C)
  BY DEF BaselinesIn, Each
<1>3. Y \subseteq Ids(spans)
  BY DEF Breaches
<1>4. "baseline" \in ToSet(KIND_PRIORITY)
  BY Kinds, ZenonT(30)
<1>5. ASSUME NEW x \in Y PROVE BreachConfidence(spans, base, x) \in 0..95
  <2>1. PICK n \in Nat : n = base[SpanOf(spans, x).service] /\ n > 0
    BY <1>3 DEF Known, Breaches
  <2>2. PICK d \in Nat : d = SpanOf(spans, x).duration
    BY <1>3, SpanIs DEF IsTree
  <2>3. (d * 5) \div n \in Nat
    BY <2>1
  <2>4. 55 + (d * 5) \div n \in Nat
    BY <2>3, SMTT(30)
  <2>5. AtMost(55 + (d * 5) \div n, 95) \in 0..95
    <3>1. PICK m \in Nat : m = 55 + (d * 5) \div n
      BY <2>4
    <3> QED BY <3>1, AtMostIs, SMTT(30)
  <2> QED BY <2>1, <2>2, <2>5 DEF BreachConfidence
<1> HIDE DEF Y
<1>6. Sure(C, Y)
  BY <1>5 DEF Sure
<1>7. \A i \in DOMAIN ids : ids[i] \in Y
  BY <1>3, AmongNodes
<1>8. InPlace(c, C, ids)
  BY <1>7 DEF InPlace
<1>9. ids = Among(tree.nodes, Y)
  OBVIOUS
<1> HIDE DEF C, c, ids
<1>10. Lists(PerNode("baseline", ids, c), Ids(spans), Each("baseline", Y, C))
  BY <1>3, <1>4, <1>6, <1>8, <1>9, SomeNodes
<1> QED BY <1>1, <1>2, <1>10

\* Lists of none, of one, and of both.
LEMMA NoneListed == ASSUME NEW X PROVE Lists(<<>>, X, {})
<1>1. <<>> \in Seq(Reports(X)) /\ ToSet(<<>>) = {}
  BY DEF ToSet
<1> QED BY <1>1 DEF Lists

LEMMA OneListed ==
  ASSUME NEW X, NEW f \in Reports(X)
  PROVE  Lists(<<f>>, X, {f})
<1>1. <<f>> \in Seq(Reports(X))
  OBVIOUS
<1>2. DOMAIN <<f>> = 1..1 /\ <<f>>[1] = f
  OBVIOUS
<1>3. ToSet(<<f>>) = {f}
  BY <1>2 DEF ToSet
<1> QED BY <1>1, <1>3 DEF Lists

LEMMA BothListed ==
  ASSUME NEW X, NEW r, NEW s, NEW A, NEW B, Lists(r, X, A), Lists(s, X, B)
  PROVE  Lists(r \o s, X, A \cup B)
<1>1. r \in Seq(Reports(X)) /\ s \in Seq(Reports(X)) /\ ToSet(r) = A /\ ToSet(s) = B
  BY DEF Lists
<1>2. r \o s \in Seq(Reports(X)) /\ ToSet(r \o s) = ToSet(r) \cup ToSet(s)
  BY <1>1, InBoth
<1> QED BY <1>1, <1>2 DEF Lists

ShareOf(spans, x) == (SelfTime(spans, x) * 100) \div TotalDuration(spans)
SlowNodes(spans) ==
  {x \in Ids(spans) : /\ TotalDuration(spans) > 0
                      /\ ShareOf(spans, x) >= SELF_TIME_SHARE_THRESHOLD
                      /\ SelfTime(spans, x) >= MIN_SLOW_SPAN}
SlowIn(spans) == {Finding("slow", x, AtMost(50 + ShareOf(spans, x), 90)) : x \in SlowNodes(spans)}

\* SlowSpanFindings lists the slow spans.
LEMMA SlowAre ==
  ASSUME NEW spans, NEW tree, IsTree(tree, spans), tree.total = TotalDuration(spans)
  PROVE  Lists(SlowSpanFindings(spans, tree), Ids(spans), SlowIn(spans))
<1> DEFINE T == TotalDuration(spans)
           Y == SlowNodes(spans)
           C == [x \in Y |-> AtMost(50 + ShareOf(spans, x), 90)]
           ids == IF T =< 0 THEN <<>>
                  ELSE Among(tree.nodes, {x \in ToSet(tree.nodes) :
                                            /\ ShareOf(spans, x) >= SELF_TIME_SHARE_THRESHOLD
                                            /\ SelfTime(spans, x) >= MIN_SLOW_SPAN})
           c == [i \in DOMAIN ids |-> AtMost(50 + ShareOf(spans, ids[i]), 90)]
<1>1. SlowSpanFindings(spans, tree) = PerNode("slow", ids, c)
  BY DEF SlowSpanFindings, ShareOf
<1>2. SlowIn(spans) = Each("slow", Y, C)
  BY DEF SlowIn, Each
<1>3. Y \subseteq Ids(spans) /\ T \in Int
  BY DEF SlowNodes, IsTree
<1>4. CASE T =< 0
  <2>1. Y = {}
    BY <1>3, <1>4 DEF SlowNodes
  <2>2. Each("slow", Y, C) = {}
    BY <2>1 DEF Each
  <2>3. ids = <<>>
    BY <1>4
  <2>4. PerNode("slow", ids, c) = <<>>
    <3>1. DOMAIN ids = {}
      <4> HIDE DEF ids
      <4>1. DOMAIN <<>> = {}
        OBVIOUS
      <4> QED BY <2>3, <4>1
    <3> HIDE DEF ids, c
    <3>2. PerNode("slow", ids, c) = [i \in {} |-> Finding("slow", ids[i], c[i])]
      BY <3>1 DEF PerNode
    <3> QED BY <3>2
  <2> QED BY <1>1, <1>2, <2>2, <2>4, NoneListed
<1>5. CASE T > 0
  <2>1. ids = Among(tree.nodes, Y)
    <3>1. Y = {x \in ToSet(tree.nodes) : /\ ShareOf(spans, x) >= SELF_TIME_SHARE_THRESHOLD
                                         /\ SelfTime(spans, x) >= MIN_SLOW_SPAN}
      BY <1>5 DEF SlowNodes, IsTree
    <3> QED BY <1>3, <1>5, <3>1
  <2>2. "slow" \in ToSet(KIND_PRIORITY)
    BY Kinds
  <2>3. ASSUME NEW x \in Y PROVE AtMost(50 + ShareOf(spans, x), 90) \in 0..95
    <3>1. PICK t \in Nat : t = SelfTime(spans, x)
      BY <1>3, SelfTimeIs DEF IsTree
    <3>2. PICK d \in Nat : d = T /\ d > 0
      BY <1>3, <1>5
    <3>3. (t * 100) \div d \in Nat
      BY <3>2
    <3>4. 50 + (t * 100) \div d \in Nat
      BY <3>3
    <3>5. 50 + ShareOf(spans, x) \in Nat
      BY <3>1, <3>2, <3>4 DEF ShareOf
    <3> QED BY <3>5 DEF AtMost
  <2>4. \A i \in DOMAIN ids : ids[i] \in Y
    <3> HIDE DEF ids, Y
    <3> QED BY <1>3, <2>1, AmongNodes
  <2> HIDE DEF ids, Y
  <2>5. Sure(C, Y)
    BY <2>3 DEF Sure
  <2>6. InPlace(c, C, ids)
    BY <2>4 DEF InPlace
  <2> HIDE DEF C, c
  <2>7. Lists(PerNode("slow", ids, c), Ids(spans), Each("slow", Y, C))
    BY <1>3, <2>1, <2>2, <2>5, <2>6, SomeNodes
  <2> QED BY <1>1, <1>2, <2>7
<1> QED BY <1>3, <1>4, <1>5

WideNodes(spans) == {x \in Ids(spans) : Len(ChildrenOf(spans, x)) >= FAN_OUT_THRESHOLD}
Orphaned(spans) == {k \in DOMAIN spans : IsOrphan(spans, spans[k])}
MissingIn(spans) == IF Orphaned(spans) = {} THEN {} ELSE {Finding("missing", NoParent, 60)}
WideIn(spans) == {Finding("fan out", x, 45) : x \in WideNodes(spans)}

\* StructuralFindings lists the gap and the wide nodes.
LEMMA StructureIs ==
  ASSUME NEW spans, NEW tree, IsTree(tree, spans), tree.orphans = OrphanCount(spans)
  PROVE  Lists(StructuralFindings(spans, tree), Ids(spans), MissingIn(spans) \cup WideIn(spans))
<1> DEFINE Y == WideNodes(spans)
           C == [x \in Y |-> 45]
           ids == Among(tree.nodes, Y)
           c == [i \in DOMAIN ids |-> 45]
           first == IF tree.orphans > 0 THEN <<Finding("missing", NoParent, 60)>> ELSE <<>>
<1>1. StructuralFindings(spans, tree) = first \o PerNode("fan out", ids, c)
  BY DEF StructuralFindings, WideNodes, IsTree
<1>2. WideIn(spans) = Each("fan out", Y, C)
  BY DEF WideIn, Each
<1>3. Y \subseteq Ids(spans)
  BY DEF WideNodes
<1> HIDE DEF Y
<1>4. "fan out" \in ToSet(KIND_PRIORITY) /\ "missing" \in ToSet(KIND_PRIORITY)
  BY Kinds
<1>5. Sure(C, Y)
  BY DEF Sure
<1>6. \A i \in DOMAIN ids : ids[i] \in Y
  BY <1>3, AmongNodes
<1>7. InPlace(c, C, ids)
  BY <1>6 DEF InPlace
<1>8. ids = Among(tree.nodes, Y)
  OBVIOUS
<1> HIDE DEF C, c, ids
<1>9. Lists(PerNode("fan out", ids, c), Ids(spans), Each("fan out", Y, C))
  BY <1>3, <1>4, <1>5, <1>7, <1>8, SomeNodes
<1>10. Lists(first, Ids(spans), MissingIn(spans))
  <2>1. Finding("missing", NoParent, 60) \in Reports(Ids(spans))
    <3>1. NoParent \in Ids(spans) \cup {NoParent}
      OBVIOUS
    <3>2. 60 \in 0..95
      OBVIOUS
    <3> QED BY <1>4, <3>1, <3>2 DEF Finding, Reports
  <2>2. IsFiniteSet(Orphaned(spans)) /\ OrphanCount(spans) = Cardinality(Orphaned(spans))
    <3>1. Orphaned(spans) \in SUBSET (1..Len(spans)) /\ Len(spans) \in Nat
      BY DEF Orphaned, IsTree, WellFormed
    <3>2. IsFiniteSet(1..Len(spans))
      BY <3>1, CountTo
    <3>3. OrphanCount(spans) = Cardinality(Orphaned(spans))
      BY DEF OrphanCount, Orphaned
    <3> QED BY <3>1, <3>2, <3>3, FS_Subset
  <2>3. tree.orphans > 0 <=> Orphaned(spans) # {}
    <3>1. Cardinality(Orphaned(spans)) \in Nat
      BY <2>2, FS_CardinalityType
    <3>2. Cardinality(Orphaned(spans)) = 0 <=> Orphaned(spans) = {}
      BY <2>2, FS_EmptySet
    <3> QED BY <2>2, <3>1, <3>2
  <2>4. CASE Orphaned(spans) = {}
    BY <2>3, <2>4, NoneListed DEF MissingIn
  <2>5. CASE Orphaned(spans) # {}
    <3>1. first = <<Finding("missing", NoParent, 60)>> /\ MissingIn(spans) = {Finding("missing", NoParent, 60)}
      BY <2>3, <2>5 DEF MissingIn
    <3> QED BY <2>1, <3>1, OneListed
  <2> QED BY <2>4, <2>5
<1> HIDE DEF first
<1>11. Lists(PerNode("fan out", ids, c), Ids(spans), WideIn(spans))
  BY <1>2, <1>9
<1>12. Lists(first \o PerNode("fan out", ids, c), Ids(spans), MissingIn(spans) \cup WideIn(spans))
  BY <1>10, <1>11, BothListed
<1> QED BY <1>1, <1>12

\* A concatenation lists what its parts list.
LEMMA FlatList ==
  ASSUME NEW R, NEW ss, NEW N \in Nat, Parts(ss, R, N)
  PROVE  /\ FlattenSeq(ss) \in Seq(R)
         /\ \A x : x \in ToSet(FlattenSeq(ss)) <=> \E i \in 1..N : x \in ToSet(ss[i])
<1> DEFINE s == FlattenSeq(ss)
<1>1. s \in Seq(R) /\ \E b, c : Laid(s, ss, N, b, c)
  BY Laying
<1>2. PICK b, c : Laid(s, ss, N, b, c)
  BY <1>1
<1> HIDE DEF s
<1>3. \A i \in 1..N : ss[i] \in Seq(R)
  BY DEF Parts
<1>4. ASSUME NEW x \in ToSet(s) PROVE \E i \in 1..N : x \in ToSet(ss[i])
  <2>1. PICK k \in 1..Len(s) : s[k] = x
    BY <1>1, InList
  <2>2. b[k] \in 1..N /\ c[k] \in 1..Len(ss[b[k]]) /\ s[k] = ss[b[k]][c[k]]
    BY <1>2 DEF Laid
  <2>3. ss[b[k]][c[k]] \in ToSet(ss[b[k]])
    BY <1>3, <2>2, InList
  <2> QED BY <2>1, <2>2, <2>3
<1>5. ASSUME NEW i \in 1..N, NEW x \in ToSet(ss[i]) PROVE x \in ToSet(s)
  <2>1. PICK j \in 1..Len(ss[i]) : ss[i][j] = x
    BY <1>3, InList
  <2>2. PICK k \in 1..Len(s) : b[k] = i /\ c[k] = j
    BY <1>2, <2>1 DEF Laid
  <2>3. s[k] = x
    BY <1>2, <2>1, <2>2 DEF Laid
  <2> QED BY <1>1, <2>3, InList
<1>6. \A x : x \in ToSet(s) <=> \E i \in 1..N : x \in ToSet(ss[i])
  BY <1>4, <1>5
<1> QED BY <1>1, <1>6 DEF s

CallOf(spans, y) == <<SpanOf(spans, y).service, SpanOf(spans, y).operation>>
CallPlaces(spans, x, c) ==
  {i \in DOMAIN ChildrenOf(spans, x) : CallOf(spans, ChildrenOf(spans, x)[i]) = c}

\* CallsOf counts the calls under a node.
LEMMA CallsAre ==
  ASSUME NEW spans, WellFormed(spans), NEW x \in Ids(spans)
  PROVE  /\ IsFiniteSet(DOMAIN CallsOf(spans, x))
         /\ \A c : c \in DOMAIN CallsOf(spans, x) <=> CallPlaces(spans, x, c) # {}
         /\ \A c \in DOMAIN CallsOf(spans, x) :
              /\ CallsOf(spans, x)[c] = Cardinality(CallPlaces(spans, x, c))
              /\ CallsOf(spans, x)[c] \in Nat
<1> DEFINE kids == ChildrenOf(spans, x)
           call == [i \in DOMAIN kids |-> CallOf(spans, kids[i])]
           D == ToSet(call)
<1>1. CallsOf(spans, x) = [c \in D |-> Cardinality({i \in DOMAIN call : call[i] = c})]
  BY DEF CallsOf, CallOf
<1>2. Len(kids) \in Nat /\ DOMAIN kids = 1..Len(kids)
  <2>1. kids \in Seq(Ids(spans))
    BY ChildrenAre DEF IsByStart
  <2> QED BY <2>1
<1>3. IsFiniteSet(DOMAIN kids)
  BY <1>2, CountTo
<1>4. DOMAIN call = DOMAIN kids /\ \A i \in DOMAIN kids : call[i] = CallOf(spans, kids[i])
  OBVIOUS
<1>5. \A c : CallPlaces(spans, x, c) = {i \in DOMAIN call : call[i] = c}
  BY <1>4 DEF CallPlaces
<1> HIDE DEF kids, call
<1>6. D = {call[i] : i \in DOMAIN call}
  BY DEF ToSet
<1> HIDE DEF D
<1>7. IsFiniteSet(D)
  <2>1. call \in Surjection(DOMAIN kids, D)
    <3>1. call \in [DOMAIN kids -> D]
      <4>1. call = [i \in DOMAIN kids |-> call[i]]
        BY DEF call
      <4> QED BY <1>4, <1>6, <4>1
    <3> QED BY <1>4, <1>6, <3>1 DEF Surjection
  <2> QED BY <1>3, <2>1, FS_Surjection
<1>8. \A c : c \in D <=> CallPlaces(spans, x, c) # {}
  BY <1>5, <1>6
<1>9. \A c \in D : CallsOf(spans, x)[c] = Cardinality(CallPlaces(spans, x, c))
  BY <1>1, <1>5
<1>10. ASSUME NEW c PROVE Cardinality(CallPlaces(spans, x, c)) \in Nat
  <2>1. CallPlaces(spans, x, c) \in SUBSET DOMAIN kids
    BY DEF CallPlaces, kids
  <2> QED BY <1>3, <2>1, FS_Subset, FS_CardinalityType
<1>11. DOMAIN CallsOf(spans, x) = D
  BY <1>1
<1> QED BY <1>7, <1>8, <1>9, <1>10, <1>11

StormsAt(spans, x) == {c \in DOMAIN CallsOf(spans, x) : CallsOf(spans, x)[c] >= RETRY_THRESHOLD}
StormConfidence(spans, x, c) == AtMost(40 + 10 * CallsOf(spans, x)[c], 85)
RetriesAt(spans, x) == {Finding("retry", x, StormConfidence(spans, x, c)) : c \in StormsAt(spans, x)}
RetriesIn(spans) == UNION {RetriesAt(spans, x) : x \in Ids(spans)}

RetryList(spans, x) ==
  LET stormy == SetToSeq(StormsAt(spans, x))
  IN  [i \in DOMAIN stormy |-> Finding("retry", x, StormConfidence(spans, x, stormy[i]))]

\* A node's storms are listed.
LEMMA RetriesOfOne ==
  ASSUME NEW spans, WellFormed(spans), NEW x \in Ids(spans)
  PROVE  Lists(RetryList(spans, x), Ids(spans), RetriesAt(spans, x))
<1> DEFINE S == StormsAt(spans, x)
           stormy == SetToSeq(S)
           r == RetryList(spans, x)
<1>1. IsFiniteSet(S)
  <2>1. S \in SUBSET DOMAIN CallsOf(spans, x)
    BY DEF StormsAt
  <2> HIDE DEF S
  <2> QED BY <2>1, CallsAre, FS_Subset
<1>2. stormy \in Seq(S) /\ ToSet(stormy) = S
  <2> HIDE DEF S
  <2> QED BY <1>1, ListOfSet
<1>3. r = [i \in DOMAIN stormy |-> Finding("retry", x, StormConfidence(spans, x, stormy[i]))]
  BY DEF RetryList
<1>4. ASSUME NEW c \in S PROVE Finding("retry", x, StormConfidence(spans, x, c)) \in Reports(Ids(spans))
  <2>1. PICK n \in Nat : n = CallsOf(spans, x)[c]
    BY CallsAre DEF StormsAt
  <2>2. 40 + 10 * n \in Nat
    OBVIOUS
  <2>3. StormConfidence(spans, x, c) \in 0..95
    <3>1. PICK m \in Nat : m = 40 + 10 * n
      BY <2>2
    <3>2. AtMost(m, 85) \in 0..95
      BY AtMostIs, SMTT(30)
    <3> QED BY <2>1, <3>1, <3>2 DEF StormConfidence
  <2>4. "retry" \in ToSet(KIND_PRIORITY)
    BY Kinds
  <2> QED BY <2>3, <2>4 DEF Finding, Reports
<1> HIDE DEF stormy, r, S
<1>5. Len(stormy) \in Nat /\ DOMAIN stormy = 1..Len(stormy)
      /\ (\A k \in 1..Len(stormy) : stormy[k] \in S) /\ (\A c \in S : \E k \in 1..Len(stormy) : stormy[k] = c)
  BY <1>2, InList
<1>6. r \in Seq(Reports(Ids(spans)))
  BY <1>3, <1>4, <1>5
<1>7. DOMAIN r = 1..Len(stormy)
      /\ \A k \in 1..Len(stormy) : r[k] = Finding("retry", x, StormConfidence(spans, x, stormy[k]))
  BY <1>3, <1>5
<1>8. ToSet(r) = RetriesAt(spans, x)
  <2>1. \A f \in ToSet(r) : f \in RetriesAt(spans, x)
    BY <1>5, <1>7 DEF ToSet, RetriesAt, S
  <2>2. \A f \in RetriesAt(spans, x) : f \in ToSet(r)
    BY <1>5, <1>7 DEF ToSet, RetriesAt, S
  <2> QED BY <2>1, <2>2
<1> QED BY <1>6, <1>8 DEF Lists, r

\* RetryFindings lists the storms of all nodes.
LEMMA RetriesAre ==
  ASSUME NEW spans, NEW tree, IsTree(tree, spans)
  PROVE  Lists(RetryFindings(spans, tree), Ids(spans), RetriesIn(spans))
<1> DEFINE nodes == tree.nodes
           ss == [i \in DOMAIN nodes |-> RetryList(spans, nodes[i])]
           N == Len(nodes)
           R == Reports(Ids(spans))
<1>1. RetryFindings(spans, tree) = FlattenSeq(ss)
  BY DEF RetryFindings, RetryList, StormsAt, StormConfidence
<1>2. /\ N \in Nat /\ DOMAIN nodes = 1..N
      /\ \A k \in 1..N : nodes[k] \in Ids(spans)
      /\ \A x \in Ids(spans) : \E k \in 1..N : nodes[k] = x
  <2>1. nodes \in Seq(Ids(spans)) /\ ToSet(nodes) = Ids(spans)
    BY DEF IsTree
  <2> HIDE DEF nodes
  <2> QED BY <2>1, InList
<1>3. \A x \in Ids(spans) : RetryList(spans, x) \in Seq(R) /\ ToSet(RetryList(spans, x)) = RetriesAt(spans, x)
  BY RetriesOfOne DEF IsTree, Lists
<1> HIDE DEF nodes, N, R
<1>4. \A i \in 1..N : ss[i] = RetryList(spans, nodes[i])
  BY <1>2
<1>5. Parts(ss, R, N)
  <2>1. \A i \in 1..N : ss[i] \in Seq(R)
    BY <1>2, <1>3, <1>4
  <2>2. ss = [i \in 1..N |-> RetryList(spans, nodes[i])]
    BY <1>2
  <2> HIDE DEF ss
  <2>3. Len(ss) = N /\ (N = 0 => ss = <<>>)
    BY <1>2, <2>2
  <2> QED BY <2>1, <2>3 DEF Parts
<1>6. FlattenSeq(ss) \in Seq(R) /\ \A f : f \in ToSet(FlattenSeq(ss)) <=> \E i \in 1..N : f \in ToSet(ss[i])
  <2> HIDE DEF ss
  <2> QED BY <1>2, <1>5, FlatList
<1>7. ToSet(FlattenSeq(ss)) = RetriesIn(spans)
  <2>1. ASSUME NEW f \in ToSet(FlattenSeq(ss)) PROVE f \in RetriesIn(spans)
    <3>1. PICK i \in 1..N : f \in ToSet(ss[i])
      BY <1>6
    <3>2. f \in RetriesAt(spans, nodes[i])
      BY <1>2, <1>3, <1>4, <3>1
    <3> QED BY <1>2, <3>2 DEF RetriesIn
  <2>2. ASSUME NEW f \in RetriesIn(spans) PROVE f \in ToSet(FlattenSeq(ss))
    <3>1. PICK x \in Ids(spans) : f \in RetriesAt(spans, x)
      BY DEF RetriesIn
    <3>2. PICK i \in 1..N : nodes[i] = x
      BY <1>2
    <3>3. f \in ToSet(ss[i])
      BY <1>3, <1>4, <3>1, <3>2
    <3> QED BY <1>6, <3>3
  <2> QED BY <2>1, <2>2
<1> HIDE DEF ss
<1> QED BY <1>1, <1>6, <1>7 DEF Lists, R

Misses(spans) == {x \in Ids(spans) : SpanOf(spans, x).miss}
IsCacheFinding(A, spans) ==
  /\ A = {} <=> Misses(spans) = {}
  /\ \A f \in A : f.kind = "cache" /\ f.confidence = 50

\* CacheFindings lists at most one finding, and none without a miss.
LEMMA CacheIs ==
  ASSUME NEW spans, NEW tree, IsTree(tree, spans)
  PROVE  \E A : IsCacheFinding(A, spans) /\ Lists(CacheFindings(spans, tree), Ids(spans), A)
<1> DEFINE Y == Misses(spans)
           ids == Among(tree.nodes, Y)
<1>1. CacheFindings(spans, tree) =
        IF ids = <<>> THEN <<>> ELSE <<Finding("cache", Longest(spans, ids), 50)>>
  BY DEF CacheFindings, Misses, IsTree
<1>2. Y \subseteq Ids(spans)
  BY DEF Misses
<1>3. ids \in Seq(Ids(spans)) /\ (ids = <<>> <=> Y = {})
  <2> HIDE DEF Y
  <2> QED BY <1>2, AmongNodes
<1> HIDE DEF ids
<1>4. CASE ids = <<>>
  <2>1. IsCacheFinding({}, spans)
    BY <1>3, <1>4 DEF IsCacheFinding
  <2> QED BY <1>1, <1>4, <2>1, NoneListed
<1>5. CASE ids # <<>>
  <2> DEFINE f == Finding("cache", Longest(spans, ids), 50)
  <2>1. Longest(spans, ids) \in Ids(spans)
    <3>1. PICK m \in 1..Len(ids) : Longest(spans, ids) = ids[m]
      BY <1>3, <1>5, LongestIs DEF IsTree
    <3> QED BY <1>3, <3>1
  <2>2. "cache" \in ToSet(KIND_PRIORITY)
    BY Kinds
  <2>3. 50 \in 0..95
    OBVIOUS
  <2>4. f \in Reports(Ids(spans)) /\ f.kind = "cache" /\ f.confidence = 50
    BY <2>1, <2>2, <2>3 DEF Finding, Reports
  <2> HIDE DEF f
  <2>5. IsCacheFinding({f}, spans)
    BY <1>3, <1>5, <2>4 DEF IsCacheFinding
  <2>6. Lists(<<f>>, Ids(spans), {f})
    BY <2>4, OneListed
  <2>7. CacheFindings(spans, tree) = <<f>>
    BY <1>1, <1>5 DEF f
  <2> QED BY <2>5, <2>6, <2>7
<1> QED BY <1>4, <1>5

\* A tree as build_trace() makes it.
IsBuilt(tree, spans) ==
  /\ IsTree(tree, spans)
  /\ tree.total = TotalDuration(spans)
  /\ tree.orphans = OrphanCount(spans)

\* The tree of a trace that is shown is one.
LEMMA BuiltIs ==
  ASSUME NEW spans, WellFormed(spans), ~RejectsCycle(spans), spans # <<>>
  PROVE  IsBuilt(BuildTrace(spans), spans)
<1>1. TotalDuration(spans) \in Int
  BY TotalIs
<1> QED BY <1>1, TreeIs DEF IsBuilt, IsTree

AllIn(spans, base, A) ==
  ErrorsIn(spans) \cup BaselinesIn(spans, base) \cup SlowIn(spans)
    \cup RetriesIn(spans) \cup A \cup (MissingIn(spans) \cup WideIn(spans))

InFront(found) == \A i, j \in DOMAIN found : i < j => Order(found[i]) =< Order(found[j])

\* All that is found, in its order.
LEMMA FoundAre ==
  ASSUME NEW spans, NEW tree, IsBuilt(tree, spans), NEW base, Known(base, spans)
  PROVE  /\ \E A : IsCacheFinding(A, spans) /\ Lists(Analyse(spans, tree, base), Ids(spans), AllIn(spans, base, A))
         /\ InFront(Analyse(spans, tree, base))
<1> DEFINE X == Ids(spans)
           found == ErrorFindings(spans, tree) \o BaselineFindings(spans, tree, base)
                      \o SlowSpanFindings(spans, tree) \o RetryFindings(spans, tree)
                      \o CacheFindings(spans, tree) \o StructuralFindings(spans, tree)
           key == [i \in DOMAIN found |-> Order(found[i])]
           r == Sorted(found, DOMAIN found, key)
<1>1. IsTree(tree, spans) /\ tree.total = TotalDuration(spans) /\ tree.orphans = OrphanCount(spans)
  BY DEF IsBuilt
<1>2. PICK A : IsCacheFinding(A, spans) /\ Lists(CacheFindings(spans, tree), X, A)
  BY <1>1, CacheIs
<1>3. Lists(found, X, AllIn(spans, base, A))
  <2>1. Lists(ErrorFindings(spans, tree), X, ErrorsIn(spans))
    BY <1>1, ErrorsAre
  <2>2. Lists(BaselineFindings(spans, tree, base), X, BaselinesIn(spans, base))
    BY <1>1, BaselinesAre
  <2>3. Lists(SlowSpanFindings(spans, tree), X, SlowIn(spans))
    BY <1>1, SlowAre
  <2>4. Lists(RetryFindings(spans, tree), X, RetriesIn(spans))
    BY <1>1, RetriesAre
  <2>5. Lists(StructuralFindings(spans, tree), X, MissingIn(spans) \cup WideIn(spans))
    BY <1>1, StructureIs
  <2> HIDE DEF X
  <2>6. Lists(ErrorFindings(spans, tree) \o BaselineFindings(spans, tree, base), X,
              ErrorsIn(spans) \cup BaselinesIn(spans, base))
    BY <2>1, <2>2, BothListed
  <2>7. Lists(ErrorFindings(spans, tree) \o BaselineFindings(spans, tree, base)
                \o SlowSpanFindings(spans, tree), X,
              ErrorsIn(spans) \cup BaselinesIn(spans, base) \cup SlowIn(spans))
    BY <2>3, <2>6, BothListed
  <2>8. Lists(ErrorFindings(spans, tree) \o BaselineFindings(spans, tree, base)
                \o SlowSpanFindings(spans, tree) \o RetryFindings(spans, tree), X,
              ErrorsIn(spans) \cup BaselinesIn(spans, base) \cup SlowIn(spans) \cup RetriesIn(spans))
    BY <2>4, <2>7, BothListed
  <2>9. Lists(ErrorFindings(spans, tree) \o BaselineFindings(spans, tree, base)
                \o SlowSpanFindings(spans, tree) \o RetryFindings(spans, tree)
                \o CacheFindings(spans, tree), X,
              ErrorsIn(spans) \cup BaselinesIn(spans, base) \cup SlowIn(spans) \cup RetriesIn(spans) \cup A)
    BY <1>2, <2>8, BothListed
  <2>10. Lists(found, X,
               ErrorsIn(spans) \cup BaselinesIn(spans, base) \cup SlowIn(spans) \cup RetriesIn(spans) \cup A
                 \cup (MissingIn(spans) \cup WideIn(spans)))
    BY <2>5, <2>9, BothListed
  <2> QED BY <2>10 DEF AllIn
<1>4. Analyse(spans, tree, base) = r
  BY DEF Analyse
<1> HIDE DEF found
<1>5. found \in Seq(Reports(X)) /\ ToSet(found) = AllIn(spans, base, A)
  BY <1>3 DEF Lists
<1>6. Len(found) \in Nat /\ DOMAIN found = 1..Len(found) /\ \A i \in DOMAIN found : found[i] \in Reports(X)
  BY <1>5
<1>7. \A i \in DOMAIN found : key[i] = Order(found[i]) /\ key[i] \in Int
  BY <1>6, OrderIs
<1>8. PICK p : IsSorting(r, found, DOMAIN found, key, p)
  <2> DEFINE I == DOMAIN found
  <2>1. I \subseteq 1..Len(found) /\ \A i \in I : key[i] \in Int
    BY <1>6, <1>7
  <2> HIDE DEF I, key
  <2> QED BY <1>6, <2>1, Sorting DEF I
<1> HIDE DEF key
<1>9. r \in Seq(Reports(X)) /\ ToSet(r) = {found[i] : i \in DOMAIN found}
  <2> DEFINE I == DOMAIN found
             R == Reports(X)
  <2>1. I \subseteq DOMAIN found /\ (\A i \in I : key[i] \in Int) /\ found \in Seq(R)
    BY <1>5, <1>7
  <2> HIDE DEF I, R
  <2>2. Sorted(found, I, key) \in Seq(R) /\ ToSet(Sorted(found, I, key)) = {found[i] : i \in I}
    BY <2>1, SortedList
  <2> QED BY <2>2 DEF I, R
<1>10. Lists(r, X, AllIn(spans, base, A))
  BY <1>5, <1>9 DEF Lists, ToSet
<1>11. InFront(r)
  <2> DEFINE n == Cardinality(DOMAIN found)
  <2>1. /\ r = [k \in 1..n |-> found[p[k]]]
        /\ \A k \in 1..n : p[k] \in DOMAIN found
        /\ \A k, m \in 1..n : k < m => p[k] # p[m] /\ key[p[k]] <= key[p[m]]
    BY <1>8 DEF IsSorting
  <2> HIDE DEF n, r
  <2>2. DOMAIN r = 1..n /\ \A k \in 1..n : r[k] = found[p[k]] /\ key[p[k]] = Order(r[k])
    BY <1>7, <2>1
  <2> QED BY <2>1, <2>2 DEF InFront
<1> HIDE DEF r
<1> QED BY <1>2, <1>4, <1>10, <1>11

\* Findings say of what kind they are.
LEMMA KindsAre ==
  ASSUME NEW spans, NEW base, NEW A, IsCacheFinding(A, spans), NEW f
  PROVE  /\ f \in ErrorsIn(spans) => f.kind = "error"
         /\ f \in BaselinesIn(spans, base) => f.kind = "baseline"
         /\ f \in SlowIn(spans) => f.kind = "slow"
         /\ f \in RetriesIn(spans) => f.kind = "retry"
         /\ f \in A => f.kind = "cache"
         /\ f \in MissingIn(spans) => f.kind = "missing"
         /\ f \in WideIn(spans) => f.kind = "fan out"
<1>1. \A kind, id, confidence : Finding(kind, id, confidence).kind = kind
  BY DEF Finding
<1>2. f \in ErrorsIn(spans) => f.kind = "error"
  BY <1>1 DEF ErrorsIn
<1>3. f \in BaselinesIn(spans, base) => f.kind = "baseline"
  BY <1>1 DEF BaselinesIn
<1>4. f \in SlowIn(spans) => f.kind = "slow"
  BY <1>1 DEF SlowIn
<1>5. f \in RetriesIn(spans) => f.kind = "retry"
  BY <1>1 DEF RetriesIn, RetriesAt
<1>6. f \in A => f.kind = "cache"
  BY DEF IsCacheFinding
<1>7. f \in MissingIn(spans) => f.kind = "missing"
  BY <1>1 DEF MissingIn
<1>8. f \in WideIn(spans) => f.kind = "fan out"
  <2> SUFFICES ASSUME f \in WideIn(spans) PROVE f.kind = "fan out"
    OBVIOUS
  <2>1. PICK x : f = Finding("fan out", x, 45)
    BY DEF WideIn
  <2> QED BY <2>1 DEF Finding
<1> QED BY <1>2, <1>3, <1>4, <1>5, <1>6, <1>7, <1>8

\* The findings of a kind are those listed for it.
LEMMA OfKind ==
  ASSUME NEW spans, NEW base, NEW A, IsCacheFinding(A, spans), NEW f \in AllIn(spans, base, A)
  PROVE  /\ f.kind = "error" <=> f \in ErrorsIn(spans)
         /\ f.kind = "retry" <=> f \in RetriesIn(spans)
         /\ f.kind = "missing" <=> f \in MissingIn(spans)
<1>1. \/ f \in ErrorsIn(spans) \/ f \in BaselinesIn(spans, base) \/ f \in SlowIn(spans)
      \/ f \in RetriesIn(spans) \/ f \in A \/ f \in MissingIn(spans) \/ f \in WideIn(spans)
  BY DEF AllIn
<1> QED BY <1>1, KindsAre

\* There is a baseline for each span that is stored.
LEMMA BaselinesKnown ==
  ASSUME SpansInv, CopiesAgree
  PROVE  Known(Baselines, stored)
<1> SUFFICES ASSUME NEW x \in Ids(stored) PROVE Baselines[SpanOf(stored, x).service] \in Nat
  BY DEF Known
<1>1. PICK k \in 1..Len(stored) : SpanOf(stored, x) = stored[k]
  BY StoredIsWellFormed, SpanIs
<1>2. stored[k] \in trace /\ trace \in Traces
  BY DEF SpansInv
<1> QED BY <1>1, <1>2, BaselinesAssumption DEF BaselinesAssumption

\* What the debug service says of what is stored.
LEMMA FindingsAre ==
  ASSUME SpansInv, Shown, CopiesAgree
  PROVE  LET found == DebugQuery.findings IN
         /\ \E A : IsCacheFinding(A, stored) /\ Lists(found, Ids(stored), AllIn(stored, Baselines, A))
         /\ InFront(found)
<1>1. WellFormed(stored)
  BY StoredIsWellFormed
<1>2. stored # <<>> /\ ~RejectsCycle(stored) /\ ~HasCycle(stored)
  BY ShownIs
<1>3. IsBuilt(BuildTrace(stored), stored)
  BY <1>1, <1>2, BuiltIs
<1>4. Known(Baselines, stored)
  BY BaselinesKnown
<1>5. DebugQuery.findings = Analyse(stored, BuildTrace(stored), Baselines)
  BY <1>2 DEF DebugQuery
<1> QED BY <1>3, <1>4, <1>5, FoundAre

\* Errors come first, since Order ranks them below all else.
LEMMA ErrorsInFront ==
  ASSUME SpansInv, Shown, CopiesAgree
  PROVE  ErrorsComeFirst(DebugQuery.findings)
<1> DEFINE found == DebugQuery.findings
<1>1. PICK A : IsCacheFinding(A, stored) /\ Lists(found, Ids(stored), AllIn(stored, Baselines, A))
  BY FindingsAre
<1>2. InFront(found)
  BY FindingsAre
<1> HIDE DEF found
<1>3. /\ found \in Seq(Reports(Ids(stored))) /\ Len(found) \in Nat /\ DOMAIN found = 1..Len(found)
      /\ ToSet(found) = AllIn(stored, Baselines, A)
      /\ \A i \in DOMAIN found : found[i] \in Reports(Ids(stored)) /\ found[i] \in AllIn(stored, Baselines, A)
      /\ \A f \in AllIn(stored, Baselines, A) : \E i \in DOMAIN found : found[i] = f
  <2>1. found \in Seq(Reports(Ids(stored))) /\ ToSet(found) = AllIn(stored, Baselines, A)
    BY <1>1 DEF Lists
  <2>2. Len(found) \in Nat /\ DOMAIN found = 1..Len(found) /\ \A i \in DOMAIN found : found[i] \in Reports(Ids(stored))
    BY <2>1
  <2> QED BY <2>1, <2>2, InList
<1>4. \A i, j \in DOMAIN found : i < j /\ found[j].kind = "error" => found[i].kind = "error"
  <2> SUFFICES ASSUME NEW i \in DOMAIN found, NEW j \in DOMAIN found, i < j, found[j].kind = "error"
               PROVE  found[i].kind = "error"
    OBVIOUS
  <2>1. Order(found[i]) =< Order(found[j])
    BY <1>2 DEF InFront
  <2>2. Order(found[j]) =< 100 /\ Order(found[j]) \in Int
    BY <1>3, OrderIs
  <2>3. Order(found[i]) \in Int /\ (found[i].kind # "error" => Order(found[i]) >= 105)
    BY <1>3, OrderIs
  <2> QED BY <2>1, <2>2, <2>3
<1> DEFINE E == {y \in Ids(stored) : SpanOf(stored, y).error}
<1>5. {found[i].id : i \in {j \in DOMAIN found : found[j].kind = "error"}} = E
  <2>1. ASSUME NEW i \in DOMAIN found, found[i].kind = "error" PROVE found[i].id \in E
    <3>1. found[i] \in ErrorsIn(stored)
      BY <1>1, <1>3, <2>1, OfKind
    <3> QED BY <3>1 DEF ErrorsIn, Finding
  <2>2. ASSUME NEW x \in E PROVE \E i \in DOMAIN found : found[i].kind = "error" /\ found[i].id = x
    <3> DEFINE f == Finding("error", x, 95)
    <3>1. f \in ErrorsIn(stored) /\ f.kind = "error" /\ f.id = x
      BY DEF ErrorsIn, Finding
    <3> HIDE DEF f
    <3>2. f \in AllIn(stored, Baselines, A)
      BY <3>1 DEF AllIn
    <3> QED BY <1>3, <3>1, <3>2
  <2> QED BY <2>1, <2>2
<1>6. {s.id : s \in {t \in ToSet(stored) : t.error}} = E
  <2>1. WellFormed(stored) /\ DOMAIN stored = 1..Len(stored)
    BY StoredIsWellFormed DEF WellFormed
  <2>2. ASSUME NEW s \in ToSet(stored), s.error PROVE s.id \in E
    <3>1. PICK k \in 1..Len(stored) : stored[k] = s
      BY <2>1 DEF ToSet
    <3>2. s.id \in Ids(stored) /\ SpanOf(stored, s.id) = s
      BY <2>1, <3>1, ParentIs
    <3> QED BY <2>2, <3>2
  <2>3. ASSUME NEW x \in E PROVE \E s \in ToSet(stored) : s.error /\ s.id = x
    <3>1. PICK k \in 1..Len(stored) : stored[k].id = x /\ SpanOf(stored, x) = stored[k]
      BY <2>1, SpanIs
    <3>2. stored[k] \in ToSet(stored)
      BY <2>1 DEF ToSet
    <3> QED BY <3>1, <3>2
  <2> QED BY <2>2, <2>3
<1>7. ErrorsComeFirst(found)
  BY <1>4, <1>5, <1>6 DEF ErrorsComeFirst
<1> QED BY <1>7 DEF found

\* The calls of a storm are different spans of the trace.
LEMMA StormsAreCounted ==
  ASSUME SpansInv, Shown, CopiesAgree
  PROVE  StormsAreReal(DebugQuery.findings)
<1> SUFFICES ASSUME Single, NEW f \in Only(DebugQuery.findings, "retry")
             PROVE  \E s \in trace :
                      Cardinality({t \in trace : /\ t.parent = f.id
                                                 /\ t.service = s.service
                                                 /\ t.operation = s.operation}) >= RETRY_THRESHOLD
  BY DEF StormsAreReal
<1>1. WellFormed(stored) /\ StoredOnce(stored)
  BY StoredIsWellFormed
<1>2. PICK A : IsCacheFinding(A, stored)
                 /\ Lists(DebugQuery.findings, Ids(stored), AllIn(stored, Baselines, A))
  BY FindingsAre
<1>3. f \in RetriesIn(stored)
  <2>1. f \in AllIn(stored, Baselines, A) /\ f.kind = "retry"
    BY <1>2 DEF Only, Lists
  <2> QED BY <1>2, <2>1, OfKind
<1>4. PICK x \in Ids(stored) : f \in RetriesAt(stored, x)
  BY <1>3 DEF RetriesIn
<1>5. PICK c \in StormsAt(stored, x) : f = Finding("retry", x, StormConfidence(stored, x, c))
  BY <1>4 DEF RetriesAt
<1>6. f.id = x
  BY <1>5 DEF Finding
<1> DEFINE kids == ChildrenOf(stored, x)
           I == CallPlaces(stored, x, c)
<1>7. Cardinality(I) >= RETRY_THRESHOLD /\ Cardinality(I) \in Nat /\ I # {}
  BY <1>1, <1>5, CallsAre DEF StormsAt
<1>8. /\ Len(kids) \in Nat /\ DOMAIN kids = 1..Len(kids)
      /\ \A i \in DOMAIN kids : kids[i] \in Ids(stored) /\ ParentOf(stored, kids[i]) = x
      /\ \A i, j \in DOMAIN kids : kids[i] = kids[j] => i = j
  <2>1. kids \in Seq(Ids(stored)) /\ kids = Kids(stored)[x]
    BY <1>1, ChildrenAre DEF IsByStart
  <2>2. /\ \A i \in 1..Len(kids) : Par(stored)[kids[i]] = x
        /\ Siblings(kids, Ids(stored), Par(stored), Starts(stored))
    BY <1>1, <2>1, ChildrenAre
  <2> HIDE DEF kids
  <2>3. Len(kids) \in Nat /\ DOMAIN kids = 1..Len(kids) /\ \A i \in 1..Len(kids) : kids[i] \in Ids(stored)
    BY <2>1
  <2>4. \A i \in 1..Len(kids) : ParentOf(stored, kids[i]) = x
    BY <2>2, <2>3 DEF Par
  <2>5. \A i, j \in 1..Len(kids) : kids[i] = kids[j] => i = j
    <3>1. \A i, j \in 1..Len(kids) : i < j => kids[i] # kids[j]
      BY <2>2 DEF Siblings
    <3>2. \A i, j \in 1..Len(kids) : i < j \/ j < i \/ i = j
      BY <2>3
    <3> QED BY <3>1, <3>2
  <2> QED BY <2>3, <2>4, <2>5
<1>9. PICK i \in I : TRUE
  BY <1>7
<1> DEFINE s == SpanOf(stored, kids[i])
           T == {t \in trace : t.parent = f.id /\ t.service = s.service /\ t.operation = s.operation}
           g == [j \in I |-> SpanOf(stored, kids[j])]
<1>10. I \subseteq DOMAIN kids /\ \A j \in I : CallOf(stored, kids[j]) = c
  BY DEF CallPlaces
<1>11. \A y \in Ids(stored) : SpanOf(stored, y) \in trace /\ SpanOf(stored, y).id = y
  <2> SUFFICES ASSUME NEW y \in Ids(stored) PROVE SpanOf(stored, y) \in trace /\ SpanOf(stored, y).id = y
    OBVIOUS
  <2>1. PICK k \in 1..Len(stored) : SpanOf(stored, y) = stored[k]
    BY <1>1, SpanIs
  <2>2. stored[k] \in trace
    BY DEF SpansInv
  <2> QED BY <1>1, <2>1, <2>2, SpanIs
<1> HIDE DEF kids, I
<1>12. s \in trace
  BY <1>8, <1>9, <1>10, <1>11
<1>13. \A j \in I : SpanOf(stored, kids[j]) \in T
  <2> SUFFICES ASSUME NEW j \in I PROVE SpanOf(stored, kids[j]) \in T
    OBVIOUS
  <2>1. kids[j] \in Ids(stored) /\ SpanOf(stored, kids[j]).parent = x
    BY <1>8, <1>10 DEF ParentOf
  <2>2. CallOf(stored, kids[j]) = CallOf(stored, kids[i])
    BY <1>9, <1>10
  <2>3. /\ SpanOf(stored, kids[j]).service = SpanOf(stored, kids[i]).service
        /\ SpanOf(stored, kids[j]).operation = SpanOf(stored, kids[i]).operation
    BY <2>2 DEF CallOf
  <2> QED BY <1>6, <1>11, <2>1, <2>3
<1>14. \A j, k \in I : SpanOf(stored, kids[j]) = SpanOf(stored, kids[k]) => j = k
  <2> SUFFICES ASSUME NEW j \in I, NEW k \in I, SpanOf(stored, kids[j]) = SpanOf(stored, kids[k]) PROVE j = k
    OBVIOUS
  <2>1. kids[j] = kids[k]
    BY <1>8, <1>10, <1>11
  <2> QED BY <1>8, <1>10, <2>1
<1>15. IsFiniteSet(T)
  <2>1. IsFiniteSet(trace)
    BY TracesAssumption DEF TracesAssumption, SpansInv
  <2>2. T \in SUBSET trace
    OBVIOUS
  <2> HIDE DEF T
  <2> QED BY <2>1, <2>2, FS_Subset
<1> HIDE DEF T
<1>16. g \in Injection(I, T)
  BY <1>13, <1>14 DEF Injection, IsInjective
<1>17. Cardinality(I) <= Cardinality(T) /\ Cardinality(T) \in Nat
  <2> HIDE DEF g
  <2> QED BY <1>15, <1>16, FS_Injection, FS_CardinalityType
<1>18. Cardinality(T) >= RETRY_THRESHOLD
  BY <1>7, <1>17, ThresholdAssumption DEF ThresholdAssumption
<1> QED BY <1>12, <1>18 DEF T

\* A gap is reported where a span waits.
LEMMA MissingIsSaid ==
  ASSUME SpansInv, Shown, CopiesAgree
  PROVE  MissingIsReported(DebugQuery.findings)
<1> DEFINE missing == Only(DebugQuery.findings, "missing")
<1>1. PICK A : IsCacheFinding(A, stored)
                 /\ Lists(DebugQuery.findings, Ids(stored), AllIn(stored, Baselines, A))
  BY FindingsAre
<1>2. missing = MissingIn(stored)
  <2>1. ToSet(DebugQuery.findings) = AllIn(stored, Baselines, A)
    BY <1>1 DEF Lists
  <2>2. MissingIn(stored) \subseteq AllIn(stored, Baselines, A)
    BY DEF AllIn
  <2>3. \A f \in AllIn(stored, Baselines, A) : f.kind = "missing" <=> f \in MissingIn(stored)
    BY <1>1, OfKind
  <2> QED BY <2>1, <2>2, <2>3 DEF Only
<1>3. MissingIn(stored) # {} <=> Orphaned(stored) # {}
  BY DEF MissingIn
<1>4. Orphaned(stored) # {} <=> \E s \in ToSet(stored) : s.parent # NoParent /\ s.parent \notin Ids(stored)
  BY DEF Orphaned, IsOrphan, ToSet
<1> QED BY <1>2, <1>3, <1>4 DEF MissingIsReported

\* Errors are all reported, in front of what is inferred; calls named a storm
\* were really made; and it is said that part is missing exactly while a span
\* waits for its parent: for every trace, however its spans arrive.
\* (analyse, KIND_PRIORITY, _retry_findings, _structural_findings)
THEOREM FindingsHold == DebugSpec => []FindingsAreReal
<1>1. SpansInv => FindingsAreReal
  BY ErrorsInFront, StormsAreCounted, MissingIsSaid DEF FindingsAreReal
<1> QED BY <1>1, StoreInvAlways, PTL

-----------------------------------------------------------------------------
(***************************************************************************)
(* Times along the walks.                                                  *)
(***************************************************************************)

\* What the entries of s come to, by v.
Total(s, v) == SumFunction([i \in DOMAIN s |-> v[s[i]]])

\* How totals add up.
LEMMA TotalByOne ==
  ASSUME NEW X, NEW s \in Seq(X), NEW v \in [X -> Nat]
  PROVE  /\ Total(s, v) \in Nat
         /\ \E P : AddsUp(P, [i \in 1..Len(s) |-> v[s[i]]], Len(s)) /\ Total(s, v) = P[Len(s)]
<1> DEFINE h == [i \in 1..Len(s) |-> v[s[i]]]
<1>1. Len(s) \in Nat /\ DOMAIN s = 1..Len(s) /\ \A i \in 1..Len(s) : s[i] \in X
  OBVIOUS
<1>2. h \in [1..Len(s) -> Nat] /\ h \in [1..Len(s) -> Int]
  BY <1>1
<1>3. Total(s, v) = SumFunction(h)
  BY <1>1 DEF Total
<1> HIDE DEF h
<1>4. SumFunction(h) \in Nat
  BY <1>1, <1>2, SumOfNaturals
<1>5. \E P : AddsUp(P, h, Len(s)) /\ SumFunction(h) = P[Len(s)]
  BY <1>1, <1>2, PartialSums
<1> QED BY <1>3, <1>4, <1>5 DEF h

LEMMA TotalOfBoth ==
  ASSUME NEW X, NEW s \in Seq(X), NEW t \in Seq(X), NEW v \in [X -> Nat]
  PROVE  Total(s \o t, v) = Total(s, v) + Total(t, v)
<1> DEFINE u == s \o t
<1>1. /\ u \in Seq(X) /\ Len(s) \in Nat /\ Len(t) \in Nat /\ Len(u) = Len(s) + Len(t)
      /\ \A k \in 1..Len(s) : k \in 1..Len(u) /\ u[k] = s[k]
      /\ \A j \in 1..Len(t) : Len(s) + j \in 1..Len(u) /\ u[Len(s) + j] = t[j]
  <2>1. u \in Seq(X)
    OBVIOUS
  <2> HIDE DEF u
  <2> QED BY <2>1, Concatenated, SMTT(60) DEF u
<1> HIDE DEF u
<1>2. PICK P : AddsUp(P, [i \in 1..Len(u) |-> v[u[i]]], Len(u)) /\ Total(u, v) = P[Len(u)]
  BY <1>1, TotalByOne
<1>3. PICK Q : AddsUp(Q, [i \in 1..Len(s) |-> v[s[i]]], Len(s)) /\ Total(s, v) = Q[Len(s)]
  BY TotalByOne
<1>4. PICK R : AddsUp(R, [i \in 1..Len(t) |-> v[t[i]]], Len(t)) /\ Total(t, v) = R[Len(t)]
  BY TotalByOne
<1>5. P[0] = 0 /\ \A n \in 1..Len(u) : P[n] = P[n - 1] + v[u[n]]
  BY <1>2 DEF AddsUp
<1>6. Q \in [0..Len(s) -> Int] /\ Q[0] = 0 /\ \A n \in 1..Len(s) : Q[n] = Q[n - 1] + v[s[n]]
  BY <1>3 DEF AddsUp
<1>7. R \in [0..Len(t) -> Int] /\ R[0] = 0 /\ \A n \in 1..Len(t) : R[n] = R[n - 1] + v[t[n]]
  BY <1>4 DEF AddsUp
<1>8. \A n \in 1..Len(t) : v[t[n]] \in Int
  OBVIOUS
<1> DEFINE S == {n \in Nat : n <= Len(s) => P[n] = Q[n]}
           U == {n \in Nat : n <= Len(t) => P[Len(s) + n] = Q[Len(s)] + R[n]}
<1>9. Nat \subseteq S
  <2>1. 0 \in S
    BY <1>5, <1>6
  <2>2. ASSUME NEW n \in S PROVE n + 1 \in S
    <3> SUFFICES ASSUME n + 1 <= Len(s) PROVE P[n + 1] = Q[n + 1]
      OBVIOUS
    <3>1. n + 1 \in 1..Len(s) /\ (n + 1) - 1 = n /\ P[n] = Q[n]
      <4>1. n \in Nat /\ n <= Len(s) /\ P[n] = Q[n]
        BY <1>1, SMTT(30)
      <4>2. Len(s) \in Nat
        BY <1>1
      <4> HIDE DEF S
      <4> QED BY <4>1, <4>2, SMTT(30)
    <3>2. P[n + 1] = P[n] + v[u[n + 1]] /\ u[n + 1] = s[n + 1]
      BY <1>1, <1>5, <3>1
    <3>3. Q[n + 1] = Q[n] + v[s[n + 1]]
      BY <1>6, <3>1
    <3> QED BY <3>1, <3>2, <3>3
  <2>3. S \subseteq Nat
    OBVIOUS
  <2> HIDE DEF S
  <2> QED BY <2>1, <2>2, <2>3, NaturalInduction
<1>10. P[Len(s)] = Q[Len(s)] /\ Q[Len(s)] \in Int
  <2>1. Len(s) \in S
    <3> HIDE DEF S
    <3> QED BY <1>1, <1>9
  <2>2. Len(s) \in 0..Len(s) /\ Len(s) <= Len(s)
    BY <1>1
  <2>3. P[Len(s)] = Q[Len(s)]
    BY <2>1, <2>2
  <2> HIDE DEF S
  <2> QED BY <1>6, <2>2, <2>3
<1>11. Nat \subseteq U
  <2>1. 0 \in U
    BY <1>1, <1>7, <1>10
  <2>2. ASSUME NEW n \in U PROVE n + 1 \in U
    <3> SUFFICES ASSUME n + 1 <= Len(t) PROVE P[Len(s) + (n + 1)] = Q[Len(s)] + R[n + 1]
      OBVIOUS
    <3>1. n + 1 \in 1..Len(t) /\ n \in 0..Len(t) /\ (n + 1) - 1 = n /\ P[Len(s) + n] = Q[Len(s)] + R[n]
      BY <1>1, SMTT(30)
    <3>2. Len(s) + (n + 1) \in 1..Len(u) /\ (Len(s) + (n + 1)) - 1 = Len(s) + n
          /\ u[Len(s) + (n + 1)] = t[n + 1]
      BY <1>1, <3>1
    <3>3. P[Len(s) + (n + 1)] = P[Len(s) + n] + v[t[n + 1]]
      BY <1>5, <3>2
    <3>4. R[n + 1] = R[n] + v[t[n + 1]] /\ R[n] \in Int
      BY <1>7, <3>1
    <3> QED BY <1>8, <1>10, <3>1, <3>3, <3>4, SMTT(30)
  <2>3. U \subseteq Nat
    OBVIOUS
  <2> HIDE DEF U
  <2> QED BY <2>1, <2>2, <2>3, NaturalInduction
<1>12. P[Len(u)] = Q[Len(s)] + R[Len(t)]
  BY <1>1, <1>11
<1> QED BY <1>2, <1>3, <1>4, <1>12 DEF u

LEMMA TotalOfOne ==
  ASSUME NEW X, NEW x \in X, NEW v \in [X -> Nat]
  PROVE  <<x>> \in Seq(X) /\ Total(<<x>>, v) = v[x] /\ Total(<<>>, v) = 0
<1>1. <<x>> \in Seq(X) /\ Len(<<x>>) = 1 /\ <<x>>[1] = x
  OBVIOUS
<1>2. PICK s \in Seq(X) : s = <<x>>
  BY <1>1
<1>3. PICK P : AddsUp(P, [i \in 1..Len(s) |-> v[s[i]]], Len(s)) /\ Total(s, v) = P[Len(s)]
  BY TotalByOne
<1>4. P[1] = P[1 - 1] + v[s[1]] /\ P[0] = 0 /\ Total(s, v) = P[1]
  BY <1>1, <1>2, <1>3 DEF AddsUp
<1>5. Total(s, v) = v[x]
  BY <1>1, <1>2, <1>4
<1>6. PICK e \in Seq(X) : e = <<>>
  <2>1. <<>> \in Seq(X)
    OBVIOUS
  <2> QED BY <2>1
<1>7. PICK Q : AddsUp(Q, [i \in 1..Len(e) |-> v[e[i]]], Len(e)) /\ Total(e, v) = Q[Len(e)]
  BY TotalByOne
<1>8. Total(e, v) = 0
  BY <1>6, <1>7 DEF AddsUp
<1> QED BY <1>1, <1>2, <1>5, <1>6, <1>8

\* If what g gives for each entry of ks comes to no less than the entry does, so
\* does the concatenation.
LEMMA TotalOfFlat ==
  ASSUME NEW X, NEW ks \in Seq(X), NEW g \in [X -> Seq(X)], NEW v \in [X -> Nat], NEW u \in [X -> Nat],
         \A i \in 1..Len(ks) : Total(g[ks[i]], v) >= u[ks[i]]
  PROVE  /\ FlattenSeq(Mapped(ks, g)) \in Seq(X)
         /\ Total(FlattenSeq(Mapped(ks, g)), v) >= Total(ks, u)
<1> DEFINE ss == Mapped(ks, g)
           N == Len(ks)
<1>1. N \in Nat /\ DOMAIN ks = 1..N /\ \A i \in 1..N : ks[i] \in X
  OBVIOUS
<1>2. Parts(ss, X, N)
  BY MappedParts
<1>3. Len(ss) = N /\ (N = 0 => ss = <<>>) /\ \A n \in 1..N : ss[n] \in Seq(X) /\ ss[n] = g[ks[n]]
  <2>1. \A n \in 1..N : ss[n] = g[ks[n]]
    BY <1>1 DEF Mapped
  <2> HIDE DEF ss
  <2> QED BY <1>2, <2>1 DEF Parts
<1> HIDE DEF ss
<1>4. PICK f \in [0..N -> Seq(X)] : /\ f[0] = <<>>
                                    /\ \A n \in 1..N : f[n] = f[n - 1] \o ss[n]
                                    /\ FlattenSeq(ss) = f[N]
  <2>1. PICK f : Flattens(f, ss, X, N)
    <3> HIDE DEF N
    <3> QED BY <1>1, <1>2, Flattening
  <2> QED BY <2>1 DEF Flattens
<1>5. PICK P : AddsUp(P, [i \in 1..N |-> u[ks[i]]], N) /\ Total(ks, u) = P[N]
  BY TotalByOne
<1>6. P \in [0..N -> Int] /\ P[0] = 0 /\ \A n \in 1..N : P[n] = P[n - 1] + u[ks[n]]
  BY <1>5 DEF AddsUp
<1> DEFINE S == {n \in Nat : n <= N => Total(f[n], v) >= P[n]}
<1>7. 0 \in S
  <2>1. Total(<<>>, v) \in Nat
    <3>1. <<>> \in Seq(X)
      OBVIOUS
    <3> QED BY <3>1, TotalByOne
  <2> QED BY <1>4, <1>6, <2>1
<1>8. ASSUME NEW n \in S PROVE n + 1 \in S
  <2> SUFFICES ASSUME n + 1 <= N PROVE Total(f[n + 1], v) >= P[n + 1]
    OBVIOUS
  <2>1. n + 1 \in 1..N /\ n \in 0..N /\ (n + 1) - 1 = n /\ Total(f[n], v) >= P[n]
    BY <1>1
  <2>2. f[n + 1] = f[n] \o ss[n + 1] /\ f[n] \in Seq(X) /\ ss[n + 1] \in Seq(X)
    BY <1>3, <1>4, <2>1
  <2>3. Total(f[n + 1], v) = Total(f[n], v) + Total(ss[n + 1], v)
    BY <2>2, TotalOfBoth, SMTT(30)
  <2>4. Total(ss[n + 1], v) >= u[ks[n + 1]]
    BY <1>3, <2>1
  <2>5. P[n + 1] = P[n] + u[ks[n + 1]] /\ P[n] \in Int /\ u[ks[n + 1]] \in Int
    <3> HIDE DEF N
    <3>1. P[n + 1] = P[n] + u[ks[n + 1]]
      BY <1>6, <2>1
    <3>2. P[n] \in Int
      BY <1>6, <2>1
    <3>3. u[ks[n + 1]] \in Int
      BY <1>1, <2>1
    <3> QED BY <3>1, <3>2, <3>3
  <2>6. Total(f[n], v) \in Nat /\ Total(ss[n + 1], v) \in Nat
    BY <2>2, TotalByOne
  <2>7. PICK a, b, p, q \in Int : /\ a = Total(f[n], v) /\ b = Total(ss[n + 1], v)
                                  /\ p = P[n] /\ q = u[ks[n + 1]]
    BY <2>5, <2>6, SMTT(30)
  <2>8. a >= p /\ b >= q
    BY <2>1, <2>4, <2>7
  <2>9. a + b >= p + q
    BY <2>8
  <2> QED BY <2>3, <2>5, <2>7, <2>9
<1>9. Nat \subseteq S
  <2>1. S \subseteq Nat
    OBVIOUS
  <2> HIDE DEF S
  <2> QED BY <1>7, <1>8, <2>1, NaturalInduction
<1>10. Total(f[N], v) >= P[N] /\ f[N] \in Seq(X)
  <2>1. N \in S
    <3> HIDE DEF S, N
    <3> QED BY <1>1, <1>9
  <2>2. N \in 0..N
    BY <1>1
  <2> HIDE DEF N
  <2> QED BY <1>4, <2>1, <2>2
<1> QED BY <1>4, <1>5, <1>10 DEF ss

\* What a span and its children come to covers the span: so a walk covers where
\* it starts.
LEMMA WalksCover ==
  ASSUME NEW X, NEW par, NEW kids, NEW d, NEW N \in Nat, Forest(X, par, kids, d, N),
         NEW w \in [X -> Seq(X)], w = OneUp(X, kids, w),
         NEW v \in [X -> Nat], NEW u \in [X -> Nat],
         \A x \in X : v[x] + Total(kids[x], u) >= u[x]
  PROVE  \A x \in X : Total(w[x], v) >= u[x]
<1> DEFINE S == {x \in X : Total(w[x], v) >= u[x]}
<1>1. ASSUME NEW x \in X, \A i \in 1..Len(kids[x]) : kids[x][i] \in S PROVE x \in S
  <2> DEFINE below == FlattenSeq(Mapped(kids[x], w))
  <2>1. kids[x] \in Seq(X)
    BY DEF Forest
  <2>2. \A i \in 1..Len(kids[x]) : Total(w[kids[x][i]], v) >= u[kids[x][i]]
    BY <1>1
  <2>3. PICK ks \in Seq(X) : ks = kids[x]
    BY <2>1
  <2>4. FlattenSeq(Mapped(ks, w)) \in Seq(X) /\ Total(FlattenSeq(Mapped(ks, w)), v) >= Total(ks, u)
    <3>1. \A i \in 1..Len(ks) : Total(w[ks[i]], v) >= u[ks[i]]
      BY <2>2, <2>3
    <3> QED BY <3>1, TotalOfFlat
  <2>5. below \in Seq(X) /\ Total(below, v) >= Total(kids[x], u)
    BY <2>3, <2>4
  <2>6. w[x] = <<x>> \o below
    BY DEF OneUp
  <2> HIDE DEF below
  <2>7. <<x>> \in Seq(X) /\ Total(<<x>>, v) = v[x]
    BY TotalOfOne
  <2>8. Total(w[x], v) = v[x] + Total(below, v)
    <3>1. PICK h \in Seq(X) : h = <<x>>
      BY <2>7
    <3>2. Total(h \o below, v) = Total(h, v) + Total(below, v)
      BY <2>5, TotalOfBoth
    <3> QED BY <2>6, <2>7, <3>1, <3>2
  <2>9. Total(below, v) \in Nat /\ Total(kids[x], u) \in Nat /\ v[x] \in Nat /\ u[x] \in Nat
    BY <2>1, <2>5, TotalByOne
  <2>10. Total(w[x], v) >= u[x]
    BY <2>5, <2>8, <2>9
  <2> QED BY <2>10
<1>2. X \subseteq S
  <2> HIDE DEF S
  <2>1. Rises(S, X, kids)
    BY <1>1 DEF Rises
  <2> QED BY <2>1, BottomUp
<1> QED BY <1>2

\* Together the times of their own explain the roots; none exceeds the trace.
LEMMA TimesCovered ==
  ASSUME SpansInv
  PROVE  TimeIsAccounted
<1> SUFFICES ASSUME Shown, CopiesAgree
             PROVE  LET nodes == Nodes(stored) IN
                    /\ SumFunction([i \in DOMAIN nodes |-> SelfTime(stored, nodes[i])])
                         >= SumOf(stored, RootsOf(stored))
                    /\ \A id \in ToSet(nodes) : SelfTime(stored, id) \in 0..TotalDuration(stored)
  BY DEF TimeIsAccounted
<1>1. WellFormed(stored) /\ stored # <<>> /\ ~RejectsCycle(stored)
  BY StoredIsWellFormed, ShownIs
<1> DEFINE X == Ids(stored)
           kids == Kids(stored)
           nodes == Nodes(stored)
           roots == RootsOf(stored)
           v == [x \in X |-> SelfTime(stored, x)]
           u == [x \in X |-> SpanOf(stored, x).duration]
<1>2. nodes \in Seq(X) /\ ToSet(nodes) = X
  BY <1>1, TreeIs
<1>3. ASSUME NEW x \in X PROVE SelfTime(stored, x) \in 0..TotalDuration(stored)
  <2>1. SelfTime(stored, x) \in Nat /\ SelfTime(stored, x) <= SpanOf(stored, x).duration
    BY <1>1, SelfTimeIs
  <2>2. PICK k \in 1..Len(stored) : SpanOf(stored, x) = stored[k]
    BY <1>1, SpanIs
  <2>3. stored[k].duration <= TotalDuration(stored) /\ TotalDuration(stored) \in Int
    BY <1>1, TotalIs
  <2>4. SpanOf(stored, x).duration \in Nat
    BY <1>1, SpanIs
  <2> QED BY <2>1, <2>2, <2>3, <2>4
<1>4. v \in [X -> Nat] /\ u \in [X -> Nat]
  <2>1. \A x \in X : SelfTime(stored, x) \in Nat
    BY <1>1, SelfTimeIs
  <2>2. \A x \in X : SpanOf(stored, x).duration \in Nat
    BY <1>1, SpanIs
  <2> QED BY <2>1, <2>2
<1>5. ASSUME NEW ks \in Seq(X) PROVE SumOf(stored, ks) = Total(ks, u)
  <2>1. DOMAIN ks = 1..Len(ks) /\ \A i \in DOMAIN ks : ks[i] \in X
    OBVIOUS
  <2>2. \A i \in DOMAIN ks : u[ks[i]] = SpanOf(stored, ks[i]).duration
    BY <2>1
  <2> HIDE DEF u
  <2>3. [i \in DOMAIN ks |-> SpanOf(stored, ks[i]).duration] = [i \in DOMAIN ks |-> u[ks[i]]]
    BY <2>2
  <2> QED BY <2>3 DEF SumOf, Total
<1>6. PICK d : \E N \in Nat : Forest(X, Par(stored), kids, d, N)
  BY <1>1, SpansAreForest
<1>7. PICK N \in Nat : Forest(X, Par(stored), kids, d, N)
  BY <1>6
<1>8. PICK w : /\ Walks(X, Par(stored), kids, d, w)
               /\ w = OneUp(X, kids, w)
               /\ nodes = FlattenSeq(Mapped(roots, w))
  BY <1>1, <1>7, NodesAre
<1>9. \A x \in X : v[x] + Total(kids[x], u) >= u[x]
  <2> SUFFICES ASSUME NEW x \in X PROVE v[x] + Total(kids[x], u) >= u[x]
    OBVIOUS
  <2>1. kids[x] = ChildrenOf(stored, x) /\ kids[x] \in Seq(X)
    BY <1>1, ChildrenAre DEF IsByStart
  <2>2. Total(kids[x], u) = SumOf(stored, ChildrenOf(stored, x))
    BY <1>5, <2>1
  <2>3. SelfTime(stored, x) + SumOf(stored, ChildrenOf(stored, x)) >= SpanOf(stored, x).duration
    BY <1>1, SelfTimeIs
  <2>4. v[x] = SelfTime(stored, x) /\ u[x] = SpanOf(stored, x).duration
    OBVIOUS
  <2> QED BY <2>2, <2>3, <2>4
<1>10. roots \in Seq(X)
  BY <1>1, RootsAre
<1>11. SumFunction([i \in DOMAIN nodes |-> SelfTime(stored, nodes[i])]) = Total(nodes, v)
  <2>1. \A i \in DOMAIN nodes : nodes[i] \in X
    BY <1>2 DEF ToSet
  <2>2. \A i \in DOMAIN nodes : v[nodes[i]] = SelfTime(stored, nodes[i])
    BY <2>1
  <2> HIDE DEF v, nodes
  <2>3. [i \in DOMAIN nodes |-> SelfTime(stored, nodes[i])] = [i \in DOMAIN nodes |-> v[nodes[i]]]
    BY <2>2
  <2> QED BY <2>3 DEF Total
<1>12. Total(nodes, v) >= SumOf(stored, roots)
  <2>1. w \in [X -> Seq(X)]
    BY <1>8 DEF Walks
  <2> DEFINE par == Par(stored)
  <2> HIDE DEF X, kids, v, u, nodes, roots, par
  <2>2. Forest(X, par, kids, d, N)
    BY <1>7 DEF par
  <2>3. \A x \in X : Total(w[x], v) >= u[x]
    BY <1>4, <1>8, <1>9, <2>1, <2>2, WalksCover
  <2>4. \A i \in 1..Len(roots) : Total(w[roots[i]], v) >= u[roots[i]]
    BY <1>10, <2>3
  <2>5. Total(FlattenSeq(Mapped(roots, w)), v) >= Total(roots, u)
    BY <1>4, <1>10, <2>1, <2>4, TotalOfFlat
  <2> QED BY <1>5, <1>8, <1>10, <2>5
<1> QED BY <1>2, <1>3, <1>11, <1>12

\* One entry flattens to what it is, none to nothing.
LEMMA OneFlat ==
  ASSUME NEW X, NEW g \in [X -> Seq(X)], NEW y \in X
  PROVE  FlattenSeq(Mapped(<<>>, g)) = <<>> /\ FlattenSeq(Mapped(<<y>>, g)) = g[y]
<1>1. ASSUME NEW ks \in Seq(X)
      PROVE  \E f \in [0..Len(ks) -> Seq(X)] :
               /\ f[0] = <<>>
               /\ \A n \in 1..Len(ks) : f[n] = f[n - 1] \o g[ks[n]]
               /\ FlattenSeq(Mapped(ks, g)) = f[Len(ks)]
  <2> DEFINE ss == Mapped(ks, g)
  <2>1. Len(ks) \in Nat /\ DOMAIN ks = 1..Len(ks)
    OBVIOUS
  <2>2. \A n \in 1..Len(ks) : ss[n] = g[ks[n]]
    BY <2>1, SMTT(30) DEF Mapped
  <2>3. PICK N \in Nat : N = Len(ks)
    BY <2>1, ZenonT(30)
  <2>4. Parts(ss, X, N)
    BY <2>3, MappedParts
  <2> HIDE DEF ss
  <2>6. PICK f \in [0..N -> Seq(X)] : /\ f[0] = <<>>
                                      /\ \A n \in 1..N : f[n] = f[n - 1] \o ss[n]
                                      /\ FlattenSeq(ss) = f[N]
    <3>1. PICK f : Flattens(f, ss, X, N)
      BY <2>4, Flattening
    <3> QED BY <3>1 DEF Flattens
  <2>7. \A n \in 1..N : f[n] = f[n - 1] \o g[ks[n]]
    BY <2>2, <2>3, <2>6, ZenonT(30)
  <2> QED BY <2>3, <2>6, <2>7 DEF ss
<1>2. FlattenSeq(Mapped(<<>>, g)) = <<>>
  <2>1. <<>> \in Seq(X) /\ Len(<<>>) = 0
    OBVIOUS
  <2>2. PICK ks \in Seq(X) : ks = <<>> /\ Len(ks) = 0
    BY <2>1
  <2>3. FlattenSeq(Mapped(ks, g)) = <<>>
    BY <1>1, <2>2
  <2> QED BY <2>2, <2>3
<1>3. FlattenSeq(Mapped(<<y>>, g)) = g[y]
  <2>1. <<y>> \in Seq(X) /\ Len(<<y>>) = 1 /\ <<y>>[1] = y
    OBVIOUS
  <2>2. PICK ks \in Seq(X) : ks = <<y>> /\ Len(ks) = 1 /\ ks[1] = y
    BY <2>1
  <2>3. PICK f \in [0..Len(ks) -> Seq(X)] :
          /\ f[0] = <<>>
          /\ \A n \in 1..Len(ks) : f[n] = f[n - 1] \o g[ks[n]]
          /\ FlattenSeq(Mapped(ks, g)) = f[Len(ks)]
    BY <1>1
  <2>4. f[1] = <<>> \o g[y] /\ FlattenSeq(Mapped(ks, g)) = f[1]
    <3>1. 1 \in 1..Len(ks) /\ 1 - 1 = 0
      BY <2>2
    <3>2. f[1] = f[1 - 1] \o g[ks[1]]
      BY <2>3, <3>1
    <3> QED BY <2>2, <2>3, <3>1, <3>2
  <2>6. PICK s \in Seq(X) : s = g[y]
    OBVIOUS
  <2>7. <<>> \o s = s
    OBVIOUS
  <2> QED BY <2>2, <2>4, <2>6, <2>7
<1> QED BY <1>2, <1>3

-----------------------------------------------------------------------------
(***************************************************************************)
(* The critical path.                                                      *)
(***************************************************************************)

\* The one child the critical path goes on with, as a forest of its own.
Heirs(spans) ==
  [x \in Ids(spans) |-> IF Kids(spans)[x] = <<>> THEN <<>> ELSE <<Longest(spans, Kids(spans)[x])>>]
HeirOf(spans) ==
  [y \in Ids(spans) |-> IF Par(spans)[y] \in Ids(spans) /\ Longest(spans, Kids(spans)[Par(spans)[y]]) = y
                        THEN Par(spans)[y] ELSE NoParent]

\* It is one: of the same depths.
LEMMA HeirsAreForest ==
  ASSUME NEW spans, WellFormed(spans), NEW d, NEW N \in Nat,
         Forest(Ids(spans), Par(spans), Kids(spans), d, N)
  PROVE  Forest(Ids(spans), HeirOf(spans), Heirs(spans), d, N)
<1> DEFINE X == Ids(spans)
           par == Par(spans)
           kids == Kids(spans)
           heir == HeirOf(spans)
           heirs == Heirs(spans)
<1>1. /\ \A x \in X : d[x] \in 0..N /\ kids[x] \in Seq(X)
      /\ \A x \in X : \A i \in 1..Len(kids[x]) : par[kids[x][i]] = x
      /\ \A y \in X : par[y] \in X =>
           d[par[y]] < d[y] /\ \E i \in 1..Len(kids[par[y]]) : kids[par[y]][i] = y
  BY DEF Forest
<1>2. NoParent \notin X
  BY IdsAre
<1>3. ASSUME NEW x \in X
      PROVE  /\ heirs[x] \in Seq(X)
             /\ \A i \in 1..Len(heirs[x]) : heir[heirs[x][i]] = x
  <2>1. PICK ks \in Seq(X) : ks = kids[x]
    BY <1>1
  <2>2. CASE ks = <<>>
    <3>1. heirs[x] = <<>>
      BY <2>1, <2>2 DEF Heirs
    <3>2. PICK e \in Seq(X) : e = <<>>
      <4>1. <<>> \in Seq(X)
        OBVIOUS
      <4> QED BY <4>1
    <3>3. 1..Len(e) = {}
      BY <3>2
    <3> QED BY <3>1, <3>2, <3>3
  <2>3. CASE ks # <<>>
    <3>1. PICK m \in 1..Len(ks) : Longest(spans, ks) = ks[m]
      BY <2>3, LongestIs
    <3>2. PICK y \in X : y = ks[m]
      OBVIOUS
    <3>3. heirs[x] = <<y>>
      BY <2>1, <2>3, <3>1, <3>2 DEF Heirs
    <3>4. par[y] = x
      BY <1>1, <2>1, <3>2
    <3>5. heir[y] = x
      BY <2>1, <3>1, <3>2, <3>4 DEF HeirOf
    <3>6. <<y>> \in Seq(X) /\ Len(<<y>>) = 1 /\ <<y>>[1] = y
      OBVIOUS
    <3>7. \A i \in 1..1 : i = 1
      OBVIOUS
    <3> QED BY <3>3, <3>5, <3>6, <3>7
  <2> QED BY <2>2, <2>3
<1>4. ASSUME NEW y \in X, heir[y] \in X
      PROVE  d[heir[y]] < d[y] /\ \E i \in 1..Len(heirs[heir[y]]) : heirs[heir[y]][i] = y
  <2>1. heir[y] = par[y] /\ par[y] \in X /\ Longest(spans, kids[par[y]]) = y
    BY <1>2, <1>4 DEF HeirOf
  <2>2. d[par[y]] < d[y]
    BY <1>1, <2>1
  <2>3. kids[par[y]] # <<>>
    <3>1. PICK ks \in Seq(X) : ks = kids[par[y]]
      BY <1>1, <2>1
    <3>2. \E i \in 1..Len(ks) : ks[i] = y
      BY <1>1, <2>1, <3>1
    <3>3. ks # <<>>
      BY <3>2
    <3> QED BY <3>1, <3>3
  <2>4. heirs[par[y]] = <<y>>
    BY <2>1, <2>3 DEF Heirs
  <2>5. 1 \in 1..Len(<<y>>) /\ <<y>>[1] = y
    OBVIOUS
  <2> QED BY <2>1, <2>2, <2>4, <2>5
<1> QED BY <1>1, <1>3, <1>4 DEF Forest

\* A chain of longest children, down to a span without children.
IsChain(s, x, spans) ==
  /\ s \in Seq(Ids(spans)) /\ Len(s) >= 1 /\ s[1] = x
  /\ \A i \in 1..Len(s) :
       /\ i < Len(s) => /\ Kids(spans)[s[i]] # <<>>
                        /\ s[i + 1] = Longest(spans, Kids(spans)[s[i]])
       /\ i = Len(s) => Kids(spans)[s[i]] = <<>>

\* A leaf is a chain, and one with a chain below it has a longer one.
LEMMA LeafChain ==
  ASSUME NEW spans, NEW x \in Ids(spans), Kids(spans)[x] = <<>>
  PROVE  IsChain(<<x>>, x, spans)
<1>1. <<x>> \in Seq(Ids(spans)) /\ Len(<<x>>) = 1 /\ <<x>>[1] = x
  OBVIOUS
<1>2. \A i \in 1..1 : i = 1 /\ ~(i < 1)
  OBVIOUS
<1> QED BY <1>1, <1>2 DEF IsChain

LEMMA LongerChain ==
  ASSUME NEW spans, NEW x \in Ids(spans), Kids(spans)[x] # <<>>,
         NEW y, y = Longest(spans, Kids(spans)[x]), NEW s, IsChain(s, y, spans)
  PROVE  IsChain(<<x>> \o s, x, spans)
<1> DEFINE X == Ids(spans)
           t == <<x>> \o s
<1>1. s \in Seq(X) /\ s[1] = y /\ Len(s) >= 1
  BY DEF IsChain
<1>2. /\ t \in Seq(X) /\ Len(s) \in Nat /\ Len(t) = Len(s) + 1 /\ t[1] = x
      /\ \A k \in 1..Len(s) : k + 1 \in 1..Len(s) + 1 /\ t[k + 1] = s[k]
      /\ \A k \in 1..Len(s) + 1 : k = 1 \/ (k - 1 \in 1..Len(s) /\ (k - 1) + 1 = k /\ k > 1)
  BY <1>1, Headed
<1> HIDE DEF t
<1>3. ASSUME NEW i \in 1..Len(t)
      PROVE  /\ i < Len(t) => Kids(spans)[t[i]] # <<>> /\ t[i + 1] = Longest(spans, Kids(spans)[t[i]])
             /\ i = Len(t) => Kids(spans)[t[i]] = <<>>
  <2>1. CASE i = 1
    <3>1. i # Len(t) /\ 1 \in 1..Len(s)
      BY <1>1, <1>2, <2>1
    <3>2. t[i + 1] = s[1]
      BY <1>2, <2>1, <3>1
    <3> QED BY <1>1, <1>2, <2>1, <3>1, <3>2
  <2>2. CASE i # 1
    <3>0. i - 1 \in 1..Len(s) /\ (i - 1) + 1 = i
      BY <1>2, <2>2
    <3>1. PICK k \in 1..Len(s) : k = i - 1 /\ t[i] = s[k] /\ k + 1 = i
      <4>1. t[(i - 1) + 1] = s[i - 1]
        BY <1>2, <3>0
      <4> QED BY <3>0, <4>1
    <3>2. /\ k < Len(s) => Kids(spans)[s[k]] # <<>> /\ s[k + 1] = Longest(spans, Kids(spans)[s[k]])
          /\ k = Len(s) => Kids(spans)[s[k]] = <<>>
      BY DEF IsChain
    <3>3. (i < Len(t) => k < Len(s)) /\ (i = Len(t) => k = Len(s)) /\ (k < Len(s) => k + 1 \in 1..Len(s))
      BY <1>2, <3>1
    <3>4. k < Len(s) => t[i + 1] = s[k + 1]
      BY <1>2, <3>1, <3>3
    <3> QED BY <3>1, <3>2, <3>3, <3>4
  <2> QED BY <2>1, <2>2
<1>4. Len(t) >= 1
  BY <1>2
<1> QED BY <1>2, <1>3, <1>4 DEF IsChain, t

\* A trace without a cycle has a root.
LEMMA HasRoot ==
  ASSUME NEW spans, WellFormed(spans), ~RejectsCycle(spans), spans # <<>>
  PROVE  RootsOf(spans) # <<>>
<1> DEFINE X == Ids(spans)
           par == Par(spans)
           kids == Kids(spans)
<1> SUFFICES ASSUME RootsOf(spans) = <<>> PROVE FALSE
  OBVIOUS
<1>1. PICK d : \E N \in Nat : Forest(X, par, kids, d, N)
  BY SpansAreForest
<1>2. PICK N \in Nat : Forest(X, par, kids, d, N)
  BY <1>1
<1>3. \A x \in X : par[x] \in X
  <2>1. Len(RootsOf(spans)) = 0
    OBVIOUS
  <2>2. 1..Len(RootsOf(spans)) = {}
    BY <2>1
  <2> QED BY <2>2, RootsAre
<1>4. X # {}
  <2>1. Len(spans) \in Nat \ {0}
    BY TotalIs
  <2>2. 1 \in 1..Len(spans)
    BY <2>1
  <2>3. X = {spans[i].id : i \in 1..Len(spans)}
    BY IdsAre
  <2>4. spans[1].id \in {spans[i].id : i \in 1..Len(spans)}
    BY <2>2
  <2> QED BY <2>3, <2>4
<1> DEFINE S == {}
<1>5. Falls(S, X, par)
  BY <1>3 DEF Falls
<1>6. X \subseteq S
  <2> HIDE DEF X, par, kids, S
  <2> QED BY <1>2, <1>5, TopDown
<1> QED BY <1>4, <1>6

\* The critical path starts at the longest root and goes on to a leaf.
LEMMA PathIs ==
  ASSUME NEW spans, WellFormed(spans), ~RejectsCycle(spans), spans # <<>>
  PROVE  /\ RootsOf(spans) # <<>>
         /\ IsChain(CriticalPath(spans), Longest(spans, RootsOf(spans)), spans)
<1> DEFINE X == Ids(spans)
           Loop(v) == [id \in X |-> <<id>> \o IF ChildrenOf(spans, id) = <<>> THEN <<>>
                                              ELSE v[Longest(spans, ChildrenOf(spans, id))]]
           below == CHOOSE v : v = Loop(v)
           roots == RootsOf(spans)
<1>1. roots # <<>>
  BY HasRoot
<1>2. CriticalPath(spans) = below[Longest(spans, roots)]
  BY <1>1 DEF CriticalPath
<1>3. PICK d : \E N \in Nat : Forest(X, Par(spans), Kids(spans), d, N)
  BY SpansAreForest
<1>4. PICK N \in Nat : Forest(X, Par(spans), Kids(spans), d, N)
  BY <1>3
<1>5. Forest(X, HeirOf(spans), Heirs(spans), d, N)
  BY <1>4, HeirsAreForest
<1>6. \A x \in X : Kids(spans)[x] = ChildrenOf(spans, x) /\ Kids(spans)[x] \in Seq(X)
  BY <1>4 DEF Kids, Forest
<1>7. \A x \in X : Kids(spans)[x] # <<>> => Longest(spans, Kids(spans)[x]) \in X
  <2> SUFFICES ASSUME NEW x \in X, Kids(spans)[x] # <<>>
               PROVE  Longest(spans, Kids(spans)[x]) \in X
    OBVIOUS
  <2>1. PICK ks \in Seq(X) : ks = Kids(spans)[x]
    BY <1>6
  <2>2. PICK m \in 1..Len(ks) : Longest(spans, ks) = ks[m]
    BY <2>1, LongestIs
  <2> QED BY <2>1, <2>2
<1>8. \E w : w = Loop(w)
  <2>1. PICK w \in [X -> Seq(X)] : w = OneUp(X, Heirs(spans), w)
    <3> HIDE DEF X
    <3> QED BY <1>5, WalkExists
  <2>2. ASSUME NEW x \in X PROVE OneUp(X, Heirs(spans), w)[x] = Loop(w)[x]
    <3>1. OneUp(X, Heirs(spans), w)[x] = <<x>> \o FlattenSeq(Mapped(Heirs(spans)[x], w))
      BY DEF OneUp
    <3>2. CASE Kids(spans)[x] = <<>>
      <4>1. FlattenSeq(Mapped(<<>>, w)) = <<>>
        BY OneFlat
      <4>2. Heirs(spans)[x] = <<>>
        BY <3>2 DEF Heirs
      <4>3. Loop(w)[x] = <<x>> \o <<>>
        BY <1>6, <3>2
      <4> QED BY <3>1, <4>1, <4>2, <4>3
    <3>3. CASE Kids(spans)[x] # <<>>
      <4>1. PICK y \in X : y = Longest(spans, Kids(spans)[x])
        BY <1>7, <3>3
      <4>2. FlattenSeq(Mapped(<<y>>, w)) = w[y]
        BY OneFlat
      <4>3. Heirs(spans)[x] = <<y>>
        BY <3>3, <4>1 DEF Heirs
      <4>4. Loop(w)[x] = <<x>> \o w[y]
        BY <1>6, <3>3, <4>1
      <4> QED BY <3>1, <4>2, <4>3, <4>4
    <3> QED BY <3>2, <3>3
  <2>3. OneUp(X, Heirs(spans), w) = Loop(w)
    <3>1. OneUp(X, Heirs(spans), w) = [x \in X |-> OneUp(X, Heirs(spans), w)[x]]
      BY DEF OneUp
    <3>2. Loop(w) = [x \in X |-> Loop(w)[x]]
      OBVIOUS
    <3> HIDE DEF Loop, X
    <3> QED BY <2>2, <3>1, <3>2
  <2> HIDE DEF Loop
  <2> QED BY <2>1, <2>3
<1>9. below = Loop(below)
  <2> HIDE DEF Loop
  <2> QED BY <1>8
<1> HIDE DEF below
<1> DEFINE S == {x \in X : IsChain(below[x], x, spans)}
<1>10. ASSUME NEW x \in X, \A i \in 1..Len(Heirs(spans)[x]) : Heirs(spans)[x][i] \in S
       PROVE  x \in S
  <2>1. CASE Kids(spans)[x] = <<>>
    <3>1. below[x] = <<x>> \o <<>>
      BY <1>6, <1>9, <2>1
    <3>2. <<x>> \o <<>> = <<x>>
      OBVIOUS
    <3>3. IsChain(<<x>>, x, spans)
      BY <2>1, LeafChain
    <3> QED BY <3>1, <3>2, <3>3
  <2>2. CASE Kids(spans)[x] # <<>>
    <3>1. PICK y \in X : y = Longest(spans, Kids(spans)[x])
      BY <1>7, <2>2
    <3>2. below[x] = <<x>> \o below[y]
      BY <1>6, <1>9, <2>2, <3>1
    <3>3. Heirs(spans)[x] = <<y>>
      BY <2>2, <3>1 DEF Heirs
    <3>4. 1 \in 1..Len(<<y>>) /\ <<y>>[1] = y
      OBVIOUS
    <3>5. IsChain(below[y], y, spans)
      BY <1>10, <3>3, <3>4
    <3>6. IsChain(<<x>> \o below[y], x, spans)
      BY <2>2, <3>1, <3>5, LongerChain
    <3> QED BY <3>2, <3>6
  <2> QED BY <2>1, <2>2
<1>11. X \subseteq S
  <2> DEFINE heirs == Heirs(spans)
             heir == HeirOf(spans)
  <2>1. Rises(S, X, heirs)
    BY <1>10 DEF Rises
  <2>2. Forest(X, heir, heirs, d, N)
    BY <1>5
  <2> HIDE DEF S, X, heirs, heir
  <2> QED BY <2>1, <2>2, BottomUp
<1>12. Longest(spans, roots) \in X
  <2>1. PICK ks \in Seq(X) : ks = roots
    BY RootsAre
  <2>2. PICK m \in 1..Len(ks) : Longest(spans, ks) = ks[m]
    BY <1>1, <2>1, LongestIs
  <2> QED BY <2>1, <2>2
<1>13. IsChain(below[Longest(spans, roots)], Longest(spans, roots), spans)
  BY <1>11, <1>12
<1> QED BY <1>1, <1>2, <1>13

\* The longest of a list of spans is one of them, and none of them is longer.
LEMMA LongestListed ==
  ASSUME NEW spans, WellFormed(spans), NEW I, I \subseteq 1..Len(spans), NEW ks,
         IsByStart(ks, spans, I), ks # <<>>
  PROVE  /\ \E k \in I : Longest(spans, ks) = spans[k].id
         /\ \A k \in I : spans[k].duration <= SpanOf(spans, Longest(spans, ks)).duration
<1>1. /\ ks \in Seq(Ids(spans))
      /\ \A i \in 1..Len(ks) : \E k \in I : ks[i] = spans[k].id
      /\ \A k \in I : \E i \in 1..Len(ks) : ks[i] = spans[k].id
      /\ StoredOnce(spans) => \A i, j \in 1..Len(ks) :
           i < j => ks[i] # ks[j] /\ Starts(spans)[ks[i]] <= Starts(spans)[ks[j]]
  BY ListHas
<1>2. PICK m \in 1..Len(ks) :
        /\ Longest(spans, ks) = ks[m]
        /\ \A j \in 1..Len(ks) : SpanOf(spans, ks[j]).duration <= SpanOf(spans, ks[m]).duration
  BY <1>1, LongestIs
<1>3. \E k \in I : Longest(spans, ks) = spans[k].id
  BY <1>1, <1>2
<1>4. ASSUME NEW k \in I PROVE spans[k].duration <= SpanOf(spans, Longest(spans, ks)).duration
  <2>1. PICK j \in 1..Len(ks) : ks[j] = spans[k].id
    BY <1>1
  <2>2. SpanOf(spans, ks[j]) = spans[k]
    BY <2>1, IdsAre
  <2>3. SpanOf(spans, ks[j]).duration <= SpanOf(spans, ks[m]).duration
    BY <1>2
  <2> QED BY <1>2, <2>2, <2>3
<1> QED BY <1>3, <1>4

\* No step of the critical path could have been longer, and it ends in a leaf.
LEMMA PathsAreLongest ==
  ASSUME SpansInv
  PROVE  PathIsLongest
<1> DEFINE path == CriticalPath(stored)
           parent == [i \in DOMAIN path |-> IF i = 1 THEN "root" ELSE path[i - 1]]
           Beside(i) == {s \in ToSet(stored) :
                IF i = 1 THEN s.parent \notin Ids(stored) ELSE s.parent = parent[i]}
           X == Ids(stored)
<1> SUFFICES ASSUME Shown, CopiesAgree
             PROVE  /\ \A i \in DOMAIN path :
                         /\ path[i] \in {s.id : s \in Beside(i)}
                         /\ \A s \in Beside(i) : s.duration =< SpanOf(stored, path[i]).duration
                    /\ \A s \in trace : s \in ToSet(stored) => s.parent # Last(path)
  BY DEF PathIsLongest
<1>1. WellFormed(stored) /\ stored # <<>> /\ ~RejectsCycle(stored)
  BY StoredIsWellFormed, ShownIs
<1>2. RootsOf(stored) # <<>> /\ IsChain(path, Longest(stored, RootsOf(stored)), stored)
  BY <1>1, PathIs
<1>3. DOMAIN stored = 1..Len(stored) /\ ToSet(stored) = {stored[k] : k \in 1..Len(stored)}
  BY <1>1 DEF WellFormed, ToSet
<1> HIDE DEF path
<1>4. path \in Seq(X) /\ Len(path) \in Nat \ {0} /\ DOMAIN path = 1..Len(path)
  <2>1. path \in Seq(X) /\ Len(path) >= 1
    BY <1>2 DEF IsChain
  <2>2. Len(path) \in Nat /\ DOMAIN path = 1..Len(path)
    BY <2>1
  <2> QED BY <2>1, <2>2
<1>10. path[1] = Longest(stored, RootsOf(stored))
  BY <1>2 DEF IsChain
<1>11. ASSUME NEW i \in 1..Len(path)
       PROVE  /\ i < Len(path) => /\ Kids(stored)[path[i]] # <<>>
                                  /\ path[i + 1] = Longest(stored, Kids(stored)[path[i]])
              /\ i = Len(path) => Kids(stored)[path[i]] = <<>>
  BY <1>2 DEF IsChain
<1>12. \A i \in 1..Len(path) : path[i] \in X
  BY <1>4
<1>5. ASSUME NEW i \in DOMAIN path, NEW I, I \subseteq 1..Len(stored),
             NEW ks, IsByStart(ks, stored, I), ks # <<>>, path[i] = Longest(stored, ks),
             Beside(i) = {stored[k] : k \in I}
      PROVE  /\ path[i] \in {s.id : s \in Beside(i)}
             /\ \A s \in Beside(i) : s.duration =< SpanOf(stored, path[i]).duration
  <2>1. /\ \E k \in I : Longest(stored, ks) = stored[k].id
        /\ \A k \in I : stored[k].duration <= SpanOf(stored, Longest(stored, ks)).duration
    BY <1>1, <1>5, LongestListed
  <2> HIDE DEF Beside
  <2> QED BY <1>5, <2>1
<1>6. ASSUME NEW i \in DOMAIN path
      PROVE  /\ path[i] \in {s.id : s \in Beside(i)}
             /\ \A s \in Beside(i) : s.duration =< SpanOf(stored, path[i]).duration
  <2>1. CASE i = 1
    <3> DEFINE I == RootPlaces(stored)
               ks == RootsOf(stored)
    <3>1. I \subseteq 1..Len(stored) /\ IsByStart(ks, stored, I)
      BY <1>1, RootsAre
    <3>2. Beside(i) = {stored[k] : k \in I}
      BY <1>3, <2>1 DEF RootPlaces
    <3>3. path[i] = Longest(stored, ks) /\ ks # <<>>
      BY <1>2, <1>10, <2>1
    <3> HIDE DEF I, ks, Beside
    <3> QED BY <1>5, <3>1, <3>2, <3>3
  <2>2. CASE i # 1
    <3>1. i - 1 \in 1..Len(path) /\ i - 1 < Len(path) /\ (i - 1) + 1 = i
      <4>1. i \in 1..Len(path) /\ Len(path) \in Nat
        BY <1>4
      <4> HIDE DEF X, parent, Beside
      <4> QED BY <2>2, <4>1
    <3>2. PICK y \in X : y = path[i - 1]
      BY <1>12, <3>1
    <3> DEFINE I == ChildPlaces(stored, y)
               ks == Kids(stored)[y]
    <3>3. I \subseteq 1..Len(stored) /\ IsByStart(ks, stored, I)
      BY <1>1, ChildrenAre
    <3>4. Beside(i) = {stored[k] : k \in I}
      <4>1. parent[i] = y
        BY <2>2, <3>2
      <4> QED BY <1>3, <2>2, <4>1 DEF ChildPlaces
    <3>5. path[i] = Longest(stored, ks) /\ ks # <<>>
      BY <1>11, <3>1, <3>2
    <3> HIDE DEF I, ks, Beside
    <3> QED BY <1>5, <3>3, <3>4, <3>5
  <2> QED BY <2>1, <2>2
<1>7. ASSUME NEW s \in ToSet(stored), s.parent = Last(path) PROVE FALSE
  <2>1. PICK k \in 1..Len(stored) : s = stored[k]
    BY <1>3
  <2>2. Last(path) = path[Len(path)] /\ Len(path) \in 1..Len(path)
    <3>1. Len(path) \in 1..Len(path)
      <4>1. Len(path) \in Nat \ {0}
        BY <1>4
      <4> QED BY <4>1
    <3> QED BY <3>1 DEF Last
  <2>3. PICK y \in X : y = path[Len(path)]
    BY <1>12, <2>2
  <2>4. Kids(stored)[y] = <<>>
    BY <1>11, <2>2, <2>3
  <2>5. k \in ChildPlaces(stored, y)
    BY <1>3, <1>7, <2>1, <2>2, <2>3 DEF ChildPlaces
  <2>6. /\ ChildPlaces(stored, y) \subseteq 1..Len(stored)
        /\ IsByStart(Kids(stored)[y], stored, ChildPlaces(stored, y))
    BY <1>1, ChildrenAre
  <2>7. \E j \in 1..Len(Kids(stored)[y]) : Kids(stored)[y][j] = stored[k].id
    <3> DEFINE I == ChildPlaces(stored, y)
               ks == Kids(stored)[y]
    <3> HIDE DEF X, I, ks
    <3>1. I \subseteq 1..Len(stored) /\ IsByStart(ks, stored, I)
      BY <2>6 DEF I, ks
    <3>2. /\ ks \in Seq(Ids(stored))
          /\ \A i \in 1..Len(ks) : \E n \in I : ks[i] = stored[n].id
          /\ \A n \in I : \E i \in 1..Len(ks) : ks[i] = stored[n].id
          /\ StoredOnce(stored) => \A i, j \in 1..Len(ks) :
               i < j => ks[i] # ks[j] /\ Starts(stored)[ks[i]] <= Starts(stored)[ks[j]]
      BY <1>1, <3>1, ListHas
    <3>3. k \in I
      BY <2>5 DEF I
    <3> QED BY <3>2, <3>3 DEF ks
  <2>8. 1..Len(Kids(stored)[y]) = {}
    <3>1. Len(<<>>) = 0 /\ 1..0 = {}
      OBVIOUS
    <3> QED BY <2>4, <3>1
  <2> QED BY <2>7, <2>8
<1> QED BY <1>6, <1>7

\* Self times explain the whole trace and the critical path takes no step for
\* which there was a longer one, for every trace, however much of it has
\* arrived and whatever was stored twice.  (self_time_ms, critical_path)
THEOREM TimesHold == DebugSpec => []TimesAddUp
<1>1. SpansInv => TimesAddUp
  BY TimesCovered, PathsAreLongest DEF TimesAddUp
<1> QED BY <1>1, StoreInvAlways, PTL

\* The places of some elements are as many as these.
LEMMA OncePlaces ==
  ASSUME NEW S, IsFiniteSet(S), NEW ks, ListsOnce(ks, S), NEW T, T \subseteq S
  PROVE  LET I == {i \in 1..Len(ks) : ks[i] \in T} IN Cardinality(I) = Cardinality(T)
<1> DEFINE I == {i \in 1..Len(ks) : ks[i] \in T}
           f == [i \in I |-> ks[i]]
<1>1. f \in Injection(I, T) /\ f \in Surjection(I, T)
  <2>1. f \in [I -> T]
    OBVIOUS
  <2>2. \A a, b \in I : f[a] = f[b] => a = b
    BY DEF ListsOnce
  <2>3. \A y \in T : \E i \in I : f[i] = y
    <3> SUFFICES ASSUME NEW y \in T PROVE \E i \in I : f[i] = y
      OBVIOUS
    <3>1. PICK i \in 1..Len(ks) : ks[i] = y
      BY DEF ListsOnce
    <3>2. i \in I /\ f[i] = y
      BY <3>1
    <3> QED BY <3>2
  <2> HIDE DEF I, f
  <2> QED BY <2>1, <2>2, <2>3 DEF Injection, Surjection, IsInjective
<1>2. IsFiniteSet(T)
  <2>1. T \in SUBSET S
    OBVIOUS
  <2> QED BY <2>1, FS_Subset
<1> HIDE DEF I, f
<1>3. Cardinality(I) = Cardinality(T)
  BY <1>1, <1>2, FS_Injection
<1> QED BY <1>3 DEF I

\* The list is as long as the set is large.
LEMMA OnceLength ==
  ASSUME NEW S, IsFiniteSet(S), NEW ks, ListsOnce(ks, S)
  PROVE  Len(ks) = Cardinality(S)
<1> DEFINE I == {i \in 1..Len(ks) : ks[i] \in S}
<1>1. Cardinality(I) = Cardinality(S)
  BY OncePlaces
<1>2. I = 1..Len(ks) /\ Len(ks) \in Nat
  BY DEF ListsOnce
<1>3. Cardinality(1..Len(ks)) = Len(ks)
  <2>1. Len(ks) \in Nat
    BY <1>2
  <2> QED BY <2>1, CountTo
<1> HIDE DEF I
<1> QED BY <1>1, <1>2, <1>3

-----------------------------------------------------------------------------
(***************************************************************************)
(* The order of the spans.                                                 *)
(***************************************************************************)

\* The spans whose parent x is, and those of them that make call c.
Below(spans, x) == {y \in Ids(spans) : SpanOf(spans, y).parent = x}
Callers(spans, x, c) == {y \in Below(spans, x) : CallOf(spans, y) = c}
Times(spans, x) == [y \in Below(spans, x) |-> SpanOf(spans, y).duration]

\* Children that were stored once are listed once.
LEMMA ChildrenOnce ==
  ASSUME NEW spans, WellFormed(spans), StoredOnce(spans), NEW x \in Ids(spans)
  PROVE  ListsOnce(ChildrenOf(spans, x), Below(spans, x)) /\ IsFiniteSet(Below(spans, x))
<1> DEFINE I == ChildPlaces(spans, x)
           ks == ChildrenOf(spans, x)
<1>1. I \subseteq 1..Len(spans) /\ IsByStart(ks, spans, I)
  BY ChildrenAre
<1>2. /\ \A k \in I : k \in 1..Len(spans) /\ spans[k].parent = x
      /\ \A k \in 1..Len(spans) : spans[k].parent = x => k \in I
  BY <1>1 DEF ChildPlaces, WellFormed
<1> HIDE DEF I, ks
<1>3. /\ ks \in Seq(Ids(spans))
      /\ \A i \in 1..Len(ks) : \E k \in I : ks[i] = spans[k].id
      /\ \A k \in I : \E i \in 1..Len(ks) : ks[i] = spans[k].id
      /\ StoredOnce(spans) => \A i, j \in 1..Len(ks) :
           i < j => ks[i] # ks[j] /\ Starts(spans)[ks[i]] <= Starts(spans)[ks[j]]
  BY <1>1, ListHas
<1>4. Len(ks) \in Nat /\ DOMAIN ks = 1..Len(ks)
  BY <1>3
<1>5. \A k \in 1..Len(spans) : SpanOf(spans, spans[k].id) = spans[k] /\ spans[k].id \in Ids(spans)
  BY ParentIs
<1>6. ASSUME NEW i \in 1..Len(ks) PROVE ks[i] \in Below(spans, x)
  <2>1. PICK k \in I : ks[i] = spans[k].id
    BY <1>3
  <2>2. SpanOf(spans, ks[i]) = spans[k] /\ ks[i] \in Ids(spans) /\ spans[k].parent = x
    BY <1>2, <1>5, <2>1
  <2> QED BY <2>2 DEF Below
<1>7. ASSUME NEW y \in Below(spans, x) PROVE \E i \in 1..Len(ks) : ks[i] = y
  <2>1. y \in Ids(spans) /\ SpanOf(spans, y).parent = x
    BY DEF Below
  <2>2. PICK k \in 1..Len(spans) : spans[k].id = y /\ SpanOf(spans, y) = spans[k]
    BY <2>1, SpanIs
  <2>3. k \in I
    BY <1>2, <2>1, <2>2
  <2> QED BY <1>3, <2>2, <2>3
<1>8. ASSUME NEW i \in 1..Len(ks), NEW j \in 1..Len(ks), ks[i] = ks[j] PROVE i = j
  <2>1. i < j \/ j < i \/ i = j
    BY <1>4
  <2> QED BY <1>3, <1>8, <2>1
<1>9. ListsOnce(ks, Below(spans, x))
  BY <1>4, <1>6, <1>7, <1>8 DEF ListsOnce
<1>10. IsFiniteSet(Below(spans, x))
  <2>1. Below(spans, x) \in SUBSET Ids(spans)
    BY DEF Below
  <2>2. IsFiniteSet(Ids(spans))
    BY IdsAre
  <2> QED BY <2>1, <2>2, FS_Subset
<1> QED BY <1>9, <1>10 DEF ks

\* What is computed of the children, as computed of their set.
LEMMA ChildrenAdd ==
  ASSUME NEW spans, WellFormed(spans), StoredOnce(spans), NEW x \in Ids(spans)
  PROVE  /\ Len(ChildrenOf(spans, x)) = Cardinality(Below(spans, x))
         /\ SumOf(spans, ChildrenOf(spans, x)) = SumFunction(Times(spans, x))
         /\ \A c : /\ Cardinality(CallPlaces(spans, x, c)) = Cardinality(Callers(spans, x, c))
                   /\ CallPlaces(spans, x, c) # {} <=> Callers(spans, x, c) # {}
<1> DEFINE B == Below(spans, x)
           ks == ChildrenOf(spans, x)
           t == Times(spans, x)
<1>1. ListsOnce(ks, B) /\ IsFiniteSet(B)
  BY ChildrenOnce
<1>2. Len(ks) = Cardinality(B)
  BY <1>1, OnceLength
<1>3. t \in [B -> Int] /\ \A y \in B : t[y] = SpanOf(spans, y).duration
  <2>1. \A y \in B : SpanOf(spans, y).duration \in Int
    BY SpanIs DEF Below
  <2> QED BY <2>1 DEF Times
<1>4. DOMAIN ks = 1..Len(ks) /\ \A i \in DOMAIN ks : ks[i] \in B
  BY <1>1 DEF ListsOnce
<1>5. SumOf(spans, ks) = SumFunction(t)
  <2> HIDE DEF B, ks, t
  <2>1. \A i \in DOMAIN ks : t[ks[i]] = SpanOf(spans, ks[i]).duration
    BY <1>3, <1>4
  <2>2. [i \in DOMAIN ks |-> SpanOf(spans, ks[i]).duration] = [i \in DOMAIN ks |-> t[ks[i]]]
    BY <2>1
  <2>3. SumFunction([i \in DOMAIN ks |-> t[ks[i]]]) = SumFunction(t)
    BY <1>1, <1>3, SumOfList
  <2> QED BY <2>2, <2>3 DEF SumOf
<1>6. ASSUME NEW c
      PROVE  /\ Cardinality(CallPlaces(spans, x, c)) = Cardinality(Callers(spans, x, c))
             /\ CallPlaces(spans, x, c) # {} <=> Callers(spans, x, c) # {}
  <2> DEFINE T == Callers(spans, x, c)
             I == {i \in 1..Len(ks) : ks[i] \in T}
  <2>1. CallPlaces(spans, x, c) = I
    BY <1>4 DEF CallPlaces, Callers
  <2>2. T \subseteq B
    BY DEF Callers
  <2>3. Cardinality(I) = Cardinality(T)
    <3> HIDE DEF T, ks, B
    <3> QED BY <1>1, <2>2, OncePlaces
  <2>4. I # {} <=> T # {}
    <3> HIDE DEF T, ks
    <3>1. \A y \in T : \E i \in 1..Len(ks) : ks[i] = y
      BY <1>1, <2>2 DEF ListsOnce
    <3> QED BY <3>1
  <2> QED BY <2>1, <2>3, <2>4
<1> QED BY <1>2, <1>5, <1>6

\* The same spans, each once, perhaps in another order.
Twins(a, b) ==
  /\ WellFormed(a) /\ StoredOnce(a) /\ WellFormed(b) /\ StoredOnce(b)
  /\ ToSet(a) = ToSet(b)

\* Twins have the same ids, spans and parents.
LEMMA TwinSpans ==
  ASSUME NEW a, NEW b, Twins(a, b)
  PROVE  /\ Ids(a) = Ids(b)
         /\ \A x \in Ids(a) : SpanOf(a, x) = SpanOf(b, x)
         /\ Par(a) = Par(b)
         /\ a # <<>> => b # <<>>
<1>1. /\ DOMAIN a = 1..Len(a) /\ ToSet(a) = {a[i] : i \in DOMAIN a}
      /\ DOMAIN b = 1..Len(b) /\ ToSet(b) = {b[i] : i \in DOMAIN b}
      /\ ToSet(a) = ToSet(b)
  BY DEF Twins, WellFormed, ToSet
<1>2. Ids(a) = {s.id : s \in ToSet(a)} /\ Ids(b) = {s.id : s \in ToSet(b)}
  BY <1>1 DEF Ids
<1>3. Ids(a) = Ids(b)
  BY <1>1, <1>2
<1>4. ASSUME NEW x \in Ids(a) PROVE SpanOf(a, x) = SpanOf(b, x)
  <2>1. PICK k \in 1..Len(a) : a[k].id = x /\ SpanOf(a, x) = a[k]
    BY SpanIs DEF Twins
  <2>2. PICK m \in 1..Len(b) : b[m] = a[k]
    BY <1>1
  <2>3. SpanOf(b, b[m].id) = b[m]
    BY IdsAre DEF Twins
  <2> QED BY <2>1, <2>2, <2>3
<1>5. Par(a) = Par(b)
  <2>1. \A x \in Ids(a) : ParentOf(a, x) = ParentOf(b, x)
    BY <1>4 DEF ParentOf
  <2> QED BY <1>3, <2>1 DEF Par
<1>6. a # <<>> => b # <<>>
  <2> SUFFICES ASSUME a # <<>>, b = <<>> PROVE FALSE
    OBVIOUS
  <2>1. Len(a) \in Nat \ {0}
    BY TotalIs DEF Twins
  <2>2. a[1] \in ToSet(b)
    BY <1>1, <2>1
  <2>3. DOMAIN b = {}
    <3>1. Len(<<>>) = 0 /\ 1..0 = {}
      OBVIOUS
    <3> QED BY <1>1, <3>1
  <2> QED BY <1>1, <2>2, <2>3
<1> QED BY <1>3, <1>4, <1>5, <1>6

\* Both are refused or neither.
LEMMA TwinsShown ==
  ASSUME NEW a, NEW b, Twins(a, b), ~RejectsCycle(a)
  PROVE  ~RejectsCycle(b)
<1> SUFFICES ASSUME RejectsCycle(b) PROVE FALSE
  OBVIOUS
<1>1. WellFormed(a) /\ WellFormed(b)
  BY DEF Twins
<1>2. PICK group : IsCycle(group, Ids(b), Par(b))
  BY <1>1, RejectedIsCycle DEF AreRows, WellFormed
<1>3. IsCycle(group, Ids(a), Par(a))
  BY <1>2, TwinSpans
<1> QED BY <1>1, <1>3, CycleIsRejected

\* They last as long, and both have a gap or neither.
LEMMA TwinTimes ==
  ASSUME NEW a, NEW b, Twins(a, b)
  PROVE  /\ TotalDuration(a) = TotalDuration(b)
         /\ MissingIn(a) = MissingIn(b)
<1>1. /\ ToSet(a) = {a[i] : i \in DOMAIN a} /\ ToSet(b) = {b[i] : i \in DOMAIN b}
      /\ ToSet(a) = ToSet(b) /\ Ids(a) = Ids(b)
  BY TwinSpans DEF Twins, ToSet
<1>2. /\ {a[i].start + a[i].duration : i \in DOMAIN a} = {s.start + s.duration : s \in ToSet(a)}
      /\ {b[i].start + b[i].duration : i \in DOMAIN b} = {s.start + s.duration : s \in ToSet(b)}
  BY <1>1
<1>3. /\ {a[i].start : i \in DOMAIN a} = {s.start : s \in ToSet(a)}
      /\ {b[i].start : i \in DOMAIN b} = {s.start : s \in ToSet(b)}
  BY <1>1
<1>4. TotalDuration(a) = TotalDuration(b)
  BY <1>1, <1>2, <1>3 DEF TotalDuration
<1>5. \A s : IsOrphan(a, s) <=> IsOrphan(b, s)
  BY <1>1 DEF IsOrphan
<1>6. Orphaned(a) = {} <=> ~\E s \in ToSet(a) : IsOrphan(a, s)
  BY <1>1 DEF Orphaned
<1>7. Orphaned(b) = {} <=> ~\E s \in ToSet(b) : IsOrphan(b, s)
  BY <1>1 DEF Orphaned
<1>8. Orphaned(a) = {} <=> Orphaned(b) = {}
  BY <1>1, <1>5, <1>6, <1>7
<1>9. MissingIn(a) = MissingIn(b)
  BY <1>8 DEF MissingIn
<1> QED BY <1>4, <1>9

\* Under each span are as many others, as many to one operation, and of the same
\* total time.
LEMMA TwinChildren ==
  ASSUME NEW a, NEW b, Twins(a, b), NEW x \in Ids(a)
  PROVE  /\ Len(ChildrenOf(a, x)) = Len(ChildrenOf(b, x))
         /\ SelfTime(a, x) = SelfTime(b, x)
         /\ CallsOf(a, x) = CallsOf(b, x)
<1>1. /\ WellFormed(a) /\ StoredOnce(a) /\ WellFormed(b) /\ StoredOnce(b)
      /\ Ids(a) = Ids(b) /\ \A y \in Ids(a) : SpanOf(a, y) = SpanOf(b, y)
  BY TwinSpans DEF Twins
<1>2. Below(a, x) = Below(b, x)
  BY <1>1 DEF Below
<1>3. \A c : Callers(a, x, c) = Callers(b, x, c)
  <2>1. \A y \in Below(a, x) : CallOf(a, y) = CallOf(b, y)
    BY <1>1 DEF Below, CallOf
  <2> QED BY <1>2, <2>1 DEF Callers
<1>4. Times(a, x) = Times(b, x)
  <2>1. \A y \in Below(a, x) : SpanOf(a, y).duration = SpanOf(b, y).duration
    BY <1>1 DEF Below
  <2> QED BY <1>2, <2>1 DEF Times
<1>5. /\ Len(ChildrenOf(a, x)) = Cardinality(Below(a, x))
      /\ SumOf(a, ChildrenOf(a, x)) = SumFunction(Times(a, x))
      /\ \A c : /\ Cardinality(CallPlaces(a, x, c)) = Cardinality(Callers(a, x, c))
                /\ CallPlaces(a, x, c) # {} <=> Callers(a, x, c) # {}
  BY <1>1, ChildrenAdd
<1>6. /\ Len(ChildrenOf(b, x)) = Cardinality(Below(b, x))
      /\ SumOf(b, ChildrenOf(b, x)) = SumFunction(Times(b, x))
      /\ \A c : /\ Cardinality(CallPlaces(b, x, c)) = Cardinality(Callers(b, x, c))
                /\ CallPlaces(b, x, c) # {} <=> Callers(b, x, c) # {}
  BY <1>1, ChildrenAdd
<1>7. Len(ChildrenOf(a, x)) = Len(ChildrenOf(b, x))
  BY <1>2, <1>5, <1>6
<1>8. SelfTime(a, x) = SelfTime(b, x)
  <2>1. SumOf(a, ChildrenOf(a, x)) = SumOf(b, ChildrenOf(b, x))
    BY <1>4, <1>5, <1>6
  <2> QED BY <1>1, <2>1 DEF SelfTime
<1>9. CallsOf(a, x) = CallsOf(b, x)
  <2>1. /\ \A c : c \in DOMAIN CallsOf(a, x) <=> CallPlaces(a, x, c) # {}
        /\ \A c \in DOMAIN CallsOf(a, x) : CallsOf(a, x)[c] = Cardinality(CallPlaces(a, x, c))
    BY <1>1, CallsAre
  <2>2. /\ \A c : c \in DOMAIN CallsOf(b, x) <=> CallPlaces(b, x, c) # {}
        /\ \A c \in DOMAIN CallsOf(b, x) : CallsOf(b, x)[c] = Cardinality(CallPlaces(b, x, c))
    BY <1>1, CallsAre
  <2>3. DOMAIN CallsOf(a, x) = DOMAIN CallsOf(b, x)
    BY <1>3, <1>5, <1>6, <2>1, <2>2
  <2>4. \A c \in DOMAIN CallsOf(a, x) : CallsOf(a, x)[c] = CallsOf(b, x)[c]
    BY <1>3, <1>5, <1>6, <2>1, <2>2, <2>3
  <2>5. /\ CallsOf(a, x) = [c \in DOMAIN CallsOf(a, x) |-> CallsOf(a, x)[c]]
        /\ CallsOf(b, x) = [c \in DOMAIN CallsOf(b, x) |-> CallsOf(b, x)[c]]
    BY DEF CallsOf
  <2> QED BY <2>3, <2>4, <2>5
<1> QED BY <1>7, <1>8, <1>9

\* So the same is found, but for which of several equal misses is named.
LEMMA TwinFindings ==
  ASSUME NEW a, NEW b, Twins(a, b), NEW base, NEW A
  PROVE  AllIn(a, base, A) = AllIn(b, base, A) /\ (IsCacheFinding(A, a) <=> IsCacheFinding(A, b))
<1> DEFINE X == Ids(a)
<1>1. Ids(b) = X /\ \A x \in X : SpanOf(a, x) = SpanOf(b, x)
  BY TwinSpans
<1>2. /\ \A x \in X : /\ Len(ChildrenOf(a, x)) = Len(ChildrenOf(b, x))
                      /\ SelfTime(a, x) = SelfTime(b, x)
                      /\ CallsOf(a, x) = CallsOf(b, x)
      /\ TotalDuration(a) = TotalDuration(b) /\ MissingIn(a) = MissingIn(b)
  BY TwinChildren, TwinTimes
<1> HIDE DEF X
<1>3. ErrorsIn(a) = ErrorsIn(b)
  <2>1. {y \in Ids(a) : SpanOf(a, y).error} = {y \in Ids(b) : SpanOf(b, y).error}
    BY <1>1 DEF X
  <2> QED BY <2>1 DEF ErrorsIn
<1>4. BaselinesIn(a, base) = BaselinesIn(b, base)
  <2>1. Breaches(a, base) = Breaches(b, base) /\ Breaches(a, base) \subseteq X
    BY <1>1 DEF X, Breaches
  <2>2. \A x \in Breaches(a, base) : BreachConfidence(a, base, x) = BreachConfidence(b, base, x)
    BY <1>1, <2>1 DEF BreachConfidence
  <2> QED BY <2>1, <2>2 DEF BaselinesIn
<1>5. SlowIn(a) = SlowIn(b)
  <2>1. \A x \in X : ShareOf(a, x) = ShareOf(b, x)
    BY <1>2 DEF ShareOf
  <2>2. SlowNodes(a) = SlowNodes(b) /\ SlowNodes(a) \subseteq X
    BY <1>1, <1>2, <2>1 DEF X, SlowNodes
  <2> QED BY <2>1, <2>2 DEF SlowIn
<1>6. RetriesIn(a) = RetriesIn(b)
  <2>1. ASSUME NEW x \in X PROVE RetriesAt(a, x) = RetriesAt(b, x)
    <3>1. CallsOf(a, x) = CallsOf(b, x)
      BY <1>2
    <3> QED BY <3>1 DEF RetriesAt, StormsAt, StormConfidence
  <2>2. {RetriesAt(a, x) : x \in Ids(a)} = {RetriesAt(b, x) : x \in Ids(b)}
    BY <1>1, <2>1 DEF X
  <2> QED BY <2>2 DEF RetriesIn
<1>7. WideIn(a) = WideIn(b)
  <2>1. WideNodes(a) = WideNodes(b)
    BY <1>1, <1>2 DEF X, WideNodes
  <2> QED BY <2>1 DEF WideIn
<1>8. Misses(a) = Misses(b)
  BY <1>1 DEF X, Misses
<1> QED BY <1>2, <1>3, <1>4, <1>5, <1>6, <1>7, <1>8 DEF AllIn, IsCacheFinding

\* Which miss a cache finding names is not compared.
LEMMA SameKeys ==
  ASSUME NEW spans, NEW base, NEW A, NEW B, IsCacheFinding(A, spans), IsCacheFinding(B, spans),
         NEW f \in AllIn(spans, base, A)
  PROVE  \E g \in AllIn(spans, base, B) : Key(f) = Key(g)
<1>1. CASE f \in A
  <2>1. PICK g \in B : TRUE
    BY <1>1 DEF IsCacheFinding
  <2>2. f.kind = "cache" /\ f.confidence = 50 /\ g.kind = "cache" /\ g.confidence = 50
    BY <1>1, <2>1 DEF IsCacheFinding
  <2>3. Key(f) = Key(g)
    BY <2>2 DEF Key
  <2>4. g \in AllIn(spans, base, B)
    BY <2>1 DEF AllIn
  <2> QED BY <2>3, <2>4
<1>2. CASE f \notin A
  <2>1. f \in AllIn(spans, base, B)
    BY <1>2 DEF AllIn
  <2> QED BY <2>1
<1> QED BY <1>1, <1>2

\* What is stored, read the other way round.
LEMMA ReversedTwins ==
  ASSUME SpansInv, CopiesAgree, Single
  PROVE  Twins(stored, Reverse(stored))
<1> DEFINE n == Len(stored)
           r == Reverse(stored)
<1>1. WellFormed(stored) /\ StoredOnce(stored)
  BY StoredIsWellFormed
<1>2. n \in Nat /\ r = [i \in 1..n |-> stored[(n - i) + 1]]
  BY <1>1 DEF Reverse, WellFormed
<1>3. \A i \in 1..n : (n - i) + 1 \in 1..n
  BY <1>2
<1>4. \A i \in 1..n : (n - ((n - i) + 1)) + 1 = i
  BY <1>2
<1>5. DOMAIN r = 1..n /\ Len(r) = n /\ \A i \in 1..n : r[i] = stored[(n - i) + 1]
  <2>1. DOMAIN r = 1..n /\ \A i \in 1..n : r[i] = stored[(n - i) + 1]
    BY <1>2
  <2>2. r \in Seq({stored[i] : i \in 1..n})
    BY <1>2, <1>3
  <2>3. Len(r) \in Nat /\ DOMAIN r = 1..Len(r)
    BY <2>2
  <2> HIDE DEF r, n
  <2>4. Len(r) = n
    BY <1>2, <2>1, <2>3
  <2> QED BY <2>1, <2>4
<1> HIDE DEF r
<1>6. WellFormed(r)
  <2>1. \A i \in 1..n : stored[i].id # NoParent /\ stored[i].start \in Int /\ stored[i].duration \in Nat
    BY <1>1 DEF WellFormed
  <2>2. \A i, j \in 1..n : stored[i].id = stored[j].id => stored[i] = stored[j]
    BY <1>1 DEF WellFormed
  <2> QED BY <1>2, <1>3, <1>5, <2>1, <2>2 DEF WellFormed
<1>7. StoredOnce(r)
  <2> SUFFICES ASSUME NEW i \in 1..n, NEW j \in 1..n, r[i].id = r[j].id PROVE i = j
    BY <1>5 DEF StoredOnce
  <2>1. (n - i) + 1 = (n - j) + 1
    BY <1>1, <1>3, <1>5, SMTT(30) DEF StoredOnce
  <2> HIDE DEF n
  <2> QED BY <1>2, <2>1
<1>8. ToSet(stored) = ToSet(r)
  <2>1. DOMAIN stored = 1..n
    BY <1>1 DEF WellFormed
  <2>2. \A i \in 1..n : \E j \in 1..n : stored[i] = r[j]
    BY <1>3, <1>4, <1>5
  <2>3. \A i \in 1..n : \E j \in 1..n : r[i] = stored[j]
    BY <1>3, <1>5
  <2>4. ToSet(stored) = {stored[i] : i \in 1..n}
    BY <2>1 DEF ToSet
  <2>5. ToSet(r) = {r[i] : i \in 1..n}
    BY <1>5 DEF ToSet
  <2> HIDE DEF n
  <2> QED BY <2>2, <2>3, <2>4, <2>5
<1> QED BY <1>1, <1>6, <1>7, <1>8 DEF Twins, r

\* What is compared, of all that is found.
LEMMA KeysAre ==
  ASSUME NEW spans, WellFormed(spans), ~RejectsCycle(spans), spans # <<>>,
         Known(Baselines, spans)
  PROVE  \E A : /\ IsCacheFinding(A, spans)
                /\ Keys(spans) = {Key(f) : f \in AllIn(spans, Baselines, A)}
<1> DEFINE found == Analyse(spans, BuildTrace(spans), Baselines)
<1>1. PICK A : IsCacheFinding(A, spans) /\ Lists(found, Ids(spans), AllIn(spans, Baselines, A))
  BY BuiltIs, FoundAre
<1>2. Keys(spans) = {Key(f) : f \in ToSet(found)}
  BY DEF Keys
<1>3. ToSet(found) = AllIn(spans, Baselines, A)
  BY <1>1 DEF Lists
<1> HIDE DEF found
<1> QED BY <1>1, <1>2, <1>3

\* The findings about a trace are the same whichever way round its spans are
\* read, however many of them have arrived.  (build_trace, analyse)
THEOREM OrderIsIgnored == DebugSpec => []OrderDoesNotMatter
<1>1. ASSUME SpansInv PROVE OrderDoesNotMatter
  <2> DEFINE other == Reverse(stored)
  <2> SUFFICES ASSUME Shown, CopiesAgree, Single PROVE Keys(stored) = Keys(other)
    BY DEF OrderDoesNotMatter
  <2>1. Twins(stored, other)
    BY <1>1, ReversedTwins
  <2>2. WellFormed(stored) /\ stored # <<>> /\ ~RejectsCycle(stored) /\ Known(Baselines, stored)
    BY <1>1, StoredIsWellFormed, ShownIs, BaselinesKnown
  <2> HIDE DEF other
  <2>3. WellFormed(other) /\ other # <<>> /\ ~RejectsCycle(other) /\ Known(Baselines, other)
    <3>1. Known(Baselines, other)
      BY <2>1, <2>2, TwinSpans DEF Known
    <3> QED BY <2>1, <2>2, <3>1, TwinSpans, TwinsShown DEF Twins
  <2>4. PICK A : /\ IsCacheFinding(A, stored)
                 /\ Keys(stored) = {Key(f) : f \in AllIn(stored, Baselines, A)}
    BY <2>2, KeysAre
  <2>5. PICK B : /\ IsCacheFinding(B, other)
                 /\ Keys(other) = {Key(f) : f \in AllIn(other, Baselines, B)}
    BY <2>3, KeysAre
  <2>6. AllIn(other, Baselines, B) = AllIn(stored, Baselines, B) /\ IsCacheFinding(B, stored)
    BY <2>1, <2>5, TwinFindings
  <2>7. /\ \A f \in AllIn(stored, Baselines, A) : \E g \in AllIn(stored, Baselines, B) : Key(f) = Key(g)
        /\ \A f \in AllIn(stored, Baselines, B) : \E g \in AllIn(stored, Baselines, A) : Key(f) = Key(g)
    BY <2>4, <2>6, SameKeys
  <2> QED BY <2>4, <2>5, <2>6, <2>7
<1> QED BY <1>1, StoreInvAlways, PTL
=============================================================================
