----------------------------- MODULE ReplayJob -----------------------------
(***************************************************************************)
(* Replaying a recorded query (services/debug-service/debug_service:       *)
(* replay.py, storage.py and the replay routes of main.py).                *)
(*                                                                         *)
(* A POST reads the recorded run and its documents, resolves a target,     *)
(* stores a pending job, runs the query on the target and stores the       *)
(* outcome.  Between any two of these steps the metrics engine may store   *)
(* more of the recorded run, other requests run, a call fails, or the      *)
(* process ends.                                                           *)
(***************************************************************************)
EXTENDS Integers, FiniteSets

CONSTANTS
    Queries,     \* query ids
    Recorded,    \* Recorded[q]: [service, run], the event of a query
    Targets,     \* REPLAY_TARGETS
    None,        \* no job, no run
    Runs,        \* [status, latency, docs], what a run of a query may return
    Late,        \* model bound: the queries whose rows are still to be stored
    Jobs,        \* model bound: the replays that are requested
    MaxFaults,   \* model bound: calls that fail
    MaxCrashes   \* model bound: ends of the process

\* ReplayJob: status, the two runs and what diff_runs() says of them.
NewJob(q) ==
    [query |-> q, status |-> "pending", original |-> None, replay |-> None, diff |-> None]

LATENCY_REGRESSION_RATIO == <<3, 2>>

ASSUME ReplayAssumption ==
    /\ \A q \in Queries : Recorded[q].run \in Runs
    /\ \A r \in Runs :
         /\ r = [status |-> r.status, latency |-> r.latency, docs |-> r.docs]
         /\ r.latency \in Nat
    /\ None \notin Runs /\ \A q \in Queries : None # NewJob(q)
    /\ IsFiniteSet(Jobs)
    /\ MaxFaults \in Nat /\ MaxCrashes \in Nat

VARIABLES
    recorded,  \* per query: the tables that have its rows
    pool,      \* whether the service found PostgreSQL when it started
    memory,    \* the jobs kept in the process
    table,     \* the jobs in PostgreSQL
    replays,   \* per job: how far its request is
    faults,    \* calls that failed
    crashes    \* ends of the process

replayVars == <<recorded, pool, memory, table, replays, faults, crashes>>

Idle == [phase |-> "idle"]

Tables == {"events", "query_results"}

ReplayInit ==
    /\ recorded = [q \in Queries |-> IF q \in Late THEN {} ELSE Tables]
    /\ pool \in BOOLEAN
    /\ memory = [j \in Jobs |-> None]
    /\ table = [j \in Jobs |-> None]
    /\ replays = [j \in Jobs |-> Idle]
    /\ faults = 0
    /\ crashes = 0

-----------------------------------------------------------------------------
(***************************************************************************)
(* diff_runs().                                                            *)
(***************************************************************************)

Slower(original, replay) ==
    /\ original.latency > 0
    /\ replay.latency * LATENCY_REGRESSION_RATIO[2]
         >= original.latency * LATENCY_REGRESSION_RATIO[1]

\* Faulty variant: the documents are compared before the status.
ResultsFirst(original, replay) ==
    CASE original.docs = replay.docs -> "matches the original run"
      [] replay.status # "ok" -> "still failing"
      [] original.status # replay.status -> "no longer reproducible"
      [] OTHER -> "different results"

Verdict(original, replay) ==
    LET changed == original.status # replay.status IN
    CASE changed /\ replay.status # "ok" -> "still failing"
      [] changed /\ replay.status = "ok" -> "no longer reproducible"
      [] ~changed /\ Slower(original, replay) -> "slower than the original run"
      [] ~changed /\ ~Slower(original, replay) /\ original.docs # replay.docs ->
             "different results"
      [] OTHER -> "matches the original run"

-----------------------------------------------------------------------------
(***************************************************************************)
(* The steps of replay_query() between its awaits.                         *)
(***************************************************************************)

\* (pooled, whole: where the request keeps its job, and whether all rows of
\* the query were stored when it came.)
Advance(j, phase, job) ==
    replays' = [replays EXCEPT ![j] =
        [phase |-> phase, job |-> job, pooled |-> pool,
         whole |-> IF @ = Idle THEN recorded[job.query] = Tables ELSE @.whole]]

Over(phase) == [phase |-> phase]

Reject(j) == replays' = [replays EXCEPT ![j] = Over("refused")]

Post(j, q) ==
    /\ replays[j] = Idle
    /\ Advance(j, "read event", NewJob(q))
    /\ UNCHANGED <<recorded, pool, memory, table, faults, crashes>>

\* original_run(): 404 without an event.
ReadEvent(j) ==
    LET job == replays[j].job IN
    /\ replays[j].phase = "read event"
    /\ IF "events" \in recorded[job.query]
       THEN Advance(j, "read documents", job)
       ELSE Reject(j)
    /\ UNCHANGED <<recorded, pool, memory, table, faults, crashes>>

\* Its documents are whatever query_results has by now.
Documents(q) == IF "query_results" \in recorded[q] THEN Recorded[q].run.docs ELSE {}

OriginalRun(q) == [Recorded[q].run EXCEPT !.docs = Documents(q)]

\* resolve_target(): the panel names no target, the recorded service is used.
MayTarget(q) == Recorded[q].service \in Targets

\* The event is read once more for its service, and 400 if that is refused.
ReadDocuments(j) ==
    LET job == replays[j].job IN
    /\ replays[j].phase = "read documents"
    /\ IF MayTarget(job.query)
       THEN Advance(j, "insert", [job EXCEPT !.original = OriginalRun(job.query)])
       ELSE Reject(j)
    /\ UNCHANGED <<recorded, pool, memory, table, faults, crashes>>

\* The columns of a run: its latency, but neither its status nor its documents.
Columns(run) == IF run = None THEN None ELSE run.latency

Row(job) == [job EXCEPT !.original = Columns(@), !.replay = Columns(@)]

\* Faulty variant: a finished job is not written again.
SaveOnce(j, job) ==
    IF pool
    THEN table' = [table EXCEPT ![j] = IF @ = None THEN Row(job) ELSE @] /\ UNCHANGED memory
    ELSE memory' = [memory EXCEPT ![j] = job] /\ UNCHANGED table

\* save(): with a pool a row is inserted, or of the one that is there all is
\* updated but the columns of the original run.  Without one the job stays in
\* the process.
Save(j, job) ==
    IF pool
    THEN /\ table' = [table EXCEPT ![j] =
                IF @ = None THEN Row(job) ELSE [Row(job) EXCEPT !.original = table[j].original]]
         /\ UNCHANGED memory
    ELSE memory' = [memory EXCEPT ![j] = job] /\ UNCHANGED table

\* The original run is recorded by execute_replay(), after this save.
Insert(j) ==
    LET job == replays[j].job IN
    /\ replays[j].phase = "insert"
    /\ Save(j, [job EXCEPT !.original = None])
    /\ Advance(j, "run", [job EXCEPT !.status = "running"])
    /\ UNCHANGED <<recorded, pool, faults, crashes>>

Succeeded(job, run) ==
    [job EXCEPT !.status = "succeeded", !.replay = run, !.diff = Verdict(job.original, run)]

\* Faulty variant: a failing target raises out of the request.
RunOrRaise(j) ==
    /\ replays[j].phase = "run"
    /\ \/ \E run \in Runs : Advance(j, "update", Succeeded(replays[j].job, run))
       \/ Reject(j)
    /\ UNCHANGED <<recorded, pool, memory, table, faults, crashes>>

\* execute_replay(): the target answers, or its failure becomes the answer.
Run(j) ==
    LET job == replays[j].job IN
    /\ replays[j].phase = "run"
    /\ \/ \E run \in Runs : Advance(j, "update", Succeeded(job, run))
       \/ Advance(j, "update", [job EXCEPT !.status = "failed"])
    /\ UNCHANGED <<recorded, pool, memory, table, faults, crashes>>

Update(j) ==
    /\ replays[j].phase = "update"
    /\ Save(j, replays[j].job)
    /\ Advance(j, "answered", replays[j].job)
    /\ UNCHANGED <<recorded, pool, faults, crashes>>

\* ClickHouse or PostgreSQL cannot be reached: 500.
CallFails(j) ==
    /\ faults < MaxFaults
    /\ \/ replays[j].phase \in {"read event", "read documents"}
       \/ replays[j].phase \in {"insert", "update"} /\ pool
    /\ Reject(j)
    /\ faults' = faults + 1
    /\ UNCHANGED <<recorded, pool, memory, table, crashes>>

-----------------------------------------------------------------------------
\* The engine stores the tables of a query one after the other.
Store(q, t) ==
    /\ t \notin recorded[q]
    /\ t = "query_results" => "events" \in recorded[q]
    /\ recorded' = [recorded EXCEPT ![q] = @ \cup {t}]
    /\ UNCHANGED <<pool, memory, table, replays, faults, crashes>>

Lost(r) == IF r.phase \in {"idle", "answered", "refused", "lost"} THEN r ELSE Over("lost")

\* The process ends and starts again; lifespan() looks for PostgreSQL.
Restart ==
    /\ crashes < MaxCrashes
    /\ crashes' = crashes + 1
    /\ pool' \in BOOLEAN
    /\ memory' = [j \in Jobs |-> None]
    /\ replays' = [j \in Jobs |-> Lost(replays[j])]
    /\ UNCHANGED <<recorded, table, faults>>

Step(j) == ReadEvent(j) \/ ReadDocuments(j) \/ Insert(j) \/ Run(j) \/ Update(j)

ReplayNext ==
    \/ \E j \in Jobs : Step(j) \/ CallFails(j) \/ \E q \in Queries : Post(j, q)
    \/ \E q \in Queries, t \in Tables : Store(q, t)
    \/ Restart

ReplaySpec == ReplayInit /\ [][ReplayNext]_replayVars

-----------------------------------------------------------------------------
(***************************************************************************)
(* Properties.                                                             *)
(***************************************************************************)

Statuses == {"pending", "running", "succeeded", "failed"}

Verdicts ==
    {"still failing", "no longer reproducible", "slower than the original run",
     "different results", "matches the original run"}

\* A job, or the row of one, has a replay and a verdict once it has succeeded.
JobOK(job, outcomes) ==
    /\ job.query \in Queries /\ job.status \in Statuses
    /\ IF job.status = "succeeded"
       THEN job.replay \in outcomes /\ job.diff \in Verdicts
       ELSE job.replay = None /\ job.diff = None

Latencies == {run.latency : run \in Runs}

\* get_replay().
Stored(j) == IF pool THEN table[j] ELSE memory[j]

\* Jobs and their requests are in one of their states; what is stored was
\* saved before the query ran or after.
ReplayTypeOK ==
    /\ recorded \in [Queries -> SUBSET Tables]
    /\ \A j \in Jobs :
         /\ table[j] # None => JobOK(table[j], Latencies) /\ table[j].status # "running"
         /\ memory[j] # None => JobOK(memory[j], Runs) /\ memory[j].status # "running"
         /\ replays[j].phase \notin {"idle", "refused", "lost"} => JobOK(replays[j].job, Runs)
    /\ faults \in 0..MaxFaults /\ crashes \in 0..MaxCrashes

\* The outcome a client was answered with is the one PostgreSQL has, through
\* every later failure and restart, if that is where it was kept; only the
\* original run, which the client was shown as well, is not there: its
\* columns are inserted empty and never updated.
\* (replay_query, ReplayJobStore.save)
AnsweredIsStored ==
    \A j \in Jobs :
        replays[j].phase = "answered" /\ replays[j].pooled =>
            table[j] = [Row(replays[j].job) EXCEPT !.original = None]

\* A job stays pending for good only if its process ended or a save failed:
\* whatever the target does is an outcome.  (execute_replay, replay_query)
PendingIsAccounted ==
    Cardinality({j \in Jobs : table[j] # None /\ table[j].status = "pending"
                              /\ replays[j].phase \in {"lost", "refused"}})
        =< faults + crashes * Cardinality(Jobs)

\* Whoever looks a job up later finds the truth about it: the outcome its
\* client was told, or "pending" for which a failure can be named.
\* (replay_query, ReplayJobStore)
JobsAreAccounted == AnsweredIsStored /\ PendingIsAccounted

Matches(j) ==
    /\ replays[j].phase = "answered" /\ replays[j].job.status = "succeeded"
    /\ replays[j].job.diff = "matches the original run"

Outcome(j) == replays[j].job.replay

RecordedRun(j) == Recorded[replays[j].job.query].run

\* "matches the original run" is said only of a replay that ended like the
\* recorded query and without the regression; with its documents too, if all
\* of the recorded run was stored when the replay was asked for, and else with
\* these or none.  (diff_runs, original_run)
MatchMeansMatch ==
    \A j \in Jobs : Matches(j) =>
        /\ Outcome(j).status = RecordedRun(j).status
        /\ ~Slower(RecordedRun(j), Outcome(j))
        /\ Outcome(j).docs \in {RecordedRun(j).docs} \cup (IF replays[j].whole THEN {} ELSE {{}})

Unfinished(j) == Stored(j) # None /\ Stored(j).status = "pending"

\* Without failures and restarts every stored job gets its outcome.
\* (replay_query, execute_replay)
JobsFinish ==
    \A j \in Jobs : Unfinished(j) ~> (~Unfinished(j) \/ faults > 0 \/ crashes > 0)

=============================================================================
