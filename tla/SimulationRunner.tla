-------------------------- MODULE SimulationRunner --------------------------
(***************************************************************************)
(* services/query-simulator/simulator: SimulationRunner.run() as one more  *)
(* client of the collector, which never sends a batch twice.  Time is      *)
(* counted in ticks; a request takes as long as the collector and the      *)
(* client's timeout let it.                                                *)
(***************************************************************************)
EXTENDS TelemetryCollector

CONSTANTS
    simulator,               \* the runner's X-Client-Id, one of Clients
    UNIT,                    \* a rate counts parts of 1 / UNIT event per second
    TargetRates,             \* what --qps may be, any positive fraction
    Scenario,                \* the phases: [duration, percent], in seconds
    DURATION,                \* --duration, 0 for the scenario's own
    MAX_BATCH,               \* runner.MAX_BATCH
    MAX_BATCHES_PER_SECOND,
    SECOND,                  \* ticks of a second
    MaxSpans                 \* model bound: sampled spans of one batch

ASSUME SimulatorAssumption ==
    /\ simulator \in Clients
    /\ TargetRates \subseteq Nat \ {0}
    /\ DURATION \in Nat
    /\ Scenario # <<>> /\ Scenario \in Seq([duration : Nat, percent : Nat])
    /\ MaxSpans \in Nat
    /\ \A x \in {UNIT, MAX_BATCH, MAX_BATCHES_PER_SECOND, SECOND} : x \in Nat \ {0}

VARIABLES
    qps,       \* the target rate
    step,      \* the await or the place run() is at; "none" if nobody runs it
    now,       \* ticks since the run started
    next_send, \* the tick the next batch is due
    batch,     \* number of the current batch
    spans,     \* spans sampled for the current batch
    stats      \* RunStats

runnerVars == <<qps, step, now, next_send, batch, spans, stats>>
allVars == <<traffic, requests, faults, runnerVars>>

-----------------------------------------------------------------------------
(***************************************************************************)
(* scenarios.py and plan_batches().                                        *)
(***************************************************************************)

AtLeast(x, y) == IF x < y THEN y ELSE x
AtMost(x, y) == IF x > y THEN y ELSE x

\* round() of a fraction: to the even neighbour when it lies between two.
Round(n, d) ==
    LET whole == n \div d
        twice == 2 * (n % d)
    IN  IF twice > d \/ (twice = d /\ whole % 2 = 1) THEN whole + 1 ELSE whole

\* As many parts of an event as fill a batch.
FULL_BATCH == UNIT * MAX_BATCH

\* batches_per_second in units of 1 / FULL_BATCH.
BatchRate(rate) ==
    AtMost(MAX_BATCHES_PER_SECOND * FULL_BATCH, AtLeast(FULL_BATCH, rate))

BatchSize(rate) ==
    AtMost(AtLeast(1, Round(rate * MAX_BATCH, BatchRate(rate))), MAX_BATCH)

Interval(rate) == (SECOND * FULL_BATCH) \div BatchRate(rate)

\* Ticks are fine enough to count the interval of each rate, which the code
\* does not round.
ASSUME TickAssumption ==
    \A rate \in TargetRates : (SECOND * FULL_BATCH) % BatchRate(rate) = 0

Before(i) == LET until[j \in 0..Len(Scenario)] ==
                   IF j = 0 THEN 0 ELSE until[j - 1] + Scenario[j].duration * SECOND
             IN  until[i - 1]

TotalTicks == IF DURATION = 0 THEN Before(Len(Scenario) + 1) ELSE DURATION * SECOND

\* Scenario.phase_at(): the last phase repeats.
PhaseAt(tick) ==
    LET ongoing == {i \in DOMAIN Scenario : tick < Before(i + 1)}
    IN  IF ongoing = {} THEN Scenario[Len(Scenario)] ELSE Scenario[Min(ongoing)]

SlotSize(rate, tick) ==
    AtLeast(1, Round(BatchSize(rate) * PhaseAt(tick).percent, 100))

-----------------------------------------------------------------------------
(***************************************************************************)
(* What the runner sends: entries that pass validation, with ids of their  *)
(* own.  All of them are successful and list no documents; those that are  *)
(* not, in other clients' batches, only take other topics.                 *)
(***************************************************************************)

Generated(n, size) ==
    [i \in 1..size |-> [id |-> <<n, i>>, valid |-> TRUE, status |-> "ok", results |-> FALSE]]

EventBatch(n, size) == [kind |-> "events", entries |-> Generated(n, size)]
SpanBatch(n, size) == [kind |-> "spans", entries |-> Generated(n, size)]

Own == OfClient(simulator)
Answer == requests[Max(Own)]

\* post() raised: a timeout or a lost connection.
NoAnswer == Answer.given_up \/ Answer.phase = "broken"
HasAnswer == Answer.phase = "replied" /\ ~Answer.given_up

Posts(b) == Post(simulator, b) \/ Denied(simulator, b)

Plus(counts) == [k \in DOMAIN stats |-> stats[k] + IF k \in DOMAIN counts THEN counts[k] ELSE 0]

-----------------------------------------------------------------------------
(***************************************************************************)
(* run().                                                                  *)
(***************************************************************************)

SimInit ==
    /\ Init
    /\ qps \in TargetRates
    /\ traffic[simulator] = {}      \* what it sends is generated
    /\ step \in {"start", "none"} /\ now = 0 /\ next_send = 0 /\ batch = 0 /\ spans = 0
    /\ stats = [sent |-> 0, spans_sent |-> 0, accepted |-> 0, rejected |-> 0,
                failed_requests |-> 0, batches |-> 0]

\* The collector's /health answers, or the run ends before it began.
Begin ==
    /\ step = "start"
    /\ \/ step' = "slot" /\ UNCHANGED <<traffic, faults>>
       \/ step' = "unreachable" /\ Fault
    /\ UNCHANGED <<requests, qps, now, next_send, batch, spans, stats>>

\* The loop from its head to the post of the events.
Slot ==
    /\ step = "slot"
    /\ now < TotalTicks
    /\ Posts(EventBatch(batch + 1, SlotSize(qps, now)))
    /\ batch' = batch + 1
    /\ spans' \in 0..MaxSpans
    /\ step' = "events"
    /\ UNCHANGED <<qps, now, next_send, stats>>

Finish ==
    /\ step = "slot"
    /\ now >= TotalTicks
    /\ step' = "done"
    /\ UNCHANGED <<traffic, requests, faults, qps, now, next_send, batch, spans, stats>>

\* Faulty variant: refused batches are counted as accepted.
CountEventsEagerly ==
    \/ NoAnswer /\ stats' = Plus([failed_requests |-> 1])
    \/ HasAnswer /\ stats' = Plus([batches |-> 1, sent |-> Len(Answer.entries),
                                   accepted |-> Len(Answer.entries)])

\* The rest of send(), in the order of its early returns.
CountEvents ==
    \/ /\ NoAnswer
       /\ stats' = Plus([failed_requests |-> 1])
    \/ /\ HasAnswer /\ Answer.status >= 400
       /\ stats' = Plus([batches |-> 1, sent |-> Len(Answer.entries),
                         failed_requests |-> 1])
    \/ /\ HasAnswer /\ Answer.status < 400
       /\ stats' = Plus([batches |-> 1, sent |-> Len(Answer.entries),
                         accepted |-> Answer.accepted,
                         rejected |-> Cardinality(Answer.errors)])

\* The rest of send_spans().
CountSpans ==
    \/ /\ NoAnswer \/ (HasAnswer /\ Answer.status >= 400)
       /\ stats' = Plus([failed_requests |-> 1])
    \/ /\ HasAnswer /\ Answer.status < 400
       /\ stats' = Plus([spans_sent |-> Len(Answer.entries)])

\* Faulty variant: the schedule does not advance.
PaceWithoutAdvance ==
    IF next_send > now THEN UNCHANGED next_send /\ step' = "sleep"
                       ELSE next_send' = now /\ step' = "slot"

\* Sleep until the next batch is due; if that has passed, the schedule
\* starts again from here.
Pace ==
    LET due == next_send + Interval(qps) IN
    IF due > now THEN next_send' = due /\ step' = "sleep"
                 ELSE next_send' = now /\ step' = "slot"

EventsSent ==
    /\ step = "events"
    /\ CountEvents
    /\ IF spans > 0
       THEN /\ Posts(SpanBatch(batch, spans))
            /\ step' = "spans" /\ UNCHANGED next_send
       ELSE Pace /\ UNCHANGED <<traffic, requests, faults>>
    /\ UNCHANGED <<qps, now, batch, spans>>

SpansSent ==
    /\ step = "spans"
    /\ CountSpans
    /\ Pace
    /\ UNCHANGED <<traffic, requests, faults, qps, now, batch, spans>>

\* asyncio.sleep() returns when the time has come, or later.
Wake ==
    /\ step = "sleep"
    /\ now >= next_send
    /\ step' = "slot"
    /\ UNCHANGED <<traffic, requests, faults, qps, now, next_send, batch, spans, stats>>

\* Time passes while the runner is suspended.
Tick ==
    /\ step \in {"events", "spans", "sleep"}
    /\ now < TotalTicks + Interval(qps)
    /\ now' = now + 1
    /\ UNCHANGED <<traffic, requests, faults, qps, step, next_send, batch, spans, stats>>

Run == Begin \/ Slot \/ Finish \/ EventsSent \/ SpansSent \/ Wake \/ Tick

\* The collector and its clients go on meanwhile; the runner's own request
\* may run into the 30 seconds of its client.
Around == Next /\ UNCHANGED runnerVars

SimNext == Run \/ Around

SimSpec == SimInit /\ [][SimNext]_allVars

-----------------------------------------------------------------------------
(***************************************************************************)
(* Properties.                                                             *)
(***************************************************************************)

\* The runner's step, clock and counters stay in their types.
SimTypeOK ==
    /\ TypeOK
    /\ step \in {"none", "start", "unreachable", "slot", "events", "spans", "sleep", "done"}
    /\ \A k \in DOMAIN stats : stats[k] \in Nat
    /\ next_send \in 0..now + Interval(qps)

EventRequests == {r \in Own : requests[r].kind = "events"}

Arrived(r) ==
    Cardinality({i \in DOMAIN requests[r].entries : EntryOnLog(requests[r], i)})

\* Requests whose entries the runner has not counted as accepted.
Uncounted ==
    {r \in EventRequests :
        \/ requests[r].given_up
        \/ requests[r].status # 202
        \/ step = "events" /\ r = Max(Own)}

\* What the summary reports as accepted is on the log, and whatever else of
\* the runner's events got there belongs to requests it counted as failed or
\* still waits for.  (send(), RunStats)
StatsBracketTheLog ==
    LET arrived == SumFunction([r \in EventRequests |-> Arrived(r)])
        open == SumFunction([r \in Uncounted |-> Len(requests[r].entries)])
    IN  stats.accepted =< arrived /\ arrived =< stats.accepted + open

\* Exit code 0, a run without failed requests, means that everything the run
\* generated is on the log and was counted: no event, no span is missing.
\* (run() of __main__.py, send(), send_spans())
CleanRunIsComplete ==
    step = "done" /\ stats.failed_requests = 0 =>
        /\ stats.accepted = stats.sent
        /\ stats.sent = SumFunction([r \in EventRequests |-> Len(requests[r].entries)])
        /\ \A r \in Own : \A i \in DOMAIN requests[r].entries :
              EntryOnLog(requests[r], i)

\* The summary of a run is true: its counters bracket what is on the log while
\* it runs, and a run it calls clean is complete.  (RunStats, run())
SummaryIsTrue == StatsBracketTheLog /\ CleanRunIsComplete

\* What a rate may become, in halves of its unit: one of whole events, or one
\* that fills batches, is kept; any other is rounded to whole events, and to
\* one where that leaves none.
Allowance(rate) ==
    IF rate % UNIT = 0 \/ rate >= FULL_BATCH THEN 2 * rate
    ELSE AtLeast(2 * UNIT, 2 * rate + UNIT)

\* However late batches and wake-ups are, the runner is never ahead of its
\* schedule: late batches are not made up for by a burst, and outside of
\* phases that multiply it the target rate is exceeded only by what rounding a
\* fraction adds to it: half an event per second, or what is missing to one.
\* (run(), plan_batches())
NeverFasterThanAsked ==
    /\ batch > 0 => (batch - 1) * Interval(qps) =< now
    /\ 2 * UNIT * SECOND * batch * BatchSize(qps) =<
           Allowance(qps) * (now + Interval(qps))

\* Whatever the collector answers, a run ends.
RunEnds == <>(step \in {"none", "done", "unreachable"})

\* The runner ends its run, and clients that persist get their batches onto the
\* log.  (run(), ingest_events)
EveryoneFinishes == RunEnds /\ PersistentClientsSucceed

-----------------------------------------------------------------------------
(***************************************************************************)
(* The runner is one more task, and time passes.                           *)
(***************************************************************************)
SimProgress == Run \/ (Progress /\ UNCHANGED runnerVars)

FairSimSpec == SimSpec /\ WF_allVars(SimProgress)
=============================================================================
