-------------------------- MODULE AnomalyDetector --------------------------
(***************************************************************************)
(* services/metrics-engine/engine/anomaly.py: every closed window of a     *)
(* service is scored, metric by metric, against a bounded history of the   *)
(* windows the detector was given before it, and then joins that history.  *)
(*                                                                         *)
(* Observations are natural numbers (a metric in its smallest unit), so    *)
(* the z-score comparisons are exact: with n values v of mean S/n, both    *)
(* sides of  |x - S/n| >= t * pstdev(v)  are squared and multiplied by     *)
(* n^3.  The history is memory of one process: a restart begins a new      *)
(* behaviour.  evaluate() has no await, so one call is one step.           *)
(***************************************************************************)
EXTENDS Integers, Sequences, FiniteSets, Functions

CONSTANTS
  Services,        \* values of MetricRollup.service
  Metrics,         \* TRACKED_METRICS
  Observations,    \* the values of the tracked metrics a rollup may carry
  THRESHOLD,       \* threshold
  BASELINE,        \* baseline_windows
  MIN_BASELINE,    \* min_baseline_windows
  MIN_SAMPLES,     \* MIN_SAMPLES_PER_WINDOW
  MaxRollups,      \* bound: rollups given to the detector
  MaxReopened      \* bound: of these, windows of a service closed once more

ASSUME MetricAssumption == "query_count" \in Metrics
ASSUME ObservationAssumption == Observations \subseteq [Metrics -> Nat]
ASSUME ThresholdAssumption == THRESHOLD \in Nat \ {0}
ASSUME BaselineAssumption == BASELINE \in Nat \ {0} /\ MIN_BASELINE \in Nat \ {0, 1}
ASSUME SampleAssumption == MIN_SAMPLES \in Nat
ASSUME BoundAssumption == MaxRollups \in Nat /\ MaxReopened \in Nat

\* The windows are numbered in the order they end.
Rollup == [service : Services, window : 1 .. MaxRollups, obs : Observations]

\* An AnomalyEvent: the scored rollup is the at-th one of its service, and the
\* values behind baseline_mean and baseline_stddev are kept as they were.
Anomaly == [rollup : Rollup, metric : Metrics, at : Nat \ {0},
            baseline : Seq(Nat), critical : BOOLEAN]

VARIABLES
  history,   \* AnomalyDetector._history
  seen,      \* per service, the rollups evaluate() was called with (history variable)
  alerts     \* the anomalies evaluate() returned so far

vars == <<history, seen, alerts>>

----------------------------------------------------------------------------
(* BaselineStats, without the divisions.                                   *)

\* n times the distance of x from the mean.
Deviation(h, x) == Len(h) * x - SumFunction(h)

\* n^2 times the sum of the squared distances, n^3 times the variance.
Spread(h) == SumFunction([i \in DOMAIN h |-> Deviation(h, h[i]) * Deviation(h, h[i])])

HasBaseline(h) == Len(h) >= MIN_BASELINE

\* Faulty variant of IsUsable: a flat history is scored too.
AlwaysUsable(h) == TRUE

IsUsable(h) == Spread(h) > 0

\* Faulty variant of ZAtLeast: only rises count.
RiseAtLeast(h, x, t) ==
  Deviation(h, x) > 0 /\ Len(h) * Deviation(h, x) * Deviation(h, x) >= t * t * Spread(h)

\* abs(z_score) >= t.
ZAtLeast(h, x, t) == Len(h) * Deviation(h, x) * Deviation(h, x) >= t * t * Spread(h)

Reported(h, r, m) ==
  /\ HasBaseline(h)
  /\ IsUsable(h)
  /\ r.obs["query_count"] >= MIN_SAMPLES
  /\ ZAtLeast(h, r.obs[m], THRESHOLD)

\* append() on a deque with maxlen = baseline_windows.
Push(h, x) == IF Len(h) < BASELINE THEN Append(h, x) ELSE Append(Tail(h), x)

\* Faulty variant of Scored: the window is compared partly against itself.
JoinFirst(h, x) == Push(h, x)

\* The history a value is scored against: the one before it joins.
Scored(h, x) == h

----------------------------------------------------------------------------
Init ==
  /\ history = [s \in Services |-> [m \in Metrics |-> <<>>]]
  /\ seen = [s \in Services |-> <<>>]
  /\ alerts = {}

AnomalyOf(r, m, h) ==
  [rollup |-> r, metric |-> m, at |-> Len(seen[r.service]) + 1, baseline |-> h,
   critical |-> ZAtLeast(h, r.obs[m], 2 * THRESHOLD)]

Evaluate(r) ==
  LET base(m) == Scored(history[r.service][m], r.obs[m]) IN
  /\ alerts' = alerts \cup
       {AnomalyOf(r, m, base(m)) : m \in {n \in Metrics : Reported(base(n), r, n)}}
  /\ history' = [history EXCEPT
       ![r.service] = [m \in Metrics |-> Push(history[r.service][m], r.obs[m])]]
  /\ seen' = [seen EXCEPT ![r.service] = Append(@, r)]

Given == SumFunction([s \in Services |-> Len(seen[s])])

WindowsOf(s) == {seen[s][i].window : i \in DOMAIN seen[s]}

Reopened == SumFunction([s \in Services |-> Len(seen[s]) - Cardinality(WindowsOf(s))])

\* What close_ready() hands over: the next window of a service, or one that a
\* late event opened again.
Closes(r) ==
  /\ Given < MaxRollups
  /\ \/ r.window = Len(seen[r.service]) + 1
     \/ r.window \in WindowsOf(r.service) /\ Reopened < MaxReopened

Next == \E r \in Rollup : Closes(r) /\ Evaluate(r)

Spec == Init /\ [][Next]_vars

----------------------------------------------------------------------------
(* Properties.                                                             *)

\* The detector's history and its events have the shape the code gives them.
TypeOK ==
  /\ history \in [Services -> [Metrics -> Seq(Nat)]]
  /\ seen \in [Services -> Seq(Rollup)]
  /\ alerts \subseteq Anomaly

\* How many of n values a history of at most BASELINE has forgotten.
Forgotten(n) == IF n <= BASELINE THEN 0 ELSE n - BASELINE

\* The values of m in the last BASELINE of the first n rollups of a service.
Recent(s, m, n) ==
  [i \in 1 .. n - Forgotten(n) |-> seen[s][Forgotten(n) + i].obs[m]]

\* The history evaluate() keeps per service and metric is exactly the last
\* baseline_windows observations of that service, oldest first.
HistoryIsRecent ==
  \A s \in Services, m \in Metrics : history[s][m] = Recent(s, m, Len(seen[s]))

RestsOnItsPast(a) ==
  LET s == a.rollup.service IN
  /\ a.at \in 1 .. Len(seen[s])
  /\ seen[s][a.at] = a.rollup
  /\ a.baseline = Recent(s, a.metric, a.at - 1)
  /\ Len(a.baseline) >= MIN_BASELINE
  /\ a.rollup.obs["query_count"] >= MIN_SAMPLES

\* An anomaly names a rollup the detector was given, of at least MIN_SAMPLES
\* queries, and the evidence in it is what the rollups before that one in the
\* same service showed, at least min_baseline_windows of them: nothing of another
\* service, of another metric, of the window itself or of a later one.
EvidenceIsThePast == \A a \in alerts : RestsOnItsPast(a)

IsFlat(h) == \A i, j \in DOMAIN h : h[i] = h[j]

\* A baseline that never moved raises no anomaly, however far the next window is
\* (the infinite z-score of the module's docstring).
FlatIsSilent == \A a \in alerts : ~IsFlat(a.baseline)

Occurrences(h, x) == Cardinality({i \in DOMAIN h : h[i] = x})

\* A level the service has shown in more than n / (t^2 + 1) of its n baseline
\* windows is not anomalous at t standard deviations: a shift to a new level stops
\* alerting on its own, and a critical alert needs a level that is rarer still.
FamiliarIsNormal ==
  \A a \in alerts :
    LET j == Occurrences(a.baseline, a.rollup.obs[a.metric])
        t == IF a.critical THEN 2 * THRESHOLD ELSE THRESHOLD
    IN  Len(a.baseline) - j >= t * t * j

\* What is ordinary raises nothing: neither a service that has been flat so far
\* nor a level it has shown before.
OrdinaryIsSilent == FlatIsSilent /\ FamiliarIsNormal

\* x lies outside h by at least t / 2 times the width of h's range.
FarOutside(h, x, t) ==
  \/ \A i, j, k \in DOMAIN h : 2 * (x - h[i]) >= t * (h[j] - h[k])
  \/ \A i, j, k \in DOMAIN h : 2 * (h[i] - x) >= t * (h[j] - h[k])

IsReported(s, m, n) ==
  \E a \in alerts : a.rollup.service = s /\ a.metric = m /\ a.at = n

MustReport(s, m, n) ==
  LET h == Recent(s, m, n - 1) IN
  /\ Len(h) >= MIN_BASELINE
  /\ ~IsFlat(h)
  /\ FarOutside(h, seen[s][n].obs[m], THRESHOLD)

\* A window of enough queries that lies threshold / 2 ranges beyond everything in
\* its baseline is reported, above or below it: no earlier outlier in the history
\* can hide it.
OutliersAreReported ==
  \A s \in Services, m \in Metrics : \A n \in DOMAIN seen[s] :
    MustReport(s, m, n) /\ seen[s][n].obs["query_count"] >= MIN_SAMPLES => IsReported(s, m, n)
=============================================================================
