------------------------- MODULE MCAnomalyDetector -------------------------
(***************************************************************************)
(* A latency and a query count.  Calm windows of two close levels, a slow  *)
(* one of fewer queries and one of too few queries; short baselines, so    *)
(* that a few windows fill them, overflow them and alert.                  *)
(***************************************************************************)
EXTENDS AnomalyDetector, TLC

CONSTANTS search, catalog

MCServices == {search, catalog}
MCMetrics  == {"latency_p95", "query_count"}

Obs(latency, count) ==
  [m \in MCMetrics |-> IF m = "query_count" THEN count ELSE latency]

Calm   == Obs(1, 20)
Varied == Obs(2, 21)
Slow   == Obs(9, 12)
Quiet  == Obs(9, 2)

MCObservations == {Calm, Varied, Slow, Quiet}

Symmetry == Permutations(MCServices)
===========================================================================
