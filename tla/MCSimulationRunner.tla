------------------------- MODULE MCSimulationRunner -------------------------
(***************************************************************************)
(* An instrumented service with one batch of each kind the collector tells *)
(* apart, or a run of two seconds, the second of which doubles the         *)
(* traffic.  Batches of at most two.                                       *)
(***************************************************************************)
EXTENDS SimulationRunner

CONSTANTS service, RunFaults

Entry(i, valid, status, results) ==
    [id |-> <<0, i>>, valid |-> valid, status |-> status, results |-> results]

MCClients == {service, simulator}

MCBatches ==
    {[kind |-> "event", entries |-> <<Entry(1, FALSE, "ok", FALSE)>>],
     [kind |-> "events",
      entries |-> <<Entry(2, TRUE, "error", TRUE), Entry(3, FALSE, "ok", FALSE)>>],
     [kind |-> "events", entries |-> <<Entry(4, FALSE, "ok", TRUE)>>],
     [kind |-> "events", entries |-> <<>>],
     [kind |-> "spans",
      entries |-> [i \in 1..3 |-> Entry(i + 4, TRUE, "ok", FALSE)]]}

\* The service reports when no simulation runs: requests of different clients
\* do not touch each other.  A simulation meets at most RunFaults failures.
MCInit ==
    /\ SimInit
    /\ IF step = "none" THEN Cardinality(traffic[service]) = 1
                        ELSE traffic[service] = {}

MCNext == SimNext /\ (step = "none" \/ faults' =< RunFaults)
MCSpec == MCInit /\ [][MCNext]_allVars /\ WF_allVars(SimProgress)

MCScenario == <<[duration |-> 1, percent |-> 100], [duration |-> 1, percent |-> 200]>>
=============================================================================
