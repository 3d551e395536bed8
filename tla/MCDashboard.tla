---------------------------- MODULE MCDashboard ----------------------------
(***************************************************************************)
(* A metric route with two settings, of which one may take as long to      *)
(* answer as the refresh interval, and two queries: one whose rows are     *)
(* still to be stored, one of a service outside the allowlist.  What is    *)
(* replayed can come back slower, failing or without any documents.        *)
(***************************************************************************)
EXTENDS Dashboard

MCMetricRoutes == {"hour", "day"}
MCQueries == {"q1", "q2"}
MCRoutes == MCMetricRoutes \cup MCQueries
MCMaxAge == [r \in MCRoutes |-> IF r = "hour" THEN 2 ELSE 1]
MCMaxWait == [r \in MCRoutes |-> IF r = "day" THEN 2 ELSE 1]

Good == [status |-> "ok", latency |-> 2, docs |-> {"a"}]
Slow == [status |-> "ok", latency |-> 3, docs |-> {"a"}]
Bare == [status |-> "ok", latency |-> 2, docs |-> {}]
Bad  == [status |-> "error", latency |-> 2, docs |-> {}]

MCRuns == {Good, Slow, Bare, Bad}
MCRecorded ==
    [q1 |-> [service |-> "search", run |-> Good], q2 |-> [service |-> "admin", run |-> Bad]]
MCTargets == {"search"}

CONSTANT MaxTrouble

\* One call fails, or the service restarts once, after a replay was asked for:
\* before that the first start stands for any.
MCNext ==
    /\ DashNext
    /\ faults' + crashes' =< MaxTrouble
    /\ crashes' > crashes => \E j \in Jobs : replays[j] # Idle

MCSpec == DashInit /\ [][MCNext]_dashVars /\ DashFairness
=============================================================================
