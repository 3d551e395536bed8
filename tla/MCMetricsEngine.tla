-------------------------- MODULE MCMetricsEngine --------------------------
(***************************************************************************)
(* One service, windows of two seconds and one second of grace: an event   *)
(* at 3 closes the window of an event at 0, one at 2 is within its grace.  *)
(***************************************************************************)
EXTENDS MetricsEngine

MCServices   == {"search"}
MCPartitions == {1}
MCEventIds   == Ids

\* Events that succeed and events that fail are on two topics.
TwoTopics == {"events", "errors"}

At0   == [kind |-> "event", service |-> "search", ts |-> 0]
At2   == [kind |-> "event", service |-> "search", ts |-> 2]
At3   == [kind |-> "event", service |-> "search", ts |-> 3]
Span  == [kind |-> "span"]

Broken == [kind |-> "malformed"]
Garbage    == [kind |-> "garbage"]

Traffic    == {At0, At3, Span}
Hostile    == {At0, At3, Broken, Garbage}
Mixed      == Traffic \cup Hostile
Straggling == {At0, At2, At3, Broken}
============================================================================
