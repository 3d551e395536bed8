---------------------------- MODULE MCEngineGroup ----------------------------
(***************************************************************************)
(* Two replicas, two partitions, one service; windows of two seconds and   *)
(* one second of grace: an event at 3 closes the window of an event at 0.  *)
(* Four assignments are as many as there can be: the first one, one when   *)
(* the other replica joins, two when a replica ends and comes back.        *)
(***************************************************************************)
EXTENDS EngineGroup

CONSTANTS
  e1,          \* one of Engines
  MaxTrouble   \* bound: failures and ends of processes, together

MCServices == {"search"}
MCEventIds == Partitions \X (1 .. MaxLog) \X (1 .. MaxGenerations)

\* Replicas are alike, and so are partitions: e1 is the replica that is there,
\* or has the partition with one record.  Shorter logs add nothing, for a poll
\* may return a part of these.  The last record closes what can be closed.
MCInit ==
  /\ Init
  /\ e1 \in members /\ owner[1] = e1
  /\ Len(log[1]) = 1 /\ Len(log[2]) = 2 /\ log[2][2].ts = MaxTime

MCNext ==
  /\ Next
  /\ crashes' + stops' + faults' <= MaxTrouble

MCSpec == MCInit /\ [][MCNext]_vars /\ Fairness

\* Both replicas from the start, and every partition in order: no event is
\* late for the engine that reads it.
InOrder == [i \in 1 .. 2 |-> [service |-> "search", ts |-> IF i = 1 THEN 0 ELSE MaxTime]]

SharedInit == Init /\ members = Engines /\ \A p \in Partitions : log[p] = InOrder
SharedSpec == SharedInit /\ [][MCNext]_vars
=============================================================================
