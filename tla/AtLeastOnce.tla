----------------------------- MODULE AtLeastOnce -----------------------------
(***************************************************************************)
(* What the platform promises of a consumer of its topics                  *)
(* (libs/common kafka.py, ADR-0003, the engine's README), as far as its    *)
(* consumer keeps the promise: records may be made durable in any order    *)
(* and more than once, and the committed offset of a partition moves over  *)
(* records that are durable, with two exceptions.  Up to Slack committed   *)
(* records may be held in memory, until they are durable or the process    *)
(* ends; and a record that cannot be read may take up to Slack records     *)
(* with it.  Without slack this is at-least-once delivery.                 *)
(***************************************************************************)
EXTENDS Integers, Sequences, FiniteSets

CONSTANTS
  Partitions,
  Messages,
  Owed(_),        \* the messages whose content has to reach a table
  Unreadable(_),  \* the messages that fail what is read with them
  Slack

VARIABLES
  log,          \* the records of each partition
  committed,    \* the committed offset of each partition
  durable,      \* the <<partition, offset>> pairs that reached a table
  held          \* those committed records that only memory holds

vars == <<log, committed, durable, held>>

At(r) == log[r[1]][r[2]]

Init ==
  /\ log = [p \in Partitions |-> <<>>]
  /\ committed = [p \in Partitions |-> 0]
  /\ durable = {}
  /\ held = {}

Produce(p, m) ==
  /\ log' = [log EXCEPT ![p] = Append(@, m)]
  /\ UNCHANGED <<committed, durable, held>>

\* One insert may carry the records of many partitions.
Persist ==
  /\ durable \subseteq durable'
  /\ \A r \in durable' \ durable : r[1] \in Partitions /\ r[2] \in 1 .. Len(log[r[1]])
  /\ held' = held \ durable'
  /\ UNCHANGED <<log, committed>>

Commit ==
  LET moved  == UNION {{<<p, i>> : i \in committed[p] + 1 .. committed'[p]} : p \in Partitions}
      missed == {r \in moved : Owed(At(r))} \ (durable \cup held')
      spoilt == {r \in moved : Unreadable(At(r))}
  IN
  /\ DOMAIN committed' = Partitions
  /\ \A p \in Partitions : committed'[p] \in committed[p] .. Len(log[p])
  /\ held \subseteq held' /\ held' \subseteq held \cup moved
  /\ Cardinality(held') <= Slack
  /\ Cardinality(missed) <= Slack * Cardinality(spoilt)
  /\ UNCHANGED <<log, durable>>

\* The process ends.
Forget ==
  /\ held' = {}
  /\ UNCHANGED <<log, committed, durable>>

Next ==
  \/ \E p \in Partitions, m \in Messages : Produce(p, m)
  \/ Persist
  \/ Commit
  \/ Forget

Spec == Init /\ [][Next]_vars
=============================================================================
