------------------------------ MODULE Windows ------------------------------
(***************************************************************************)
(* services/metrics-engine/engine/aggregation.py: tumbling windows aligned *)
(* to the epoch, one accumulator per (service, window start), a watermark  *)
(* that is the largest event timestamp seen, and a grace period.           *)
(*                                                                         *)
(* An accumulator is the set of the events it holds: every number of a     *)
(* MetricRollup is a function of that set.  The accumulator of a key is    *)
(* created by the first event put into it, so the empty set stands for a   *)
(* key that is not in the dictionary.  Timestamps are whole seconds.       *)
(***************************************************************************)
EXTENDS Integers, FiniteSets

CONSTANTS
  Services,        \* values of SearchEvent.service
  EventIds,        \* identities of the events of a stream
  MaxTime,         \* bound: the largest event timestamp
  WINDOW_SECONDS,  \* window_seconds
  GRACE_SECONDS    \* grace_seconds

ASSUME ServiceAssumption == IsFiniteSet(Services)
ASSUME WindowAssumption == WINDOW_SECONDS \in Nat \ {0}
ASSUME GraceAssumption  == GRACE_SECONDS \in Nat
ASSUME TimeAssumption   == MaxTime \in Nat

NoWatermark == -1

Times  == 0 .. MaxTime
Event  == [id : EventIds, service : Services, ts : Times]
Keys   == Services \X Times
Rollup == [key : Keys, events : SUBSET Event]

WindowStart(ts) == ts - (ts % WINDOW_SECONDS)

WindowEnd(k) == k[2] + WINDOW_SECONDS

KeyOf(e) == <<e.service, WindowStart(e.ts)>>

\* Faulty variant of AddAll: an event of a known window starts a new accumulator.
ReplaceAccumulator(wins, E) ==
  [k \in Keys |-> IF \E e \in E : KeyOf(e) = k THEN {e \in E : KeyOf(e) = k} ELSE wins[k]]

\* The accumulators after every event of E went through add().
AddAll(wins, E) == [k \in Keys |-> wins[k] \cup {e \in E : KeyOf(e) = k}]

\* The watermark after events with these timestamps went through add(): the
\* largest of them and of the one before (a set of one element).
Advance(wm, stamps) ==
  {t \in {wm} \cup stamps : \A u \in {wm} \cup stamps : u <= t}

Open(wins) == {k \in Keys : wins[k] # {}}

\* Faulty variants of Passed: measured from the start of the window, or without
\* the grace period.
PassedFromStart(k, wm) == wm # NoWatermark /\ k[2] <= wm - GRACE_SECONDS

PassedAtEnd(k, wm) == wm # NoWatermark /\ WindowEnd(k) <= wm

\* The window of k lies behind the watermark by the grace period.
Passed(k, wm) == wm # NoWatermark /\ WindowEnd(k) <= wm - GRACE_SECONDS

Ready(wins, wm) == {k \in Open(wins) : Passed(k, wm)}

\* Faulty variant of Forget: a closed window is read and not removed.
KeepClosed(wins, K) == wins

Forget(wins, K) == [k \in Keys |-> IF k \in K THEN {} ELSE wins[k]]

RollupsOf(wins, K) == {[key |-> k, events |-> wins[k]] : k \in K}

\* aggregate(): the rollups of a complete set of events, the reference the
\* incremental path is measured against.
Aggregate(E) ==
  {[key |-> k, events |-> {e \in E : KeyOf(e) = k}] : k \in {KeyOf(e) : e \in E}}
=============================================================================
