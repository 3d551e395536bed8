------------------------- MODULE WindowedAggregator -------------------------
(***************************************************************************)
(* WindowedAggregator of services/metrics-engine/engine/aggregation.py as  *)
(* an object: add(), close_ready() and flush() called in any order.        *)
(***************************************************************************)
EXTENDS Windows

VARIABLES
  windows,    \* self._windows: the accumulator of every key
  watermark,  \* self._watermark, NoWatermark standing for None
  added,      \* history: every event handed to add()
  late,       \* history: keys that were given an event after they were emitted
  emitted     \* history: every rollup close_ready() or flush() returned

vars == <<windows, watermark, added, late, emitted>>

Init ==
  /\ windows = [k \in Keys |-> {}]
  /\ watermark = NoWatermark
  /\ added = {}
  /\ late = {}
  /\ emitted = {}

Add(e) ==
  /\ \A a \in added : a.id # e.id
  /\ windows' = AddAll(windows, {e})
  /\ watermark' \in Advance(watermark, {e.ts})
  /\ added' = added \cup {e}
  /\ late' = IF \E r \in emitted : r.key = KeyOf(e) THEN late \cup {KeyOf(e)} ELSE late
  /\ UNCHANGED emitted

CloseReady ==
  LET ready == Ready(windows, watermark) IN
  /\ ready # {}
  /\ emitted' = emitted \cup RollupsOf(windows, ready)
  /\ windows' = Forget(windows, ready)
  /\ UNCHANGED <<watermark, added, late>>

Flush ==
  LET open == Open(windows) IN
  /\ open # {}
  /\ emitted' = emitted \cup RollupsOf(windows, open)
  /\ windows' = Forget(windows, open)
  /\ UNCHANGED <<watermark, added, late>>

Next ==
  \/ \E e \in Event : Add(e)
  \/ CloseReady
  \/ Flush

Spec == Init /\ [][Next]_vars

(***************************************************************************)
(* Properties.                                                             *)
(***************************************************************************)

TypeOK ==
  /\ windows \in [Keys -> SUBSET Event]
  /\ watermark \in Times \cup {NoWatermark}
  /\ added \in SUBSET Event
  /\ late \in SUBSET Keys
  /\ emitted \in SUBSET Rollup

\* No event is dropped and none is counted twice: over any sequence of add,
\* close_ready and flush, each event added is in exactly one place, the open
\* accumulator of its own window or one rollup of that window.
Conservation ==
  \A e \in added :
    /\ e \in windows[KeyOf(e)] \/ \E r \in emitted : e \in r.events
    /\ \A r \in emitted :
         e \in r.events => r.key = KeyOf(e) /\ e \notin windows[r.key]
    /\ \A r, q \in emitted : e \in r.events /\ e \in q.events => r = q

\* The incremental path agrees with aggregate(): as long as no event of a
\* window arrives after that window was emitted, the window has one rollup and
\* it is the one aggregate() computes from everything received.
AgreesWithAggregate ==
  \A r \in emitted : r.key \notin late => r \in Aggregate(added)

\* The watermark never moves backwards, whatever timestamps arrive, so a
\* window that was ready stays ready until it is emitted.
StaysReady ==
  \A k \in Ready(windows, watermark) :
    \/ k \in Ready(windows', watermark')
    \/ \E r \in emitted' : r.key = k /\ windows[k] \subseteq r.events

\* A window is emitted only once an event was added whose timestamp is at
\* least the grace period past the window's end; flush() is the only other way
\* out, and leaves no window open.
EmittedWhenDue ==
  \A r \in emitted' \ emitted :
    \/ \E e \in added : e.ts >= WindowEnd(r.key) + GRACE_SECONDS
    \/ Open(windows') = {}

\* A window closes neither early nor, once it is ready, never: in whatever
\* order events come, add(), close_ready() and flush() agree on when it is due.
WindowsCloseOnTime == [][StaysReady /\ EmittedWhenDue]_vars
=============================================================================
