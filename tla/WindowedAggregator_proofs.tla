---------------------- MODULE WindowedAggregator_proofs ----------------------
(***************************************************************************)
(* Conservation of events and agreement with aggregate(), for every set of *)
(* services and events, every window length and every grace period.        *)
(***************************************************************************)
EXTENDS WindowedAggregator, TLAPS

\* The window of an event is a key: a timestamp's window starts at or before
\* it, and not before zero (window_start_for).
LEMMA KeyOfEvent ==
  ASSUME NEW e \in Event
  PROVE  KeyOf(e) \in Keys
<1>1. e.ts \in Nat /\ e.ts \in Times
  BY TimeAssumption DEF Event, Times
<1>2. e.ts % WINDOW_SECONDS \in 0 .. e.ts
  BY <1>1, WindowAssumption, SMTT(30)
<1>3. WindowStart(e.ts) \in Times
  BY <1>1, <1>2, TimeAssumption DEF WindowStart, Times
<1> QED
  BY <1>3 DEF KeyOf, Keys, Event

\* Folding a batch into the windows gives sets of events.
LEMMA AddAllType ==
  ASSUME NEW wins \in [Keys -> SUBSET Event], NEW E \in SUBSET Event
  PROVE  AddAll(wins, E) \in [Keys -> SUBSET Event]
BY DEF AddAll

\* Forgetting closed windows gives sets of events.
LEMMA ForgetType ==
  ASSUME NEW wins \in [Keys -> SUBSET Event], NEW K
  PROVE  Forget(wins, K) \in [Keys -> SUBSET Event]
BY DEF Forget

\* What closes is a set of rollups.
LEMMA RollupsOfType ==
  ASSUME NEW wins \in [Keys -> SUBSET Event], NEW K \in SUBSET Keys
  PROVE  RollupsOf(wins, K) \in SUBSET Rollup
BY DEF RollupsOf, Rollup

\* Every variable stays within its type.
THEOREM TypeCorrect == Spec => []TypeOK
<1>1. Init => TypeOK
  BY DEF Init, TypeOK
<1>2. TypeOK /\ [Next]_vars => TypeOK'
  <2> SUFFICES ASSUME TypeOK, [Next]_vars PROVE TypeOK'
    OBVIOUS
  <2>1. ASSUME NEW e \in Event, Add(e) PROVE TypeOK'
    <3>1. windows' \in [Keys -> SUBSET Event]
      BY <2>1, AddAllType DEF TypeOK, Add
    <3>2. watermark' \in Times \cup {NoWatermark}
      BY <2>1 DEF TypeOK, Add, Advance, Event
    <3>3. added' \in SUBSET Event /\ late' \in SUBSET Keys /\ emitted' \in SUBSET Rollup
      BY <2>1, KeyOfEvent DEF TypeOK, Add
    <3> QED
      BY <3>1, <3>2, <3>3 DEF TypeOK
  <2>2. CASE CloseReady
    <3>1. Ready(windows, watermark) \in SUBSET Keys
      BY DEF Ready, Open
    <3> QED
      BY <2>2, <3>1, ForgetType, RollupsOfType DEF TypeOK, CloseReady
  <2>3. CASE Flush
    <3>1. Open(windows) \in SUBSET Keys
      BY DEF Open
    <3> QED
      BY <2>3, <3>1, ForgetType, RollupsOfType DEF TypeOK, Flush
  <2>4. CASE UNCHANGED vars
    BY <2>4 DEF TypeOK, vars
  <2> QED
    BY <2>1, <2>2, <2>3, <2>4 DEF Next
<1> QED
  BY <1>1, <1>2, PTL DEF Spec

(***************************************************************************)
(* The invariant behind both results: an open accumulator holds exactly    *)
(* the events of its window that no rollup took, a rollup holds only       *)
(* events of its window, no event is in two rollups, and a rollup whose    *)
(* window was not given another event afterwards holds all of them.        *)
(***************************************************************************)
EventsOf(k) == {e \in added : KeyOf(e) = k}

Taken == UNION {r.events : r \in emitted}

IInv ==
  /\ TypeOK
  /\ \A k \in Keys : windows[k] = EventsOf(k) \ Taken
  /\ \A r \in emitted : r.events # {} /\ r.events \subseteq EventsOf(r.key)
  /\ \A r, q \in emitted : r.events \cap q.events # {} => r = q
  /\ \A r \in emitted : r.key \notin late => r.events = EventsOf(r.key)

\* The invariant holds at first.
LEMMA InitIInv == Init => IInv
BY DEF Init, IInv, TypeOK, EventsOf, Taken

\* Adding events keeps the invariant.
LEMMA AddIInv ==
  ASSUME IInv, NEW e \in Event, Add(e), TypeOK'
  PROVE  IInv'
<1>1. KeyOf(e) \in Keys /\ e \notin added
  BY KeyOfEvent DEF Add
<1>2. \A k \in Keys : EventsOf(k)' = EventsOf(k) \cup {f \in {e} : KeyOf(f) = k}
  BY DEF Add, EventsOf
<1>3. Taken' = Taken /\ e \notin Taken
  BY <1>1 DEF Add, Taken, IInv, EventsOf
<1>4. \A k \in Keys : windows'[k] = windows[k] \cup {f \in {e} : KeyOf(f) = k}
  BY DEF Add, AddAll
<1>5. \A k \in Keys : windows'[k] = EventsOf(k)' \ Taken'
  BY <1>2, <1>3, <1>4 DEF IInv
<1>6. \A r \in emitted' : r.events # {} /\ r.events \subseteq EventsOf(r.key)'
  BY DEF Add, IInv, EventsOf
<1>7. \A r \in emitted' : r.key \notin late' => r.events = EventsOf(r.key)'
  <2> SUFFICES ASSUME NEW r \in emitted, r.key \notin late'
               PROVE  r.events = EventsOf(r.key)'
    BY DEF Add
  <2>1. r.key # KeyOf(e) /\ r.key \notin late
    BY DEF Add
  <2> QED
    BY <2>1 DEF Add, IInv, EventsOf
<1> QED
  BY <1>5, <1>6, <1>7 DEF IInv, Add

\* close_ready() and flush() differ only in the windows they take.
LEMMA EmitIInv ==
  ASSUME IInv, TypeOK', NEW K \in SUBSET Open(windows),
         emitted' = emitted \cup RollupsOf(windows, K),
         windows' = Forget(windows, K),
         added' = added, late' = late
  PROVE  IInv'
<1> DEFINE new == RollupsOf(windows, K)
<1>1. \A r \in new : r.key \in Keys /\ r.key \in K /\ r.events = windows[r.key] /\ r.events # {}
  BY DEF RollupsOf, Open
<1>2. \A k \in Keys : EventsOf(k)' = EventsOf(k)
  BY DEF EventsOf
<1>3. \A k, m \in Keys : k # m => windows[k] \cap windows[m] = {}
  BY DEF IInv, EventsOf
<1>4. \A k \in Keys : windows[k] \cap Taken = {}
  BY DEF IInv
<1>5. Taken' = Taken \cup UNION {windows[k] : k \in K}
  <2>1. UNION {r.events : r \in new} = UNION {windows[k] : k \in K}
    <3>1. ASSUME NEW r \in new PROVE r.events \in {windows[k] : k \in K}
      BY <1>1
    <3>2. ASSUME NEW k \in K PROVE windows[k] \in {r.events : r \in new}
      <4>1. [key |-> k, events |-> windows[k]] \in new
        BY DEF RollupsOf
      <4> QED
        BY <4>1
    <3> HIDE DEF new
    <3>3. {r.events : r \in new} = {windows[k] : k \in K}
      BY <3>1, <3>2
    <3> QED
      BY <3>3
  <2>2. emitted' = emitted \cup new
    OBVIOUS
  <2> QED
    BY <2>1, <2>2 DEF Taken
<1>6. \A k \in Keys : windows'[k] = EventsOf(k)' \ Taken'
  <2> SUFFICES ASSUME NEW k \in Keys PROVE windows'[k] = EventsOf(k) \ Taken'
    BY <1>2
  <2>1. CASE k \in K
    BY <2>1, <1>5 DEF Forget, IInv
  <2>2. CASE k \notin K
    <3>1. windows[k] \cap UNION {windows[m] : m \in K} = {}
      BY <2>2, <1>3 DEF Open
    <3> QED
      BY <2>2, <3>1, <1>5 DEF Forget, IInv
  <2> QED
    BY <2>1, <2>2
<1>7. \A r \in emitted' : r.events # {} /\ r.events \subseteq EventsOf(r.key)'
  <2>1. \A r \in new : r.events # {} /\ r.events \subseteq EventsOf(r.key)
    BY <1>1 DEF IInv
  <2> QED
    BY <2>1 DEF IInv, EventsOf
<1>8. \A r, q \in emitted' : r.events \cap q.events # {} => r = q
  <2> SUFFICES ASSUME NEW r \in emitted', NEW q \in emitted', r.events \cap q.events # {}
               PROVE  r = q
    OBVIOUS
  <2>1. CASE r \in emitted /\ q \in emitted
    BY <2>1 DEF IInv
  <2>2. CASE r \in new /\ q \in new
    <3>1. r.key = q.key
      BY <2>2, <1>1, <1>3
    <3> QED
      BY <2>2, <3>1 DEF RollupsOf
  <2>3. \A x \in emitted, y \in new : x.events \cap y.events = {}
    BY <1>1, <1>4 DEF Taken
  <2> QED
    BY <2>1, <2>2, <2>3
<1>9. \A r \in emitted' : r.key \notin late' => r.events = EventsOf(r.key)'
  <2> SUFFICES ASSUME NEW r \in new, r.key \notin late
               PROVE  r.events = EventsOf(r.key)
    BY DEF IInv, EventsOf
  <2>1. \A q \in emitted : q.key # r.key
    <3> SUFFICES ASSUME NEW q \in emitted, q.key = r.key PROVE FALSE
      OBVIOUS
    <3>1. q.events = EventsOf(r.key)
      BY DEF IInv
    <3>2. windows[r.key] = {}
      BY <3>1, <1>1 DEF IInv, Taken
    <3> QED
      BY <3>2, <1>1
  <2>2. EventsOf(r.key) \cap Taken = {}
    BY <2>1 DEF IInv, Taken, EventsOf
  <2>3. windows[r.key] = EventsOf(r.key) \ Taken
    BY <1>1 DEF IInv
  <2>4. EventsOf(r.key) \ Taken = EventsOf(r.key)
    BY <2>2
  <2> QED
    BY <2>3, <2>4, <1>1
<1> QED
  BY <1>6, <1>7, <1>8, <1>9 DEF IInv

\* The invariant holds in every reachable state.
THEOREM Inductive == Spec => []IInv
<1>1. IInv /\ TypeOK' /\ [Next]_vars => IInv'
  <2> SUFFICES ASSUME IInv, TypeOK', [Next]_vars PROVE IInv'
    OBVIOUS
  <2>1. ASSUME NEW e \in Event, Add(e) PROVE IInv'
    BY <2>1, AddIInv
  <2>2. CASE CloseReady
    <3>1. Ready(windows, watermark) \in SUBSET Open(windows)
      BY DEF Ready
    <3> QED
      BY <2>2, <3>1, EmitIInv DEF CloseReady
  <2>3. CASE Flush
    BY <2>3, EmitIInv DEF Flush
  <2>4. CASE UNCHANGED vars
    BY <2>4 DEF IInv, TypeOK, EventsOf, Taken, vars
  <2> QED
    BY <2>1, <2>2, <2>3, <2>4 DEF Next
<1> QED
  BY InitIInv, TypeCorrect, <1>1, PTL DEF Spec

\* Each event handed to the aggregator is in the open accumulator of its own
\* window or in exactly one rollup of that window, after any sequence of
\* add(), close_ready() and flush().
THEOREM EventsConserved == Spec => []Conservation
<1>1. IInv => Conservation
  <2> SUFFICES ASSUME IInv, NEW e \in added
               PROVE  /\ e \in windows[KeyOf(e)] \/ \E r \in emitted : e \in r.events
                      /\ \A r \in emitted :
                           e \in r.events => r.key = KeyOf(e) /\ e \notin windows[r.key]
                      /\ \A r, q \in emitted : e \in r.events /\ e \in q.events => r = q
    BY DEF Conservation
  <2>1. KeyOf(e) \in Keys
    BY KeyOfEvent DEF IInv, TypeOK
  <2>2. e \in windows[KeyOf(e)] \/ \E r \in emitted : e \in r.events
    BY <2>1 DEF IInv, EventsOf, Taken
  <2>3. \A r \in emitted : e \in r.events => r.key = KeyOf(e) /\ e \notin windows[r.key]
    BY <2>1 DEF IInv, EventsOf, Taken
  <2>4. \A r, q \in emitted : e \in r.events /\ e \in q.events => r = q
    BY DEF IInv
  <2> QED
    BY <2>2, <2>3, <2>4
<1> QED
  BY Inductive, <1>1, PTL

\* A window that was not given an event after it was emitted has the rollup
\* aggregate() computes from everything received.
THEOREM IncrementalIsAggregate == Spec => []AgreesWithAggregate
<1>1. IInv => AgreesWithAggregate
  <2> SUFFICES ASSUME IInv, NEW r \in emitted, r.key \notin late
               PROVE  r \in Aggregate(added)
    BY DEF AgreesWithAggregate
  <2>1. r.events = EventsOf(r.key) /\ r.events # {}
    BY DEF IInv
  <2>2. r.key \in {KeyOf(e) : e \in added}
    BY <2>1 DEF EventsOf
  <2>3. r = [key |-> r.key, events |-> EventsOf(r.key)]
    BY <2>1 DEF IInv, TypeOK, Rollup
  <2> QED
    BY <2>2, <2>3 DEF Aggregate, EventsOf
<1> QED
  BY Inductive, <1>1, PTL

(***************************************************************************)
(* When windows close.  The watermark is the timestamp of an event that    *)
(* was added, and only grows.                                              *)
(***************************************************************************)
WatermarkSeen == watermark = NoWatermark \/ \E e \in added : e.ts = watermark

\* The watermark is the timestamp of an event in every reachable state.
LEMMA WatermarkIsATime == Spec => []WatermarkSeen
<1>1. Init => WatermarkSeen
  BY DEF Init, WatermarkSeen
<1>2. WatermarkSeen /\ [Next]_vars => WatermarkSeen'
  <2> SUFFICES ASSUME WatermarkSeen, [Next]_vars PROVE WatermarkSeen'
    OBVIOUS
  <2>1. ASSUME NEW e \in Event, Add(e) PROVE WatermarkSeen'
    BY <2>1 DEF Add, Advance, WatermarkSeen
  <2>2. CASE CloseReady \/ Flush \/ UNCHANGED vars
    BY <2>2 DEF CloseReady, Flush, vars, WatermarkSeen
  <2> QED
    BY <2>1, <2>2 DEF Next
<1> QED
  BY <1>1, <1>2, PTL DEF Spec

\* An emitted rollup of a window that closes is the one in its accumulator.
LEMMA RollupOfKey ==
  ASSUME NEW wins, NEW K, NEW k \in K
  PROVE  \E r \in RollupsOf(wins, K) : r.key = k /\ r.events = wins[k]
<1>1. [key |-> k, events |-> wins[k]] \in RollupsOf(wins, K)
  BY DEF RollupsOf
<1> QED
  BY <1>1

\* A window that is due stays due until the rollup of everything it holds is
\* emitted, whatever is added meanwhile.
LEMMA ReadyStays ==
  ASSUME TypeOK, Next
  PROVE  StaysReady
<1> SUFFICES ASSUME NEW k \in Ready(windows, watermark)
             PROVE  \/ k \in Ready(windows', watermark')
                    \/ \E r \in emitted' : r.key = k /\ windows[k] \subseteq r.events
  BY DEF StaysReady
<1>1. k \in Keys /\ windows[k] # {} /\ Passed(k, watermark) /\ k \in Open(windows)
  BY DEF Ready, Open
<1>2. ASSUME NEW e \in Event, Add(e) PROVE k \in Ready(windows', watermark')
  <2>1. windows'[k] # {}
    BY <1>1, <1>2 DEF Add, AddAll
  <2>2. watermark \in Times /\ watermark' \in Times /\ watermark <= watermark'
    BY <1>1, <1>2 DEF Add, Advance, Passed, TypeOK, Event
  <2>3. k[2] \in Times
    BY <1>1 DEF Keys
  <2>4. Passed(k, watermark')
    BY <1>1, <2>2, <2>3, TimeAssumption, WindowAssumption, GraceAssumption
       DEF Passed, WindowEnd, Times, NoWatermark
  <2> QED
    BY <1>1, <2>1, <2>4 DEF Ready, Open
<1>3. CASE CloseReady
  <2>1. \E r \in RollupsOf(windows, Ready(windows, watermark)) : r.key = k /\ r.events = windows[k]
    BY RollupOfKey
  <2> QED
    BY <1>3, <2>1 DEF CloseReady
<1>4. CASE Flush
  <2> DEFINE open == Open(windows)
  <2>1. k \in open
    BY <1>1
  <2> HIDE DEF open
  <2>2. \E r \in RollupsOf(windows, open) : r.key = k /\ r.events = windows[k]
    BY <2>1, RollupOfKey
  <2> QED
    BY <1>4, <2>2 DEF Flush, open
<1> QED
  BY <1>2, <1>3, <1>4 DEF Next

\* A window is emitted when an event that far ahead was added, or with all.
LEMMA DueWhenEmitted ==
  ASSUME TypeOK, WatermarkSeen, Next
  PROVE  EmittedWhenDue
<1> SUFFICES ASSUME NEW r \in emitted' \ emitted
             PROVE  \/ \E e \in added : e.ts >= WindowEnd(r.key) + GRACE_SECONDS
                    \/ Open(windows') = {}
  BY DEF EmittedWhenDue
<1>1. CASE \E e \in Event : Add(e)
  BY <1>1 DEF Add
<1>2. CASE CloseReady
  <2>1. r.key \in Ready(windows, watermark)
    BY <1>2 DEF CloseReady, RollupsOf
  <2>2. r.key \in Keys /\ Passed(r.key, watermark)
    BY <2>1 DEF Ready, Open
  <2>3. PICK e \in added : e.ts = watermark
    BY <2>2 DEF WatermarkSeen, Passed
  <2>4. r.key[2] \in Times /\ e.ts \in Times
    BY <2>2, <2>3 DEF Keys, TypeOK, Event
  <2>5. e.ts >= WindowEnd(r.key) + GRACE_SECONDS
    BY <2>2, <2>3, <2>4, TimeAssumption, WindowAssumption, GraceAssumption
       DEF Passed, WindowEnd, Times
  <2> QED
    BY <2>5
<1>3. CASE Flush
  <2>1. Open(windows') = {}
    BY <1>3 DEF Flush, Forget, Open
  <2> QED
    BY <2>1
<1> QED
  BY <1>1, <1>2, <1>3 DEF Next

\* A window closes neither before an event arrives that lies the grace period
\* behind its end nor, once it is due, never, in whatever order timestamps
\* come and close_ready() and flush() are called.
THEOREM ClosesOnTime == Spec => WindowsCloseOnTime
<1>1. TypeOK /\ WatermarkSeen /\ [Next]_vars => [StaysReady /\ EmittedWhenDue]_vars
  BY ReadyStays, DueWhenEmitted
<1> QED
  BY TypeCorrect, WatermarkIsATime, <1>1, PTL DEF Spec, WindowsCloseOnTime
=============================================================================
