---------------------------- MODULE DebugService ----------------------------
(***************************************************************************)
(* What the debug service (services/debug-service/debug_service: main.py,  *)
(* storage.py) says about one query while its telemetry is still arriving. *)
(* The engine stores spans in any order, some of them twice; each request  *)
(* reads what is there, in the order of the start times.                   *)
(***************************************************************************)
EXTENDS RootCause

CONSTANTS
    Traces,     \* sets of spans that services report for the query
    Baselines,  \* per service: its p95, 0 for none
    MaxTwice    \* model bound: spans that are stored a second time

\* A span has an id, which is not empty, and no negative duration; times are
\* integers.  Nothing keeps two spans of one id from differing.  (Span of trace.py)
TracesAssumption ==
    \A t \in Traces :
        /\ IsFiniteSet(t)
        /\ \A s \in t : s.id # NoParent /\ s.start \in Int /\ s.duration \in Nat

ASSUME TracesAssumption

\* Each service has a baseline, and confidences are computed from whole numbers.
BaselinesAssumption ==
    \A t \in Traces : \A s \in t : s.service \in DOMAIN Baselines /\ Baselines[s.service] \in Nat

ASSUME BaselinesAssumption

VARIABLES
    trace,   \* the spans of the query, whether or not stored yet
    stored,  \* the rows of spans for it, as a request reads them
    event,   \* whether the events table has it
    twice    \* spans stored a second time

debugVars == <<trace, stored, event, twice>>

DebugInit ==
    /\ trace \in Traces
    /\ stored = <<>>
    /\ event = FALSE
    /\ twice = 0

\* ORDER BY start_time; rows of one time come in either order.
Inserted(s) ==
    {InsertAt(stored, i, s) : i \in
        {i \in 1..Len(stored) + 1 :
            /\ \A j \in 1..i - 1 : stored[j].start =< s.start
            /\ \A j \in i..Len(stored) : s.start =< stored[j].start}}

Arrive(s) ==
    /\ s \notin ToSet(stored)
    /\ stored' \in Inserted(s)
    /\ UNCHANGED <<trace, event, twice>>

\* An insert is repeated after its answer was lost, or a batch after a crash.
ArriveAgain(s) ==
    /\ s \in ToSet(stored)
    /\ twice < MaxTwice
    /\ twice' = twice + 1
    /\ stored' \in Inserted(s)
    /\ UNCHANGED <<trace, event>>

EventArrives ==
    /\ ~event
    /\ event' = TRUE
    /\ UNCHANGED <<trace, stored, twice>>

DebugNext == EventArrives \/ \E s \in trace : Arrive(s) \/ ArriveAgain(s)

DebugSpec == DebugInit /\ [][DebugNext]_debugVars

-----------------------------------------------------------------------------
(***************************************************************************)
(* The two routes.                                                         *)
(***************************************************************************)

Status(n) == [status |-> n]

\* The recursion over a cycle that was not refused ends in an error: 500.
GetTrace ==
    CASE stored = <<>> -> Status(404)
      [] stored # <<>> /\ RejectsCycle(stored) -> Status(422)
      [] stored # <<>> /\ ~RejectsCycle(stored) /\ HasCycle(stored) -> Status(500)
      [] OTHER -> [status |-> 200, tree |-> BuildTrace(stored), path |-> CriticalPath(stored)]

\* No cycle is caught here: 500.
DebugQuery ==
    LET tree == BuildTrace(stored) IN
    CASE stored = <<>> /\ ~event -> Status(404)
      [] stored # <<>> /\ (RejectsCycle(stored) \/ HasCycle(stored)) -> Status(500)
      [] OTHER -> [status |-> 200, tree |-> tree,
                   findings |-> Analyse(stored, tree, Baselines),
                   slowest |-> SlowestServices(stored, tree)]

-----------------------------------------------------------------------------
(***************************************************************************)
(* Properties.                                                             *)
(***************************************************************************)

Shown == GetTrace.status = 200

\* The rows of one id say the same.
CopiesAgree == \A i, j \in DOMAIN stored : stored[i].id = stored[j].id => stored[i] = stored[j]

Single == twice = 0

Only(found, kind) == {f \in ToSet(found) : f.kind = kind}

\* What is refused has a cycle, and where the copies of a span agree every cycle
\* is refused, so that the walk over what is not refused ends.  (_reject_cycles)
CyclesAreFound ==
    /\ RejectsCycle(stored) => HasCycle(stored)
    /\ CopiesAgree /\ HasCycle(stored) => RejectsCycle(stored)

\* Whatever has arrived so far is in the tree, below its parent once that has
\* arrived too, once if it was stored once, siblings in the order they
\* started.  (build_trace: "an orphan dropped silently would hide the hop")
EverySpanIsShown ==
    Shown /\ CopiesAgree =>
        LET nodes == Nodes(stored) IN
        /\ ToSet(nodes) = Ids(stored)
        /\ Single => Len(nodes) = Len(stored)
        /\ \A i \in DOMAIN nodes :
             /\ ParentOf(stored, nodes[i]) \in Ids(stored) =>
                    \E j \in 1..i - 1 : nodes[j] = ParentOf(stored, nodes[i])
             /\ Single => \A j \in 1..i - 1 :
                    ParentOf(stored, nodes[j]) = ParentOf(stored, nodes[i]) =>
                        SpanOf(stored, nodes[j]).start =< SpanOf(stored, nodes[i]).start

\* What is assembled is what is stored: a tree of all its spans, or a refusal
\* where they form none.  (build_trace)
TreeIsFaithful == CyclesAreFound /\ EverySpanIsShown

\* Self times explain the whole trace: together they cover the roots, and
\* none exceeds the trace, also when children overlap, outlast their parent
\* or are stored twice.  (self_time_ms, build_trace)
TimeIsAccounted ==
    Shown /\ CopiesAgree =>
        LET nodes == Nodes(stored) IN
        /\ SumFunction([i \in DOMAIN nodes |-> SelfTime(stored, nodes[i])])
             >= SumOf(stored, RootsOf(stored))
        /\ \A id \in ToSet(nodes) : SelfTime(stored, id) \in 0..TotalDuration(stored)

\* The critical path leads from a root to a leaf and takes no step for which
\* there was a longer one.  (critical_path)
PathIsLongest ==
    Shown /\ CopiesAgree =>
        LET path == CriticalPath(stored)
            parent == [i \in DOMAIN path |-> IF i = 1 THEN "root" ELSE path[i - 1]]
            Siblings(i) == {s \in ToSet(stored) :
                IF i = 1 THEN s.parent \notin Ids(stored) ELSE s.parent = parent[i]}
        IN  /\ \A i \in DOMAIN path :
                 /\ path[i] \in {s.id : s \in Siblings(i)}
                 /\ \A s \in Siblings(i) : s.duration =< SpanOf(stored, path[i]).duration
            /\ \A s \in trace : s \in ToSet(stored) => s.parent # Last(path)

\* Times in the tree lead to where the time went.  (build_trace)
TimesAddUp == TimeIsAccounted /\ PathIsLongest

\* Every error a service has reported is among the findings, and in front of
\* all that is only inferred, however sure it is.  (analyse, KIND_PRIORITY)
ErrorsComeFirst(found) ==
    LET IsError(i) == found[i].kind = "error"
    IN  /\ {s.id : s \in {t \in ToSet(stored) : t.error}}
             = {found[i].id : i \in {j \in DOMAIN found : IsError(j)}}
        /\ \A i, j \in DOMAIN found : i < j /\ IsError(j) => IsError(i)

\* Of spans stored once, calls are called retries only if that many of them
\* really went to one operation.  (_retry_findings)
StormsAreReal(found) ==
    Single =>
        \A f \in Only(found, "retry") :
            \E s \in trace :
                Cardinality({t \in trace : /\ t.parent = f.id
                                           /\ t.service = s.service
                                           /\ t.operation = s.operation}) >= RETRY_THRESHOLD

\* Part of the trace is reported missing exactly as long as some span waits
\* for its parent.  (build_trace, _structural_findings)
MissingIsReported(found) ==
    Only(found, "missing") # {} <=>
        \E s \in ToSet(stored) : s.parent # NoParent /\ s.parent \notin Ids(stored)

\* Findings are about what is in the trace, what was reported first.  (analyse)
FindingsAreReal ==
    Shown /\ CopiesAgree =>
        \A found \in {DebugQuery.findings} :
            ErrorsComeFirst(found) /\ StormsAreReal(found) /\ MissingIsReported(found)

\* What a finding says; which of several longest misses a cache finding names
\* is left out.
Key(f) == <<f.kind, IF f.kind = "cache" THEN NoParent ELSE f.id, f.confidence>>

Keys(spans) == {Key(f) : f \in ToSet(Analyse(spans, BuildTrace(spans), Baselines))}

\* However much of a trace has arrived, each span of it once, the findings do not
\* depend on the order in which its rows are read; only which of several longest
\* misses a cache finding names does.  (build_trace, analyse)
OrderDoesNotMatter ==
    Shown /\ CopiesAgree /\ Single => Keys(stored) = Keys(Reverse(stored))
=============================================================================
