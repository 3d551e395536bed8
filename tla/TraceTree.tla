----------------------------- MODULE TraceTree -----------------------------
(***************************************************************************)
(* Assembling a trace from its spans                                       *)
(* (services/debug-service/debug_service/trace.py).  There is one node per *)
(* span id, but one child entry per span: the storage may hold a span more *)
(* than once.                                                              *)
(***************************************************************************)
EXTENDS Integers, FiniteSets, Sequences, SequencesExt

NoParent == ""

Ids(spans) == {spans[i].id : i \in DOMAIN spans}

\* by_id, nodes: the last span of an id is the one that counts.
SpanOf(spans, id) == spans[Max({i \in DOMAIN spans : spans[i].id = id})]

ParentOf(spans, id) == SpanOf(spans, id).parent

\* The parent, its parent, and so on, as long as they are in the set.
Ancestry(spans, id) ==
    LET up[n \in 1..Len(spans) + 1] ==
            IF n = 1 THEN ParentOf(spans, id)
            ELSE LET last == up[n - 1] IN
                 IF last \in Ids(spans) THEN ParentOf(spans, last) ELSE NoParent
    IN  up

\* _reject_cycles(): a span comes back in its own ancestry, or an ancestor in
\* that of the span.
RejectsCycle(spans) ==
    \E id \in Ids(spans) :
        LET up == Ancestry(spans, id) IN
        \E n \in DOMAIN up :
            up[n] \in Ids(spans) /\ (up[n] = id \/ \E m \in 1..n - 1 : up[m] = up[n])

\* Spans below one another in a circle, each by any of its rows.  Where the last
\* rows have none, every node is below a root, and _assign_depth() never ends.
HasCycle(spans) ==
    \E group \in (SUBSET Ids(spans)) \ {{}} :
        \A id \in group : \E i \in DOMAIN spans : spans[i].id = id /\ spans[i].parent \in group

\* The entries of s at some places of it, sorted by their keys.  Python's sort is
\* stable: those with the same key stay in the order they have in s.
Sorted(s, places, key) ==
    LET Before(i) == {j \in places : key[j] < key[i] \/ (key[j] = key[i] /\ j =< i)}
    IN  [n \in 1..Cardinality(places) |-> s[CHOOSE i \in places : Cardinality(Before(i)) = n]]

\* The entries of s that are in a set.
Among(s, set) ==
    LET places == {i \in DOMAIN s : s[i] \in set}
    IN  Sorted(s, places, [i \in places |-> i])

ByStart(spans, places) ==
    Sorted([i \in DOMAIN spans |-> spans[i].id], places,
           [i \in places |-> SpanOf(spans, spans[i].id).start])

\* Faulty variant: the tree is built in one pass, with nodes made as they are met.
LaterChildrenOf(spans, id) ==
    LET first == Min({i \in DOMAIN spans : spans[i].id = id})
    IN  ByStart(spans, {i \in first..Len(spans) : spans[i].parent = id})

ChildrenOf(spans, id) == ByStart(spans, {i \in DOMAIN spans : spans[i].parent = id})

\* Faulty variant: a span whose parent never arrived is left out.
KnownRootsOf(spans) == ByStart(spans, {i \in DOMAIN spans : spans[i].parent = NoParent})

RootsOf(spans) == ByStart(spans, {i \in DOMAIN spans : spans[i].parent \notin Ids(spans)})

IsOrphan(spans, s) == s.parent # NoParent /\ s.parent \notin Ids(spans)

SumOf(spans, ids) == SumFunction([i \in DOMAIN ids |-> SpanOf(spans, ids[i]).duration])

SelfTime(spans, id) ==
    LET own == SpanOf(spans, id).duration - SumOf(spans, ChildrenOf(spans, id))
    IN  IF own > 0 THEN own ELSE 0

\* walk() from each root, and the depth _assign_depth() gives each node.
Nodes(spans) ==
    LET walk[id \in Ids(spans)] ==
            LET kids == ChildrenOf(spans, id)
            IN  <<id>> \o FlattenSeq([i \in DOMAIN kids |-> walk[kids[i]]])
        roots == RootsOf(spans)
    IN  FlattenSeq([i \in DOMAIN roots |-> walk[roots[i]]])

\* max(..., key=duration): the first of the longest.
Longest(spans, ids) ==
    LET Time(i) == SpanOf(spans, ids[i]).duration
    IN  ids[Min({i \in DOMAIN ids : \A j \in DOMAIN ids : Time(j) =< Time(i)})]

\* Faulty variant: the path follows the child that started first.
FirstChildPath(spans) ==
    LET below[id \in Ids(spans)] ==
            LET kids == ChildrenOf(spans, id)
            IN  <<id>> \o IF kids = <<>> THEN <<>> ELSE below[kids[1]]
    IN  below[Longest(spans, RootsOf(spans))]

\* The chain of longest children of the longest root.
CriticalPath(spans) ==
    LET below[id \in Ids(spans)] ==
            LET kids == ChildrenOf(spans, id)
            IN  <<id>> \o IF kids = <<>> THEN <<>> ELSE below[Longest(spans, kids)]
        roots == RootsOf(spans)
    IN  IF roots = <<>> THEN <<>> ELSE below[Longest(spans, roots)]

TotalDuration(spans) ==
    Max({spans[i].start + spans[i].duration : i \in DOMAIN spans})
        - Min({spans[i].start : i \in DOMAIN spans})

OrphanCount(spans) == Cardinality({i \in DOMAIN spans : IsOrphan(spans, spans[i])})

\* build_trace(), of spans without a cycle.
BuildTrace(spans) ==
    IF spans = <<>>
    THEN [nodes |-> <<>>, orphans |-> 0, total |-> 0]
    ELSE [nodes |-> Nodes(spans), orphans |-> OrphanCount(spans), total |-> TotalDuration(spans)]
=============================================================================
