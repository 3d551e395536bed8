----------------------------- MODULE RootCause -----------------------------
(***************************************************************************)
(* The findings about one trace                                            *)
(* (services/debug-service/debug_service/root_cause.py).  Confidences are  *)
(* percentages.                                                            *)
(***************************************************************************)
EXTENDS TraceTree

CONSTANTS
    RETRY_THRESHOLD,
    FAN_OUT_THRESHOLD,
    MIN_SLOW_SPAN,         \* in the unit of the durations
    BASELINE_MULTIPLIER

\* A number of calls.
ThresholdAssumption == RETRY_THRESHOLD \in Nat

ASSUME ThresholdAssumption

\* Of the trace, in percent.
SELF_TIME_SHARE_THRESHOLD == 35

Finding(kind, id, confidence) == [kind |-> kind, id |-> id, confidence |-> confidence]

AtMost(n, bound) == IF n =< bound THEN n ELSE bound

\* One finding per node of a selection, in the order of the walk.
PerNode(kind, ids, confidence) ==
    [i \in DOMAIN ids |-> Finding(kind, ids[i], confidence[i])]

\* An explicit error status is a fact, not an inference.
ErrorFindings(spans, tree) ==
    LET failed == Among(tree.nodes, {id \in ToSet(tree.nodes) : SpanOf(spans, id).error})
    IN  PerNode("error", failed, [i \in DOMAIN failed |-> 95])

BaselineFindings(spans, tree, baselines) ==
    LET Normal(id) == baselines[SpanOf(spans, id).service]
        Breach(id) == /\ Normal(id) > 0
                      /\ SpanOf(spans, id).duration >= BASELINE_MULTIPLIER * Normal(id)
        Ratio(id) == (SpanOf(spans, id).duration * 5) \div Normal(id)
        ids == Among(tree.nodes, {id \in ToSet(tree.nodes) : Breach(id)})
    IN  PerNode("baseline", ids, [i \in DOMAIN ids |-> AtMost(55 + Ratio(ids[i]), 95)])

SlowSpanFindings(spans, tree) ==
    LET Share(id) == (SelfTime(spans, id) * 100) \div tree.total
        Slow(id) == /\ Share(id) >= SELF_TIME_SHARE_THRESHOLD
                    /\ SelfTime(spans, id) >= MIN_SLOW_SPAN
        ids == IF tree.total =< 0 THEN <<>>
               ELSE Among(tree.nodes, {id \in ToSet(tree.nodes) : Slow(id)})
    IN  PerNode("slow", ids, [i \in DOMAIN ids |-> AtMost(50 + Share(ids[i]), 90)])

\* Faulty variant: all calls under a node are counted together.
AllCallsOf(spans, id) ==
    LET kids == ChildrenOf(spans, id)
    IN  [c \in {<<SpanOf(spans, kids[i]).service, "any">> : i \in DOMAIN kids} |-> Len(kids)]

\* How often each service and operation is called under a node.
CallsOf(spans, id) ==
    LET kids == ChildrenOf(spans, id)
        call == [i \in DOMAIN kids |->
                    <<SpanOf(spans, kids[i]).service, SpanOf(spans, kids[i]).operation>>]
    IN  [c \in ToSet(call) |-> Cardinality({i \in DOMAIN call : call[i] = c})]

RetryFindings(spans, tree) ==
    LET Storms(id) ==
            LET calls == CallsOf(spans, id)
                stormy == SetToSeq({c \in DOMAIN calls : calls[c] >= RETRY_THRESHOLD})
            IN  [i \in DOMAIN stormy |->
                    Finding("retry", id, AtMost(40 + 10 * calls[stormy[i]], 85))]
    IN  FlattenSeq([i \in DOMAIN tree.nodes |-> Storms(tree.nodes[i])])

CacheFindings(spans, tree) ==
    LET misses == Among(tree.nodes, {id \in ToSet(tree.nodes) : SpanOf(spans, id).miss})
    IN  IF misses = <<>> THEN <<>> ELSE <<Finding("cache", Longest(spans, misses), 50)>>

StructuralFindings(spans, tree) ==
    LET Wide(id) == Len(ChildrenOf(spans, id)) >= FAN_OUT_THRESHOLD
        wide == Among(tree.nodes, {id \in ToSet(tree.nodes) : Wide(id)})
    IN  (IF tree.orphans > 0 THEN <<Finding("missing", NoParent, 60)>> ELSE <<>>)
        \o PerNode("fan out", wide, [i \in DOMAIN wide |-> 45])

KIND_PRIORITY == <<"error", "baseline", "slow", "retry", "missing", "fan out", "cache">>

Rank(f) == CHOOSE i \in DOMAIN KIND_PRIORITY : KIND_PRIORITY[i] = f.kind

\* By priority, then by falling confidence, which is below 100.
Order(f) == 100 * Rank(f) - f.confidence

Analyse(spans, tree, baselines) ==
    LET found == ErrorFindings(spans, tree) \o BaselineFindings(spans, tree, baselines)
                   \o SlowSpanFindings(spans, tree) \o RetryFindings(spans, tree)
                   \o CacheFindings(spans, tree) \o StructuralFindings(spans, tree)
    IN  Sorted(found, DOMAIN found, [i \in DOMAIN found |-> Order(found[i])])

\* The totals of self time by service.
SelfTimes(spans, tree) ==
    LET Service(id) == SpanOf(spans, id).service
        Of(s) == {i \in DOMAIN tree.nodes : Service(tree.nodes[i]) = s}
    IN  [s \in {Service(id) : id \in ToSet(tree.nodes)} |->
            SumFunction([i \in Of(s) |-> SelfTime(spans, tree.nodes[i])])]

\* max() over the dictionary: one with the largest total, None without nodes.
SlowestServices(spans, tree) ==
    LET total == SelfTimes(spans, tree)
    IN  {s \in DOMAIN total : \A t \in DOMAIN total : total[t] =< total[s]}
=============================================================================
