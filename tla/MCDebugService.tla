--------------------------- MODULE MCDebugService ---------------------------
(***************************************************************************)
(* Three spans with every choice of parents, a lost span and cycles        *)
(* included; durations that overlap, outlast their parents or vanish; and  *)
(* copies of a span that name another parent.                              *)
(***************************************************************************)
EXTENDS DebugService

MCIds == {"s1", "s2", "s3"}

Span(id, parent, start, duration, service, error) ==
    [id |-> id, parent |-> parent, start |-> start, duration |-> duration,
     service |-> service, operation |-> "call", error |-> error, miss |-> ~error]

Three(parent, duration, late, bad) ==
    {Span(id, parent[id], IF id = late THEN 1 ELSE 0, duration[id],
          IF id = "s1" THEN "api" ELSE "index", id = bad) : id \in MCIds}

Parents == {p \in [MCIds -> MCIds \cup {"", "lost"}] : \A id \in MCIds : p[id] # id}

Durations == {[s1 |-> 4, s2 |-> 2, s3 |-> 2], [s1 |-> 1, s2 |-> 0, s3 |-> 5]}

Whole ==
    {Three(p, d, late, bad) : p \in Parents, d \in Durations,
                              late \in {"s1", "s3"}, bad \in {"s2", "none"}}

\* One span with two rows that name different parents.
Torn ==
    {Three(p, CHOOSE d \in Durations : TRUE, "s3", "none")
        \cup {Span("s1", q, 0, 4, "api", FALSE)} :
        p \in {r \in Parents : r["s3"] = "s1"}, q \in {"", "s2", "s3"}}

MCTraces == Whole \cup Torn

MCBaselines == [api |-> 0, index |-> 2]
=============================================================================
