--------------------------- MODULE MCMetricsCache ---------------------------
(***************************************************************************)
(* The overview card: one route of two answers, the first of them from two *)
(* queries, the second with the longer TTL.  A tick is five to ten seconds *)
(* of the code.                                                            *)
(***************************************************************************)
EXTENDS MetricsCache, TLC

CONSTANTS h1, h2

MCKeys == {"summary", "services"}
MCEndpointOf == [k \in MCKeys |-> k]
MCTtl == [summary |-> 1, services |-> 2]
MCQueries == [summary |-> 2, services |-> 1]
MCRoutes == {"overview"}
MCKeysOf == [overview |-> <<"summary", "services">>]
MCSlots == {h1, h2}
MCCleared == {"services"}
Symmetry == Permutations(MCSlots)
=============================================================================
