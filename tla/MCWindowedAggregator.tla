----------------------- MODULE MCWindowedAggregator -----------------------
(***************************************************************************)
(* Two services, three events with timestamps 0 .. 5, windows of two       *)
(* seconds and one second of grace: window [0,2) closes at watermark 3 and *)
(* [2,4) at watermark 5, so events can be early, on time and late.         *)
(***************************************************************************)
EXTENDS WindowedAggregator

MCServices == {"search", "catalog"}
MCEventIds == 1 .. 3
===========================================================================
