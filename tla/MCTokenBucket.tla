--------------------------- MODULE MCTokenBucket ---------------------------
(***************************************************************************)
(* A client whose bucket holds two tokens.  The key in Redis outlives the  *)
(* refill by one second, a stamp may be a tick off the time it is used at, *)
(* and the run is long enough to drain the bucket, to refill it and to see *)
(* the key expire.                                                         *)
(*                                                                         *)
(* A step on the bucket in Redis does not depend on which replica takes    *)
(* it, and consecutive checks may carry any two stamps in range: the one   *)
(* replica here stands for as many as share that bucket.                   *)
(***************************************************************************)
EXTENDS TokenBucket

CONSTANT r1

MCReplicas == {r1}
=============================================================================
