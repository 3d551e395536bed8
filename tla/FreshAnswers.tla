---------------------------- MODULE FreshAnswers ----------------------------
(***************************************************************************)
(* What the metric routes of the gateway promise a client, whatever is     *)
(* cached, expires or fails behind them: an answer comes within the wait   *)
(* of its route or not at all, and the oldest row in it is no older than   *)
(* the route allows when it comes.                                         *)
(***************************************************************************)
EXTENDS Integers, FiniteSets

CONSTANTS
    Routes,   \* the routes with their parameters
    MaxAge,   \* MaxAge[r]: how long ago the rows of an answer were read
    MaxWait,  \* MaxWait[r]: how long a request is in flight
    Slots,    \* model bound: requests in flight at once
    MaxTime   \* model bound: ticks

VARIABLES
    now,      \* ticks
    requests  \* per slot: nothing, or a request and its answer

answersVars == <<now, requests>>

NoRequest == [state |-> "none"]

Pending(r) == [state |-> "pending", route |-> r, asked |-> now]

Answer(r, asked, read) ==
    [state |-> "answered", route |-> r, asked |-> asked, read |-> read]

Refusal(r, asked) == [state |-> "failed", route |-> r, asked |-> asked]

AnswersInit ==
    /\ now = 0
    /\ requests = [h \in Slots |-> NoRequest]

\* A client asks.
Ask(h, r) ==
    /\ requests[h] = NoRequest
    /\ requests' = [requests EXCEPT ![h] = Pending(r)]
    /\ UNCHANGED now

\* The gateway answers with rows of one age or another.
Reply(h) ==
    LET q == requests[h] IN
    /\ q.state = "pending"
    /\ \E read \in 0..now :
         /\ now < read + MaxAge[q.route]
         /\ requests' = [requests EXCEPT ![h] = Answer(q.route, q.asked, read)]
    /\ UNCHANGED now

\* ClickHouse could not answer: 503.
Refuse(h) ==
    /\ requests[h].state = "pending"
    /\ requests' = [requests EXCEPT ![h] = Refusal(@.route, @.asked)]
    /\ UNCHANGED now

\* The answer reaches the client.
Deliver(h) ==
    /\ requests[h].state \in {"answered", "failed"}
    /\ requests' = [requests EXCEPT ![h] = NoRequest]
    /\ UNCHANGED now

Overdue(h) ==
    /\ requests[h] # NoRequest
    /\ now >= requests[h].asked + MaxWait[requests[h].route]

Pass ==
    /\ now < MaxTime
    /\ \A h \in Slots : ~Overdue(h)
    /\ now' = now + 1
    /\ UNCHANGED requests

AnswersNext ==
    \/ Pass
    \/ \E h \in Slots : Reply(h) \/ Refuse(h) \/ Deliver(h) \/ \E r \in Routes : Ask(h, r)

AnswersSpec == AnswersInit /\ [][AnswersNext]_answersVars
=============================================================================
