------------------------- MODULE TelemetryCollector -------------------------
(***************************************************************************)
(* services/telemetry-collector/collector/main.py and ingest.py: requests  *)
(* of several clients, validated entry by entry and published in one       *)
(* pipelined batch.  A handler is suspended in a send ("sending") or in    *)
(* the acknowledgements ("waiting"); everything between two awaits is one  *)
(* step.  The rate limiter's decision is left open (TokenBucket has it).   *)
(*                                                                         *)
(* A client that hears of a failure, or stops waiting, may send the same   *)
(* batch again; clients are not part of the collector.                     *)
(***************************************************************************)
EXTENDS EventPublisher

CONSTANTS
    Clients,           \* senders, told apart by X-Client-Id
    Batches,           \* what a client may have to report: [kind, entries]
    MAX_BATCH_SIZE,    \* settings.max_batch_size
    MaxAttempts,       \* model bound: requests a client spends on one batch
    MaxFaults          \* model bound: denials, failures, crashes, timeouts

ASSUME CollectorAssumption ==
    /\ MAX_BATCH_SIZE \in Nat \ {0}
    /\ MaxAttempts \in Nat
    /\ MaxFaults \in Nat

Kinds == {"event", "events", "spans"}

\* Entries of one request have ids of their own.
Distinct(es) ==
    \A i, j \in DOMAIN es : es[i].id = es[j].id => i = j

\* An entry's id says which entry of which batch it is, so that a copy of its
\* record is known as one.
ASSUME BatchesAssumption ==
    /\ \A b \in Batches :
         /\ b.kind \in Kinds
         /\ b.entries \in Seq(Range(b.entries))
         /\ Distinct(b.entries)
    /\ \A b, d \in Batches : \A i \in DOMAIN b.entries : \A j \in DOMAIN d.entries :
         b.entries[i].id = d.entries[j].id => b = d

VARIABLES
    traffic,    \* the batches each client has to report, fixed from the start
    requests,   \* every request received so far, in order of arrival
    faults      \* what went wrong so far

vars == <<traffic, requests, faults>>

Init ==
    /\ traffic \in [Clients -> SUBSET Batches]
    /\ requests = <<>>
    /\ faults = 0

\* Something goes wrong, one of MaxFaults times.
Fault == faults < MaxFaults /\ faults' = faults + 1 /\ UNCHANGED traffic

-----------------------------------------------------------------------------
(***************************************************************************)
(* Receiving a request: the handler up to its first await.                 *)
(***************************************************************************)

ValidEntries(es) ==
    LET valid[n \in 0..Len(es)] ==
            IF n = 0 THEN <<>>
            ELSE IF es[n].valid THEN Append(valid[n - 1], es[n])
            ELSE valid[n - 1]
    IN  valid[Len(es)]

\* The indices ingest_events() and ingest_spans() report in "errors".
Rejected(es) == {i \in DOMAIN es : ~es[i].valid}

Answered(q, status) == [q EXCEPT !.phase = "replied", !.status = status]

\* The 202 answer: an IngestResult.
Accepted(q) ==
    [Answered(q, 202) EXCEPT !.accepted = Len(ValidEntries(q.entries)),
                             !.errors = Rejected(q.entries)]

Request(c, b) ==
    [client |-> c, kind |-> b.kind, entries |-> b.entries,
     phase |-> "sending", fates |-> <<>>,
     status |-> 0, accepted |-> 0, errors |-> {}, given_up |-> FALSE]

\* A single event is validated by the framework, a batch entry by entry.
Receive(c, b) ==
    LET q == Request(c, b) IN
    CASE b.kind = "event" /\ Rejected(b.entries) # {} -> Answered(q, 422)
      [] b.entries = <<>>                             -> Answered(q, 400)
      [] Len(b.entries) > MAX_BATCH_SIZE              -> Answered(q, 413)
      [] ValidEntries(b.entries) = <<>>               -> Accepted(q)
      [] OTHER                                        -> q

\* enforce_rate_limit() runs before the handler looks at the body.
Deny(c, b) == Answered(Request(c, b), 429)

MessagesOf(q) == Sends(q.kind, ValidEntries(q.entries))

-----------------------------------------------------------------------------
(***************************************************************************)
(* Clients.  The last request of a client says what it knows.              *)
(***************************************************************************)

OfClient(c) == {r \in DOMAIN requests : requests[r].client = c}

Carries(q, b) == q.kind = b.kind /\ q.entries = b.entries

Carrying(c, b) == {r \in OfClient(c) : Carries(requests[r], b)}

\* The client has no answer and never will, or one that says "try again".
Failed(q) ==
    \/ q.given_up
    \/ q.phase = "broken"
    \/ q.phase = "replied" /\ q.status \in {429, 500}

Pending(q) == ~q.given_up /\ q.phase \in {"sending", "waiting"}

Quiet(c) == \A r \in OfClient(c) : ~Pending(requests[r])

\* A batch is sent for the first time, or again after its last try failed.
MaySend(c, b) ==
    /\ Quiet(c)
    /\ Cardinality(Carrying(c, b)) < MaxAttempts
    /\ \A r \in Carrying(c, b) : Failed(requests[r])

Post(c, b) ==
    /\ requests' = Append(requests, Receive(c, b))
    /\ UNCHANGED <<traffic, faults>>

Denied(c, b) ==
    /\ Fault
    /\ requests' = Append(requests, Deny(c, b))

\* The client's timeout.  The handler does not learn of it.
GiveUp(r) ==
    /\ Pending(requests[r])
    /\ Fault
    /\ requests' = [requests EXCEPT ![r].given_up = TRUE]

-----------------------------------------------------------------------------
(***************************************************************************)
(* A handler.                                                              *)
(***************************************************************************)

\* Faulty variant: the loop over the sends runs once too often.
SendOneMore(r) ==
    LET q == requests[r] IN
    /\ q.phase = "sending"
    /\ requests' = [requests EXCEPT
                      ![r].fates = Append(q.fates, "queued"),
                      ![r].phase = IF Len(q.fates) = Len(MessagesOf(q))
                                   THEN "waiting" ELSE "sending"]
    /\ UNCHANGED <<traffic, faults>>

\* One "await producer.send(...)"; after the last one the handler waits.
Send(r) ==
    LET q == requests[r] IN
    /\ q.phase = "sending"
    /\ requests' = [requests EXCEPT
                      ![r].fates = Append(q.fates, "queued"),
                      ![r].phase = IF Len(q.fates) + 1 = Len(MessagesOf(q))
                                   THEN "waiting" ELSE "sending"]
    /\ UNCHANGED <<traffic, faults>>

\* send() itself raises: nothing more is handed over, nothing is taken back.
SendFails(r) ==
    /\ requests[r].phase = "sending"
    /\ Fault
    /\ requests' = [requests EXCEPT ![r] = Answered(@, 500)]

Acknowledged(r) ==
    /\ requests[r].phase = "waiting"
    /\ AllAcknowledged(requests[r].fates)
    /\ requests' = [requests EXCEPT ![r] = Accepted(@)]
    /\ UNCHANGED <<traffic, faults>>

\* Faulty variant: the exception is swallowed and the batch reported as accepted.
RaisesUnnoticed(r) ==
    /\ requests[r].phase = "waiting"
    /\ FirstFailed(requests[r].fates)
    /\ requests' = [requests EXCEPT ![r] = Accepted(@)]
    /\ UNCHANGED <<traffic, faults>>

\* A future raises: the acknowledgements behind it are never awaited.
Raises(r) ==
    /\ requests[r].phase = "waiting"
    /\ FirstFailed(requests[r].fates)
    /\ requests' = [requests EXCEPT ![r] = Answered(@, 500)]
    /\ UNCHANGED <<traffic, faults>>

-----------------------------------------------------------------------------
(***************************************************************************)
(* The producer, and the end of the process.                               *)
(***************************************************************************)

Queued(r) == {k \in DOMAIN requests[r].fates : requests[r].fates[k] = "queued"}

Store(r, k) ==
    /\ k \in Queued(r)
    /\ requests' = [requests EXCEPT ![r].fates[k] = "stored"]
    /\ UNCHANGED <<traffic, faults>>

DeliveryFails(r, k, fate) ==
    /\ k \in Queued(r)
    /\ Fault
    /\ requests' = [requests EXCEPT ![r].fates[k] = fate]

\* What the producer holds dies with the process; what was on its way may
\* have been written.  A new process starts with nothing.
Crash(written) ==
    /\ Fault
    /\ requests' = [r \in DOMAIN requests |->
         [requests[r] EXCEPT
            !.phase = IF @ \in {"sending", "waiting"} THEN "broken" ELSE @,
            !.fates = [k \in DOMAIN @ |->
                         IF @[k] # "queued" THEN @[k]
                         ELSE IF <<r, k>> \in written THEN "unsure"
                         ELSE "failed"]]]

AllQueued == UNION {{r} \X Queued(r) : r \in DOMAIN requests}

Handle(r) == Send(r) \/ SendFails(r) \/ Acknowledged(r) \/ Raises(r)

Deliver(r) ==
    \E k \in Queued(r) :
        \/ Store(r, k)
        \/ \E fate \in {"failed", "unsure"} : DeliveryFails(r, k, fate)

Collect ==
    \/ \E r \in DOMAIN requests : Handle(r) \/ Deliver(r)
    \/ \E written \in SUBSET AllQueued : Crash(written)

Report(c) ==
    \/ \E b \in traffic[c] : MaySend(c, b) /\ (Post(c, b) \/ Denied(c, b))
    \/ \E r \in OfClient(c) : GiveUp(r)

Next == Collect \/ \E c \in Clients : Report(c)

Spec == Init /\ [][Next]_vars

-----------------------------------------------------------------------------
(***************************************************************************)
(* Properties.                                                             *)
(***************************************************************************)

RequestOK(q) ==
    /\ q.client \in Clients
    /\ q.kind \in Kinds
    /\ q.phase \in {"sending", "waiting", "replied", "broken"}
    /\ q.status \in {0, 202, 400, 413, 422, 429, 500}
    /\ q.accepted \in Nat
    /\ q.errors \subseteq DOMAIN q.entries
    /\ q.given_up \in BOOLEAN
    /\ q.fates \in Seq(Fates)
    /\ Len(q.fates) =< Len(MessagesOf(q))

\* Every request has one of the handler's phases and a fate for each record
\* it handed to the producer.
TypeOK ==
    /\ traffic \in [Clients -> SUBSET Batches]
    /\ faults \in 0..MaxFaults
    /\ \A r \in DOMAIN requests : RequestOK(requests[r])

\* Whether the record m of request q is on the log.
OnLog(q, m) ==
    \E k \in DOMAIN q.fates : MessagesOf(q)[k] = m /\ IsWritten(q.fates[k])

EntryOnLog(q, i) ==
    \A m \in Range(Sends(q.kind, <<q.entries[i]>>)) : OnLog(q, m)

\* A 202 accounts for every entry of its batch: it is named as rejected and
\* nothing of it was published, or all its records, the documents included,
\* are on the log.  (ingest_events, publish_events)
AcceptedIsOnTheLog ==
    \A r \in DOMAIN requests :
        LET q == requests[r] IN
        q.status = 202 =>
            /\ q.accepted + Cardinality(q.errors) = Len(q.entries)
            /\ \A i \in DOMAIN q.entries :
                 IF i \in q.errors
                 THEN \A m \in Range(Sends(q.kind, <<q.entries[i]>>)) : ~OnLog(q, m)
                 ELSE EntryOnLog(q, i)

CopiesOf(c, m) ==
    {rk \in UNION {{r} \X DOMAIN requests[r].fates : r \in OfClient(c)} :
        /\ MessagesOf(requests[rk[1]])[rk[2]] = m
        /\ IsWritten(requests[rk[1]].fates[rk[2]])}

\* A record is on the log twice only if its client was told of a failure, or
\* stopped waiting, once for each further copy: neither a pipelined batch nor
\* a producer's own retry writes one twice.  (publish_events, build_producer)
DuplicatesNeedAFailure ==
    \A c \in Clients : \A b \in traffic[c] :
        \A m \in Range(Sends(b.kind, b.entries)) :
            LET failed == {r \in Carrying(c, b) : Failed(requests[r])}
            IN  Cardinality(CopiesOf(c, m)) =< Cardinality(failed) + 1

\* What clients were told is what became of their entries: a 202 is for entries
\* on the log, and a second copy of one is the work of a failure someone was
\* told of.  (ingest_events, publish_events, build_producer)
AnswersMatchTheLog == AcceptedIsOnTheLog /\ DuplicatesNeedAFailure

-----------------------------------------------------------------------------
(***************************************************************************)
(* Liveness.  Handlers are tasks of an event loop, the producer delivers   *)
(* or gives up within its timeouts, and a client that may try again does.  *)
(* No behaviour goes on forever, so it is enough that one of them moves    *)
(* while any of them can; failures are never assumed.                      *)
(***************************************************************************)
Progress ==
    \/ \E r \in DOMAIN requests : Send(r) \/ Acknowledged(r) \/ Raises(r)
    \/ \E r \in DOMAIN requests : \E k \in Queued(r) : Store(r, k)
    \/ \E c \in Clients : \E b \in traffic[c] : MaySend(c, b) /\ Post(c, b)

FairSpec == Spec /\ WF_vars(Progress)

ReportedOnLog(c, b) ==
    \E r \in Carrying(c, b) :
        \A i \in DOMAIN b.entries :
            b.entries[i].valid => EntryOnLog(requests[r], i)

Permanent == {400, 413, 422}

\* A client that tries again as long as it may gets every valid entry of its
\* batch onto the log, documents included, unless the batch was refused for
\* what it is; a client has one try more than there are failures.
\* (ingest_events, publish_events: nothing is accepted and then forgotten)
PersistentClientsSucceed ==
    <>(\A c \in Clients : \A b \in traffic[c] :
          \/ ReportedOnLog(c, b)
          \/ \E r \in Carrying(c, b) : requests[r].status \in Permanent)
=============================================================================
