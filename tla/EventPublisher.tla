--------------------------- MODULE EventPublisher ---------------------------
(***************************************************************************)
(* libs/common/search_metrics_common/kafka.py: what a publish hands to the *)
(* producer, and what becomes of a record that was handed over.  An entry  *)
(* of a request is a record [id, valid, status, results]: whether it       *)
(* passes validation, how the search ended, whether it lists documents.    *)
(*                                                                         *)
(* The producer is idempotent and waits for all replicas: it writes a      *)
(* record at most once, and reports it written only when it is.  A record  *)
(* it gives up on may still have been written.                             *)
(***************************************************************************)
EXTENDS Integers, Sequences, FiniteSets, SequencesExt

\* Where a record is: still with the producer, written and acknowledged,
\* given up, or given up although the broker has it.
Fates == {"queued", "stored", "failed", "unsure"}

\* SearchEvent.topic
TopicOf(e) == IF e.status = "ok" THEN "events" ELSE "errors"

\* Faulty variant: one results record too many.
SendsForWithRepeat(e) ==
    <<[topic |-> TopicOf(e), id |-> e.id]>>
    \o IF e.results THEN [i \in 1..2 |-> [topic |-> "results", id |-> e.id]] ELSE <<>>

\* The sends for one event: the event, then its documents if it has any.
SendsFor(e) ==
    <<[topic |-> TopicOf(e), id |-> e.id]>>
    \o IF e.results THEN <<[topic |-> "results", id |-> e.id]>> ELSE <<>>

PublishEvents(es) == FlattenSeq([i \in DOMAIN es |-> SendsFor(es[i])])

PublishSpans(es) == [i \in DOMAIN es |-> [topic |-> "spans", id |-> es[i].id]]

Sends(kind, es) ==
    IF kind = "spans" THEN PublishSpans(es) ELSE PublishEvents(es)

IsWritten(fate) == fate \in {"stored", "unsure"}

\* "for future in pending: await future": done when all are acknowledged,
\* raises at the first one that failed once those before it are in.
AllAcknowledged(fates) == \A k \in DOMAIN fates : fates[k] = "stored"

FirstFailed(fates) ==
    \E k \in DOMAIN fates :
        /\ fates[k] \in {"failed", "unsure"}
        /\ \A j \in 1..(k - 1) : fates[j] = "stored"
=============================================================================
