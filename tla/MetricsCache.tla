---------------------------- MODULE MetricsCache ----------------------------
(***************************************************************************)
(* services/api-gateway/gateway/cache.py under the routes of main.py and   *)
(* the queries of queries.py: many requests share one Redis, read through  *)
(* it to ClickHouse and write back what they read.                         *)
(*                                                                         *)
(* ClickHouse changes all the time, so rows are identified by the tick at  *)
(* which they were read; an answer also carries the window it was asked    *)
(* for, which TimeRange.last() takes from the clock of the request.  A     *)
(* handler is suspended in the cache read ("get"), in a query ("load") or  *)
(* in the cache write ("store").                                           *)
(***************************************************************************)
EXTENDS Integers, Sequences, FiniteSets, FiniteSetsExt

CONSTANTS
    Keys,       \* query shapes: what cache_key() makes of a request
    Endpoints,  \* the names in TTL_SECONDS
    EndpointOf, \* EndpointOf[k]
    Ttl,        \* Ttl[e]: TTL_SECONDS, in ticks
    Queries,    \* Queries[e]: the number of queries its loader runs
    Routes,     \* the routes of main.py with their parameters
    KeysOf,     \* KeysOf[r]: the answers a route puts together, in order
    Slots,      \* model bound: requests in flight at once
    Turn,       \* the longest a get_or_set() takes, and a reply
    Cleared,    \* model bound: the endpoints invalidate() is called for
    MaxTime     \* model bound: ticks
\* Model bounds: after the first tick one invalidation runs to its end, and
\* requests come before the last tick.

ASSUME CacheAssumption ==
    /\ EndpointOf \in [Keys -> Endpoints]
    /\ Ttl \in [Endpoints -> Nat \ {0}]
    /\ Queries \in [Endpoints -> Nat \ {0}]
    /\ \A r \in Routes : KeysOf[r] \in Seq(Keys) /\ KeysOf[r] # <<>>
    /\ Turn \in Nat \ {0}
    /\ Cleared \subseteq Endpoints

\* Each answer is asked for at one place: main.py names every endpoint in one
\* get_or_set(), of one route.
ASSUME PlaceAssumption ==
    \A r, s \in Routes : \A i \in DOMAIN KeysOf[r], j \in DOMAIN KeysOf[s] :
        KeysOf[r][i] = KeysOf[s][j] => i = j

VARIABLES
    now,       \* ticks
    enabled,   \* whether the gateway found Redis when it started
    cache,     \* Redis: key to answer and the tick it was stored, or Nothing
    slots,     \* the requests being handled
    clearing,  \* invalidate() in progress, or Nothing
    cleared    \* per endpoint, when its last finished invalidation began

cacheVars == <<now, enabled, cache, slots, clearing, cleared>>

Nothing == [present |-> FALSE]

Free == [phase |-> "free"]

TtlOf(k) == Ttl[EndpointOf[k]]

\* The result of a loader: how many of its queries it rests on, the tick at
\* which the first of them read, and the end of the window they selected.
NoReads == [queries |-> 0, read |-> 0]

\* A request: its route, when it came in, when it got its last answer, the
\* answers it has and the queries made for the next one.
Handler(phase, r, asked, since, parts, loading) ==
    [phase |-> phase, route |-> r, asked |-> asked, since |-> since,
     parts |-> parts, loading |-> loading]

\* lifespan(): Redis answers the ping, or there is no cache until a restart.
CacheInit ==
    /\ now = 0
    /\ enabled \in BOOLEAN
    /\ cache = [k \in Keys |-> Nothing]
    /\ slots = [h \in Slots |-> Free]
    /\ clearing = Nothing
    /\ cleared = [e \in Endpoints |-> 0]

-----------------------------------------------------------------------------
(***************************************************************************)
(* get_or_set(), from one await to the next.                               *)
(***************************************************************************)

First == IF enabled THEN "get" ELSE "load"

KeyOf(q) == KeysOf[q.route][Len(q.parts) + 1]

Ask(h, r) ==
    slots' = [slots EXCEPT ![h] = Handler(First, r, now, now, <<>>, NoReads)]

\* get_or_set() returns: the route goes on to its next answer, or replies.
Give(h, answer) ==
    LET q == slots[h]
        parts == Append(q.parts, answer)
        phase == IF Len(parts) = Len(KeysOf[q.route]) THEN "replied" ELSE First
    IN  slots' = [slots EXCEPT ![h] = Handler(phase, q.route, q.asked, now, parts, NoReads)]

\* Faulty variant: a hit renews the entry.
HitRenews(h) ==
    /\ slots[h].phase = "get"
    /\ cache[KeyOf(slots[h])].present
    /\ Give(h, cache[KeyOf(slots[h])].answer)
    /\ cache' = [cache EXCEPT ![KeyOf(slots[h])].stored = now]
    /\ UNCHANGED <<now, enabled, clearing, cleared>>

Hit(h) ==
    /\ slots[h].phase = "get"
    /\ cache[KeyOf(slots[h])].present
    /\ Give(h, cache[KeyOf(slots[h])].answer)
    /\ UNCHANGED <<now, enabled, cache, clearing, cleared>>

\* No entry, or the read raised and is treated as if there were none.
Miss(h) ==
    /\ slots[h].phase = "get"
    /\ slots' = [slots EXCEPT ![h].phase = "load"]
    /\ UNCHANGED <<now, enabled, cache, clearing, cleared>>

\* One query of the loader is executed.
Query(h) ==
    LET q == slots[h]
        made == q.loading.queries + 1
        first == IF made = 1 THEN now ELSE q.loading.read
        phase == IF made = Queries[EndpointOf[KeyOf(q)]] THEN "store" ELSE "load"
    IN  /\ q.phase = "load"
        /\ slots' = [slots EXCEPT ![h].phase = phase,
                                ![h].loading = [queries |-> made, read |-> first]]
        /\ UNCHANGED <<now, enabled, cache, clearing, cleared>>

\* QueryError: the route answers 503, and nothing is stored.
QueryFails(h) ==
    LET q == slots[h] IN
    /\ q.phase = "load"
    /\ slots' = [slots EXCEPT ![h] = Handler("failed", q.route, q.asked, q.since, <<>>, NoReads)]
    /\ UNCHANGED <<now, enabled, cache, clearing, cleared>>

Loaded(q) ==
    [key |-> KeyOf(q), queries |-> q.loading.queries, read |-> q.loading.read,
     window |-> q.asked]

Entry(answer) == [present |-> TRUE, answer |-> answer, stored |-> now]

\* The setex.
Write(h) ==
    /\ slots[h].phase = "store"
    /\ enabled
    /\ cache' = [cache EXCEPT ![KeyOf(slots[h])] = Entry(Loaded(slots[h]))]
    /\ Give(h, Loaded(slots[h]))
    /\ UNCHANGED <<now, enabled, clearing, cleared>>

\* Without Redis there is no setex; one that raises is ignored.
WriteFails(h) ==
    /\ slots[h].phase = "store"
    /\ Give(h, Loaded(slots[h]))
    /\ UNCHANGED <<now, enabled, cache, clearing, cleared>>

-----------------------------------------------------------------------------
(***************************************************************************)
(* invalidate(): a scan that deletes what it finds, key by key.  Redis     *)
(* returns every key that is there from the beginning to the end of the    *)
(* scan ("left"), and may return others.                                   *)
(***************************************************************************)

Present(e) == {k \in Keys : EndpointOf[k] = e /\ cache[k].present}

Invalidate(e) ==
    /\ enabled
    /\ ~clearing.present
    /\ \A c \in Endpoints : cleared[c] = 0
    /\ clearing' = [present |-> TRUE, endpoint |-> e, began |-> now, left |-> Present(e)]
    /\ UNCHANGED <<now, enabled, cache, slots, cleared>>

\* Faulty variant: the scan goes on, the key it deletes is another one.
DeleteNothing(k) ==
    /\ clearing.present
    /\ EndpointOf[k] = clearing.endpoint
    /\ cache[k].present
    /\ clearing' = [clearing EXCEPT !.left = @ \ {k}]
    /\ UNCHANGED <<now, enabled, cache, slots, cleared>>

Delete(k) ==
    /\ clearing.present
    /\ EndpointOf[k] = clearing.endpoint
    /\ cache[k].present
    /\ cache' = [cache EXCEPT ![k] = Nothing]
    /\ clearing' = [clearing EXCEPT !.left = @ \ {k}]
    /\ UNCHANGED <<now, enabled, slots, cleared>>

Invalidated ==
    /\ clearing.present
    /\ clearing.left = {}
    /\ cleared' = [cleared EXCEPT ![clearing.endpoint] = clearing.began]
    /\ clearing' = Nothing
    /\ UNCHANGED <<now, enabled, cache, slots>>

\* An exception ends it; invalidate() returns what it removed so far.
InvalidateFails ==
    /\ clearing.present
    /\ clearing' = Nothing
    /\ UNCHANGED <<now, enabled, cache, slots, cleared>>

-----------------------------------------------------------------------------
\* Faulty variant: set instead of setex.
NeverExpired(k) == cache[k].present /\ now < cache[k].stored

Expired(k) == cache[k].present /\ now + 1 >= cache[k].stored + TtlOf(k)

\* A tick passes, and Redis drops what has outlived its TTL.
Tick ==
    /\ now < MaxTime
    /\ \A h \in Slots : slots[h] # Free => now < slots[h].since + Turn
    /\ now' = now + 1
    /\ cache' = [k \in Keys |-> IF Expired(k) THEN Nothing ELSE cache[k]]
    /\ clearing' = IF clearing.present
                   THEN [clearing EXCEPT !.left = {k \in @ : ~Expired(k)}]
                   ELSE clearing
    /\ UNCHANGED <<enabled, slots, cleared>>

Serve(h) ==
    Hit(h) \/ Miss(h) \/ Query(h) \/ QueryFails(h) \/ Write(h) \/ WriteFails(h)

Clear ==
    \/ \E e \in Cleared : Invalidate(e)
    \/ \E k \in Keys : Delete(k)
    \/ Invalidated
    \/ InvalidateFails

\* Requests come at any time and are forgotten once they are answered.
Request(h) ==
    /\ \/ slots[h].phase = "free" /\ now < MaxTime /\ \E r \in Routes : Ask(h, r)
       \/ slots[h].phase \in {"replied", "failed"} /\ slots' = [slots EXCEPT ![h] = Free]
    /\ UNCHANGED <<now, enabled, cache, clearing, cleared>>

CacheNext == Tick \/ Clear \/ \E h \in Slots : Serve(h) \/ Request(h)

CacheSpec == CacheInit /\ [][CacheNext]_cacheVars

-----------------------------------------------------------------------------
(***************************************************************************)
(* Properties.                                                             *)
(***************************************************************************)

AnswerOK(a) ==
    /\ a.key \in Keys
    /\ a.queries \in Nat /\ a.read \in 0..now
    /\ a.window \in 0..now

EntryOK(c) ==
    c = Nothing \/ (c.present /\ AnswerOK(c.answer) /\ c.stored \in 0..now)

HandlerOK(q) ==
    \/ q = Free
    \/ /\ q.phase \in {"get", "load", "store", "replied", "failed"}
       /\ q.route \in Routes
       /\ q.asked \in 0..now /\ q.since \in 0..now
       /\ q.loading.queries \in Nat /\ q.loading.read \in 0..now
       /\ \A i \in DOMAIN q.parts : AnswerOK(q.parts[i])

\* Redis holds answers with the tick they were stored at, requests are in one
\* of the awaits of get_or_set(), times are not in the future.
CacheTypeOK ==
    /\ now \in Nat /\ enabled \in BOOLEAN
    /\ \A k \in Keys : EntryOK(cache[k])
    /\ \A h \in Slots : HandlerOK(slots[h])
    /\ clearing = Nothing \/ (clearing.endpoint \in Endpoints /\ clearing.left \subseteq Keys)
    /\ cleared \in [Endpoints -> 0..now]

\* An answer is the whole result of its loader for the key it is given or
\* stored under: a failed second query of the summary, or the answer of
\* another request, never gets in.  (get_or_set, MetricsQueries.summary)
AnswersAreWhole ==
    LET IsWhole(k, a) == a.key = k /\ a.queries = Queries[EndpointOf[k]] IN
    /\ \A k \in Keys : cache[k].present => IsWhole(k, cache[k].answer)
    /\ \A h \in Slots : slots[h] # Free =>
         \A i \in DOMAIN slots[h].parts :
             IsWhole(KeysOf[slots[h].route][i], slots[h].parts[i])

\* Whatever readers, writers, expiry and failures interleave, no row a client
\* is given was read longer ago than the TTL of its endpoint and one turn:
\* a TTL counts from the write, not from the read.  (get_or_set, TTL_SECONDS)
AgeBounded ==
    \A h \in Slots : slots[h] # Free /\ slots[h].parts # <<>> =>
        LET answer == slots[h].parts[Len(slots[h].parts)] IN
        slots[h].since < answer.read + TtlOf(answer.key) + Turn

\* The window a response announces is that of its own request; the window its
\* rows were selected for may be another one, but not by more than the TTL
\* and the turns taken so far.  An answer that is asked for late in one route
\* and early in another would break it.  (_window, the routes of main.py)
WindowsAgree ==
    \A h \in Slots : slots[h] # Free =>
        \A i \in DOMAIN slots[h].parts :
            LET answer == slots[h].parts[i] IN
            /\ slots[h].asked < answer.window + TtlOf(answer.key) + i * Turn
            /\ answer.window =< slots[h].asked + i * Turn

\* After an invalidation that ran to its end, what is cached for the endpoint
\* was read at most one turn before the invalidation began: a value loaded
\* before and stored after it survives, an entry that was there does not.
\* (invalidate)
InvalidationHolds ==
    \A k \in Keys : cache[k].present =>
        cleared[EndpointOf[k]] =< cache[k].answer.read + Turn

-----------------------------------------------------------------------------
(***************************************************************************)
(* What a client is promised.                                              *)
(***************************************************************************)

\* An answer ages by the turns of the ones after it before the response goes
\* out.
RouteAge ==
    [r \in Routes |->
        Max({TtlOf(KeysOf[r][i]) + (Len(KeysOf[r]) - i + 1) * Turn : i \in DOMAIN KeysOf[r]})]

RouteWait == [r \in Routes |-> (Len(KeysOf[r]) + 1) * Turn]

Oldest(q) == Min({q.parts[i].read : i \in DOMAIN q.parts})

Promised(q) ==
    CASE q = Free -> [state |-> "none"]
      [] q.phase = "failed" -> [state |-> "failed", route |-> q.route, asked |-> q.asked]
      [] q.phase = "replied" ->
           [state |-> "answered", route |-> q.route, asked |-> q.asked, read |-> Oldest(q)]
      [] OTHER -> [state |-> "pending", route |-> q.route, asked |-> q.asked]

Requests == [h \in Slots |-> Promised(slots[h])]

Promise == INSTANCE FreshAnswers WITH
    MaxAge <- RouteAge,
    MaxWait <- RouteWait,
    requests <- Requests

\* Reading through a shared cache that expires, is invalidated and fails
\* keeps the promise a client relies on.  (main.py, cache.py, queries.py)
KeepsThePromise == Promise!AnswersSpec
=============================================================================
