------------------------ MODULE MetricsCache_proofs ------------------------
(***************************************************************************)
(* Proofs about MetricsCache, for every set of routes, keys, endpoints and *)
(* TTLs and any number of requests in flight.                              *)
(***************************************************************************)
EXTENDS MetricsCache, TLAPS, WellFoundedInduction

-----------------------------------------------------------------------------
(***************************************************************************)
(* Induction over the naturals, from the well-foundedness of < alone: the  *)
(* facts the proofs below need about least and greatest elements.          *)
(***************************************************************************)

\* Every nonempty set of naturals has a least element.
LEMMA LeastNatural ==
  ASSUME NEW T, T \subseteq Nat, T # {}
  PROVE  \E x \in T : \A y \in T : x <= y
<1> DEFINE R == OpToRel(<, Nat)
<1>1. IsWellFoundedOn(R, Nat)
  BY NatLessThanWellFounded
<1>2. PICK x \in T : \A y \in T : ~(<<y, x>> \in R)
  <2> HIDE DEF R
  <2> QED BY <1>1, WFMin
<1>3. \A y \in T : ~(y < x)
  BY <1>2 DEF OpToRel
<1> HIDE DEF R
<1> QED BY <1>2, <1>3

\* Induction, over a set instead of a predicate.
LEMMA NaturalInduction ==
  ASSUME NEW S, S \subseteq Nat, 0 \in S, \A n \in S : n + 1 \in S
  PROVE  Nat \subseteq S
<1> SUFFICES ASSUME Nat \ S # {} PROVE FALSE
  OBVIOUS
<1>1. PICK n \in Nat \ S : \A m \in Nat \ S : n <= m
  BY LeastNatural
<1>2. n # 0 /\ n - 1 \in Nat /\ n - 1 < n
  BY <1>1
<1>3. n - 1 \in S
  BY <1>1, <1>2
<1>4. (n - 1) + 1 \in S
  BY <1>3
<1> QED BY <1>1, <1>2, <1>4

\* A function on the first n numbers has a greatest value.
LEMMA GreatestValue ==
  ASSUME NEW f, NEW n \in Nat \ {0}, \A i \in 1..n : f[i] \in Nat
  PROVE  \E x \in {f[i] : i \in 1..n} : \A i \in 1..n : f[i] <= x
<1> DEFINE S == {m \in Nat : m + 1 <= n => \E j \in 1..m + 1 : \A i \in 1..m + 1 : f[i] <= f[j]}
<1>1. 0 \in S
  OBVIOUS
<1>2. ASSUME NEW m \in S PROVE m + 1 \in S
  <2> SUFFICES ASSUME m + 2 <= n
               PROVE  \E j \in 1..m + 2 : \A i \in 1..m + 2 : f[i] <= f[j]
    OBVIOUS
  <2>1. PICK j \in 1..m + 1 : \A i \in 1..m + 1 : f[i] <= f[j]
    OBVIOUS
  <2>2. f[j] \in Nat /\ f[m + 2] \in Nat /\ \A i \in 1..m + 2 : i \in 1..m + 1 \/ i = m + 2
    BY <2>1
  <2>3. \A i \in 1..m + 1 : f[i] \in Nat
    OBVIOUS
  <2>4. CASE f[m + 2] <= f[j]
    BY <2>1, <2>2, <2>4
  <2>5. CASE f[j] <= f[m + 2]
    <3>1. \A i \in 1..m + 2 : f[i] <= f[m + 2]
      BY <2>1, <2>2, <2>3, <2>5
    <3> QED BY <3>1
  <2> QED BY <2>2, <2>4, <2>5
<1>3. n - 1 \in S
  <2>1. S \subseteq Nat /\ n - 1 \in Nat
    OBVIOUS
  <2> HIDE DEF S
  <2> QED BY <1>1, <1>2, <2>1, NaturalInduction
<1>4. n = (n - 1) + 1
  OBVIOUS
<1> QED BY <1>3, <1>4

\* So Max of these values is one of them and bounds them all.
LEMMA MaxOfValues ==
  ASSUME NEW f, NEW n \in Nat \ {0}, \A i \in 1..n : f[i] \in Nat
  PROVE  /\ Max({f[i] : i \in 1..n}) \in {f[i] : i \in 1..n}
         /\ \A i \in 1..n : f[i] <= Max({f[j] : j \in 1..n})
<1> DEFINE V == {f[i] : i \in 1..n}
<1>1. \E x \in V : \A y \in V : x >= y
  <2>1. PICK x \in V : \A i \in 1..n : f[i] <= x
    BY GreatestValue
  <2>2. \A y \in V : y \in Nat /\ \E i \in 1..n : y = f[i]
    OBVIOUS
  <2> HIDE DEF V
  <2>3. \A y \in V : x >= y
    BY <2>1, <2>2
  <2> QED BY <2>3
<1>2. Max(V) \in V /\ \A y \in V : Max(V) >= y
  <2> HIDE DEF V
  <2> QED BY <1>1 DEF Max
<1>3. \A i \in 1..n : f[i] \in V /\ f[i] \in Nat
  OBVIOUS
<1>4. V \subseteq Nat
  OBVIOUS
<1> HIDE DEF V
<1>5. \A i \in 1..n : f[i] <= Max(V)
  BY <1>2, <1>3, <1>4
<1> QED BY <1>2, <1>5 DEF V

\* Min of a nonempty set of naturals is its least element.
LEMMA MinOfNaturals ==
  ASSUME NEW T, T \subseteq Nat, T # {}
  PROVE  Min(T) \in T /\ \A y \in T : Min(T) <= y
BY LeastNatural DEF Min

-----------------------------------------------------------------------------
(***************************************************************************)
(* The invariant.                                                          *)
(***************************************************************************)

Answers == [key : Keys, queries : Nat, read : Nat, window : Nat]

Entries == [present : {TRUE}, answer : Answers, stored : Nat]

Awaits == {"get", "load", "store"}

Handlers ==
    [phase : Awaits \cup {"replied", "failed"}, route : Routes, asked : Nat, since : Nat,
     parts : Seq(Answers), loading : [queries : Nat, read : Nat]]

Clearings == [present : {TRUE}, endpoint : Endpoints, began : Nat, left : SUBSET Keys]

Shape ==
    /\ now \in Nat
    /\ enabled \in BOOLEAN
    /\ cache \in [Keys -> {Nothing} \cup Entries]
    /\ slots \in [Slots -> {Free} \cup Handlers]
    /\ clearing \in {Nothing} \cup Clearings
    /\ cleared \in [Endpoints -> Nat]

\* The answer is the whole answer for k and none of its times is after t.
Whole(k, a, t) ==
    /\ a.key = k
    /\ a.queries = Queries[EndpointOf[k]]
    /\ a.read <= t
    /\ a.window <= t

\* A request at time t: how far its loader is, and how old its answers are.
HandlerInv(q, t) ==
    /\ Len(q.parts) <= Len(KeysOf[q.route])
    /\ q.phase \in Awaits => Len(q.parts) < Len(KeysOf[q.route])
    /\ q.phase = "get" => q.loading.queries = 0
    /\ q.phase = "load" => q.loading.queries < Queries[EndpointOf[KeyOf(q)]]
    /\ q.phase = "store" => q.loading.queries = Queries[EndpointOf[KeyOf(q)]]
    /\ q.asked <= q.since /\ q.since <= t /\ t <= q.since + Turn
    /\ q.loading.queries > 0 => q.since <= q.loading.read
    /\ q.loading.read <= t
    /\ \A i \in 1..Len(q.parts) : Whole(KeysOf[q.route][i], q.parts[i], t)
    /\ q.parts # <<>> =>
         LET a == q.parts[Len(q.parts)] IN q.since < a.read + TtlOf(a.key) + Turn

\* An entry at time t: it was stored soon after its rows were read, it has not
\* expired, and the last invalidation of its endpoint came before it.
EntryInv(k, c, t, last) ==
    /\ Whole(k, c.answer, c.stored)
    /\ c.stored <= t /\ t < c.stored + TtlOf(k)
    /\ c.stored <= c.answer.read + Turn
    /\ last <= c.stored

\* An invalidation at time t: what its scan may miss was stored after it began.
ClearingInv(c, t) ==
    /\ c.began <= t
    /\ \A k \in Keys :
         EndpointOf[k] = c.endpoint /\ cache[k].present /\ k \notin c.left =>
             c.began <= cache[k].stored

IInv ==
    /\ Shape
    /\ \A h \in Slots : slots[h].phase # "free" => HandlerInv(slots[h], now)
    /\ \A k \in Keys : cache[k].present => EntryInv(k, cache[k], now, cleared[EndpointOf[k]])
    /\ clearing.present => ClearingInv(clearing, now)
    /\ \A e \in Endpoints : cleared[e] <= now

-----------------------------------------------------------------------------
\* "free" tells an unused slot from a request, present an entry from none.
LEMMA Kinds ==
  ASSUME Shape
  PROVE  /\ \A h \in Slots : slots[h].phase # "free" => slots[h] \in Handlers
         /\ \A h \in Slots : slots[h].phase = "free" => slots[h] = Free
         /\ \A k \in Keys : cache[k].present => cache[k] \in Entries
         /\ \A k \in Keys : ~cache[k].present => cache[k] = Nothing
         /\ clearing.present => clearing \in Clearings
         /\ ~clearing.present => clearing = Nothing
<1>1. Free.phase = "free" /\ Nothing.present = FALSE
  BY DEF Free, Nothing
<1>2. \A q \in Handlers : q.phase # "free"
  BY DEF Handlers, Awaits
<1>3. \A c \in Entries \cup Clearings : c.present = TRUE
  BY DEF Entries, Clearings
<1> QED BY <1>1, <1>2, <1>3 DEF Shape

\* The next answer of a request in one of the awaits of get_or_set().
LEMMA NextKey ==
  ASSUME NEW q \in Handlers, Len(q.parts) < Len(KeysOf[q.route])
  PROVE  /\ Len(q.parts) + 1 \in 1..Len(KeysOf[q.route])
         /\ KeyOf(q) \in Keys
         /\ EndpointOf[KeyOf(q)] \in Endpoints
         /\ Queries[EndpointOf[KeyOf(q)]] \in Nat \ {0}
         /\ TtlOf(KeyOf(q)) \in Nat \ {0}
<1>1. q.route \in Routes /\ q.parts \in Seq(Answers)
  BY DEF Handlers
<1>2. KeysOf[q.route] \in Seq(Keys)
  BY <1>1, CacheAssumption
<1>3. Len(q.parts) + 1 \in 1..Len(KeysOf[q.route])
  BY <1>1, <1>2
<1>4. KeyOf(q) \in Keys
  BY <1>2, <1>3 DEF KeyOf
<1> QED BY <1>3, <1>4, CacheAssumption DEF TtlOf

LEMMA InitInv == CacheInit => IInv
<1> SUFFICES ASSUME CacheInit PROVE IInv
  OBVIOUS
<1>1. Shape
  BY DEF CacheInit, Shape
<1>2. \A h \in Slots : slots[h].phase = "free"
  BY DEF CacheInit, Free
<1>3. (\A k \in Keys : ~cache[k].present) /\ ~clearing.present
  BY DEF CacheInit, Nothing
<1>4. \A e \in Endpoints : cleared[e] <= now
  BY DEF CacheInit
<1> QED BY <1>1, <1>2, <1>3, <1>4 DEF IInv

-----------------------------------------------------------------------------
(***************************************************************************)
(* What a step does to the requests.                                       *)
(***************************************************************************)

\* One request changes into another that is as it should be.
LEMMA OneHandler ==
  ASSUME IInv, NEW h \in Slots, NEW q \in {Free} \cup Handlers,
         slots' = [slots EXCEPT ![h] = q], q.phase # "free" => HandlerInv(q, now)
  PROVE  /\ slots' \in [Slots -> {Free} \cup Handlers]
         /\ \A g \in Slots : slots'[g].phase # "free" => HandlerInv(slots'[g], now)
BY DEF IInv, Shape

\* get_or_set() hands over an answer for the right key that is young enough.
LEMMA GiveInv ==
  ASSUME IInv, NEW h \in Slots, slots[h].phase \in Awaits,
         NEW a \in Answers, Whole(KeyOf(slots[h]), a, now),
         now < a.read + TtlOf(a.key) + Turn, Give(h, a)
  PROVE  /\ slots' \in [Slots -> {Free} \cup Handlers]
         /\ \A g \in Slots : slots'[g].phase # "free" => HandlerInv(slots'[g], now)
<1> DEFINE q == slots[h]
           parts == Append(q.parts, a)
           phase == IF Len(parts) = Len(KeysOf[q.route]) THEN "replied" ELSE First
           p == Handler(phase, q.route, q.asked, now, parts, NoReads)
<1>1. q \in Handlers /\ HandlerInv(q, now) /\ now \in Nat
  BY Kinds DEF IInv, Shape, Awaits
<1>2. Len(q.parts) < Len(KeysOf[q.route])
  BY <1>1 DEF HandlerInv
<1>3. q.route \in Routes /\ q.parts \in Seq(Answers) /\ q.asked \in Nat /\ q.since \in Nat
  BY <1>1 DEF Handlers
<1>4. KeysOf[q.route] \in Seq(Keys) /\ Turn \in Nat
  BY <1>3, CacheAssumption
<1>5. /\ parts \in Seq(Answers)
      /\ Len(parts) = Len(q.parts) + 1
      /\ parts[Len(parts)] = a
      /\ \A i \in 1..Len(q.parts) : parts[i] = q.parts[i]
  BY <1>3
<1>6. phase \in {"get", "load", "replied"}
  BY DEF First
<1>7. p \in Handlers
  BY <1>1, <1>3, <1>5, <1>6 DEF Handler, Handlers, NoReads, Awaits
<1>8. /\ p.phase = phase /\ p.route = q.route /\ p.asked = q.asked /\ p.since = now
      /\ p.parts = parts /\ p.loading.queries = 0 /\ p.loading.read = 0
  BY DEF Handler, NoReads
<1>9. \A i \in 1..Len(parts) : Whole(KeysOf[q.route][i], parts[i], now)
  <2>1. \A i \in 1..Len(q.parts) : Whole(KeysOf[q.route][i], q.parts[i], now)
    BY <1>1 DEF HandlerInv
  <2>2. Whole(KeysOf[q.route][Len(parts)], parts[Len(parts)], now)
    BY <1>5 DEF KeyOf
  <2>3. \A i \in 1..Len(parts) : i \in 1..Len(q.parts) \/ i = Len(parts)
    BY <1>3, <1>5
  <2> QED BY <1>5, <2>1, <2>2, <2>3
<1>10. HandlerInv(p, now)
  <2>1. Len(parts) <= Len(KeysOf[q.route])
        /\ (phase \in Awaits => Len(parts) < Len(KeysOf[q.route]))
    BY <1>2, <1>3, <1>4, <1>5 DEF Awaits
  <2>2. phase = "load" => 0 < Queries[EndpointOf[KeyOf(p)]]
    <3> SUFFICES ASSUME phase = "load" PROVE 0 < Queries[EndpointOf[KeyOf(p)]]
      OBVIOUS
    <3>1. Len(p.parts) < Len(KeysOf[p.route])
      BY <1>8, <2>1 DEF Awaits
    <3> HIDE DEF p
    <3>2. Queries[EndpointOf[KeyOf(p)]] \in Nat \ {0}
      BY <1>7, <3>1, NextKey
    <3> QED BY <3>2
  <2>3. q.asked <= now
    BY <1>1, <1>3 DEF HandlerInv
  <2> HIDE DEF p, parts, phase
  <2> QED BY <1>1, <1>4, <1>5, <1>6, <1>8, <1>9, <2>1, <2>2, <2>3 DEF HandlerInv
<1>11. slots' = [slots EXCEPT ![h] = p]
  BY DEF Give
<1> HIDE DEF p
<1> QED BY <1>7, <1>10, <1>11, OneHandler

\* A request that is only taken a step further by its loader.
LEMMA LoadInv ==
  ASSUME IInv, NEW h \in Slots, Query(h) \/ Miss(h) \/ QueryFails(h)
  PROVE  /\ slots' \in [Slots -> {Free} \cup Handlers]
         /\ \A g \in Slots : slots'[g].phase # "free" => HandlerInv(slots'[g], now)
<1> DEFINE q == slots[h]
<1>1. q \in Handlers /\ HandlerInv(q, now) /\ now \in Nat /\ q.phase \in {"get", "load"}
  BY Kinds DEF IInv, Shape, Query, Miss, QueryFails
<1>2. /\ q.asked \in Nat /\ q.since \in Nat /\ q.route \in Routes /\ q.parts \in Seq(Answers)
      /\ q.loading.queries \in Nat /\ q.loading.read \in Nat /\ Turn \in Nat
  BY <1>1, CacheAssumption DEF Handlers
<1>3. Len(q.parts) < Len(KeysOf[q.route]) /\ Queries[EndpointOf[KeyOf(q)]] \in Nat \ {0}
  BY <1>1, NextKey DEF HandlerInv, Awaits
<1>4. CASE Query(h)
  <2> DEFINE made == q.loading.queries + 1
             first == IF made = 1 THEN now ELSE q.loading.read
             phase == IF made = Queries[EndpointOf[KeyOf(q)]] THEN "store" ELSE "load"
             p == [q EXCEPT !.phase = phase, !.loading = [queries |-> made, read |-> first]]
  <2>1. p \in Handlers
    <3>1. made \in Nat /\ first \in Nat /\ phase \in Awaits
      BY <1>1, <1>2 DEF Awaits
    <3> HIDE DEF made, first, phase
    <3> QED BY <1>1, <3>1 DEF Handlers
  <2>2. /\ p.phase = phase /\ p.route = q.route /\ p.asked = q.asked /\ p.since = q.since
        /\ p.parts = q.parts /\ p.loading.queries = made /\ p.loading.read = first
    BY <1>1 DEF Handlers
  <2>3. KeyOf(p) = KeyOf(q)
    BY <2>2 DEF KeyOf
  <2>4. q.loading.queries < Queries[EndpointOf[KeyOf(q)]]
    BY <1>1, <1>4 DEF HandlerInv, Query
  <2>5. q.since <= first /\ first <= now
    BY <1>1, <1>2 DEF HandlerInv
  <2>6. /\ phase \in {"load", "store"}
        /\ phase = "load" => made < Queries[EndpointOf[KeyOf(q)]]
        /\ phase = "store" => made = Queries[EndpointOf[KeyOf(q)]]
    BY <1>2, <1>3, <2>4
  <2>7. HandlerInv(p, now)
    <3> HIDE DEF p, made, first, phase
    <3> QED BY <1>1, <1>3, <2>2, <2>3, <2>5, <2>6 DEF HandlerInv
  <2>8. slots' = [slots EXCEPT ![h] = p]
    BY <1>4 DEF Query
  <2> HIDE DEF p
  <2> QED BY <2>1, <2>7, <2>8, OneHandler
<1>5. CASE Miss(h)
  <2> DEFINE p == [q EXCEPT !.phase = "load"]
  <2>1. p \in Handlers
    BY <1>1 DEF Handlers, Awaits
  <2>2. /\ p.phase = "load" /\ p.route = q.route /\ p.asked = q.asked /\ p.since = q.since
        /\ p.parts = q.parts /\ p.loading = q.loading
    BY <1>1 DEF Handlers
  <2>3. KeyOf(p) = KeyOf(q)
    BY <2>2 DEF KeyOf
  <2>4. q.loading.queries = 0
    BY <1>1, <1>5 DEF HandlerInv, Miss
  <2>5. HandlerInv(p, now)
    <3> HIDE DEF p
    <3> QED BY <1>1, <1>3, <2>2, <2>3, <2>4 DEF HandlerInv
  <2>6. slots' = [slots EXCEPT ![h] = p]
    BY <1>5 DEF Miss
  <2> HIDE DEF p
  <2> QED BY <2>1, <2>5, <2>6, OneHandler
<1>6. CASE QueryFails(h)
  <2> DEFINE p == Handler("failed", q.route, q.asked, q.since, <<>>, NoReads)
  <2>1. p \in Handlers
    BY <1>2 DEF Handler, Handlers, NoReads
  <2>2. /\ p.phase = "failed" /\ p.route = q.route /\ p.asked = q.asked /\ p.since = q.since
        /\ p.parts = <<>> /\ p.loading.queries = 0 /\ p.loading.read = 0
    BY DEF Handler, NoReads
  <2>3. KeysOf[q.route] \in Seq(Keys)
    BY <1>2, CacheAssumption
  <2>4. HandlerInv(p, now)
    <3> HIDE DEF p
    <3> QED BY <1>1, <2>2, <2>3 DEF HandlerInv, Awaits
  <2>5. slots' = [slots EXCEPT ![h] = p]
    BY <1>6 DEF QueryFails
  <2> HIDE DEF p
  <2> QED BY <2>1, <2>4, <2>5, OneHandler
<1> QED BY <1>4, <1>5, <1>6

-----------------------------------------------------------------------------
(***************************************************************************)
(* The steps.                                                              *)
(***************************************************************************)

\* A step of the requests alone.
LEMMA RequestsAlone ==
  ASSUME IInv, UNCHANGED <<now, enabled, cache, clearing, cleared>>,
         slots' \in [Slots -> {Free} \cup Handlers],
         \A g \in Slots : slots'[g].phase # "free" => HandlerInv(slots'[g], now)
  PROVE  IInv'
<1>1. Shape'
  BY DEF IInv, Shape
<1>2. (clearing.present => ClearingInv(clearing, now))'
  BY DEF IInv, ClearingInv
<1> QED BY <1>1, <1>2 DEF IInv

\* What the cache holds is young enough to be given to anyone.
LEMMA HitIs ==
  ASSUME IInv, NEW h \in Slots, Hit(h)
  PROVE  LET k == KeyOf(slots[h])
             a == cache[k].answer
         IN  /\ slots[h].phase \in Awaits /\ a \in Answers /\ Whole(k, a, now)
             /\ now < a.read + TtlOf(a.key) + Turn
<1> DEFINE q == slots[h]
           k == KeyOf(q)
           a == cache[k].answer
<1>1. q \in Handlers /\ HandlerInv(q, now) /\ q.phase \in Awaits
  BY Kinds DEF IInv, Hit, Awaits
<1>2. k \in Keys /\ TtlOf(k) \in Nat /\ Turn \in Nat
  BY <1>1, NextKey, CacheAssumption DEF HandlerInv
<1>3. cache[k] \in Entries /\ EntryInv(k, cache[k], now, cleared[EndpointOf[k]]) /\ now \in Nat
  BY <1>2, Kinds DEF IInv, Shape, Hit
<1>4. a \in Answers /\ a.read \in Nat /\ a.window \in Nat /\ cache[k].stored \in Nat
  BY <1>3 DEF Entries, Answers
<1>5. Whole(k, a, now)
  BY <1>3, <1>4 DEF EntryInv, Whole
<1>6. now < a.read + TtlOf(a.key) + Turn
  BY <1>2, <1>3, <1>4, <1>5 DEF EntryInv, Whole
<1> QED BY <1>1, <1>4, <1>5, <1>6

LEMMA HitInv ==
  ASSUME IInv, NEW h \in Slots, Hit(h)
  PROVE  IInv'
<1> DEFINE a == cache[KeyOf(slots[h])].answer
<1>1. /\ slots[h].phase \in Awaits /\ a \in Answers /\ Whole(KeyOf(slots[h]), a, now)
      /\ now < a.read + TtlOf(a.key) + Turn
  BY HitIs
<1>2. Give(h, a)
  BY DEF Hit
<1> HIDE DEF a
<1> QED BY <1>1, <1>2, GiveInv, RequestsAlone DEF Hit

\* What a loader has read is whole and at most a turn old.
LEMMA LoadedIs ==
  ASSUME IInv, NEW h \in Slots, slots[h].phase = "store"
  PROVE  LET q == slots[h]
             a == Loaded(q)
         IN  /\ q.phase \in Awaits /\ KeyOf(q) \in Keys /\ TtlOf(KeyOf(q)) \in Nat \ {0}
             /\ EndpointOf[KeyOf(q)] \in Endpoints
             /\ a \in Answers /\ a.key = KeyOf(q) /\ Whole(KeyOf(q), a, now)
             /\ now <= a.read + Turn /\ now < a.read + TtlOf(a.key) + Turn
<1> DEFINE q == slots[h]
           k == KeyOf(q)
           a == Loaded(q)
<1>1. q \in Handlers /\ HandlerInv(q, now) /\ now \in Nat
  BY Kinds DEF IInv, Shape
<1>2. /\ q.asked \in Nat /\ q.since \in Nat /\ q.loading.queries \in Nat /\ q.loading.read \in Nat
      /\ Turn \in Nat
  BY <1>1, CacheAssumption DEF Handlers
<1>3. /\ k \in Keys /\ Queries[EndpointOf[k]] \in Nat \ {0} /\ TtlOf(k) \in Nat \ {0}
      /\ EndpointOf[k] \in Endpoints
  BY <1>1, NextKey DEF HandlerInv, Awaits
<1>4. /\ a.key = k /\ a.queries = q.loading.queries /\ a.read = q.loading.read
      /\ a.window = q.asked
  BY DEF Loaded
<1>5. a \in Answers
  BY <1>2, <1>3 DEF Loaded, Answers
<1>6. q.loading.queries = Queries[EndpointOf[k]] /\ q.since <= q.loading.read
  BY <1>1, <1>2, <1>3 DEF HandlerInv
<1>7. q.loading.read <= now /\ q.asked <= now /\ now <= q.since + Turn
  BY <1>1, <1>2 DEF HandlerInv
<1> HIDE DEF a, k
<1>8. Whole(k, a, now)
  BY <1>4, <1>6, <1>7 DEF Whole
<1>9. now <= a.read + Turn /\ now < a.read + TtlOf(a.key) + Turn
  BY <1>1, <1>2, <1>3, <1>4, <1>6, <1>7
<1> QED BY <1>3, <1>4, <1>5, <1>8, <1>9 DEF a, k, Awaits

\* A loaded answer is given to the request that loaded it.
LEMMA LoadedGiven ==
  ASSUME IInv, NEW h \in Slots, slots[h].phase = "store", Give(h, Loaded(slots[h]))
  PROVE  /\ slots' \in [Slots -> {Free} \cup Handlers]
         /\ \A g \in Slots : slots'[g].phase # "free" => HandlerInv(slots'[g], now)
<1> DEFINE a == Loaded(slots[h])
<1>1. /\ slots[h].phase \in Awaits /\ a \in Answers /\ Whole(KeyOf(slots[h]), a, now)
      /\ now < a.read + TtlOf(a.key) + Turn
  BY LoadedIs
<1> HIDE DEF a
<1> QED BY <1>1, GiveInv DEF a

LEMMA WriteInv ==
  ASSUME IInv, NEW h \in Slots, Write(h)
  PROVE  IInv'
<1> DEFINE q == slots[h]
           k == KeyOf(q)
           a == Loaded(q)
           e == Entry(a)
<1>1. /\ k \in Keys /\ EndpointOf[k] \in Endpoints /\ TtlOf(k) \in Nat \ {0} /\ a \in Answers
      /\ Whole(k, a, now) /\ now <= a.read + Turn
  BY LoadedIs DEF Write
<1>2. now \in Nat /\ cleared[EndpointOf[k]] \in Nat /\ cleared[EndpointOf[k]] <= now
  BY <1>1 DEF IInv, Shape
<1>3. cache' = [cache EXCEPT ![k] = e] /\ UNCHANGED <<now, enabled, clearing, cleared>>
  BY DEF Write
<1>4. e.present /\ e.answer = a /\ e.stored = now /\ e \in Entries
  BY <1>1, <1>2 DEF Entry, Entries
<1>5. EntryInv(k, e, now, cleared[EndpointOf[k]])
  <2> HIDE DEF e, a, k
  <2> QED BY <1>1, <1>2, <1>4 DEF EntryInv
<1>6. /\ slots' \in [Slots -> {Free} \cup Handlers]
      /\ \A g \in Slots : slots'[g].phase # "free" => HandlerInv(slots'[g], now)
  BY LoadedGiven DEF Write
<1> HIDE DEF e, a, k
<1>7. Shape'
  BY <1>1, <1>3, <1>4, <1>6 DEF IInv, Shape
<1>8. \A j \in Keys : cache'[j].present => EntryInv(j, cache'[j], now, cleared[EndpointOf[j]])
  BY <1>1, <1>3, <1>5 DEF IInv, Shape
<1>9. clearing.present => ClearingInv(clearing, now)'
  <2> SUFFICES ASSUME clearing.present PROVE ClearingInv(clearing, now)'
    OBVIOUS
  <2>1. ClearingInv(clearing, now)
    BY DEF IInv
  <2>2. cache'[k].stored = now /\ \A j \in Keys : j # k => cache'[j] = cache[j]
    BY <1>1, <1>3, <1>4 DEF IInv, Shape
  <2> QED BY <1>3, <2>1, <2>2 DEF ClearingInv
<1> QED BY <1>3, <1>6, <1>7, <1>8, <1>9 DEF IInv

LEMMA ClearInv ==
  ASSUME IInv, Clear
  PROVE  IInv'
<1>1. ASSUME NEW e \in Cleared, Invalidate(e) PROVE IInv'
  <2>1. now \in Nat /\ cache \in [Keys -> {Nothing} \cup Entries] /\ e \in Endpoints
    BY CacheAssumption DEF IInv, Shape
  <2>2. /\ clearing'.endpoint = e /\ clearing'.began = now /\ clearing'.left = Present(e)
        /\ clearing' \in Clearings
    BY <1>1, <2>1 DEF Invalidate, Clearings, Present
  <2>3. Shape' /\ UNCHANGED <<now, enabled, cache, slots, cleared>>
    BY <1>1, <2>2 DEF IInv, Shape, Invalidate
  <2>4. ClearingInv(clearing, now)'
    BY <2>1, <2>2, <2>3 DEF ClearingInv, Present
  <2> QED BY <2>3, <2>4 DEF IInv
<1>2. ASSUME NEW k \in Keys, Delete(k) PROVE IInv'
  <2>1. /\ clearing \in Clearings /\ ClearingInv(clearing, now)
        /\ cache' = [cache EXCEPT ![k] = Nothing]
        /\ clearing' = [clearing EXCEPT !.left = @ \ {k}]
        /\ UNCHANGED <<now, enabled, slots, cleared>>
    BY <1>2, Kinds DEF IInv, Delete
  <2>2. /\ clearing' \in Clearings /\ clearing'.left = clearing.left \ {k}
        /\ clearing'.endpoint = clearing.endpoint /\ clearing'.began = clearing.began
    BY <2>1 DEF Clearings
  <2>3. ~cache'[k].present /\ \A j \in Keys : j # k => cache'[j] = cache[j]
    BY <2>1 DEF IInv, Shape, Nothing
  <2>4. Shape'
    BY <2>1, <2>2 DEF IInv, Shape
  <2>5. ClearingInv(clearing, now)'
    BY <2>1, <2>2, <2>3 DEF ClearingInv
  <2>6. (\A j \in Keys : cache[j].present => EntryInv(j, cache[j], now, cleared[EndpointOf[j]]))'
    BY <2>1, <2>3 DEF IInv
  <2> QED BY <2>1, <2>4, <2>5, <2>6 DEF IInv
<1>3. ASSUME Invalidated PROVE IInv'
  <2>1. /\ clearing \in Clearings /\ ClearingInv(clearing, now) /\ clearing.left = {}
        /\ cleared' = [cleared EXCEPT ![clearing.endpoint] = clearing.began]
        /\ clearing' = Nothing /\ UNCHANGED <<now, enabled, cache, slots>>
    BY <1>3, Kinds DEF IInv, Invalidated
  <2>2. clearing.endpoint \in Endpoints /\ clearing.began \in Nat
    BY <2>1 DEF Clearings
  <2>3. Shape' /\ ~clearing'.present
    BY <2>1, <2>2 DEF IInv, Shape, Nothing
  <2>4. \A e \in Endpoints : cleared'[e] <= now
    BY <2>1, <2>2 DEF IInv, Shape, ClearingInv
  <2>5. ASSUME NEW k \in Keys, cache[k].present
        PROVE  EntryInv(k, cache[k], now, cleared'[EndpointOf[k]])
    <3>1. EntryInv(k, cache[k], now, cleared[EndpointOf[k]]) /\ EndpointOf[k] \in Endpoints
      BY <2>5, CacheAssumption DEF IInv
    <3>2. CASE EndpointOf[k] = clearing.endpoint
      BY <2>1, <2>2, <2>5, <3>1, <3>2 DEF ClearingInv, EntryInv, IInv, Shape
    <3>3. CASE EndpointOf[k] # clearing.endpoint
      BY <2>1, <2>2, <3>1, <3>3 DEF IInv, Shape
    <3> QED BY <3>2, <3>3
  <2> QED BY <2>1, <2>3, <2>4, <2>5 DEF IInv
<1>4. ASSUME InvalidateFails PROVE IInv'
  <2>1. Shape' /\ ~clearing'.present
    BY <1>4 DEF IInv, Shape, Nothing, InvalidateFails
  <2> QED BY <1>4, <2>1 DEF IInv, InvalidateFails
<1> QED BY <1>1, <1>2, <1>3, <1>4 DEF Clear

LEMMA TickInv ==
  ASSUME IInv, Tick
  PROVE  IInv'
<1>1. /\ now' = now + 1 /\ now \in Nat /\ Turn \in Nat
      /\ UNCHANGED <<enabled, slots, cleared>>
      /\ cache' = [k \in Keys |-> IF Expired(k) THEN Nothing ELSE cache[k]]
      /\ cache \in [Keys -> {Nothing} \cup Entries]
  BY CacheAssumption DEF IInv, Shape, Tick
<1>2. \A k \in Keys : cache'[k].present =>
          cache[k].present /\ cache'[k] = cache[k] /\ ~Expired(k)
  BY <1>1 DEF Nothing
<1>3. clearing.present =>
        /\ clearing \in Clearings /\ ClearingInv(clearing, now)
        /\ clearing' = [clearing EXCEPT !.left = {k \in @ : ~Expired(k)}]
  BY Kinds DEF IInv, Tick
<1>4. clearing.present =>
        /\ clearing' \in Clearings /\ clearing'.left = {k \in clearing.left : ~Expired(k)}
        /\ clearing'.endpoint = clearing.endpoint /\ clearing'.began = clearing.began
  BY <1>3 DEF Clearings
<1>5. ~clearing.present => clearing' = clearing /\ clearing = Nothing
  BY Kinds DEF IInv, Tick
<1>6. Shape'
  <2>1. clearing' \in {Nothing} \cup Clearings
    BY <1>4, <1>5
  <2>2. cache' \in [Keys -> {Nothing} \cup Entries]
    BY <1>1
  <2> QED BY <1>1, <2>1, <2>2 DEF IInv, Shape
<1>7. (clearing.present => ClearingInv(clearing, now))'
  <2>1. CASE clearing.present
    <3>1. clearing.began \in Nat
      BY <1>3, <2>1 DEF Clearings
    <3> QED BY <1>1, <1>2, <1>3, <1>4, <2>1, <3>1 DEF ClearingInv
  <2>2. CASE ~clearing.present
    BY <1>5, <2>2
  <2> QED BY <2>1, <2>2
<1>8. ASSUME NEW k \in Keys, cache'[k].present
      PROVE  EntryInv(k, cache'[k], now', cleared'[EndpointOf[k]])
  <2>1. EntryInv(k, cache[k], now, cleared[EndpointOf[k]]) /\ cache[k] \in Entries
    BY <1>2, <1>8, Kinds DEF IInv
  <2>2. cache[k].stored \in Nat /\ TtlOf(k) \in Nat
    BY <2>1, CacheAssumption DEF Entries, TtlOf
  <2>3. now + 1 < cache[k].stored + TtlOf(k)
    BY <1>1, <1>2, <1>8, <2>2 DEF Expired
  <2> QED BY <1>1, <1>2, <1>8, <2>1, <2>2, <2>3 DEF EntryInv
<1>9. ASSUME NEW h \in Slots, slots[h].phase # "free"
      PROVE  HandlerInv(slots[h], now + 1)
  <2> DEFINE q == slots[h]
  <2>1. q \in Handlers /\ HandlerInv(q, now)
    BY <1>9, Kinds DEF IInv
  <2>2. q.since \in Nat /\ q.asked \in Nat /\ q.loading.read \in Nat /\ q.parts \in Seq(Answers)
    BY <2>1 DEF Handlers
  <2>3. now < q.since + Turn
    BY <1>9 DEF Tick, Free
  <2>4. \A i \in 1..Len(q.parts) : Whole(KeysOf[q.route][i], q.parts[i], now + 1)
    <3> SUFFICES ASSUME NEW i \in 1..Len(q.parts)
                 PROVE  Whole(KeysOf[q.route][i], q.parts[i], now + 1)
      OBVIOUS
    <3>1. q.parts[i] \in Answers /\ Whole(KeysOf[q.route][i], q.parts[i], now)
      BY <2>1, <2>2 DEF HandlerInv
    <3> QED BY <1>1, <3>1 DEF Whole, Answers
  <2> HIDE DEF q
  <2> QED BY <1>1, <2>1, <2>2, <2>3, <2>4 DEF HandlerInv, q
<1>10. \A e \in Endpoints : cleared'[e] <= now'
  BY <1>1 DEF IInv, Shape
<1> QED BY <1>1, <1>6, <1>7, <1>8, <1>9, <1>10 DEF IInv

LEMMA RequestInv ==
  ASSUME IInv, NEW h \in Slots, Request(h)
  PROVE  IInv'
<1>1. ASSUME NEW r \in Routes, Ask(h, r)
      PROVE  /\ slots' \in [Slots -> {Free} \cup Handlers]
             /\ \A g \in Slots : slots'[g].phase # "free" => HandlerInv(slots'[g], now)
  <2> DEFINE p == Handler(First, r, now, now, <<>>, NoReads)
  <2>1. now \in Nat /\ Turn \in Nat /\ KeysOf[r] \in Seq(Keys) /\ KeysOf[r] # <<>>
    BY CacheAssumption DEF IInv, Shape
  <2>2. p \in Handlers
    BY <2>1 DEF Handler, Handlers, NoReads, First, Awaits
  <2>3. /\ p.phase \in {"get", "load"} /\ p.route = r /\ p.asked = now /\ p.since = now
        /\ p.parts = <<>> /\ p.loading.queries = 0 /\ p.loading.read = 0
    BY DEF Handler, NoReads, First
  <2>4. Len(p.parts) < Len(KeysOf[r]) /\ Len(p.parts) = 0
    BY <2>1, <2>3
  <2>5. 0 < Queries[EndpointOf[KeyOf(p)]]
    BY <2>2, <2>3, <2>4, NextKey
  <2>6. HandlerInv(p, now)
    <3> HIDE DEF p
    <3> QED BY <2>1, <2>3, <2>4, <2>5 DEF HandlerInv, Awaits
  <2>7. slots' = [slots EXCEPT ![h] = p]
    BY <1>1 DEF Ask
  <2> HIDE DEF p
  <2> QED BY <2>2, <2>6, <2>7, OneHandler
<1>2. ASSUME slots' = [slots EXCEPT ![h] = Free]
      PROVE  /\ slots' \in [Slots -> {Free} \cup Handlers]
             /\ \A g \in Slots : slots'[g].phase # "free" => HandlerInv(slots'[g], now)
  BY <1>2, OneHandler DEF Free
<1>3. /\ slots' \in [Slots -> {Free} \cup Handlers]
      /\ \A g \in Slots : slots'[g].phase # "free" => HandlerInv(slots'[g], now)
  BY <1>1, <1>2 DEF Request
<1> QED BY <1>3, RequestsAlone DEF Request

LEMMA NextInv == IInv /\ [CacheNext]_cacheVars => IInv'
<1> SUFFICES ASSUME IInv, [CacheNext]_cacheVars PROVE IInv'
  OBVIOUS
<1>1. CASE Tick
  BY <1>1, TickInv
<1>2. CASE Clear
  BY <1>2, ClearInv
<1>3. ASSUME NEW h \in Slots, Serve(h) PROVE IInv'
  <2>1. CASE Hit(h)
    BY <2>1, HitInv
  <2>2. CASE Miss(h) \/ Query(h) \/ QueryFails(h)
    <3>1. UNCHANGED <<now, enabled, cache, clearing, cleared>>
      BY <2>2 DEF Miss, Query, QueryFails
    <3> QED BY <2>2, <3>1, LoadInv, RequestsAlone
  <2>3. CASE Write(h)
    BY <2>3, WriteInv
  <2>4. CASE WriteFails(h)
    <3>1. UNCHANGED <<now, enabled, cache, clearing, cleared>>
      BY <2>4 DEF WriteFails
    <3> QED BY <2>4, <3>1, LoadedGiven, RequestsAlone DEF WriteFails
  <2> QED BY <1>3, <2>1, <2>2, <2>3, <2>4 DEF Serve
<1>4. ASSUME NEW h \in Slots, Request(h) PROVE IInv'
  BY <1>4, RequestInv
<1>5. CASE UNCHANGED cacheVars
  <2>1. Shape'
    BY <1>5 DEF cacheVars, IInv, Shape
  <2>2. (clearing.present => ClearingInv(clearing, now))'
    BY <1>5 DEF cacheVars, IInv, ClearingInv
  <2> QED BY <1>5, <2>1, <2>2 DEF cacheVars, IInv
<1> QED BY <1>1, <1>2, <1>3, <1>4, <1>5 DEF CacheNext

-----------------------------------------------------------------------------
(***************************************************************************)
(* The theorems.                                                           *)
(***************************************************************************)

\* The inductive invariant holds in every reachable state.
THEOREM Inductive == CacheSpec => []IInv
<1>1. CacheInit => IInv
  BY InitInv
<1>2. IInv /\ [CacheNext]_cacheVars => IInv'
  BY NextInv
<1> QED BY <1>1, <1>2, PTL DEF CacheSpec

\* Redis, the requests and the invalidation keep their types, and no time in
\* them is in the future, for any routes and any number of requests.
THEOREM TypeCorrect == CacheSpec => []CacheTypeOK
<1>1. ASSUME IInv PROVE CacheTypeOK
  <2>1. Shape /\ now \in Nat
    BY <1>1 DEF IInv, Shape
  <2>2. ASSUME NEW k \in Keys PROVE EntryOK(cache[k])
    <3>1. CASE cache[k].present
      <4>1. cache[k] \in Entries /\ EntryInv(k, cache[k], now, cleared[EndpointOf[k]])
        BY <1>1, <2>1, <3>1, Kinds DEF IInv
      <4>2. cache[k].answer \in Answers /\ cache[k].stored \in Nat
        BY <4>1 DEF Entries
      <4>3. /\ cache[k].answer.key \in Keys /\ cache[k].answer.queries \in Nat
            /\ cache[k].answer.read \in Nat /\ cache[k].answer.window \in Nat
        BY <4>2 DEF Answers
      <4> QED BY <2>1, <3>1, <4>1, <4>2, <4>3 DEF EntryOK, AnswerOK, EntryInv, Whole
    <3>2. CASE ~cache[k].present
      BY <2>1, <3>2, Kinds DEF EntryOK
    <3> QED BY <3>1, <3>2
  <2>3. ASSUME NEW h \in Slots PROVE HandlerOK(slots[h])
    <3> DEFINE q == slots[h]
    <3>1. CASE q.phase = "free"
      BY <2>1, <3>1, Kinds DEF HandlerOK
    <3>2. CASE q.phase # "free"
      <4>1. q \in Handlers /\ HandlerInv(q, now)
        BY <1>1, <2>1, <3>2, Kinds DEF IInv
      <4>2. /\ q.phase \in Awaits \cup {"replied", "failed"} /\ q.route \in Routes
            /\ q.asked \in Nat /\ q.since \in Nat /\ q.parts \in Seq(Answers)
            /\ q.loading.queries \in Nat /\ q.loading.read \in Nat
        BY <4>1 DEF Handlers
      <4>3. \A i \in DOMAIN q.parts : AnswerOK(q.parts[i])
        <5> SUFFICES ASSUME NEW i \in 1..Len(q.parts) PROVE AnswerOK(q.parts[i])
          BY <4>2
        <5>1. q.parts[i] \in Answers /\ Whole(KeysOf[q.route][i], q.parts[i], now)
          BY <4>1, <4>2 DEF HandlerInv
        <5> QED BY <2>1, <5>1 DEF Whole, AnswerOK, Answers
      <4>4. q.asked <= now /\ q.since <= now /\ q.loading.read <= now
        BY <2>1, <4>1, <4>2 DEF HandlerInv
      <4> HIDE DEF q
      <4> QED BY <2>1, <4>2, <4>3, <4>4 DEF HandlerOK, Awaits, q
    <3> QED BY <3>1, <3>2
  <2>4. clearing = Nothing \/ (clearing.endpoint \in Endpoints /\ clearing.left \subseteq Keys)
    BY <2>1 DEF Shape, Clearings
  <2>5. cleared \in [Endpoints -> 0..now]
    BY <1>1, <2>1 DEF IInv, Shape
  <2> QED BY <2>1, <2>2, <2>3, <2>4, <2>5 DEF CacheTypeOK, Shape
<1> QED BY <1>1, Inductive, PTL

\* Nothing but whole answers is cached or given, and under the right key.
THEOREM WholeAnswers == CacheSpec => []AnswersAreWhole
<1>1. ASSUME IInv PROVE AnswersAreWhole
  <2>1. \A k \in Keys : cache[k].present =>
            cache[k].answer.key = k /\ cache[k].answer.queries = Queries[EndpointOf[k]]
    BY <1>1 DEF IInv, EntryInv, Whole
  <2>2. ASSUME NEW h \in Slots, slots[h] # Free, NEW i \in DOMAIN slots[h].parts
        PROVE  LET k == KeysOf[slots[h].route][i] IN
               slots[h].parts[i].key = k /\ slots[h].parts[i].queries = Queries[EndpointOf[k]]
    <3>1. slots[h] \in Handlers /\ HandlerInv(slots[h], now)
      BY <1>1, <2>2, Kinds DEF IInv
    <3>2. slots[h].parts \in Seq(Answers)
      BY <3>1 DEF Handlers
    <3>3. i \in 1..Len(slots[h].parts)
      BY <2>2, <3>2
    <3>4. Whole(KeysOf[slots[h].route][i], slots[h].parts[i], now)
      BY <3>1, <3>3 DEF HandlerInv
    <3> QED BY <3>4 DEF Whole
  <2> QED BY <2>1, <2>2 DEF AnswersAreWhole
<1> QED BY <1>1, Inductive, PTL

\* No row that is given is older than its TTL and one turn.
THEOREM BoundedAge == CacheSpec => []AgeBounded
<1>1. ASSUME IInv PROVE AgeBounded
  <2> SUFFICES ASSUME NEW h \in Slots, slots[h] # Free, slots[h].parts # <<>>
               PROVE  LET answer == slots[h].parts[Len(slots[h].parts)] IN
                      slots[h].since < answer.read + TtlOf(answer.key) + Turn
    BY DEF AgeBounded
  <2>1. HandlerInv(slots[h], now)
    BY <1>1, Kinds DEF IInv
  <2> QED BY <2>1 DEF HandlerInv
<1> QED BY <1>1, Inductive, PTL

\* What survives a finished invalidation was read at most a turn before it.
THEOREM InvalidationIsFinal == CacheSpec => []InvalidationHolds
<1>1. ASSUME IInv PROVE InvalidationHolds
  <2> SUFFICES ASSUME NEW k \in Keys, cache[k].present
               PROVE  cleared[EndpointOf[k]] <= cache[k].answer.read + Turn
    BY DEF InvalidationHolds
  <2>1. cache[k] \in Entries /\ EntryInv(k, cache[k], now, cleared[EndpointOf[k]])
    BY <1>1, Kinds DEF IInv
  <2>2. /\ cache[k].stored \in Nat /\ cache[k].answer.read \in Nat /\ Turn \in Nat
        /\ cleared[EndpointOf[k]] \in Nat
    BY <1>1, <2>1, CacheAssumption DEF IInv, Shape, Entries, Answers
  <2> QED BY <2>1, <2>2 DEF EntryInv
<1> QED BY <1>1, Inductive, PTL

-----------------------------------------------------------------------------
(***************************************************************************)
(* The refinement.  With every answer a request gets, the ones it already  *)
(* has become at most a turn older.                                        *)
(***************************************************************************)

\* What is left of the age a route allows for its i-th answer of n.
Allowed(r, i, n) == TtlOf(KeysOf[r][i]) + (n - i + 1) * Turn

AgeInv(q) ==
    /\ q.since <= q.asked + Len(KeysOf[q.route]) * Turn
    /\ q.phase # "failed" => q.since <= q.asked + Len(q.parts) * Turn
    /\ q.phase = "replied" => Len(q.parts) = Len(KeysOf[q.route])
    /\ \A i \in 1..Len(q.parts) :
         q.since < q.parts[i].read + Allowed(q.route, i, Len(q.parts))

Aging == \A h \in Slots : slots[h].phase # "free" => AgeInv(slots[h])

\* The arithmetic of turns.
LEMMA Turns ==
  /\ \A n \in Nat : n * Turn \in Nat /\ (n + 1) * Turn = n * Turn + Turn
  /\ \A n, m \in Nat : n <= m => n * Turn <= m * Turn
  /\ 0 * Turn = 0 /\ 1 * Turn = Turn
<1>1. Turn \in Nat
  BY CacheAssumption
<1>2. \A n \in Nat : n * Turn \in Nat /\ (n + 1) * Turn = n * Turn + Turn
  BY <1>1
<1>3. \A n, m \in Nat : n <= m => n * Turn <= m * Turn
  <2> SUFFICES ASSUME NEW n \in Nat, NEW m \in Nat, n <= m PROVE n * Turn <= m * Turn
    OBVIOUS
  <2>1. m * Turn = n * Turn + (m - n) * Turn /\ (m - n) * Turn \in Nat
    BY <1>1
  <2> QED BY <1>1, <2>1
<1> QED BY <1>1, <1>2, <1>3

\* One more answer allows one more turn.
LEMMA AllowedMore ==
  ASSUME NEW r \in Routes, NEW n \in Nat, NEW i \in 1..n, n <= Len(KeysOf[r])
  PROVE  Allowed(r, i, n) \in Nat /\ Allowed(r, i, n + 1) = Allowed(r, i, n) + Turn
<1>1. KeysOf[r][i] \in Keys /\ TtlOf(KeysOf[r][i]) \in Nat
  BY CacheAssumption DEF TtlOf
<1>2. n - i + 1 \in Nat /\ (n + 1) - i + 1 = (n - i + 1) + 1
  OBVIOUS
<1>3. (n - i + 1) * Turn \in Nat /\ ((n + 1) - i + 1) * Turn = (n - i + 1) * Turn + Turn
  BY <1>2, Turns
<1> DEFINE t == TtlOf(KeysOf[r][i])
           x == (n - i + 1) * Turn
           y == ((n + 1) - i + 1) * Turn
<1>4. Allowed(r, i, n) = t + x /\ Allowed(r, i, n + 1) = t + y
  BY DEF Allowed
<1>5. t \in Nat /\ x \in Nat /\ y = x + Turn /\ Turn \in Nat
  BY <1>1, <1>3, CacheAssumption
<1> HIDE DEF t, x, y
<1> QED BY <1>4, <1>5

\* The request that an answer has been given to.
Given(q, a) ==
    LET parts == Append(q.parts, a)
        phase == IF Len(parts) = Len(KeysOf[q.route]) THEN "replied" ELSE First
    IN  Handler(phase, q.route, q.asked, now, parts, NoReads)

LEMMA GivenIs ==
  ASSUME IInv, Aging, NEW h \in Slots, slots[h].phase \in Awaits,
         NEW a \in Answers, Whole(KeyOf(slots[h]), a, now),
         now < a.read + TtlOf(a.key) + Turn
  PROVE  LET q == slots[h]
             p == Given(q, a)
         IN  /\ q \in Handlers /\ p \in Handlers /\ AgeInv(p)
             /\ p.route = q.route /\ p.asked = q.asked /\ p.since = now /\ p.parts # <<>>
             /\ p.phase = "replied" \/ p.phase \in Awaits
             /\ p.parts = Append(q.parts, a)
<1> DEFINE q == slots[h]
           n == Len(q.parts)
           p == Given(q, a)
<1>1. q \in Handlers /\ HandlerInv(q, now) /\ AgeInv(q) /\ now \in Nat
  BY Kinds DEF IInv, Shape, Awaits, Aging
<1>2. /\ q.route \in Routes /\ q.parts \in Seq(Answers) /\ q.asked \in Nat /\ q.since \in Nat
      /\ n \in Nat /\ n < Len(KeysOf[q.route])
  BY <1>1 DEF Handlers, HandlerInv
<1>3. KeysOf[q.route] \in Seq(Keys) /\ Turn \in Nat /\ Len(KeysOf[q.route]) \in Nat
  BY <1>2, CacheAssumption
<1>4. /\ p.route = q.route /\ p.asked = q.asked /\ p.since = now
      /\ p.parts = Append(q.parts, a)
      /\ p.phase = IF n + 1 = Len(KeysOf[q.route]) THEN "replied" ELSE First
      /\ p.loading = NoReads
  BY <1>2 DEF Given, Handler
<1>5. /\ p.parts \in Seq(Answers) /\ Len(p.parts) = n + 1 /\ p.parts[n + 1] = a
      /\ \A i \in 1..n : p.parts[i] = q.parts[i]
  BY <1>2, <1>4
<1>6. p.phase = "replied" \/ p.phase \in {"get", "load"}
  BY <1>4 DEF First
<1>7. p \in Handlers
  BY <1>1, <1>2, <1>4, <1>5, <1>6 DEF Given, Handler, Handlers, NoReads, Awaits
<1>8. p.phase = "replied" => n + 1 = Len(KeysOf[q.route])
  BY <1>4 DEF First
<1>9. now <= q.since + Turn /\ q.since <= q.asked + n * Turn
  BY <1>1 DEF HandlerInv, AgeInv, Awaits
<1>10. /\ now <= q.asked + (n + 1) * Turn
       /\ now <= q.asked + Len(KeysOf[q.route]) * Turn
  <2> DEFINE L == Len(KeysOf[q.route])
  <2>1. n \in Nat /\ L \in Nat /\ n + 1 \in Nat /\ n + 1 <= L
    BY <1>2, <1>3
  <2> HIDE DEF n, q, L
  <2>2. /\ (n + 1) * Turn = n * Turn + Turn /\ n * Turn \in Nat
        /\ (n + 1) * Turn <= L * Turn /\ L * Turn \in Nat
    BY <2>1, Turns
  <2> DEFINE x == n * Turn
             y == (n + 1) * Turn
             z == L * Turn
  <2>3. y = x + Turn /\ x \in Nat /\ y <= z /\ z \in Nat /\ q.since <= q.asked + x
    BY <1>9, <2>2
  <2> HIDE DEF x, y, z
  <2>4. now <= q.asked + y /\ now <= q.asked + z
    BY <1>1, <1>2, <1>3, <1>9, <2>3
  <2> QED BY <2>4 DEF y, z, L
<1>11. ASSUME NEW i \in 1..n + 1
       PROVE  now < p.parts[i].read + Allowed(q.route, i, n + 1)
  <2>1. CASE i \in 1..n
    <3>1. q.since < q.parts[i].read + Allowed(q.route, i, n)
      BY <1>1, <2>1 DEF AgeInv
    <3>2. Allowed(q.route, i, n) \in Nat /\ Allowed(q.route, i, n + 1) = Allowed(q.route, i, n) + Turn
      BY <1>2, <2>1, AllowedMore
    <3>3. q.parts[i] \in Answers
      BY <1>2, <2>1
    <3>4. q.parts[i].read \in Nat
      BY <3>3 DEF Answers
    <3>5. p.parts[i].read = q.parts[i].read
      BY <1>5, <2>1
    <3> DEFINE x == Allowed(q.route, i, n)
               y == Allowed(q.route, i, n + 1)
               read == q.parts[i].read
    <3>6. /\ q.since < read + x /\ x \in Nat /\ y = x + Turn /\ read \in Nat
          /\ now <= q.since + Turn
      BY <1>9, <3>1, <3>2, <3>4
    <3> HIDE DEF n, q, p, x, y, read
    <3>7. now < read + y
      BY <1>1, <1>2, <1>3, <3>6
    <3> QED BY <3>5, <3>7 DEF y, read
  <2>2. CASE i = n + 1
    <3>1. a.key = KeysOf[q.route][n + 1]
      BY DEF Whole, KeyOf
    <3>2. Allowed(q.route, n + 1, n + 1) = TtlOf(a.key) + 1 * Turn
      BY <1>2, <3>1 DEF Allowed
    <3>3. a.key \in Keys /\ TtlOf(a.key) \in Nat /\ a.read \in Nat
      BY CacheAssumption DEF Answers, TtlOf
    <3>4. 1 * Turn = Turn
      BY Turns
    <3>5. Allowed(q.route, n + 1, n + 1) = TtlOf(a.key) + Turn
      BY <3>2, <3>4
    <3> HIDE DEF n, q, p
    <3> QED BY <1>1, <1>3, <1>5, <2>2, <3>3, <3>5
  <2> QED BY <1>2, <2>1, <2>2
<1>12. AgeInv(p)
  <2> HIDE DEF n, q, p
  <2> QED BY <1>1, <1>2, <1>4, <1>5, <1>6, <1>8, <1>10, <1>11 DEF AgeInv
<1>13. p.parts # <<>>
  BY <1>2, <1>5
<1> QED BY <1>1, <1>4, <1>6, <1>7, <1>12, <1>13 DEF Awaits

\* How a request looks to the client.
LEMMA PromisedIs ==
  /\ Promised(Free) = [state |-> "none"]
  /\ \A q \in Handlers :
       /\ q # Free
       /\ q.phase \in Awaits =>
            Promised(q) = [state |-> "pending", route |-> q.route, asked |-> q.asked]
       /\ q.phase = "failed" =>
            Promised(q) = [state |-> "failed", route |-> q.route, asked |-> q.asked]
       /\ q.phase = "replied" =>
            Promised(q) = [state |-> "answered", route |-> q.route, asked |-> q.asked,
                           read |-> Oldest(q)]
<1>1. \A q \in Handlers : q # Free
  BY DEF Handlers, Free, Awaits
<1>2. Promised(Free) = [state |-> "none"]
  BY DEF Promised, Free
<1>3. ASSUME NEW q \in Handlers, q.phase \in Awaits
      PROVE  Promised(q) = [state |-> "pending", route |-> q.route, asked |-> q.asked]
  <2>1. q # Free /\ q.phase # "failed" /\ q.phase # "replied"
    BY <1>1, <1>3 DEF Awaits
  <2> QED BY <2>1 DEF Promised
<1>4. ASSUME NEW q \in Handlers, q.phase = "failed"
      PROVE  Promised(q) = [state |-> "failed", route |-> q.route, asked |-> q.asked]
  <2>1. q # Free /\ q.phase # "replied"
    BY <1>1, <1>4
  <2> QED BY <1>4, <2>1 DEF Promised
<1>5. ASSUME NEW q \in Handlers, q.phase = "replied"
      PROVE  Promised(q) = [state |-> "answered", route |-> q.route, asked |-> q.asked,
                            read |-> Oldest(q)]
  <2>1. q # Free /\ q.phase # "failed"
    BY <1>1, <1>5
  <2> QED BY <1>5, <2>1 DEF Promised
<1> QED BY <1>1, <1>2, <1>3, <1>4, <1>5

LEMMA OneRequest ==
  ASSUME Shape, NEW h \in Slots, NEW p, slots' = [slots EXCEPT ![h] = p]
  PROVE  /\ Requests' = [Requests EXCEPT ![h] = Promised(p)]
         /\ Requests[h] = Promised(slots[h])
BY DEF Requests, Shape

\* The age of a route covers each of its answers.
LEMMA RouteAgeCovers ==
  ASSUME NEW r \in Routes
  PROVE  /\ RouteAge[r] \in Nat
         /\ \A i \in 1..Len(KeysOf[r]) : Allowed(r, i, Len(KeysOf[r])) <= RouteAge[r]
<1> DEFINE n == Len(KeysOf[r])
           f == [i \in 1..n |-> Allowed(r, i, n)]
<1>1. KeysOf[r] \in Seq(Keys) /\ n \in Nat \ {0} /\ DOMAIN KeysOf[r] = 1..n
  BY CacheAssumption
<1>2. \A i \in 1..n : f[i] \in Nat
  BY <1>1, AllowedMore
<1>3. RouteAge[r] = Max({f[i] : i \in 1..n})
  <2>1. {f[i] : i \in 1..n} =
          {TtlOf(KeysOf[r][i]) + (Len(KeysOf[r]) - i + 1) * Turn : i \in DOMAIN KeysOf[r]}
    BY <1>1 DEF Allowed
  <2> HIDE DEF f
  <2> QED BY <2>1 DEF RouteAge
<1>4. \A i \in 1..n : f[i] = Allowed(r, i, n)
  OBVIOUS
<1> HIDE DEF f
<1>5. Max({f[i] : i \in 1..n}) \in {f[i] : i \in 1..n}
      /\ \A i \in 1..n : f[i] <= Max({f[j] : j \in 1..n})
  <2> HIDE DEF n
  <2> QED BY <1>1, <1>2, MaxOfValues
<1>6. Max({f[i] : i \in 1..n}) \in Nat
  BY <1>2, <1>5
<1> QED BY <1>3, <1>4, <1>5, <1>6

\* A reply is as young as the route promises.
LEMMA ReplyIsFresh ==
  ASSUME now \in Nat, NEW p \in Handlers, p.phase = "replied", p.since = now, p.parts # <<>>,
         AgeInv(p), \A i \in 1..Len(p.parts) : p.parts[i].read <= now
  PROVE  Oldest(p) \in 0..now /\ now < Oldest(p) + RouteAge[p.route]
<1> DEFINE n == Len(p.parts)
           T == {p.parts[i].read : i \in DOMAIN p.parts}
<1>1. p.parts \in Seq(Answers) /\ p.route \in Routes
  BY DEF Handlers
<1>2. n \in Nat \ {0} /\ DOMAIN p.parts = 1..n
  BY <1>1
<1>3. \A i \in 1..n : p.parts[i] \in Answers
  BY <1>1
<1>4. \A i \in 1..n : p.parts[i].read \in Nat
  BY <1>3 DEF Answers
<1>5. T \subseteq Nat /\ T # {}
  <2>1. p.parts[1].read \in T
    BY <1>2
  <2>2. T \subseteq Nat
    BY <1>2, <1>4
  <2> QED BY <2>1, <2>2
<1>6. Oldest(p) \in T
  <2>1. Min(T) \in T
    <3> HIDE DEF T
    <3> QED BY <1>5, MinOfNaturals
  <2> QED BY <2>1 DEF Oldest
<1>7. PICK i \in 1..n : Oldest(p) = p.parts[i].read
  BY <1>2, <1>6
<1>8. now < p.parts[i].read + Allowed(p.route, i, n) /\ n = Len(KeysOf[p.route])
  BY <1>2 DEF AgeInv
<1>9. RouteAge[p.route] \in Nat /\ Allowed(p.route, i, n) <= RouteAge[p.route]
  BY <1>1, <1>8, RouteAgeCovers
<1>10. Allowed(p.route, i, n) \in Nat
  BY <1>1, <1>2, <1>8, AllowedMore
<1>11. p.parts[i].read \in Nat /\ p.parts[i].read <= now
  BY <1>2, <1>4
<1> HIDE DEF n, T
<1> QED BY <1>7, <1>8, <1>9, <1>10, <1>11

\* What one request does is a step of the abstract request, or none.
RequestStep(h) ==
    \/ UNCHANGED Requests
    \/ Promise!Reply(h) \/ Promise!Refuse(h) \/ Promise!Deliver(h)
    \/ \E r \in Routes : Promise!Ask(h, r)

LEMMA GiveStep ==
  ASSUME IInv, Aging, NEW h \in Slots, slots[h].phase \in Awaits, UNCHANGED now,
         NEW a \in Answers, Whole(KeyOf(slots[h]), a, now),
         now < a.read + TtlOf(a.key) + Turn, Give(h, a)
  PROVE  Aging' /\ RequestStep(h)
<1> DEFINE q == slots[h]
           p == Given(q, a)
<1>1. /\ q \in Handlers /\ p \in Handlers /\ AgeInv(p)
      /\ p.route = q.route /\ p.asked = q.asked /\ p.since = now /\ p.parts # <<>>
      /\ p.phase = "replied" \/ p.phase \in Awaits
  BY GivenIs
<1>2. slots' = [slots EXCEPT ![h] = p] /\ Shape
  BY DEF Give, Given, IInv
<1>3. Aging'
  <2> HIDE DEF p
  <2> QED BY <1>1, <1>2 DEF Aging, Shape
<1>4. Requests[h] = [state |-> "pending", route |-> q.route, asked |-> q.asked]
  BY <1>1, <1>2, PromisedIs, OneRequest
<1>5. Requests' = [Requests EXCEPT ![h] = Promised(p)]
  <2> HIDE DEF p
  <2> QED BY <1>2, OneRequest
<1>6. CASE p.phase \in Awaits
  <2>1. Promised(p) = Requests[h]
    BY <1>1, <1>4, <1>6, PromisedIs
  <2>2. Requests' = Requests
    <3> HIDE DEF p
    <3> QED BY <1>5, <2>1 DEF Requests
  <2> QED BY <1>3, <2>2 DEF RequestStep
<1>7. CASE p.phase = "replied"
  <2>1. Promised(p) = [state |-> "answered", route |-> q.route, asked |-> q.asked,
                       read |-> Oldest(p)]
    BY <1>1, <1>7, PromisedIs
  <2>2. \A i \in 1..Len(p.parts) : p.parts[i].read <= now
    <3>1. HandlerInv(slots'[h], now)
      BY <1>1, <1>2, <1>7, GiveInv DEF Awaits, Shape
    <3>2. slots'[h] = p
      BY <1>2 DEF Shape
    <3> HIDE DEF p
    <3> QED BY <3>1, <3>2 DEF HandlerInv, Whole
  <2>3. now \in Nat
    BY <1>2 DEF Shape
  <2>4. Oldest(p) \in 0..now /\ now < Oldest(p) + RouteAge[q.route]
    <3> HIDE DEF p
    <3> QED BY <1>1, <1>7, <2>2, <2>3, ReplyIsFresh
  <2>5. Requests' = [Requests EXCEPT ![h] = Promise!Answer(q.route, q.asked, Oldest(p))]
    <3> HIDE DEF p
    <3> QED BY <1>5, <2>1 DEF Promise!Answer
  <2>6. Promise!Reply(h)
    <3>1. /\ Requests[h].state = "pending" /\ Requests[h].route = q.route
          /\ Requests[h].asked = q.asked
      BY <1>4
    <3> HIDE DEF p
    <3>2. \E read \in 0..now :
            /\ now < read + RouteAge[Requests[h].route]
            /\ Requests' = [Requests EXCEPT ![h] =
                              Promise!Answer(Requests[h].route, Requests[h].asked, read)]
      BY <2>4, <2>5, <3>1
    <3> QED BY <3>1, <3>2 DEF Promise!Reply
  <2> QED BY <1>3, <2>6 DEF RequestStep
<1> QED BY <1>1, <1>6, <1>7

LEMMA ServeStep ==
  ASSUME IInv, Aging, NEW h \in Slots, Serve(h)
  PROVE  Aging' /\ RequestStep(h)
<1> DEFINE q == slots[h]
<1>1. CASE Hit(h)
  <2> DEFINE a == cache[KeyOf(slots[h])].answer
  <2>1. /\ slots[h].phase \in Awaits /\ a \in Answers /\ Whole(KeyOf(slots[h]), a, now)
        /\ now < a.read + TtlOf(a.key) + Turn
    BY <1>1, HitIs
  <2>2. Give(h, a) /\ UNCHANGED now
    BY <1>1 DEF Hit
  <2> HIDE DEF a
  <2> QED BY <2>1, <2>2, GiveStep
<1>2. CASE Write(h) \/ WriteFails(h)
  <2> DEFINE a == Loaded(slots[h])
  <2>1. slots[h].phase = "store" /\ Give(h, a) /\ UNCHANGED now
    BY <1>2 DEF Write, WriteFails
  <2>2. /\ slots[h].phase \in Awaits /\ a \in Answers /\ Whole(KeyOf(slots[h]), a, now)
        /\ now < a.read + TtlOf(a.key) + Turn
    BY <2>1, LoadedIs
  <2> HIDE DEF a
  <2> QED BY <2>1, <2>2, GiveStep
<1>3. CASE Miss(h) \/ Query(h)
  <2>1. q \in Handlers /\ q.phase \in Awaits /\ AgeInv(q) /\ Shape
    BY <1>3, Kinds DEF IInv, Miss, Query, Awaits, Aging
  <2>2. PICK p \in Handlers : /\ slots' = [slots EXCEPT ![h] = p] /\ p.phase \in Awaits
                              /\ p.route = q.route /\ p.asked = q.asked /\ p.since = q.since
                              /\ p.parts = q.parts
    <3> DEFINE p == slots'[h]
    <3>1. p \in {Free} \cup Handlers /\ slots' = [slots EXCEPT ![h] = p]
      BY <1>3, <2>1, LoadInv DEF Shape, Miss, Query
    <3>2. /\ p.phase \in Awaits
          /\ p.route = q.route /\ p.asked = q.asked /\ p.since = q.since
          /\ p.parts = q.parts
      BY <1>3, <2>1 DEF Shape, Miss, Query, Awaits, Handlers
    <3>3. p # Free
      BY <3>2 DEF Free, Awaits
    <3> HIDE DEF p
    <3> QED BY <3>1, <3>2, <3>3
  <2>3. AgeInv(p)
    BY <2>1, <2>2 DEF AgeInv, Awaits
  <2>4. Aging'
    BY <2>1, <2>2, <2>3 DEF Aging, Shape
  <2>5. Promised(p) = Promised(q)
    BY <2>1, <2>2, PromisedIs
  <2>6. Requests' = Requests
    BY <2>1, <2>2, <2>5, OneRequest DEF Requests
  <2> QED BY <2>4, <2>6 DEF RequestStep
<1>4. CASE QueryFails(h)
  <2> DEFINE p == Handler("failed", q.route, q.asked, q.since, <<>>, NoReads)
  <2>1. q \in Handlers /\ q.phase \in Awaits /\ AgeInv(q) /\ Shape
    BY <1>4, Kinds DEF IInv, QueryFails, Awaits, Aging
  <2>2. slots' = [slots EXCEPT ![h] = p] /\ UNCHANGED now
    BY <1>4 DEF QueryFails
  <2>3. p \in Handlers
    BY <2>1 DEF Handler, Handlers, NoReads
  <2>4. /\ p.phase = "failed" /\ p.route = q.route /\ p.asked = q.asked /\ p.since = q.since
        /\ p.parts = <<>>
    BY DEF Handler
  <2> HIDE DEF p
  <2>5. AgeInv(p)
    BY <2>1, <2>4 DEF AgeInv
  <2>6. Aging'
    BY <2>1, <2>2, <2>5 DEF Aging, Shape
  <2>7. Requests[h] = [state |-> "pending", route |-> q.route, asked |-> q.asked]
    BY <2>1, <2>2, PromisedIs, OneRequest
  <2>8. Promised(p) = Promise!Refusal(Requests[h].route, Requests[h].asked)
    <3>1. Promised(p) = [state |-> "failed", route |-> q.route, asked |-> q.asked]
      BY <2>3, <2>4, PromisedIs
    <3>2. Requests[h].route = q.route /\ Requests[h].asked = q.asked
      BY <2>7
    <3> QED BY <3>1, <3>2 DEF Promise!Refusal
  <2>9. Requests' = [Requests EXCEPT ![h] = Promised(p)]
    BY <2>1, <2>2, OneRequest
  <2>10. Requests[h].state = "pending"
    BY <2>7
  <2>11. Requests' =
           [Requests EXCEPT ![h] = Promise!Refusal(Requests[h].route, Requests[h].asked)]
    BY <2>8, <2>9
  <2>12. Promise!Refuse(h)
    <3> HIDE DEF q
    <3> QED BY <2>2, <2>10, <2>11 DEF Promise!Refuse
  <2> QED BY <2>6, <2>12 DEF RequestStep
<1> QED BY <1>1, <1>2, <1>3, <1>4 DEF Serve

LEMMA AskStep ==
  ASSUME IInv, Aging, NEW h \in Slots, Request(h)
  PROVE  Aging' /\ RequestStep(h)
<1>1. Shape /\ UNCHANGED now /\ now \in Nat
  BY DEF IInv, Request, Shape
<1>2. ASSUME NEW r \in Routes, slots[h].phase = "free", Ask(h, r)
      PROVE  Aging' /\ RequestStep(h)
  <2> DEFINE p == Handler(First, r, now, now, <<>>, NoReads)
  <2>1. slots' = [slots EXCEPT ![h] = p] /\ slots[h] = Free
    BY <1>1, <1>2, Kinds DEF Ask
  <2>2. p \in Handlers
    BY <1>1 DEF Handler, Handlers, NoReads, First, Awaits
  <2>3. /\ p.phase \in Awaits /\ p.route = r /\ p.asked = now /\ p.since = now
        /\ p.parts = <<>>
    BY DEF Handler, First, Awaits
  <2> HIDE DEF p
  <2>4. AgeInv(p)
    <3>1. KeysOf[r] \in Seq(Keys)
      BY CacheAssumption
    <3>2. Len(KeysOf[r]) * Turn \in Nat /\ 0 * Turn = 0
      <4>1. Len(KeysOf[r]) \in Nat
        BY <3>1
      <4> QED BY <4>1, Turns
    <3>3. Len(p.parts) = 0 /\ p.phase # "replied"
      BY <2>3 DEF Awaits
    <3>4. p.since <= p.asked + Len(p.parts) * Turn
      BY <1>1, <2>3, <3>2, <3>3
    <3>5. p.since <= p.asked + Len(KeysOf[p.route]) * Turn
      BY <1>1, <2>3, <3>2
    <3> QED BY <3>3, <3>4, <3>5 DEF AgeInv
  <2>5. Aging'
    BY <1>1, <2>1, <2>4 DEF Aging, Shape
  <2>6. Requests[h] = [state |-> "none"]
    BY <1>1, <2>1, PromisedIs, OneRequest
  <2>7. Requests' = [Requests EXCEPT ![h] = [state |-> "pending", route |-> r, asked |-> now]]
    <3>1. Promised(p) = [state |-> "pending", route |-> r, asked |-> now]
      BY <2>2, <2>3, PromisedIs
    <3>2. Requests' = [Requests EXCEPT ![h] = Promised(p)]
      BY <1>1, <2>1, OneRequest
    <3> QED BY <3>1, <3>2
  <2>8. Promise!Ask(h, r)
    BY <1>1, <2>6, <2>7 DEF Promise!Ask, Promise!Pending, Promise!NoRequest
  <2> QED BY <2>5, <2>8 DEF RequestStep
<1>3. ASSUME slots[h].phase \in {"replied", "failed"}, slots' = [slots EXCEPT ![h] = Free]
      PROVE  Aging' /\ RequestStep(h)
  <2>1. slots[h] \in Handlers
    BY <1>1, <1>3, Kinds
  <2>2. Aging'
    BY <1>1, <1>3 DEF Aging, Shape, Free
  <2>3. Requests[h].state \in {"answered", "failed"}
    <3>1. Requests[h] = Promised(slots[h])
      BY DEF Requests
    <3>2. CASE slots[h].phase = "replied"
      BY <2>1, <3>1, <3>2, PromisedIs
    <3>3. CASE slots[h].phase = "failed"
      BY <2>1, <3>1, <3>3, PromisedIs
    <3> QED BY <1>3, <3>2, <3>3
  <2>4. Requests' = [Requests EXCEPT ![h] = [state |-> "none"]]
    <3>1. Requests' = [Requests EXCEPT ![h] = Promised(Free)]
      BY <1>1, <1>3, OneRequest
    <3> QED BY <3>1, PromisedIs
  <2>5. Promise!Deliver(h)
    BY <1>1, <2>3, <2>4 DEF Promise!Deliver, Promise!NoRequest
  <2> QED BY <2>2, <2>5 DEF RequestStep
<1> QED BY <1>2, <1>3 DEF Request

LEMMA TickStep ==
  ASSUME IInv, Aging, Tick
  PROVE  Aging' /\ Promise!Pass
<1>1. Shape /\ UNCHANGED slots /\ now' = now + 1 /\ now \in Nat /\ now < MaxTime
  BY DEF IInv, Shape, Tick
<1>2. ASSUME NEW h \in Slots, Requests[h] # [state |-> "none"]
      PROVE  /\ Requests[h].asked + RouteWait[Requests[h].route] \in Nat
             /\ now < Requests[h].asked + RouteWait[Requests[h].route]
  <2> DEFINE q == slots[h]
  <2>1. q # Free /\ Requests[h] = Promised(q)
    BY <1>2, PromisedIs DEF Requests
  <2>2. q \in Handlers /\ q.phase # "free" /\ AgeInv(q) /\ now < q.since + Turn
    BY <1>1, <2>1, Kinds DEF Aging, Tick, Shape
  <2>3. q.asked \in Nat /\ q.since \in Nat /\ q.route \in Routes
    BY <2>2 DEF Handlers
  <2>4. Requests[h].route = q.route /\ Requests[h].asked = q.asked
    <3>1. q.phase \in Awaits \/ q.phase = "failed" \/ q.phase = "replied"
      BY <2>2 DEF Handlers
    <3> QED BY <2>1, <2>2, <3>1, PromisedIs
  <2> DEFINE L == Len(KeysOf[q.route])
             x == L * Turn
             y == (L + 1) * Turn
  <2>5. L \in Nat
    BY <2>3, CacheAssumption
  <2>6. x \in Nat /\ y = x + Turn
    <3> HIDE DEF L
    <3> QED BY <2>5, Turns
  <2>7. q.since <= q.asked + x
    BY <2>2 DEF AgeInv
  <2>8. RouteWait[q.route] = y
    BY <2>3 DEF RouteWait
  <2> HIDE DEF q, x, y, L
  <2> QED BY <1>1, <2>2, <2>3, <2>4, <2>6, <2>7, <2>8, CacheAssumption
<1>3. ASSUME NEW h \in Slots PROVE ~Promise!Overdue(h)
  <2>1. CASE Requests[h] = [state |-> "none"]
    BY <2>1 DEF Promise!Overdue, Promise!NoRequest
  <2>2. CASE Requests[h] # [state |-> "none"]
    <3> DEFINE t == Requests[h].asked + RouteWait[Requests[h].route]
    <3>1. now < t /\ t \in Nat
      BY <1>2, <2>2
    <3> HIDE DEF t
    <3>2. ~(now >= t)
      BY <1>1, <3>1
    <3> QED BY <3>2 DEF Promise!Overdue, t
  <2> QED BY <2>1, <2>2
<1>4. UNCHANGED Requests /\ Aging'
  BY <1>1 DEF Requests, Aging
<1> QED BY <1>1, <1>3, <1>4 DEF Promise!Pass

\* Requests age no faster than their turns, and the promise is kept by each
\* step.
LEMMA AgingInit == CacheInit => Promise!AnswersInit /\ Aging
<1> SUFFICES ASSUME CacheInit PROVE Promise!AnswersInit /\ Aging
  OBVIOUS
<1>1. \A h \in Slots : slots[h] = Free /\ slots[h].phase = "free"
  BY DEF CacheInit, Free
<1>2. Requests = [h \in Slots |-> [state |-> "none"]]
  BY <1>1, PromisedIs DEF Requests
<1> QED BY <1>1, <1>2 DEF CacheInit, Promise!AnswersInit, Promise!NoRequest, Aging

LEMMA AgingNext ==
  ASSUME IInv, Aging, [CacheNext]_cacheVars
  PROVE  Aging' /\ [Promise!AnswersNext]_(Promise!answersVars)
<1>1. CASE Tick
  BY <1>1, TickStep DEF Promise!AnswersNext
<1>2. CASE Clear \/ UNCHANGED cacheVars
  <2>1. UNCHANGED <<now, slots>>
    BY <1>2 DEF Clear, Invalidate, Delete, Invalidated, InvalidateFails, cacheVars
  <2>2. UNCHANGED Requests /\ Aging'
    BY <2>1 DEF Requests, Aging
  <2> QED BY <2>1, <2>2 DEF Promise!answersVars
<1>3. ASSUME NEW h \in Slots, Serve(h) \/ Request(h)
      PROVE  Aging' /\ [Promise!AnswersNext]_(Promise!answersVars)
  <2>1. Aging' /\ RequestStep(h)
    BY <1>3, ServeStep, AskStep
  <2>2. UNCHANGED now
    BY <1>3 DEF Serve, Hit, Miss, Query, QueryFails, Write, WriteFails, Request
  <2>3. CASE UNCHANGED Requests
    BY <2>1, <2>2, <2>3 DEF Promise!answersVars
  <2>4. CASE ~UNCHANGED Requests
    BY <2>1, <2>4 DEF RequestStep, Promise!AnswersNext
  <2> QED BY <2>3, <2>4
<1> QED BY <1>1, <1>2, <1>3 DEF CacheNext

\* Whatever readers, writers, expiry, invalidation and failures interleave, the
\* gateway keeps what a client is promised: every answer comes in time or not
\* at all, and no row in it is older than its route allows.
THEOREM Refinement == CacheSpec => KeepsThePromise
BY AgingInit, AgingNext, Inductive, PTL DEF CacheSpec, KeepsThePromise, Promise!AnswersSpec

-----------------------------------------------------------------------------
(***************************************************************************)
(* The windows of answers.  An entry is younger than the window it was     *)
(* selected for by the turns its writer took to come to it, and a reader   *)
(* comes to it at the same place of its route.                             *)
(***************************************************************************)

WindowInv(q) ==
    \A i \in 1..Len(q.parts) :
        /\ q.asked < q.parts[i].window + TtlOf(q.parts[i].key) + i * Turn
        /\ q.parts[i].window <= q.asked + i * Turn

\* A route asks for k as its i-th answer.
Place(k, i) == \E r \in Routes : i \in 1..Len(KeysOf[r]) /\ KeysOf[r][i] = k

Windowing ==
    /\ \A h \in Slots : slots[h].phase # "free" => WindowInv(slots[h])
    /\ \A k \in Keys : cache[k].present =>
         \A i \in Nat : Place(k, i) => cache[k].stored <= cache[k].answer.window + i * Turn

\* When a request comes to its next answer.
LEMMA ComesTo ==
  ASSUME IInv, Aging, NEW h \in Slots, slots[h].phase \in Awaits
  PROVE  LET q == slots[h]
             i == Len(q.parts) + 1
         IN  /\ q \in Handlers /\ i \in Nat \ {0} /\ i * Turn \in Nat
             /\ KeyOf(q) \in Keys /\ TtlOf(KeyOf(q)) \in Nat \ {0} /\ Place(KeyOf(q), i)
             /\ q.asked \in Nat /\ q.asked <= now /\ now \in Nat
             /\ now <= q.asked + i * Turn
<1> DEFINE q == slots[h]
           n == Len(q.parts)
<1>1. q \in Handlers /\ HandlerInv(q, now) /\ AgeInv(q) /\ now \in Nat
  BY Kinds DEF IInv, Shape, Awaits, Aging
<1>2. /\ q.route \in Routes /\ q.asked \in Nat /\ q.since \in Nat /\ n \in Nat
      /\ n < Len(KeysOf[q.route]) /\ Turn \in Nat
  BY <1>1, CacheAssumption DEF Handlers, HandlerInv
<1>3. n + 1 \in 1..Len(KeysOf[q.route]) /\ KeyOf(q) \in Keys /\ TtlOf(KeyOf(q)) \in Nat \ {0}
  BY <1>1, <1>2, NextKey
<1>4. Place(KeyOf(q), n + 1)
  BY <1>2, <1>3 DEF Place, KeyOf
<1>5. /\ q.asked <= q.since /\ q.since <= now /\ now <= q.since + Turn
      /\ q.since <= q.asked + n * Turn
  BY <1>1 DEF HandlerInv, AgeInv, Awaits
<1>6. /\ n * Turn \in Nat /\ (n + 1) * Turn = n * Turn + Turn
  <2> HIDE DEF n
  <2> QED BY <1>2, Turns
<1>7. q.asked <= now /\ now <= q.asked + (n + 1) * Turn /\ (n + 1) * Turn \in Nat
  <2> DEFINE x == n * Turn
             y == (n + 1) * Turn
  <2>1. x \in Nat /\ y = x + Turn /\ q.since <= q.asked + x
    BY <1>5, <1>6
  <2> HIDE DEF x, y, q, n
  <2>2. q.asked <= now /\ now <= q.asked + y /\ y \in Nat
    BY <1>1, <1>2, <1>5, <2>1
  <2> QED BY <2>2 DEF y
<1> QED BY <1>1, <1>2, <1>3, <1>4, <1>7

\* An answer for a window that is right at the place it is given at.
LEMMA GiveWindow ==
  ASSUME IInv, Aging, Windowing, NEW h \in Slots, slots[h].phase \in Awaits,
         NEW a \in Answers, Give(h, a),
         LET i == Len(slots[h].parts) + 1 IN
           /\ slots[h].asked < a.window + TtlOf(a.key) + i * Turn
           /\ a.window <= slots[h].asked + i * Turn
  PROVE  \A g \in Slots : slots'[g].phase # "free" => WindowInv(slots'[g])
<1> DEFINE q == slots[h]
           p == Given(q, a)
<1>1. q \in Handlers /\ WindowInv(q) /\ Shape
  BY Kinds DEF IInv, Awaits, Windowing
<1>2. slots' = [slots EXCEPT ![h] = p]
  BY DEF Give, Given
<1>3. q.parts \in Seq(Answers) /\ p.parts = Append(q.parts, a) /\ p.asked = q.asked
  BY <1>1 DEF Handlers, Given, Handler
<1> HIDE DEF p
<1>4. /\ Len(p.parts) = Len(q.parts) + 1 /\ p.parts[Len(q.parts) + 1] = a
      /\ \A i \in 1..Len(q.parts) : p.parts[i] = q.parts[i]
  BY <1>3
<1>5. \A i \in 1..Len(p.parts) : i \in 1..Len(q.parts) \/ i = Len(q.parts) + 1
  BY <1>3, <1>4
<1>6. WindowInv(p)
  <2> SUFFICES ASSUME NEW i \in 1..Len(p.parts)
               PROVE  /\ p.asked < p.parts[i].window + TtlOf(p.parts[i].key) + i * Turn
                      /\ p.parts[i].window <= p.asked + i * Turn
    BY DEF WindowInv
  <2>1. CASE i \in 1..Len(q.parts)
    BY <1>1, <1>3, <1>4, <2>1 DEF WindowInv
  <2>2. CASE i = Len(q.parts) + 1
    BY <1>3, <1>4, <2>2
  <2> QED BY <1>5, <2>1, <2>2
<1> QED BY <1>1, <1>2, <1>6 DEF Windowing, Shape

LEMMA HitWindow ==
  ASSUME IInv, Aging, Windowing, NEW h \in Slots, Hit(h)
  PROVE  Windowing'
<1> DEFINE q == slots[h]
           i == Len(q.parts) + 1
           k == KeyOf(q)
           c == cache[k]
           a == c.answer
           x == i * Turn
<1>1. q.phase \in Awaits /\ a \in Answers /\ Whole(k, a, now) /\ Give(h, a)
  BY HitIs DEF Hit
<1>2. /\ i \in Nat \ {0} /\ x \in Nat /\ k \in Keys /\ TtlOf(k) \in Nat \ {0} /\ Place(k, i)
      /\ q.asked \in Nat /\ q.asked <= now /\ now \in Nat /\ now <= q.asked + x
  BY <1>1, ComesTo
<1>3. c \in Entries /\ EntryInv(k, c, now, cleared[EndpointOf[k]])
  BY <1>2, Kinds DEF IInv, Hit
<1>4. c.stored \in Nat /\ a.window \in Nat /\ c.stored <= now /\ now < c.stored + TtlOf(k)
      /\ a.window <= now /\ a.key = k
  BY <1>1, <1>3 DEF Entries, Answers, EntryInv, Whole
<1>5. c.stored <= a.window + x
  BY <1>2, Kinds DEF Windowing, Hit
<1>6. /\ q.asked < a.window + TtlOf(a.key) + x
      /\ a.window <= q.asked + x
  <2> HIDE DEF q, i, k, c, a, x
  <2> QED BY <1>2, <1>4, <1>5
<1>7. \A g \in Slots : slots'[g].phase # "free" => WindowInv(slots'[g])
  <2> HIDE DEF k, c, a
  <2> QED BY <1>1, <1>6, GiveWindow
<1> QED BY <1>7 DEF Windowing, Hit

LEMMA LoadedWindow ==
  ASSUME IInv, Aging, Windowing, NEW h \in Slots, Write(h) \/ WriteFails(h)
  PROVE  Windowing'
<1> DEFINE q == slots[h]
           i == Len(q.parts) + 1
           k == KeyOf(q)
           a == Loaded(q)
           x == i * Turn
<1>1. q.phase \in Awaits /\ a \in Answers /\ a.key = k /\ a.window = q.asked /\ Give(h, a)
  BY LoadedIs DEF Write, WriteFails, Loaded
<1>2. /\ i \in Nat \ {0} /\ x \in Nat /\ k \in Keys /\ TtlOf(k) \in Nat \ {0} /\ Place(k, i)
      /\ q.asked \in Nat /\ q.asked <= now /\ now \in Nat /\ now <= q.asked + x
  BY <1>1, ComesTo
<1>3. /\ q.asked < a.window + TtlOf(a.key) + x
      /\ a.window <= q.asked + x
  <2> HIDE DEF q, i, k, a, x
  <2> QED BY <1>1, <1>2
<1>4. \A g \in Slots : slots'[g].phase # "free" => WindowInv(slots'[g])
  <2> HIDE DEF k, a
  <2> QED BY <1>1, <1>3, GiveWindow
<1>5. CASE Write(h)
  <2>1. cache' = [cache EXCEPT ![k] = Entry(a)] /\ Shape
    BY <1>5 DEF Write, IInv
  <2>2. ASSUME NEW l \in Keys, cache'[l].present, NEW j \in Nat, Place(l, j)
        PROVE  cache'[l].stored <= cache'[l].answer.window + j * Turn
    <3>1. CASE l = k
      <4>1. j = i
        <5>1. PICK r \in Routes : i \in 1..Len(KeysOf[r]) /\ KeysOf[r][i] = k
          BY <1>2 DEF Place
        <5>2. PICK s \in Routes : j \in 1..Len(KeysOf[s]) /\ KeysOf[s][j] = k
          BY <2>2, <3>1 DEF Place
        <5> HIDE DEF i, k
        <5>3. i \in DOMAIN KeysOf[r] /\ j \in DOMAIN KeysOf[s]
          <6>1. KeysOf[r] \in Seq(Keys) /\ KeysOf[s] \in Seq(Keys)
            BY CacheAssumption
          <6> QED BY <5>1, <5>2, <6>1
        <5> QED BY <5>1, <5>2, <5>3, PlaceAssumption
      <4>2. cache'[l].stored = now /\ cache'[l].answer.window = q.asked
        BY <1>1, <1>2, <2>1, <3>1 DEF Shape, Entry
      <4> QED BY <1>2, <4>1, <4>2
    <3>2. CASE l # k
      BY <2>1, <2>2, <3>2 DEF Windowing, Shape
    <3> QED BY <3>1, <3>2
  <2> QED BY <1>4, <2>2 DEF Windowing
<1>6. CASE WriteFails(h)
  BY <1>4, <1>6 DEF Windowing, WriteFails
<1> QED BY <1>5, <1>6

\* A request that gets no answer in this step.
LEMMA NoWindow ==
  ASSUME IInv, Windowing, NEW h \in Slots, Miss(h) \/ Query(h) \/ QueryFails(h) \/ Request(h)
  PROVE  Windowing'
<1>1. Shape /\ UNCHANGED cache
  BY DEF IInv, Miss, Query, QueryFails, Request
<1>2. \A g \in Slots : g # h => slots'[g] = slots[g]
  BY <1>1 DEF Shape, Miss, Query, QueryFails, Request, Ask
<1>3. slots'[h].phase # "free" => WindowInv(slots'[h])
  <2>1. CASE Miss(h) \/ Query(h)
    <3>1. slots[h] \in Handlers /\ WindowInv(slots[h])
      BY <1>1, <2>1, Kinds DEF Miss, Query, Windowing
    <3>2. slots'[h].asked = slots[h].asked /\ slots'[h].parts = slots[h].parts
      BY <1>1, <2>1, <3>1 DEF Shape, Miss, Query, Handlers
    <3> QED BY <3>1, <3>2 DEF WindowInv
  <2>2. CASE QueryFails(h)
    <3>1. slots'[h].parts = <<>>
      BY <1>1, <2>2 DEF Shape, QueryFails, Handler
    <3> QED BY <3>1 DEF WindowInv
  <2>3. CASE Request(h)
    <3>1. slots'[h] = Free \/ slots'[h].parts = <<>>
      BY <1>1, <2>3 DEF Shape, Request, Ask, Handler
    <3> QED BY <3>1 DEF WindowInv, Free
  <2> QED BY <2>1, <2>2, <2>3
<1> QED BY <1>1, <1>2, <1>3 DEF Windowing

\* The rows of an answer were selected for a window no further from the one
\* the response announces than the TTL and the turns of the route.
THEOREM WindowsAreClose == CacheSpec => []WindowsAgree
<1>1. CacheInit => Windowing
  BY DEF CacheInit, Windowing, Nothing, Free
<1>2. IInv /\ Aging /\ Windowing /\ [CacheNext]_cacheVars => Windowing'
  <2> SUFFICES ASSUME IInv, Aging, Windowing, [CacheNext]_cacheVars PROVE Windowing'
    OBVIOUS
  <2>1. CASE Clear \/ Tick \/ UNCHANGED cacheVars
    <3>1. UNCHANGED slots
      BY <2>1 DEF Clear, Invalidate, Delete, Invalidated, InvalidateFails, Tick, cacheVars
    <3>2. \A k \in Keys : cache'[k] = cache[k] \/ cache'[k] = Nothing
      BY <2>1 DEF Clear, Invalidate, Delete, Invalidated, InvalidateFails, Tick, cacheVars,
                  IInv, Shape
    <3> QED BY <3>1, <3>2 DEF Windowing, Nothing
  <2>2. ASSUME NEW h \in Slots, Serve(h) \/ Request(h) PROVE Windowing'
    BY <2>2, HitWindow, LoadedWindow, NoWindow DEF Serve
  <2> QED BY <2>1, <2>2 DEF CacheNext
<1>3. ASSUME IInv, Windowing PROVE WindowsAgree
  <2> SUFFICES ASSUME NEW h \in Slots, slots[h] # Free, NEW i \in DOMAIN slots[h].parts
               PROVE  LET answer == slots[h].parts[i] IN
                      /\ slots[h].asked < answer.window + TtlOf(answer.key) + i * Turn
                      /\ answer.window <= slots[h].asked + i * Turn
    BY DEF WindowsAgree
  <2>1. slots[h] \in Handlers /\ WindowInv(slots[h])
    BY <1>3, Kinds DEF IInv, Windowing
  <2>2. i \in 1..Len(slots[h].parts)
    BY <2>1 DEF Handlers
  <2> QED BY <2>1, <2>2 DEF WindowInv
<1> QED BY <1>1, <1>2, <1>3, AgingInit, AgingNext, Inductive, PTL DEF CacheSpec
=============================================================================
