------------------------- MODULE TokenBucket_proofs -------------------------
(***************************************************************************)
(* The buckets limit and serve a client as they should, for every rate,    *)
(* every burst and any number of replicas whose clocks agree to within the *)
(* margin of EXPIRE.                                                       *)
(*                                                                         *)
(* The argument is about the balance of a bucket, its tokens less the      *)
(* stamp they were counted at.  Time does not change it, a grant lowers it *)
(* by PERIOD, capping only lowers it, and a denial leaves it alone however *)
(* far its stamp goes back.  The invariant bounds it from both sides by    *)
(* what was granted.                                                       *)
(***************************************************************************)
EXTENDS TokenBucket, TLAPS

\* What the library does not say of integer division.
LEMMA Division ==
  ASSUME NEW x \in Nat, NEW S \in Nat \ {0}
  PROVE  x \div S \in Nat /\ x < S * (x \div S) + S
BY SMTT(30)

\* A full bucket has a token.
LEMMA FullType == FULL \in Nat /\ FULL >= PERIOD
<1>1. CAPACITY \in Nat /\ CAPACITY >= 1 /\ PERIOD \in Nat /\ PERIOD >= 1
  BY CapacityAssumption, PeriodAssumption
<1>2. CAPACITY * PERIOD \in Nat /\ CAPACITY * PERIOD >= PERIOD
  BY <1>1
<1> QED BY <1>2 DEF FULL

\* Rounding up to whole seconds is not too short.
LEMMA CeilCovers ==
  ASSUME NEW x \in Nat PROVE CeilDiv(x, SECOND) \in Nat /\ SECOND * CeilDiv(x, SECOND) >= x
<1>1. SECOND \in Nat \ {0} /\ (x + SECOND) - 1 \in Nat
  BY PeriodAssumption
<1> DEFINE q == ((x + SECOND) - 1) \div SECOND
<1>2. q \in Nat /\ (x + SECOND) - 1 < SECOND * q + SECOND
  BY <1>1, Division
<1>3. CeilDiv(x, SECOND) = q
  <2>1. x + SECOND - 1 = (x + SECOND) - 1
    BY <1>1
  <2> QED BY <2>1 DEF CeilDiv
<1>4. SECOND * q \in Nat
  BY <1>1, <1>2
<1> HIDE DEF q
<1> QED BY <1>1, <1>2, <1>3, <1>4

\* A key lives as long as its bucket takes to refill, plus the clocks' spread.
LEMMA TtlCovers == Ttl \in Nat /\ Ttl >= FULL + (EARLY + LATE)
<1>1. CeilDiv(FULL, SECOND) \in Nat /\ SECOND * CeilDiv(FULL, SECOND) >= FULL
  BY FullType, CeilCovers
<1>2. SECOND \in Nat /\ TTL_MARGIN \in Nat /\ EARLY + LATE <= SECOND * TTL_MARGIN
  BY PeriodAssumption, MarginAssumption
<1>3. Ttl = SECOND * CeilDiv(FULL, SECOND) + SECOND * TTL_MARGIN
  BY <1>1, <1>2 DEF Ttl
<1>4. SECOND * CeilDiv(FULL, SECOND) \in Nat /\ SECOND * TTL_MARGIN \in Nat
  BY <1>1, <1>2
<1> QED BY <1>1, <1>2, <1>3, <1>4, FullType, ClockAssumption

\* Waiting out retry_after makes up for what was missing.
LEMMA WaitCovers ==
  ASSUME NEW o \in Owners, NEW l \in Int, ~Enough(l)
  PROVE  Wait(o, l) \in Nat /\ SECOND * Wait(o, l) \in Nat /\ l + SECOND * Wait(o, l) >= PERIOD
<1> DEFINE d == PERIOD - l
<1>1. d \in Nat /\ d >= 1 /\ SECOND \in Nat \ {0}
  BY PeriodAssumption DEF Enough
<1>2. ASSUME NEW n \in Nat, SECOND * n >= d
      PROVE  AtLeast1(n) \in Nat /\ SECOND * AtLeast1(n) >= d /\ SECOND * AtLeast1(n) \in Nat
  <2>1. n # 0
    BY <1>1, <1>2
  <2>2. AtLeast1(n) = n
    BY <2>1 DEF AtLeast1
  <2>3. SECOND * n \in Nat
    BY <1>1
  <2> QED BY <2>2, <2>3, <1>2
<1>3. CASE o = "redis"
  <2>1. CeilDiv(d, SECOND) \in Nat /\ SECOND * CeilDiv(d, SECOND) >= d
    BY <1>1, CeilCovers
  <2>2. Wait(o, l) = AtLeast1(CeilDiv(d, SECOND))
    BY <1>3 DEF Wait
  <2> HIDE DEF d
  <2>3. Wait(o, l) \in Nat /\ SECOND * Wait(o, l) >= d /\ SECOND * Wait(o, l) \in Nat
    BY <2>1, <2>2, <1>2
  <2> QED BY <2>3, PeriodAssumption DEF d
<1>4. CASE o # "redis"
  <2>1. d \div SECOND \in Nat /\ d < SECOND * (d \div SECOND) + SECOND
    BY <1>1, Division
  <2>2. SECOND * (d \div SECOND + 1) = SECOND * (d \div SECOND) + SECOND
    BY <1>1, <2>1
  <2>3. SECOND * (d \div SECOND + 1) >= d /\ d \div SECOND + 1 \in Nat
    BY <1>1, <2>1, <2>2
  <2>4. Wait(o, l) = AtLeast1(d \div SECOND + 1)
    BY <1>4 DEF Wait
  <2> HIDE DEF d
  <2>5. Wait(o, l) \in Nat /\ SECOND * Wait(o, l) >= d /\ SECOND * Wait(o, l) \in Nat
    BY <2>3, <2>4, <1>2
  <2> QED BY <2>5, PeriodAssumption DEF d
<1> QED BY <1>3, <1>4

----------------------------------------------------------------------------
(* The invariant.                                                          *)

\* What a check neither creates nor, unless it grants, takes away.
Balance(o) == tokens[o] - updated[o]

\* What a bucket that does not exist would start with at the earliest stamp.
Worth(o) == IF o \in present THEN Balance(o) ELSE FULL - (now - Behind(o))

LastUsed(o) == IF o = "redis" THEN expires - Ttl ELSE now

\* Nothing was granted in the future.
NoFuture(o) == \A a \in Times : a > now => since[o][a] = 0

\* What was granted was taken from the balance.
GrantsArePaid(o) ==
  \A a \in 0 .. now :
    since[o][a] = 0 \/ since[o][a] + Worth(o) <= (FULL - a) + Behind(o)

\* What is missing from the balance was granted.
BalanceIsEarned(o) ==
  o \in present =>
    \E a \in 0 .. now : since[o][a] + Balance(o) + a + Ahead(o) >= FULL

\* A bucket had no debt at the stamp it last granted at.
NoDebt(o) == o \in present => Balance(o) + LastUsed(o) + Ahead(o) >= 0

\* A key in Redis has been used within its time to live.
Alive == "redis" \in present => now < expires /\ expires <= now + Ttl

Promised(o) == \A stamp \in due[o] : Enough(Level(o, stamp))

Bucket(o) ==
  /\ NoFuture(o) /\ GrantsArePaid(o) /\ BalanceIsEarned(o) /\ NoDebt(o) /\ Promised(o)

IInv == TypeOK /\ Alive /\ \A o \in Owners : Bucket(o)

----------------------------------------------------------------------------
(* The initial states and the steps.                                       *)

\* Every stamp is an integer within the clocks' errors of the time.
LEMMA SkewType ==
  ASSUME NEW o \in Owners, NEW e \in Skews(o)
  PROVE  /\ e \in Int /\ 0 - Behind(o) <= e /\ e <= Ahead(o)
         /\ Behind(o) \in Nat /\ Ahead(o) \in Nat
BY ClockAssumption DEF Skews, Behind, Ahead

\* The three things a check can do: grant from a full bucket or a new one, grant
\* from one that is neither, or deny.
LEMMA CheckEffect ==
  ASSUME TypeOK, NEW o \in Owners, NEW s \in Int, Consume(o, s)
  PROVE  /\ now' = now /\ home' = home
         /\ present' = present \cup {o}
         /\ tokens' \in [Owners -> Int] /\ updated' \in [Owners -> Int]
         /\ \/ /\ o \notin present \/ Balance(o) + s > FULL
               /\ tokens'[o] - updated'[o] = (FULL - s) - PERIOD
               /\ \A a \in Times : since'[o][a] = IF a <= now THEN since[o][a] + PERIOD
                                                              ELSE since[o][a]
               /\ due'[o] = {}
            \/ /\ o \in present /\ PERIOD <= Balance(o) + s /\ Balance(o) + s <= FULL
               /\ tokens'[o] - updated'[o] = Balance(o) - PERIOD
               /\ \A a \in Times : since'[o][a] = IF a <= now THEN since[o][a] + PERIOD
                                                              ELSE since[o][a]
               /\ due'[o] = {}
            \/ /\ o \in present /\ Balance(o) + s < PERIOD
               /\ tokens'[o] - updated'[o] = Balance(o)
               /\ since' = since
               /\ due'[o] = due[o] \cup {s + SECOND * Wait(o, Balance(o) + s)}
<1> DEFINE l == Level(o, s)
<1>1. FULL \in Nat /\ FULL >= PERIOD /\ PERIOD \in Nat /\ tokens[o] \in Int /\ updated[o] \in Int
  BY FullType, PeriodAssumption DEF TypeOK
<1>2. Balance(o) \in Int /\ tokens[o] + (s - updated[o]) = Balance(o) + s
  BY <1>1 DEF Balance
<1>3. \/ (o \notin present \/ Balance(o) + s > FULL) /\ l = FULL
      \/ o \in present /\ Balance(o) + s <= FULL /\ l = Balance(o) + s
  BY <1>1, <1>2 DEF Level, Capped
<1>4. l \in Int
  BY <1>1, <1>2, <1>3
<1>5. /\ now' = now /\ home' = home /\ present' = present \cup {o}
      /\ tokens' = [tokens EXCEPT ![o] = IF Enough(l) THEN l - PERIOD ELSE l]
      /\ updated' = [updated EXCEPT ![o] = s]
      /\ Enough(l) =>
           /\ since' = [since EXCEPT ![o] = [a \in Times |->
                          IF a <= now THEN since[o][a] + PERIOD ELSE since[o][a]]]
           /\ due' = [due EXCEPT ![o] = {}]
      /\ ~Enough(l) =>
           /\ since' = since
           /\ due' = [due EXCEPT ![o] = due[o] \cup {s + SECOND * Wait(o, l)}]
  BY DEF Consume
<1> HIDE DEF l
<1>6. /\ tokens' \in [Owners -> Int] /\ updated' \in [Owners -> Int]
      /\ updated'[o] = s
      /\ Enough(l) => tokens'[o] = l - PERIOD
      /\ ~Enough(l) => tokens'[o] = l
  BY <1>1, <1>4, <1>5 DEF TypeOK
<1>7. /\ Enough(l) =>
           /\ \A a \in Times : since'[o][a] = IF a <= now THEN since[o][a] + PERIOD
                                                          ELSE since[o][a]
           /\ due'[o] = {}
      /\ ~Enough(l) =>
           /\ since' = since
           /\ due'[o] = due[o] \cup {s + SECOND * Wait(o, l)}
  BY <1>5 DEF TypeOK
<1>8. Enough(l) <=> l >= PERIOD
  BY DEF Enough
<1>9. CASE (o \notin present \/ Balance(o) + s > FULL) /\ l = FULL
  <2>1. Enough(l)
    BY <1>1, <1>8, <1>9
  <2>2. tokens'[o] - updated'[o] = (FULL - s) - PERIOD
    BY <2>1, <1>1, <1>6, <1>9
  <2> QED BY <2>1, <2>2, <1>5, <1>6, <1>7, <1>9
<1>10. CASE o \in present /\ Balance(o) + s <= FULL /\ l = Balance(o) + s
  <2>1. CASE Enough(l)
    <3>1. tokens'[o] - updated'[o] = Balance(o) - PERIOD /\ PERIOD <= Balance(o) + s
      BY <2>1, <1>1, <1>2, <1>6, <1>8, <1>10
    <3> QED BY <2>1, <3>1, <1>5, <1>6, <1>7, <1>10
  <2>2. CASE ~Enough(l)
    <3>1. tokens'[o] - updated'[o] = Balance(o) /\ Balance(o) + s < PERIOD
      BY <2>2, <1>1, <1>2, <1>6, <1>8, <1>10
    <3> QED BY <2>2, <3>1, <1>5, <1>6, <1>7, <1>10
  <2> QED BY <2>1, <2>2
<1> QED BY <1>3, <1>9, <1>10

\* What a check leaves alone: the other buckets.
LEMMA CheckFrame ==
  ASSUME TypeOK, NEW o \in Owners, NEW s \in Int, Consume(o, s), NEW p \in Owners, p # o
  PROVE  /\ tokens'[p] = tokens[p] /\ updated'[p] = updated[p]
         /\ since'[p] = since[p] /\ due'[p] = due[p]
         /\ p \in present' <=> p \in present
BY DEF TypeOK, Consume

\* The types of what the per-bucket conditions speak about.
LEMMA Types ==
  ASSUME TypeOK, NEW o \in Owners
  PROVE  /\ now \in Nat /\ now <= MaxTime /\ 0 .. now \subseteq Times /\ now \in 0 .. now
         /\ FULL \in Nat /\ PERIOD \in Nat /\ PERIOD >= 1 /\ FULL >= PERIOD
         /\ tokens[o] \in Int /\ updated[o] \in Int /\ Balance(o) \in Int
         /\ expires \in Nat /\ Ttl \in Nat
         /\ Behind(o) \in Nat /\ Ahead(o) \in Nat
         /\ \A a \in Times : since[o][a] \in Nat
         /\ due[o] \subseteq Int
BY FullType, TtlCovers, PeriodAssumption, ClockAssumption, BoundAssumption
   DEF TypeOK, Times, Balance, Behind, Ahead

\* No bucket exists yet.
LEMMA InitInvariant == ASSUME Init PROVE IInv
<1>1. TypeOK
  BY BoundAssumption DEF Init, TypeOK, Times
<1>2. Alive
  BY DEF Init, Alive
<1>3. ASSUME NEW o \in Owners PROVE Bucket(o)
  <2>1. now = 0 /\ present = {} /\ due[o] = {} /\ \A a \in Times : since[o][a] = 0
    BY DEF Init
  <2>2. 0 .. now \subseteq Times
    BY <1>1, Types
  <2> QED BY <2>1, <2>2
      DEF Bucket, NoFuture, GrantsArePaid, BalanceIsEarned, NoDebt, Promised
<1> QED BY <1>1, <1>2, <1>3 DEF IInv

\* A new process starts with a bucket that does not exist yet and has granted nothing.
LEMMA StartPreserves ==
  ASSUME IInv, NEW r \in Replicas, Start(r) PROVE IInv'
<1>1. TypeOK'
  BY DEF IInv, TypeOK, Start, Owners
<1>2. Alive'
  BY DEF IInv, Alive, Start, Ttl, CeilDiv
<1>3. ASSUME NEW o \in Owners PROVE Bucket(o)'
  <2>1. CASE o = r
    <3>1. /\ o \notin present' /\ due'[o] = {} /\ now' = now
          /\ \A a \in Times : since'[o][a] = 0
      BY <2>1 DEF IInv, TypeOK, Start, Owners
    <3>2. 0 .. now \subseteq Times
      BY Types DEF IInv
    <3> QED BY <3>1, <3>2
        DEF Bucket, NoFuture, GrantsArePaid, BalanceIsEarned, NoDebt, Promised
  <2>2. CASE o # r
    <3>1. /\ o \in present' <=> o \in present
          /\ due'[o] = due[o] /\ since'[o] = since[o]
          /\ UNCHANGED <<now, tokens, updated, expires>>
      BY <2>2 DEF IInv, TypeOK, Start, Owners
    <3>2. Bucket(o)
      BY DEF IInv
    <3> QED BY <3>1, <3>2
        DEF Bucket, NoFuture, GrantsArePaid, BalanceIsEarned, NoDebt, Promised,
            Worth, Balance, LastUsed, Level, Ttl
  <2> QED BY <2>1, <2>2
<1> QED BY <1>1, <1>2, <1>3 DEF IInv

\* When time passes a balance stays as it is.  A key that expires has gone unused for
\* as long as its bucket takes to refill, by anyone's clock.
LEMMA TickPreserves ==
  ASSUME IInv, Tick PROVE IInv'
<1>1. TypeOK'
  <2>1. now' \in Times /\ UNCHANGED <<home, tokens, updated, expires, since, due>>
    BY BoundAssumption DEF IInv, TypeOK, Tick, Times
  <2>2. present' \subseteq Owners
    BY DEF IInv, TypeOK, Tick
  <2> QED BY <2>1, <2>2 DEF IInv, TypeOK
<1>2. Alive'
  <2>1. "redis" \in present' => "redis" \in present /\ now + 1 < expires
    BY Types DEF IInv, TypeOK, Tick, Owners
  <2>2. expires \in Nat /\ now \in Nat /\ Ttl \in Nat /\ Ttl' = Ttl
    BY TtlCovers, Types DEF IInv, TypeOK, Times, Ttl, CeilDiv
  <2> QED BY <2>1, <2>2 DEF IInv, Alive, Tick
<1>3. ASSUME NEW o \in Owners PROVE Bucket(o)'
  <2>1. /\ now' = now + 1
        /\ UNCHANGED <<tokens, updated, expires, since, due>>
        /\ Balance(o)' = Balance(o)
        /\ o \in present' => o \in present
        /\ (o \in present /\ o \notin present') => o = "redis" /\ expires <= now + 1
    BY DEF Tick, Balance
  <2>2. /\ now \in Nat /\ now < MaxTime /\ 0 .. now \subseteq Times
        /\ FULL \in Nat /\ PERIOD \in Nat /\ FULL >= PERIOD /\ Balance(o) \in Int
        /\ expires \in Nat /\ Ttl \in Nat
        /\ Behind(o) \in Nat /\ Ahead(o) \in Nat
        /\ \A a \in Times : since[o][a] \in Nat
    BY Types DEF IInv, Tick
  <2>3. now + 1 \in Times /\ 0 .. now' \subseteq Times
    BY <2>1, <2>2, BoundAssumption DEF Times
  <2>4. TypeOK /\ Alive /\ Bucket(o)
    BY DEF IInv
  <2>5. NoFuture(o)'
    BY <2>1, <2>2, <2>4 DEF Bucket, NoFuture, Times
  <2>6. GrantsArePaid(o)'
    <3> SUFFICES ASSUME NEW a \in 0 .. now', since[o][a] # 0
                 PROVE  since[o][a] + Worth(o)' <= (FULL - a) + Behind(o)
      BY <2>1 DEF GrantsArePaid, FULL, Behind
    <3>1. a \in 0 .. now /\ a \in Times /\ a \in Nat
      BY <2>1, <2>2, <2>3, <2>4 DEF Bucket, NoFuture
    <3>2. since[o][a] \in Nat
      BY <2>2, <3>1
    <3>3. since[o][a] + Worth(o) <= (FULL - a) + Behind(o)
      BY <2>4, <3>1 DEF Bucket, GrantsArePaid
    <3>4. CASE o \in present'
      BY <2>1, <3>3, <3>4 DEF Worth
    <3>5. CASE o \notin present
      <4>1. Worth(o)' = FULL - ((now + 1) - Behind(o)) /\ Worth(o) = FULL - (now - Behind(o))
        BY <2>1, <3>5 DEF Worth, FULL, Behind
      <4> QED BY <2>2, <3>1, <3>2, <3>3, <4>1
    <3>6. CASE o \in present /\ o \notin present'
      <4>1. /\ Worth(o)' = FULL - ((now + 1) - Behind(o)) /\ Worth(o) = Balance(o)
            /\ Balance(o) + (expires - Ttl) + Ahead(o) >= 0
            /\ expires <= now + 1
        BY <2>1, <2>4, <3>6 DEF Worth, FULL, Behind, Bucket, NoDebt, LastUsed
      <4>2. Ttl >= FULL + (Behind(o) + Ahead(o))
        BY <2>1, <3>6, TtlCovers DEF Behind, Ahead
      <4> QED BY ONLY <2>2, <3>1, <3>2, <3>3, <4>1, <4>2
    <3> QED BY <2>1, <3>4, <3>5, <3>6
  <2>7. BalanceIsEarned(o)'
    <3> SUFFICES ASSUME o \in present'
                 PROVE  \E a \in 0 .. now' : since[o][a] + Balance(o) + a + Ahead(o) >= FULL
      BY <2>1 DEF BalanceIsEarned, FULL, Ahead
    <3>1. PICK a \in 0 .. now : since[o][a] + Balance(o) + a + Ahead(o) >= FULL
      BY <2>1, <2>4 DEF Bucket, BalanceIsEarned
    <3>2. a \in 0 .. now'
      BY <2>1, <2>2
    <3> QED BY <3>1, <3>2
  <2>8. NoDebt(o)'
    <3>1. Ttl' = Ttl /\ Ahead(o)' = Ahead(o)
      BY DEF Ttl, CeilDiv, Ahead
    <3>2. LastUsed(o)' \in Int /\ LastUsed(o) \in Int /\ LastUsed(o)' >= LastUsed(o)
      BY <2>1, <2>2, <3>1 DEF LastUsed
    <3>3. o \in present' => Balance(o) + LastUsed(o) + Ahead(o) >= 0
      BY <2>1, <2>4 DEF Bucket, NoDebt
    <3> QED BY <2>1, <2>2, <3>1, <3>2, <3>3 DEF NoDebt
  <2>9. Promised(o)'
    <3> SUFFICES ASSUME NEW stamp \in due[o]
                 PROVE  Enough(Level(o, stamp))'
      BY <2>1 DEF Promised
    <3>1. Enough(Level(o, stamp))
      BY <2>4 DEF Bucket, Promised
    <3>2. CASE o \in present'
      BY <2>1, <3>1, <3>2 DEF Level, Enough, Capped, FULL
    <3>3. CASE o \notin present'
      BY <2>2, <3>3 DEF Level, Enough, FULL
    <3> QED BY <3>2, <3>3
  <2> QED BY <2>5, <2>6, <2>7, <2>8, <2>9 DEF Bucket
<1> QED BY <1>1, <1>2, <1>3 DEF IInv

\* A check grants out of the balance, or denies and leaves the balance alone.
LEMMA CheckPreserves ==
  ASSUME IInv, NEW o \in Owners, NEW e \in Skews(o), Consume(o, now + e)
  PROVE  IInv'
<1> DEFINE s == now + e
<1> DEFINE B == Balance(o)
<1> DEFINE Bn == tokens'[o] - updated'[o]
<1> DEFINE Fresh == o \notin present \/ B + s > FULL
<1> DEFINE Pays == \A a \in Times : since'[o][a] = IF a <= now THEN since[o][a] + PERIOD
                                                               ELSE since[o][a]
<1>1. /\ now \in Nat /\ 0 .. now \subseteq Times /\ now \in 0 .. now
      /\ FULL \in Nat /\ PERIOD \in Nat /\ PERIOD >= 1 /\ FULL >= PERIOD /\ B \in Int
      /\ expires \in Nat /\ Ttl \in Nat
      /\ Behind(o) \in Nat /\ Ahead(o) \in Nat
      /\ \A a \in Times : since[o][a] \in Nat
      /\ due[o] \subseteq Int
  BY Types DEF IInv
<1>2. e \in Int /\ 0 - Behind(o) <= e /\ e <= Ahead(o)
  BY SkewType
<1>3. s \in Int /\ now - Behind(o) <= s /\ s <= now + Ahead(o)
  BY <1>1, <1>2
<1>4. TypeOK /\ Alive /\ Bucket(o)
  BY DEF IInv
<1> HIDE DEF s
<1>5. /\ now' = now /\ home' = home /\ present' = present \cup {o}
      /\ tokens' \in [Owners -> Int] /\ updated' \in [Owners -> Int]
      /\ \/ Fresh /\ Bn = (FULL - s) - PERIOD /\ Pays /\ due'[o] = {}
         \/ /\ o \in present /\ PERIOD <= B + s /\ B + s <= FULL
            /\ Bn = B - PERIOD /\ Pays /\ due'[o] = {}
         \/ /\ o \in present /\ B + s < PERIOD
            /\ Bn = B /\ since' = since
            /\ due'[o] = due[o] \cup {s + SECOND * Wait(o, B + s)}
  BY <1>3, <1>4, CheckEffect DEF s
<1>6. o \in present' /\ Balance(o)' = Bn /\ Bn \in Int
  BY <1>5 DEF Balance
<1>7. expires' = IF o = "redis" THEN now + Ttl ELSE expires
  BY DEF Consume
<1>8. /\ LastUsed(o)' = now
      /\ o \in present => LastUsed(o) <= now /\ LastUsed(o) \in Int
  <2>1. Ttl' = Ttl
    BY DEF Ttl, CeilDiv
  <2>2. o = "redis" /\ o \in present => expires <= now + Ttl
    BY <1>4 DEF Alive
  <2> QED BY <1>1, <1>5, <1>7, <2>1, <2>2 DEF LastUsed
<1> HIDE DEF B, Bn
<1>9. TypeOK'
  <2>1. present' \subseteq Owners /\ expires' \in Nat
    BY <1>1, <1>4, <1>5, <1>7 DEF TypeOK
  <2>2. due' \in [Owners -> SUBSET Int]
    <3>1. due' = [due EXCEPT ![o] = due'[o]]
      BY <1>4 DEF TypeOK, Consume
    <3>2. ~Enough(B + s) => SECOND * Wait(o, B + s) \in Nat
      BY <1>1, <1>3, WaitCovers
    <3>3. B + s < PERIOD => ~Enough(B + s)
      BY <1>1, <1>3 DEF Enough
    <3>4. due'[o] \subseteq Int
      BY <1>1, <1>3, <1>5, <3>2, <3>3
    <3> QED BY <1>4, <3>1, <3>4 DEF TypeOK
  <2>3. since' \in [Owners -> [Times -> Nat]]
    BY <1>1, <1>4 DEF TypeOK, Consume
  <2> QED BY <1>4, <1>5, <2>1, <2>2, <2>3 DEF TypeOK
<1>10. Alive'
  <2>1. CASE o = "redis"
    <3>1. expires' = now + Ttl /\ Ttl' = Ttl /\ Ttl >= 1
      BY <1>1, <1>7, <2>1, TtlCovers, ClockAssumption DEF Ttl, CeilDiv
    <3> QED BY <1>1, <1>5, <3>1 DEF Alive
  <2>2. CASE o # "redis"
    BY <1>4, <1>5, <1>7, <2>2 DEF Alive, Ttl, CeilDiv
  <2> QED BY <2>1, <2>2
<1>11. NoFuture(o)'
  <2>1. \A a \in Times : a > now => since[o][a] = 0
    BY <1>4 DEF Bucket, NoFuture
  <2> QED BY <1>1, <1>5, <2>1 DEF NoFuture, Times
<1>12. GrantsArePaid(o)'
  <2> SUFFICES ASSUME NEW a \in 0 .. now, since'[o][a] # 0
               PROVE  since'[o][a] + Bn <= (FULL - a) + Behind(o)
    BY <1>5, <1>6 DEF GrantsArePaid, Worth, FULL, Behind
  <2>1. a \in Times /\ a \in Nat /\ a <= now /\ since[o][a] \in Nat
    BY <1>1
  <2>2. since[o][a] = 0 \/ since[o][a] + Worth(o) <= (FULL - a) + Behind(o)
    BY <1>4 DEF Bucket, GrantsArePaid
  <2>3. Worth(o) = IF o \in present THEN B ELSE FULL - (now - Behind(o))
    BY DEF Worth, B
  <2>4. CASE Fresh /\ Bn = (FULL - s) - PERIOD /\ Pays
    <3>1. since'[o][a] = since[o][a] + PERIOD
      BY <2>1, <2>4
    <3>2. since[o][a] + (FULL - s) <= (FULL - a) + Behind(o)
      BY <1>1, <1>3, <2>1, <2>2, <2>3, <2>4
    <3> QED BY ONLY <1>1, <1>3, <2>1, <2>4, <3>1, <3>2
  <2>5. CASE o \in present /\ PERIOD <= B + s /\ B + s <= FULL /\ Bn = B - PERIOD /\ Pays
    <3>1. since'[o][a] = since[o][a] + PERIOD
      BY <2>1, <2>5
    <3>2. since[o][a] + B <= (FULL - a) + Behind(o)
      BY <1>1, <1>3, <2>1, <2>2, <2>3, <2>5
    <3> QED BY <1>1, <2>1, <2>5, <3>1, <3>2
  <2>6. CASE o \in present /\ Bn = B /\ since' = since
    BY <2>2, <2>3, <2>6
  <2> QED BY <1>5, <2>4, <2>5, <2>6
<1>13. BalanceIsEarned(o)'
  <2> SUFFICES \E a \in 0 .. now : since'[o][a] + Bn + a + Ahead(o) >= FULL
    BY <1>5, <1>6 DEF BalanceIsEarned, FULL, Ahead
  <2>1. CASE Bn = (FULL - s) - PERIOD /\ Pays
    <3>1. since'[o][now] = since[o][now] + PERIOD /\ since[o][now] \in Nat
      BY <1>1, <2>1
    <3>2. since'[o][now] + Bn + now + Ahead(o) >= FULL
      BY <1>1, <1>3, <2>1, <3>1
    <3> QED BY <1>1, <3>2
  <2>2. CASE o \in present /\ Bn = B - PERIOD /\ Pays
    <3>1. PICK a \in 0 .. now : since[o][a] + B + a + Ahead(o) >= FULL
      BY <1>4, <2>2 DEF Bucket, BalanceIsEarned, B
    <3>2. since'[o][a] = since[o][a] + PERIOD /\ since[o][a] \in Nat /\ a \in Nat
      BY <1>1, <2>2
    <3> QED BY <1>1, <2>2, <3>1, <3>2
  <2>3. CASE o \in present /\ Bn = B /\ since' = since
    BY <1>4, <2>3 DEF Bucket, BalanceIsEarned, B
  <2> QED BY <1>5, <2>1, <2>2, <2>3
<1>14. NoDebt(o)'
  <2> SUFFICES Bn + now + Ahead(o) >= 0
    BY <1>6, <1>8 DEF NoDebt, Ahead
  <2>1. CASE Bn = (FULL - s) - PERIOD
    BY <1>1, <1>3, <2>1
  <2>2. CASE PERIOD <= B + s /\ Bn = B - PERIOD
    BY <1>1, <1>3, <2>2
  <2>3. CASE o \in present /\ Bn = B
    <3>1. B + LastUsed(o) + Ahead(o) >= 0
      BY <1>4, <2>3 DEF Bucket, NoDebt, B
    <3> QED BY <1>1, <1>8, <2>3, <3>1
  <2> QED BY <1>5, <2>1, <2>2, <2>3
<1>15. Promised(o)'
  <2>1. CASE due'[o] = {}
    BY <2>1 DEF Promised
  <2>2. CASE /\ o \in present /\ B + s < PERIOD /\ Bn = B
             /\ due'[o] = due[o] \cup {s + SECOND * Wait(o, B + s)}
    <3>1. ASSUME NEW n \in Int
          PROVE  Enough(Level(o, n))' <=> B + n >= PERIOD
      <4>1. tokens'[o] + (n - updated'[o]) = B + n
        BY <1>1, <1>4, <1>5, <1>6, <2>2 DEF Bn
      <4> QED BY <1>1, <1>6, <4>1 DEF Level, Enough, Capped, FULL
    <3>2. ASSUME NEW n \in Int
          PROVE  Enough(Level(o, n)) <=> B + n >= PERIOD
      <4>1. tokens[o] + (n - updated[o]) = B + n
        BY <1>4 DEF B, Balance, TypeOK
      <4> QED BY <1>1, <2>2, <4>1 DEF Level, Enough, Capped
    <3>3. \A n \in due[o] : B + n >= PERIOD
      BY <1>1, <1>4, <3>2 DEF Bucket, Promised
    <3>4. SECOND * Wait(o, B + s) \in Nat /\ (B + s) + SECOND * Wait(o, B + s) >= PERIOD
      <4>1. B + s \in Int /\ ~Enough(B + s)
        BY <1>1, <1>3, <2>2 DEF Enough
      <4> QED BY <4>1, WaitCovers
    <3>5. \A n \in due'[o] : n \in Int /\ B + n >= PERIOD
      BY <1>1, <1>3, <2>2, <3>3, <3>4
    <3> QED BY <3>1, <3>5 DEF Promised
  <2> QED BY <1>5, <2>1, <2>2
<1>16. ASSUME NEW p \in Owners, p # o PROVE Bucket(p)'
  <2>1. /\ tokens'[p] = tokens[p] /\ updated'[p] = updated[p]
        /\ since'[p] = since[p] /\ due'[p] = due[p]
        /\ p \in present' <=> p \in present
    BY <1>3, <1>4, <1>16, CheckFrame DEF s
  <2>2. p = "redis" => expires' = expires
    BY <1>7, <1>16
  <2>3. Bucket(p)
    BY DEF IInv
  <2> QED BY <1>5, <2>1, <2>2, <2>3
      DEF Bucket, NoFuture, GrantsArePaid, BalanceIsEarned, NoDebt, Promised,
          Worth, Balance, LastUsed, Level, Ttl
<1>17. Bucket(o)'
  BY <1>11, <1>12, <1>13, <1>14, <1>15 DEF Bucket
<1> QED BY <1>9, <1>10, <1>16, <1>17 DEF IInv

\* Every step keeps the invariant.
LEMMA NextPreserves ==
  ASSUME IInv, [Next]_vars PROVE IInv'
<1>1. CASE Tick
  BY <1>1, TickPreserves
<1>2. ASSUME NEW r \in Replicas, Start(r) PROVE IInv'
  BY <1>2, StartPreserves
<1>3. ASSUME NEW r \in Replicas, Check(r) PROVE IInv'
  <2>1. home[r] \in Owners
    BY DEF IInv, TypeOK
  <2> QED BY <1>3, <2>1, CheckPreserves DEF Check
<1>4. CASE UNCHANGED vars
  BY <1>4 DEF vars, IInv, TypeOK, Alive, Bucket, NoFuture, GrantsArePaid, BalanceIsEarned,
              NoDebt, Promised, Worth, Balance, LastUsed, Level, Ttl
<1>5. ASSUME NEW r \in Replicas, CheckFails(r) PROVE IInv'
  <2>1. "redis" \in Owners
    BY DEF Owners
  <2> QED BY <1>4, <1>5, <2>1, CheckPreserves DEF CheckFails
<1> QED BY <1>1, <1>2, <1>3, <1>4, <1>5 DEF Next

\* The invariant holds in every reachable state.
THEOREM Inductive == Spec => []IInv
BY InitInvariant, NextPreserves, PTL DEF Spec

----------------------------------------------------------------------------
(* What it shows.                                                          *)

\* Every variable stays within its type.
THEOREM TypeCorrect == Spec => []TypeOK
<1>1. IInv => TypeOK
  BY DEF IInv
<1> QED BY <1>1, Inductive, PTL

\* A balance has no debt at a stamp that has passed, so what was granted since any
\* moment is at most a burst, the time since and the clocks' spread.
THEOREM Limit == Spec => []LimitUpToSpread
<1>1. ASSUME IInv, NEW o \in Owners, NEW a \in 0 .. now
      PROVE  since[o][a] <= FULL + (now - a) + Spread(o)
  <2>1. /\ now \in Nat /\ a \in Times /\ a \in Nat /\ a <= now
        /\ FULL \in Nat /\ expires \in Nat /\ Ttl \in Nat /\ Balance(o) \in Int
        /\ Behind(o) \in Nat /\ Ahead(o) \in Nat /\ since[o][a] \in Nat
    BY <1>1, Types DEF IInv
  <2>2. Alive /\ NoDebt(o) /\ GrantsArePaid(o)
    BY <1>1 DEF IInv, Bucket
  <2>3. o \in present => LastUsed(o) <= now /\ LastUsed(o) \in Int
    BY <2>1, <2>2 DEF Alive, LastUsed
  <2>4. Worth(o) \in Int /\ Worth(o) + now + Ahead(o) >= 0
    <3>1. CASE o \in present
      <4>1. Balance(o) + LastUsed(o) + Ahead(o) >= 0 /\ Worth(o) = Balance(o)
        BY <2>2, <3>1 DEF NoDebt, Worth
      <4> QED BY <2>1, <2>3, <3>1, <4>1
    <3>2. CASE o \notin present
      <4>1. Worth(o) = FULL - (now - Behind(o))
        BY <3>2 DEF Worth
      <4> QED BY <2>1, <4>1
    <3> QED BY <3>1, <3>2
  <2>5. since[o][a] = 0 \/ since[o][a] + Worth(o) <= (FULL - a) + Behind(o)
    BY <2>2 DEF GrantsArePaid
  <2> QED BY <2>1, <2>4, <2>5 DEF Spread
<1>2. IInv => LimitUpToSpread
  BY <1>1 DEF LimitUpToSpread
<1> QED BY <1>2, Inductive, PTL

\* What is missing from a bucket that denies was granted since some moment.
THEOREM Earned == Spec => []DenialsAreEarned
<1>1. ASSUME IInv, NEW o \in Owners, NEW e \in Skews(o), ~Enough(Level(o, now + e))
      PROVE  \E a \in 0 .. now : since[o][a] + PERIOD > FULL + (now - a) - Spread(o)
  <2>1. /\ now \in Nat /\ 0 .. now \subseteq Times
        /\ FULL \in Nat /\ PERIOD \in Nat /\ FULL >= PERIOD /\ Balance(o) \in Int
        /\ tokens[o] \in Int /\ updated[o] \in Int
        /\ Behind(o) \in Nat /\ Ahead(o) \in Nat
        /\ \A a \in Times : since[o][a] \in Nat
    BY <1>1, Types DEF IInv
  <2>2. e \in Int /\ 0 - Behind(o) <= e /\ e <= Ahead(o)
    BY SkewType
  <2>3. o \in present
    BY <1>1, <2>1 DEF Level, Enough
  <2>4. Balance(o) + (now + e) < PERIOD
    <3>1. tokens[o] + ((now + e) - updated[o]) = Balance(o) + (now + e)
      BY <2>1, <2>2 DEF Balance
    <3>2. Level(o, now + e) = Capped(Balance(o) + (now + e))
      BY <2>3, <3>1 DEF Level
    <3> QED BY <1>1, <2>1, <2>2, <3>2 DEF Enough, Capped
  <2>5. PICK a \in 0 .. now : since[o][a] + Balance(o) + a + Ahead(o) >= FULL
    BY <1>1, <2>3 DEF IInv, Bucket, BalanceIsEarned
  <2>6. since[o][a] \in Nat /\ a \in Nat
    BY <2>1
  <2>7. since[o][a] + PERIOD > FULL + (now - a) - Spread(o)
    <3> HIDE DEF Spread
    <3>1. Spread(o) = Behind(o) + Ahead(o)
      BY DEF Spread
    <3> QED BY <2>1, <2>2, <2>4, <2>5, <2>6, <3>1
  <2> QED BY <2>7
<1>2. IInv => DenialsAreEarned
  BY <1>1 DEF DenialsAreEarned
<1> QED BY <1>2, Inductive, PTL

\* A client that waits as long as it was told finds a token, by the clock it was told by.
THEOREM RetryAfter == Spec => []RetryAfterSuffices
<1>1. IInv => RetryAfterSuffices
  BY DEF IInv, Bucket, Promised, RetryAfterSuffices
<1> QED BY <1>1, Inductive, PTL
=============================================================================
