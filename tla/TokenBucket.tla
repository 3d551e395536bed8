---------------------------- MODULE TokenBucket ----------------------------
(***************************************************************************)
(* services/telemetry-collector/collector/rate_limit.py: the buckets of    *)
(* one client.  A replica that reached Redis when it started uses the      *)
(* bucket in Redis, shared with the others; one that did not keeps a       *)
(* bucket of its own until it is restarted (main.py lifespan).             *)
(*                                                                         *)
(* Time is counted in ticks, SECOND of them to a second.  One token takes  *)
(* PERIOD ticks to refill and tokens are counted in ticks of refill, so    *)
(* one request costs PERIOD and the arithmetic is exact.                   *)
(*                                                                         *)
(* The Lua script gets the caller's time.time(): its stamp differs from    *)
(* the time it runs at by the replica's clock error and by what the call   *)
(* took to get there.  Redis expires the key by its own clock.             *)
(***************************************************************************)
EXTENDS Integers, FiniteSets

CONSTANTS
  Replicas,      \* collector processes
  CAPACITY,      \* rate_limit_burst
  PERIOD,        \* ticks per token: 60 / rate_limit_requests_per_minute seconds
  SECOND,        \* ticks per second
  TTL_MARGIN,    \* the 60 seconds in EXPIRE
  EARLY, LATE,   \* the furthest a stamp is behind and ahead of the time it is used
  MaxTime        \* bound: ticks

ASSUME CapacityAssumption == CAPACITY \in Nat \ {0}
ASSUME PeriodAssumption   == PERIOD \in Nat \ {0} /\ SECOND \in Nat \ {0}
ASSUME RedisAssumption    == "redis" \notin Replicas
ASSUME ClockAssumption    == EARLY \in Nat /\ LATE \in Nat
\* Clocks agree to within the margin EXPIRE adds to a bucket's refill time.
ASSUME MarginAssumption   == TTL_MARGIN \in Nat /\ EARLY + LATE <= SECOND * TTL_MARGIN
ASSUME BoundAssumption    == MaxTime \in Nat

FULL   == CAPACITY * PERIOD
Owners == Replicas \cup {"redis"}
Times  == 0 .. MaxTime

\* What time.time(), or time.monotonic() for a bucket in memory, may read at now.
Skews(o) == IF o = "redis" THEN 0 - EARLY .. LATE ELSE {0}
Behind(o) == IF o = "redis" THEN EARLY ELSE 0
Ahead(o)  == IF o = "redis" THEN LATE ELSE 0

VARIABLES
  now,       \* the time, and the clock of Redis
  home,      \* replica -> owner of the bucket it uses: app.state.rate_limiter
  present,   \* owners whose bucket exists
  tokens,    \* owner -> tokens
  updated,   \* owner -> updated
  expires,   \* the time Redis drops the key
  since,     \* owner -> time -> what the bucket granted from that time on (history)
  due        \* owner -> the stamps at which denied requests were told to come back,
             \* until the next grant (history)

vars == <<now, home, present, tokens, updated, expires, since, due>>

----------------------------------------------------------------------------
CeilDiv(a, b) == (a + b - 1) \div b
AtLeast1(n) == IF n < 1 THEN 1 ELSE n

Capped(n) == IF n > FULL THEN FULL ELSE n

\* Faulty variant of Level: only whole tokens refill, and the rest of the time is lost.
RefillsWhole(o, stamp) ==
  IF o \in present
  THEN Capped(tokens[o] + PERIOD * ((stamp - updated[o]) \div PERIOD))
  ELSE FULL

\* Faulty variant of Level: the refill of a stamp in the past is not taken back.
NeverDrains(o, stamp) ==
  IF o \in present
  THEN Capped(tokens[o] + (IF stamp < updated[o] THEN 0 ELSE stamp - updated[o]))
  ELSE FULL

\* The tokens in a bucket at a stamp.
Level(o, stamp) ==
  IF o \in present THEN Capped(tokens[o] + (stamp - updated[o])) ELSE FULL

Enough(level) == level >= PERIOD

\* EXPIRE: math.ceil(capacity / rate) + 60 seconds.
Ttl == SECOND * (CeilDiv(FULL, SECOND) + TTL_MARGIN)

\* Faulty variant of Wait: the wait is rounded down.
WaitRoundedDown(o, level) == AtLeast1((PERIOD - level) \div SECOND)

\* retry_after_seconds of a denial.
Wait(o, level) ==
  IF o = "redis" THEN AtLeast1(CeilDiv(PERIOD - level, SECOND))
                 ELSE AtLeast1((PERIOD - level) \div SECOND + 1)

----------------------------------------------------------------------------
Init ==
  /\ now = 0
  /\ home \in [Replicas -> Owners] /\ \A r \in Replicas : home[r] \in {r, "redis"}
  /\ present = {}
  /\ tokens = [o \in Owners |-> 0]
  /\ updated = [o \in Owners |-> 0]
  /\ expires = 0
  /\ since = [o \in Owners |-> [a \in Times |-> 0]]
  /\ due = [o \in Owners |-> {}]

\* Time passes, and Redis drops a key whose time has come.
Tick ==
  /\ now < MaxTime
  /\ now' = now + 1
  /\ present' = IF expires <= now + 1 THEN present \ {"redis"} ELSE present
  /\ UNCHANGED <<home, tokens, updated, expires, since, due>>

\* A replica is started again: build_rate_limiter() gives it the bucket in Redis
\* if the ping succeeded, and one of its own, with nothing in it yet, if not.
Start(r) ==
  /\ \E o \in {r, "redis"} : home' = [home EXCEPT ![r] = o]
  /\ present' = present \ {r}
  /\ since' = [since EXCEPT ![r] = [a \in Times |-> 0]]
  /\ due' = [due EXCEPT ![r] = {}]
  /\ UNCHANGED <<now, tokens, updated, expires>>

\* The script, or InMemoryTokenBucket.check(), at a stamp: both refill, take one
\* token if there is one, and store what is left and the stamp either way.
Consume(o, stamp) ==
  LET level   == Level(o, stamp)
      granted == Enough(level)
  IN /\ present' = present \cup {o}
     /\ tokens' = [tokens EXCEPT ![o] = IF granted THEN level - PERIOD ELSE level]
     /\ updated' = [updated EXCEPT ![o] = stamp]
     /\ expires' = IF o = "redis" THEN now + Ttl ELSE expires
     /\ since' = IF granted
                 THEN [since EXCEPT ![o] = [a \in Times |->
                         IF a <= now THEN since[o][a] + PERIOD ELSE since[o][a]]]
                 ELSE since
     /\ due' = [due EXCEPT ![o] =
                  IF granted THEN {} ELSE @ \cup {stamp + SECOND * Wait(o, level)}]
     /\ UNCHANGED <<now, home>>

\* check() on a replica.
Check(r) == \E e \in Skews(home[r]) : Consume(home[r], now + e)

\* check() of RedisTokenBucket raises: the request is let through, whether the
\* script ran and its answer was lost or it never ran.
CheckFails(r) ==
  /\ home[r] = "redis"
  /\ \/ \E e \in Skews("redis") : Consume("redis", now + e)
     \/ UNCHANGED vars

Next ==
  \/ Tick
  \/ \E r \in Replicas : Start(r) \/ Check(r) \/ CheckFails(r)

Spec == Init /\ [][Next]_vars

----------------------------------------------------------------------------
(* Properties.                                                             *)

\* A bucket's owner is a replica or Redis, and its tokens and stamp may be negative:
\* a stamp in the past drains it.
TypeOK ==
  /\ now \in Times
  /\ home \in [Replicas -> Owners]
  /\ \A r \in Replicas : home[r] \in {r, "redis"}
  /\ present \subseteq Owners
  /\ tokens \in [Owners -> Int]
  /\ updated \in [Owners -> Int]
  /\ expires \in Nat
  /\ since \in [Owners -> [Times -> Nat]]
  /\ due \in [Owners -> SUBSET Int]

Spread(o) == Behind(o) + Ahead(o)

\* From any moment on, a bucket grants at most a burst and what refills since, plus
\* what the clocks of the replicas disagree by: expiry of the key, requests that run
\* out of order and clocks that jump back do not let the same interval refill twice.
LimitUpToSpread ==
  \A o \in Owners : \A a \in 0 .. now : since[o][a] <= FULL + (now - a) + Spread(o)

\* A request that would be denied now has earned it: from some moment on the bucket
\* granted so much that one more breaks the limit, or comes within the clocks'
\* disagreement of it.  No token is lost to expiry, rounding or reordering.
DenialsAreEarned ==
  \A o \in Owners : \A e \in Skews(o) :
    ~Enough(Level(o, now + e)) =>
      \E a \in 0 .. now : since[o][a] + PERIOD > FULL + (now - a) - Spread(o)

\* Coming back after retry_after_seconds by the same clock succeeds, whatever other
\* requests were denied meanwhile.
RetryAfterSuffices ==
  \A o \in Owners : \A stamp \in due[o] : Enough(Level(o, stamp))
=============================================================================
