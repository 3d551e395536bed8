----------------------- MODULE AnomalyDetector_proofs -----------------------
(***************************************************************************)
(* The bounded history is what it should be, for every baseline length and *)
(* every stream of rollups: a fixed suffix of what the detector was given. *)
(* That the evidence of an anomaly is the past of its window follows.      *)
(*                                                                         *)
(* The z-score is bounded from both sides, for every history: a value that *)
(* is a given number of standard deviations from the mean is rare in the   *)
(* history, and one far enough outside the range of the history is that    *)
(* many standard deviations from the mean.                                 *)
(***************************************************************************)
EXTENDS AnomalyDetector, SequenceTheorems, FiniteSetTheorems, WellFoundedInduction, TLAPS

\* A rollup carries one natural number per metric.
LEMMA ObservationType ==
  ASSUME NEW r \in Rollup, NEW m \in Metrics PROVE r.obs[m] \in Nat
BY ObservationAssumption DEF Rollup

\* Appending leaves the elements before it where they are.
LEMMA AppendKeeps ==
  ASSUME NEW S, NEW q \in Seq(S), NEW r \in S
  PROVE  /\ Append(q, r) \in Seq(S) /\ Len(Append(q, r)) = Len(q) + 1
         /\ \A i \in 1 .. Len(q) : Append(q, r)[i] = q[i]
         /\ Append(q, r)[Len(q) + 1] = r
OBVIOUS

\* append() on the deque gives a history of at most BASELINE values.
LEMMA PushType ==
  ASSUME NEW h \in Seq(Nat), NEW x \in Nat PROVE Push(h, x) \in Seq(Nat)
<1>1. CASE Len(h) < BASELINE
  BY <1>1 DEF Push
<1>2. CASE ~(Len(h) < BASELINE)
  <2>1. h # <<>>
    BY <1>2, BaselineAssumption
  <2>2. Tail(h) \in Seq(Nat)
    BY <2>1
  <2> QED BY <1>2, <2>2 DEF Push
<1> QED BY <1>1, <1>2

\* One more value: a history that was full forgets one more.
LEMMA ForgottenStep ==
  ASSUME NEW k \in Nat,
         NEW d \in {0, 1}, d = 0 <=> k - Forgotten(k) < BASELINE
  PROVE  Forgotten(k + 1) = Forgotten(k) + d
<1>1. CASE k < BASELINE
  BY <1>1, BaselineAssumption DEF Forgotten
<1>2. CASE k = BASELINE
  BY <1>2, BaselineAssumption DEF Forgotten
<1>3. CASE k > BASELINE
  BY <1>3, BaselineAssumption DEF Forgotten
<1> QED BY <1>1, <1>2, <1>3, BaselineAssumption

\* How many values Recent keeps, and where it finds them.
LEMMA RecentType ==
  ASSUME NEW s \in Services, NEW m \in Metrics, TypeOK, NEW n \in 0 .. Len(seen[s])
  PROVE  /\ Forgotten(n) \in 0 .. n /\ n - Forgotten(n) <= BASELINE
         /\ Recent(s, m, n) \in Seq(Nat)
         /\ Len(Recent(s, m, n)) = n - Forgotten(n)
<1>1. n \in Nat /\ seen[s] \in Seq(Rollup)
  BY DEF TypeOK
<1>2. Forgotten(n) \in 0 .. n /\ n - Forgotten(n) <= BASELINE
  BY <1>1, BaselineAssumption DEF Forgotten
<1>3. \A i \in 1 .. n - Forgotten(n) : Forgotten(n) + i \in 1 .. Len(seen[s])
  BY <1>1, <1>2
<1>4. \A i \in 1 .. n - Forgotten(n) : seen[s][Forgotten(n) + i].obs[m] \in Nat
  <2>1. \A i \in 1 .. n - Forgotten(n) : seen[s][Forgotten(n) + i] \in Rollup
    BY <1>1, <1>3
  <2> QED BY <2>1, ObservationType
<1>5. n - Forgotten(n) \in Nat
  BY <1>1, <1>2
<1> QED BY <1>2, <1>4, <1>5 DEF Recent

\* The rollups a service was given before the n-th fix the history the n-th is
\* scored against: later rollups do not change it.
LEMMA RecentIsStable ==
  ASSUME NEW s \in Services, NEW m \in Metrics, TypeOK,
         NEW t \in Services, NEW r \in Rollup,
         seen' = [seen EXCEPT ![t] = Append(@, r)],
         NEW n \in 0 .. Len(seen[s])
  PROVE  Recent(s, m, n)' = Recent(s, m, n)
<1>1. \A i \in 1 .. n : seen'[s][i] = seen[s][i]
  <2>1. seen[s] \in Seq(Rollup) /\ Len(seen[s]) \in Nat /\ n \in Nat /\ n <= Len(seen[s])
    BY DEF TypeOK
  <2>2. seen'[s] = IF s = t THEN Append(seen[s], r) ELSE seen[s]
    BY DEF TypeOK
  <2>3. \A i \in 1 .. n : i \in 1 .. Len(seen[s])
    BY <2>1
  <2> QED BY <2>1, <2>2, <2>3, AppendKeeps
<1>2. \A i \in 1 .. n - Forgotten(n) : Forgotten(n) + i \in 1 .. n
  BY RecentType
<1> QED BY <1>1, <1>2 DEF Recent

\* Recent after a step, spelled out.
LEMMA RecentNext ==
  ASSUME NEW s, NEW m, NEW k
  PROVE  Recent(s, m, k)' =
           [i \in 1 .. k - Forgotten(k) |-> seen'[s][Forgotten(k) + i].obs[m]]
BY DEF Recent

\* What append() leaves: the newest value at the end, the others moved by one
\* place when the deque was full.
LEMMA PushElements ==
  ASSUME NEW h \in Seq(Nat), NEW x \in Nat, Len(h) <= BASELINE,
         NEW d \in {0, 1}, d = 0 <=> Len(h) < BASELINE
  PROVE  /\ Push(h, x) \in Seq(Nat) /\ Len(Push(h, x)) = (Len(h) - d) + 1
         /\ \A i \in 1 .. Len(h) - d : Push(h, x)[i] = h[i + d]
         /\ Push(h, x)[(Len(h) - d) + 1] = x
<1>1. CASE Len(h) < BASELINE
  BY <1>1, AppendKeeps DEF Push
<1>2. CASE ~(Len(h) < BASELINE)
  <2>1. h # <<>> /\ Len(h) >= 1
    BY <1>2, BaselineAssumption
  <2>2. /\ Tail(h) \in Seq(Nat) /\ Len(Tail(h)) = Len(h) - 1
        /\ \A i \in 1 .. Len(h) - 1 : Tail(h)[i] = h[i + 1]
    BY <2>1
  <2>3. Push(h, x) = Append(Tail(h), x)
    BY <1>2 DEF Push
  <2>4. d = 1
    BY <1>2
  <2> DEFINE g == Tail(h)
  <2>5. g \in Seq(Nat) /\ Len(g) \in Nat /\ Len(g) = Len(h) - 1
    BY <2>2
  <2> HIDE DEF g
  <2>6. /\ Append(g, x) \in Seq(Nat) /\ Len(Append(g, x)) = Len(g) + 1
        /\ \A i \in 1 .. Len(g) : Append(g, x)[i] = g[i]
        /\ Append(g, x)[Len(g) + 1] = x
    BY <2>5
  <2>7. Push(h, x) = Append(g, x) /\ Len(g) = Len(h) - d
    BY <2>3, <2>4, <2>5 DEF g
  <2>8. Push(h, x) \in Seq(Nat) /\ Len(Push(h, x)) = (Len(h) - d) + 1
    BY <2>6, <2>7
  <2>9. \A i \in 1 .. Len(h) - d : Push(h, x)[i] = h[i + d]
    <3>1. \A i \in 1 .. Len(h) - d : g[i] = h[i + d]
      BY <2>2, <2>4 DEF g
    <3> QED BY <2>6, <2>7, <3>1
  <2>10. Push(h, x)[(Len(h) - d) + 1] = x
    BY <2>6, <2>7
  <2> QED BY <2>8, <2>9, <2>10
<1> QED BY <1>1, <1>2

\* The places of a value in q, in the history of all but its first f values, and
\* in the history after d of these were forgotten and one was added.
LEMMA Places ==
  ASSUME NEW a \in Nat, NEW f \in Nat, f <= a, NEW b \in Nat, b = a - f,
         NEW d \in {0, 1}, NEW k \in Nat, k = f + d,
         NEW c \in Nat, c = (a + 1) - k, NEW i \in 1 .. c
  PROVE  /\ c = (b - d) + 1
         /\ i = c => k + i = a + 1
         /\ i # c => /\ i \in 1 .. b - d /\ i + d \in 1 .. b
                     /\ k + i \in 1 .. a /\ f + (i + d) = k + i
OBVIOUS

\* A function on an interval from 1 is a sequence.
LEMMA FunctionIsSeq ==
  ASSUME NEW N \in Nat, NEW F \in [1 .. N -> Nat] PROVE F \in Seq(Nat) /\ Len(F) = N
OBVIOUS

\* The history after evaluate() is again the last BASELINE observations.
LEMMA PushKeepsTheSuffix ==
  ASSUME NEW s \in Services, NEW m \in Metrics, TypeOK, NEW r \in Rollup,
         seen' = [seen EXCEPT ![s] = Append(@, r)],
         NEW n \in Nat, n = Len(seen[s])
  PROVE  Push(Recent(s, m, n), r.obs[m]) = Recent(s, m, n + 1)'
<1> DEFINE q == [i \in 1 .. n |-> seen[s][i].obs[m]]
           f == Forgotten(n)
           k == Forgotten(n + 1)
           d == k - f
           h == Recent(s, m, n)
           g == Recent(s, m, n + 1)'
           x == r.obs[m]
<1>1. /\ seen[s] \in Seq(Rollup) /\ seen'[s] = Append(seen[s], r)
      /\ x \in Nat
  BY ObservationType DEF TypeOK
<1>2. q \in Seq(Nat) /\ Len(q) = n
  <2>1. \A i \in 1 .. n : seen[s][i] \in Rollup
    BY <1>1
  <2> QED BY <2>1, ObservationType
<1>3. /\ f \in Nat /\ f <= n /\ n - f <= BASELINE
      /\ h \in Seq(Nat) /\ Len(h) = n - f
  BY <1>1, RecentType
<1>4. d \in {0, 1} /\ (d = 0 <=> n - f < BASELINE) /\ k = f + d /\ k \in Nat
  BY <1>3, ForgottenStep
<1>5. ASSUME NEW i \in 1 .. Len(h) PROVE h[i] = q[f + i]
  <2>1. i \in 1 .. n - Forgotten(n) /\ f + i \in 1 .. n
    BY <1>3
  <2>2. h[i] = seen[s][f + i].obs[m]
    BY <2>1 DEF Recent
  <2> QED BY <2>1, <2>2
<1>6. g = [i \in 1 .. (n + 1) - k |-> seen'[s][k + i].obs[m]]
  BY RecentNext
<1> HIDE DEF q, f, k, d, h, g, x
<1>7. (n + 1) - k \in Nat
  BY <1>3, <1>4
<1>8. ASSUME NEW i \in 1 .. (n + 1) - k
      PROVE  seen'[s][k + i].obs[m] = Append(q, x)[k + i] /\ Append(q, x)[k + i] \in Nat
  <2>0. k + i \in 1 .. n + 1
    BY <1>3, <1>4
  <2>1. CASE k + i = n + 1
    BY <2>1, <1>1, <1>2, AppendKeeps DEF x
  <2>2. CASE k + i # n + 1
    <3>1. k + i \in 1 .. n
      BY <2>0, <2>2
    <3>2. seen'[s][k + i] = seen[s][k + i]
      BY <3>1, <1>1, AppendKeeps
    <3>3. Append(q, x)[k + i] = q[k + i] /\ q[k + i] \in Nat
      BY <3>1, <1>1, <1>2, AppendKeeps
    <3>4. q[k + i] = seen[s][k + i].obs[m]
      BY <3>1 DEF q
    <3> QED BY <3>2, <3>3, <3>4
  <2> QED BY <2>1, <2>2
<1>9. /\ g \in Seq(Nat) /\ Len(g) = (n + 1) - k
       /\ \A i \in 1 .. Len(g) : g[i] = Append(q, x)[k + i]
  <2>1. \A i \in 1 .. (n + 1) - k : seen'[s][k + i].obs[m] \in Nat
    BY <1>8
  <2>2. g \in Seq(Nat) /\ Len(g) = (n + 1) - k
    <3>1. g \in [1 .. (n + 1) - k -> Nat]
      BY <2>1, <1>6
    <3> QED BY <3>1, <1>7, FunctionIsSeq
  <2>3. \A i \in 1 .. (n + 1) - k : g[i] = seen'[s][k + i].obs[m]
    BY <1>6
  <2> QED BY <2>2, <2>3, <1>8
<1>10. /\ Push(h, x) \in Seq(Nat) /\ Len(Push(h, x)) = (Len(h) - d) + 1
       /\ \A i \in 1 .. Len(h) - d : Push(h, x)[i] = h[i + d]
       /\ Push(h, x)[(Len(h) - d) + 1] = x
  <2>1. h \in Seq(Nat) /\ x \in Nat /\ Len(h) <= BASELINE /\ d \in {0, 1}
    BY <1>1, <1>3, <1>4
  <2>2. d = 0 <=> Len(h) < BASELINE
    BY <1>3, <1>4
  <2> QED BY ONLY <2>1, <2>2, PushElements
<1>11. /\ Len(g) \in Nat /\ Len(h) \in Nat
       /\ f \in Nat /\ f <= n /\ Len(h) = n - f
       /\ d \in {0, 1} /\ k \in Nat /\ k = f + d /\ Len(g) = (n + 1) - k
  BY <1>3, <1>4, <1>7, <1>9
<1>12. Len(g) = (Len(h) - d) + 1
  BY ONLY <1>11, n \in Nat
<1>13. ASSUME NEW i \in 1 .. Len(g) PROVE Push(h, x)[i] = g[i]
  <2>1. /\ i = Len(g) => k + i = n + 1
        /\ i # Len(g) => /\ i \in 1 .. Len(h) - d /\ i + d \in 1 .. Len(h)
                         /\ k + i \in 1 .. n /\ f + (i + d) = k + i
    <3>1. i \in 1 .. Len(g) /\ n \in Nat
      OBVIOUS
    <3> QED BY ONLY <1>11, <3>1, Places
  <2>2. CASE i = Len(g)
    <3>1. Push(h, x)[i] = x
      BY <2>2, <1>10, <1>12
    <3>2. Append(q, x)[n + 1] = x
      BY <1>1, <1>2, AppendKeeps
    <3> QED BY <2>1, <2>2, <3>1, <3>2, <1>9
  <2>3. CASE i # Len(g)
    <3>1. Append(q, x)[k + i] = q[k + i]
      BY <2>1, <2>3, <1>1, <1>2, AppendKeeps
    <3>2. Push(h, x)[i] = h[i + d]
      BY <2>1, <2>3, <1>10
    <3> QED BY <2>1, <2>3, <3>1, <3>2, <1>5, <1>9
  <2> QED BY <2>2, <2>3
<1>14. Push(h, x) = g
  BY <1>9, <1>10, <1>12, <1>13, SeqEqual
<1> QED BY <1>14 DEF h, g, x

-----------------------------------------------------------------------------
(***************************************************************************)
(* Sums over a finite set: SumFunction takes its summands in some order.   *)
(***************************************************************************)

\* Every nonempty set of naturals has a least element.
LEMMA LeastNatural ==
  ASSUME NEW T, T \subseteq Nat, T # {}
  PROVE  \E x \in T : \A y \in T : x <= y
<1> DEFINE R == OpToRel(<, Nat)
<1>1. IsWellFoundedOn(R, Nat)
  BY NatLessThanWellFounded
<1>2. PICK x \in T : \A y \in T : ~(<<y, x>> \in R)
  <2> HIDE DEF R
  <2> QED BY <1>1, WFMin
<1>3. \A y \in T : ~(y < x)
  BY <1>2 DEF OpToRel
<1> HIDE DEF R
<1> QED BY <1>2, <1>3

\* Induction, over a set instead of a predicate.
LEMMA NaturalInduction ==
  ASSUME NEW S, S \subseteq Nat, 0 \in S, \A n \in S : n + 1 \in S
  PROVE  Nat \subseteq S
<1> SUFFICES ASSUME Nat \ S # {} PROVE FALSE
  OBVIOUS
<1>1. PICK n \in Nat \ S : \A m \in Nat \ S : n <= m
  BY LeastNatural
<1>2. n # 0 /\ n - 1 \in Nat /\ n - 1 < n
  BY <1>1
<1>3. n - 1 \in S
  BY <1>1, <1>2
<1>4. (n - 1) + 1 \in S
  BY <1>3
<1> QED BY <1>1, <1>2, <1>4

\* The summand SumFunction takes next.
NextOf(s) == CHOOSE x \in s : TRUE

\* Taking elements out of a finite set, one by one, leads to the empty set.
LEMMA FiniteInduction ==
  ASSUME NEW D, IsFiniteSet(D), NEW T, {} \in T,
         \A s \in SUBSET D : s # {} /\ s \ {NextOf(s)} \in T => s \in T
  PROVE  SUBSET D \subseteq T
<1> DEFINE U == {n \in Nat : \A s \in SUBSET D : Cardinality(s) = n => s \in T}
<1>1. \A s \in SUBSET D : IsFiniteSet(s) /\ Cardinality(s) \in Nat
  BY FS_Subset, FS_CardinalityType
<1>2. 0 \in U
  BY <1>1, FS_EmptySet
<1>3. ASSUME NEW n \in U PROVE n + 1 \in U
  <2> SUFFICES ASSUME NEW s \in SUBSET D, Cardinality(s) = n + 1 PROVE s \in T
    OBVIOUS
  <2>1. s # {}
    BY FS_EmptySet
  <2>2. NextOf(s) \in s
    BY <2>1 DEF NextOf
  <2>3. Cardinality(s \ {NextOf(s)}) = n
    <3>1. IsFiniteSet(s) /\ n \in Nat
      BY <1>1
    <3>2. Cardinality(s \ {NextOf(s)}) = Cardinality(s) - 1
      <4> HIDE DEF U
      <4> QED BY <2>2, <3>1, FS_RemoveElement
    <3> QED BY <3>1, <3>2
  <2>4. s \ {NextOf(s)} \in T
    BY <2>3
  <2> QED BY <2>1, <2>4
<1>4. U \subseteq Nat
  OBVIOUS
<1>5. Nat \subseteq U
  <2> HIDE DEF U
  <2> QED BY <1>2, <1>3, <1>4, NaturalInduction
<1> QED BY <1>1, <1>5

\* g gives the sum of f over every subset of its domain.
IsSum(f, D, g) ==
  /\ g \in [SUBSET D -> Int]
  /\ g[{}] = 0
  /\ \A s \in SUBSET D : s # {} => g[s] = f[NextOf(s)] + g[s \ {NextOf(s)}]

\* The recursion of SumFunction defines such sums.
LEMMA SumExists ==
  ASSUME NEW D, IsFiniteSet(D), NEW f \in [D -> Int]
  PROVE  \E g : IsSum(f, D, g) /\ SumFunction(f) = g[D]
<1> DEFINE Term(s, g) == IF s = {} THEN 0 ELSE f[NextOf(s)] + g[s \ {NextOf(s)}]
           UpTo(n, g) == \A s \in SUBSET D : Cardinality(s) <= n => g[s] = Term(s, g)
           U == {n \in Nat : \E g \in [SUBSET D -> Int] : UpTo(n, g)}
           Loop(g) == [s \in SUBSET D |-> Term(s, g)]
<1>1. \A s \in SUBSET D : IsFiniteSet(s) /\ Cardinality(s) \in Nat
  BY FS_Subset, FS_CardinalityType
<1>2. ASSUME NEW s \in SUBSET D, s # {}
      PROVE  /\ NextOf(s) \in D /\ s \ {NextOf(s)} \in SUBSET D
             /\ Cardinality(s \ {NextOf(s)}) = Cardinality(s) - 1
  <2>1. NextOf(s) \in s
    BY <1>2 DEF NextOf
  <2> QED BY <1>1, <2>1, FS_RemoveElement
<1>3. ASSUME NEW s \in SUBSET D, NEW g \in [SUBSET D -> Int] PROVE Term(s, g) \in Int
  BY <1>2
<1>4. 0 \in U
  <2> DEFINE g == [s \in SUBSET D |-> 0]
  <2>1. g \in [SUBSET D -> Int]
    OBVIOUS
  <2>2. UpTo(0, g)
    <3>1. \A s \in SUBSET D : Cardinality(s) <= 0 => s = {}
      BY <1>1, FS_EmptySet
    <3> QED BY <3>1
  <2> QED BY <2>1, <2>2
<1>5. ASSUME NEW n \in U PROVE n + 1 \in U
  <2>1. PICK g \in [SUBSET D -> Int] : UpTo(n, g)
    OBVIOUS
  <2> DEFINE h == [s \in SUBSET D |-> IF Cardinality(s) <= n THEN g[s] ELSE Term(s, g)]
  <2>2. h \in [SUBSET D -> Int]
    BY <1>3
  <2>3. ASSUME NEW s \in SUBSET D, Cardinality(s) <= n + 1 PROVE h[s] = Term(s, h)
    <3>1. h[s] = Term(s, g)
      BY <2>1
    <3>2. ASSUME s # {} PROVE h[s \ {NextOf(s)}] = g[s \ {NextOf(s)}]
      <4>1. /\ s \ {NextOf(s)} \in SUBSET D
            /\ Cardinality(s \ {NextOf(s)}) = Cardinality(s) - 1
            /\ Cardinality(s) \in Nat /\ n \in Nat
        BY <1>1, <1>2, <3>2
      <4>2. Cardinality(s \ {NextOf(s)}) <= n
        BY <2>3, <4>1
      <4> QED BY <4>1, <4>2
    <3>3. Term(s, h) = Term(s, g)
      <4> HIDE DEF h
      <4> QED BY <3>2
    <3> QED BY <3>1, <3>3
  <2>4. UpTo(n + 1, h)
    <3> HIDE DEF h, Term
    <3> QED BY <2>3
  <2> HIDE DEF h, UpTo
  <2> QED BY <2>2, <2>4
<1>6. PICK g \in [SUBSET D -> Int] : g = Loop(g)
  <2>1. Cardinality(D) \in U
    <3>1. U \subseteq Nat /\ Cardinality(D) \in Nat
      BY FS_CardinalityType
    <3> HIDE DEF U
    <3> QED BY <1>4, <1>5, <3>1, NaturalInduction
  <2>2. PICK g \in [SUBSET D -> Int] : UpTo(Cardinality(D), g)
    BY <2>1
  <2>3. \A s \in SUBSET D : g[s] = Term(s, g)
    BY <1>1, <2>2, FS_Subset
  <2>4. g = [s \in SUBSET D |-> g[s]]
    OBVIOUS
  <2>5. g = Loop(g)
    <3> HIDE DEF Term
    <3> QED BY <2>3, <2>4
  <2> QED BY <2>5
<1> DEFINE sum == CHOOSE v : v = Loop(v)
<1>7. sum = Loop(sum)
  <2> HIDE DEF Loop
  <2> QED BY <1>6
<1>8. DOMAIN f = D
  OBVIOUS
<1>9. SumFunction(f) = sum[D]
  BY <1>8 DEF SumFunction, SumFunctionOnSet, FoldFunctionOnSet, MapThenFoldSet, NextOf
<1> HIDE DEF sum
<1>10. /\ sum[{}] = 0
       /\ \A s \in SUBSET D : s # {} => sum[s] = f[NextOf(s)] + sum[s \ {NextOf(s)}]
  BY <1>7
<1>11. \A s \in SUBSET D : sum[s] \in Int
  <2> DEFINE T == {s \in SUBSET D : sum[s] \in Int}
  <2>1. {} \in T
    BY <1>10
  <2>2. ASSUME NEW s \in SUBSET D, s # {}, s \ {NextOf(s)} \in T PROVE s \in T
    <3>1. NextOf(s) \in D /\ f[NextOf(s)] \in Int
      BY <1>2, <2>2
    <3>2. sum[s \ {NextOf(s)}] \in Int
      BY <2>2
    <3>3. sum[s] = f[NextOf(s)] + sum[s \ {NextOf(s)}]
      BY <1>10, <2>2
    <3>4. sum[s] \in Int
      BY <3>1, <3>2, <3>3
    <3> QED BY <3>4
  <2> HIDE DEF T
  <2>3. SUBSET D \subseteq T
    BY <2>1, <2>2, FiniteInduction
  <2> QED BY <2>3 DEF T
<1>12. sum \in [SUBSET D -> Int]
  BY <1>7, <1>11
<1> QED BY <1>9, <1>10, <1>12 DEF IsSum

\* On D, h is a times f plus b times g.
Combines(h, D, a, f, b, g) == \A i \in D : h[i] = a * f[i] + b * g[i]

\* A sum of sums of multiples is the sum of the multiples of the sums.
LEMMA SumLinear ==
  ASSUME NEW D, IsFiniteSet(D), NEW a \in Int, NEW b \in Int,
         NEW f \in [D -> Int], NEW g \in [D -> Int], NEW h \in [D -> Int],
         Combines(h, D, a, f, b, g)
  PROVE  /\ SumFunction(f) \in Int /\ SumFunction(g) \in Int /\ SumFunction(h) \in Int
         /\ SumFunction(h) = a * SumFunction(f) + b * SumFunction(g)
<1>1. PICK F : IsSum(f, D, F) /\ SumFunction(f) = F[D]
  BY SumExists
<1>2. PICK G : IsSum(g, D, G) /\ SumFunction(g) = G[D]
  BY SumExists
<1>3. PICK H : IsSum(h, D, H) /\ SumFunction(h) = H[D]
  BY SumExists
<1> DEFINE T == {s \in SUBSET D : H[s] = a * F[s] + b * G[s]}
<1>4. {} \in T
  BY <1>1, <1>2, <1>3 DEF IsSum
<1>5. ASSUME NEW s \in SUBSET D, s # {}, s \ {NextOf(s)} \in T PROVE s \in T
  <2> DEFINE x == NextOf(s)
             r == s \ {x}
  <2>1. x \in D /\ r \in SUBSET D
    BY <1>5 DEF NextOf
  <2>2. /\ H[s] = h[x] + H[r] /\ F[s] = f[x] + F[r] /\ G[s] = g[x] + G[r]
        /\ F[r] \in Int /\ G[r] \in Int
    BY <1>1, <1>2, <1>3, <1>5, <2>1 DEF IsSum
  <2>3. H[r] = a * F[r] + b * G[r] /\ h[x] = a * f[x] + b * g[x]
    BY <1>5, <2>1 DEF Combines
  <2>4. f[x] \in Int /\ g[x] \in Int
    BY <2>1
  <2> HIDE DEF x, r
  <2>5. a * (f[x] + F[r]) = a * f[x] + a * F[r] /\ b * (g[x] + G[r]) = b * g[x] + b * G[r]
    BY <2>2, <2>4
  <2>6. /\ a * f[x] \in Int /\ a * F[r] \in Int /\ b * g[x] \in Int /\ b * G[r] \in Int
    BY <2>2, <2>4
  <2>7. H[s] = a * F[s] + b * G[s]
    BY <2>2, <2>3, <2>5, <2>6
  <2> QED BY <2>7
<1>6. SUBSET D \subseteq T
  <2> HIDE DEF T
  <2> QED BY <1>4, <1>5, FiniteInduction
<1>7. H[D] = a * F[D] + b * G[D]
  BY <1>6
<1>8. F[D] \in Int /\ G[D] \in Int /\ H[D] \in Int
  BY <1>1, <1>2, <1>3 DEF IsSum
<1> QED BY <1>1, <1>2, <1>3, <1>7, <1>8

\* A sum of summands that are none of them negative is at least each of them.
LEMMA SumCovers ==
  ASSUME NEW D, IsFiniteSet(D), NEW f \in [D -> Int], \A i \in D : f[i] >= 0
  PROVE  /\ SumFunction(f) \in Int
         /\ SumFunction(f) >= 0
         /\ \A i \in D : SumFunction(f) >= f[i]
<1>1. PICK F : IsSum(f, D, F) /\ SumFunction(f) = F[D]
  BY SumExists
<1> DEFINE T == {s \in SUBSET D : F[s] >= 0 /\ \A i \in s : F[s] >= f[i]}
<1>2. {} \in T
  BY <1>1 DEF IsSum
<1>3. ASSUME NEW s \in SUBSET D, s # {}, s \ {NextOf(s)} \in T PROVE s \in T
  <2> DEFINE x == NextOf(s)
             r == s \ {x}
  <2>1. x \in D /\ x \in s /\ r \in SUBSET D /\ \A i \in s : i = x \/ i \in r
    BY <1>3 DEF NextOf
  <2>2. F[s] = f[x] + F[r] /\ F[r] \in Int /\ f[x] \in Int /\ f[x] >= 0
    BY <1>1, <1>3, <2>1 DEF IsSum
  <2>3. F[r] >= 0 /\ \A i \in r : F[r] >= f[i]
    BY <1>3
  <2>4. \A i \in r : f[i] \in Int
    OBVIOUS
  <2> HIDE DEF x, r
  <2> QED BY <2>1, <2>2, <2>3, <2>4
<1>4. SUBSET D \subseteq T
  <2> HIDE DEF T
  <2> QED BY <1>2, <1>3, FiniteInduction
<1>5. F[D] \in Int
  BY <1>1 DEF IsSum
<1> QED BY <1>1, <1>4, <1>5

\* Counting is summing ones and zeros.
LEMMA SumCounts ==
  ASSUME NEW D, IsFiniteSet(D), NEW S \in SUBSET D, NEW f \in [D -> Int],
         \A i \in D : f[i] = IF i \in S THEN 1 ELSE 0
  PROVE  SumFunction(f) = Cardinality(S)
<1>1. PICK F : IsSum(f, D, F) /\ SumFunction(f) = F[D]
  BY SumExists
<1> DEFINE T == {s \in SUBSET D : F[s] = Cardinality(s \cap S)}
<1>2. {} \in T
  <2>1. {} \cap S = {}
    OBVIOUS
  <2> QED BY <1>1, <2>1, FS_EmptySet DEF IsSum
<1>3. ASSUME NEW s \in SUBSET D, s # {}, s \ {NextOf(s)} \in T PROVE s \in T
  <2> DEFINE x == NextOf(s)
             r == s \ {x}
  <2>1. x \in D /\ x \in s /\ r \in SUBSET D
    BY <1>3 DEF NextOf
  <2>2. F[s] = f[x] + F[r]
    BY <1>1, <1>3 DEF IsSum
  <2>3. F[r] = Cardinality(r \cap S) /\ f[x] = IF x \in S THEN 1 ELSE 0
    BY <1>3, <2>1
  <2>4. r \cap S = (s \cap S) \ {x} /\ (x \in s \cap S <=> x \in S)
    BY <2>1
  <2>5. IsFiniteSet(s \cap S)
    <3>1. s \cap S \in SUBSET D
      OBVIOUS
    <3> QED BY <3>1, FS_Subset
  <2> HIDE DEF x, r
  <2>6. Cardinality(s \cap S) \in Nat
    BY <2>5, FS_CardinalityType
  <2>7. Cardinality(r \cap S) = IF x \in S THEN Cardinality(s \cap S) - 1
                                          ELSE Cardinality(s \cap S)
    <3> DEFINE q == s \cap S
    <3>1. Cardinality(q \ {x}) = IF x \in q THEN Cardinality(q) - 1 ELSE Cardinality(q)
      <4> HIDE DEF q
      <4> QED BY <2>5, FS_RemoveElement DEF q
    <3> QED BY <2>4, <3>1
  <2> QED BY <2>2, <2>3, <2>6, <2>7
<1>4. SUBSET D \subseteq T
  <2> HIDE DEF T
  <2> QED BY <1>2, <1>3, FiniteInduction
<1>5. D \cap S = S
  OBVIOUS
<1> QED BY <1>1, <1>4, <1>5

\* Integers have an integer sum.
LEMMA SumType ==
  ASSUME NEW D, IsFiniteSet(D), NEW f \in [D -> Int]
  PROVE  SumFunction(f) \in Int
<1>1. PICK F : IsSum(f, D, F) /\ SumFunction(f) = F[D]
  BY SumExists
<1> QED BY <1>1 DEF IsSum

\* A sum of multiples of c is the multiple of the sum.
LEMMA SumMultiple ==
  ASSUME NEW D, IsFiniteSet(D), NEW c \in Int,
         NEW f \in [D -> Int], NEW h \in [D -> Int], Combines(h, D, c, f, 0, f)
  PROVE  SumFunction(h) = c * SumFunction(f)
<1>1. SumFunction(h) = c * SumFunction(f) + 0 * SumFunction(f) /\ SumFunction(f) \in Int
  BY SumLinear, SumType
<1> QED BY <1>1

\* Nothing but zeros.
LEMMA SumOfZeros ==
  ASSUME NEW D, IsFiniteSet(D), NEW f \in [D -> Int], \A i \in D : f[i] = 0
  PROVE  SumFunction(f) = 0
<1>1. Combines(f, D, 0, f, 0, f)
  BY DEF Combines
<1>2. SumFunction(f) = 0 * SumFunction(f) /\ SumFunction(f) \in Int
  BY <1>1, SumMultiple, SumType
<1> QED BY <1>2

\* A combination that is nowhere negative has no negative sum.
Covers(D, a, f, b, g, c, p, d, q) ==
  \A i \in D : a * f[i] + b * g[i] + c * p[i] + d * q[i] >= 0

LEMMA SumCombination ==
  ASSUME NEW D, IsFiniteSet(D),
         NEW a \in Int, NEW b \in Int, NEW c \in Int, NEW d \in Int,
         NEW f \in [D -> Int], NEW g \in [D -> Int], NEW p \in [D -> Int], NEW q \in [D -> Int],
         Covers(D, a, f, b, g, c, p, d, q)
  PROVE  a * SumFunction(f) + b * SumFunction(g) + c * SumFunction(p) + d * SumFunction(q) >= 0
<1> DEFINE u == [i \in D |-> a * f[i] + b * g[i]]
           v == [i \in D |-> c * p[i] + d * q[i]]
           w == [i \in D |-> u[i] + v[i]]
<1>1. \A i \in D : /\ a * f[i] \in Int /\ b * g[i] \in Int
                   /\ c * p[i] \in Int /\ d * q[i] \in Int
  <2>1. \A i \in D : f[i] \in Int /\ g[i] \in Int /\ p[i] \in Int /\ q[i] \in Int
    OBVIOUS
  <2> QED BY <2>1
<1>2. u \in [D -> Int] /\ Combines(u, D, a, f, b, g)
  BY <1>1 DEF Combines
<1>3. v \in [D -> Int] /\ Combines(v, D, c, p, d, q)
  BY <1>1 DEF Combines
<1>4. w \in [D -> Int] /\ Combines(w, D, 1, u, 1, v)
  <2>1. \A i \in D : u[i] \in Int /\ v[i] \in Int
    BY <1>2, <1>3
  <2> HIDE DEF u, v
  <2> QED BY <2>1 DEF Combines
<1>5. \A i \in D : w[i] >= 0
  <2> TAKE i \in D
  <2>1. w[i] = (a * f[i] + b * g[i]) + (c * p[i] + d * q[i])
    OBVIOUS
  <2>2. a * f[i] + b * g[i] + c * p[i] + d * q[i] >= 0
    BY DEF Covers
  <2> HIDE DEF w
  <2> QED BY <1>1, <2>1, <2>2
<1> HIDE DEF u, v, w
<1>6. SumFunction(u) = a * SumFunction(f) + b * SumFunction(g)
  BY <1>2, SumLinear
<1>7. SumFunction(v) = c * SumFunction(p) + d * SumFunction(q)
  BY <1>3, SumLinear
<1>8. SumFunction(w) = 1 * SumFunction(u) + 1 * SumFunction(v) /\ SumFunction(w) >= 0
  <2>1. SumFunction(w) = 1 * SumFunction(u) + 1 * SumFunction(v)
    BY <1>2, <1>3, <1>4, SumLinear
  <2> QED BY <1>4, <1>5, <2>1, SumCovers
<1>9. /\ SumFunction(f) \in Int /\ SumFunction(g) \in Int
      /\ SumFunction(p) \in Int /\ SumFunction(q) \in Int
  BY SumType
<1>10. /\ a * SumFunction(f) \in Int /\ b * SumFunction(g) \in Int
       /\ c * SumFunction(p) \in Int /\ d * SumFunction(q) \in Int
  BY <1>9
<1> QED BY <1>6, <1>7, <1>8, <1>10

-----------------------------------------------------------------------------
(***************************************************************************)
(* The statistics of a history.                                            *)
(***************************************************************************)

Deviations(h) == [i \in DOMAIN h |-> Deviation(h, h[i])]
Squares(h) == [i \in DOMAIN h |-> Deviation(h, h[i]) * Deviation(h, h[i])]
Ones(h) == [i \in DOMAIN h |-> 1]

LEMMA SquareIsPositive ==
  ASSUME NEW y \in Int PROVE y * y \in Nat /\ (y # 0 => y * y > 0)
OBVIOUS

\* The deviations of a history cancel out, and their squares add up to the spread.
LEMMA HistorySums ==
  ASSUME NEW h \in Seq(Nat), NEW n \in Nat, n = Len(h)
  PROVE  /\ DOMAIN h = 1 .. n /\ IsFiniteSet(1 .. n)
         /\ SumFunction(h) \in Int
         /\ Ones(h) \in [1 .. n -> Int] /\ SumFunction(Ones(h)) = n
         /\ Deviations(h) \in [1 .. n -> Int] /\ SumFunction(Deviations(h)) = 0
         /\ Squares(h) \in [1 .. n -> Int] /\ \A i \in 1 .. n : Squares(h)[i] >= 0
         /\ Spread(h) = SumFunction(Squares(h)) /\ Spread(h) \in Int
         /\ \A x \in Nat : Deviation(h, x) \in Int
<1> DEFINE S == SumFunction(h)
<1>1. /\ DOMAIN h = 1 .. n /\ h \in [1 .. n -> Int]
      /\ IsFiniteSet(1 .. n) /\ Cardinality(1 .. n) = n
  <2>1. DOMAIN h = 1 .. n /\ h \in [1 .. n -> Int]
    OBVIOUS
  <2>2. 1 \in Int /\ n \in Int
    OBVIOUS
  <2>3. IsFiniteSet(1 .. n) /\ Cardinality(1 .. n) = IF 1 > n THEN 0 ELSE n - 1 + 1
    BY ONLY <2>2, FS_Interval
  <2> QED BY <2>1, <2>3
<1>2. Ones(h) \in [1 .. n -> Int] /\ \A i \in 1 .. n : Ones(h)[i] = 1
  BY <1>1 DEF Ones
<1>3. SumFunction(Ones(h)) = n
  <2>1. SumFunction(Ones(h)) = Cardinality(1 .. n)
    <3>1. 1 .. n \in SUBSET (1 .. n)
      OBVIOUS
    <3> QED BY <1>1, <1>2, <3>1, SumCounts
  <2> QED BY <1>1, <2>1
<1>4. S \in Int
  BY <1>1, SumType
<1>5. \A x \in Nat : Deviation(h, x) \in Int /\ Deviation(h, x) = n * x - S
  BY <1>4 DEF Deviation
<1>6. \A i \in 1 .. n : Deviation(h, h[i]) \in Int /\ Deviation(h, h[i]) = n * h[i] - S
  <2>1. \A i \in 1 .. n : h[i] \in Nat
    OBVIOUS
  <2> HIDE DEF S
  <2> QED BY <1>5, <2>1
<1>7. Deviations(h) \in [1 .. n -> Int] /\ Squares(h) \in [1 .. n -> Int]
  BY <1>1, <1>6 DEF Deviations, Squares
<1>8. SumFunction(Deviations(h)) = 0
  <2>1. PICK b \in Int : b = -S
    BY <1>4
  <2>2. Combines(Deviations(h), 1 .. n, n, h, b, Ones(h))
    BY <1>1, <1>2, <1>4, <1>6, <2>1 DEF Deviations, Combines
  <2>3. SumFunction(Deviations(h)) = n * SumFunction(h) + b * SumFunction(Ones(h))
    <3> DEFINE D == 1 .. n
               f == Ones(h)
               g == Deviations(h)
    <3>1. /\ IsFiniteSet(D) /\ n \in Int /\ h \in [D -> Int] /\ f \in [D -> Int]
          /\ g \in [D -> Int] /\ Combines(g, D, n, h, b, f)
      BY <1>1, <1>2, <1>7, <2>2
    <3>2. b \in Int
      BY <2>1
    <3> HIDE DEF D, f, g
    <3>3. SumFunction(g) = n * SumFunction(h) + b * SumFunction(f)
      BY ONLY <3>1, <3>2, SumLinear
    <3> QED BY <3>3 DEF f, g
  <2> QED BY <1>3, <1>4, <2>1, <2>3
<1>9. \A i \in 1 .. n : Squares(h)[i] >= 0
  <2> SUFFICES ASSUME NEW i \in 1 .. n PROVE Squares(h)[i] >= 0
    OBVIOUS
  <2>1. Squares(h)[i] = Deviation(h, h[i]) * Deviation(h, h[i])
    BY <1>1 DEF Squares
  <2> QED BY <1>6, <2>1, SquareIsPositive
<1>10. Spread(h) = SumFunction(Squares(h)) /\ Spread(h) \in Int
  BY <1>1, <1>7, <1>9, SumCovers DEF Spread, Squares
<1> QED BY <1>1, <1>2, <1>3, <1>4, <1>5, <1>7, <1>8, <1>9, <1>10

\* Only a history that moves has a spread.
LEMMA FlatHasNoSpread ==
  ASSUME NEW h \in Seq(Nat)
  PROVE  Spread(h) \in Nat /\ (IsFlat(h) <=> Spread(h) = 0)
<1>1. PICK n \in Nat : n = Len(h)
  OBVIOUS
<1> DEFINE S == SumFunction(h)
<1>2. /\ DOMAIN h = 1 .. n /\ IsFiniteSet(1 .. n) /\ S \in Int
      /\ Ones(h) \in [1 .. n -> Int] /\ SumFunction(Ones(h)) = n
      /\ Squares(h) \in [1 .. n -> Int] /\ \A i \in 1 .. n : Squares(h)[i] >= 0
      /\ Spread(h) = SumFunction(Squares(h)) /\ Spread(h) \in Int
  BY <1>1, HistorySums
<1>3. Spread(h) >= 0 /\ \A i \in 1 .. n : Spread(h) >= Squares(h)[i]
  BY <1>2, SumCovers
<1>4. \A i \in 1 .. n : /\ h[i] \in Nat
                        /\ Deviation(h, h[i]) = n * h[i] - S
                        /\ Squares(h)[i] = Deviation(h, h[i]) * Deviation(h, h[i])
  BY <1>1, <1>2 DEF Squares, Deviation
<1>5. ASSUME IsFlat(h) PROVE Spread(h) = 0
  <2>1. CASE n = 0
    <3>1. \A i \in 1 .. n : Squares(h)[i] = 0
      BY <2>1
    <3> QED BY <1>2, <3>1, SumOfZeros
  <2>2. CASE n # 0
    <3>1. 1 \in 1 .. n /\ h[1] \in Int
      BY <1>4, <2>2
    <3>2. \A i \in 1 .. n : h[i] = h[1]
      BY <1>2, <1>5, <3>1 DEF IsFlat
    <3>3. h \in [1 .. n -> Int] /\ Combines(h, 1 .. n, h[1], Ones(h), 0, Ones(h))
      BY <1>2, <1>4, <3>1, <3>2 DEF Ones, Combines
    <3>4. S = h[1] * SumFunction(Ones(h))
      <4>1. PICK c \in Int : c = h[1]
        BY <3>1
      <4> QED BY <1>2, <3>3, <4>1, SumMultiple
    <3>5. S = n * h[1]
      BY <1>2, <3>1, <3>4
    <3>6. \A i \in 1 .. n : Squares(h)[i] = 0
      <4> TAKE i \in 1 .. n
      <4>1. Deviation(h, h[i]) = 0
        BY <1>4, <3>1, <3>2, <3>5
      <4> QED BY <1>4, <4>1
    <3> QED BY <1>2, <3>6, SumOfZeros
  <2> QED BY <2>1, <2>2
<1>6. ASSUME ~IsFlat(h) PROVE Spread(h) > 0
  <2>1. PICK i \in 1 .. n, j \in 1 .. n : h[i] # h[j]
    BY <1>2, <1>6 DEF IsFlat
  <2>2. n # 0 /\ h[i] \in Nat /\ h[j] \in Nat
    BY <1>4
  <2>3. n * h[i] # n * h[j] /\ n * h[i] \in Int /\ n * h[j] \in Int
    BY <2>1, <2>2
  <2>4. Deviation(h, h[i]) # 0 \/ Deviation(h, h[j]) # 0
    BY <1>2, <1>4, <2>3
  <2>5. PICK m \in 1 .. n : Deviation(h, h[m]) # 0
    BY <2>4
  <2>6. Deviation(h, h[m]) \in Int
    BY <1>2, <1>4
  <2>7. Squares(h)[m] > 0 /\ Squares(h)[m] \in Int
    BY <1>4, <2>5, <2>6, SquareIsPositive
  <2> QED BY <1>2, <1>3, <2>7
<1> QED BY <1>2, <1>3, <1>5, <1>6

\* Multiplying an inequality by a natural number.
LEMMA Scaled ==
  ASSUME NEW a \in Int, NEW b \in Int, NEW c \in Nat
  PROVE  /\ a <= b => c * a <= c * b
         /\ c # 0 /\ c * a <= c * b => a <= b
<1>1. c * (b - a) = c * b - c * a /\ c * a \in Int /\ c * b \in Int /\ b - a \in Int
  OBVIOUS
<1>2. ASSUME a <= b PROVE c * (b - a) >= 0
  <2>1. PICK k \in Nat : k = b - a
    BY <1>2
  <2>2. c * k \in Nat
    OBVIOUS
  <2> QED BY <2>1, <2>2
<1>3. ASSUME b < a, c # 0 PROVE c * (a - b) > 0
  <2>1. PICK k \in Nat : k = a - b /\ k # 0
    BY <1>3
  <2>2. c * k > 0
    BY <1>3, <2>1
  <2> QED BY <2>1, <2>2
<1>4. c * (a - b) = c * a - c * b
  OBVIOUS
<1> QED BY <1>1, <1>2, <1>3, <1>4

\* The square of k * y + j * d, and what is left of it where y = d.
LEMMA Completed ==
  ASSUME NEW j \in Int, NEW k \in Int, NEW d \in Int, NEW y \in Int
  PROVE  /\ (k * k) * (y * y) + (2 * j * k * d) * y + (j * j) * (d * d) >= 0
         /\ (k * k) * (d * d) + (2 * j * k * d) * d + (j * j) * (d * d)
              = ((k + j) * (k + j)) * (d * d)
<1> DEFINE z == k * y + j * d
<1>1. z \in Int /\ z * z >= 0
  OBVIOUS
<1>2. z * z = (k * k) * (y * y) + (2 * j * k * d) * y + (j * j) * (d * d)
  OBVIOUS
<1>3. (k * k) * (d * d) + (2 * j * k * d) * d + (j * j) * (d * d)
        = ((k + j) * (k + j)) * (d * d)
  OBVIOUS
<1> QED BY <1>1, <1>2, <1>3

\* Values that occur j times in a history of n, and n - j times do not, keep its
\* spread above their own distance from the mean.
LEMMA FamiliarSpread ==
  ASSUME NEW h \in Seq(Nat), NEW x \in Nat, NEW n \in Nat, n = Len(h)
  PROVE  LET j == Occurrences(h, x)
             k == n - j
             d == Deviation(h, x)
         IN  /\ j \in Nat /\ k \in Nat /\ d \in Int
             /\ k = 0 => IsFlat(h)
             /\ (k * k) * Spread(h) >= (n * (d * d)) * (k * j)
<1> DEFINE D == 1 .. n
           J == {i \in DOMAIN h : h[i] = x}
           j == Occurrences(h, x)
           k == n - j
           d == Deviation(h, x)
           e == [i \in D |-> IF i \in J THEN 1 ELSE 0]
           f == Deviations(h)
           g == Squares(h)
           one == Ones(h)
           K == k * k
           B == 2 * j * k * d
           C == (j * j) * (d * d)
           N == -((n * n) * (d * d))
<1>1. /\ DOMAIN h = D /\ IsFiniteSet(D)
      /\ one \in [D -> Int] /\ SumFunction(one) = n
      /\ f \in [D -> Int] /\ SumFunction(f) = 0
      /\ g \in [D -> Int] /\ Spread(h) = SumFunction(g) /\ Spread(h) \in Int
      /\ d \in Int
  BY HistorySums
<1>2. /\ \A i \in D : one[i] = 1 /\ f[i] = Deviation(h, h[i]) /\ g[i] = f[i] * f[i]
      /\ \A i \in D : i \in J <=> h[i] = x
  BY <1>1 DEF Deviations, Squares, Ones
<1>3. J \in SUBSET D /\ e \in [D -> Int] /\ \A i \in D : e[i] = IF i \in J THEN 1 ELSE 0
  BY <1>1
<1>4. j = Cardinality(J)
  BY DEF Occurrences
<1> HIDE DEF D, J, j, d, e, f, g, one
<1>5. SumFunction(e) = j
  <2>1. IsFiniteSet(D)
    BY <1>1
  <2>2. SumFunction(e) = Cardinality(J)
    BY ONLY <1>3, <2>1, SumCounts
  <2> QED BY <1>4, <2>2
<1>6. j \in Nat /\ k \in Nat /\ (k = 0 => J = D)
  <2>1. Cardinality(D) = n
    <3>1. 1 \in Int /\ n \in Int /\ n \in Nat
      OBVIOUS
    <3>2. Cardinality(1 .. n) = IF 1 > n THEN 0 ELSE n - 1 + 1
      BY ONLY <3>1, FS_Interval
    <3> QED BY <3>1, <3>2 DEF D
  <2>2. /\ IsFiniteSet(J) /\ Cardinality(J) <= n /\ (Cardinality(D) = Cardinality(J) => D = J)
    BY <1>1, <1>3, <2>1, FS_Subset
  <2> QED BY <1>4, <2>1, <2>2, FS_CardinalityType
<1>7. k = 0 => IsFlat(h)
  <2>1. ASSUME k = 0 PROVE \A i \in D : h[i] = x
    BY <1>2, <1>6, <2>1
  <2> QED BY <1>1, <2>1 DEF IsFlat
<1> HIDE DEF k
<1>8. K \in Int /\ B \in Int /\ C \in Int /\ N \in Int /\ n \in Int
  BY <1>1, <1>6
<1>9. ASSUME NEW i \in D
      PROVE  K * g[i] + B * f[i] + C * one[i] + N * e[i] >= 0
  <2>1. f[i] \in Int /\ g[i] = f[i] * f[i] /\ one[i] = 1
    BY <1>1, <1>2
  <2>2. CASE i \in J
    <3>1. f[i] = d /\ e[i] = 1
      BY <1>2, <1>3, <2>2 DEF d
    <3>2. n = k + j
      BY <1>6 DEF k
    <3>3. K * (d * d) + B * d + C = (n * n) * (d * d)
      BY <1>1, <1>6, <3>2, Completed
    <3> QED BY <1>8, <2>1, <3>1, <3>3
  <2>3. CASE i \notin J
    <3>1. e[i] = 0
      BY <1>3, <2>3
    <3>2. K * (f[i] * f[i]) + B * f[i] + C >= 0
      <4>1. PICK y \in Int : y = f[i]
        BY <2>1
      <4>2. j \in Int /\ k \in Int /\ d \in Int
        BY <1>1, <1>6
      <4>3. (k * k) * (y * y) + (2 * j * k * d) * y + (j * j) * (d * d) >= 0
        BY ONLY <4>1, <4>2, Completed
      <4> QED BY <4>1, <4>3
    <3> HIDE DEF K, B, C, N
    <3> QED BY <1>8, <2>1, <3>1, <3>2
  <2> QED BY <2>2, <2>3
<1>10. Covers(D, K, g, B, f, C, one, N, e)
  BY <1>9 DEF Covers
<1> HIDE DEF K, B, C, N
<1>11. K * SumFunction(g) + B * SumFunction(f) + C * SumFunction(one) + N * SumFunction(e) >= 0
  <2>1. /\ IsFiniteSet(D) /\ K \in Int /\ B \in Int /\ C \in Int /\ N \in Int
        /\ g \in [D -> Int] /\ f \in [D -> Int] /\ one \in [D -> Int] /\ e \in [D -> Int]
        /\ Covers(D, K, g, B, f, C, one, N, e)
    BY <1>1, <1>3, <1>8, <1>10
  <2> QED BY ONLY <2>1, SumCombination
<1>12. K * Spread(h) + C * n + N * j >= 0
  BY <1>1, <1>5, <1>6, <1>8, <1>11
<1>13. C * n + N * j = -((n * (d * d)) * (k * j))
  BY <1>1, <1>6 DEF C, N, k
<1>14. (k * k) * Spread(h) >= (n * (d * d)) * (k * j)
  <2>1. K * Spread(h) \in Int /\ (n * (d * d)) * (k * j) \in Int /\ C * n \in Int /\ N * j \in Int
    BY <1>1, <1>6, <1>8
  <2> QED BY <1>12, <1>13, <2>1 DEF K
<1> QED BY <1>1, <1>6, <1>7, <1>14 DEF j, k, d

\* What is t standard deviations from the mean is rare in the history.
LEMMA ReportedIsRare ==
  ASSUME NEW h \in Seq(Nat), NEW x \in Nat, NEW t \in Nat,
         IsUsable(h), ZAtLeast(h, x, t)
  PROVE  Len(h) - Occurrences(h, x) >= t * t * Occurrences(h, x)
<1>1. PICK n \in Nat : n = Len(h)
  OBVIOUS
<1> DEFINE j == Occurrences(h, x)
           k == n - j
           d == Deviation(h, x)
           P == Spread(h)
           q == n * (d * d)
           T == t * t
<1>2. /\ j \in Nat /\ k \in Nat /\ d \in Int /\ (k = 0 => IsFlat(h))
      /\ (k * k) * P >= q * (k * j)
  BY <1>1, FamiliarSpread
<1>3. P \in Nat /\ P # 0 /\ k # 0
  <2>1. Spread(h) \in Nat /\ (IsFlat(h) <=> Spread(h) = 0) /\ Spread(h) > 0
    BY FlatHasNoSpread DEF IsUsable
  <2>2. Spread(h) # 0
    BY <2>1
  <2> QED BY <1>2, <2>1, <2>2
<1>4. q >= T * P
  BY <1>1, <1>2, <1>3 DEF ZAtLeast
<1>5. q \in Int /\ T \in Nat
  BY <1>2
<1>6. k \in Int
  BY <1>2
<1> HIDE DEF j, k, d, P, q, T
<1>7. k * P >= q * j
  <2>1. k * (q * j) <= k * (k * P)
    BY <1>2, <1>3, <1>5
  <2>2. q * j \in Int /\ k * P \in Int
    BY <1>2, <1>3, <1>5
  <2> QED BY <1>2, <1>3, <2>1, <2>2, Scaled
<1>8. q * j >= P * (T * j)
  <2>1. T * P \in Int
    BY <1>3, <1>5
  <2>2. j * (T * P) <= j * q
    BY <1>2, <1>4, <1>5, <2>1, Scaled
  <2> QED BY <1>2, <1>3, <1>5, <2>2
<1>9. P * (T * j) <= P * k
  <2>1. P * (T * j) \in Int /\ q * j \in Int /\ P * k \in Int /\ P * k = k * P
    BY <1>2, <1>3, <1>5
  <2> QED BY <1>7, <1>8, <2>1
<1>10. T * j <= k
  <2>1. T * j \in Int
    BY <1>2, <1>5
  <2> QED BY <1>2, <1>3, <1>9, <2>1, Scaled
<1> QED BY <1>1, <1>2, <1>10 DEF k, j, T

\* A history that is not empty has a least and a greatest value.
LEMMA Extremes ==
  ASSUME NEW n \in Nat, NEW h \in [1 .. n + 1 -> Nat]
  PROVE  \E a, b \in 1 .. n + 1 : \A i \in 1 .. n + 1 : h[a] <= h[i] /\ h[i] <= h[b]
<1> DEFINE T == {m \in Nat : m <= n =>
                   \E a, b \in 1 .. m + 1 : \A i \in 1 .. m + 1 : h[a] <= h[i] /\ h[i] <= h[b]}
<1>1. 0 \in T
  <2>1. \A i \in 1 .. 0 + 1 : i = 1
    OBVIOUS
  <2>2. 1 \in 1 .. 0 + 1 /\ 1 \in 1 .. n + 1 /\ h[1] \in Nat
    OBVIOUS
  <2> QED BY <2>1, <2>2
<1>2. ASSUME NEW m \in T PROVE m + 1 \in T
  <2> SUFFICES ASSUME m + 1 <= n
               PROVE  \E a, b \in 1 .. (m + 1) + 1 :
                        \A i \in 1 .. (m + 1) + 1 : h[a] <= h[i] /\ h[i] <= h[b]
    OBVIOUS
  <2>1. PICK a \in 1 .. m + 1, b \in 1 .. m + 1 :
          \A i \in 1 .. m + 1 : h[a] <= h[i] /\ h[i] <= h[b]
    OBVIOUS
  <2> DEFINE z == (m + 1) + 1
  <2>2. /\ \A i \in 1 .. z : (i \in 1 .. m + 1 \/ i = z) /\ h[i] \in Nat
        /\ a \in 1 .. z /\ b \in 1 .. z /\ z \in 1 .. z
    OBVIOUS
  <2> HIDE DEF z
  <2>3. PICK c \in {a, z} : h[c] <= h[a] /\ h[c] <= h[z]
    BY <2>2
  <2>4. PICK d \in {b, z} : h[b] <= h[d] /\ h[z] <= h[d]
    BY <2>2
  <2>5. \A i \in 1 .. z : h[c] <= h[i] /\ h[i] <= h[d]
    BY <2>1, <2>2, <2>3, <2>4
  <2>6. c \in 1 .. z /\ d \in 1 .. z
    BY <2>2
  <2> QED BY <2>5, <2>6 DEF z
<1>3. T \subseteq Nat
  OBVIOUS
<1>4. n \in T
  <2> HIDE DEF T
  <2> QED BY <1>1, <1>2, <1>3, NaturalInduction
<1> QED BY <1>4

\* Between -b and a a square stays below its chord.
LEMMA Chord ==
  ASSUME NEW a \in Int, NEW b \in Int, NEW y \in Int, y <= a, -b <= y
  PROVE  (a - b) * y + a * b - y * y >= 0
<1>1. a - y \in Nat /\ y + b \in Nat
  OBVIOUS
<1>2. PICK p \in Nat, q \in Nat : p = a - y /\ q = y + b
  BY <1>1
<1>3. p * q \in Nat
  OBVIOUS
<1>4. p * q = (a - y) * (y + b)
  BY <1>2
<1>5. (a - y) * (y + b) = (a - b) * y + a * b - y * y
  OBVIOUS
<1> QED BY <1>3, <1>4, <1>5

\* The spread of n values in a range of width v - u is at most n^3 / 4 times the
\* square of the width.
LEMMA RangeSpread ==
  ASSUME NEW h \in Seq(Nat), NEW n \in Nat, n = Len(h), NEW u \in Nat, NEW v \in Nat,
         \A i \in 1 .. n : u <= h[i] /\ h[i] <= v
  PROVE  /\ n * u <= SumFunction(h) /\ SumFunction(h) <= n * v
         /\ 4 * Spread(h) <= n * ((n * (v - u)) * (n * (v - u)))
<1> DEFINE D == 1 .. n
           S == SumFunction(h)
           f == Deviations(h)
           g == Squares(h)
           one == Ones(h)
           a == n * v - S
           b == S - n * u
<1>1. /\ DOMAIN h = D /\ IsFiniteSet(D)
      /\ one \in [D -> Int] /\ SumFunction(one) = n
      /\ f \in [D -> Int] /\ SumFunction(f) = 0
      /\ g \in [D -> Int] /\ Spread(h) = SumFunction(g) /\ Spread(h) \in Int
      /\ S \in Int
  BY HistorySums
<1>2. \A i \in D : one[i] = 1 /\ f[i] = n * h[i] - S /\ g[i] = f[i] * f[i]
  BY <1>1 DEF Deviations, Squares, Ones, Deviation
<1>3. \A i \in D : h[i] \in Nat /\ u <= h[i] /\ h[i] <= v
  OBVIOUS
<1> HIDE DEF D, S, f, g, one
<1>4. n * v \in Int /\ n * u \in Int /\ a \in Int /\ b \in Int
  BY <1>1
<1> HIDE DEF a, b
<1>5. \A i \in D : f[i] \in Int /\ f[i] <= a /\ -b <= f[i]
  <2> TAKE i \in D
  <2>1. PICK y \in Nat : y = h[i] /\ u <= y /\ y <= v
    BY <1>3
  <2>2. n * u <= n * y /\ n * y <= n * v
    <3>1. u \in Int /\ v \in Int /\ y \in Int /\ n \in Nat /\ u <= y /\ y <= v
      BY <2>1
    <3> QED BY ONLY <3>1, Scaled
  <2>3. f[i] = n * y - S /\ n * y \in Int
    BY <1>2, <2>1
  <2> QED BY <1>1, <1>4, <2>2, <2>3 DEF a, b
<1>6. a * n >= 0 /\ b * n >= 0
  <2>1. Covers(D, 0, f, a, one, -1, f, 0, f) /\ Covers(D, 0, f, b, one, 1, f, 0, f)
    <3>1. ASSUME NEW i \in D
          PROVE  /\ 0 * f[i] + a * one[i] + (-1) * f[i] + 0 * f[i] >= 0
                 /\ 0 * f[i] + b * one[i] + 1 * f[i] + 0 * f[i] >= 0
      <4>1. f[i] \in Int /\ f[i] <= a /\ -b <= f[i] /\ one[i] = 1
        BY <1>2, <1>5
      <4> QED BY <1>4, <4>1
    <3> QED BY <3>1 DEF Covers
  <2>2. /\ IsFiniteSet(D) /\ 0 \in Int /\ 1 \in Int /\ -1 \in Int /\ a \in Int /\ b \in Int
        /\ f \in [D -> Int] /\ one \in [D -> Int]
    BY <1>1, <1>4
  <2>3. 0 * SumFunction(f) + a * SumFunction(one) + (-1) * SumFunction(f) + 0 * SumFunction(f) >= 0
    BY ONLY <2>1, <2>2, SumCombination
  <2>4. 0 * SumFunction(f) + b * SumFunction(one) + 1 * SumFunction(f) + 0 * SumFunction(f) >= 0
    BY ONLY <2>1, <2>2, SumCombination
  <2>5. a * n \in Int /\ b * n \in Int
    BY <1>4
  <2> QED BY <1>1, <2>3, <2>4, <2>5
<1>7. n * u <= S /\ S <= n * v
  <2>1. CASE n = 0
    <3>1. D = {}
      BY <2>1 DEF D
    <3>2. S = 0
      <4>1. h \in [D -> Int] /\ \A i \in D : h[i] = 0
        BY <1>1, <3>1
      <4> QED BY <1>1, <4>1, SumOfZeros DEF S
    <3> QED BY <2>1, <3>2
  <2>2. CASE n # 0
    <3>1. n * 0 <= n * a /\ n * 0 <= n * b
      BY <1>4, <1>6
    <3>2. 0 <= a /\ 0 <= b
      BY <1>4, <2>2, <3>1, Scaled
    <3> QED BY <1>1, <1>4, <3>2 DEF a, b
  <2> QED BY <2>1, <2>2
<1>8. Spread(h) <= n * (a * b)
  <2> DEFINE c == a - b
             p == a * b
  <2>1. c \in Int /\ p \in Int
    BY <1>4
  <2>2. \A i \in D : c * f[i] + p * one[i] + (-1) * g[i] + 0 * f[i] >= 0
    <3> TAKE i \in D
    <3>1. (a - b) * f[i] + a * b - f[i] * f[i] >= 0
      BY <1>4, <1>5, Chord
    <3>2. f[i] \in Int /\ c * f[i] \in Int /\ f[i] * f[i] \in Int /\ one[i] = 1 /\ g[i] = f[i] * f[i]
      BY <1>2, <1>5, <2>1
    <3> QED BY <2>1, <3>1, <3>2
  <2> HIDE DEF c, p
  <2>3. Covers(D, c, f, p, one, -1, g, 0, f)
    BY <2>2 DEF Covers
  <2>4. /\ IsFiniteSet(D) /\ c \in Int /\ p \in Int /\ -1 \in Int /\ 0 \in Int
        /\ f \in [D -> Int] /\ g \in [D -> Int] /\ one \in [D -> Int]
        /\ Covers(D, c, f, p, one, -1, g, 0, f)
    BY <1>1, <2>1, <2>3
  <2>5. c * SumFunction(f) + p * SumFunction(one) + (-1) * SumFunction(g) + 0 * SumFunction(f) >= 0
    BY ONLY <2>4, SumCombination
  <2>6. p * n - Spread(h) >= 0
    BY <1>1, <2>1, <2>5
  <2>7. p * n = n * (a * b) /\ p * n \in Int
    BY <1>4, <2>1 DEF p
  <2> QED BY <1>1, <2>6, <2>7
<1>9. 4 * (a * b) <= (a + b) * (a + b)
  <2>1. (a + b) * (a + b) - 4 * (a * b) = (a - b) * (a - b)
    BY <1>4
  <2>2. (a - b) * (a - b) >= 0 /\ (a + b) * (a + b) \in Int /\ a * b \in Int
    BY <1>4
  <2> QED BY <2>1, <2>2
<1>10. a + b = n * (v - u)
  BY <1>1 DEF a, b
<1>11. 4 * Spread(h) <= n * ((a + b) * (a + b))
  <2>1. a * b \in Int /\ (a + b) * (a + b) \in Int
    BY <1>4
  <2>2. n * (4 * (a * b)) <= n * ((a + b) * (a + b))
    BY <1>9, <2>1, Scaled
  <2>3. n * (4 * (a * b)) = 4 * (n * (a * b)) /\ n * (a * b) \in Int /\ n * ((a + b) * (a + b)) \in Int
    BY <2>1
  <2> QED BY <1>1, <1>8, <2>2, <2>3
<1> QED BY <1>7, <1>10, <1>11 DEF S

\* What lies t / 2 ranges outside of a history is t standard deviations from its mean.
LEMMA OutlierIsFar ==
  ASSUME NEW h \in Seq(Nat), h # <<>>, NEW x \in Nat, NEW t \in Nat, FarOutside(h, x, t)
  PROVE  ZAtLeast(h, x, t)
<1>1. PICK n \in Nat : n = Len(h) /\ n # 0 /\ DOMAIN h = 1 .. n
  OBVIOUS
<1>2. PICK l \in 1 .. n, r \in 1 .. n : \A i \in 1 .. n : h[l] <= h[i] /\ h[i] <= h[r]
  <2>1. PICK m \in Nat : n = m + 1
    <3>1. n - 1 \in Nat /\ n = (n - 1) + 1
      BY <1>1
    <3> QED BY <3>1
  <2>2. h \in [1 .. m + 1 -> Nat]
    BY <1>1, <2>1
  <2>3. \E a, b \in 1 .. m + 1 : \A i \in 1 .. m + 1 : h[a] <= h[i] /\ h[i] <= h[b]
    BY ONLY <2>2, m \in Nat, Extremes
  <2> QED BY <2>1, <2>3
<1> DEFINE u == h[l]
           v == h[r]
           S == SumFunction(h)
           w == v - u
           d == Deviation(h, x)
<1>3. u \in Nat /\ v \in Nat /\ w \in Nat /\ \A i \in 1 .. n : u <= h[i] /\ h[i] <= v
  BY <1>1, <1>2
<1>4. /\ \/ 2 * (x - v) >= t * w
         \/ 2 * (u - x) >= t * w
  <2>1. CASE \A i, j, k \in DOMAIN h : 2 * (x - h[i]) >= t * (h[j] - h[k])
    BY <1>1, <2>1
  <2>2. CASE \A i, j, k \in DOMAIN h : 2 * (h[i] - x) >= t * (h[j] - h[k])
    BY <1>1, <2>2
  <2> QED BY <2>1, <2>2 DEF FarOutside
<1>5. n * u <= S /\ S <= n * v /\ 4 * Spread(h) <= n * ((n * w) * (n * w))
  <2> HIDE DEF u, v
  <2> QED BY <1>1, <1>3, RangeSpread
<1>6. S \in Int /\ Spread(h) \in Int /\ d \in Int /\ d = n * x - S
  BY <1>1, HistorySums DEF Deviation
<1> HIDE DEF u, v, S, d
<1>7. w \in Int /\ t * w \in Nat /\ n * (t * w) \in Nat /\ t * (n * w) = n * (t * w)
  BY <1>3
<1>8. 2 * d >= t * (n * w) \/ 2 * (-d) >= t * (n * w)
  <2>1. CASE 2 * (x - v) >= t * w
    <3>1. n * (t * w) <= n * (2 * (x - v))
      BY <1>3, <1>7, <2>1, Scaled
    <3>2. n * (2 * (x - v)) = 2 * (n * x - n * v) /\ n * x \in Int /\ n * v \in Int
      BY <1>3
    <3> HIDE DEF w
    <3> QED BY <1>5, <1>6, <1>7, <3>1, <3>2
  <2>2. CASE 2 * (u - x) >= t * w
    <3>1. n * (t * w) <= n * (2 * (u - x))
      BY <1>3, <1>7, <2>2, Scaled
    <3>2. n * (2 * (u - x)) = 2 * (n * u - n * x) /\ n * x \in Int /\ n * u \in Int
      BY <1>3
    <3> HIDE DEF w
    <3> QED BY <1>5, <1>6, <1>7, <3>1, <3>2
  <2> QED BY <1>4, <2>1, <2>2
<1>9. 4 * (d * d) >= (t * (n * w)) * (t * (n * w))
  <2> DEFINE z == t * (n * w)
  <2>1. z \in Nat
    BY <1>7
  <2>2. PICK y \in Int : (y = 2 * d \/ y = 2 * (-d)) /\ y >= z
    BY <1>6, <1>8
  <2> HIDE DEF z
  <2>3. y \in Nat /\ y * y = 4 * (d * d)
    BY <1>6, <2>1, <2>2
  <2>4. z * z <= z * y /\ y * z <= y * y
    BY <2>1, <2>2, <2>3, Scaled
  <2>5. z * y = y * z /\ z * z \in Int /\ z * y \in Int /\ y * y \in Int
    BY <2>1, <2>2
  <2>6. y * y >= z * z
    BY <2>4, <2>5
  <2> QED BY <2>3, <2>6 DEF z
<1> DEFINE T == t * t
           m == n * w
<1>10. m \in Nat /\ T \in Nat /\ m * m \in Nat /\ d * d \in Int
  BY <1>3, <1>6
<1>11. 4 * (d * d) >= T * (m * m)
  BY <1>3, <1>9
<1>12. 4 * Spread(h) <= n * (m * m)
  BY <1>5
<1> HIDE DEF T, m, w
<1>13. n * (T * (m * m)) <= n * (4 * (d * d))
  <2>1. T * (m * m) \in Int /\ 4 * (d * d) \in Int
    BY <1>10
  <2> QED BY <1>11, <2>1, Scaled
<1>14. T * (4 * Spread(h)) <= T * (n * (m * m))
  <2>1. 4 * Spread(h) \in Int /\ n * (m * m) \in Int
    BY <1>6, <1>10
  <2> QED BY <1>10, <1>12, <2>1, Scaled
<1>15. 4 * (T * Spread(h)) <= 4 * (n * (d * d))
  <2> DEFINE M == m * m
             d2 == d * d
             P == Spread(h)
  <2>1. M \in Nat /\ d2 \in Int /\ P \in Int
    BY <1>6, <1>10
  <2>2. n * (T * M) <= n * (4 * d2) /\ T * (4 * P) <= T * (n * M)
    BY <1>13, <1>14
  <2> HIDE DEF M, d2, P
  <2>3. n * (T * M) = T * (n * M) /\ n * (4 * d2) = 4 * (n * d2) /\ T * (4 * P) = 4 * (T * P)
    BY <1>10, <2>1
  <2>4. T * (n * M) \in Int /\ n * d2 \in Int /\ T * P \in Int
    BY <1>10, <2>1
  <2>5. 4 * (T * P) <= 4 * (n * d2)
    BY <2>2, <2>3, <2>4
  <2> QED BY <2>5 DEF P, d2
<1>16. T * Spread(h) <= n * (d * d)
  BY <1>6, <1>10, <1>15
<1>17. Len(h) * d * d = n * (d * d)
  BY <1>1, <1>6
<1> QED BY <1>16, <1>17 DEF ZAtLeast, T, d

----------------------------------------------------------------------------
(* The theorems.                                                           *)

\* What is an anomaly was scored as one, and at twice the threshold if it is critical.
ScoredAsReported(a) ==
  /\ IsUsable(a.baseline)
  /\ ZAtLeast(a.baseline, a.rollup.obs[a.metric], THRESHOLD)
  /\ a.critical => ZAtLeast(a.baseline, a.rollup.obs[a.metric], 2 * THRESHOLD)

\* Every window that scores as an anomaly against its past is reported as one.
NoneIsMissed ==
  \A s \in Services, m \in Metrics : \A n \in DOMAIN seen[s] :
    Reported(Recent(s, m, n - 1), seen[s][n], m) => IsReported(s, m, n)

IInv ==
  /\ TypeOK /\ HistoryIsRecent /\ EvidenceIsThePast
  /\ \A a \in alerts : ScoredAsReported(a)
  /\ NoneIsMissed

\* No group has a history yet.
LEMMA InitEstablishes == Init => IInv
<1> SUFFICES ASSUME Init PROVE IInv
  OBVIOUS
<1>1. TypeOK
  BY DEF Init, TypeOK
<1>2. ASSUME NEW s \in Services, NEW m \in Metrics
      PROVE  history[s][m] = Recent(s, m, Len(seen[s]))
  <2>1. history[s][m] = <<>> /\ Len(seen[s]) = 0
    BY DEF Init
  <2>2. Forgotten(0) = 0
    BY BaselineAssumption DEF Forgotten
  <2>3. Recent(s, m, 0) = <<>>
    BY <2>2 DEF Recent
  <2> QED BY <2>1, <2>3
<1>3. EvidenceIsThePast
  BY DEF Init, EvidenceIsThePast
<1>4. (\A a \in alerts : ScoredAsReported(a)) /\ NoneIsMissed
  BY DEF Init, NoneIsMissed
<1> QED BY <1>1, <1>2, <1>3, <1>4 DEF IInv, HistoryIsRecent

\* Evaluating a rollup pushes it on the history of its own group alone.
LEMMA EvaluatePreserves ==
  ASSUME NEW r \in Rollup, IInv, Evaluate(r) PROVE IInv'
<1> DEFINE s == r.service
           fired == {m \in Metrics : Reported(history[s][m], r, m)}
           new == {AnomalyOf(r, m, history[s][m]) : m \in fired}
<1>1. s \in Services /\ TypeOK /\ HistoryIsRecent /\ EvidenceIsThePast
  BY DEF IInv, Rollup
<1>2. /\ alerts' = alerts \cup new
      /\ history' = [history EXCEPT ![s] = [m \in Metrics |-> Push(history[s][m], r.obs[m])]]
      /\ seen' = [seen EXCEPT ![s] = Append(@, r)]
  BY DEF Evaluate, Scored
<1>3. seen[s] \in Seq(Rollup) /\ \A m \in Metrics : history[s][m] \in Seq(Nat)
  BY <1>1 DEF TypeOK
<1>4. TypeOK'
  <2>1. history' \in [Services -> [Metrics -> Seq(Nat)]]
    BY <1>1, <1>2, <1>3, PushType, ObservationType DEF TypeOK
  <2>2. seen' \in [Services -> Seq(Rollup)]
    BY <1>1, <1>2, <1>3, AppendKeeps DEF TypeOK
  <2>3. ASSUME NEW m \in Metrics PROVE AnomalyOf(r, m, history[s][m]) \in Anomaly
    <3>1. Len(seen[s]) + 1 \in Nat \ {0}
      BY <1>3
    <3>2. ZAtLeast(history[s][m], r.obs[m], 2 * THRESHOLD) \in BOOLEAN
      BY DEF ZAtLeast
    <3> QED BY <1>3, <3>1, <3>2 DEF AnomalyOf, Anomaly
  <2> QED BY <1>1, <1>2, <2>1, <2>2, <2>3 DEF TypeOK
<1>5. HistoryIsRecent'
  <2> SUFFICES ASSUME NEW t \in Services, NEW m \in Metrics
               PROVE  history'[t][m] = Recent(t, m, Len(seen[t]))'
    BY DEF HistoryIsRecent
  <2>1. CASE t = s
    <3>1. PICK n \in Nat : n = Len(seen[s])
      BY <1>3
    <3>2. Len(seen'[s]) = n + 1
      BY <1>1, <1>2, <1>3, <3>1, AppendKeeps DEF TypeOK
    <3>3. history'[s][m] = Push(Recent(s, m, n), r.obs[m])
      BY <1>1, <1>2, <3>1 DEF TypeOK, HistoryIsRecent
    <3>4. Push(Recent(s, m, n), r.obs[m]) = Recent(s, m, n + 1)'
      BY <1>1, <1>2, <3>1, PushKeepsTheSuffix
    <3>5. Recent(s, m, n + 1)' = Recent(s, m, Len(seen[s]))'
      BY <3>2 DEF Recent
    <3> QED BY <2>1, <3>3, <3>4, <3>5
  <2>2. CASE t # s
    <3>1. history'[t] = history[t] /\ seen'[t] = seen[t]
      BY <1>1, <1>2, <2>2 DEF TypeOK
    <3>2. history[t][m] = Recent(t, m, Len(seen[t]))
      BY <1>1 DEF HistoryIsRecent
    <3>3. Recent(t, m, Len(seen[t]))' = Recent(t, m, Len(seen[t]))
      BY <3>1 DEF Recent
    <3> QED BY <3>1, <3>2, <3>3
  <2> QED BY <2>1, <2>2
<1>6. EvidenceIsThePast'
  <2> SUFFICES ASSUME NEW a \in alerts' PROVE RestsOnItsPast(a)'
    BY DEF EvidenceIsThePast
  <2>1. ASSUME NEW t \in Services, NEW m \in Metrics, NEW n \in 0 .. Len(seen[t])
        PROVE  /\ Recent(t, m, n)' = Recent(t, m, n)
               /\ Len(seen[t]) <= Len(seen'[t])
               /\ n # 0 => seen'[t][n] = seen[t][n]
    <3>1. Recent(t, m, n)' = Recent(t, m, n)
      BY <1>1, <1>2, RecentIsStable
    <3>2. seen[t] \in Seq(Rollup) /\ seen'[t] = IF t = s THEN Append(seen[t], r) ELSE seen[t]
      BY <1>1, <1>2 DEF TypeOK
    <3>3. n # 0 => n \in 1 .. Len(seen[t])
      BY <3>2
    <3> QED BY <3>1, <3>2, <3>3, AppendKeeps
  <2>2. CASE a \in alerts
    <3> DEFINE t == a.rollup.service
    <3>1. t \in Services /\ a.metric \in Metrics /\ RestsOnItsPast(a)
      BY <1>1, <2>2 DEF TypeOK, EvidenceIsThePast, Anomaly, Rollup
    <3>2. /\ a.at \in 1 .. Len(seen[t]) /\ seen[t][a.at] = a.rollup
          /\ a.baseline = Recent(t, a.metric, a.at - 1)
          /\ Len(a.baseline) >= MIN_BASELINE
          /\ a.rollup.obs["query_count"] >= MIN_SAMPLES
      BY <3>1 DEF RestsOnItsPast
    <3>3. seen[t] \in Seq(Rollup) /\ seen'[t] \in Seq(Rollup)
      BY <1>1, <1>4, <3>1 DEF TypeOK
    <3>4. a.at - 1 \in 0 .. Len(seen[t]) /\ a.at \in 0 .. Len(seen[t]) /\ a.at # 0
      BY <3>2, <3>3
    <3>5. /\ Recent(t, a.metric, a.at - 1)' = Recent(t, a.metric, a.at - 1)
          /\ Len(seen[t]) <= Len(seen'[t]) /\ seen'[t][a.at] = seen[t][a.at]
      BY <2>1, <3>1, <3>4
    <3>6. a.at \in 1 .. Len(seen'[t])
      BY <3>2, <3>3, <3>5
    <3> QED BY <3>2, <3>5, <3>6 DEF RestsOnItsPast
  <2>3. CASE a \in new
    <3>1. PICK m \in fired : a = AnomalyOf(r, m, history[s][m])
      BY <2>3
    <3>2. /\ a.rollup = r /\ a.metric = m /\ a.at = Len(seen[s]) + 1
          /\ a.baseline = history[s][m]
      BY <3>1 DEF AnomalyOf
    <3>3. m \in Metrics /\ Len(a.baseline) >= MIN_BASELINE /\ r.obs["query_count"] >= MIN_SAMPLES
      BY <3>1, <3>2 DEF Reported, HasBaseline
    <3>4. seen'[s] = Append(seen[s], r)
      BY <1>1, <1>2 DEF TypeOK
    <3>5. a.at \in 1 .. Len(seen'[s]) /\ seen'[s][a.at] = r
      BY <1>3, <3>2, <3>4, AppendKeeps
    <3>6. Len(seen[s]) \in 0 .. Len(seen[s]) /\ a.at - 1 = Len(seen[s])
      BY <1>3, <3>2
    <3>7. a.baseline = Recent(s, m, a.at - 1)
      BY <1>1, <3>2, <3>3, <3>6 DEF HistoryIsRecent
    <3>8. Recent(s, m, a.at - 1)' = Recent(s, m, a.at - 1)
      BY <1>1, <2>1, <3>3, <3>6
    <3> QED BY <3>2, <3>3, <3>5, <3>7, <3>8 DEF RestsOnItsPast
  <2> QED BY <1>2, <2>2, <2>3
<1>7. \A a \in alerts' : ScoredAsReported(a)'
  <2> SUFFICES ASSUME NEW a \in alerts' PROVE ScoredAsReported(a)
    BY DEF ScoredAsReported, ZAtLeast, IsUsable, Spread, Deviation
  <2>1. CASE a \in alerts
    BY <2>1 DEF IInv
  <2>2. CASE a \in new
    <3>1. PICK m \in fired : a = AnomalyOf(r, m, history[s][m])
      BY <2>2
    <3>2. /\ a.rollup = r /\ a.metric = m /\ a.baseline = history[s][m]
          /\ a.critical = ZAtLeast(history[s][m], r.obs[m], 2 * THRESHOLD)
      BY <3>1 DEF AnomalyOf
    <3>3. IsUsable(history[s][m]) /\ ZAtLeast(history[s][m], r.obs[m], THRESHOLD)
      BY <3>1 DEF Reported
    <3> QED BY <3>2, <3>3 DEF ScoredAsReported
  <2> QED BY <1>2, <2>1, <2>2
<1>8. NoneIsMissed'
  <2> SUFFICES ASSUME NEW t \in Services, NEW m \in Metrics, NEW n \in DOMAIN seen'[t],
                      Reported(Recent(t, m, n - 1)', seen'[t][n], m)
               PROVE  \E a \in alerts' : a.rollup.service = t /\ a.metric = m /\ a.at = n
    BY DEF NoneIsMissed, IsReported, Reported, HasBaseline, IsUsable, ZAtLeast, Spread, Deviation
  <2>1. /\ seen[t] \in Seq(Rollup) /\ seen'[t] \in Seq(Rollup)
        /\ seen'[t] = IF t = s THEN Append(seen[t], r) ELSE seen[t]
    BY <1>1, <1>2, <1>4 DEF TypeOK
  <2>2. /\ n \in Nat /\ n # 0 /\ DOMAIN seen[t] = 1 .. Len(seen[t]) /\ Len(seen[t]) \in Nat
        /\ n \in 1 .. Len(seen[t]) \/ (t = s /\ n = Len(seen[t]) + 1)
    <3>1. /\ DOMAIN seen'[t] = 1 .. Len(seen'[t]) /\ DOMAIN seen[t] = 1 .. Len(seen[t])
          /\ Len(seen[t]) \in Nat /\ Len(seen'[t]) \in Nat
      BY <2>1
    <3>2. Len(seen'[t]) = IF t = s THEN Len(seen[t]) + 1 ELSE Len(seen[t])
      BY <2>1, AppendKeeps
    <3>3. n \in 1 .. Len(seen'[t])
      BY <3>1
    <3> QED BY <3>1, <3>2, <3>3
  <2>3. n - 1 \in 0 .. Len(seen[t])
    BY <2>2
  <2>4. Recent(t, m, n - 1)' = Recent(t, m, n - 1)
    BY <1>1, <1>2, <2>3, RecentIsStable
  <2>5. CASE n \in 1 .. Len(seen[t])
    <3>1. seen'[t][n] = seen[t][n]
      BY <2>1, <2>5, AppendKeeps
    <3>2. IsReported(t, m, n)
      BY <2>2, <2>4, <2>5, <3>1 DEF IInv, NoneIsMissed
    <3> QED BY <1>2, <3>2 DEF IsReported
  <2>6. CASE t = s /\ n = Len(seen[t]) + 1
    <3>1. seen'[t][n] = r
      BY <2>1, <2>6, AppendKeeps
    <3>2. Recent(t, m, n - 1) = history[s][m]
      <4>1. n - 1 = Len(seen[s])
        BY <2>2, <2>6
      <4> QED BY <1>1, <2>6, <4>1 DEF HistoryIsRecent
    <3>3. m \in fired
      BY <2>4, <3>1, <3>2
    <3>4. AnomalyOf(r, m, history[s][m]) \in alerts'
      BY <1>2, <3>3
    <3> QED BY <2>6, <3>4 DEF AnomalyOf
  <2> QED BY <2>2, <2>5, <2>6
<1> QED BY <1>4, <1>5, <1>6, <1>7, <1>8 DEF IInv

\* Every step keeps the invariant.
LEMMA NextPreserves == IInv /\ [Next]_vars => IInv'
<1> SUFFICES ASSUME IInv, [Next]_vars PROVE IInv'
  OBVIOUS
<1>1. ASSUME NEW r \in Rollup, Evaluate(r) PROVE IInv'
  BY <1>1, EvaluatePreserves
<1>2. CASE UNCHANGED vars
  <2>1. TypeOK' /\ HistoryIsRecent' /\ EvidenceIsThePast'
    BY <1>2 DEF vars, IInv, TypeOK, HistoryIsRecent, EvidenceIsThePast, RestsOnItsPast, Recent
  <2>2. (\A a \in alerts : ScoredAsReported(a))'
    BY <1>2 DEF vars, IInv, ScoredAsReported
  <2>3. NoneIsMissed'
    BY <1>2 DEF vars, IInv, NoneIsMissed, IsReported, Recent
  <2> QED BY <2>1, <2>2, <2>3 DEF IInv
<1> QED BY <1>1, <1>2 DEF Next

\* The invariant holds in every reachable state.
LEMMA Inductive == Spec => []IInv
BY InitEstablishes, NextPreserves, PTL DEF Spec

\* The type invariant of the detector (anomaly.py _history), for every stream of
\* rollups and every configuration.
THEOREM TypeCorrect == Spec => []TypeOK
<1>1. IInv => TypeOK
  BY DEF IInv
<1> QED BY <1>1, Inductive, PTL

\* The bounded deque of a service and metric is the last baseline_windows values
\* of what evaluate() was given for it, for every baseline length.
THEOREM HistoryIsTheSuffix == Spec => []HistoryIsRecent
<1>1. IInv => HistoryIsRecent
  BY DEF IInv
<1> QED BY <1>1, Inductive, PTL

\* No anomaly is scored against itself, against a later window, another service or
\* another metric, or on fewer than min_baseline_windows windows.
THEOREM EvidenceIsSound == Spec => []EvidenceIsThePast
<1>1. IInv => EvidenceIsThePast
  BY DEF IInv
<1> QED BY <1>1, Inductive, PTL

\* The shape of a history of naturals, where the properties need it.
LEMMA BaselineType ==
  ASSUME TypeOK, NEW a \in alerts
  PROVE  a.baseline \in Seq(Nat) /\ a.rollup.obs[a.metric] \in Nat /\ a.critical \in BOOLEAN
<1>1. a.rollup \in Rollup /\ a.metric \in Metrics
  BY DEF TypeOK, Anomaly
<1> QED BY <1>1, ObservationType DEF TypeOK, Anomaly

\* A service that has been flat so far raises nothing, and neither does a level it
\* has shown in more than one of t^2 + 1 of its baseline windows, whatever the
\* threshold, the lengths of the baseline and the values are.  (evaluate, z_score)
THEOREM OrdinaryNeverAlerts == Spec => []OrdinaryIsSilent
<1>1. ASSUME IInv PROVE OrdinaryIsSilent
  <2>1. ASSUME NEW a \in alerts PROVE ~IsFlat(a.baseline)
    <3>1. a.baseline \in Seq(Nat) /\ IsUsable(a.baseline)
      BY <1>1, <2>1, BaselineType DEF IInv, ScoredAsReported
    <3>2. Spread(a.baseline) > 0
      BY <3>1 DEF IsUsable
    <3> QED BY <3>1, <3>2, FlatHasNoSpread
  <2>2. ASSUME NEW a \in alerts,
               NEW t, t = IF a.critical THEN 2 * THRESHOLD ELSE THRESHOLD
        PROVE  Len(a.baseline) - Occurrences(a.baseline, a.rollup.obs[a.metric])
                 >= t * t * Occurrences(a.baseline, a.rollup.obs[a.metric])
    <3>1. /\ a.baseline \in Seq(Nat) /\ a.rollup.obs[a.metric] \in Nat
          /\ IsUsable(a.baseline)
          /\ ZAtLeast(a.baseline, a.rollup.obs[a.metric], t)
          /\ t \in Nat
      BY <1>1, <2>2, BaselineType, ThresholdAssumption DEF IInv, ScoredAsReported
    <3> QED BY <3>1, ReportedIsRare
  <2>3. FlatIsSilent
    BY <2>1 DEF FlatIsSilent
  <2>4. FamiliarIsNormal
    BY <2>2 DEF FamiliarIsNormal
  <2> QED BY <2>3, <2>4 DEF OrdinaryIsSilent
<1> QED BY <1>1, Inductive, PTL

\* A window of enough queries that lies threshold / 2 ranges beyond everything in
\* its baseline is always reported: an earlier outlier widens the range, but cannot
\* hide a later one beyond that.  (evaluate, z_score)
THEOREM OutliersAlert == Spec => []OutliersAreReported
<1>1. ASSUME IInv PROVE OutliersAreReported
  <2> SUFFICES ASSUME NEW s \in Services, NEW m \in Metrics, NEW n \in DOMAIN seen[s],
                      MustReport(s, m, n), seen[s][n].obs["query_count"] >= MIN_SAMPLES
               PROVE  IsReported(s, m, n)
    BY DEF OutliersAreReported
  <2> DEFINE h == Recent(s, m, n - 1)
             x == seen[s][n].obs[m]
  <2>1. /\ seen[s] \in Seq(Rollup) /\ n \in 1 .. Len(seen[s]) /\ n - 1 \in 0 .. Len(seen[s])
    BY <1>1 DEF IInv, TypeOK
  <2>2. h \in Seq(Nat)
    BY <1>1, <2>1, RecentType DEF IInv
  <2>3. x \in Nat
    <3>1. seen[s][n] \in Rollup
      BY <2>1
    <3> QED BY <3>1, ObservationType
  <2>4. Len(h) >= MIN_BASELINE /\ ~IsFlat(h) /\ FarOutside(h, x, THRESHOLD)
    BY DEF MustReport
  <2> HIDE DEF h, x
  <2>5. h # <<>>
    BY <2>4 DEF IsFlat
  <2>6. ZAtLeast(h, x, THRESHOLD)
    BY <2>2, <2>3, <2>4, <2>5, OutlierIsFar, ThresholdAssumption
  <2>7. IsUsable(h)
    BY <2>2, <2>4, FlatHasNoSpread DEF IsUsable
  <2>8. Reported(h, seen[s][n], m)
    BY <2>4, <2>6, <2>7 DEF Reported, HasBaseline, x
  <2> QED BY <1>1, <2>8 DEF IInv, NoneIsMissed, h
<1> QED BY <1>1, Inductive, PTL

\* settings.py accepts anomaly_baseline_windows from 2 on, and main.py leaves
\* min_baseline_windows at 5: a history bounded below the minimum never alerts.
THEOREM ShortBaselineIsSilent ==
  ASSUME BASELINE < MIN_BASELINE PROVE Spec => [](alerts = {})
<1>1. ASSUME IInv PROVE alerts = {}
  <2>1. SUFFICES ASSUME NEW a \in alerts PROVE FALSE
    OBVIOUS
  <2>2. /\ a.rollup.service \in Services /\ a.metric \in Metrics /\ TypeOK
        /\ a.at \in 1 .. Len(seen[a.rollup.service])
        /\ a.baseline = Recent(a.rollup.service, a.metric, a.at - 1)
        /\ Len(a.baseline) >= MIN_BASELINE
    BY <1>1, <2>1 DEF IInv, TypeOK, Anomaly, Rollup, EvidenceIsThePast, RestsOnItsPast
  <2>3. seen[a.rollup.service] \in Seq(Rollup)
    BY <2>2 DEF TypeOK
  <2>4. a.at - 1 \in 0 .. Len(seen[a.rollup.service])
    BY <2>2, <2>3
  <2>5. Len(a.baseline) <= BASELINE /\ Len(a.baseline) \in Nat
    BY <2>2, <2>4, RecentType
  <2> QED BY <2>2, <2>5, BaselineAssumption
<1> QED BY <1>1, Inductive, PTL
=============================================================================
