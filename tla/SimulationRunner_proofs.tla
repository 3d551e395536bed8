----------------------- MODULE SimulationRunner_proofs -----------------------
(***************************************************************************)
(* Proofs about SimulationRunner and the collector it reports to, for      *)
(* every set of clients, batches and rates, and any number of requests.    *)
(***************************************************************************)
EXTENDS SimulationRunner, FiniteSetTheorems, TLAPS, WellFoundedInduction

-----------------------------------------------------------------------------
(***************************************************************************)
(* Induction over the naturals, from the well-foundedness of < alone, and  *)
(* functions defined by recursion on their first N arguments.              *)
(***************************************************************************)

\* Every nonempty set of naturals has a least element.
LEMMA LeastNatural ==
  ASSUME NEW T, T \subseteq Nat, T # {}
  PROVE  \E x \in T : \A y \in T : x <= y
<1> DEFINE R == OpToRel(<, Nat)
<1>1. IsWellFoundedOn(R, Nat)
  BY NatLessThanWellFounded
<1>2. PICK x \in T : \A y \in T : ~(<<y, x>> \in R)
  <2> HIDE DEF R
  <2> QED BY <1>1, WFMin
<1>3. \A y \in T : ~(y < x)
  BY <1>2 DEF OpToRel
<1> HIDE DEF R
<1> QED BY <1>2, <1>3

\* Induction, over a set instead of a predicate.
LEMMA NaturalInduction ==
  ASSUME NEW S, S \subseteq Nat, 0 \in S, \A n \in S : n + 1 \in S
  PROVE  Nat \subseteq S
<1> SUFFICES ASSUME Nat \ S # {} PROVE FALSE
  OBVIOUS
<1>1. PICK n \in Nat \ S : \A m \in Nat \ S : n <= m
  BY LeastNatural
<1>2. n # 0 /\ n - 1 \in Nat /\ n - 1 < n
  BY <1>1
<1>3. n - 1 \in S
  BY <1>1, <1>2
<1>4. (n - 1) + 1 \in S
  BY <1>3
<1> QED BY <1>1, <1>2, <1>4

\* A step function and a start define a function on 0..N.
LEMMA Recursion ==
  ASSUME NEW S, NEW a \in S, NEW N \in Nat, NEW F \in [1..N -> [S -> S]]
  PROVE  \E f \in [0..N -> S] : f[0] = a /\ \A n \in 1..N : f[n] = F[n][f[n - 1]]
<1> DEFINE IsSoFar(m, f) == f[0] = a /\ \A n \in 1..m : f[n] = F[n][f[n - 1]]
           T == {m \in Nat : m <= N => \E f \in [0..m -> S] : IsSoFar(m, f)}
<1>1. 0 \in T
  <2>1. [n \in 0..0 |-> a] \in [0..0 -> S] /\ IsSoFar(0, [n \in 0..0 |-> a])
    OBVIOUS
  <2> QED BY <2>1
<1>2. ASSUME NEW m \in T PROVE m + 1 \in T
  <2> SUFFICES ASSUME m + 1 <= N
               PROVE  \E f \in [0..m + 1 -> S] : IsSoFar(m + 1, f)
    OBVIOUS
  <2>1. PICK f \in [0..m -> S] : IsSoFar(m, f)
    OBVIOUS
  <2> DEFINE g == [n \in 0..m + 1 |-> IF n = m + 1 THEN F[m + 1][f[m]] ELSE f[n]]
  <2>2. F[m + 1][f[m]] \in S
    OBVIOUS
  <2>3. g \in [0..m + 1 -> S]
    BY <2>2
  <2>4. g[0] = a /\ g[m + 1] = F[m + 1][g[m]]
    BY <2>1
  <2>5. ASSUME NEW n \in 1..m PROVE g[n] = F[n][g[n - 1]]
    <3>1. g[n] = f[n] /\ g[n - 1] = f[n - 1]
      OBVIOUS
    <3> QED BY <2>1, <3>1
  <2>6. IsSoFar(m + 1, g)
    <3> HIDE DEF g
    <3>1. ASSUME NEW n \in 1..m + 1 PROVE g[n] = F[n][g[n - 1]]
      <4>1. CASE n = m + 1
        <5>1. n - 1 = m
          BY <4>1
        <5> QED BY <2>4, <4>1, <5>1
      <4>2. CASE n # m + 1
        <5>1. n \in 1..m
          BY <4>2
        <5> QED BY <2>5, <5>1
      <4> QED BY <4>1, <4>2
    <3> QED BY <2>4, <3>1
  <2> QED BY <2>3, <2>6
<1>3. N \in T
  <2>1. T \subseteq Nat
    OBVIOUS
  <2> HIDE DEF T
  <2> QED BY <1>1, <1>2, <2>1, NaturalInduction
<1> QED BY <1>3

-----------------------------------------------------------------------------
(***************************************************************************)
(* Sums over a finite set: SumFunction takes its summands in some order.   *)
(***************************************************************************)

\* The summand SumFunction takes next.
NextOf(s) == CHOOSE x \in s : TRUE

\* Taking elements out of a finite set, one by one, leads to the empty set.
LEMMA FiniteInduction ==
  ASSUME NEW D, IsFiniteSet(D), NEW T, {} \in T,
         \A s \in SUBSET D : s # {} /\ s \ {NextOf(s)} \in T => s \in T
  PROVE  SUBSET D \subseteq T
<1> DEFINE U == {n \in Nat : \A s \in SUBSET D : Cardinality(s) = n => s \in T}
<1>1. \A s \in SUBSET D : IsFiniteSet(s) /\ Cardinality(s) \in Nat
  BY FS_Subset, FS_CardinalityType
<1>2. 0 \in U
  BY <1>1, FS_EmptySet
<1>3. ASSUME NEW n \in U PROVE n + 1 \in U
  <2> SUFFICES ASSUME NEW s \in SUBSET D, Cardinality(s) = n + 1 PROVE s \in T
    OBVIOUS
  <2>1. s # {}
    BY FS_EmptySet
  <2>2. NextOf(s) \in s
    BY <2>1 DEF NextOf
  <2>3. Cardinality(s \ {NextOf(s)}) = n
    <3>1. IsFiniteSet(s) /\ n \in Nat
      BY <1>1
    <3>2. Cardinality(s \ {NextOf(s)}) = Cardinality(s) - 1
      <4> HIDE DEF U
      <4> QED BY <2>2, <3>1, FS_RemoveElement
    <3> QED BY <3>1, <3>2
  <2>4. s \ {NextOf(s)} \in T
    BY <2>3
  <2> QED BY <2>1, <2>4
<1>4. U \subseteq Nat
  OBVIOUS
<1>5. Nat \subseteq U
  <2> HIDE DEF U
  <2> QED BY <1>2, <1>3, <1>4, NaturalInduction
<1> QED BY <1>1, <1>5

\* g gives the sum of f over every subset of its domain.
IsSum(f, D, g) ==
  /\ g \in [SUBSET D -> Int]
  /\ g[{}] = 0
  /\ \A s \in SUBSET D : s # {} => g[s] = f[NextOf(s)] + g[s \ {NextOf(s)}]

\* The recursion of SumFunction defines such sums.
LEMMA SumExists ==
  ASSUME NEW D, IsFiniteSet(D), NEW f \in [D -> Int]
  PROVE  \E g : IsSum(f, D, g) /\ SumFunction(f) = g[D]
<1> DEFINE Term(s, g) == IF s = {} THEN 0 ELSE f[NextOf(s)] + g[s \ {NextOf(s)}]
           UpTo(n, g) == \A s \in SUBSET D : Cardinality(s) <= n => g[s] = Term(s, g)
           U == {n \in Nat : \E g \in [SUBSET D -> Int] : UpTo(n, g)}
           Loop(g) == [s \in SUBSET D |-> Term(s, g)]
<1>1. \A s \in SUBSET D : IsFiniteSet(s) /\ Cardinality(s) \in Nat
  BY FS_Subset, FS_CardinalityType
<1>2. ASSUME NEW s \in SUBSET D, s # {}
      PROVE  /\ NextOf(s) \in D /\ s \ {NextOf(s)} \in SUBSET D
             /\ Cardinality(s \ {NextOf(s)}) = Cardinality(s) - 1
  <2>1. NextOf(s) \in s
    BY <1>2 DEF NextOf
  <2> QED BY <1>1, <2>1, FS_RemoveElement
<1>3. ASSUME NEW s \in SUBSET D, NEW g \in [SUBSET D -> Int] PROVE Term(s, g) \in Int
  BY <1>2
<1>4. 0 \in U
  <2> DEFINE g == [s \in SUBSET D |-> 0]
  <2>1. g \in [SUBSET D -> Int]
    OBVIOUS
  <2>2. UpTo(0, g)
    <3>1. \A s \in SUBSET D : Cardinality(s) <= 0 => s = {}
      BY <1>1, FS_EmptySet
    <3> QED BY <3>1
  <2> QED BY <2>1, <2>2
<1>5. ASSUME NEW n \in U PROVE n + 1 \in U
  <2>1. PICK g \in [SUBSET D -> Int] : UpTo(n, g)
    OBVIOUS
  <2> DEFINE h == [s \in SUBSET D |-> IF Cardinality(s) <= n THEN g[s] ELSE Term(s, g)]
  <2>2. h \in [SUBSET D -> Int]
    BY <1>3
  <2>3. ASSUME NEW s \in SUBSET D, Cardinality(s) <= n + 1 PROVE h[s] = Term(s, h)
    <3>1. h[s] = Term(s, g)
      BY <2>1
    <3>2. ASSUME s # {} PROVE h[s \ {NextOf(s)}] = g[s \ {NextOf(s)}]
      <4>1. /\ s \ {NextOf(s)} \in SUBSET D
            /\ Cardinality(s \ {NextOf(s)}) = Cardinality(s) - 1
            /\ Cardinality(s) \in Nat /\ n \in Nat
        BY <1>1, <1>2, <3>2
      <4>2. Cardinality(s \ {NextOf(s)}) <= n
        BY <2>3, <4>1
      <4> QED BY <4>1, <4>2
    <3>3. Term(s, h) = Term(s, g)
      <4> HIDE DEF h
      <4> QED BY <3>2
    <3> QED BY <3>1, <3>3
  <2>4. UpTo(n + 1, h)
    <3> HIDE DEF h, Term
    <3> QED BY <2>3
  <2> HIDE DEF h, UpTo
  <2> QED BY <2>2, <2>4
<1>6. PICK g \in [SUBSET D -> Int] : g = Loop(g)
  <2>1. Cardinality(D) \in U
    <3>1. U \subseteq Nat /\ Cardinality(D) \in Nat
      BY FS_CardinalityType
    <3> HIDE DEF U
    <3> QED BY <1>4, <1>5, <3>1, NaturalInduction
  <2>2. PICK g \in [SUBSET D -> Int] : UpTo(Cardinality(D), g)
    BY <2>1
  <2>3. \A s \in SUBSET D : g[s] = Term(s, g)
    BY <1>1, <2>2, FS_Subset
  <2>4. g = [s \in SUBSET D |-> g[s]]
    OBVIOUS
  <2>5. g = Loop(g)
    <3> HIDE DEF Term
    <3> QED BY <2>3, <2>4
  <2> QED BY <2>5
<1> DEFINE sum == CHOOSE v : v = Loop(v)
<1>7. sum = Loop(sum)
  <2> HIDE DEF Loop
  <2> QED BY <1>6
<1>8. DOMAIN f = D
  OBVIOUS
<1>9. SumFunction(f) = sum[D]
  BY <1>8 DEF SumFunction, SumFunctionOnSet, FoldFunctionOnSet, MapThenFoldSet, NextOf
<1> HIDE DEF sum
<1>10. /\ sum[{}] = 0
       /\ \A s \in SUBSET D : s # {} => sum[s] = f[NextOf(s)] + sum[s \ {NextOf(s)}]
  BY <1>7
<1>11. \A s \in SUBSET D : sum[s] \in Int
  <2> DEFINE T == {s \in SUBSET D : sum[s] \in Int}
  <2>1. {} \in T
    BY <1>10
  <2>2. ASSUME NEW s \in SUBSET D, s # {}, s \ {NextOf(s)} \in T PROVE s \in T
    <3>1. NextOf(s) \in D /\ f[NextOf(s)] \in Int
      BY <1>2, <2>2
    <3>2. sum[s \ {NextOf(s)}] \in Int
      BY <2>2
    <3>3. sum[s] = f[NextOf(s)] + sum[s \ {NextOf(s)}]
      BY <1>10, <2>2
    <3>4. sum[s] \in Int
      BY <3>1, <3>2, <3>3
    <3> QED BY <3>4
  <2> HIDE DEF T
  <2>3. SUBSET D \subseteq T
    BY <2>1, <2>2, FiniteInduction
  <2> QED BY <2>3 DEF T
<1>12. sum \in [SUBSET D -> Int]
  BY <1>7, <1>11
<1> QED BY <1>9, <1>10, <1>12 DEF IsSum

\* The order of the summands does not matter.
Orderless(f, D, g) == \A s \in SUBSET D : \A x \in s : g[s] = f[x] + g[s \ {x}]

LEMMA AnyOrder ==
  ASSUME NEW D, IsFiniteSet(D), NEW f \in [D -> Int], NEW g, IsSum(f, D, g)
  PROVE  Orderless(f, D, g)
<1> DEFINE U == {n \in Nat : \A s \in SUBSET D : Cardinality(s) = n =>
                               \A x \in s : g[s] = f[x] + g[s \ {x}]}
<1>1. \A s \in SUBSET D : IsFiniteSet(s) /\ Cardinality(s) \in Nat
  BY FS_Subset, FS_CardinalityType
<1>2. \A s \in SUBSET D : \A x \in s : Cardinality(s \ {x}) = Cardinality(s) - 1
  BY <1>1, FS_RemoveElement
<1>3. 0 \in U
  <2>1. \A s \in SUBSET D : Cardinality(s) = 0 => s = {}
    BY <1>1, FS_EmptySet
  <2> QED BY <2>1
<1>4. ASSUME NEW n \in U PROVE n + 1 \in U
  <2> SUFFICES ASSUME NEW s \in SUBSET D, Cardinality(s) = n + 1, NEW x \in s
               PROVE  g[s] = f[x] + g[s \ {x}]
    OBVIOUS
  <2> DEFINE y == NextOf(s)
             r == s \ {x, y}
  <2>1. y \in s
    BY DEF NextOf
  <2>2. g[s] = f[y] + g[s \ {y}]
    BY DEF IsSum
  <2>3. Cardinality(s \ {x}) = n /\ Cardinality(s \ {y}) = n
    <3>1. n \in Nat
      OBVIOUS
    <3> HIDE DEF U, y
    <3> QED BY <1>2, <2>1, <3>1
  <2>4. CASE x = y
    BY <2>2, <2>4
  <2>5. CASE x # y
    <3>1. s \ {x} \in SUBSET D /\ s \ {y} \in SUBSET D /\ r \in SUBSET D
      OBVIOUS
    <3>2. y \in s \ {x} /\ x \in s \ {y}
      BY <2>1, <2>5
    <3>3. (s \ {x}) \ {y} = r /\ (s \ {y}) \ {x} = r
      OBVIOUS
    <3> HIDE DEF y, r
    <3>4. g[s \ {x}] = f[y] + g[r] /\ g[s \ {y}] = f[x] + g[r]
      BY <2>3, <3>1, <3>2, <3>3
    <3>5. f[x] \in Int /\ f[y] \in Int /\ g[r] \in Int
      BY <2>1, <3>1 DEF IsSum
    <3> QED BY <2>2, <3>4, <3>5
  <2> QED BY <2>4, <2>5
<1>5. U \subseteq Nat
  OBVIOUS
<1>6. Nat \subseteq U
  <2> HIDE DEF U
  <2> QED BY <1>3, <1>4, <1>5, NaturalInduction
<1> QED BY <1>1, <1>6 DEF Orderless

\* A sum is the sum over a part of the summands and that over the rest.
LEMMA SumSplit ==
  ASSUME NEW D, IsFiniteSet(D), NEW S \in SUBSET D, NEW f \in [D -> Int]
  PROVE  /\ SumFunction(f) \in Int
         /\ SumFunction(Restrict(f, S)) \in Int /\ SumFunction(Restrict(f, D \ S)) \in Int
         /\ SumFunction(f) = SumFunction(Restrict(f, S)) + SumFunction(Restrict(f, D \ S))
<1> DEFINE R == D \ S
           g == Restrict(f, S)
           h == Restrict(f, R)
<1>1. IsFiniteSet(S) /\ IsFiniteSet(R) /\ R \in SUBSET D
  BY FS_Subset
<1>2. g \in [S -> Int] /\ h \in [R -> Int]
  BY DEF Restrict
<1>3. \A x \in S : g[x] = f[x]
  BY DEF Restrict
<1>4. \A x \in R : h[x] = f[x]
  BY DEF Restrict
<1> HIDE DEF g, h
<1>5. PICK F : IsSum(f, D, F) /\ SumFunction(f) = F[D]
  BY SumExists
<1>6. PICK G : IsSum(g, S, G) /\ SumFunction(g) = G[S]
  BY <1>1, <1>2, SumExists
<1>7. PICK H : IsSum(h, R, H) /\ SumFunction(h) = H[R]
  <2> HIDE DEF R
  <2> QED BY <1>1, <1>2, SumExists
<1>8. Orderless(g, S, G)
  BY <1>1, <1>2, <1>6, AnyOrder
<1>9. Orderless(h, R, H)
  <2> HIDE DEF R
  <2> QED BY <1>1, <1>2, <1>7, AnyOrder
<1>10. /\ \A s \in SUBSET S : G[s] \in Int
       /\ \A s \in SUBSET R : H[s] \in Int
       /\ F[D] \in Int /\ F[{}] = 0 /\ G[{}] = 0 /\ H[{}] = 0
  BY <1>5, <1>6, <1>7 DEF IsSum
<1> DEFINE T == {s \in SUBSET D : F[s] = G[s \cap S] + H[s \cap R]}
<1>11. {} \in T
  <2>1. {} \cap S = {} /\ {} \cap R = {}
    OBVIOUS
  <2> HIDE DEF R
  <2> QED BY <1>10, <2>1
<1>12. ASSUME NEW s \in SUBSET D, s # {}, s \ {NextOf(s)} \in T PROVE s \in T
  <2> DEFINE x == NextOf(s)
             t == s \ {x}
  <2>1. x \in s /\ x \in D
    BY <1>12 DEF NextOf
  <2>2. F[s] = f[x] + F[t]
    BY <1>5, <1>12 DEF IsSum
  <2>3. F[t] = G[t \cap S] + H[t \cap R]
    BY <1>12
  <2>4. /\ s \cap S \in SUBSET S /\ s \cap R \in SUBSET R
        /\ t \cap S \in SUBSET S /\ t \cap R \in SUBSET R
    OBVIOUS
  <2>5. CASE x \in S
    <3>1. x \in s \cap S /\ t \cap S = (s \cap S) \ {x} /\ t \cap R = s \cap R
      BY <2>1, <2>5
    <3> HIDE DEF x, t, R
    <3>2. G[s \cap S] = g[x] + G[t \cap S]
      BY <1>8, <2>4, <3>1 DEF Orderless
    <3>3. F[s] = G[s \cap S] + H[s \cap R]
      <4>1. f[x] \in Int /\ g[x] = f[x]
        BY <1>3, <2>1, <2>5
      <4>2. G[t \cap S] \in Int /\ H[s \cap R] \in Int
        BY <1>10, <2>4
      <4>3. F[s] = f[x] + (G[t \cap S] + H[s \cap R])
        BY <2>2, <2>3, <3>1, <4>2
      <4> QED BY <3>2, <4>1, <4>2, <4>3
    <3> QED BY <3>3
  <2>6. CASE x \in R
    <3>1. x \in s \cap R /\ t \cap R = (s \cap R) \ {x} /\ t \cap S = s \cap S
      BY <2>1, <2>6
    <3> HIDE DEF x, t, R
    <3>2. H[s \cap R] = h[x] + H[t \cap R]
      BY <1>9, <2>4, <3>1 DEF Orderless
    <3>3. F[s] = G[s \cap S] + H[s \cap R]
      <4>1. f[x] \in Int /\ h[x] = f[x]
        BY <1>4, <2>1, <2>6
      <4>2. H[t \cap R] \in Int /\ G[s \cap S] \in Int
        BY <1>10, <2>4
      <4>3. F[s] = f[x] + (G[s \cap S] + H[t \cap R])
        BY <2>2, <2>3, <3>1, <4>2
      <4> QED BY <3>2, <4>1, <4>2, <4>3
    <3> QED BY <3>3
  <2> QED BY <2>1, <2>5, <2>6
<1>13. SUBSET D \subseteq T
  <2> HIDE DEF T
  <2> QED BY <1>11, <1>12, FiniteInduction
<1>14. F[D] = G[S] + H[R]
  <2>1. D \in T /\ D \cap S = S /\ D \cap R = R
    BY <1>13
  <2> QED BY <2>1
<1> QED BY <1>5, <1>6, <1>7, <1>10, <1>14 DEF g, h

\* Larger summands have a larger sum.
LEMMA SumBounds ==
  ASSUME NEW D, IsFiniteSet(D), NEW f \in [D -> Int], NEW g \in [D -> Int],
         \A x \in D : 0 <= f[x] /\ f[x] <= g[x]
  PROVE  /\ SumFunction(f) \in Int /\ SumFunction(g) \in Int
         /\ 0 <= SumFunction(f) /\ SumFunction(f) <= SumFunction(g)
<1>1. PICK F : IsSum(f, D, F) /\ SumFunction(f) = F[D]
  BY SumExists
<1>2. PICK G : IsSum(g, D, G) /\ SumFunction(g) = G[D]
  BY SumExists
<1> DEFINE T == {s \in SUBSET D : 0 <= F[s] /\ F[s] <= G[s]}
<1>3. {} \in T
  BY <1>1, <1>2 DEF IsSum
<1>4. ASSUME NEW s \in SUBSET D, s # {}, s \ {NextOf(s)} \in T PROVE s \in T
  <2> DEFINE x == NextOf(s)
             r == s \ {x}
  <2>1. x \in D /\ r \in SUBSET D
    BY <1>4 DEF NextOf
  <2>2. /\ F[s] = f[x] + F[r] /\ G[s] = g[x] + G[r]
        /\ F[r] \in Int /\ G[r] \in Int
    BY <1>1, <1>2, <1>4, <2>1 DEF IsSum
  <2>3. 0 <= F[r] /\ F[r] <= G[r]
    BY <1>4
  <2>4. f[x] \in Int /\ g[x] \in Int /\ 0 <= f[x] /\ f[x] <= g[x]
    BY <2>1
  <2> HIDE DEF x, r
  <2>5. 0 <= F[s] /\ F[s] <= G[s]
    BY <2>2, <2>3, <2>4
  <2> QED BY <2>5
<1>5. SUBSET D \subseteq T
  <2> HIDE DEF T
  <2> QED BY <1>3, <1>4, FiniteInduction
<1>6. F[D] \in Int /\ G[D] \in Int
  BY <1>1, <1>2 DEF IsSum
<1> QED BY <1>1, <1>2, <1>5, <1>6

\* One summand more.
LEMMA SumOneMore ==
  ASSUME NEW D, IsFiniteSet(D), NEW x, x \notin D, NEW f \in [D \cup {x} -> Int]
  PROVE  /\ SumFunction(Restrict(f, D)) \in Int
         /\ SumFunction(f) = SumFunction(Restrict(f, D)) + f[x]
<1> DEFINE E == D \cup {x}
           g == Restrict(f, D)
           h == Restrict(f, E \ D)
<1>1. IsFiniteSet(E) /\ D \in SUBSET E /\ E \ D = {x}
  BY FS_AddElement
<1>2. /\ SumFunction(f) \in Int /\ SumFunction(g) \in Int /\ SumFunction(h) \in Int
      /\ SumFunction(f) = SumFunction(g) + SumFunction(h)
  <2>1. f \in [E -> Int]
    OBVIOUS
  <2> HIDE DEF E
  <2> QED BY <1>1, <2>1, SumSplit
<1>3. SumFunction(h) = f[x]
  <2> DEFINE S == {x}
  <2>1. h \in [S -> Int] /\ h[x] = f[x] /\ f[x] \in Int
    BY <1>1 DEF Restrict
  <2> HIDE DEF h
  <2>2. IsFiniteSet(S)
    BY FS_Singleton
  <2>3. PICK H : IsSum(h, S, H) /\ SumFunction(h) = H[S]
    <3> HIDE DEF S
    <3> QED BY <2>1, <2>2, SumExists
  <2>4. NextOf(S) = x /\ S \ {x} = {} /\ S # {} /\ S \in SUBSET S
    BY DEF NextOf
  <2>5. H[S] = h[x] + H[{}] /\ H[{}] = 0
    <3> HIDE DEF S
    <3> QED BY <2>3, <2>4 DEF IsSum
  <2> QED BY <2>1, <2>3, <2>5
<1> QED BY <1>2, <1>3

-----------------------------------------------------------------------------
(***************************************************************************)
(* The schedule.                                                           *)
(***************************************************************************)

LEMMA Exact ==
  ASSUME NEW a \in Nat, NEW d \in Nat \ {0}
  PROVE  Round(a * d, d) = a
<1>1. (a * d) \div d = a /\ (a * d) % d = 0
  OBVIOUS
<1> QED BY <1>1 DEF Round

LEMMA NoRest ==
  ASSUME NEW a \in Nat, NEW d \in Nat \ {0}, a % d = 0
  PROVE  a \div d \in Nat /\ (a \div d) * d = a
<1>1. a \div d \in Nat /\ a % d = a - d * (a \div d)
  OBVIOUS
<1> QED BY <1>1

LEMMA Rounded ==
  ASSUME NEW a \in Nat, NEW d \in Nat \ {0}
  PROVE  Round(a, d) \in Nat
<1>1. a \div d \in Nat
  OBVIOUS
<1> QED BY <1>1 DEF Round

\* Products keep the order of their factors.
LEMMA Products ==
  ASSUME NEW a \in Nat, NEW b \in Nat, NEW c \in Nat
  PROVE  /\ a * c \in Nat
         /\ a <= b => a * c <= b * c /\ c * a <= c * b
         /\ c # 0 /\ a * c <= b * c => a <= b
<1>1. a * c \in Nat /\ c * a = a * c /\ c * b = b * c
  OBVIOUS
<1>2. a <= b => a * c <= b * c
  <2> SUFFICES ASSUME a <= b PROVE a * c <= b * c
    OBVIOUS
  <2>1. b - a \in Nat /\ b * c = a * c + (b - a) * c /\ (b - a) * c \in Nat
    OBVIOUS
  <2> QED BY <1>1, <2>1
<1>3. c # 0 /\ a * c <= b * c => a <= b
  <2> SUFFICES ASSUME c # 0, b < a PROVE b * c < a * c
    OBVIOUS
  <2>1. a - b - 1 \in Nat /\ a * c = b * c + (a - b - 1) * c + c
    OBVIOUS
  <2>2. (a - b - 1) * c \in Nat /\ b * c \in Nat
    BY <2>1
  <2> QED BY <2>1, <2>2
<1> QED BY <1>1, <1>2, <1>3

\* Rounding adds at most a half.
LEMMA RoundedUp ==
  ASSUME NEW a \in Nat, NEW d \in Nat \ {0}
  PROVE  2 * (Round(a, d) * d) <= 2 * a + d
<1> DEFINE w == a \div d
           r == a % d
<1>1. w \in Nat /\ r \in Nat /\ a = w * d + r
  OBVIOUS
<1>2. Round(a, d) = IF 2 * r > d \/ (2 * r = d /\ w % 2 = 1) THEN w + 1 ELSE w
  BY DEF Round
<1> HIDE DEF w, r
<1>3. w * d \in Nat /\ (w + 1) * d = w * d + d
  BY <1>1
<1>4. CASE 2 * r >= d /\ Round(a, d) = w + 1
  BY <1>1, <1>3, <1>4
<1>5. CASE Round(a, d) = w
  BY <1>1, <1>3, <1>5
<1> QED BY <1>1, <1>2, <1>4, <1>5

LEMMA FullBatch ==
  FULL_BATCH \in Nat \ {0} /\ FULL_BATCH = UNIT * MAX_BATCH
<1>1. UNIT \in Nat \ {0} /\ MAX_BATCH \in Nat \ {0}
  BY SimulatorAssumption
<1>2. UNIT * MAX_BATCH \in Nat \ {0}
  BY <1>1
<1> QED BY <1>2 DEF FULL_BATCH

\* The batches of a rate, sent one interval apart, do not exceed its allowance.
LEMMA RateIsKept ==
  ASSUME NEW rate \in TargetRates
  PROVE  /\ BatchRate(rate) \in Nat \ {0}
         /\ BatchSize(rate) \in 1..MAX_BATCH
         /\ Interval(rate) \in Nat \ {0}
         /\ Allowance(rate) \in Nat
         /\ 2 * UNIT * SECOND * BatchSize(rate) <= Allowance(rate) * Interval(rate)
<1> DEFINE M == MAX_BATCH
           B == MAX_BATCHES_PER_SECOND
           S == SECOND
           W == FULL_BATCH
           br == BatchRate(rate)
           size == BatchSize(rate)
           int == Interval(rate)
           all == Allowance(rate)
           n == Round(rate * M, br)
<1>1. /\ M \in Nat \ {0} /\ B \in Nat \ {0} /\ S \in Nat \ {0} /\ rate \in Nat \ {0}
      /\ UNIT \in Nat \ {0} /\ W \in Nat \ {0} /\ W = UNIT * M
  BY SimulatorAssumption, FullBatch
<1>2. B * W \in Nat /\ W <= B * W /\ rate * M \in Nat /\ S * W \in Nat \ {0}
  <2> HIDE DEF W
  <2>1. B * W = W + (B - 1) * W /\ B - 1 \in Nat
    BY <1>1
  <2>2. (B - 1) * W \in Nat
    BY <1>1, <2>1
  <2> QED BY <1>1, <2>1, <2>2
<1>3. /\ br \in Nat \ {0}
      /\ rate < W => br = W
      /\ W <= rate => br <= rate
  <2>1. br = AtMost(B * W, AtLeast(W, rate))
    BY DEF BatchRate
  <2> HIDE DEF W, br
  <2> QED BY <1>1, <1>2, <2>1 DEF AtMost, AtLeast
<1>4. size \in 1..M /\ n \in Nat /\ (size <= n \/ size = 1)
  <2>1. n \in Nat
    BY <1>2, <1>3, Rounded
  <2>2. size = AtMost(AtLeast(1, n), M)
    BY DEF BatchSize
  <2> HIDE DEF n, size, M
  <2> QED BY <1>1, <2>1, <2>2 DEF AtMost, AtLeast
<1>5. all = IF rate % UNIT = 0 \/ rate >= W THEN 2 * rate
            ELSE AtLeast(2 * UNIT, 2 * rate + UNIT)
  BY DEF Allowance
<1>6. all \in Nat /\ 2 * (size * br) <= all * M
  <2>1. CASE W <= rate
    <3>1. size \in Nat /\ size <= M /\ br \in Nat /\ br <= rate /\ all = 2 * rate
      BY <1>1, <1>3, <1>4, <1>5, <2>1
    <3> HIDE DEF M, br, size, all
    <3>2. size * br <= M * br /\ M * br <= M * rate
      BY <1>1, <3>1, Products
    <3>3. /\ size * br \in Nat /\ M * br \in Nat /\ M * rate \in Nat
          /\ (2 * rate) * M = 2 * (M * rate) /\ 2 * rate \in Nat
      BY <1>1, <3>1
    <3> QED BY <3>1, <3>2, <3>3
  <2>2. CASE rate < W /\ rate % UNIT = 0
    <3> DEFINE a == rate \div UNIT
    <3>1. a \in Nat /\ a * UNIT = rate
      BY <1>1, <2>2, NoRest
    <3>2. br = W /\ all = 2 * rate
      BY <1>3, <1>5, <2>2
    <3> HIDE DEF a
    <3>3. rate * M = a * W
      BY <1>1, <3>1
    <3>4. n = a
      BY <1>1, <3>1, <3>2, <3>3, Exact
    <3>5. a # 0
      BY <1>1, <3>1
    <3>6. size <= a
      BY <1>1, <1>4, <3>1, <3>4, <3>5
    <3>7. size \in Nat
      BY <1>1, <1>4
    <3> HIDE DEF size, W, br, all, M
    <3>8. size * W <= a * W /\ size * W \in Nat /\ a * W \in Nat
      BY <1>1, <3>1, <3>6, <3>7, Products
    <3>9. (2 * rate) * M = 2 * (rate * M) /\ 2 * rate \in Nat
      BY <1>1
    <3> QED BY <3>2, <3>3, <3>8, <3>9
  <2>3. CASE rate < W /\ rate % UNIT # 0
    <3>1. br = W /\ all = AtLeast(2 * UNIT, 2 * rate + UNIT)
      BY <1>1, <1>3, <1>5, <2>3
    <3>2. 2 * (n * W) <= 2 * (rate * M) + W
      BY <1>1, <1>2, <3>1, RoundedUp
    <3>3. size \in Nat
      BY <1>1, <1>4
    <3>4. 2 * UNIT \in Nat /\ 2 * rate + UNIT \in Nat
      BY <1>1
    <3>5. all \in Nat /\ 2 * UNIT <= all /\ 2 * rate + UNIT <= all
      BY <3>1, <3>4 DEF AtLeast
    <3> HIDE DEF size, n, br, all, M
    <3>6. (2 * UNIT) * M <= all * M /\ (2 * rate + UNIT) * M <= all * M
      BY <1>1, <3>4, <3>5, Products
    <3>7. /\ (2 * UNIT) * M = 2 * W /\ (2 * rate + UNIT) * M = 2 * (rate * M) + W
      BY <1>1
    <3>8. CASE size <= n
      <4>1. size * W <= n * W /\ size * W \in Nat /\ n * W \in Nat
        <5> HIDE DEF W
        <5> QED BY <1>1, <1>4, <3>3, <3>8, Products
      <4>2. all * M \in Nat
        BY <1>1, <3>5
      <4> HIDE DEF W
      <4> QED BY <1>1, <1>2, <3>1, <3>2, <3>5, <3>6, <3>7, <4>1, <4>2
    <3>9. CASE size = 1
      <4> HIDE DEF W
      <4> QED BY <1>1, <3>1, <3>5, <3>6, <3>7, <3>9
    <3> QED BY <1>4, <3>8, <3>9
  <2> QED BY <1>1, <2>1, <2>2, <2>3
<1>7. int \in Nat \ {0} /\ int * br = S * W
  <2>1. (S * W) % br = 0
    BY TickAssumption
  <2>2. int = (S * W) \div br
    BY DEF Interval
  <2> DEFINE p == S * W
  <2>3. p \in Nat \ {0} /\ p % br = 0 /\ int = p \div br
    BY <1>2, <2>1, <2>2
  <2> HIDE DEF p, int, br
  <2>4. int \in Nat /\ int * br = p
    BY <1>3, <2>3, NoRest
  <2>5. int # 0
    BY <1>3, <2>3, <2>4
  <2> QED BY <2>4, <2>5 DEF p
<1>8. 2 * UNIT * S * size <= all * int
  <2>1. size \in Nat /\ br \in Nat \ {0} /\ int \in Nat
    BY <1>1, <1>3, <1>4, <1>7
  <2> HIDE DEF size, S, int, br, M, all, W
  <2> DEFINE x == 2 * (size * br)
             y == all * M
             c == UNIT * S
  <2>2. x \in Nat /\ y \in Nat /\ c \in Nat /\ x <= y
    BY <1>1, <1>6, <2>1
  <2>3. (2 * UNIT * S * size) * br = x * c
    BY <1>1, <2>1
  <2>4. y * c = (all * int) * br
    <3>1. y * c = all * (S * W)
      BY <1>1, <1>6
    <3>2. (all * int) * br = all * (int * br)
      BY <1>6, <2>1
    <3> QED BY <1>7, <3>1, <3>2
  <2>5. (2 * UNIT * S * size) \in Nat /\ all * int \in Nat
    BY <1>1, <1>6, <2>1
  <2> HIDE DEF x, y, c
  <2>6. x * c <= y * c
    BY <2>2, Products
  <2> QED BY <2>1, <2>3, <2>4, <2>5, <2>6, Products
<1> QED BY <1>3, <1>4, <1>6, <1>7, <1>8

\* Where the runner may be, and whether batch number batch is already sent.
Sending == {"events", "spans"}
Places == {"none", "start", "unreachable", "slot", "events", "spans", "sleep", "done"}

\* The runner sends its batches one interval apart or further, and outside of
\* its sleep it is never ahead of the clock.
OnSchedule ==
  /\ qps \in TargetRates
  /\ step \in Places
  /\ now \in Nat /\ next_send \in Nat /\ batch \in Nat
  /\ step # "sleep" => next_send <= now
  /\ next_send <= now + Interval(qps)
  /\ step \notin Sending => batch * Interval(qps) <= next_send
  /\ step \in Sending => batch # 0 /\ (batch - 1) * Interval(qps) <= next_send

LEMMA ScheduleInit ==
  ASSUME SimInit
  PROVE  OnSchedule
<1>1. Interval(qps) \in Nat
  BY RateIsKept DEF SimInit
<1> QED BY <1>1 DEF SimInit, OnSchedule, Places, Sending

\* The next batch is due an interval after this one, or now if that has passed.
LEMMA PaceKeepsTime ==
  ASSUME OnSchedule, step \in Sending, Pace, UNCHANGED <<qps, now, batch>>
  PROVE  OnSchedule'
<1> DEFINE I == Interval(qps)
<1>1. I \in Nat \ {0} /\ UNCHANGED I
  BY RateIsKept DEF OnSchedule
<1>2. /\ next_send \in Nat /\ now \in Nat /\ batch \in Nat \ {0}
      /\ next_send <= now /\ (batch - 1) * I <= next_send
  BY DEF OnSchedule, Sending
<1>3. batch * I = (batch - 1) * I + I /\ (batch - 1) * I \in Nat
  BY <1>1, <1>2
<1>4. batch * I <= next_send + I
  BY <1>1, <1>2, <1>3
<1>5. \/ next_send + I > now /\ next_send' = next_send + I /\ step' = "sleep"
      \/ next_send + I <= now /\ next_send' = now /\ step' = "slot"
  BY <1>1, <1>2 DEF Pace
<1>6. qps' \in TargetRates /\ UNCHANGED <<qps, now, batch>>
  BY DEF OnSchedule
<1> HIDE DEF I
<1>7. /\ step' \in {"sleep", "slot"} /\ next_send' \in Nat
      /\ next_send' <= now' + I /\ batch' * I <= next_send'
      /\ step' # "sleep" => next_send' <= now'
  <2>1. CASE next_send + I > now /\ next_send' = next_send + I /\ step' = "sleep"
    BY <1>1, <1>2, <1>4, <1>6, <2>1
  <2>2. CASE next_send + I <= now /\ next_send' = now /\ step' = "slot"
    <3>1. batch * I \in Nat
      BY <1>1, <1>2
    <3> QED BY <1>1, <1>2, <1>4, <1>6, <2>2, <3>1
  <2> QED BY <1>5, <2>1, <2>2
<1> QED BY <1>1, <1>2, <1>6, <1>7 DEF OnSchedule, Places, Sending, I

LEMMA ScheduleNext ==
  ASSUME OnSchedule, [SimNext]_allVars
  PROVE  OnSchedule'
<1>1. Interval(qps) \in Nat \ {0} /\ now \in Nat /\ next_send \in Nat /\ batch \in Nat
  BY RateIsKept DEF OnSchedule
<1>2. CASE Begin
  BY <1>1, <1>2 DEF Begin, OnSchedule, Places, Sending
<1>3. CASE Slot
  <2>1. /\ step = "slot" /\ step' = "events" /\ batch' = batch + 1
        /\ UNCHANGED <<qps, now, next_send>>
    BY <1>3 DEF Slot
  <2>2. batch' # 0 /\ batch' - 1 = batch /\ batch' \in Nat
    BY <1>1, <2>1
  <2> QED BY <1>1, <2>1, <2>2 DEF OnSchedule, Places, Sending
<1>4. CASE Finish
  BY <1>1, <1>4 DEF Finish, OnSchedule, Places, Sending
<1>5. CASE EventsSent
  <2>1. step = "events" /\ UNCHANGED <<qps, now, batch>>
    BY <1>5 DEF EventsSent
  <2>2. CASE Pace
    BY <2>1, <2>2, PaceKeepsTime DEF Sending
  <2>3. CASE step' = "spans" /\ UNCHANGED next_send
    BY <1>1, <2>1, <2>3 DEF OnSchedule, Places, Sending
  <2> QED BY <1>5, <2>2, <2>3 DEF EventsSent
<1>6. CASE SpansSent
  BY <1>6, PaceKeepsTime DEF SpansSent, Sending
<1>7. CASE Wake
  BY <1>1, <1>7 DEF Wake, OnSchedule, Places, Sending
<1>8. CASE Tick
  BY <1>1, <1>8 DEF Tick, OnSchedule, Places, Sending
<1>9. CASE UNCHANGED runnerVars
  BY <1>1, <1>9 DEF runnerVars, OnSchedule
<1> QED BY <1>2, <1>3, <1>4, <1>5, <1>6, <1>7, <1>8, <1>9
        DEF SimNext, Run, Around, allVars, runnerVars

\* The schedule keeps the batches an interval apart and an interval is long
\* enough for a batch at the target rate.
LEMMA ScheduleKeepsRate ==
  ASSUME OnSchedule
  PROVE  NeverFasterThanAsked
<1> DEFINE I == Interval(qps)
           size == BatchSize(qps)
           all == Allowance(qps)
           x == 2 * UNIT * SECOND * size
<1>1. /\ qps \in TargetRates /\ UNIT \in Nat /\ SECOND \in Nat /\ MAX_BATCH \in Nat
  BY SimulatorAssumption DEF OnSchedule
<1>2. I \in Nat \ {0} /\ size \in Nat /\ all \in Nat /\ x <= all * I
  BY <1>1, RateIsKept
<1>3. /\ now \in Nat /\ next_send \in Nat /\ batch \in Nat
      /\ next_send <= now + I
      /\ step # "sleep" => next_send <= now
      /\ step \notin Sending => batch * I <= next_send
      /\ step \in Sending => batch # 0 /\ (batch - 1) * I <= next_send
  BY DEF OnSchedule
<1> HIDE DEF I, size, all
<1>4. batch * I = (batch - 1) * I + I /\ batch * I \in Nat
  BY <1>2, <1>3
<1>5. batch # 0 => (batch - 1) * I \in Nat
  BY <1>2, <1>3
<1>6. batch * I <= now + I
  <2>1. CASE step \in Sending
    BY <1>2, <1>3, <1>4, <1>5, <2>1 DEF Sending
  <2>2. CASE step \notin Sending
    BY <1>2, <1>3, <1>4, <2>2
  <2> QED BY <2>1, <2>2
<1>7. batch > 0 => (batch - 1) * I <= now
  BY <1>2, <1>3, <1>4, <1>5, <1>6
<1>8. 2 * UNIT * SECOND * batch * size <= all * (now + I)
  <2>1. x \in Nat /\ x * batch = 2 * UNIT * SECOND * batch * size
    BY <1>1, <1>2, <1>3
  <2> HIDE DEF x
  <2>2. all * I \in Nat /\ all * (now + I) \in Nat
    BY <1>2, <1>3
  <2>3. x * batch <= (all * I) * batch
    BY <1>2, <1>3, <2>1, <2>2, Products
  <2>4. all * (batch * I) <= all * (now + I)
    BY <1>2, <1>3, <1>4, <1>6, Products
  <2>5. (all * I) * batch = all * (batch * I) /\ (all * I) * batch \in Nat
    BY <1>2, <1>3
  <2>6. x * batch \in Nat
    BY <1>3, <2>1
  <2> QED BY <2>1, <2>2, <2>3, <2>4, <2>5, <2>6
<1> QED BY <1>7, <1>8 DEF NeverFasterThanAsked, I, size, all

\* However late the collector, the timer or the process are, the runner exceeds
\* its target rate, which may be any positive fraction, by no more than its
\* rounding and never catches up in a burst. (run(), plan_batches())
THEOREM NeverFaster == SimSpec => []NeverFasterThanAsked
<1>1. SimInit => OnSchedule
  BY ScheduleInit
<1>2. OnSchedule /\ [SimNext]_allVars => OnSchedule'
  BY ScheduleNext
<1>3. OnSchedule => NeverFasterThanAsked
  BY ScheduleKeepsRate
<1> QED BY <1>1, <1>2, <1>3, PTL DEF SimSpec
-----------------------------------------------------------------------------
(***************************************************************************)
(* What the collector makes of the entries of a request.                   *)
(***************************************************************************)

\* The loop of ingest_events() and ingest_spans(), entry by entry.
LEMMA ValidByOne ==
  ASSUME NEW E, NEW es \in Seq(E)
  PROVE  \E v \in [0..Len(es) -> Seq(E)] :
            /\ v[0] = <<>>
            /\ \A n \in 1..Len(es) :
                 v[n] = IF es[n].valid THEN Append(v[n - 1], es[n]) ELSE v[n - 1]
            /\ ValidEntries(es) = v[Len(es)]
<1> DEFINE N == Len(es)
           F == [n \in 1..N |-> [s \in Seq(E) |->
                   IF es[n].valid THEN Append(s, es[n]) ELSE s]]
           Loop(v) == [n \in 0..N |-> IF n = 0 THEN <<>>
                                      ELSE IF es[n].valid THEN Append(v[n - 1], es[n])
                                      ELSE v[n - 1]]
<1>1. N \in Nat /\ <<>> \in Seq(E)
  OBVIOUS
<1>2. F \in [1..N -> [Seq(E) -> Seq(E)]]
  <2>1. ASSUME NEW n \in 1..N, NEW s \in Seq(E)
        PROVE  (IF es[n].valid THEN Append(s, es[n]) ELSE s) \in Seq(E)
    <3>1. es[n] \in E
      OBVIOUS
    <3> QED BY <3>1
  <2> QED BY <2>1
<1>3. PICK f \in [0..N -> Seq(E)] : f[0] = <<>> /\ \A n \in 1..N : f[n] = F[n][f[n - 1]]
  <2> DEFINE S == Seq(E)
  <2>1. <<>> \in S /\ N \in Nat /\ F \in [1..N -> [S -> S]]
    BY <1>1, <1>2
  <2>2. PICK a \in S : a = <<>>
    BY <2>1
  <2>3. N \in Nat /\ F \in [1..N -> [S -> S]]
    BY <2>1
  <2> HIDE DEF F, N, S
  <2>4. \E f \in [0..N -> S] : f[0] = a /\ \A n \in 1..N : f[n] = F[n][f[n - 1]]
    BY <2>3, Recursion
  <2> QED BY <2>2, <2>4 DEF S
<1>4. \A n \in 1..N : f[n] = IF es[n].valid THEN Append(f[n - 1], es[n]) ELSE f[n - 1]
  <2> TAKE n \in 1..N
  <2>1. f[n - 1] \in Seq(E)
    <3>1. n - 1 \in 0..N
      BY <1>1
    <3> QED BY <3>1
  <2>2. F[n][f[n - 1]] = IF es[n].valid THEN Append(f[n - 1], es[n]) ELSE f[n - 1]
    BY <2>1
  <2> QED BY <1>3, <2>2
<1>5. f = Loop(f)
  <2>1. f = [n \in 0..N |-> f[n]]
    OBVIOUS
  <2>2. \A n \in 0..N : n # 0 => n \in 1..N
    BY <1>1
  <2>3. \A n \in 0..N : f[n] = Loop(f)[n]
    BY <1>3, <1>4, <2>2
  <2> HIDE DEF N, F
  <2> QED BY <2>1, <2>3
<1> DEFINE v == CHOOSE v : v = Loop(v)
<1>6. v = Loop(v)
  <2> HIDE DEF Loop
  <2> QED BY <1>5
<1>7. ValidEntries(es) = v[N]
  BY DEF ValidEntries
<1>8. v[0] = <<>> /\ \A n \in 1..N : v[n] = IF es[n].valid THEN Append(v[n - 1], es[n]) ELSE v[n - 1]
  <2> HIDE DEF v
  <2>1. 0 \in 0..N /\ \A n \in 1..N : n \in 0..N /\ n # 0
    BY <1>1
  <2> QED BY <1>6, <2>1
<1>9. v \in [0..N -> Seq(E)]
  <2> DEFINE T == {n \in Nat : n <= N => v[n] \in Seq(E)}
  <2> HIDE DEF v
  <2>1. 0 \in T
    BY <1>1, <1>8
  <2>2. ASSUME NEW n \in T PROVE n + 1 \in T
    <3> SUFFICES ASSUME n + 1 <= N PROVE v[n + 1] \in Seq(E)
      OBVIOUS
    <3>1. n + 1 \in 1..N /\ (n + 1) - 1 = n /\ v[n] \in Seq(E) /\ es[n + 1] \in E
      OBVIOUS
    <3>2. v[n + 1] = IF es[n + 1].valid THEN Append(v[n], es[n + 1]) ELSE v[n]
      BY <1>8, <3>1
    <3> QED BY <3>1, <3>2
  <2>3. Nat \subseteq T
    <3>1. T \subseteq Nat
      OBVIOUS
    <3> HIDE DEF T
    <3> QED BY <2>1, <2>2, <3>1, NaturalInduction
  <2>4. \A n \in 0..N : v[n] \in Seq(E)
    BY <1>1, <2>3
  <2>5. v = [n \in 0..N |-> v[n]]
    BY <1>6
  <2> HIDE DEF T, N
  <2> QED BY <2>4, <2>5
<1> HIDE DEF v
<1> QED BY <1>7, <1>8, <1>9

\* The valid entries keep their order and their ids, and those left out are
\* the ones reported as rejected.
LEMMA ValidOnly ==
  ASSUME NEW E, NEW es \in Seq(E)
  PROVE  /\ ValidEntries(es) \in Seq(E)
         /\ \A j \in 1..Len(ValidEntries(es)) :
              \E i \in 1..Len(es) : es[i].valid /\ ValidEntries(es)[j] = es[i]
         /\ \A i \in 1..Len(es) :
              es[i].valid => \E j \in 1..Len(ValidEntries(es)) : ValidEntries(es)[j] = es[i]
         /\ Distinct(es) => Distinct(ValidEntries(es))
         /\ IsFiniteSet(Rejected(es))
         /\ Len(ValidEntries(es)) + Cardinality(Rejected(es)) = Len(es)
<1> DEFINE N == Len(es)
           Out(n) == {i \in 1..n : ~es[i].valid}
           From(s, n) == \A j \in 1..Len(s) : \E i \in 1..n : es[i].valid /\ s[j] = es[i]
           Into(s, n) == \A i \in 1..n : es[i].valid => \E j \in 1..Len(s) : s[j] = es[i]
           Fits(s, n) == IsFiniteSet(Out(n)) /\ Len(s) + Cardinality(Out(n)) = n
<1>1. PICK v \in [0..N -> Seq(E)] :
         /\ v[0] = <<>>
         /\ \A n \in 1..N : v[n] = IF es[n].valid THEN Append(v[n - 1], es[n]) ELSE v[n - 1]
         /\ ValidEntries(es) = v[N]
  BY ValidByOne
<1> DEFINE T == {n \in Nat : n <= N => /\ From(v[n], n) /\ Into(v[n], n)
                                       /\ Distinct(es) => Distinct(v[n])
                                       /\ Fits(v[n], n)}
<1>2. N \in Nat /\ DOMAIN es = 1..N /\ \A n \in 1..N : es[n] \in E
  OBVIOUS
<1>3. 0 \in T
  <2>1. Out(0) = {} /\ Len(v[0]) = 0 /\ DOMAIN v[0] = {} /\ 1..0 = {}
    BY <1>1
  <2>2. Fits(v[0], 0)
    BY <2>1, FS_EmptySet
  <2>3. From(v[0], 0) /\ Into(v[0], 0) /\ Distinct(v[0])
    BY <2>1 DEF Distinct
  <2> QED BY <2>2, <2>3
<1>4. ASSUME NEW n \in T PROVE n + 1 \in T
  <2> SUFFICES ASSUME n + 1 <= N
               PROVE  /\ From(v[n + 1], n + 1) /\ Into(v[n + 1], n + 1)
                      /\ Distinct(es) => Distinct(v[n + 1])
                      /\ Fits(v[n + 1], n + 1)
    OBVIOUS
  <2> DEFINE s == v[n]
             e == es[n + 1]
  <2>1. n \in Nat /\ n + 1 \in 1..N /\ (n + 1) - 1 = n /\ n \in 0..N
    OBVIOUS
  <2>2. /\ s \in Seq(E) /\ From(s, n) /\ Into(s, n)
        /\ Distinct(es) => Distinct(s)
        /\ Fits(s, n)
    BY <1>1, <2>1
  <2>3. v[n + 1] = IF e.valid THEN Append(s, e) ELSE s
    BY <1>1, <2>1
  <2>4. e \in E
    BY <1>2, <2>1
  <2>5. \A i : i \in 1..n + 1 <=> i \in 1..n \/ i = n + 1
    BY <2>1
  <2>6. CASE ~e.valid
    <3>1. Out(n + 1) = Out(n) \cup {n + 1} /\ n + 1 \notin Out(n)
      BY <2>1, <2>5, <2>6
    <3>2. IsFiniteSet(Out(n)) /\ Cardinality(Out(n)) \in Nat /\ Len(s) \in Nat
      BY <2>2, FS_CardinalityType
    <3>3. IsFiniteSet(Out(n + 1)) /\ Cardinality(Out(n + 1)) = Cardinality(Out(n)) + 1
      <4> HIDE DEF Out
      <4> QED BY <3>1, <3>2, FS_AddElement
    <3>4. Fits(s, n + 1)
      <4> HIDE DEF Out
      <4> QED BY <2>1, <2>2, <3>2, <3>3
    <3>5. From(s, n + 1) /\ Into(s, n + 1)
      BY <2>2, <2>5, <2>6
    <3>6. v[n + 1] = s
      BY <2>3, <2>6
    <3> HIDE DEF From, Into, Fits, s
    <3> QED BY <2>2, <3>4, <3>5, <3>6
  <2>7. CASE e.valid
    <3> DEFINE t == Append(s, e)
    <3>1. /\ Len(s) \in Nat /\ t \in Seq(E) /\ Len(t) = Len(s) + 1 /\ t[Len(t)] = e
          /\ \A j \in 1..Len(s) : t[j] = s[j]
          /\ DOMAIN t = 1..Len(t) /\ DOMAIN s = 1..Len(s)
      BY <2>2, <2>4
    <3>2. \A j : j \in 1..Len(t) <=> j \in 1..Len(s) \/ j = Len(t)
      BY <3>1
    <3> HIDE DEF s, t
    <3>3. Out(n + 1) = Out(n)
      BY <2>5, <2>7
    <3>4. Fits(t, n + 1)
      <4>1. Cardinality(Out(n)) \in Nat
        BY <2>2, FS_CardinalityType
      <4> HIDE DEF Out
      <4> QED BY <2>1, <2>2, <3>1, <3>3, <4>1
    <3>5. From(t, n + 1)
      BY <2>2, <2>5, <2>7, <3>1, <3>2
    <3>6. Into(t, n + 1)
      <4> SUFFICES ASSUME NEW i \in 1..n + 1, es[i].valid
                   PROVE  \E j \in 1..Len(t) : t[j] = es[i]
        OBVIOUS
      <4>1. CASE i \in 1..n
        <5>1. PICK j \in 1..Len(s) : s[j] = es[i]
          BY <2>2, <4>1
        <5> QED BY <3>1, <3>2, <5>1
      <4>2. CASE i = n + 1
        BY <3>1, <3>2, <4>2
      <4> QED BY <2>5, <4>1, <4>2
    <3>7. Distinct(es) => Distinct(t)
      <4> SUFFICES ASSUME Distinct(es) PROVE Distinct(t)
        OBVIOUS
      <4>1. \A j \in 1..Len(s) : s[j].id # e.id
        <5> TAKE j \in 1..Len(s)
        <5>1. PICK i \in 1..n : s[j] = es[i]
          BY <2>2
        <5>2. i \in 1..N /\ i # n + 1
          BY <1>2, <2>1
        <5> QED BY <1>2, <2>1, <5>1, <5>2 DEF Distinct
      <4>2. \A i, j \in 1..Len(s) : s[i].id = s[j].id => i = j
        BY <2>2, <3>1 DEF Distinct
      <4>3. \A i, j \in 1..Len(t) : t[i].id = t[j].id => i = j
        <5> HIDE DEF e
        <5>1. \A j \in 1..Len(s) : t[j].id = s[j].id /\ t[j].id # e.id
          BY <3>1, <4>1
        <5>2. t[Len(t)].id = e.id
          BY <3>1
        <5>3. ASSUME NEW i \in 1..Len(t), NEW j \in 1..Len(t), t[i].id = t[j].id
              PROVE  i = j
          <6>1. CASE i \in 1..Len(s) /\ j \in 1..Len(s)
            BY <4>2, <5>1, <5>3, <6>1
          <6>2. CASE i \in 1..Len(s) /\ j = Len(t)
            BY <5>1, <5>2, <5>3, <6>2
          <6>3. CASE i = Len(t) /\ j \in 1..Len(s)
            BY <5>1, <5>2, <5>3, <6>3
          <6> QED BY <3>2, <6>1, <6>2, <6>3
        <5> QED BY <5>3
      <4> QED BY <3>1, <4>3 DEF Distinct
    <3>8. v[n + 1] = t
      BY <2>3, <2>7 DEF s, t
    <3> HIDE DEF From, Into, Fits
    <3> QED BY <3>4, <3>5, <3>6, <3>7, <3>8
  <2> QED BY <2>6, <2>7
<1>5. N \in T
  <2>1. T \subseteq Nat
    OBVIOUS
  <2> HIDE DEF T
  <2> QED BY <1>2, <1>3, <1>4, <2>1, NaturalInduction
<1>6. Rejected(es) = Out(N)
  BY <1>2 DEF Rejected
<1>7. From(v[N], N) /\ Into(v[N], N) /\ (Distinct(es) => Distinct(v[N])) /\ Fits(v[N], N)
  <2> HIDE DEF From, Into, Fits
  <2> QED BY <1>2, <1>5
<1>8. v[N] \in Seq(E)
  BY <1>1, <1>2
<1> HIDE DEF Out
<1> QED BY <1>1, <1>6, <1>7, <1>8

\* FlattenSeq, sequence by sequence.
LEMMA FlatByOne ==
  ASSUME NEW R, NEW ss, NEW N \in Nat
  PROVE  /\ Len(ss) = N
         /\ N = 0 => ss = <<>>
         /\ \A n \in 1..N : ss[n] \in Seq(R)
         => \E f \in [0..N -> Seq(R)] :
              /\ f[0] = <<>>
              /\ \A n \in 1..N : f[n] = f[n - 1] \o ss[n]
              /\ FlattenSeq(ss) = f[N]
<1> DEFINE Q == Seq(R)
           F == [n \in 1..N |-> [s \in Q |-> s \o ss[n]]]
           Loop(v) == [n \in 1..N |-> IF n = 1 THEN ss[n] ELSE v[n - 1] \o ss[n]]
<1>0. SUFFICES ASSUME Len(ss) = N,
                      N = 0 => ss = <<>>,
                      \A n \in 1..N : ss[n] \in Q
               PROVE  \E f \in [0..N -> Q] :
                        /\ f[0] = <<>>
                        /\ \A n \in 1..N : f[n] = f[n - 1] \o ss[n]
                        /\ FlattenSeq(ss) = f[N]
  OBVIOUS
<1>1. <<>> \in Q
  OBVIOUS
<1>2. F \in [1..N -> [Q -> Q]]
  <2>1. ASSUME NEW n \in 1..N, NEW s \in Q PROVE s \o ss[n] \in Q
    BY <1>0
  <2> QED BY <2>1
<1>3. PICK f \in [0..N -> Q] : f[0] = <<>> /\ \A n \in 1..N : f[n] = F[n][f[n - 1]]
  <2>1. PICK a \in Q : a = <<>>
    BY <1>1
  <2>2. N \in Nat /\ F \in [1..N -> [Q -> Q]]
    BY <1>1, <1>2
  <2> HIDE DEF F, Q
  <2>3. \E f \in [0..N -> Q] : f[0] = a /\ \A n \in 1..N : f[n] = F[n][f[n - 1]]
    BY <2>2, Recursion
  <2> QED BY <2>1, <2>3
<1>4. \A n \in 1..N : f[n] = f[n - 1] \o ss[n]
  <2> TAKE n \in 1..N
  <2>1. f[n - 1] \in Q
    <3>1. n - 1 \in 0..N
      BY <1>1
    <3> HIDE DEF Q
    <3> QED BY <3>1
  <2>2. F[n][f[n - 1]] = f[n - 1] \o ss[n]
    BY <2>1
  <2> QED BY <1>3, <2>2
<1>5. N # 0 => f[1] = ss[1]
  <2> SUFFICES ASSUME N # 0 PROVE f[1] = ss[1]
    OBVIOUS
  <2>1. 1 \in 1..N /\ 1 - 1 = 0
    BY <1>1
  <2>2. f[1] = f[0] \o ss[1]
    <3> HIDE DEF F, Q
    <3>1. f[1] = f[1 - 1] \o ss[1]
      BY <1>4, <2>1
    <3> QED BY <2>1, <3>1
  <2>3. ss[1] \in Q /\ f[0] = <<>>
    BY <1>0, <1>3, <2>1
  <2>4. <<>> \o ss[1] = ss[1]
    BY <2>3
  <2> HIDE DEF Q
  <2> QED BY <2>2, <2>3, <2>4
<1>6. CASE N = 0
  <2>1. FlattenSeq(ss) = ss /\ ss = <<>>
    BY <1>0, <1>6 DEF FlattenSeq
  <2> QED BY <1>1, <1>3, <1>6, <2>1
<1>7. CASE N # 0
  <2> DEFINE g == [n \in 1..N |-> f[n]]
             v == CHOOSE v : v = Loop(v)
  <2>1. g = Loop(g)
    <3>1. \A n \in 1..N : n # 1 => n - 1 \in 1..N
      BY <1>1
    <3>2. \A n \in 1..N : g[n] = Loop(g)[n]
      <4> HIDE DEF F, Q
      <4>1. ASSUME NEW n \in 1..N PROVE g[n] = Loop(g)[n]
        <5>1. CASE n = 1
          <6>1. Loop(g)[n] = ss[n]
            BY <5>1
          <6> QED BY <1>5, <1>7, <5>1, <6>1
        <5>2. CASE n # 1
          <6>1. Loop(g)[n] = g[n - 1] \o ss[n] /\ g[n - 1] = f[n - 1] /\ g[n] = f[n]
            BY <3>1, <5>2
          <6> QED BY <1>4, <6>1
        <5> QED BY <5>1, <5>2
      <4> QED BY <4>1
    <3> HIDE DEF F
    <3> QED BY <3>2
  <2>2. v = Loop(v)
    <3> HIDE DEF Loop, g
    <3> QED BY <2>1
  <2>3. FlattenSeq(ss) = v[N]
    BY <1>0, <1>7 DEF FlattenSeq
  <2> DEFINE T == {n \in Nat : n + 1 <= N => v[n + 1] = f[n + 1]}
  <2>4. 0 \in T
    <3>1. v[1] = ss[1]
      <4> HIDE DEF v
      <4>1. 1 \in 1..N
        BY <1>1, <1>7
      <4> QED BY <2>2, <4>1
    <3> HIDE DEF v
    <3> QED BY <1>5, <1>7, <3>1
  <2>5. ASSUME NEW n \in T PROVE n + 1 \in T
    <3> HIDE DEF v
    <3> SUFFICES ASSUME (n + 1) + 1 <= N PROVE v[(n + 1) + 1] = f[(n + 1) + 1]
      OBVIOUS
    <3>1. n + 1 \in 1..N /\ n + 2 \in 1..N /\ n + 2 # 1 /\ (n + 2) - 1 = n + 1 /\ (n + 1) + 1 = n + 2
      OBVIOUS
    <3>2. v[n + 1] = f[n + 1]
      BY <3>1
    <3>3. v[n + 2] = v[n + 1] \o ss[n + 2]
      BY <2>2, <3>1
    <3>4. f[n + 2] = f[n + 1] \o ss[n + 2]
      BY <1>4, <3>1
    <3> QED BY <3>1, <3>2, <3>3, <3>4
  <2>6. N - 1 \in T
    <3> HIDE DEF v
    <3>1. T \subseteq Nat /\ N - 1 \in Nat
      BY <1>1, <1>7
    <3> HIDE DEF T
    <3> QED BY <2>4, <2>5, <3>1, NaturalInduction
  <2>7. FlattenSeq(ss) = f[N]
    <3> HIDE DEF v
    <3>1. (N - 1) + 1 = N
      BY <1>1
    <3> QED BY <1>1, <2>3, <2>6, <3>1
  <2> QED BY <1>3, <1>4, <2>7
<1> QED BY <1>6, <1>7

LEMMA Concatenated ==
  ASSUME NEW R, NEW s \in Seq(R), NEW t \in Seq(R)
  PROVE  /\ s \o t \in Seq(R) /\ Len(s) \in Nat /\ Len(t) \in Nat
         /\ Len(s \o t) = Len(s) + Len(t)
         /\ \A k \in 1..Len(s) : k \in 1..Len(s \o t) /\ (s \o t)[k] = s[k]
         /\ \A j \in 1..Len(t) : Len(s) + j \in 1..Len(s \o t) /\ (s \o t)[Len(s) + j] = t[j]
         /\ \A k \in 1..Len(s \o t) : k \in 1..Len(s) \/ k - Len(s) \in 1..Len(t)
         /\ \A k \in 1..Len(s \o t) : k \notin 1..Len(s) => (s \o t)[k] = t[k - Len(s)]
<1>1. s \o t \in Seq(R) /\ Len(s) \in Nat /\ Len(t) \in Nat /\ Len(s \o t) = Len(s) + Len(t)
  OBVIOUS
<1>2. \A k \in 1..Len(s) + Len(t) : (s \o t)[k] = IF k <= Len(s) THEN s[k] ELSE t[k - Len(s)]
  OBVIOUS
<1>3. \A j \in 1..Len(t) : ~(Len(s) + j <= Len(s)) /\ (Len(s) + j) - Len(s) = j /\ Len(s) + j \in 1..Len(s) + Len(t)
  BY <1>1
<1>4. \A k \in 1..Len(s) + Len(t) : k <= Len(s) <=> k \in 1..Len(s)
  BY <1>1
<1>5. \A k \in 1..Len(s) + Len(t) : ~(k <= Len(s)) => k - Len(s) \in 1..Len(t)
  BY <1>1
<1>6. \A k \in 1..Len(s) : k \in 1..Len(s) + Len(t)
  BY <1>1
<1> QED BY <1>1, <1>2, <1>3, <1>4, <1>5, <1>6

\* ss has n parts over R; s has their elements, all of them, none of them
\* twice; no element is twice in the parts.
Parts(ss, R, n) ==
  Len(ss) = n /\ (n = 0 => ss = <<>>) /\ \A i \in 1..n : ss[i] \in Seq(R)
OnlyOf(s, ss, n) ==
  \A k \in 1..Len(s) : \E i \in 1..n : \E j \in 1..Len(ss[i]) : s[k] = ss[i][j]
AllOf(s, ss, n) ==
  \A i \in 1..n : \A j \in 1..Len(ss[i]) : \E k \in 1..Len(s) : s[k] = ss[i][j]
Once(s) == \A k, l \in 1..Len(s) : s[k] = s[l] => k = l
Apart(ss, n) ==
  \A i, m \in 1..n : \A j \in 1..Len(ss[i]) : \A l \in 1..Len(ss[m]) :
     ss[i][j] = ss[m][l] => i = m /\ j = l

\* A concatenation has the elements of its parts, and no element twice if its
\* parts have none twice.
LEMMA Flattened ==
  ASSUME NEW R, NEW ss, NEW N \in Nat, Parts(ss, R, N)
  PROVE  /\ FlattenSeq(ss) \in Seq(R)
         /\ OnlyOf(FlattenSeq(ss), ss, N)
         /\ AllOf(FlattenSeq(ss), ss, N)
         /\ Apart(ss, N) => Once(FlattenSeq(ss))
<1>0. Len(ss) = N /\ (N = 0 => ss = <<>>) /\ \A n \in 1..N : ss[n] \in Seq(R)
  BY DEF Parts
<1>1. PICK f \in [0..N -> Seq(R)] :
         /\ f[0] = <<>>
         /\ \A n \in 1..N : f[n] = f[n - 1] \o ss[n]
         /\ FlattenSeq(ss) = f[N]
  <2>1. /\ Len(ss) = N
        /\ N = 0 => ss = <<>>
        /\ \A n \in 1..N : ss[n] \in Seq(R)
        => \E f \in [0..N -> Seq(R)] :
              /\ f[0] = <<>>
              /\ \A n \in 1..N : f[n] = f[n - 1] \o ss[n]
              /\ FlattenSeq(ss) = f[N]
    BY FlatByOne
  <2> QED BY <1>0, <2>1
<1> DEFINE T == {n \in Nat : n <= N => /\ OnlyOf(f[n], ss, n) /\ AllOf(f[n], ss, n)
                                       /\ Apart(ss, N) => Once(f[n])}
<1>2. 0 \in T
  <2>1. Len(f[0]) = 0 /\ 1..0 = {} /\ 0 \in Nat
    BY <1>1
  <2>2. OnlyOf(f[0], ss, 0) /\ AllOf(f[0], ss, 0) /\ Once(f[0])
    BY <2>1 DEF OnlyOf, AllOf, Once
  <2> QED BY <2>1, <2>2
<1>3. ASSUME NEW n \in T PROVE n + 1 \in T
  <2> SUFFICES ASSUME n + 1 <= N
               PROVE  OnlyOf(f[n + 1], ss, n + 1) /\ AllOf(f[n + 1], ss, n + 1) /\ (Apart(ss, N) => Once(f[n + 1]))
    OBVIOUS
  <2> DEFINE s == f[n]
             t == ss[n + 1]
             c == s \o t
  <2>1. n \in Nat /\ n + 1 \in 1..N /\ (n + 1) - 1 = n /\ n \in 0..N
    OBVIOUS
  <2>2. s \in Seq(R) /\ t \in Seq(R) /\ f[n + 1] = c
    BY <1>0, <1>1, <2>1
  <2>3. OnlyOf(s, ss, n) /\ AllOf(s, ss, n) /\ (Apart(ss, N) => Once(s))
    BY <2>1
  <2>4. /\ Len(s) \in Nat /\ Len(t) \in Nat
        /\ \A k \in 1..Len(s) : k \in 1..Len(c) /\ c[k] = s[k]
        /\ \A j \in 1..Len(t) : Len(s) + j \in 1..Len(c) /\ c[Len(s) + j] = t[j]
        /\ \A k \in 1..Len(c) : k \in 1..Len(s) \/ k - Len(s) \in 1..Len(t)
        /\ \A k \in 1..Len(c) : k \notin 1..Len(s) => c[k] = t[k - Len(s)]
    <3>1. s \in Seq(R) /\ t \in Seq(R)
      BY <2>2
    <3> HIDE DEF s, t, T
    <3> QED BY <3>1, Concatenated
  <2>5. \A i : i \in 1..n + 1 <=> i \in 1..n \/ i = n + 1
    BY <2>1
  <2> HIDE DEF s, c, T
  <2>6. OnlyOf(c, ss, n + 1)
    <3> SUFFICES ASSUME NEW k \in 1..Len(c)
                 PROVE  \E i \in 1..n + 1 : \E j \in 1..Len(ss[i]) : c[k] = ss[i][j]
      BY DEF OnlyOf
    <3>1. CASE k \in 1..Len(s)
      <4>1. PICK i \in 1..n : \E j \in 1..Len(ss[i]) : s[k] = ss[i][j]
        BY <2>3, <3>1 DEF OnlyOf, AllOf
      <4> QED BY <2>4, <2>5, <3>1, <4>1
    <3>2. CASE k \notin 1..Len(s)
      BY <2>4, <2>5, <3>2
    <3> QED BY <3>1, <3>2
  <2>7. AllOf(c, ss, n + 1)
    <3> SUFFICES ASSUME NEW i \in 1..n + 1, NEW j \in 1..Len(ss[i])
                 PROVE  \E k \in 1..Len(c) : c[k] = ss[i][j]
      BY DEF AllOf
    <3>1. CASE i \in 1..n
      <4>1. PICK k \in 1..Len(s) : s[k] = ss[i][j]
        BY <2>3, <3>1 DEF OnlyOf, AllOf
      <4> QED BY <2>4, <4>1
    <3>2. CASE i = n + 1
      BY <2>4, <3>2
    <3> QED BY <2>5, <3>1, <3>2
  <2>8. Apart(ss, N) => Once(c)
    <3> SUFFICES ASSUME Apart(ss, N), NEW k \in 1..Len(c), NEW l \in 1..Len(c), c[k] = c[l]
                 PROVE  k = l
      BY DEF Once
    <3>1. \A m \in 1..Len(s), j \in 1..Len(t) : s[m] # t[j]
      <4> TAKE m \in 1..Len(s), j \in 1..Len(t)
      <4>1. PICK i \in 1..n : \E q \in 1..Len(ss[i]) : s[m] = ss[i][q]
        BY <2>3 DEF OnlyOf
      <4>2. i \in 1..N /\ i # n + 1
        BY <2>1
      <4>3. PICK q \in 1..Len(ss[i]) : s[m] = ss[i][q]
        BY <4>1
      <4> QED BY <2>1, <4>2, <4>3 DEF Apart
    <3>2. CASE k \in 1..Len(s) /\ l \in 1..Len(s)
      BY <2>3, <2>4, <3>2 DEF Once
    <3>3. CASE k \in 1..Len(s) /\ l \notin 1..Len(s)
      BY <2>4, <3>1, <3>3
    <3>4. CASE k \notin 1..Len(s) /\ l \in 1..Len(s)
      BY <2>4, <3>1, <3>4
    <3>5. CASE k \notin 1..Len(s) /\ l \notin 1..Len(s)
      <4>1. /\ k - Len(s) \in 1..Len(t) /\ l - Len(s) \in 1..Len(t)
            /\ t[k - Len(s)] = t[l - Len(s)]
        BY <2>4, <3>5
      <4>2. k - Len(s) = l - Len(s)
        <5> DEFINE x == k - Len(s)
                   y == l - Len(s)
        <5>1. x \in 1..Len(t) /\ y \in 1..Len(t) /\ t[x] = t[y]
          BY <4>1
        <5> HIDE DEF x, y
        <5>2. x = y
          <6> DEFINE p == n + 1
          <6>1. /\ p \in 1..N /\ x \in 1..Len(ss[p]) /\ y \in 1..Len(ss[p])
                /\ ss[p][x] = ss[p][y]
            BY <2>1, <5>1
          <6> HIDE DEF p
          <6> QED BY <6>1 DEF Apart
        <5> QED BY <5>2 DEF x, y
      <4> QED BY <2>4, <4>2
    <3> QED BY <3>2, <3>3, <3>4, <3>5
  <2> QED BY <2>2, <2>6, <2>7, <2>8
<1>4. OnlyOf(f[N], ss, N) /\ AllOf(f[N], ss, N) /\ (Apart(ss, N) => Once(f[N]))
  <2>1. T \subseteq Nat
    OBVIOUS
  <2> HIDE DEF T
  <2>2. N \in T
    BY <1>2, <1>3, <2>1, NaturalInduction
  <2> QED BY <2>2 DEF T
<1>5. f[N] \in Seq(R)
  OBVIOUS
<1> QED BY <1>1, <1>4, <1>5

\* The records a request makes of one of its entries.
RecordsOf(kind, e) == Range(Sends(kind, <<e>>))

Topics == {"events", "errors", "results", "spans"}

\* The records an entry is sent as say which entry it is.
LEMMA SentAs ==
  ASSUME NEW e
  PROVE  /\ SendsFor(e) \in Seq([topic : Topics, id : {e.id}])
         /\ 1 \in 1..Len(SendsFor(e))
         /\ \A j, l \in 1..Len(SendsFor(e)) : SendsFor(e)[j] = SendsFor(e)[l] => j = l
<1> DEFINE R == [topic : Topics, id : {e.id}]
           first == [topic |-> TopicOf(e), id |-> e.id]
           second == [topic |-> "results", id |-> e.id]
<1>1. first \in R /\ second \in R /\ first # second
  <2>1. TopicOf(e) \in {"events", "errors"}
    BY DEF TopicOf
  <2>2. first \in R /\ first.topic = TopicOf(e)
    BY <2>1 DEF Topics
  <2>3. second \in R /\ second.topic = "results"
    BY DEF Topics
  <2> HIDE DEF R, first, second
  <2> QED BY <2>1, <2>2, <2>3
<1>2. SendsFor(e) = <<first>> \o IF e.results THEN <<second>> ELSE <<>>
  BY DEF SendsFor
<1> HIDE DEF R, first, second
<1>3. CASE e.results
  <2> DEFINE s == <<first>>
             t == <<second>>
  <2>1. /\ s \in Seq(R) /\ Len(s) = 1 /\ s[1] = first
        /\ t \in Seq(R) /\ Len(t) = 1 /\ t[1] = second
    BY <1>1
  <2>2. SendsFor(e) = s \o t
    BY <1>2, <1>3
  <2> HIDE DEF s, t
  <2>3. /\ s \o t \in Seq(R) /\ Len(s \o t) = 2
        /\ \A k \in 1..1 : (s \o t)[k] = s[k]
        /\ \A j \in 1..1 : (s \o t)[1 + j] = t[j]
    BY <2>1, Concatenated
  <2>4. (s \o t)[1] = first /\ (s \o t)[2] = second
    BY <2>1, <2>3
  <2>5. \A j \in 1..2 : j = 1 \/ j = 2
    OBVIOUS
  <2> QED BY <1>1, <2>2, <2>3, <2>4, <2>5 DEF R
<1>4. CASE ~e.results
  <2>1. SendsFor(e) = <<first>>
    BY <1>1, <1>2, <1>4
  <2>2. Len(SendsFor(e)) = 1 /\ SendsFor(e) \in Seq(R)
    BY <1>1, <2>1
  <2> QED BY <2>2 DEF R
<1> QED BY <1>3, <1>4

\* The records of one entry, alone in its request.
LEMMA SentAlone ==
  ASSUME NEW kind, NEW e
  PROVE  RecordsOf(kind, e) =
           IF kind = "spans" THEN {[topic |-> "spans", id |-> e.id]}
           ELSE {SendsFor(e)[j] : j \in 1..Len(SendsFor(e))}
<1> DEFINE es == <<e>>
<1>1. Len(es) = 1 /\ DOMAIN es = {1} /\ es[1] = e /\ 1..1 = {1}
  OBVIOUS
<1>2. CASE kind = "spans"
  <2>1. Sends(kind, es) = [i \in {1} |-> [topic |-> "spans", id |-> e.id]]
    BY <1>1, <1>2 DEF Sends, PublishSpans
  <2> QED BY <1>2, <2>1 DEF RecordsOf, Range
<1>3. CASE kind # "spans"
  <2> DEFINE R == [topic : Topics, id : {e.id}]
             ss == [i \in DOMAIN es |-> SendsFor(es[i])]
             all == FlattenSeq(ss)
  <2>1. Sends(kind, es) = all
    BY <1>3 DEF Sends, PublishEvents
  <2>2. Len(ss) = 1 /\ ss[1] = SendsFor(e) /\ SendsFor(e) \in Seq(R)
    BY <1>1, SentAs
  <2>3. all \in Seq(R) /\ OnlyOf(all, ss, 1) /\ AllOf(all, ss, 1)
    <3>1. Parts(ss, R, 1)
      <4> HIDE DEF R, ss
      <4>1. \A n \in 1..1 : n = 1
        OBVIOUS
      <4> QED BY <2>2, <4>1 DEF Parts
    <3> HIDE DEF R, ss
    <3> QED BY <3>1, Flattened
  <2> HIDE DEF ss, all, R
  <2>4. DOMAIN all = 1..Len(all)
    BY <2>3
  <2>5. Range(all) = {SendsFor(e)[j] : j \in 1..Len(SendsFor(e))}
    <3>1. 1 \in 1..1 /\ \A i \in 1..1 : i = 1
      OBVIOUS
    <3>2. \A k \in 1..Len(all) : \E j \in 1..Len(SendsFor(e)) : all[k] = SendsFor(e)[j]
      <4> TAKE k \in 1..Len(all)
      <4>1. PICK i \in 1..1 : \E j \in 1..Len(ss[i]) : all[k] = ss[i][j]
        BY <2>3 DEF OnlyOf
      <4> QED BY <2>2, <3>1, <4>1
    <3>3. \A j \in 1..Len(SendsFor(e)) : \E k \in 1..Len(all) : all[k] = SendsFor(e)[j]
      BY <2>2, <2>3, <3>1 DEF AllOf
    <3> HIDE DEF all
    <3> QED BY <2>4, <3>2, <3>3 DEF Range
  <2> QED BY <1>3, <2>1, <2>5 DEF RecordsOf
<1> QED BY <1>2, <1>3

\* A record names its entry.
LEMMA NamesItsEntry ==
  ASSUME NEW kind, NEW e, NEW m \in RecordsOf(kind, e)
  PROVE  m.id = e.id
<1>1. CASE kind = "spans"
  BY <1>1, SentAlone
<1>2. CASE kind # "spans"
  <2>1. PICK j \in 1..Len(SendsFor(e)) : m = SendsFor(e)[j]
    BY <1>2, SentAlone
  <2>2. m \in [topic : Topics, id : {e.id}]
    <3> DEFINE R == [topic : Topics, id : {e.id}]
    <3>1. SendsFor(e) \in Seq(R)
      BY SentAs
    <3> HIDE DEF R
    <3>2. m \in R
      BY <2>1, <3>1
    <3> QED BY <3>2 DEF R
  <2> QED BY <2>2
<1> QED BY <1>1, <1>2

LEMMA SentAsSomething ==
  ASSUME NEW kind, NEW e
  PROVE  RecordsOf(kind, e) # {}
<1>1. CASE kind = "spans"
  BY <1>1, SentAlone
<1>2. CASE kind # "spans"
  <2>1. 1 \in 1..Len(SendsFor(e))
    BY SentAs
  <2> QED BY <1>2, <2>1, SentAlone
<1> QED BY <1>1, <1>2

\* The batch of a request: the records of its entries, each of them once.
LEMMA Published ==
  ASSUME NEW kind, NEW E, NEW es \in Seq(E)
  PROVE  /\ Sends(kind, es) \in Seq(UNION {RecordsOf(kind, es[i]) : i \in 1..Len(es)})
         /\ \A i \in 1..Len(es) : \A m \in RecordsOf(kind, es[i]) :
              \E k \in 1..Len(Sends(kind, es)) : Sends(kind, es)[k] = m
         /\ Distinct(es) => Once(Sends(kind, es))
<1> DEFINE n == Len(es)
           R == UNION {RecordsOf(kind, es[i]) : i \in 1..n}
           all == Sends(kind, es)
<1>1. n \in Nat /\ DOMAIN es = 1..n
  OBVIOUS
<1>2. \A i \in 1..n : \A m \in RecordsOf(kind, es[i]) : m \in R
  OBVIOUS
<1>3. Distinct(es) => \A i, j \in 1..n : es[i].id = es[j].id => i = j
  BY <1>1 DEF Distinct
<1>4. CASE kind = "spans"
  <2> DEFINE record(i) == [topic |-> "spans", id |-> es[i].id]
  <2>1. all = [i \in 1..n |-> record(i)]
    BY <1>1, <1>4 DEF Sends, PublishSpans
  <2>2. \A i \in 1..n : RecordsOf(kind, es[i]) = {record(i)}
    BY <1>4, SentAlone
  <2>3. \A i, j \in 1..n : record(i) = record(j) => es[i].id = es[j].id
    OBVIOUS
  <2>4. \A i \in 1..n : record(i) \in R
    <3> HIDE DEF R, record
    <3> QED BY <1>2, <2>2
  <2> HIDE DEF record, R, n, all
  <2>5. all \in Seq(R) /\ Len(all) = n /\ \A i \in 1..n : all[i] = record(i)
    BY <1>1, <2>1, <2>4
  <2>6. Distinct(es) => Once(all)
    BY <1>3, <2>3, <2>5 DEF Once
  <2>7. \A i \in 1..n : \A m \in RecordsOf(kind, es[i]) : \E k \in 1..Len(all) : all[k] = m
    BY <2>2, <2>5
  <2> QED BY <2>5, <2>6, <2>7 DEF all, R, n
<1>5. CASE kind # "spans"
  <2> DEFINE ss == [i \in DOMAIN es |-> SendsFor(es[i])]
  <2>1. all = FlattenSeq(ss)
    BY <1>5 DEF Sends, PublishEvents
  <2>2. DOMAIN ss = 1..n /\ Len(ss) = n /\ \A i \in 1..n : ss[i] = SendsFor(es[i])
    BY <1>1
  <2>3. n = 0 => ss = <<>>
    BY <2>2
  <2> HIDE DEF ss, n, R, all
  <2>4. \A i \in 1..n : RecordsOf(kind, es[i]) = {ss[i][j] : j \in 1..Len(ss[i])}
    BY <1>5, <2>2, SentAlone
  <2>5. ASSUME NEW i \in 1..n PROVE ss[i] \in Seq(R)
    <3> DEFINE T == [topic : Topics, id : {es[i].id}]
    <3>1. ss[i] \in Seq(T)
      BY <2>2, SentAs
    <3>2. \A j \in 1..Len(ss[i]) : ss[i][j] \in R
      BY <1>2, <2>4
    <3> HIDE DEF T
    <3> QED BY <3>1, <3>2
  <2>6. Parts(ss, R, n)
    BY <2>2, <2>3, <2>5 DEF Parts
  <2>7. all \in Seq(R) /\ AllOf(all, ss, n) /\ (Apart(ss, n) => Once(all))
    BY <1>1, <2>1, <2>6, Flattened
  <2>8. \A i \in 1..n : \A m \in RecordsOf(kind, es[i]) : \E k \in 1..Len(all) : all[k] = m
    <3> TAKE i \in 1..n
    <3> TAKE m \in RecordsOf(kind, es[i])
    <3>1. PICK j \in 1..Len(ss[i]) : m = ss[i][j]
      BY <2>4
    <3> QED BY <2>7, <3>1 DEF AllOf
  <2>9. Distinct(es) => Apart(ss, n)
    <3> SUFFICES ASSUME Distinct(es), NEW i \in 1..n, NEW m \in 1..n,
                        NEW j \in 1..Len(ss[i]), NEW l \in 1..Len(ss[m]), ss[i][j] = ss[m][l]
                 PROVE  i = m /\ j = l
      BY DEF Apart
    <3>1. ss[i][j] \in RecordsOf(kind, es[i]) /\ ss[m][l] \in RecordsOf(kind, es[m])
      BY <2>4
    <3>2. es[i].id = es[m].id
      BY <3>1, NamesItsEntry
    <3>3. i = m
      BY <1>3, <3>2
    <3>4. j = l
      <4> DEFINE t == SendsFor(es[i])
      <4>1. j \in 1..Len(t) /\ l \in 1..Len(t) /\ t[j] = t[l]
        BY <2>2, <3>3
      <4> QED BY <4>1, SentAs
    <3> QED BY <3>3, <3>4
  <2> QED BY <2>7, <2>8, <2>9 DEF all, R, n
<1> QED BY <1>4, <1>5

-----------------------------------------------------------------------------
(***************************************************************************)
(* Requests: what a handler may have made of one.                          *)
(***************************************************************************)

EntryLists ==
  {b.entries : b \in Batches} \cup
  {Generated(n, size) : n \in Nat, size \in Nat}

Indices == SUBSET Nat
Flags == BOOLEAN

RequestSet ==
  [client : Clients, kind : Kinds, entries : EntryLists,
   phase : {"sending", "waiting", "replied", "broken"}, fates : Seq(Fates),
   status : {0, 202, 400, 413, 422, 429, 500}, accepted : Nat, errors : Indices,
   given_up : Flags]

\* A handler hands over one record after the other, answers after the last
\* one, and answers 202 when all of them are acknowledged.
Sound(q) ==
  /\ Len(q.fates) <= Len(MessagesOf(q))
  /\ q.phase = "sending" => Len(q.fates) < Len(MessagesOf(q))
  /\ q.phase = "waiting" => Len(q.fates) = Len(MessagesOf(q))
  /\ q.phase = "replied" <=> q.status # 0
  /\ q.errors \subseteq DOMAIN q.entries
  /\ q.status = 202 =>
       /\ q.accepted = Len(ValidEntries(q.entries))
       /\ q.errors = Rejected(q.entries)
       /\ Len(q.fates) = Len(MessagesOf(q))
       /\ AllAcknowledged(q.fates)

LEMMA Lists ==
  ASSUME NEW es \in EntryLists
  PROVE  es \in Seq(Range(es)) /\ Distinct(es)
<1>1. CASE es \in {b.entries : b \in Batches}
  BY <1>1, BatchesAssumption
<1>2. CASE es \in {Generated(n, size) : n \in Nat, size \in Nat}
  <2>1. PICK n \in Nat, size \in Nat : es = Generated(n, size)
    BY <1>2
  <2> DEFINE e(i) == [id |-> <<n, i>>, valid |-> TRUE, status |-> "ok", results |-> FALSE]
  <2>2. es = [i \in 1..size |-> e(i)]
    BY <2>1 DEF Generated
  <2>3. \A i, j \in 1..size : e(i).id = e(j).id => i = j
    OBVIOUS
  <2> HIDE DEF e
  <2>4. DOMAIN es = 1..size /\ \A i \in 1..size : es[i] = e(i) /\ es[i] \in Range(es)
    BY <2>2 DEF Range
  <2>5. es \in Seq(Range(es))
    BY <2>2, <2>4
  <2> QED BY <2>3, <2>4, <2>5 DEF Distinct
<1> QED BY <1>1, <1>2 DEF EntryLists

\* The records of a request are those of its valid entries, each of them once.
LEMMA Messages ==
  ASSUME NEW q, q.entries \in EntryLists
  PROVE  /\ Len(MessagesOf(q)) \in Nat
         /\ DOMAIN MessagesOf(q) = 1..Len(MessagesOf(q))
         /\ Len(MessagesOf(q)) = 0 <=> ValidEntries(q.entries) = <<>>
         /\ \A k \in 1..Len(MessagesOf(q)) : \E i \in DOMAIN q.entries :
              q.entries[i].valid /\ MessagesOf(q)[k] \in RecordsOf(q.kind, q.entries[i])
         /\ \A i \in DOMAIN q.entries : q.entries[i].valid =>
              \A m \in RecordsOf(q.kind, q.entries[i]) :
                 \E k \in 1..Len(MessagesOf(q)) : MessagesOf(q)[k] = m
         /\ Once(MessagesOf(q))
<1> DEFINE es == q.entries
           v == ValidEntries(es)
           all == Sends(q.kind, v)
           E == Range(es)
           R == UNION {RecordsOf(q.kind, v[i]) : i \in 1..Len(v)}
<1>1. es \in Seq(E) /\ Distinct(es)
  BY Lists
<1>2. MessagesOf(q) = all
  BY DEF MessagesOf
<1> HIDE DEF es, E
<1>3. /\ v \in Seq(E)
      /\ \A j \in 1..Len(v) : \E i \in 1..Len(es) : es[i].valid /\ v[j] = es[i]
      /\ \A i \in 1..Len(es) : es[i].valid => \E j \in 1..Len(v) : v[j] = es[i]
      /\ Distinct(v)
  BY <1>1, ValidOnly
<1> HIDE DEF v
<1>4. /\ all \in Seq(R)
      /\ \A i \in 1..Len(v) : \A m \in RecordsOf(q.kind, v[i]) : \E k \in 1..Len(all) : all[k] = m
      /\ Once(all)
  <2> DEFINE kind == q.kind
  <2>1. v \in Seq(E)
    BY <1>3
  <2> HIDE DEF kind
  <2>2. /\ Sends(kind, v) \in Seq(UNION {RecordsOf(kind, v[i]) : i \in 1..Len(v)})
        /\ \A i \in 1..Len(v) : \A m \in RecordsOf(kind, v[i]) :
             \E k \in 1..Len(Sends(kind, v)) : Sends(kind, v)[k] = m
        /\ Distinct(v) => Once(Sends(kind, v))
    BY <2>1, Published
  <2> QED BY <1>3, <2>2 DEF kind
<1> HIDE DEF all
<1>5. \A k \in 1..Len(all) : \E j \in 1..Len(v) : all[k] \in RecordsOf(q.kind, v[j])
  <2> TAKE k \in 1..Len(all)
  <2> HIDE DEF R
  <2>1. all[k] \in R
    BY <1>4
  <2> QED BY <2>1 DEF R
<1>6. Len(all) \in Nat /\ DOMAIN all = 1..Len(all) /\ Len(v) \in Nat /\ DOMAIN es = 1..Len(es)
  BY <1>1, <1>3, <1>4
<1>7. Len(all) = 0 <=> v = <<>>
  <2>1. ASSUME Len(all) = 0 PROVE v = <<>>
    <3> SUFFICES ASSUME 1 \in 1..Len(v) PROVE FALSE
      BY <1>3, <1>6
    <3>1. PICK m : m \in RecordsOf(q.kind, v[1])
      BY SentAsSomething
    <3>2. PICK k \in 1..Len(all) : all[k] = m
      BY <1>4, <3>1
    <3> QED BY <2>1, <3>2
  <2>2. ASSUME v = <<>> PROVE Len(all) = 0
    <3>1. Len(v) = 0 /\ 1..0 = {}
      BY <2>2
    <3>2. 1 \notin 1..Len(all)
      BY <1>5, <3>1
    <3> QED BY <1>6, <3>2
  <2> QED BY <2>1, <2>2
<1>8. \A k \in 1..Len(all) : \E i \in DOMAIN es : es[i].valid /\ all[k] \in RecordsOf(q.kind, es[i])
  BY <1>3, <1>5, <1>6
<1>9. \A i \in DOMAIN es : es[i].valid =>
        \A m \in RecordsOf(q.kind, es[i]) : \E k \in 1..Len(all) : all[k] = m
  <2> TAKE i \in DOMAIN es
  <2> SUFFICES ASSUME es[i].valid
               PROVE  \A m \in RecordsOf(q.kind, es[i]) : \E k \in 1..Len(all) : all[k] = m
    OBVIOUS
  <2>1. PICK j \in 1..Len(v) : v[j] = es[i]
    BY <1>3, <1>6
  <2> QED BY <1>4, <2>1
<1> QED BY <1>2, <1>4, <1>6, <1>7, <1>8, <1>9 DEF v, es

LEMMA AllPublished ==
  ASSUME NEW q, q.entries \in EntryLists
  PROVE  \A i \in DOMAIN q.entries : q.entries[i].valid =>
           \A m \in RecordsOf(q.kind, q.entries[i]) :
              \E k \in 1..Len(MessagesOf(q)) : MessagesOf(q)[k] = m
BY Messages

\* A request that its client has an answer to, or expects none to anymore.
Settled(q) == q.given_up \/ q.phase \in {"replied", "broken"}

\* q at one moment, p later: an answer is final, and it comes in time or not.
Stays(q, p) ==
  /\ q.given_up => p.given_up
  /\ q.phase \in {"replied", "broken"} =>
       p.phase = q.phase /\ p.status = q.status /\ p.given_up = q.given_up

\* q at one moment, p later: the same request, and what its client was told of
\* as a failure remains one.
Follows(q, p) ==
  /\ p \in RequestSet /\ Sound(p)
  /\ p.client = q.client /\ p.kind = q.kind /\ p.entries = q.entries
  /\ Failed(q) => Failed(p)
  /\ Stays(q, p)

LEMMA AnsweredRecord ==
  ASSUME NEW q \in RequestSet, NEW status \in {202, 400, 413, 422, 429, 500}
  PROVE  LET p == Answered(q, status) IN
         /\ p \in RequestSet
         /\ p.client = q.client /\ p.kind = q.kind /\ p.entries = q.entries
         /\ p.fates = q.fates /\ p.errors = q.errors /\ p.given_up = q.given_up
         /\ p.phase = "replied" /\ p.status = status
<1> DEFINE p == [q EXCEPT !.phase = "replied"]
<1>1. /\ p \in RequestSet
      /\ p.client = q.client /\ p.kind = q.kind /\ p.entries = q.entries
      /\ p.fates = q.fates /\ p.errors = q.errors /\ p.given_up = q.given_up
      /\ p.phase = "replied"
  BY DEF RequestSet
<1>2. Answered(q, status) = [p EXCEPT !.status = status]
  BY DEF Answered
<1> HIDE DEF p
<1> QED BY <1>1, <1>2 DEF RequestSet

\* What a 202 counts.
LEMMA Counts ==
  ASSUME NEW es \in EntryLists
  PROVE  /\ Len(ValidEntries(es)) \in Nat /\ Rejected(es) \in SUBSET Nat
         /\ Rejected(es) \subseteq DOMAIN es /\ IsFiniteSet(Rejected(es))
         /\ Len(ValidEntries(es)) + Cardinality(Rejected(es)) = Len(es)
         /\ Len(es) \in Nat /\ DOMAIN es = 1..Len(es)
<1> DEFINE E == Range(es)
<1>1. es \in Seq(E)
  BY Lists
<1> HIDE DEF E
<1>2. /\ ValidEntries(es) \in Seq(E) /\ IsFiniteSet(Rejected(es))
      /\ Len(ValidEntries(es)) + Cardinality(Rejected(es)) = Len(es)
  BY <1>1, ValidOnly
<1> QED BY <1>1, <1>2 DEF Rejected

LEMMA AcceptedRecord ==
  ASSUME NEW q \in RequestSet
  PROVE  LET p == Accepted(q) IN
         /\ p \in RequestSet
         /\ p.client = q.client /\ p.kind = q.kind /\ p.entries = q.entries
         /\ p.fates = q.fates /\ p.given_up = q.given_up
         /\ p.phase = "replied" /\ p.status = 202
         /\ p.accepted = Len(ValidEntries(q.entries)) /\ p.errors = Rejected(q.entries)
<1> DEFINE a == Answered(q, 202)
           n == Len(ValidEntries(q.entries))
           out == Rejected(q.entries)
<1>1. /\ a \in RequestSet
      /\ a.client = q.client /\ a.kind = q.kind /\ a.entries = q.entries
      /\ a.fates = q.fates /\ a.given_up = q.given_up
      /\ a.phase = "replied" /\ a.status = 202
  BY AnsweredRecord
<1>2. n \in Nat /\ out \in Indices
  BY Counts DEF RequestSet, Indices
<1> DEFINE r == [a EXCEPT !.accepted = n]
<1>3. Accepted(q) = [r EXCEPT !.errors = out]
  BY DEF Accepted
<1> HIDE DEF a, n, out
<1>4. /\ r \in RequestSet
      /\ r.client = a.client /\ r.kind = a.kind /\ r.entries = a.entries
      /\ r.fates = a.fates /\ r.given_up = a.given_up /\ r.phase = a.phase /\ r.status = a.status
      /\ r.accepted = n
  BY <1>1, <1>2 DEF RequestSet
<1> HIDE DEF r
<1>5. LET p == Accepted(q) IN
      /\ p \in RequestSet
      /\ p.client = r.client /\ p.kind = r.kind /\ p.entries = r.entries
      /\ p.fates = r.fates /\ p.given_up = r.given_up /\ p.phase = r.phase /\ p.status = r.status
      /\ p.accepted = r.accepted /\ p.errors = out
  <2> DEFINE p == [r EXCEPT !.errors = out]
  <2>1. p \in RequestSet
    <3>1. ASSUME NEW x \in RequestSet, NEW i \in Indices
          PROVE  [x EXCEPT !.errors = i] \in RequestSet
      BY DEF RequestSet
    <3> QED BY <1>2, <1>4, <3>1
  <2>2. /\ p.client = r.client /\ p.kind = r.kind /\ p.entries = r.entries
        /\ p.fates = r.fates /\ p.given_up = r.given_up /\ p.phase = r.phase
        /\ p.status = r.status /\ p.accepted = r.accepted /\ p.errors = out
    BY <1>2, <1>4 DEF RequestSet
  <2> QED BY <1>3, <2>1, <2>2
<1> QED BY <1>1, <1>4, <1>5 DEF n, out

LEMMA NewRecord ==
  ASSUME NEW c \in Clients, NEW b, b.kind \in Kinds, b.entries \in EntryLists
  PROVE  LET q == Request(c, b) IN
         /\ q \in RequestSet
         /\ q.client = c /\ q.kind = b.kind /\ q.entries = b.entries
         /\ q.phase = "sending" /\ q.fates = <<>> /\ q.status = 0 /\ q.errors = {}
BY DEF Request, RequestSet, Indices, Flags

\* Answers the handler gives without having published anything.
LEMMA Refused ==
  ASSUME NEW c \in Clients, NEW b, b.kind \in Kinds, b.entries \in EntryLists,
         NEW status \in {400, 413, 422, 429}
  PROVE  LET p == Answered(Request(c, b), status) IN
         /\ p \in RequestSet /\ Sound(p)
         /\ p.client = c /\ p.kind = b.kind /\ p.entries = b.entries
<1> DEFINE q == Request(c, b)
           p == Answered(q, status)
<1>1. /\ q \in RequestSet /\ q.client = c /\ q.kind = b.kind /\ q.entries = b.entries
      /\ q.fates = <<>> /\ q.errors = {}
  BY NewRecord
<1> HIDE DEF q
<1>2. /\ p \in RequestSet
      /\ p.client = c /\ p.kind = b.kind /\ p.entries = b.entries
      /\ p.fates = <<>> /\ p.errors = {} /\ p.phase = "replied" /\ p.status = status
  BY <1>1, AnsweredRecord
<1> HIDE DEF p
<1>3. Len(MessagesOf(p)) \in Nat
  BY <1>2, Messages
<1>4. Sound(p)
  <2>1. Len(<<>>) = 0 /\ status # 202 /\ "replied" \notin {"sending", "waiting"}
    OBVIOUS
  <2> QED BY <1>2, <1>3, <2>1 DEF Sound
<1> QED BY <1>2, <1>4 DEF p, q

\* The handler up to its first await leaves a request in order.
LEMMA Received ==
  ASSUME NEW c \in Clients, NEW b, b.kind \in Kinds, b.entries \in EntryLists
  PROVE  LET p == Receive(c, b) IN
         /\ p \in RequestSet /\ Sound(p)
         /\ p.client = c /\ p.kind = b.kind /\ p.entries = b.entries
<1> DEFINE q == Request(c, b)
           es == b.entries
           v == ValidEntries(es)
<1>1. /\ q \in RequestSet /\ q.client = c /\ q.kind = b.kind /\ q.entries = b.entries
      /\ q.phase = "sending" /\ q.fates = <<>> /\ q.status = 0 /\ q.errors = {}
  BY NewRecord
<1>2. CASE Receive(c, b) = Accepted(q) /\ v = <<>>
  <2> DEFINE p == Accepted(q)
  <2> HIDE DEF q
  <2>1. /\ p \in RequestSet
        /\ p.client = c /\ p.kind = b.kind /\ p.entries = b.entries
        /\ p.fates = <<>> /\ p.phase = "replied" /\ p.status = 202
        /\ p.accepted = Len(ValidEntries(p.entries)) /\ p.errors = Rejected(p.entries)
    BY <1>1, AcceptedRecord
  <2> HIDE DEF p
  <2>2. Len(MessagesOf(p)) = 0
    BY <1>2, <2>1, Messages
  <2>3. Rejected(p.entries) \subseteq DOMAIN p.entries
    BY <2>1, Counts
  <2>4. Len(<<>>) = 0 /\ DOMAIN <<>> = {}
    OBVIOUS
  <2>5. Sound(p)
    BY <2>1, <2>2, <2>3, <2>4 DEF Sound, AllAcknowledged
  <2> QED BY <1>2, <2>1, <2>5 DEF p
<1>3. CASE Receive(c, b) = q /\ v # <<>>
  <2> HIDE DEF q
  <2>1. Len(MessagesOf(q)) # 0 /\ Len(MessagesOf(q)) \in Nat
    BY <1>1, <1>3, Messages
  <2>2. Len(<<>>) = 0
    OBVIOUS
  <2>3. Sound(q)
    BY <1>1, <2>1, <2>2 DEF Sound
  <2> QED BY <1>1, <1>3, <2>3
<1>4. CASE \E status \in {400, 413, 422} : Receive(c, b) = Answered(q, status)
  BY <1>4, Refused
<1>5. \/ Receive(c, b) = Accepted(q) /\ v = <<>>
      \/ Receive(c, b) = q /\ v # <<>>
      \/ \E status \in {400, 413, 422} : Receive(c, b) = Answered(q, status)
  BY DEF Receive
<1> HIDE DEF q, v, es
<1> QED BY <1>2, <1>3, <1>4, <1>5

LEMMA FatesRecord ==
  ASSUME NEW q \in RequestSet, NEW f \in Seq(Fates)
  PROVE  LET p == [q EXCEPT !.fates = f] IN
         /\ p \in RequestSet /\ p.fates = f
         /\ p.client = q.client /\ p.kind = q.kind /\ p.entries = q.entries
         /\ p.phase = q.phase /\ p.status = q.status /\ p.accepted = q.accepted
         /\ p.errors = q.errors /\ p.given_up = q.given_up
BY DEF RequestSet

LEMMA PhaseRecord ==
  ASSUME NEW q \in RequestSet, NEW phase \in {"sending", "waiting", "replied", "broken"}
  PROVE  LET p == [q EXCEPT !.phase = phase] IN
         /\ p \in RequestSet /\ p.phase = phase
         /\ p.client = q.client /\ p.kind = q.kind /\ p.entries = q.entries
         /\ p.fates = q.fates /\ p.status = q.status /\ p.accepted = q.accepted
         /\ p.errors = q.errors /\ p.given_up = q.given_up
BY DEF RequestSet

LEMMA GivenUpRecord ==
  ASSUME NEW q \in RequestSet
  PROVE  LET p == [q EXCEPT !.given_up = TRUE] IN
         /\ p \in RequestSet /\ p.given_up
         /\ p.client = q.client /\ p.kind = q.kind /\ p.entries = q.entries
         /\ p.fates = q.fates /\ p.phase = q.phase /\ p.status = q.status
         /\ p.accepted = q.accepted /\ p.errors = q.errors
<1> DEFINE p == [q EXCEPT !.given_up = TRUE]
<1>1. p \in RequestSet
  <2>1. ASSUME NEW flag \in Flags PROVE [q EXCEPT !.given_up = flag] \in RequestSet
    BY DEF RequestSet
  <2>2. TRUE \in Flags
    BY DEF Flags
  <2> QED BY <2>1, <2>2
<1>2. p.given_up = TRUE
  BY DEF RequestSet
<1>3. /\ p.client = q.client /\ p.kind = q.kind /\ p.entries = q.entries
      /\ p.fates = q.fates /\ p.phase = q.phase /\ p.status = q.status
      /\ p.accepted = q.accepted /\ p.errors = q.errors
  BY DEF RequestSet
<1> QED BY <1>1, <1>2, <1>3

LEMMA FieldsOf ==
  ASSUME NEW q \in RequestSet
  PROVE  /\ q.entries \in EntryLists /\ q.fates \in Seq(Fates) /\ Len(q.fates) \in Nat
         /\ DOMAIN q.fates = 1..Len(q.fates)
         /\ Len(MessagesOf(q)) \in Nat
         /\ q.client \in Clients /\ q.kind \in Kinds
         /\ q.phase \in {"sending", "waiting", "replied", "broken"}
<1>1. /\ q.entries \in EntryLists /\ q.fates \in Seq(Fates)
      /\ q.client \in Clients /\ q.kind \in Kinds
      /\ q.phase \in {"sending", "waiting", "replied", "broken"}
  BY DEF RequestSet
<1>2. Len(MessagesOf(q)) \in Nat
  BY <1>1, Messages
<1> QED BY <1>1, <1>2

\* A record changes where it is before its request has been answered.
LEMMA FatesFollow ==
  ASSUME NEW q \in RequestSet, Sound(q),
         NEW f \in Seq(Fates), Len(f) = Len(q.fates), q.status # 202
  PROVE  Follows(q, [q EXCEPT !.fates = f])
<1> DEFINE p == [q EXCEPT !.fates = f]
<1>1. /\ p \in RequestSet /\ p.fates = f
      /\ p.client = q.client /\ p.kind = q.kind /\ p.entries = q.entries
      /\ p.phase = q.phase /\ p.status = q.status /\ p.accepted = q.accepted
      /\ p.errors = q.errors /\ p.given_up = q.given_up
  BY FatesRecord
<1> HIDE DEF p
<1>2. MessagesOf(p) = MessagesOf(q)
  BY <1>1 DEF MessagesOf
<1>3. Sound(p)
  BY <1>1, <1>2 DEF Sound
<1>4. (Failed(q) => Failed(p)) /\ Stays(q, p)
  BY <1>1 DEF Failed, Stays
<1> QED BY <1>1, <1>3, <1>4 DEF Follows, p

\* One more record is with the producer.
LEMMA SendFollows ==
  ASSUME NEW q \in RequestSet, Sound(q), q.phase = "sending"
  PROVE  Follows(q, [q EXCEPT
            !.fates = Append(q.fates, "queued"),
            !.phase = IF Len(q.fates) + 1 = Len(MessagesOf(q)) THEN "waiting" ELSE "sending"])
<1> DEFINE f == Append(q.fates, "queued")
           phase == IF Len(q.fates) + 1 = Len(MessagesOf(q)) THEN "waiting" ELSE "sending"
           a == [q EXCEPT !.fates = f]
           p == [a EXCEPT !.phase = phase]
<1>1. Len(q.fates) \in Nat /\ q.fates \in Seq(Fates) /\ Len(MessagesOf(q)) \in Nat
  BY FieldsOf
<1>2. f \in Seq(Fates) /\ Len(f) = Len(q.fates) + 1 /\ phase \in {"sending", "waiting", "replied", "broken"}
  <2>1. "queued" \in Fates
    BY DEF Fates
  <2> QED BY <1>1, <2>1
<1>3. p = [q EXCEPT !.fates = f, !.phase = phase]
  OBVIOUS
<1> HIDE DEF f, phase
<1>4. /\ a \in RequestSet /\ a.fates = f
      /\ a.client = q.client /\ a.kind = q.kind /\ a.entries = q.entries
      /\ a.phase = q.phase /\ a.status = q.status /\ a.accepted = q.accepted
      /\ a.errors = q.errors /\ a.given_up = q.given_up
  BY <1>2, FatesRecord
<1> HIDE DEF a
<1>5. /\ p \in RequestSet /\ p.phase = phase
      /\ p.client = a.client /\ p.kind = a.kind /\ p.entries = a.entries
      /\ p.fates = a.fates /\ p.status = a.status /\ p.accepted = a.accepted
      /\ p.errors = a.errors /\ p.given_up = a.given_up
  BY <1>2, <1>4, PhaseRecord
<1> HIDE DEF p
<1>6. MessagesOf(p) = MessagesOf(q)
  BY <1>4, <1>5 DEF MessagesOf
<1>7. Sound(p)
  BY <1>1, <1>2, <1>4, <1>5, <1>6 DEF Sound, phase
<1>8. (Failed(q) => Failed(p)) /\ Stays(q, p)
  BY <1>4, <1>5 DEF Failed, Stays
<1> QED BY <1>3, <1>4, <1>5, <1>7, <1>8 DEF Follows, f, phase

\* send(), or a future, raised.
LEMMA RaisedFollows ==
  ASSUME NEW q \in RequestSet, Sound(q), q.phase \in {"sending", "waiting"}
  PROVE  Follows(q, Answered(q, 500))
<1> DEFINE p == Answered(q, 500)
<1>1. /\ p \in RequestSet
      /\ p.client = q.client /\ p.kind = q.kind /\ p.entries = q.entries
      /\ p.fates = q.fates /\ p.errors = q.errors /\ p.given_up = q.given_up
      /\ p.phase = "replied" /\ p.status = 500
  BY AnsweredRecord
<1> HIDE DEF p
<1>2. MessagesOf(p) = MessagesOf(q)
  BY <1>1 DEF MessagesOf
<1>3. Sound(p)
  BY <1>1, <1>2 DEF Sound
<1>4. Failed(p) /\ Stays(q, p)
  BY <1>1 DEF Failed, Stays
<1> QED BY <1>1, <1>3, <1>4 DEF Follows, p

\* All are acknowledged: only then the answer is a 202.
LEMMA AcceptedFollows ==
  ASSUME NEW q \in RequestSet, Sound(q), q.phase = "waiting", AllAcknowledged(q.fates)
  PROVE  Follows(q, Accepted(q))
<1> DEFINE p == Accepted(q)
<1>1. /\ p \in RequestSet
      /\ p.client = q.client /\ p.kind = q.kind /\ p.entries = q.entries
      /\ p.fates = q.fates /\ p.given_up = q.given_up
      /\ p.phase = "replied" /\ p.status = 202
      /\ p.accepted = Len(ValidEntries(p.entries)) /\ p.errors = Rejected(p.entries)
  BY AcceptedRecord
<1> HIDE DEF p
<1>2. MessagesOf(p) = MessagesOf(q)
  BY <1>1 DEF MessagesOf
<1>3. p.errors \subseteq DOMAIN p.entries
  BY <1>1 DEF Rejected
<1>4. Len(q.fates) = Len(MessagesOf(q)) /\ Len(q.fates) \in Nat
  BY FieldsOf DEF Sound
<1>5. Sound(p)
  BY <1>1, <1>2, <1>3, <1>4 DEF Sound
<1>6. (Failed(q) => Failed(p)) /\ Stays(q, p)
  BY <1>1 DEF Failed, Stays
<1> QED BY <1>1, <1>5, <1>6 DEF Follows, p

LEMMA GiveUpFollows ==
  ASSUME NEW q \in RequestSet, Sound(q), Pending(q)
  PROVE  Follows(q, [q EXCEPT !.given_up = TRUE])
<1> DEFINE p == [q EXCEPT !.given_up = TRUE]
<1>1. /\ p \in RequestSet /\ p.given_up
      /\ p.client = q.client /\ p.kind = q.kind /\ p.entries = q.entries
      /\ p.fates = q.fates /\ p.phase = q.phase /\ p.status = q.status
      /\ p.accepted = q.accepted /\ p.errors = q.errors
  BY GivenUpRecord
<1> HIDE DEF p
<1>2. MessagesOf(p) = MessagesOf(q)
  BY <1>1 DEF MessagesOf
<1>3. Sound(p)
  BY <1>1, <1>2 DEF Sound
<1>4. Failed(p) /\ Stays(q, p)
  BY <1>1 DEF Failed, Stays, Pending
<1> QED BY <1>1, <1>3, <1>4 DEF Follows, p

\* The process ends under a request; what it had been answered stays true.
LEMMA CrashFollows ==
  ASSUME NEW q \in RequestSet, Sound(q), NEW W
  PROVE  Follows(q, [q EXCEPT
            !.phase = IF @ \in {"sending", "waiting"} THEN "broken" ELSE @,
            !.fates = [k \in DOMAIN @ |-> IF @[k] # "queued" THEN @[k]
                                          ELSE IF k \in W THEN "unsure" ELSE "failed"]])
<1> DEFINE phase == IF q.phase \in {"sending", "waiting"} THEN "broken" ELSE q.phase
           f == [k \in DOMAIN q.fates |-> IF q.fates[k] # "queued" THEN q.fates[k]
                                          ELSE IF k \in W THEN "unsure" ELSE "failed"]
           a == [q EXCEPT !.phase = phase]
           p == [a EXCEPT !.fates = f]
<1>1. /\ Len(q.fates) \in Nat /\ q.fates \in Seq(Fates) /\ DOMAIN q.fates = 1..Len(q.fates)
      /\ Len(MessagesOf(q)) \in Nat
      /\ q.phase \in {"sending", "waiting", "replied", "broken"}
  BY FieldsOf
<1>2. f \in Seq(Fates) /\ Len(f) = Len(q.fates) /\ DOMAIN f = DOMAIN q.fates
  <2>1. \A k \in 1..Len(q.fates) : f[k] \in Fates
    BY <1>1 DEF Fates
  <2>2. f \in [1..Len(q.fates) -> Fates]
    BY <1>1, <2>1
  <2> HIDE DEF f
  <2> QED BY <1>1, <2>2
<1>3. p = [q EXCEPT !.phase = phase, !.fates = f]
  OBVIOUS
<1>4. phase \in {"sending", "waiting", "replied", "broken"} /\ (phase = "replied" <=> q.phase = "replied")
      /\ phase \notin {"sending", "waiting"}
      /\ (q.phase = "broken" => phase = "broken")
  BY <1>1
<1>5. AllAcknowledged(q.fates) => AllAcknowledged(f)
  BY <1>2 DEF AllAcknowledged
<1> HIDE DEF f, phase
<1>6. /\ a \in RequestSet /\ a.phase = phase
      /\ a.client = q.client /\ a.kind = q.kind /\ a.entries = q.entries
      /\ a.fates = q.fates /\ a.status = q.status /\ a.accepted = q.accepted
      /\ a.errors = q.errors /\ a.given_up = q.given_up
  BY <1>4, PhaseRecord
<1> HIDE DEF a
<1>7. /\ p \in RequestSet /\ p.fates = f
      /\ p.client = a.client /\ p.kind = a.kind /\ p.entries = a.entries
      /\ p.phase = a.phase /\ p.status = a.status /\ p.accepted = a.accepted
      /\ p.errors = a.errors /\ p.given_up = a.given_up
  BY <1>2, <1>6, FatesRecord
<1> HIDE DEF p
<1>8. MessagesOf(p) = MessagesOf(q)
  BY <1>6, <1>7 DEF MessagesOf
<1>9. Sound(p)
  BY <1>1, <1>2, <1>4, <1>5, <1>6, <1>7, <1>8 DEF Sound
<1>10. (Failed(q) => Failed(p)) /\ Stays(q, p)
  BY <1>4, <1>6, <1>7 DEF Failed, Stays
<1> QED BY <1>3, <1>6, <1>7, <1>9, <1>10 DEF Follows, f, phase

-----------------------------------------------------------------------------
(***************************************************************************)
(* The steps of the collector and of its clients.                          *)
(***************************************************************************)

CollInv ==
  /\ traffic \in [Clients -> SUBSET Batches]
  /\ faults \in 0..MaxFaults
  /\ requests \in Seq(RequestSet)
  /\ \A r \in DOMAIN requests : Sound(requests[r])

\* A step of a handler, of the producer or of the end of the process.
AllFollow ==
  /\ requests' \in Seq(RequestSet)
  /\ DOMAIN requests' = DOMAIN requests
  /\ \A r \in DOMAIN requests : Follows(requests[r], requests'[r])

\* A client's step: one more request with a batch of its own.
Posted(c, b) ==
  \E p \in RequestSet :
    /\ requests' = Append(requests, p)
    /\ Sound(p) /\ p.client = c /\ p.kind = b.kind /\ p.entries = b.entries

LEMMA Unchanging ==
  ASSUME NEW q \in RequestSet, Sound(q)
  PROVE  Follows(q, q)
BY DEF Follows, Stays

LEMMA OneFollows ==
  ASSUME CollInv, NEW r \in DOMAIN requests, NEW p, Follows(requests[r], p),
         requests' = [requests EXCEPT ![r] = p]
  PROVE  AllFollow
<1>1. requests \in Seq(RequestSet) /\ \A s \in DOMAIN requests : Sound(requests[s])
  BY DEF CollInv
<1>2. DOMAIN requests = 1..Len(requests) /\ \A s \in DOMAIN requests : requests[s] \in RequestSet
  BY <1>1
<1>3. p \in RequestSet
  BY DEF Follows
<1>4. requests' \in Seq(RequestSet) /\ DOMAIN requests' = DOMAIN requests
  BY <1>1, <1>3
<1>5. \A s \in DOMAIN requests : requests'[s] = IF s = r THEN p ELSE requests[s]
  BY <1>1
<1>6. \A s \in DOMAIN requests : Follows(requests[s], requests'[s])
  BY <1>1, <1>2, <1>5, Unchanging
<1> QED BY <1>4, <1>6 DEF AllFollow

LEMMA FaultsCounted ==
  ASSUME CollInv, Fault \/ UNCHANGED <<traffic, faults>>
  PROVE  faults' \in 0..MaxFaults /\ UNCHANGED traffic
BY CollectorAssumption DEF CollInv, Fault

\* A fate a record is given after it was queued.
LEMMA FateGiven ==
  ASSUME CollInv, NEW r \in DOMAIN requests, NEW k \in Queued(r), NEW fate \in Fates,
         requests' = [requests EXCEPT ![r].fates[k] = fate]
  PROVE  AllFollow
<1> DEFINE q == requests[r]
           f == [q.fates EXCEPT ![k] = fate]
<1>1. q \in RequestSet /\ Sound(q)
  BY DEF CollInv
<1>2. requests' = [requests EXCEPT ![r] = [q EXCEPT !.fates = f]]
  OBVIOUS
<1>3. k \in DOMAIN q.fates /\ q.fates[k] = "queued"
  BY DEF Queued
<1> HIDE DEF q
<1>4. q.fates \in Seq(Fates)
  BY <1>1, FieldsOf
<1>5. f \in Seq(Fates) /\ Len(f) = Len(q.fates)
  BY <1>3, <1>4
<1>6. q.status # 202
  BY <1>1, <1>3 DEF Sound, AllAcknowledged
<1> HIDE DEF f
<1>7. Follows(q, [q EXCEPT !.fates = f])
  BY <1>1, <1>5, <1>6, FatesFollow
<1> QED BY <1>2, <1>7, OneFollows DEF q

LEMMA HandleFollows ==
  ASSUME CollInv, NEW r \in DOMAIN requests, Handle(r)
  PROVE  AllFollow
<1> DEFINE q == requests[r]
<1>1. q \in RequestSet /\ Sound(q)
  BY DEF CollInv
<1>2. CASE Send(r)
  <2> DEFINE p == [q EXCEPT
            !.fates = Append(q.fates, "queued"),
            !.phase = IF Len(q.fates) + 1 = Len(MessagesOf(q)) THEN "waiting" ELSE "sending"]
  <2>1. q.phase = "sending" /\ requests' = [requests EXCEPT ![r] = p]
    BY <1>2 DEF Send
  <2>2. Follows(q, p)
    BY <1>1, <2>1, SendFollows
  <2> HIDE DEF p
  <2> QED BY <2>1, <2>2, OneFollows
<1>3. CASE SendFails(r)
  <2>1. q.phase = "sending" /\ requests' = [requests EXCEPT ![r] = Answered(q, 500)]
    BY <1>3 DEF SendFails
  <2>2. Follows(q, Answered(q, 500))
    BY <1>1, <2>1, RaisedFollows
  <2> QED BY <2>1, <2>2, OneFollows
<1>4. CASE Acknowledged(r)
  <2>1. /\ q.phase = "waiting" /\ AllAcknowledged(q.fates)
        /\ requests' = [requests EXCEPT ![r] = Accepted(q)]
    BY <1>4 DEF Acknowledged
  <2>2. Follows(q, Accepted(q))
    BY <1>1, <2>1, AcceptedFollows
  <2> QED BY <2>1, <2>2, OneFollows
<1>5. CASE Raises(r)
  <2>1. q.phase = "waiting" /\ requests' = [requests EXCEPT ![r] = Answered(q, 500)]
    BY <1>5 DEF Raises
  <2>2. Follows(q, Answered(q, 500))
    BY <1>1, <2>1, RaisedFollows
  <2> QED BY <2>1, <2>2, OneFollows
<1> QED BY <1>2, <1>3, <1>4, <1>5 DEF Handle

LEMMA CrashFollowsAll ==
  ASSUME CollInv, NEW written, Crash(written)
  PROVE  AllFollow
<1> DEFINE after(r) == [requests[r] EXCEPT
            !.phase = IF @ \in {"sending", "waiting"} THEN "broken" ELSE @,
            !.fates = [k \in DOMAIN @ |->
                         IF @[k] # "queued" THEN @[k]
                         ELSE IF <<r, k>> \in written THEN "unsure"
                         ELSE "failed"]]
<1>1. requests' = [r \in DOMAIN requests |-> after(r)]
  BY DEF Crash
<1>2. ASSUME NEW r \in DOMAIN requests PROVE Follows(requests[r], after(r))
  <2> DEFINE q == requests[r]
             W == {k \in DOMAIN q.fates : <<r, k>> \in written}
  <2>1. q \in RequestSet /\ Sound(q)
    BY DEF CollInv
  <2>2. Follows(q, [q EXCEPT
            !.phase = IF @ \in {"sending", "waiting"} THEN "broken" ELSE @,
            !.fates = [k \in DOMAIN @ |-> IF @[k] # "queued" THEN @[k]
                                          ELSE IF k \in W THEN "unsure" ELSE "failed"]])
    <3> HIDE DEF q, W
    <3> QED BY <2>1, CrashFollows
  <2>3. [k \in DOMAIN q.fates |-> IF q.fates[k] # "queued" THEN q.fates[k]
                                  ELSE IF k \in W THEN "unsure" ELSE "failed"]
        = [k \in DOMAIN q.fates |-> IF q.fates[k] # "queued" THEN q.fates[k]
                                  ELSE IF <<r, k>> \in written THEN "unsure" ELSE "failed"]
    OBVIOUS
  <2> QED BY <2>2, <2>3
<1> HIDE DEF after
<1>3. requests \in Seq(RequestSet) /\ \A r \in DOMAIN requests : after(r) \in RequestSet
  BY <1>2 DEF Follows, CollInv
<1>4. requests' \in Seq(RequestSet) /\ DOMAIN requests' = DOMAIN requests
  <2>1. DOMAIN requests = 1..Len(requests) /\ Len(requests) \in Nat
    BY <1>3
  <2> QED BY <1>1, <1>3, <2>1
<1> QED BY <1>1, <1>2, <1>4 DEF AllFollow

LEMMA CollectFollows ==
  ASSUME CollInv, Collect
  PROVE  AllFollow /\ faults' \in 0..MaxFaults /\ UNCHANGED traffic
<1>1. CASE \E r \in DOMAIN requests : Handle(r)
  <2>1. PICK r \in DOMAIN requests : Handle(r)
    BY <1>1
  <2>2. Fault \/ UNCHANGED <<traffic, faults>>
    BY <2>1 DEF Handle, Send, SendFails, Acknowledged, Raises
  <2> QED BY <2>1, <2>2, HandleFollows, FaultsCounted
<1>2. CASE \E r \in DOMAIN requests : Deliver(r)
  <2>1. PICK r \in DOMAIN requests : Deliver(r)
    BY <1>2
  <2>2. PICK k \in Queued(r) : Store(r, k) \/ \E fate \in {"failed", "unsure"} : DeliveryFails(r, k, fate)
    BY <2>1 DEF Deliver
  <2>3. PICK fate \in Fates : requests' = [requests EXCEPT ![r].fates[k] = fate]
    BY <2>2 DEF Store, DeliveryFails, Fates
  <2>4. Fault \/ UNCHANGED <<traffic, faults>>
    BY <2>2 DEF Store, DeliveryFails
  <2> QED BY <2>3, <2>4, FateGiven, FaultsCounted
<1>3. CASE \E written \in SUBSET AllQueued : Crash(written)
  <2>1. PICK written \in SUBSET AllQueued : Crash(written)
    BY <1>3
  <2>2. Fault
    BY <2>1 DEF Crash
  <2> QED BY <2>1, <2>2, CrashFollowsAll, FaultsCounted
<1> QED BY <1>1, <1>2, <1>3 DEF Collect

LEMMA GiveUpFollowsAll ==
  ASSUME CollInv, NEW r \in DOMAIN requests, GiveUp(r)
  PROVE  AllFollow /\ faults' \in 0..MaxFaults /\ UNCHANGED traffic
<1> DEFINE q == requests[r]
           p == [q EXCEPT !.given_up = TRUE]
<1>1. q \in RequestSet /\ Sound(q)
  BY DEF CollInv
<1>2. Pending(q) /\ Fault /\ requests' = [requests EXCEPT ![r] = p]
  BY DEF GiveUp
<1>3. Follows(q, p)
  BY <1>1, <1>2, GiveUpFollows
<1> HIDE DEF p
<1> QED BY <1>2, <1>3, OneFollows, FaultsCounted

LEMMA PostsOne ==
  ASSUME CollInv, NEW c \in Clients, NEW b, b.kind \in Kinds, b.entries \in EntryLists,
         Post(c, b) \/ Denied(c, b)
  PROVE  Posted(c, b) /\ faults' \in 0..MaxFaults /\ UNCHANGED traffic
<1>1. Fault \/ UNCHANGED <<traffic, faults>>
  BY DEF Post, Denied
<1>2. CASE Post(c, b)
  <2> DEFINE p == Receive(c, b)
  <2>1. /\ p \in RequestSet /\ Sound(p)
        /\ p.client = c /\ p.kind = b.kind /\ p.entries = b.entries
    BY Received
  <2>2. requests' = Append(requests, p)
    BY <1>2 DEF Post
  <2> HIDE DEF p
  <2> QED BY <1>1, <2>1, <2>2, FaultsCounted DEF Posted
<1>3. CASE Denied(c, b)
  <2> DEFINE p == Deny(c, b)
  <2>1. /\ p \in RequestSet /\ Sound(p)
        /\ p.client = c /\ p.kind = b.kind /\ p.entries = b.entries
    BY Refused DEF Deny
  <2>2. requests' = Append(requests, p)
    BY <1>3 DEF Denied
  <2> HIDE DEF p
  <2> QED BY <1>1, <2>1, <2>2, FaultsCounted DEF Posted
<1> QED BY <1>2, <1>3

-----------------------------------------------------------------------------
(***************************************************************************)
(* The runner, as a client among others.                                   *)
(***************************************************************************)

\* A nonempty set of the first n numbers has a greatest element.
LEMMA MaxInSet ==
  ASSUME NEW n \in Nat, NEW S, S \subseteq 1..n, S # {}
  PROVE  Max(S) \in S
<1> DEFINE T == {n - x : x \in S}
<1>1. T \subseteq Nat /\ T # {}
  <2>1. \A x \in S : x \in 1..n /\ n - x \in Nat
    OBVIOUS
  <2>2. PICK x : x \in S
    OBVIOUS
  <2>3. n - x \in T
    BY <2>2
  <2> QED BY <2>1, <2>3
<1> HIDE DEF T
<1>2. PICK y \in T : \A z \in T : y <= z
  BY <1>1, LeastNatural
<1>3. PICK x \in S : y = n - x
  BY DEF T
<1>4. \A z \in S : x >= z
  <2> TAKE z \in S
  <2>1. n - z \in T
    BY DEF T
  <2>2. n - x <= n - z
    BY <1>2, <1>3, <2>1
  <2>3. x \in Int /\ z \in Int
    OBVIOUS
  <2> QED BY <2>2, <2>3
<1>5. \E m \in S : \A z \in S : m >= z
  BY <1>4
<1> QED BY <1>5 DEF Max

StatKeys == {"sent", "spans_sent", "accepted", "rejected", "failed_requests", "batches"}

RunnerInv ==
  /\ stats \in [StatKeys -> Nat]
  /\ spans \in Nat
  /\ step \in Sending => Own # {}

\* What the other clients know: each of their requests carries a batch they
\* have to report, and before the last with one batch all others failed.
TriesInv ==
  /\ traffic[simulator] = {}
  /\ \A c \in Clients : c # simulator =>
       /\ \A r \in OfClient(c) : \E b \in traffic[c] : Carries(requests[r], b)
       /\ \A r, s \in OfClient(c) :
            r < s /\ requests[r].kind = requests[s].kind
                  /\ requests[r].entries = requests[s].entries
            => Failed(requests[r])

\* The batches of the runner have entries of their own.
LEMMA SlotSizes ==
  ASSUME NEW rate \in TargetRates, NEW tick \in Nat
  PROVE  SlotSize(rate, tick) \in Nat
<1> DEFINE ongoing == {i \in DOMAIN Scenario : tick < Before(i + 1)}
           phase == PhaseAt(tick)
           size == BatchSize(rate)
<1>1. /\ Scenario \in Seq([duration : Nat, percent : Nat]) /\ Len(Scenario) \in Nat \ {0}
      /\ DOMAIN Scenario = 1..Len(Scenario)
  BY SimulatorAssumption
<1>2. phase \in {Scenario[i] : i \in DOMAIN Scenario}
  <2>1. CASE ongoing = {}
    BY <1>1, <2>1 DEF PhaseAt
  <2>2. CASE ongoing # {}
    <3>1. Min(ongoing) \in ongoing
      <4>1. ongoing \subseteq Nat
        BY <1>1
      <4> HIDE DEF ongoing
      <4>2. \E m \in ongoing : \A z \in ongoing : m <= z
        BY <2>2, <4>1, LeastNatural
      <4> QED BY <4>2 DEF Min
    <3>2. phase = Scenario[Min(ongoing)]
      BY <2>2 DEF PhaseAt
    <3> HIDE DEF phase
    <3> QED BY <3>1, <3>2
  <2> QED BY <2>1, <2>2
<1>3. phase.percent \in Nat
  <2> HIDE DEF phase
  <2>1. PICK i \in 1..Len(Scenario) : phase = Scenario[i]
    BY <1>1, <1>2
  <2> DEFINE P == [duration : Nat, percent : Nat]
  <2>2. Scenario \in Seq(P)
    BY <1>1
  <2> HIDE DEF P
  <2>3. Scenario[i] \in P
    BY <2>2
  <2> QED BY <2>1, <2>3 DEF P
<1>4. size \in Nat
  BY RateIsKept, SimulatorAssumption
<1> DEFINE n == size * phase.percent
<1>5. n \in Nat
  <2> HIDE DEF size, phase
  <2> QED BY <1>3, <1>4, Products
<1>6. SlotSize(rate, tick) = AtLeast(1, Round(n, 100))
  BY DEF SlotSize
<1> HIDE DEF n
<1>7. Round(n, 100) \in Nat
  BY <1>5, Rounded
<1> QED BY <1>6, <1>7 DEF AtLeast

LEMMA Appended ==
  ASSUME CollInv, NEW c, NEW b, Posted(c, b)
  PROVE  /\ requests' \in Seq(RequestSet)
         /\ Len(requests) \in Nat
         /\ DOMAIN requests = 1..Len(requests)
         /\ DOMAIN requests' = 1..Len(requests) + 1
         /\ \A r \in DOMAIN requests : r \in DOMAIN requests' /\ requests'[r] = requests[r]
         /\ LET p == requests'[Len(requests) + 1] IN
            p \in RequestSet /\ Sound(p) /\ p.client = c /\ p.kind = b.kind /\ p.entries = b.entries
<1>1. requests \in Seq(RequestSet)
  BY DEF CollInv
<1>2. PICK p \in RequestSet :
         /\ requests' = Append(requests, p)
         /\ Sound(p) /\ p.client = c /\ p.kind = b.kind /\ p.entries = b.entries
  BY DEF Posted
<1>3. /\ requests' \in Seq(RequestSet) /\ Len(requests) \in Nat
      /\ DOMAIN requests = 1..Len(requests)
      /\ Len(requests') = Len(requests) + 1 /\ requests'[Len(requests) + 1] = p
      /\ \A r \in 1..Len(requests) : requests'[r] = requests[r]
  BY <1>1, <1>2
<1>4. DOMAIN requests' = 1..Len(requests')
  BY <1>3
<1>5. \A r \in 1..Len(requests) : r \in 1..Len(requests) + 1
  BY <1>3
<1> QED BY <1>2, <1>3, <1>4, <1>5

LEMMA PostedInv ==
  ASSUME CollInv, NEW c, NEW b, Posted(c, b), faults' \in 0..MaxFaults, UNCHANGED traffic
  PROVE  CollInv'
<1>1. \A r \in DOMAIN requests' : r \in DOMAIN requests \/ r = Len(requests) + 1
  BY Appended
<1>2. \A r \in DOMAIN requests' : Sound(requests'[r])
  BY <1>1, Appended DEF CollInv
<1>3. requests' \in Seq(RequestSet)
  BY Appended
<1> QED BY <1>2, <1>3 DEF CollInv

LEMMA FollowInv ==
  ASSUME CollInv, AllFollow, faults' \in 0..MaxFaults, UNCHANGED traffic
  PROVE  CollInv'
BY DEF CollInv, AllFollow, Follows

\* A step of the others is one of two: no new request, or a try of a client.
LEMMA AroundOfTwo ==
  ASSUME CollInv, TriesInv, Next
  PROVE  /\ faults' \in 0..MaxFaults /\ UNCHANGED traffic
         /\ \/ AllFollow
            \/ \E c \in Clients \ {simulator} : \E b \in traffic[c] : Posted(c, b) /\ MaySend(c, b)
<1>1. CASE Collect
  BY <1>1, CollectFollows
<1>2. CASE \E c \in Clients : Report(c)
  <2>1. PICK c \in Clients : Report(c)
    BY <1>2
  <2>2. CASE \E r \in OfClient(c) : GiveUp(r)
    BY <2>2, GiveUpFollowsAll DEF OfClient
  <2>3. CASE \E b \in traffic[c] : MaySend(c, b) /\ (Post(c, b) \/ Denied(c, b))
    <3>1. PICK b \in traffic[c] : MaySend(c, b) /\ (Post(c, b) \/ Denied(c, b))
      BY <2>3
    <3>2. c # simulator
      BY <3>1 DEF TriesInv
    <3>3. b \in Batches
      BY DEF CollInv
    <3>4. b.kind \in Kinds /\ b.entries \in EntryLists
      BY <3>3, BatchesAssumption DEF EntryLists
    <3>5. Posted(c, b) /\ faults' \in 0..MaxFaults /\ UNCHANGED traffic
      BY <3>1, <3>4, PostsOne
    <3> QED BY <3>1, <3>2, <3>5
  <2> QED BY <2>1, <2>2, <2>3 DEF Report
<1> QED BY <1>1, <1>2 DEF Next

\* The batches of the runner are requests like any other.
LEMMA SlotPosts ==
  ASSUME CollInv, OnSchedule, Slot
  PROVE  /\ \E n \in Nat : Posted(simulator, EventBatch(batch + 1, n))
         /\ faults' \in 0..MaxFaults /\ UNCHANGED traffic
<1> DEFINE n == SlotSize(qps, now)
           b == EventBatch(batch + 1, n)
<1>1. n \in Nat /\ batch + 1 \in Nat
  BY SlotSizes DEF OnSchedule
<1>2. Post(simulator, b) \/ Denied(simulator, b)
  BY DEF Slot, Posts
<1> HIDE DEF n
<1>3. b.kind \in Kinds /\ b.entries \in EntryLists
  BY <1>1 DEF EventBatch, EntryLists, Kinds
<1>4. Posted(simulator, b) /\ faults' \in 0..MaxFaults /\ UNCHANGED traffic
  <2> HIDE DEF b
  <2> QED BY <1>2, <1>3, PostsOne, SimulatorAssumption
<1> QED BY <1>1, <1>4

LEMMA SpansPost ==
  ASSUME CollInv, OnSchedule, RunnerInv, Posts(SpanBatch(batch, spans))
  PROVE  /\ Posted(simulator, SpanBatch(batch, spans))
         /\ faults' \in 0..MaxFaults /\ UNCHANGED traffic
<1> DEFINE b == SpanBatch(batch, spans)
<1>1. b.kind \in Kinds /\ b.entries \in EntryLists
  BY DEF SpanBatch, EntryLists, Kinds, OnSchedule, RunnerInv
<1>2. Post(simulator, b) \/ Denied(simulator, b)
  BY DEF Posts
<1> HIDE DEF b
<1>3. Posted(simulator, b) /\ faults' \in 0..MaxFaults /\ UNCHANGED traffic
  BY <1>1, <1>2, PostsOne, SimulatorAssumption
<1> QED BY <1>3 DEF b

\* Every step is one of three: no new request, a try of a client, or a batch of
\* the runner.
LEMMA StepsOfThree ==
  ASSUME CollInv, OnSchedule, RunnerInv, TriesInv, [SimNext]_allVars
  PROVE  /\ faults' \in 0..MaxFaults /\ UNCHANGED traffic
         /\ \/ AllFollow
            \/ \E c \in Clients \ {simulator} : \E b \in traffic[c] : Posted(c, b) /\ MaySend(c, b)
            \/ \E b : Posted(simulator, b)
<1>1. ASSUME UNCHANGED <<traffic, requests, faults>>
      PROVE  AllFollow /\ faults' \in 0..MaxFaults /\ UNCHANGED traffic
  <2>1. \A r \in DOMAIN requests : requests[r] \in RequestSet /\ Sound(requests[r])
    BY DEF CollInv
  <2>2. \A r \in DOMAIN requests : Follows(requests[r], requests'[r])
    BY <1>1, <2>1, Unchanging
  <2> QED BY <1>1, <2>2 DEF AllFollow, CollInv
<1>2. CASE Begin
  <2>1. UNCHANGED requests /\ (Fault \/ UNCHANGED <<traffic, faults>>)
    BY <1>2 DEF Begin
  <2>2. faults' \in 0..MaxFaults /\ UNCHANGED traffic
    BY <2>1, FaultsCounted
  <2>3. \A r \in DOMAIN requests : requests[r] \in RequestSet /\ Sound(requests[r])
    BY DEF CollInv
  <2>4. AllFollow
    BY <2>1, <2>3, Unchanging DEF AllFollow, CollInv
  <2> QED BY <2>2, <2>4
<1>3. CASE Slot
  BY <1>3, SlotPosts
<1>4. CASE EventsSent
  <2>1. CASE UNCHANGED <<traffic, requests, faults>>
    BY <1>1, <2>1
  <2>2. CASE Posts(SpanBatch(batch, spans))
    BY <2>2, SpansPost
  <2> QED BY <1>4, <2>1, <2>2 DEF EventsSent
<1>5. CASE Finish \/ SpansSent \/ Wake \/ Tick \/ UNCHANGED allVars
  BY <1>1, <1>5 DEF Finish, SpansSent, Wake, Tick, allVars
<1>6. CASE Next
  BY <1>6, AroundOfTwo
<1> QED BY <1>2, <1>3, <1>4, <1>5, <1>6 DEF SimNext, Run, Around

LEMMA CollNext ==
  ASSUME CollInv, OnSchedule, RunnerInv, TriesInv, [SimNext]_allVars
  PROVE  CollInv'
<1>1. faults' \in 0..MaxFaults /\ UNCHANGED traffic
  BY StepsOfThree
<1>2. \/ AllFollow
      \/ \E c \in Clients \ {simulator} : \E b \in traffic[c] : Posted(c, b) /\ MaySend(c, b)
      \/ \E b : Posted(simulator, b)
  BY StepsOfThree
<1> QED BY <1>1, <1>2, FollowInv, PostedInv

\* Requests that follow keep what their clients know.
LEMMA TriesFollow ==
  ASSUME CollInv, TriesInv, AllFollow, UNCHANGED traffic
  PROVE  TriesInv'
<1>1. \A r \in DOMAIN requests :
        /\ requests'[r].client = requests[r].client
        /\ requests'[r].kind = requests[r].kind
        /\ requests'[r].entries = requests[r].entries
        /\ Failed(requests[r]) => Failed(requests'[r])
  BY DEF AllFollow, Follows
<1>2. DOMAIN requests' = DOMAIN requests
  BY DEF AllFollow
<1>3. \A c : OfClient(c)' = OfClient(c)
  BY <1>1, <1>2 DEF OfClient
<1>4. \A c : \A r \in OfClient(c) : r \in DOMAIN requests
  BY DEF OfClient
<1> SUFFICES ASSUME NEW c \in Clients, c # simulator
             PROVE  /\ \A r \in OfClient(c) : \E b \in traffic[c] : Carries(requests'[r], b)
                    /\ \A r, s \in OfClient(c) :
                         r < s /\ requests'[r].kind = requests'[s].kind
                               /\ requests'[r].entries = requests'[s].entries
                         => Failed(requests'[r])
  BY <1>3 DEF TriesInv
<1>5. ASSUME NEW r \in OfClient(c) PROVE \E b \in traffic[c] : Carries(requests'[r], b)
  BY <1>1, <1>4 DEF TriesInv, Carries
<1>6. ASSUME NEW r \in OfClient(c), NEW s \in OfClient(c), r < s,
             requests'[r].kind = requests'[s].kind, requests'[r].entries = requests'[s].entries
      PROVE  Failed(requests'[r])
  <2>1. requests[r].kind = requests[s].kind /\ requests[r].entries = requests[s].entries
    BY <1>1, <1>4, <1>6
  <2>2. Failed(requests[r])
    BY <1>6, <2>1 DEF TriesInv
  <2> QED BY <1>1, <1>4, <2>2
<1> QED BY <1>5, <1>6

\* A client tries again only after each of its tries failed.
LEMMA TriesPosted ==
  ASSUME CollInv, TriesInv, UNCHANGED traffic, NEW d \in Clients, NEW b, Posted(d, b),
         d # simulator => b \in traffic[d] /\ MaySend(d, b)
  PROVE  TriesInv'
<1> DEFINE n == Len(requests) + 1
<1>1. /\ Len(requests) \in Nat /\ DOMAIN requests = 1..Len(requests)
      /\ DOMAIN requests' = 1..n
      /\ \A r \in DOMAIN requests : r \in DOMAIN requests' /\ requests'[r] = requests[r]
      /\ requests'[n].client = d /\ requests'[n].kind = b.kind /\ requests'[n].entries = b.entries
  BY Appended
<1>2. \A r \in DOMAIN requests' : r \in DOMAIN requests \/ r = n
  BY <1>1
<1>3. \A r \in DOMAIN requests : r \in Nat /\ r < n
  BY <1>1
<1> HIDE DEF n
<1> SUFFICES ASSUME NEW c \in Clients, c # simulator
             PROVE  /\ \A r \in OfClient(c)' : \E e \in traffic[c] : Carries(requests'[r], e)
                    /\ \A r, s \in OfClient(c)' :
                         r < s /\ requests'[r].kind = requests'[s].kind
                               /\ requests'[r].entries = requests'[s].entries
                         => Failed(requests'[r])
  BY DEF TriesInv
<1>4. \A r \in OfClient(c)' : r \in OfClient(c) \/ (r = n /\ c = d)
  BY <1>1, <1>2 DEF OfClient
<1>5. \A r \in OfClient(c) : r \in DOMAIN requests /\ requests'[r] = requests[r]
  BY <1>1 DEF OfClient
<1>6. ASSUME NEW r \in OfClient(c)' PROVE \E e \in traffic[c] : Carries(requests'[r], e)
  <2>1. CASE r \in OfClient(c)
    BY <1>5, <2>1 DEF TriesInv
  <2>2. CASE r = n /\ c = d
    BY <1>1, <2>2 DEF Carries
  <2> QED BY <1>4, <2>1, <2>2
<1>7. ASSUME NEW r \in OfClient(c)', NEW s \in OfClient(c)', r < s,
             requests'[r].kind = requests'[s].kind, requests'[r].entries = requests'[s].entries
      PROVE  Failed(requests'[r])
  <2>1. r \in OfClient(c)
    <3> SUFFICES ASSUME r = n PROVE FALSE
      BY <1>4
    <3>1. s \in DOMAIN requests'
      BY DEF OfClient
    <3>2. n \in Nat /\ ~(n < n)
      BY <1>1 DEF n
    <3>3. s = n \/ s < n
      BY <1>2, <1>3, <3>1
    <3>4. s \in Nat
      BY <1>2, <1>3, <3>1, <3>2
    <3> QED BY <1>7, <3>2, <3>3, <3>4
  <2>2. CASE s \in OfClient(c)
    BY <1>5, <1>7, <2>1, <2>2 DEF TriesInv
  <2>3. CASE s = n /\ c = d
    <3>1. requests[r].kind = b.kind /\ requests[r].entries = b.entries
      BY <1>1, <1>5, <1>7, <2>1, <2>3
    <3>2. r \in Carrying(d, b)
      BY <2>1, <2>3, <3>1 DEF Carrying, Carries
    <3>3. Failed(requests[r])
      BY <2>3, <3>2 DEF MaySend
    <3> QED BY <1>5, <2>1, <3>3
  <2> QED BY <1>4, <2>2, <2>3
<1> QED BY <1>6, <1>7

LEMMA TriesNext ==
  ASSUME CollInv, OnSchedule, RunnerInv, TriesInv, [SimNext]_allVars
  PROVE  TriesInv'
<1>1. UNCHANGED traffic
  BY StepsOfThree
<1>2. \/ AllFollow
      \/ \E c \in Clients \ {simulator} : \E b \in traffic[c] : Posted(c, b) /\ MaySend(c, b)
      \/ \E b : Posted(simulator, b)
  BY StepsOfThree
<1>3. CASE AllFollow
  BY <1>1, <1>3, TriesFollow
<1>4. CASE \E c \in Clients \ {simulator} : \E b \in traffic[c] : Posted(c, b) /\ MaySend(c, b)
  BY <1>1, <1>4, TriesPosted
<1>5. CASE \E b : Posted(simulator, b)
  BY <1>1, <1>5, TriesPosted, SimulatorAssumption
<1> QED BY <1>2, <1>3, <1>4, <1>5

\* The request the runner waits for is one of its own.
LEMMA AnswerIsOwn ==
  ASSUME CollInv, Own # {}
  PROVE  /\ Max(Own) \in Own /\ Max(Own) \in DOMAIN requests
         /\ Answer \in RequestSet /\ Sound(Answer)
         /\ Len(Answer.entries) \in Nat /\ Answer.accepted \in Nat
         /\ Cardinality(Answer.errors) \in Nat
<1>1. requests \in Seq(RequestSet) /\ \A r \in DOMAIN requests : Sound(requests[r])
  BY DEF CollInv
<1>2. /\ Len(requests) \in Nat /\ DOMAIN requests = 1..Len(requests)
      /\ \A r \in DOMAIN requests : requests[r] \in RequestSet
  BY <1>1
<1>3. Own \subseteq 1..Len(requests)
  BY <1>2 DEF Own, OfClient
<1>4. Max(Own) \in Own
  <2> DEFINE S == Own
  <2> HIDE DEF S
  <2>1. S \subseteq 1..Len(requests) /\ S # {}
    BY <1>3 DEF S
  <2>2. Max(S) \in S
    BY <1>2, <2>1, MaxInSet
  <2> QED BY <2>2 DEF S
<1>5. Answer \in RequestSet /\ Sound(Answer)
  BY <1>1, <1>2, <1>3, <1>4 DEF Answer
<1> DEFINE q == Answer
<1> HIDE DEF q
<1>6. q.entries \in EntryLists /\ q.accepted \in Nat
  BY <1>5 DEF RequestSet, q
<1>7. Len(q.entries) \in Nat /\ DOMAIN q.entries = 1..Len(q.entries)
  BY <1>6, Counts
<1>8. q.errors \subseteq 1..Len(q.entries)
  BY <1>5, <1>7 DEF Sound, q
<1>9. Cardinality(q.errors) \in Nat
  <2>1. IsFiniteSet(1..Len(q.entries))
    BY <1>7, FS_Interval
  <2> QED BY <1>8, <2>1, FS_Subset, FS_CardinalityType
<1> QED BY <1>2, <1>3, <1>4, <1>5, <1>6, <1>7, <1>9 DEF q

LEMMA PlusCounts ==
  ASSUME stats \in [StatKeys -> Nat],
         NEW counts, \A k \in DOMAIN counts : counts[k] \in Nat
  PROVE  Plus(counts) \in [StatKeys -> Nat]
<1>1. DOMAIN stats = StatKeys /\ \A k \in StatKeys : stats[k] \in Nat
  OBVIOUS
<1>2. \A k \in StatKeys : stats[k] + (IF k \in DOMAIN counts THEN counts[k] ELSE 0) \in Nat
  BY <1>1
<1> QED BY <1>1, <1>2 DEF Plus

LEMMA CountsTyped ==
  ASSUME CollInv, RunnerInv, step \in Sending, CountEvents \/ CountSpans
  PROVE  stats' \in [StatKeys -> Nat]
<1> DEFINE n == Len(Answer.entries)
           a == Answer.accepted
           r == Cardinality(Answer.errors)
<1>1. n \in Nat /\ a \in Nat /\ r \in Nat
  BY AnswerIsOwn DEF RunnerInv
<1>2. \/ stats' = Plus([failed_requests |-> 1])
      \/ stats' = Plus([batches |-> 1, sent |-> n, failed_requests |-> 1])
      \/ stats' = Plus([batches |-> 1, sent |-> n, accepted |-> a, rejected |-> r])
      \/ stats' = Plus([spans_sent |-> n])
  BY DEF CountEvents, CountSpans
<1> HIDE DEF n, a, r
<1>3. stats \in [StatKeys -> Nat]
  BY DEF RunnerInv
<1>4. CASE stats' = Plus([failed_requests |-> 1])
  <2> DEFINE counts == [failed_requests |-> 1]
  <2>1. \A k \in DOMAIN counts : counts[k] \in Nat
    OBVIOUS
  <2> HIDE DEF counts
  <2>2. Plus(counts) \in [StatKeys -> Nat]
    BY <1>3, <2>1, PlusCounts
  <2> QED BY <1>4, <2>2 DEF counts
<1>5. CASE stats' = Plus([batches |-> 1, sent |-> n, failed_requests |-> 1])
  <2> DEFINE counts == [batches |-> 1, sent |-> n, failed_requests |-> 1]
  <2>1. \A k \in DOMAIN counts : counts[k] \in Nat
    BY <1>1
  <2> HIDE DEF counts
  <2>2. Plus(counts) \in [StatKeys -> Nat]
    BY <1>3, <2>1, PlusCounts
  <2> QED BY <1>5, <2>2 DEF counts
<1>6. CASE stats' = Plus([batches |-> 1, sent |-> n, accepted |-> a, rejected |-> r])
  <2> DEFINE counts == [batches |-> 1, sent |-> n, accepted |-> a, rejected |-> r]
  <2>1. \A k \in DOMAIN counts : counts[k] \in Nat
    BY <1>1
  <2> HIDE DEF counts
  <2>2. Plus(counts) \in [StatKeys -> Nat]
    BY <1>3, <2>1, PlusCounts
  <2> QED BY <1>6, <2>2 DEF counts
<1>7. CASE stats' = Plus([spans_sent |-> n])
  <2> DEFINE counts == [spans_sent |-> n]
  <2>1. \A k \in DOMAIN counts : counts[k] \in Nat
    BY <1>1
  <2> HIDE DEF counts
  <2>2. Plus(counts) \in [StatKeys -> Nat]
    BY <1>3, <2>1, PlusCounts
  <2> QED BY <1>7, <2>2 DEF counts
<1> QED BY <1>2, <1>4, <1>5, <1>6, <1>7

\* The runner has as many requests as before, or more.
LEMMA OwnStays ==
  ASSUME CollInv, OnSchedule, RunnerInv, TriesInv, [SimNext]_allVars
  PROVE  /\ Own # {} => Own' # {}
         /\ (\E b : Posted(simulator, b)) => Own' # {}
<1>1. ASSUME NEW c, NEW b, Posted(c, b), Own # {} PROVE Own' # {}
  <2>1. PICK r \in DOMAIN requests : requests[r].client = simulator
    BY <1>1 DEF Own, OfClient
  <2>2. r \in DOMAIN requests' /\ requests'[r] = requests[r]
    BY <1>1, Appended
  <2> QED BY <2>1, <2>2 DEF Own, OfClient
<1>2. ASSUME NEW b, Posted(simulator, b) PROVE Own' # {}
  <2> DEFINE n == Len(requests) + 1
  <2>1. Len(requests) \in Nat /\ DOMAIN requests' = 1..n /\ requests'[n].client = simulator
    BY <1>2, Appended
  <2>2. n \in DOMAIN requests'
    BY <2>1
  <2> HIDE DEF n
  <2> QED BY <2>1, <2>2 DEF Own, OfClient
<1>3. ASSUME AllFollow, Own # {} PROVE Own' # {}
  BY <1>3 DEF AllFollow, Follows, Own, OfClient
<1>4. \/ AllFollow
      \/ \E c \in Clients \ {simulator} : \E b \in traffic[c] : Posted(c, b) /\ MaySend(c, b)
      \/ \E b : Posted(simulator, b)
  BY StepsOfThree
<1> QED BY <1>1, <1>2, <1>3, <1>4

LEMMA RunnerNext ==
  ASSUME CollInv, OnSchedule, RunnerInv, TriesInv, [SimNext]_allVars
  PROVE  RunnerInv'
<1>1. /\ stats \in [StatKeys -> Nat] /\ spans \in Nat
      /\ step \in Sending => Own # {}
  BY DEF RunnerInv
<1>2. Own # {} => Own' # {}
  BY OwnStays
<1>3. CASE Begin
  BY <1>1, <1>3 DEF Begin, RunnerInv, Sending
<1>4. CASE Slot
  <2>1. Own' # {}
    BY <1>4, SlotPosts, OwnStays
  <2>2. spans' \in Nat /\ UNCHANGED stats
    BY <1>4, SimulatorAssumption DEF Slot
  <2> QED BY <1>1, <2>1, <2>2 DEF RunnerInv
<1>5. CASE EventsSent
  <2>1. step \in Sending /\ CountEvents /\ UNCHANGED spans
    BY <1>5 DEF EventsSent, Sending
  <2>2. stats' \in [StatKeys -> Nat]
    BY <2>1, CountsTyped
  <2> QED BY <1>1, <1>2, <2>1, <2>2 DEF RunnerInv
<1>6. CASE SpansSent
  <2>1. step \in Sending /\ CountSpans /\ UNCHANGED spans
    BY <1>6 DEF SpansSent, Sending
  <2>2. stats' \in [StatKeys -> Nat]
    BY <2>1, CountsTyped
  <2> QED BY <1>1, <1>2, <2>1, <2>2 DEF RunnerInv
<1>7. CASE Finish \/ Wake
  BY <1>1, <1>7 DEF Finish, Wake, RunnerInv, Sending
<1>8. CASE Tick \/ UNCHANGED runnerVars
  BY <1>1, <1>2, <1>8 DEF Tick, runnerVars, RunnerInv
<1> QED BY <1>3, <1>4, <1>5, <1>6, <1>7, <1>8
        DEF SimNext, Run, Around, allVars, runnerVars

LEMMA SimInvInit ==
  ASSUME SimInit
  PROVE  CollInv /\ OnSchedule /\ RunnerInv /\ TriesInv
<1>1. CollInv
  <2>1. requests = <<>> /\ faults = 0 /\ traffic \in [Clients -> SUBSET Batches]
    BY DEF SimInit, Init
  <2>2. MaxFaults \in Nat
    BY CollectorAssumption
  <2> QED BY <2>1, <2>2 DEF CollInv
<1>2. OnSchedule
  BY ScheduleInit
<1>3. RunnerInv
  <2>1. step \in {"start", "none"} /\ spans = 0
    BY DEF SimInit
  <2>2. stats \in [StatKeys -> Nat]
    BY DEF SimInit, StatKeys
  <2> QED BY <2>1, <2>2 DEF RunnerInv, Sending
<1>4. TriesInv
  <2>1. \A c : OfClient(c) = {}
    BY DEF OfClient, SimInit, Init
  <2> QED BY <2>1 DEF TriesInv, SimInit
<1> QED BY <1>1, <1>2, <1>3, <1>4

\* A 202 is answered when all records of the valid entries are acknowledged, and
\* a record on the log is one of a valid entry.
LEMMA AcceptedHolds ==
  ASSUME CollInv
  PROVE  AcceptedIsOnTheLog
<1> SUFFICES ASSUME NEW r \in DOMAIN requests, requests[r].status = 202
             PROVE  LET q == requests[r] IN
                    /\ q.accepted + Cardinality(q.errors) = Len(q.entries)
                    /\ \A i \in DOMAIN q.entries :
                         IF i \in q.errors
                         THEN \A m \in RecordsOf(q.kind, q.entries[i]) : ~OnLog(q, m)
                         ELSE \A m \in RecordsOf(q.kind, q.entries[i]) : OnLog(q, m)
  BY DEF AcceptedIsOnTheLog, EntryOnLog, RecordsOf
<1> DEFINE q == requests[r]
<1>1. q \in RequestSet /\ Sound(q) /\ q.status = 202
  BY DEF CollInv
<1> HIDE DEF q
<1>2. q.entries \in EntryLists /\ q.fates \in Seq(Fates)
  BY <1>1 DEF RequestSet
<1>3. /\ q.accepted = Len(ValidEntries(q.entries)) /\ q.errors = Rejected(q.entries)
      /\ Len(q.fates) = Len(MessagesOf(q)) /\ DOMAIN q.fates = 1..Len(MessagesOf(q))
      /\ \A k \in DOMAIN q.fates : IsWritten(q.fates[k])
  BY <1>1, <1>2 DEF Sound, AllAcknowledged, IsWritten
<1>4. q.accepted + Cardinality(q.errors) = Len(q.entries)
  BY <1>2, <1>3, Counts
<1>5. \A i \in DOMAIN q.entries : i \in q.errors <=> ~q.entries[i].valid
  BY <1>3 DEF Rejected
<1>6. ASSUME NEW i \in DOMAIN q.entries, ~q.entries[i].valid,
             NEW m \in RecordsOf(q.kind, q.entries[i]), OnLog(q, m)
      PROVE  FALSE
  <2>1. PICK k \in 1..Len(MessagesOf(q)) : MessagesOf(q)[k] = m
    BY <1>3, <1>6 DEF OnLog
  <2>2. PICK j \in DOMAIN q.entries :
           q.entries[j].valid /\ m \in RecordsOf(q.kind, q.entries[j])
    BY <1>2, <2>1, Messages
  <2>3. q.entries[i].id = q.entries[j].id
    BY <2>2, NamesItsEntry
  <2>4. i = j
    BY <1>2, <2>3, Lists DEF Distinct
  <2> QED BY <1>6, <2>2, <2>4
<1>7. ASSUME NEW i \in DOMAIN q.entries, q.entries[i].valid,
             NEW m \in RecordsOf(q.kind, q.entries[i])
      PROVE  OnLog(q, m)
  <2> DEFINE es == q.entries
             all == MessagesOf(q)
             of(j) == RecordsOf(q.kind, es[j])
  <2>1. \A j \in DOMAIN es : es[j].valid => \A x \in of(j) : \E l \in 1..Len(all) : all[l] = x
    BY <1>2, AllPublished
  <2>2. i \in DOMAIN es /\ es[i].valid /\ m \in of(i)
    BY <1>7
  <2> HIDE DEF es, all, of
  <2>3. PICK k \in 1..Len(all) : all[k] = m
    BY <2>1, <2>2
  <2> QED BY <1>3, <2>3 DEF OnLog, all
<1> QED BY <1>4, <1>5, <1>6, <1>7 DEF q

\* Each record is in a request once, and among the requests with a batch all but
\* one failed.
LEMMA DuplicatesHold ==
  ASSUME CollInv, TriesInv
  PROVE  DuplicatesNeedAFailure
<1> SUFFICES ASSUME NEW c \in Clients, NEW b \in traffic[c], NEW m \in Range(Sends(b.kind, b.entries))
             PROVE  LET failed == {r \in Carrying(c, b) : Failed(requests[r])}
                    IN  Cardinality(CopiesOf(c, m)) =< Cardinality(failed) + 1
  BY DEF DuplicatesNeedAFailure
<1> DEFINE G == Carrying(c, b)
           F == {r \in G : Failed(requests[r])}
           C == CopiesOf(c, m)
<1>1. c # simulator /\ b \in Batches /\ b.entries \in EntryLists
  <2>1. c # simulator
    BY DEF TriesInv
  <2>2. b \in Batches
    BY DEF CollInv
  <2> QED BY <2>1, <2>2 DEF EntryLists
<1>2. /\ Len(requests) \in Nat /\ DOMAIN requests = 1..Len(requests)
      /\ \A r \in DOMAIN requests :
           /\ requests[r].entries \in EntryLists /\ requests[r].fates \in Seq(Fates)
           /\ Len(requests[r].fates) <= Len(MessagesOf(requests[r]))
  <2>1. requests \in Seq(RequestSet) /\ \A r \in DOMAIN requests : Sound(requests[r])
    BY DEF CollInv
  <2>2. \A r \in DOMAIN requests : requests[r] \in RequestSet
    BY <2>1
  <2> QED BY <2>1, <2>2 DEF RequestSet, Sound
<1>3. PICK i \in DOMAIN b.entries : m \in RecordsOf(b.kind, b.entries[i])
  <2> DEFINE kind == b.kind
             es == b.entries
             E == Range(es)
             all == Sends(kind, es)
             R == UNION {RecordsOf(kind, es[j]) : j \in 1..Len(es)}
  <2>1. es \in Seq(E)
    BY <1>1, Lists
  <2> HIDE DEF kind, es, E
  <2>2. all \in Seq(R)
    BY <2>1, Published
  <2>3. DOMAIN es = 1..Len(es)
    BY <2>1
  <2>4. PICK k \in DOMAIN all : m = all[k]
    BY DEF Range, kind, es
  <2> HIDE DEF all, R
  <2>5. m \in R
    BY <2>2, <2>4
  <2> QED BY <2>3, <2>5 DEF R, kind, es
<1>4. ASSUME NEW rk \in C
      PROVE  /\ rk = <<rk[1], rk[2]>> /\ rk[1] \in G
             /\ rk[2] \in 1..Len(MessagesOf(requests[rk[1]]))
             /\ MessagesOf(requests[rk[1]])[rk[2]] = m
  <2> DEFINE r == rk[1]
             k == rk[2]
             q == requests[r]
  <2>1. /\ rk = <<r, k>> /\ r \in OfClient(c) /\ k \in DOMAIN q.fates
        /\ MessagesOf(q)[k] = m
    BY DEF CopiesOf
  <2>2. r \in DOMAIN requests
    BY <2>1 DEF OfClient
  <2> HIDE DEF r, k
  <2>3. q.entries \in EntryLists /\ q.fates \in Seq(Fates) /\ Len(q.fates) <= Len(MessagesOf(q))
    BY <1>2, <2>2
  <2>4. PICK d \in traffic[c] : q.kind = d.kind /\ q.entries = d.entries
    BY <1>1, <2>1 DEF TriesInv, Carries
  <2> HIDE DEF q
  <2>5. k \in 1..Len(MessagesOf(q))
    <3>1. Len(MessagesOf(q)) \in Nat
      BY <2>3, Messages
    <3>2. DOMAIN q.fates = 1..Len(q.fates) /\ Len(q.fates) \in Nat
      BY <2>3
    <3> QED BY <2>1, <2>3, <3>1, <3>2 DEF q
  <2>6. PICK j \in DOMAIN q.entries : m \in RecordsOf(q.kind, q.entries[j])
    BY <2>1, <2>3, <2>5, Messages DEF q
  <2>7. d \in Batches /\ j \in DOMAIN d.entries
    BY <2>4, <2>6 DEF CollInv
  <2>8. d.entries[j].id = b.entries[i].id
    BY <1>3, <2>4, <2>6, NamesItsEntry
  <2>9. b = d
    BY <1>1, <2>7, <2>8, BatchesAssumption
  <2>10. r \in G
    BY <2>1, <2>4, <2>9 DEF Carrying, Carries, q
  <2> QED BY <2>1, <2>5, <2>10 DEF r, k, q
<1>5. IsFiniteSet(G) /\ IsFiniteSet(F)
  <2>1. G \subseteq 1..Len(requests) /\ F \subseteq G
    BY <1>2 DEF Carrying, OfClient
  <2>2. IsFiniteSet(1..Len(requests))
    BY <1>2, FS_Interval
  <2> HIDE DEF F, G
  <2> QED BY <2>1, <2>2, FS_Subset
<1>6. IsFiniteSet(C) /\ Cardinality(C) <= Cardinality(G)
  <2> DEFINE f == [rk \in C |-> rk[1]]
  <2>1. f \in [C -> G]
    BY <1>4
  <2>2. ASSUME NEW x \in C, NEW y \in C, f[x] = f[y] PROVE x = y
    <3>1. x[1] = y[1]
      BY <2>2
    <3>2. Once(MessagesOf(requests[x[1]]))
      <4>1. requests[x[1]].entries \in EntryLists
        BY <1>2, <1>4 DEF Carrying, OfClient
      <4> QED BY <4>1, Messages
    <3>3. x[2] = y[2]
      <4>1. /\ x[2] \in 1..Len(MessagesOf(requests[x[1]]))
            /\ MessagesOf(requests[x[1]])[x[2]] = m
        BY <1>4
      <4>2. /\ y[2] \in 1..Len(MessagesOf(requests[x[1]]))
            /\ MessagesOf(requests[x[1]])[y[2]] = m
        BY <1>4, <3>1
      <4> QED BY <3>2, <4>1, <4>2 DEF Once
    <3>4. x = <<x[1], x[2]>> /\ y = <<y[1], y[2]>>
      BY <1>4
    <3> QED BY <3>1, <3>3, <3>4
  <2>3. f \in Injection(C, G)
    BY <2>1, <2>2 DEF Injection, IsInjective
  <2> HIDE DEF f, C, G
  <2> QED BY <1>5, <2>3, FS_Injection
<1>7. Cardinality(G) <= Cardinality(F) + 1
  <2>1. Cardinality(F) \in Nat
    BY <1>5, FS_CardinalityType
  <2>2. CASE G = F
    <3> HIDE DEF G, F
    <3> QED BY <2>1, <2>2
  <2>3. CASE G # F
    <3>1. PICK r \in G : ~Failed(requests[r])
      BY <2>3
    <3>2. \A s \in G :
            /\ s \in OfClient(c) /\ s \in Nat
            /\ requests[s].kind = b.kind /\ requests[s].entries = b.entries
      BY <1>2 DEF Carrying, Carries, OfClient
    <3>3. \A s \in G : s # r => Failed(requests[s])
      <4> TAKE s \in G
      <4>1. s \in Nat /\ r \in Nat
        BY <3>2
      <4>2. ~(r < s)
        BY <1>1, <3>1, <3>2 DEF TriesInv
      <4>3. s < r => Failed(requests[s])
        BY <1>1, <3>2 DEF TriesInv
      <4> QED BY <4>1, <4>2, <4>3
    <3>4. G = F \cup {r}
      BY <3>1, <3>3
    <3> HIDE DEF G, F
    <3>5. Cardinality(G) = Cardinality(F) \/ Cardinality(G) = Cardinality(F) + 1
      BY <1>5, <3>4, FS_AddElement
    <3> QED BY <2>1, <3>5
  <2> QED BY <2>2, <2>3
<1>8. Cardinality(C) \in Nat /\ Cardinality(G) \in Nat /\ Cardinality(F) \in Nat
  BY <1>5, <1>6, FS_CardinalityType
<1> QED BY <1>6, <1>7, <1>8

LEMMA SimTyped ==
  ASSUME CollInv, OnSchedule, RunnerInv
  PROVE  SimTypeOK
<1>1. requests \in Seq(RequestSet) /\ \A r \in DOMAIN requests : Sound(requests[r])
  BY DEF CollInv
<1>2. ASSUME NEW r \in DOMAIN requests PROVE RequestOK(requests[r])
  <2>1. requests[r] \in RequestSet /\ Sound(requests[r])
    BY <1>1
  <2> DEFINE q == requests[r]
  <2> HIDE DEF q
  <2>2. /\ q.client \in Clients /\ q.kind \in Kinds /\ q.fates \in Seq(Fates)
        /\ q.phase \in {"sending", "waiting", "replied", "broken"}
        /\ q.status \in {0, 202, 400, 413, 422, 429, 500} /\ q.accepted \in Nat
        /\ q.given_up \in Flags
    BY <2>1 DEF RequestSet, q
  <2>3. q.errors \subseteq DOMAIN q.entries /\ Len(q.fates) <= Len(MessagesOf(q))
    BY <2>1 DEF Sound, q
  <2>4. RequestOK(q)
    BY <2>2, <2>3 DEF RequestOK, Flags
  <2> QED BY <2>4 DEF q
<1>3. TypeOK
  BY <1>2 DEF TypeOK, CollInv
<1>4. \A k \in DOMAIN stats : stats[k] \in Nat
  BY DEF RunnerInv
<1>5. next_send \in 0..now + Interval(qps)
  <2>1. Interval(qps) \in Nat
    BY RateIsKept DEF OnSchedule
  <2> QED BY <2>1 DEF OnSchedule
<1> QED BY <1>3, <1>4, <1>5 DEF SimTypeOK, OnSchedule, Places

-----------------------------------------------------------------------------
(***************************************************************************)
(* The runner's books: what its counters say of its requests.              *)
(***************************************************************************)

Sizes(q, S) == [r \in S |-> Len(q[r].entries)]
Total(q, S) == SumFunction(Sizes(q, S))

\* A request that was accepted, as far as the runner knows.
Clean(q) == q.status = 202 /\ ~q.given_up

OwnOf(q) == {r \in DOMAIN q : q[r].client = simulator}

CleanEvents(q, W) == {r \in OwnOf(q) \ W : q[r].kind = "events" /\ Clean(q[r])}

\* The requests q, but for those in W, are in the books s: the runner has heard
\* of each; the entries of the accepted ones, and nothing else, are counted as
\* accepted; and no failure goes uncounted.
InTheBooks(q, W, s) ==
  /\ \A r \in OwnOf(q) \ W : Settled(q[r])
  /\ s.accepted = Total(q, CleanEvents(q, W))
  /\ s.failed_requests = 0 =>
       /\ \A r \in OwnOf(q) \ W : Clean(q[r])
       /\ s.accepted = s.sent

\* What the runner sends passes validation.
OwnAreValid == \A r \in Own : \A i \in DOMAIN requests[r].entries : requests[r].entries[i].valid

\* The request run() awaits.
Awaited == IF step \in Sending THEN {Max(Own)} ELSE {}

BooksInv ==
  /\ OwnAreValid
  /\ step \in Sending => requests[Max(Own)].kind = step
  /\ InTheBooks(requests, Awaited, stats)

\* A later state of the same requests is in the books that had them.
Remains(q, p) ==
  /\ p.kind = q.kind /\ p.entries = q.entries
  /\ Stays(q, p)

LEMMA BooksStay ==
  ASSUME NEW q, NEW p, NEW W, NEW V, NEW s, InTheBooks(q, W, s),
         OwnOf(p) \ V = OwnOf(q) \ W,
         \A r \in OwnOf(q) \ W : Remains(q[r], p[r])
  PROVE  InTheBooks(p, V, s)
<1> DEFINE S == OwnOf(q) \ W
<1>1. ASSUME NEW r \in S
      PROVE  Settled(p[r]) /\ (Clean(p[r]) <=> Clean(q[r])) /\ p[r].kind = q[r].kind
             /\ p[r].entries = q[r].entries
  <2>1. Settled(q[r]) /\ Remains(q[r], p[r])
    BY DEF InTheBooks
  <2> QED BY <2>1 DEF Settled, Clean, Remains, Stays
<1>2. CleanEvents(p, V) = CleanEvents(q, W) /\ CleanEvents(q, W) \subseteq S
  BY <1>1 DEF CleanEvents
<1> DEFINE C == CleanEvents(q, W)
<1>3. Sizes(p, C) = Sizes(q, C)
  <2> HIDE DEF S
  <2>1. \A r \in C : p[r].entries = q[r].entries
    BY <1>1, <1>2
  <2> HIDE DEF C
  <2> QED BY <2>1 DEF Sizes
<1>4. Total(p, CleanEvents(p, V)) = Total(q, CleanEvents(q, W))
  BY <1>2, <1>3 DEF Total
<1> QED BY <1>1, <1>4 DEF InTheBooks

LEMMA BooksFollow ==
  ASSUME CollInv, AllFollow, NEW W, NEW s, InTheBooks(requests, W, s)
  PROVE  /\ InTheBooks(requests', W, s)
         /\ Own' = Own
         /\ OwnAreValid => OwnAreValid'
         /\ \A r \in Own : requests'[r].kind = requests[r].kind
<1>1. /\ DOMAIN requests' = DOMAIN requests
      /\ \A r \in DOMAIN requests : /\ requests'[r].client = requests[r].client
                                    /\ Remains(requests[r], requests'[r])
  BY DEF AllFollow, Follows, Remains
<1>2. OwnOf(requests') = OwnOf(requests) /\ OwnOf(requests) \subseteq DOMAIN requests
  BY <1>1 DEF OwnOf
<1>3. Own = OwnOf(requests) /\ Own' = OwnOf(requests')
  BY DEF Own, OfClient, OwnOf
<1>4. InTheBooks(requests', W, s)
  <2>1. \A r \in OwnOf(requests) \ W : Remains(requests[r], requests'[r])
    BY <1>1, <1>2
  <2> QED BY <1>2, <2>1, BooksStay
<1>5. \A r \in Own : /\ requests'[r].kind = requests[r].kind
                     /\ requests'[r].entries = requests[r].entries
  BY <1>1, <1>2, <1>3 DEF Remains
<1>6. OwnAreValid => OwnAreValid'
  BY <1>2, <1>3, <1>5 DEF OwnAreValid
<1> QED BY <1>2, <1>3, <1>4, <1>5, <1>6

\* The requests of others are not in the books.
LEMMA BooksPostedByOthers ==
  ASSUME CollInv, NEW c, c # simulator, NEW b, Posted(c, b), NEW W, NEW s,
         InTheBooks(requests, W, s)
  PROVE  /\ InTheBooks(requests', W, s)
         /\ Own' = Own
         /\ OwnAreValid => OwnAreValid'
         /\ \A r \in Own : requests'[r].kind = requests[r].kind
<1> DEFINE n == Len(requests) + 1
<1>1. /\ \A r \in DOMAIN requests : r \in DOMAIN requests' /\ requests'[r] = requests[r]
      /\ \A r \in DOMAIN requests' : r \in DOMAIN requests \/ r = n
      /\ requests'[n].client = c
  BY Appended
<1> HIDE DEF n
<1>2. OwnOf(requests') = OwnOf(requests) /\ OwnOf(requests) \subseteq DOMAIN requests
  BY <1>1 DEF OwnOf
<1>3. Own = OwnOf(requests) /\ Own' = OwnOf(requests')
  BY DEF Own, OfClient, OwnOf
<1>4. \A r \in OwnOf(requests) : requests'[r] = requests[r] /\ Remains(requests[r], requests'[r])
  BY <1>1, <1>2 DEF Remains, Stays
<1>5. InTheBooks(requests', W, s)
  <2>1. \A r \in OwnOf(requests) \ W : Remains(requests[r], requests'[r])
    BY <1>4
  <2> QED BY <1>2, <2>1, BooksStay
<1>6. OwnAreValid => OwnAreValid'
  BY <1>2, <1>3, <1>4 DEF OwnAreValid
<1> QED BY <1>2, <1>3, <1>4, <1>5, <1>6

\* The runner's next request is the one it awaits.
LEMMA BooksPosted ==
  ASSUME CollInv, NEW b, Posted(simulator, b), NEW s, InTheBooks(requests, {}, s),
         OwnAreValid, \A i \in DOMAIN b.entries : b.entries[i].valid
  PROVE  /\ InTheBooks(requests', {Max(Own')}, s)
         /\ OwnAreValid'
         /\ requests'[Max(Own')].kind = b.kind
<1> DEFINE n == Len(requests) + 1
<1>1. /\ Len(requests) \in Nat /\ DOMAIN requests = 1..Len(requests) /\ DOMAIN requests' = 1..n
      /\ \A r \in DOMAIN requests : r \in DOMAIN requests' /\ requests'[r] = requests[r]
      /\ requests'[n].client = simulator /\ requests'[n].kind = b.kind
      /\ requests'[n].entries = b.entries
  BY Appended
<1>2. /\ n \in DOMAIN requests' /\ n \notin DOMAIN requests
      /\ \A r \in DOMAIN requests' : (r \in DOMAIN requests \/ r = n) /\ r \in Nat /\ r <= n
  BY <1>1
<1>3. Own = OwnOf(requests) /\ Own' = OwnOf(requests')
  BY DEF Own, OfClient, OwnOf
<1>4. n \in Nat
  BY <1>1
<1> HIDE DEF n
<1>5. OwnOf(requests') = OwnOf(requests) \cup {n} /\ OwnOf(requests) \subseteq DOMAIN requests
      /\ OwnOf(requests') \subseteq DOMAIN requests'
  BY <1>1, <1>2 DEF OwnOf
<1>6. Max(Own') = n
  <2> DEFINE S == OwnOf(requests')
  <2>1. n \in S /\ \A r \in S : r \in Nat /\ r <= n
    BY <1>2, <1>5
  <2> HIDE DEF S
  <2>2. \E m \in S : \A r \in S : m >= r
    BY <1>4, <2>1
  <2>3. Max(S) \in S /\ \A r \in S : Max(S) >= r
    BY <2>2 DEF Max
  <2>4. Max(S) \in Nat /\ Max(S) <= n /\ Max(S) >= n
    BY <2>1, <2>3
  <2>5. Max(S) = n
    BY <1>4, <2>4
  <2> QED BY <1>3, <2>5 DEF S
<1>7. \A r \in OwnOf(requests) : requests'[r] = requests[r] /\ Remains(requests[r], requests'[r])
  BY <1>1, <1>5 DEF Remains, Stays
<1>8. InTheBooks(requests', {n}, s)
  <2>1. \A r \in OwnOf(requests) \ {} : Remains(requests[r], requests'[r])
    BY <1>7
  <2>2. OwnOf(requests') \ {n} = OwnOf(requests) \ {}
    BY <1>2, <1>5
  <2> QED BY <2>1, <2>2, BooksStay
<1>9. OwnAreValid'
  BY <1>1, <1>3, <1>5, <1>7 DEF OwnAreValid
<1> QED BY <1>1, <1>6, <1>8, <1>9

LEMMA PlusField ==
  ASSUME stats \in [StatKeys -> Nat], NEW counts, NEW k \in StatKeys
  PROVE  Plus(counts)[k] = stats[k] + (IF k \in DOMAIN counts THEN counts[k] ELSE 0)
<1>1. DOMAIN stats = StatKeys
  OBVIOUS
<1> QED BY <1>1 DEF Plus

\* What becomes of the counters the books are about.
LEMMA Counted ==
  ASSUME CollInv, RunnerInv, Own # {}, CountEvents
  PROVE  /\ stats.failed_requests \in Nat /\ stats.sent \in Nat /\ stats.accepted \in Nat
         /\ \/ /\ NoAnswer \/ (HasAnswer /\ Answer.status >= 400)
               /\ stats'.failed_requests = stats.failed_requests + 1
               /\ stats'.accepted = stats.accepted
            \/ /\ HasAnswer /\ Answer.status < 400
               /\ stats'.failed_requests = stats.failed_requests
               /\ stats'.accepted = stats.accepted + Answer.accepted
               /\ stats'.sent = stats.sent + Len(Answer.entries)
<1> DEFINE n == Len(Answer.entries)
           a == Answer.accepted
           r == Cardinality(Answer.errors)
<1>1. n \in Nat /\ a \in Nat /\ r \in Nat
  BY AnswerIsOwn
<1>2. /\ stats \in [StatKeys -> Nat]
      /\ "failed_requests" \in StatKeys /\ "sent" \in StatKeys /\ "accepted" \in StatKeys
  BY DEF RunnerInv, StatKeys
<1>3. stats.failed_requests \in Nat /\ stats.sent \in Nat /\ stats.accepted \in Nat
  BY <1>2
<1>4. \/ /\ NoAnswer
         /\ stats' = Plus([failed_requests |-> 1])
      \/ /\ HasAnswer /\ Answer.status >= 400
         /\ stats' = Plus([batches |-> 1, sent |-> n, failed_requests |-> 1])
      \/ /\ HasAnswer /\ Answer.status < 400
         /\ stats' = Plus([batches |-> 1, sent |-> n, accepted |-> a, rejected |-> r])
  BY DEF CountEvents
<1> HIDE DEF n, a, r
<1>5. CASE NoAnswer /\ stats' = Plus([failed_requests |-> 1])
  <2> DEFINE counts == [failed_requests |-> 1]
  <2>1. DOMAIN counts = {"failed_requests"} /\ counts["failed_requests"] = 1
    OBVIOUS
  <2> HIDE DEF counts
  <2>2. /\ Plus(counts)["failed_requests"] = stats["failed_requests"] + 1
        /\ Plus(counts)["accepted"] = stats["accepted"] + 0
    BY <1>2, <2>1, PlusField
  <2> QED BY <1>3, <1>5, <2>2 DEF counts
<1>6. CASE /\ HasAnswer /\ Answer.status >= 400
           /\ stats' = Plus([batches |-> 1, sent |-> n, failed_requests |-> 1])
  <2> DEFINE counts == [batches |-> 1, sent |-> n, failed_requests |-> 1]
  <2>1. DOMAIN counts = {"batches", "sent", "failed_requests"} /\ counts["failed_requests"] = 1
    OBVIOUS
  <2> HIDE DEF counts
  <2>2. /\ Plus(counts)["failed_requests"] = stats["failed_requests"] + 1
        /\ Plus(counts)["accepted"] = stats["accepted"] + 0
    BY <1>2, <2>1, PlusField
  <2> QED BY <1>3, <1>6, <2>2 DEF counts
<1>7. CASE /\ HasAnswer /\ Answer.status < 400
           /\ stats' = Plus([batches |-> 1, sent |-> n, accepted |-> a, rejected |-> r])
  <2> DEFINE counts == [batches |-> 1, sent |-> n, accepted |-> a, rejected |-> r]
  <2>1. /\ DOMAIN counts = {"batches", "sent", "accepted", "rejected"}
        /\ counts["sent"] = n /\ counts["accepted"] = a
    OBVIOUS
  <2> HIDE DEF counts
  <2>2. /\ Plus(counts)["failed_requests"] = stats["failed_requests"] + 0
        /\ Plus(counts)["accepted"] = stats["accepted"] + a
        /\ Plus(counts)["sent"] = stats["sent"] + n
    BY <1>2, <2>1, PlusField
  <2> QED BY <1>3, <1>7, <2>2 DEF counts, n, a
<1> QED BY <1>3, <1>4, <1>5, <1>6, <1>7

LEMMA SpansCounted ==
  ASSUME CollInv, RunnerInv, Own # {}, CountSpans
  PROVE  /\ stats.failed_requests \in Nat /\ stats.sent \in Nat /\ stats.accepted \in Nat
         /\ stats'.accepted = stats.accepted /\ stats'.sent = stats.sent
         /\ \/ /\ NoAnswer \/ (HasAnswer /\ Answer.status >= 400)
               /\ stats'.failed_requests = stats.failed_requests + 1
            \/ /\ HasAnswer /\ Answer.status < 400
               /\ stats'.failed_requests = stats.failed_requests
<1> DEFINE n == Len(Answer.entries)
<1>1. n \in Nat
  BY AnswerIsOwn
<1>2. /\ stats \in [StatKeys -> Nat]
      /\ "failed_requests" \in StatKeys /\ "sent" \in StatKeys /\ "accepted" \in StatKeys
  BY DEF RunnerInv, StatKeys
<1>3. stats.failed_requests \in Nat /\ stats.sent \in Nat /\ stats.accepted \in Nat
  BY <1>2
<1>4. \/ /\ NoAnswer \/ (HasAnswer /\ Answer.status >= 400)
         /\ stats' = Plus([failed_requests |-> 1])
      \/ /\ HasAnswer /\ Answer.status < 400
         /\ stats' = Plus([spans_sent |-> n])
  BY DEF CountSpans
<1> HIDE DEF n
<1>5. CASE /\ NoAnswer \/ (HasAnswer /\ Answer.status >= 400)
           /\ stats' = Plus([failed_requests |-> 1])
  <2> DEFINE counts == [failed_requests |-> 1]
  <2>1. DOMAIN counts = {"failed_requests"} /\ counts["failed_requests"] = 1
    OBVIOUS
  <2> HIDE DEF counts
  <2>2. /\ Plus(counts)["failed_requests"] = stats["failed_requests"] + 1
        /\ Plus(counts)["accepted"] = stats["accepted"] + 0
        /\ Plus(counts)["sent"] = stats["sent"] + 0
    BY <1>2, <2>1, PlusField
  <2> QED BY <1>3, <1>5, <2>2 DEF counts
<1>6. CASE /\ HasAnswer /\ Answer.status < 400
           /\ stats' = Plus([spans_sent |-> n])
  <2> DEFINE counts == [spans_sent |-> n]
  <2>1. DOMAIN counts = {"spans_sent"}
    OBVIOUS
  <2> HIDE DEF counts
  <2>2. /\ Plus(counts)["failed_requests"] = stats["failed_requests"] + 0
        /\ Plus(counts)["accepted"] = stats["accepted"] + 0
        /\ Plus(counts)["sent"] = stats["sent"] + 0
    BY <1>2, <2>1, PlusField
  <2> QED BY <1>3, <1>6, <2>2 DEF counts
<1> QED BY <1>3, <1>4, <1>5, <1>6

\* What the runner makes of an answer, or of none.
LEMMA Understood ==
  ASSUME CollInv, Own # {}
  PROVE  /\ Max(Own) \in OwnOf(requests) /\ Answer = requests[Max(Own)]
         /\ NoAnswer \/ (HasAnswer /\ Answer.status >= 400) => Settled(Answer) /\ ~Clean(Answer)
         /\ HasAnswer /\ Answer.status < 400 => Settled(Answer) /\ Clean(Answer)
<1>1. Max(Own) \in OwnOf(requests) /\ Answer \in RequestSet /\ Sound(Answer)
  BY AnswerIsOwn DEF Own, OfClient, OwnOf
<1> DEFINE q == Answer
<1> HIDE DEF q
<1>2. /\ q.status \in {0, 202, 400, 413, 422, 429, 500}
      /\ q.phase = "replied" <=> q.status # 0
  BY <1>1 DEF RequestSet, Sound, q
<1>3. /\ NoAnswer <=> (q.given_up \/ q.phase = "broken")
      /\ HasAnswer <=> (q.phase = "replied" /\ ~q.given_up)
  BY DEF NoAnswer, HasAnswer, q
<1>4. /\ q.status >= 400 => q.status # 202
      /\ q.status < 400 => q.status \in {0, 202}
  BY <1>2
<1>5. NoAnswer \/ (HasAnswer /\ q.status >= 400) => Settled(q) /\ ~Clean(q)
  BY <1>2, <1>3, <1>4 DEF Settled, Clean
<1>6. HasAnswer /\ q.status < 400 => Settled(q) /\ Clean(q)
  BY <1>2, <1>3, <1>4 DEF Settled, Clean
<1> QED BY <1>1, <1>5, <1>6 DEF q, Answer

\* Whether the answer's entries all count follows from what was sent.
LEMMA AllAccepted ==
  ASSUME CollInv, OwnAreValid, Own # {}, Clean(Answer)
  PROVE  Answer.accepted = Len(Answer.entries)
<1>1. Max(Own) \in Own /\ Answer \in RequestSet /\ Sound(Answer)
  BY AnswerIsOwn
<1>2. \A i \in DOMAIN Answer.entries : Answer.entries[i].valid
  BY <1>1 DEF OwnAreValid, Answer
<1> DEFINE q == Answer
<1> HIDE DEF q
<1>3. q.accepted = Len(ValidEntries(q.entries)) /\ q.entries \in EntryLists
  BY <1>1 DEF Clean, Sound, RequestSet, q
<1>4. Rejected(q.entries) = {}
  BY <1>2 DEF Rejected, q
<1>5. /\ Len(ValidEntries(q.entries)) \in Nat /\ Len(q.entries) \in Nat
      /\ Len(ValidEntries(q.entries)) + Cardinality(Rejected(q.entries)) = Len(q.entries)
  BY <1>3, Counts
<1>6. Cardinality({}) = 0
  BY FS_EmptySet
<1> QED BY <1>3, <1>4, <1>5, <1>6 DEF q

\* The requests are finitely many, and so are their entries.
LEMMA OwnFinite ==
  ASSUME CollInv
  PROVE  /\ IsFiniteSet(OwnOf(requests))
         /\ \A r \in OwnOf(requests) : Len(requests[r].entries) \in Nat
<1>1. requests \in Seq(RequestSet)
  BY DEF CollInv
<1>2. DOMAIN requests = 1..Len(requests) /\ Len(requests) \in Nat
  BY <1>1
<1>3. OwnOf(requests) \subseteq 1..Len(requests)
  BY <1>2 DEF OwnOf
<1>4. ASSUME NEW r \in DOMAIN requests PROVE Len(requests[r].entries) \in Nat
  <2>1. requests[r].entries \in EntryLists
    BY <1>1, FieldsOf
  <2> QED BY <2>1, Counts
<1>5. IsFiniteSet(OwnOf(requests))
  <2>1. IsFiniteSet(1..Len(requests))
    BY <1>2, FS_Interval
  <2> QED BY <1>3, <2>1, FS_Subset
<1> QED BY <1>4, <1>5 DEF OwnOf

LEMMA TotalOfMore ==
  ASSUME CollInv, NEW S, S \subseteq OwnOf(requests), NEW r \in OwnOf(requests), r \notin S
  PROVE  /\ Total(requests, S) \in Int
         /\ Total(requests, S \cup {r}) = Total(requests, S) + Len(requests[r].entries)
<1> DEFINE T == S \cup {r}
           f == Sizes(requests, T)
<1>1. IsFiniteSet(S)
  BY OwnFinite, FS_Subset
<1>2. \A x \in T : Len(requests[x].entries) \in Int
  BY OwnFinite
<1>3. f = [x \in T |-> Len(requests[x].entries)]
  BY DEF Sizes
<1>4. f \in [T -> Int] /\ f[r] = Len(requests[r].entries)
  BY <1>2, <1>3
<1>5. Restrict(f, S) = Sizes(requests, S)
  BY <1>3 DEF Sizes, Restrict
<1> HIDE DEF f
<1>6. /\ SumFunction(Restrict(f, S)) \in Int
      /\ SumFunction(f) = SumFunction(Restrict(f, S)) + f[r]
  BY <1>1, <1>4, SumOneMore
<1> QED BY <1>4, <1>5, <1>6 DEF Total, f

\* send() enters the answer to its batch into the books.
LEMMA EventsEntered ==
  ASSUME CollInv, RunnerInv, OwnAreValid, Own # {}, Answer.kind = "events",
         InTheBooks(requests, {Max(Own)}, stats), CountEvents
  PROVE  InTheBooks(requests, {}, stats')
<1> DEFINE m == Max(Own)
           S == OwnOf(requests)
           C == CleanEvents(requests, {m})
           D == CleanEvents(requests, {})
<1>1. /\ m \in S /\ Answer = requests[m]
      /\ NoAnswer \/ (HasAnswer /\ Answer.status >= 400) => Settled(Answer) /\ ~Clean(Answer)
      /\ HasAnswer /\ Answer.status < 400 => Settled(Answer) /\ Clean(Answer)
  BY Understood
<1>2. /\ stats.failed_requests \in Nat /\ stats.sent \in Nat /\ stats.accepted \in Nat
      /\ \/ /\ NoAnswer \/ (HasAnswer /\ Answer.status >= 400)
            /\ stats'.failed_requests = stats.failed_requests + 1
            /\ stats'.accepted = stats.accepted
         \/ /\ HasAnswer /\ Answer.status < 400
            /\ stats'.failed_requests = stats.failed_requests
            /\ stats'.accepted = stats.accepted + Answer.accepted
            /\ stats'.sent = stats.sent + Len(Answer.entries)
  BY Counted
<1>3. /\ \A r \in S \ {m} : Settled(requests[r])
      /\ stats.accepted = Total(requests, C)
      /\ stats.failed_requests = 0 =>
           (\A r \in S \ {m} : Clean(requests[r])) /\ stats.accepted = stats.sent
  BY DEF InTheBooks
<1>4. /\ ~Clean(requests[m]) => D = C
      /\ Clean(requests[m]) => D = C \cup {m}
      /\ m \notin C /\ C \subseteq S
  BY <1>1 DEF CleanEvents
<1> HIDE DEF m, S, C, D
<1>5. CASE /\ NoAnswer \/ (HasAnswer /\ Answer.status >= 400)
           /\ stats'.failed_requests = stats.failed_requests + 1
           /\ stats'.accepted = stats.accepted
  <2>1. stats'.failed_requests # 0
    BY <1>2, <1>5
  <2>2. \A r \in S \ {} : Settled(requests[r])
    BY <1>1, <1>3, <1>5
  <2>3. stats'.accepted = Total(requests, D)
    BY <1>1, <1>3, <1>4, <1>5
  <2> QED BY <2>1, <2>2, <2>3 DEF InTheBooks, D, S
<1>6. CASE /\ HasAnswer /\ Answer.status < 400
           /\ stats'.failed_requests = stats.failed_requests
           /\ stats'.accepted = stats.accepted + Answer.accepted
           /\ stats'.sent = stats.sent + Len(Answer.entries)
  <2>1. Clean(Answer) /\ Settled(Answer)
    BY <1>1, <1>6
  <2>2. Answer.accepted = Len(Answer.entries)
    BY <2>1, AllAccepted
  <2>3. Total(requests, D) = Total(requests, C) + Len(requests[m].entries)
    <3>1. Total(requests, C \cup {m}) = Total(requests, C) + Len(requests[m].entries)
      BY <1>1, <1>4, TotalOfMore DEF S
    <3> QED BY <1>1, <1>4, <2>1, <3>1
  <2>4. stats'.accepted = Total(requests, D)
    BY <1>1, <1>3, <1>6, <2>2, <2>3
  <2>5. \A r \in S \ {} : Settled(requests[r])
    BY <1>1, <1>3, <2>1
  <2>6. stats'.failed_requests = 0 =>
          (\A r \in S \ {} : Clean(requests[r])) /\ stats'.accepted = stats'.sent
    <3>1. stats.failed_requests = 0 => \A r \in S \ {} : Clean(requests[r])
      BY <1>1, <1>3, <2>1
    <3>2. stats.failed_requests = 0 => stats'.accepted = stats'.sent
      BY <1>3, <1>6, <2>2
    <3> QED BY <1>6, <3>1, <3>2
  <2> QED BY <2>4, <2>5, <2>6 DEF InTheBooks, D, S
<1> QED BY <1>2, <1>5, <1>6

\* send_spans() does so with the answer to its spans.
LEMMA SpansEntered ==
  ASSUME CollInv, RunnerInv, Own # {}, Answer.kind = "spans",
         InTheBooks(requests, {Max(Own)}, stats), CountSpans
  PROVE  InTheBooks(requests, {}, stats')
<1> DEFINE m == Max(Own)
           S == OwnOf(requests)
           C == CleanEvents(requests, {m})
           D == CleanEvents(requests, {})
<1>1. /\ m \in S /\ Answer = requests[m]
      /\ NoAnswer \/ (HasAnswer /\ Answer.status >= 400) => Settled(Answer) /\ ~Clean(Answer)
      /\ HasAnswer /\ Answer.status < 400 => Settled(Answer) /\ Clean(Answer)
  BY Understood
<1>2. /\ stats.failed_requests \in Nat
      /\ stats'.accepted = stats.accepted /\ stats'.sent = stats.sent
      /\ \/ /\ NoAnswer \/ (HasAnswer /\ Answer.status >= 400)
            /\ stats'.failed_requests = stats.failed_requests + 1
         \/ /\ HasAnswer /\ Answer.status < 400
            /\ stats'.failed_requests = stats.failed_requests
  BY SpansCounted
<1>3. /\ \A r \in S \ {m} : Settled(requests[r])
      /\ stats.accepted = Total(requests, C)
      /\ stats.failed_requests = 0 =>
           (\A r \in S \ {m} : Clean(requests[r])) /\ stats.accepted = stats.sent
  BY DEF InTheBooks
<1>4. D = C
  BY <1>1 DEF CleanEvents
<1> HIDE DEF m, S, C, D
<1>5. \A r \in S \ {} : Settled(requests[r])
  BY <1>1, <1>2, <1>3
<1>6. stats'.accepted = Total(requests, D)
  BY <1>2, <1>3, <1>4
<1>7. stats'.failed_requests = 0 =>
        (\A r \in S \ {} : Clean(requests[r])) /\ stats'.accepted = stats'.sent
  <2>1. stats'.failed_requests = 0 =>
          stats.failed_requests = 0 /\ HasAnswer /\ Answer.status < 400
    BY <1>2
  <2> QED BY <1>1, <1>2, <1>3, <2>1
<1> QED BY <1>5, <1>6, <1>7 DEF InTheBooks, D, S

LEMMA GeneratedAreValid ==
  ASSUME NEW n, NEW size \in Nat
  PROVE  \A i \in DOMAIN Generated(n, size) : Generated(n, size)[i].valid
BY DEF Generated

LEMMA BooksNext ==
  ASSUME CollInv, OnSchedule, RunnerInv, TriesInv, BooksInv, [SimNext]_allVars
  PROVE  BooksInv'
<1>1. /\ OwnAreValid
      /\ step \in Sending => requests[Max(Own)].kind = step
      /\ InTheBooks(requests, Awaited, stats)
  BY DEF BooksInv
<1>2. ASSUME UNCHANGED requests
      PROVE  Own' = Own /\ OwnAreValid'
  <2>1. Own' = Own
    BY <1>2 DEF Own, OfClient
  <2> QED BY <1>1, <1>2, <2>1 DEF OwnAreValid
<1>3. Awaited = {} <=> step \notin Sending
  BY DEF Awaited
<1>4. CASE Begin \/ Finish \/ Wake
  <2>1. UNCHANGED <<requests, stats>> /\ step \notin Sending /\ step' \notin Sending
    BY <1>4 DEF Begin, Finish, Wake, Sending
  <2>2. Awaited' = {}
    BY <2>1 DEF Awaited
  <2>3. Awaited = {}
    BY <1>3, <2>1
  <2> QED BY <1>1, <1>2, <2>1, <2>2, <2>3 DEF BooksInv
<1>5. CASE Tick \/ UNCHANGED allVars
  <2>1. UNCHANGED <<requests, stats, step>>
    BY <1>5 DEF Tick, allVars, runnerVars
  <2>2. Awaited' = Awaited
    BY <1>2, <2>1 DEF Awaited
  <2> QED BY <1>1, <1>2, <2>1, <2>2 DEF BooksInv
<1>6. CASE Slot
  <2>1. PICK n \in Nat : Posted(simulator, EventBatch(batch + 1, n))
    BY <1>6, SlotPosts
  <2> DEFINE b == EventBatch(batch + 1, n)
  <2>2. b.kind = "events" /\ \A i \in DOMAIN b.entries : b.entries[i].valid
    BY GeneratedAreValid DEF EventBatch
  <2>3. Posted(simulator, b)
    BY <2>1
  <2> HIDE DEF b
  <2>4. UNCHANGED stats /\ step' = "events" /\ step' \in Sending /\ step \notin Sending
    BY <1>6 DEF Slot, Sending
  <2>5. InTheBooks(requests, {}, stats)
    BY <1>1, <1>3, <2>4
  <2>6. InTheBooks(requests', {Max(Own')}, stats) /\ OwnAreValid' /\ requests'[Max(Own')].kind = b.kind
    BY <1>1, <2>2, <2>3, <2>5, BooksPosted
  <2>7. Awaited' = {Max(Own')}
    BY <2>4 DEF Awaited
  <2> QED BY <2>2, <2>4, <2>6, <2>7 DEF BooksInv
<1>7. CASE EventsSent
  <2>1. step = "events" /\ step \in Sending /\ CountEvents
    BY <1>7 DEF EventsSent, Sending
  <2>2. Awaited = {Max(Own)} /\ Own # {}
    BY <2>1 DEF Awaited, RunnerInv
  <2>3. Answer.kind = "events"
    BY <1>1, <2>1 DEF Answer
  <2>4. InTheBooks(requests, {}, stats')
    BY <1>1, <2>1, <2>2, <2>3, EventsEntered
  <2>5. CASE Pace /\ UNCHANGED requests
    <3>1. step' \notin Sending
      BY <2>5 DEF Pace, Sending
    <3>2. Awaited' = {}
      BY <3>1 DEF Awaited
    <3> QED BY <1>2, <2>4, <2>5, <3>1, <3>2 DEF BooksInv
  <2>6. CASE Posts(SpanBatch(batch, spans)) /\ step' = "spans"
    <3> DEFINE b == SpanBatch(batch, spans)
    <3>1. Posted(simulator, b)
      BY <2>6, SpansPost
    <3>2. b.kind = "spans" /\ \A i \in DOMAIN b.entries : b.entries[i].valid
      BY GeneratedAreValid DEF SpanBatch, RunnerInv
    <3> HIDE DEF b
    <3>3. InTheBooks(requests', {Max(Own')}, stats') /\ OwnAreValid' /\ requests'[Max(Own')].kind = b.kind
      BY <1>1, <2>4, <3>1, <3>2, BooksPosted
    <3>4. Awaited' = {Max(Own')}
      BY <2>6 DEF Awaited, Sending
    <3> QED BY <2>6, <3>2, <3>3, <3>4 DEF BooksInv
  <2> QED BY <1>7, <2>5, <2>6 DEF EventsSent
<1>8. CASE SpansSent
  <2>1. step = "spans" /\ step \in Sending /\ CountSpans /\ Pace /\ UNCHANGED requests
    BY <1>8 DEF SpansSent, Sending
  <2>2. Awaited = {Max(Own)} /\ Own # {}
    BY <2>1 DEF Awaited, RunnerInv
  <2>3. Answer.kind = "spans"
    BY <1>1, <2>1 DEF Answer
  <2>4. InTheBooks(requests, {}, stats')
    BY <1>1, <2>1, <2>2, <2>3, SpansEntered
  <2>5. step' \notin Sending
    BY <2>1 DEF Pace, Sending
  <2>6. Awaited' = {}
    BY <2>5 DEF Awaited
  <2> QED BY <1>2, <2>1, <2>4, <2>5, <2>6 DEF BooksInv
<1>9. CASE Around
  <2>1. UNCHANGED <<step, stats>> /\ Next
    BY <1>9 DEF Around, runnerVars
  <2>2. \/ AllFollow
        \/ \E c \in Clients \ {simulator} : \E b \in traffic[c] : Posted(c, b) /\ MaySend(c, b)
    BY <2>1, AroundOfTwo
  <2>3. /\ InTheBooks(requests', Awaited, stats)
        /\ Own' = Own
        /\ OwnAreValid'
        /\ \A r \in Own : requests'[r].kind = requests[r].kind
    BY <1>1, <2>2, BooksFollow, BooksPostedByOthers
  <2>4. Awaited' = Awaited
    BY <2>1, <2>3 DEF Awaited
  <2>5. step \in Sending => Max(Own) \in Own
    BY AnswerIsOwn DEF RunnerInv
  <2> QED BY <1>1, <2>1, <2>3, <2>4, <2>5 DEF BooksInv
<1> QED BY <1>4, <1>5, <1>6, <1>7, <1>8, <1>9 DEF SimNext, Run

LEMMA BooksInit ==
  ASSUME SimInit
  PROVE  BooksInv
<1>1. requests = <<>> /\ step \in {"start", "none"} /\ stats.accepted = 0 /\ stats.sent = 0
  BY DEF SimInit, Init
<1>2. Own = {} /\ OwnOf(requests) = {} /\ step \notin Sending
  BY <1>1 DEF Own, OfClient, OwnOf, Sending
<1>3. Awaited = {}
  BY <1>2 DEF Awaited
<1>4. Total(requests, CleanEvents(requests, {})) = 0
  <2>1. CleanEvents(requests, {}) = {}
    BY <1>2 DEF CleanEvents
  <2> DEFINE f == Sizes(requests, {})
  <2>2. f \in [{} -> Int]
    BY DEF Sizes
  <2> HIDE DEF f
  <2>3. PICK g : IsSum(f, {}, g) /\ SumFunction(f) = g[{}]
    BY <2>2, FS_EmptySet, SumExists
  <2>4. SumFunction(f) = 0
    BY <2>3 DEF IsSum
  <2> QED BY <2>1, <2>4 DEF Total, f
<1>5. InTheBooks(requests, {}, stats)
  BY <1>1, <1>2, <1>4 DEF InTheBooks
<1> QED BY <1>2, <1>3, <1>5 DEF BooksInv, OwnAreValid

LEMMA NotRejected ==
  ASSUME AcceptedIsOnTheLog, NEW r \in DOMAIN requests, requests[r].status = 202,
         NEW i \in DOMAIN requests[r].entries, i \notin requests[r].errors
  PROVE  EntryOnLog(requests[r], i)
BY DEF AcceptedIsOnTheLog, EntryOnLog

\* What arrived of a request is a part of it, and all of it if it was accepted.
LEMMA ArrivedPart ==
  ASSUME CollInv, OwnAreValid, NEW r \in OwnOf(requests)
  PROVE  /\ Arrived(r) \in Nat /\ Len(requests[r].entries) \in Nat
         /\ Arrived(r) <= Len(requests[r].entries)
         /\ requests[r].status = 202 =>
              /\ Arrived(r) = Len(requests[r].entries)
              /\ \A i \in DOMAIN requests[r].entries : EntryOnLog(requests[r], i)
<1> DEFINE q == requests[r]
           N == Len(q.entries)
           A == {i \in DOMAIN q.entries : EntryOnLog(q, i)}
<1>1. r \in DOMAIN requests /\ r \in Own /\ q \in RequestSet /\ Sound(q)
  BY DEF CollInv, OwnOf, Own, OfClient
<1>2. q.entries \in EntryLists
  BY <1>1, FieldsOf
<1>3. N \in Nat /\ DOMAIN q.entries = 1..N
  BY <1>2, Counts
<1>4. Arrived(r) = Cardinality(A)
  BY DEF Arrived
<1>5. q.status = 202 => \A i \in DOMAIN q.entries : EntryOnLog(q, i)
  <2> SUFFICES ASSUME q.status = 202, NEW i \in DOMAIN q.entries PROVE EntryOnLog(q, i)
    OBVIOUS
  <2>1. q.errors = Rejected(q.entries) /\ q.entries[i].valid
    BY <1>1 DEF Sound, OwnAreValid
  <2>2. i \notin q.errors
    BY <2>1 DEF Rejected
  <2>3. AcceptedIsOnTheLog
    BY AcceptedHolds
  <2> QED BY <1>1, <2>2, <2>3, NotRejected
<1>6. q.status = 202 => A = 1..N
  BY <1>3, <1>5
<1>7. A \subseteq 1..N
  BY <1>3
<1> HIDE DEF A, N, q
<1>8. IsFiniteSet(1..N) /\ Cardinality(1..N) = N
  <2>1. IsFiniteSet(1..N) /\ Cardinality(1..N) = IF 1 > N THEN 0 ELSE N - 1 + 1
    BY <1>3, FS_Interval
  <2> QED BY <1>3, <2>1
<1>9. Cardinality(A) \in Nat /\ Cardinality(A) <= N
  BY <1>7, <1>8, FS_Subset, FS_CardinalityType
<1> QED BY <1>3, <1>4, <1>5, <1>6, <1>8, <1>9 DEF q, N

LEMMA SummaryBrackets ==
  ASSUME CollInv, BooksInv
  PROVE  SummaryIsTrue
<1> DEFINE E == EventRequests
           S == OwnOf(requests)
           C == CleanEvents(requests, Awaited)
           U == Uncounted
<1>1. /\ OwnAreValid
      /\ step \in Sending => requests[Max(Own)].kind = step
      /\ stats.accepted = Total(requests, C)
      /\ stats.failed_requests = 0 =>
           (\A r \in S \ Awaited : Clean(requests[r])) /\ stats.accepted = stats.sent
  BY DEF BooksInv, InTheBooks
<1>2. E = {r \in S : requests[r].kind = "events"}
  BY DEF EventRequests, Own, OfClient, OwnOf
<1>3. \A r \in E : r \in Awaited <=> step = "events" /\ r = Max(Own)
  <2>1. step = "spans" => requests[Max(Own)].kind # "events"
    BY <1>1 DEF Sending
  <2>2. Awaited = IF step \in {"events", "spans"} THEN {Max(Own)} ELSE {}
    BY DEF Awaited, Sending
  <2> QED BY <1>2, <2>1, <2>2
<1>4. U = E \ C /\ C \subseteq E
  BY <1>2, <1>3 DEF Uncounted, CleanEvents, Clean
<1>5. IsFiniteSet(E) /\ IsFiniteSet(U) /\ E \subseteq S
  BY <1>2, <1>4, OwnFinite, FS_Subset
<1>6. \A r \in S : /\ Arrived(r) \in Nat /\ Len(requests[r].entries) \in Nat
                   /\ Arrived(r) <= Len(requests[r].entries)
                   /\ requests[r].status = 202 =>
                        /\ Arrived(r) = Len(requests[r].entries)
                        /\ \A i \in DOMAIN requests[r].entries : EntryOnLog(requests[r], i)
  BY <1>1, ArrivedPart
<1>7. \A r \in C : requests[r].status = 202
  BY DEF CleanEvents, Clean
<1> DEFINE f == [r \in E |-> Arrived(r)]
           g == Restrict(f, C)
           h == Restrict(f, E \ C)
           k == [r \in E \ C |-> Len(requests[r].entries)]
<1> HIDE DEF E, S, C, U
<1>8. StatsBracketTheLog
  <2>1. f \in [E -> Int]
    BY <1>5, <1>6
  <2>2. /\ SumFunction(g) \in Int /\ SumFunction(h) \in Int
        /\ SumFunction(f) = SumFunction(g) + SumFunction(h)
    <3>1. IsFiniteSet(E) /\ C \in SUBSET E
      BY <1>4, <1>5
    <3> HIDE DEF f
    <3> QED BY <2>1, <3>1, SumSplit
  <2>3. SumFunction(g) = stats.accepted
    <3>1. \A r \in C : f[r] = Len(requests[r].entries)
      BY <1>4, <1>5, <1>6, <1>7
    <3>2. g = Sizes(requests, C)
      <4> HIDE DEF f
      <4> QED BY <3>1 DEF Sizes, Restrict
    <3> QED BY <1>1, <3>2 DEF Total
  <2>4. 0 <= SumFunction(h) /\ SumFunction(h) <= SumFunction(k) /\ SumFunction(k) \in Int
    <3>1. h \in [E \ C -> Int] /\ k \in [E \ C -> Int]
      BY <1>5, <1>6 DEF Restrict
    <3>2. \A r \in E \ C : 0 <= h[r] /\ h[r] <= k[r]
      BY <1>5, <1>6 DEF Restrict
    <3>3. IsFiniteSet(E \ C)
      BY <1>4, <1>5
    <3> HIDE DEF h, k
    <3> QED BY <3>1, <3>2, <3>3, SumBounds
  <2>5. k = [r \in Uncounted |-> Len(requests[r].entries)]
    BY <1>4 DEF U
  <2>6. f = [r \in EventRequests |-> Arrived(r)]
    BY DEF E
  <2> HIDE DEF f, g, h, k
  <2> QED BY <2>2, <2>3, <2>4, <2>5, <2>6 DEF StatsBracketTheLog
<1>9. CleanRunIsComplete
  <2> SUFFICES ASSUME step = "done", stats.failed_requests = 0
               PROVE  /\ stats.accepted = stats.sent
                      /\ stats.sent = SumFunction([r \in EventRequests |-> Len(requests[r].entries)])
                      /\ \A r \in Own : \A i \in DOMAIN requests[r].entries :
                            EntryOnLog(requests[r], i)
    BY DEF CleanRunIsComplete
  <2>1. Awaited = {}
    BY DEF Awaited, Sending
  <2>2. \A r \in S : Clean(requests[r])
    BY <1>1, <2>1
  <2>3. C = E
    BY <1>2, <2>1, <2>2 DEF C, CleanEvents, S
  <2>4. stats.sent = SumFunction([r \in EventRequests |-> Len(requests[r].entries)])
    BY <1>1, <2>3 DEF Total, Sizes, E
  <2>5. Own = S
    BY DEF S, Own, OfClient, OwnOf
  <2> QED BY <1>1, <1>6, <2>2, <2>4, <2>5 DEF Clean
<1> QED BY <1>8, <1>9 DEF SummaryIsTrue

-----------------------------------------------------------------------------
(***************************************************************************)
(* The invariant of the run and what it implies.                           *)
(***************************************************************************)

\* What the induction carries through every step: the requests, the schedule,
\* the runner's counters, what clients know of their tries, and the books.
SimInv == CollInv /\ OnSchedule /\ RunnerInv /\ TriesInv /\ BooksInv

LEMMA SimInvAlways == SimSpec => []SimInv
<1>1. SimInit => SimInv
  BY SimInvInit, BooksInit DEF SimInv
<1>2. SimInv /\ [SimNext]_allVars => SimInv'
  BY CollNext, ScheduleNext, RunnerNext, TriesNext, BooksNext DEF SimInv
<1> QED BY <1>1, <1>2, PTL DEF SimSpec

\* The collector's requests, the runner's step, clock and counters stay in their
\* types, and a handler never hands over more records than its batch has.
\* (ingest_events, ingest_spans, publish_events, run())
THEOREM SimTypeCorrect == SimSpec => []SimTypeOK
<1>1. SimInv => SimTypeOK
  BY SimTyped DEF SimInv
<1> QED BY <1>1, SimInvAlways, PTL

\* A 202 accounts for every entry of its batch, and a second copy of a record is
\* the work of a failure its client was told of or of a client that stopped
\* waiting: for every set of clients and batches, any number of failures,
\* crashes, retries and requests in flight.
\* (ingest_events, publish_events, build_producer)
THEOREM AnswersTrue == SimSpec => []AnswersMatchTheLog
<1>1. SimInv => AnswersMatchTheLog
  BY AcceptedHolds, DuplicatesHold DEF SimInv, AnswersMatchTheLog
<1> QED BY <1>1, SimInvAlways, PTL

\* The summary of a run is true, whatever else the collector is sent, whichever
\* requests fail or are given up on, and however many were refused: its counters
\* bracket what is on the log, and a run without failed requests left every event
\* and span of its own there and counted each event as sent and as accepted.
\* (RunStats, send(), send_spans(), run())
THEOREM SummaryHolds == SimSpec => []SummaryIsTrue
<1>1. SimInv => SummaryIsTrue
  BY SummaryBrackets DEF SimInv
<1> QED BY <1>1, SimInvAlways, PTL
=============================================================================
