---------------------------- MODULE ListsProofs ----------------------------
(***************************************************************************)
(* Lemmas about Subsequence and SumOf, for the proofs about the models     *)
(* that filter messages, events and tasks.                                 *)
(***************************************************************************)
EXTENDS Lists, FiniteSetTheorems, SequenceTheorems, TLAPS

\* A non-empty set of naturals has a least element: induction for the first-order provers.
LEMMA LeastNat ==
  ASSUME NEW S \in SUBSET Nat, S # {}
  PROVE  \E x \in S : \A y \in S : x <= y
<1> DEFINE Below(n) == 0..(n - 1)
           B == {Below(n) : n \in S}
           R == StrictSubsetOrdering(Nat)
<1>1. B \subseteq FiniteSubsetsOf(Nat) /\ B # {}
  <2>1. ASSUME NEW n \in S PROVE Below(n) \in FiniteSubsetsOf(Nat)
    <3>1. IsFiniteSet(0..(n - 1))
      BY FS_Interval
    <3> QED
      BY <3>1 DEF FiniteSubsetsOf
  <2> QED
    BY <2>1
<1>2. IsWellFoundedOn(R, FiniteSubsetsOf(Nat))
  BY FS_StrictSubsetOrderingWellFounded
<1>3. PICK T \in B : \A U \in B : <<U, T>> \notin R
  BY <1>1, <1>2, WFMin
<1>4. PICK x \in S : T = Below(x)
  OBVIOUS
<1>5. ASSUME NEW y \in S, y < x PROVE FALSE
  <2>1. y \in Below(x) /\ y \notin Below(y) /\ Below(y) \subseteq Below(x)
    BY <1>5
  <2>2. Below(x) \in SUBSET Nat /\ Below(y) \in SUBSET Nat
    OBVIOUS
  <2>3. <<Below(y), Below(x)>> \in R
    <3> HIDE DEF Below
    <3> QED
      BY <2>1, <2>2 DEF StrictSubsetOrdering
  <2> QED
    BY <1>3, <1>4, <2>3
<1> QED
  BY <1>5

\* The positions kept in a sequence of length n.
LEMMA FinitePositions ==
  ASSUME NEW n \in Nat, NEW K \in SUBSET (1..n)
  PROVE  IsFiniteSet(K) /\ Cardinality(K) \in Nat /\ Cardinality(K) <= n
<1>1. IsFiniteSet(1..n) /\ Cardinality(1..n) = n
  BY FS_Interval
<1>2. IsFiniteSet(K) /\ Cardinality(K) <= n
  BY <1>1, FS_Subset
<1> QED
  BY <1>2, FS_CardinalityType

LEMMA RankRange ==
  ASSUME NEW n \in Nat, NEW K \in SUBSET (1..n), NEW i \in K
  PROVE  Rank(K, i) \in 1..Cardinality(K)
<1> DEFINE P == {j \in K : j <= i}
<1>1. P \in SUBSET K /\ i \in P
  OBVIOUS
<1>2. IsFiniteSet(P) /\ Cardinality(P) <= Cardinality(K) /\ Cardinality(K) \in Nat
  BY <1>1, FinitePositions, FS_Subset
<1>3. Cardinality(P) \in Nat /\ Cardinality(P) # 0
  BY <1>1, <1>2, FS_CardinalityType, FS_EmptySet
<1> QED
  BY <1>2, <1>3 DEF Rank

LEMMA RankIncreases ==
  ASSUME NEW n \in Nat, NEW K \in SUBSET (1..n), NEW i \in K, NEW j \in K, i < j
  PROVE  Rank(K, i) < Rank(K, j)
<1> DEFINE P == {x \in K : x <= i}
           Q == {x \in K : x <= j}
<1>1. P \in SUBSET Q /\ j \in Q /\ j \notin P
  <2>1. i \in Nat /\ j \in Nat /\ \A x \in K : x \in Nat
    OBVIOUS
  <2>2. ASSUME NEW x \in K, x <= i PROVE x <= j
    BY <2>1, <2>2
  <2>3. j \in Q /\ j \notin P
    BY <2>1
  <2> QED
    BY <2>2, <2>3
<1>2. IsFiniteSet(Q) /\ Q \in SUBSET (1..n)
  BY FinitePositions
<1>3. Cardinality(P) <= Cardinality(Q) /\ Cardinality(P) # Cardinality(Q) /\ IsFiniteSet(P)
  BY <1>1, <1>2, FS_Subset
<1>4. Cardinality(P) \in Nat /\ Cardinality(Q) \in Nat
  BY <1>2, <1>3, FS_CardinalityType
<1> QED
  BY <1>3, <1>4 DEF Rank

LEMMA OneRank ==
  ASSUME NEW n \in Nat, NEW K \in SUBSET (1..n), NEW i \in K, NEW j \in K,
         Rank(K, i) = Rank(K, j)
  PROVE  i = j
<1>1. i \in Nat /\ j \in Nat
  OBVIOUS
<1>2. Rank(K, i) \in 1..Cardinality(K) /\ Cardinality(K) \in Nat
  BY RankRange, FinitePositions
<1>3. ~(Rank(K, i) < Rank(K, j)) /\ ~(Rank(K, j) < Rank(K, i))
  BY <1>2
<1>4. ~(i < j) /\ ~(j < i)
  BY <1>3, RankIncreases
<1> QED
  BY <1>1, <1>4

LEMMA RankOnto ==
  ASSUME NEW n \in Nat, NEW K \in SUBSET (1..n), NEW k \in 1..Cardinality(K)
  PROVE  \E i \in K : Rank(K, i) = k
<1> DEFINE T == 1..Cardinality(K)
           f == [i \in K |-> Rank(K, i)]
<1>1. Cardinality(K) \in Nat /\ IsFiniteSet(K)
  BY FinitePositions
<1>2. IsFiniteSet(T) /\ Cardinality(T) = Cardinality(K)
  BY <1>1, FS_Interval
<1>3. f \in [K -> T]
  BY RankRange
<1>4. ASSUME NEW i \in K, NEW j \in K, Rank(K, i) = Rank(K, j) PROVE i = j
  BY <1>4, OneRank
<1>5. f \in Injection(K, T)
  BY <1>3, <1>4 DEF Injection, IsInjective
<1>6. f \in Surjection(K, T)
  BY <1>1, <1>2, <1>5, FS_Injection
<1> QED
  BY <1>6 DEF Surjection

\* Position enumerates K in increasing order.
LEMMA Positions ==
  ASSUME NEW n \in Nat, NEW K \in SUBSET (1..n)
  PROVE  /\ \A k \in 1..Cardinality(K) : Position(K, k) \in K /\ Rank(K, Position(K, k)) = k
         /\ \A i \in K : Position(K, Rank(K, i)) = i
         /\ \A k, l \in 1..Cardinality(K) : k < l => Position(K, k) < Position(K, l)
<1>1. ASSUME NEW k \in 1..Cardinality(K)
      PROVE  Position(K, k) \in K /\ Rank(K, Position(K, k)) = k
  BY RankOnto DEF Position
<1>2. ASSUME NEW i \in K PROVE Position(K, Rank(K, i)) = i
  <2>1. Rank(K, i) \in 1..Cardinality(K)
    BY RankRange
  <2>2. Position(K, Rank(K, i)) \in K /\ Rank(K, Position(K, Rank(K, i))) = Rank(K, i)
    BY <1>1, <2>1
  <2> QED
    BY <2>2, OneRank
<1>3. ASSUME NEW k \in 1..Cardinality(K), NEW l \in 1..Cardinality(K), k < l
      PROVE  Position(K, k) < Position(K, l)
  <2> DEFINE i == Position(K, k)
             j == Position(K, l)
  <2>1. i \in K /\ j \in K /\ Rank(K, i) = k /\ Rank(K, j) = l
    BY <1>1
  <2> HIDE DEF i, j
  <2>2. ~(j < i) /\ i # j
    BY <2>1, <1>3, RankIncreases, RankRange
  <2>3. i < j
    BY <2>1, <2>2
  <2> QED
    BY <2>3 DEF i, j
<1> QED
  BY <1>1, <1>2, <1>3

LEMMA SubsequenceOf ==
  ASSUME NEW S, NEW s \in Seq(S), NEW K \in SUBSET (1..Len(s))
  PROVE  /\ Subsequence(s, K) \in Seq(S)
         /\ Len(Subsequence(s, K)) = Cardinality(K) /\ Cardinality(K) \in Nat
         /\ \A k \in 1..Cardinality(K) : /\ Position(K, k) \in K
                                        /\ Subsequence(s, K)[k] = s[Position(K, k)]
         /\ \A i \in K : /\ Rank(K, i) \in 1..Cardinality(K)
                        /\ Subsequence(s, K)[Rank(K, i)] = s[i]
<1>1. Len(s) \in Nat /\ Cardinality(K) \in Nat
  BY FinitePositions, LenProperties
<1>2. \A k \in 1..Cardinality(K) : Position(K, k) \in K
  BY <1>1, Positions
<1>3. \A k \in 1..Cardinality(K) : Subsequence(s, K)[k] = s[Position(K, k)]
  BY DEF Subsequence
<1>4. \A i \in K : s[i] \in S
  BY ElementOfSeq
<1>5. Subsequence(s, K) \in [1..Cardinality(K) -> S]
  BY <1>2, <1>4 DEF Subsequence
<1>6. Subsequence(s, K) \in Seq(S) /\ Len(Subsequence(s, K)) = Cardinality(K)
  BY <1>1, <1>5, SeqDef, LenProperties
<1>7. \A i \in K : Rank(K, i) \in 1..Cardinality(K) /\ Position(K, Rank(K, i)) = i
  BY <1>1, Positions, RankRange
<1> QED
  BY <1>1, <1>2, <1>3, <1>6, <1>7

\* What a filter keeps of an appended element.
LEMMA SubsequenceOfAppend ==
  ASSUME NEW S, NEW s \in Seq(S), NEW e \in S, NEW K \in SUBSET (1..Len(s))
  PROVE  /\ Subsequence(Append(s, e), K) = Subsequence(s, K)
         /\ Subsequence(Append(s, e), K \cup {Len(s) + 1}) = Append(Subsequence(s, K), e)
<1> DEFINE n == Len(s)
           t == Append(s, e)
           c == Cardinality(K)
           L == K \cup {n + 1}
<1>1. n \in Nat /\ c \in Nat /\ IsFiniteSet(K)
  BY FinitePositions, LenProperties
<1>2. t \in Seq(S) /\ Len(t) = n + 1 /\ t[n + 1] = e /\ \A i \in 1..n : t[i] = s[i]
  OBVIOUS
<1>3. L \in SUBSET (1..(n + 1)) /\ n + 1 \in Nat /\ Cardinality(L) = c + 1
  <2>1. n + 1 \notin K /\ K \subseteq 1..(n + 1) /\ n + 1 \in 1..(n + 1)
    BY <1>1
  <2>2. Cardinality(L) = c + 1
    BY <1>1, <2>1, FS_AddElement
  <2>3. L \in SUBSET (1..(n + 1))
    <3> DEFINE M == 1..(n + 1)
    <3>1. K \subseteq M /\ n + 1 \in M
      BY <2>1
    <3> HIDE DEF M
    <3>2. L \in SUBSET M
      BY <3>1
    <3> QED
      BY <3>2 DEF M
  <2>4. n + 1 \in Nat
    BY <1>1
  <2> QED
    BY <2>2, <2>3, <2>4
<1>4. \A i \in K : Rank(L, i) = Rank(K, i)
  <2>1. ASSUME NEW i \in K PROVE {j \in L : j <= i} = {j \in K : j <= i}
    BY <1>1
  <2> QED
    BY <2>1 DEF Rank
<1>5. Rank(L, n + 1) = c + 1
  <2>1. \A j \in L : j <= n + 1
    BY <1>1, <1>3
  <2>2. {j \in L : j <= n + 1} = L
    BY <2>1
  <2> QED
    BY <1>3, <2>2 DEF Rank
<1>6. Subsequence(s, K) \in Seq(S) /\ Len(Subsequence(s, K)) = c
  BY SubsequenceOf
<1>7. \A k \in 1..c : Position(K, k) \in K /\ Rank(K, Position(K, k)) = k
  BY <1>1, Positions
<1>8. \A k \in 1..c : Position(L, k) = Position(K, k)
  <2>1. \A i \in L : Position(L, Rank(L, i)) = i
    <3> HIDE DEF L, n
    <3> QED
      BY <1>3, Positions
  <2> QED
    BY <1>4, <1>7, <2>1
<1>9. Position(L, c + 1) = n + 1
  <2>1. n + 1 \in L
    OBVIOUS
  <2> HIDE DEF L, n
  <2> QED
    BY <1>3, <1>5, <2>1, Positions
<1>10. Subsequence(t, K) = Subsequence(s, K)
  <2>1. \A k \in 1..c : t[Position(K, k)] = s[Position(K, k)]
    BY <1>2, <1>7
  <2> QED
    BY <2>1 DEF Subsequence
<1>11. Subsequence(t, L) = Append(Subsequence(s, K), e)
  <2> DEFINE u == Subsequence(s, K)
  <2>1. Subsequence(t, L) = [k \in 1..(c + 1) |-> t[Position(L, k)]]
    BY <1>3 DEF Subsequence
  <2>2. \A k \in 1..c : t[Position(L, k)] = u[k]
    BY <1>2, <1>7, <1>8 DEF Subsequence
  <2>3. t[Position(L, c + 1)] = e
    BY <1>2, <1>9
  <2>4. /\ Append(u, e) \in Seq(S) /\ Len(Append(u, e)) = c + 1
        /\ Append(u, e)[c + 1] = e /\ \A k \in 1..c : Append(u, e)[k] = u[k]
    BY <1>6, AppendProperties
  <2>5. Subsequence(t, L) \in Seq(S) /\ Len(Subsequence(t, L)) = c + 1
    BY <1>2, <1>3, SubsequenceOf
  <2>6. ASSUME NEW k \in 1..(c + 1) PROVE Subsequence(t, L)[k] = Append(u, e)[k]
    <3>1. k \in 1..c \/ k = c + 1
      BY <1>1
    <3> HIDE DEF u, t, L, c
    <3> QED
      BY <2>1, <2>2, <2>3, <2>4, <3>1
  <2> DEFINE v == Subsequence(t, L)
             w == Append(u, e)
  <2>7. v \in Seq(S) /\ w \in Seq(S) /\ Len(v) = Len(w) /\ \A k \in 1..Len(v) : v[k] = w[k]
    BY <2>4, <2>5, <2>6
  <2> HIDE DEF v, w
  <2>8. v = w
    BY <2>7, SeqEqual
  <2> QED
    BY <2>8 DEF v, w
<1> QED
  BY <1>10, <1>11

(***************************************************************************)
(* Sums is the function its recursive definition asks for: there is one on *)
(* 1..n for every n, by the least n without one.                           *)
(***************************************************************************)
SumsTo(u, n, f) == f = [k \in 1..n |-> IF k = 1 THEN u[1] ELSE f[k - 1] + u[k]]

LEMMA SumsExist ==
  ASSUME NEW u \in Seq(Nat), NEW n \in 0..Len(u)
  PROVE  \E f \in [1..n -> Nat] : SumsTo(u, n, f)
<1> DEFINE N == Len(u)
           Bad == {m \in 0..N : ~\E f \in [1..m -> Nat] : SumsTo(u, m, f)}
<1>1. N \in Nat
  BY LenProperties
<1>2. ASSUME NEW m \in Bad, \A k \in Bad : m <= k PROVE FALSE
  <2>1. m \in Nat /\ m <= N
    BY <1>1
  <2>2. CASE m = 0
    <3> DEFINE f == [k \in 1..0 |-> 0]
    <3>1. f \in [1..m -> Nat] /\ SumsTo(u, m, f)
      BY <2>2 DEF SumsTo
    <3> QED
      BY <3>1
  <2>3. CASE m # 0
    <3>1. m - 1 \in 0..N /\ m \in 1..N /\ ~(m <= m - 1)
      BY <1>1, <2>1, <2>3
    <3>a. m - 1 \notin Bad
      <4> HIDE DEF Bad
      <4> QED
        BY <1>2, <3>1
    <3>2. PICK f \in [1..(m - 1) -> Nat] : SumsTo(u, m - 1, f)
      BY <3>1, <3>a
    <3> DEFINE x == IF m = 1 THEN u[1] ELSE f[m - 1] + u[m]
               g == [k \in 1..m |-> IF k = m THEN x ELSE f[k]]
    <3>3. x \in Nat
      <4>1. u[m] \in Nat
        BY <3>1, ElementOfSeq
      <4>2. m # 1 => f[m - 1] \in Nat
        BY <2>1, <2>3, <3>2
      <4> QED
        BY <4>1, <4>2
    <3>4. g \in [1..m -> Nat]
      BY <2>1, <3>2, <3>3
    <3>5. SumsTo(u, m, g)
      <4>1. ASSUME NEW k \in 1..m
            PROVE  g[k] = IF k = 1 THEN u[1] ELSE g[k - 1] + u[k]
        <5>1. CASE k = m
          BY <2>1, <2>3, <5>1
        <5>2. CASE k # m
          <6>1. k \in 1..(m - 1)
            BY <2>1, <5>2
          <6>2. f[k] = IF k = 1 THEN u[1] ELSE f[k - 1] + u[k]
            BY <3>2, <6>1 DEF SumsTo
          <6>3. g[k] = f[k]
            BY <5>2
          <6>4. k # 1 => g[k - 1] = f[k - 1]
            BY <2>1, <6>1
          <6> QED
            BY <6>2, <6>3, <6>4
        <5> QED
          BY <5>1, <5>2
      <4> QED
        BY <4>1 DEF SumsTo
    <3> QED
      BY <3>4, <3>5
  <2> QED
    BY <2>2, <2>3
<1>3. Bad \subseteq Nat
  BY <1>1
<1>4. Bad = {}
  <2> HIDE DEF Bad
  <2> QED
    BY <1>2, <1>3, LeastNat
<1> QED
  BY <1>4

LEMMA SumsOf ==
  ASSUME NEW u \in Seq(Nat)
  PROVE  SumsTo(u, Len(u), Sums(u))
<1>1. PICK f \in [1..Len(u) -> Nat] : SumsTo(u, Len(u), f)
  BY SumsExist, LenProperties
<1> QED
  BY <1>1 DEF Sums, SumsTo

\* There is only one such function on 1..n, and on 1..m it is the one of any m <= n.
LEMMA SumsAgree ==
  ASSUME NEW u \in Seq(Nat), NEW v \in Seq(Nat), NEW m \in Nat, NEW n \in Nat, NEW f, NEW g,
         m <= n, \A k \in 1..m : u[k] = v[k],
         SumsTo(u, m, f), SumsTo(v, n, g)
  PROVE  \A k \in 1..m : f[k] = g[k]
<1> DEFINE Bad == {k \in 1..m : f[k] # g[k]}
<1>1. ASSUME NEW k \in Bad, \A l \in Bad : k <= l PROVE FALSE
  <2>1. k \in 1..m /\ k \in 1..n /\ k \in Nat /\ u[k] = v[k]
    OBVIOUS
  <2>2. /\ f[k] = IF k = 1 THEN u[1] ELSE f[k - 1] + u[k]
        /\ g[k] = IF k = 1 THEN v[1] ELSE g[k - 1] + v[k]
    BY <2>1 DEF SumsTo
  <2>3. CASE k = 1
    BY <2>1, <2>2, <2>3
  <2>4. CASE k # 1
    <3>1. k - 1 \in 1..m /\ ~(k <= k - 1)
      BY <2>1, <2>4
    <3>2. k - 1 \notin Bad
      <4> HIDE DEF Bad
      <4> QED
        BY <1>1, <3>1
    <3> QED
      BY <2>1, <2>2, <2>4, <3>1, <3>2
  <2> QED
    BY <2>3, <2>4
<1>2. Bad \subseteq Nat
  OBVIOUS
<1>3. Bad = {}
  <2> HIDE DEF Bad
  <2> QED
    BY <1>1, <1>2, LeastNat
<1> QED
  BY <1>3

LEMMA SumOfNat ==
  ASSUME NEW u \in Seq(Nat)
  PROVE  SumOf(u) \in Nat
<1>1. CASE u = <<>>
  BY <1>1 DEF SumOf
<1>2. CASE u # <<>>
  <2>1. Len(u) \in Nat /\ Len(u) \in 1..Len(u)
    BY <1>2, LenProperties, EmptySeq
  <2>2. PICK f \in [1..Len(u) -> Nat] : SumsTo(u, Len(u), f)
    BY <2>1, SumsExist
  <2>3. Sums(u)[Len(u)] = f[Len(u)]
    BY <2>1, <2>2, SumsOf, SumsAgree
  <2> QED
    BY <1>2, <2>1, <2>2, <2>3 DEF SumOf
<1> QED
  BY <1>1, <1>2

LEMMA SumOfAppend ==
  ASSUME NEW u \in Seq(Nat), NEW x \in Nat
  PROVE  SumOf(Append(u, x)) = SumOf(u) + x
<1> DEFINE v == Append(u, x)
           n == Len(u)
<1>1. /\ n \in Nat /\ v \in Seq(Nat) /\ Len(v) = n + 1 /\ v # <<>>
      /\ v[n + 1] = x /\ \A k \in 1..n : v[k] = u[k]
  OBVIOUS
<1>2. SumsTo(u, n, Sums(u)) /\ SumsTo(v, n + 1, Sums(v))
  BY <1>1, SumsOf
<1>3. n <= n + 1 /\ n + 1 \in Nat
  BY <1>1
<1>4. \A k \in 1..n : Sums(u)[k] = Sums(v)[k]
  <2>1. v \in Seq(Nat) /\ \A k \in 1..n : u[k] = v[k]
    BY <1>1
  <2> DEFINE m == n + 1
             f == Sums(u)
             g == Sums(v)
  <2>2. n \in Nat /\ m \in Nat /\ n <= m /\ SumsTo(u, n, f) /\ SumsTo(v, m, g)
    BY <1>1, <1>2, <1>3
  <2>3. \A k \in 1..n : f[k] = g[k]
    <3> HIDE DEF v, n, m, f, g
    <3> QED
      BY SMTT(40), <2>1, <2>2, SumsAgree
  <2> QED
    BY <2>3
<1>5. SumOf(v) = Sums(v)[n + 1]
  BY <1>1 DEF SumOf
<1>6. Sums(v)[n + 1] = IF n + 1 = 1 THEN v[1] ELSE Sums(v)[n] + v[n + 1]
  <2>1. n + 1 \in 1..(n + 1) /\ (n + 1) - 1 = n
    BY <1>1
  <2> HIDE DEF v, n
  <2> QED
    BY <1>2, <2>1 DEF SumsTo
<1>7. CASE u = <<>>
  BY <1>1, <1>5, <1>6, <1>7 DEF SumOf
<1>8. CASE u # <<>>
  <2>1. n \in 1..n /\ n # 0
    BY <1>1, <1>8, EmptySeq
  <2> QED
    BY <1>1, <1>4, <1>5, <1>6, <1>8, <2>1 DEF SumOf
<1> QED
  BY <1>7, <1>8
=============================================================================
