-------------------------- MODULE TaskDaemonProofs --------------------------
(***************************************************************************)
(* Proofs about TaskDaemon for any number of tasks and of ticks that may   *)
(* overlap, any interval and any bound: types, no two runs of one task at  *)
(* a time, no window run twice, and none passed over, as far as a tick has *)
(* the store to itself.                                                    *)
(***************************************************************************)
EXTENDS TaskDaemon, ListsProofs

-----------------------------------------------------------------------------
(* The windows of a task *)

LEMMA Bounds ==
  /\ Every \in Nat /\ Every > 0 /\ MaxConcurrent \in Nat /\ JournalRetention \in Nat
  /\ JournalRetention > 0 /\ MaxWindowsPerTick \in Nat /\ MaxTime \in Nat /\ MaxTime > 0
  /\ MaxStops \in Nat /\ MaxFaults \in Nat /\ MaxEdits \in Nat
  BY TaskDaemonAssumption

LEMMA Quotient ==
  ASSUME NEW d \in Int, NEW e \in Nat, e > 0, NEW i \in Int, i <= d \div e
  PROVE  i * e <= d
<1>1. e * (d \div e) <= d /\ d \div e \in Int
  BY Z3
<1>2. i * e <= (d \div e) * e
  BY <1>1
<1> QED
  BY <1>1, <1>2

LEMMA Multiple ==
  ASSUME NEW d \in Int, NEW e \in Nat, e > 0, d % e = 0
  PROVE  d = (d \div e) * e /\ d \div e \in Int
  BY Z3

LEMMA OrderOfMultiples ==
  ASSUME NEW e \in Nat, e > 0, NEW i \in Int, NEW j \in Int
  PROVE  i * e < j * e <=> i < j
<1>1. i <= j => i * e <= j * e
  OBVIOUS
<1>2. i < j => i * e + e <= j * e
  <2>1. i + 1 <= j => (i + 1) * e <= j * e
    OBVIOUS
  <2>2. (i + 1) * e = i * e + e
    OBVIOUS
  <2> QED
    BY <2>1, <2>2
<1>3. j <= i => j * e <= i * e
  OBVIOUS
<1> QED
  BY <1>2, <1>3

\* What a task record is.
TaskRecord == [id : TaskIds, enabled : BOOLEAN, createdAt : 1..MaxTime]

Ascending(w) == \A i, j \in DOMAIN w : i < j => w[i] < w[j]

\* A filter of an ascending list.
LEMMA Filtered ==
  ASSUME NEW S, S \subseteq Nat, NEW w \in Seq(S), Ascending(w), NEW K \in SUBSET DOMAIN w
  PROVE  /\ Subsequence(w, K) \in Seq(S) /\ Ascending(Subsequence(w, K))
         /\ ToSet(Subsequence(w, K)) = {w[i] : i \in K}
<1> DEFINE f == Subsequence(w, K)
<1>1. Len(w) \in Nat /\ DOMAIN w = 1..Len(w) /\ K \in SUBSET (1..Len(w))
  BY LenProperties
<1>2. /\ f \in Seq(S) /\ Len(f) = Cardinality(K) /\ Cardinality(K) \in Nat
      /\ \A k \in 1..Cardinality(K) : Position(K, k) \in K /\ f[k] = w[Position(K, k)]
      /\ \A i \in K : Rank(K, i) \in 1..Cardinality(K) /\ f[Rank(K, i)] = w[i]
  BY <1>1, SubsequenceOf
<1>3. DOMAIN f = 1..Cardinality(K)
  BY <1>2, LenProperties
<1>4. \A k, l \in 1..Cardinality(K) : k < l => Position(K, k) < Position(K, l)
  BY <1>1, Positions
<1> HIDE DEF f
<1>5. Ascending(f)
  BY <1>1, <1>2, <1>3, <1>4 DEF Ascending
<1>6. ToSet(f) = {w[i] : i \in K}
  BY <1>2, <1>3 DEF ToSet
<1> QED
  BY <1>2, <1>5, <1>6 DEF f

LEMMA WindowsOf ==
  ASSUME cursors \in [TaskIds -> 0..MaxTime], NEW t \in TaskRecord, NEW at \in 0..MaxTime
  PROVE  /\ Anchor(t) \in 1..MaxTime
         /\ Windows(t, at) \in Seq(1..MaxTime) /\ Ascending(Windows(t, at))
         /\ \A w \in ToSet(Windows(t, at)) : w \in 1..at /\ w > Anchor(t)
         /\ \A w \in ToSet(Windows(t, at)), x \in Nat :
                x < w /\ x > Anchor(t) /\ (x - Anchor(t)) % Every = 0 => x \in ToSet(Windows(t, at))
         /\ \A v, w \in ToSet(Windows(t, at)), x \in Nat :
                x < w /\ x > v /\ (x - v) % Every = 0 => x \in ToSet(Windows(t, at))
<1> DEFINE A == Anchor(t)
           n == (at - A) \div Every
           m == IF n < MaxWindowsPerTick THEN n ELSE MaxWindowsPerTick
           W == Windows(t, at)
<1>0. Every \in Nat /\ Every > 0 /\ MaxWindowsPerTick \in Nat /\ MaxTime \in Nat
  BY Bounds
<1>1. A \in 1..MaxTime
  BY <1>0 DEF Anchor, TaskRecord
<1>2. n \in Int /\ m \in Int /\ m <= n
  <2>1. at - A \in Int
    BY <1>0, <1>1
  <2>2. n \in Int
    BY <1>0, <2>1, Z3
  <2> QED
    BY <1>0, <2>2
<1>3. W = [i \in 1..m |-> A + i * Every]
  BY DEF Windows
<1> HIDE DEF A, W
<1>4. \A i \in 1..m : i * Every <= at - A
  <2> SUFFICES ASSUME NEW i \in 1..m PROVE i * Every <= at - A
    OBVIOUS
  <2>1. at - A \in Int /\ i \in Int /\ i <= n
    BY <1>0, <1>1, <1>2
  <2> QED
    BY <1>0, <2>1, Quotient
<1> HIDE DEF m, n
<1>5. \A i \in Nat : i * Every \in Nat
  BY <1>0
<1>6. \A i, j \in Nat : i < j => i * Every < j * Every
  BY <1>0
<1>7. \A i \in 1..m : W[i] = A + i * Every /\ W[i] \in 1..at /\ W[i] > A
  <2> SUFFICES ASSUME NEW i \in 1..m PROVE W[i] = A + i * Every /\ W[i] \in 1..at /\ W[i] > A
    OBVIOUS
  <2>1. i \in Nat /\ 0 < i /\ i * Every \in Nat /\ 0 * Every < i * Every
    BY <1>2, <1>5, <1>6
  <2>2. W[i] = A + i * Every /\ i * Every <= at - A
    BY <1>3, <1>4
  <2>3. 0 * Every = 0
    BY <1>0
  <2> QED
    BY <1>0, <1>1, <2>1, <2>2, <2>3
<1>8. DOMAIN W = 1..m
  BY <1>3
<1>9. W \in Seq(1..MaxTime)
  <2>1. CASE m \in Nat
    <3>1. W \in [1..m -> 1..MaxTime]
      BY <1>0, <1>3, <1>7
    <3> QED
      BY <2>1, <3>1, SeqDef
  <2>2. CASE m \notin Nat
    <3>1. 1..m = 1..0
      BY <1>2, <2>2
    <3>2. W \in [1..0 -> 1..MaxTime]
      BY <1>3, <3>1
    <3> QED
      BY <3>2, SeqDef
  <2> QED
    BY <2>1, <2>2
<1>10. Ascending(W)
  <2> SUFFICES ASSUME NEW i \in 1..m, NEW j \in 1..m, i < j PROVE W[i] < W[j]
    BY <1>8 DEF Ascending
  <2>1. i \in Nat /\ j \in Nat
    BY <1>2
  <2>2. i * Every < j * Every /\ i * Every \in Nat /\ j * Every \in Nat
    BY <1>5, <1>6, <2>1
  <2> QED
    BY <1>1, <1>7, <2>2
<1>11. \A w : w \in ToSet(W) <=> \E i \in 1..m : w = W[i]
  BY <1>8 DEF ToSet
<1>12. ASSUME NEW j \in 1..m, NEW i \in 0..m, NEW x \in Nat, x < A + j * Every, x > A + i * Every,
              (x - (A + i * Every)) % Every = 0
       PROVE  x \in ToSet(W)
  <2>1. i \in Nat /\ j \in Nat /\ A \in Int /\ x \in Int
    BY <1>1, <1>2
  <2> DEFINE v == A + i * Every
             q == (x - v) \div Every
  <2>2. i * Every \in Int /\ v \in Int /\ x - v \in Int
    BY <1>0, <2>1
  <2>3. x - v = q * Every /\ q \in Int
    <3>1. (x - v) % Every = 0
      BY <1>12
    <3> HIDE DEF v
    <3> QED
      BY <1>0, <2>2, <3>1, Multiple
  <2> HIDE DEF q
  <2>4. (i + q) * Every = i * Every + q * Every
    BY <1>0, <2>1, <2>3
  <2>5. x = A + (i + q) * Every
    BY <2>1, <2>2, <2>3, <2>4
  <2>6. (i + q) * Every < j * Every /\ i * Every < (i + q) * Every
    BY <1>0, <1>12, <2>1, <2>2, <2>3, <2>4, <2>5
  <2>7. i + q < j /\ i < i + q
    BY <1>0, <2>1, <2>3, <2>6, OrderOfMultiples
  <2>8. i + q \in 1..m
    BY <1>2, <2>1, <2>3, <2>7
  <2> QED
    BY <1>7, <1>11, <2>5, <2>8
<1>13. ASSUME NEW w \in ToSet(W), NEW x \in Nat, x < w, x > A, (x - A) % Every = 0
       PROVE  x \in ToSet(W)
  <2>1. PICK j \in 1..m : w = W[j]
    BY <1>11
  <2>2. A + 0 * Every = A /\ 0 \in 0..m
    BY <1>0, <1>1, <1>2, <2>1
  <2> QED
    BY <1>7, <1>12, <1>13, <2>1, <2>2
<1>14. ASSUME NEW v \in ToSet(W), NEW w \in ToSet(W), NEW x \in Nat, x < w, x > v,
              (x - v) % Every = 0
       PROVE  x \in ToSet(W)
  <2>1. PICK j \in 1..m : w = W[j]
    BY <1>11
  <2>2. PICK i \in 1..m : v = W[i]
    BY <1>11
  <2>3. i \in 0..m
    BY <1>2
  <2> QED
    BY <1>7, <1>12, <1>14, <2>1, <2>2, <2>3
<1> QED
  BY <1>1, <1>7, <1>9, <1>10, <1>11, <1>13, <1>14 DEF A, W

\* The missed and the due windows split the windows at the boot.
LEMMA Sides ==
  ASSUME cursors \in [TaskIds -> 0..MaxTime], bootAt \in 0..MaxTime,
         NEW t \in TaskRecord, NEW at \in 0..MaxTime
  PROVE  /\ MissedWindows(t, at) \in Seq(1..MaxTime) /\ Ascending(MissedWindows(t, at))
         /\ DueWindows(t, at) \in Seq(1..MaxTime) /\ Ascending(DueWindows(t, at))
         /\ ToSet(MissedWindows(t, at)) = {w \in ToSet(Windows(t, at)) : w < bootAt}
         /\ ToSet(DueWindows(t, at)) = {w \in ToSet(Windows(t, at)) : w >= bootAt}
<1> DEFINE W == Windows(t, at)
           L == {i \in DOMAIN W : W[i] < bootAt}
           R == {i \in DOMAIN W : W[i] >= bootAt}
<1>1. W \in Seq(1..MaxTime) /\ Ascending(W) /\ (1..MaxTime) \subseteq Nat
  BY WindowsOf, Bounds
<1>2. /\ Subsequence(W, L) \in Seq(1..MaxTime) /\ Ascending(Subsequence(W, L))
      /\ ToSet(Subsequence(W, L)) = {W[i] : i \in L}
  <2>1. L \in SUBSET DOMAIN W
    OBVIOUS
  <2> HIDE DEF W, L
  <2> QED
    BY <1>1, <2>1, Filtered
<1>3. /\ Subsequence(W, R) \in Seq(1..MaxTime) /\ Ascending(Subsequence(W, R))
      /\ ToSet(Subsequence(W, R)) = {W[i] : i \in R}
  <2>1. R \in SUBSET DOMAIN W
    OBVIOUS
  <2> HIDE DEF W, R
  <2> QED
    BY <1>1, <2>1, Filtered
<1>4. MissedWindows(t, at) = Subsequence(W, L) /\ DueWindows(t, at) = Subsequence(W, R)
  BY DEF MissedWindows, DueWindows
<1>5. {W[i] : i \in L} = {w \in ToSet(W) : w < bootAt}
  <2> HIDE DEF W
  <2> QED
    BY DEF ToSet
<1>6. {W[i] : i \in R} = {w \in ToSet(W) : w >= bootAt}
  <2> HIDE DEF W
  <2> QED
    BY DEF ToSet
<1> HIDE DEF L, R
<1> QED
  BY <1>2, <1>3, <1>4, <1>5, <1>6

LEMMA LastOf ==
  ASSUME NEW S, NEW w \in Seq(S), w # <<>>
  PROVE  Last(w) \in S /\ Last(w) \in ToSet(w) /\ Len(w) \in DOMAIN w /\ Len(w) >= 1
<1>1. Len(w) \in Nat /\ DOMAIN w = 1..Len(w) /\ Len(w) # 0
  OBVIOUS
<1>2. Len(w) \in DOMAIN w
  BY <1>1
<1>3. w[Len(w)] \in S
  BY <1>1, <1>2, ElementOfSeq
<1> QED
  BY <1>1, <1>2, <1>3 DEF Last, ToSet

LEMMA OneElement ==
  ASSUME NEW S, NEW x \in S
  PROVE  /\ <<x>> \in Seq(S) /\ Len(<<x>>) = 1 /\ <<x>>[1] = x /\ ToSet(<<x>>) = {x}
         /\ Ascending(<<x>>) /\ <<x>> # <<>>
<1>1. <<x>> \in Seq(S) /\ Len(<<x>>) = 1 /\ <<x>>[1] = x /\ DOMAIN <<x>> = {1} /\ <<x>> # <<>>
  OBVIOUS
<1> QED
  BY <1>1 DEF ToSet, Ascending

LEMMA NoElement ==
  ASSUME NEW S
  PROVE  <<>> \in Seq(S) /\ ToSet(<<>>) = {} /\ Ascending(<<>>)
<1>1. <<>> \in Seq(S) /\ DOMAIN <<>> = {}
  OBVIOUS
<1> QED
  BY <1>1 DEF ToSet, Ascending

Below(v, w) == \A x \in ToSet(v), y \in ToSet(w) : x < y

LEMMA Joined ==
  ASSUME NEW S, S \subseteq Nat, NEW v \in Seq(S), NEW w \in Seq(S), Ascending(v), Ascending(w),
         Below(v, w)
  PROVE  v \o w \in Seq(S) /\ Ascending(v \o w) /\ ToSet(v \o w) = ToSet(v) \cup ToSet(w)
<1> DEFINE m == Len(v)
           n == Len(w)
           c == v \o w
<1>1. m \in Nat /\ n \in Nat /\ DOMAIN v = 1..m /\ DOMAIN w = 1..n
  BY LenProperties
<1>2. /\ c \in Seq(S) /\ Len(c) = m + n
      /\ \A i \in 1..(m + n) : c[i] = IF i <= m THEN v[i] ELSE w[i - m]
  BY ConcatProperties
<1>3. DOMAIN c = 1..(m + n)
  BY <1>2, LenProperties
<1> HIDE DEF m, n, c
<1>4. \A i \in 1..m : i \in 1..(m + n) /\ c[i] = v[i]
  BY <1>1, <1>2
<1>5. \A i \in 1..n : i + m \in 1..(m + n) /\ c[i + m] = w[i]
  <2> SUFFICES ASSUME NEW i \in 1..n PROVE i + m \in 1..(m + n) /\ c[i + m] = w[i]
    OBVIOUS
  <2>1. i + m \in 1..(m + n) /\ ~(i + m <= m) /\ (i + m) - m = i
    BY <1>1
  <2> QED
    BY <1>2, <2>1
<1>6. \A i \in 1..(m + n) : i \in 1..m \/ (i - m \in 1..n /\ c[i] = w[i - m])
  BY <1>1, <1>2
<1>7. ToSet(c) = ToSet(v) \cup ToSet(w)
  <2>1. \A x \in ToSet(v) : x \in ToSet(c)
    BY <1>1, <1>3, <1>4 DEF ToSet
  <2>2. \A x \in ToSet(w) : x \in ToSet(c)
    BY <1>1, <1>3, <1>5 DEF ToSet
  <2>3. \A x \in ToSet(c) : x \in ToSet(v) \cup ToSet(w)
    BY <1>1, <1>3, <1>4, <1>6 DEF ToSet
  <2> QED
    BY <2>1, <2>2, <2>3
<1>8. Ascending(c)
  <2> SUFFICES ASSUME NEW i \in 1..(m + n), NEW j \in 1..(m + n), i < j PROVE c[i] < c[j]
    BY <1>3 DEF Ascending
  <2>1. CASE j \in 1..m
    <3>1. i \in 1..m
      BY <1>1, <2>1
    <3> QED
      BY <1>1, <1>4, <2>1, <3>1 DEF Ascending
  <2>2. CASE i \in 1..m /\ j \notin 1..m
    <3>1. c[i] \in ToSet(v)
      BY <1>1, <1>4, <2>2 DEF ToSet
    <3>2. c[j] \in ToSet(w)
      BY <1>1, <1>6, <2>2 DEF ToSet
    <3> QED
      BY <3>1, <3>2 DEF Below
  <2>3. CASE i \notin 1..m /\ j \notin 1..m
    <3>1. i - m \in 1..n /\ j - m \in 1..n /\ c[i] = w[i - m] /\ c[j] = w[j - m] /\ i - m < j - m
      BY <1>1, <1>6, <2>3
    <3> QED
      BY <1>1, <3>1 DEF Ascending
  <2> QED
    BY <2>1, <2>2, <2>3
<1> QED
  BY <1>2, <1>7, <1>8 DEF c

\* What a tick plans for one task.
PlanOf(t, at) == ToSet(MissedEntries(t, at)) \cup ToSet(SkippedEntries(t, at))
                     \cup ToSet(FireGroup(t, at))

LEMMA TaskPlan ==
  ASSUME cursors \in [TaskIds -> 0..MaxTime], bootAt \in 0..MaxTime,
         NEW t \in TaskRecord, NEW at \in 0..MaxTime
  PROVE  /\ MissedEntries(t, at) \in Seq(1..MaxTime) /\ Ascending(MissedEntries(t, at))
         /\ SkippedEntries(t, at) \in Seq(1..MaxTime) /\ Ascending(SkippedEntries(t, at))
         /\ FireGroup(t, at) \in Seq(1..MaxTime) /\ Ascending(FireGroup(t, at))
         /\ PlanOf(t, at) \subseteq ToSet(Windows(t, at))
         /\ FireGroup(t, at) # <<>> => inFlight[t.id] = 0 /\ SkippedEntries(t, at) = <<>>
         /\ \A x \in ToSet(MissedEntries(t, at)),
               y \in ToSet(SkippedEntries(t, at)) \cup ToSet(FireGroup(t, at)) : x < y
         /\ \A w \in PlanOf(t, at), x \in ToSet(Windows(t, at)) :
                x < w => x < bootAt \/ x \in PlanOf(t, at)
<1> DEFINE W == Windows(t, at)
           L == MissedWindows(t, at)
           R == DueWindows(t, at)
           m == MissedEntries(t, at)
           s == SkippedEntries(t, at)
           g == FireGroup(t, at)
<1>1. /\ L \in Seq(1..MaxTime) /\ Ascending(L) /\ R \in Seq(1..MaxTime) /\ Ascending(R)
      /\ ToSet(L) = {w \in ToSet(W) : w < bootAt} /\ ToSet(R) = {w \in ToSet(W) : w >= bootAt}
  BY Sides
<1>2. (1..MaxTime) \subseteq Nat /\ bootAt \in Nat
  BY Bounds
<1>3. ToSet(W) \subseteq Nat
  BY WindowsOf, Bounds
<1>4. L # <<>> => Last(L) \in 1..MaxTime /\ Last(L) \in ToSet(L)
  BY <1>1, LastOf
<1>5. L # <<>> => /\ <<Last(L)>> \in Seq(1..MaxTime) /\ ToSet(<<Last(L)>>) = {Last(L)}
                  /\ Ascending(<<Last(L)>>)
  BY <1>4, OneElement
<1>6. <<>> \in Seq(1..MaxTime) /\ ToSet(<<>>) = {} /\ Ascending(<<>>)
  BY NoElement
<1>7. m = <<>> \/ (m = <<Last(L)>> /\ L # <<>>)
  BY DEF MissedEntries
<1>8. s = <<>> \/ (s = R /\ Running(t))
  BY DEF SkippedEntries
<1> HIDE DEF W, L, R
<1>9. L # <<>> => /\ <<Last(L)>> \o R \in Seq(1..MaxTime) /\ Ascending(<<Last(L)>> \o R)
                  /\ ToSet(<<Last(L)>> \o R) = {Last(L)} \cup ToSet(R)
  <2> SUFFICES ASSUME L # <<>>
               PROVE  /\ <<Last(L)>> \o R \in Seq(1..MaxTime) /\ Ascending(<<Last(L)>> \o R)
                      /\ ToSet(<<Last(L)>> \o R) = {Last(L)} \cup ToSet(R)
    OBVIOUS
  <2> DEFINE u == <<Last(L)>>
  <2>1. u \in Seq(1..MaxTime) /\ Ascending(u) /\ ToSet(u) = {Last(L)}
    BY <1>5
  <2>2. Below(u, R)
    BY <1>1, <1>2, <1>3, <1>4, <2>1 DEF Below
  <2> HIDE DEF u
  <2>3. /\ u \o R \in Seq(1..MaxTime) /\ Ascending(u \o R) /\ ToSet(u \o R) = ToSet(u) \cup ToSet(R)
    <3> DEFINE S == 1..MaxTime
    <3>1. S \subseteq Nat /\ u \in Seq(S) /\ R \in Seq(S)
      BY <1>1, <1>2, <2>1
    <3>2. Ascending(u) /\ Ascending(R)
      BY <1>1, <2>1
    <3> HIDE DEF S
    <3>3. u \o R \in Seq(S) /\ Ascending(u \o R) /\ ToSet(u \o R) = ToSet(u) \cup ToSet(R)
      BY ZenonT(60), <2>2, <3>1, <3>2, Joined
    <3> QED
      BY <3>3 DEF S
  <2> QED
    BY <2>1, <2>3 DEF u
<1>10. <<>> \o R = R
  BY <1>1, ConcatEmptySeq
<1>11. \/ g = <<>>
       \/ g = R /\ ~Running(t)
       \/ g = <<Last(L)>> \o R /\ L # <<>> /\ WantsFire(t, at) /\ ~Running(t)
  BY <1>10 DEF FireGroup, WantsFire, L, R
<1>12. m = <<>> \/ ~WantsFire(t, at) \/ Running(t)
  BY DEF MissedEntries, WantsFire
<1>13. g # <<>> => inFlight[t.id] = 0 /\ s = <<>>
  BY DEF FireGroup, SkippedEntries, Running
<1> HIDE DEF m, s, g
<1>14. m \in Seq(1..MaxTime) /\ Ascending(m) /\ ToSet(m) \subseteq ToSet(L)
  BY <1>4, <1>5, <1>6, <1>7
<1>15. s \in Seq(1..MaxTime) /\ Ascending(s) /\ ToSet(s) \subseteq ToSet(R)
  BY <1>1, <1>6, <1>8
<1>16. g \in Seq(1..MaxTime) /\ Ascending(g) /\ ToSet(g) \subseteq ToSet(L) \cup ToSet(R)
  BY <1>1, <1>4, <1>6, <1>9, <1>11
<1>17. PlanOf(t, at) = ToSet(m) \cup ToSet(s) \cup ToSet(g)
  BY DEF PlanOf, m, s, g
<1>18. \A x \in ToSet(m), y \in ToSet(s) \cup ToSet(g) : x < y
  <2>1. \A x \in ToSet(L), y \in ToSet(R) : x < y
    BY <1>1, <1>2, <1>3
  <2>2. m # <<>> => ToSet(g) \subseteq ToSet(R)
    BY <1>6, <1>11, <1>12
  <2> QED
    BY <1>6, <1>14, <1>15, <2>1, <2>2
<1>19. ASSUME NEW w \in ToSet(m) \cup ToSet(s) \cup ToSet(g), NEW x \in ToSet(W), x < w
       PROVE  x < bootAt \/ x \in ToSet(s) \cup ToSet(g)
  <2>1. CASE w \in ToSet(L)
    BY <1>1, <1>2, <1>3, <1>19, <2>1
  <2>2. CASE w \notin ToSet(L)
    <3>1. w \in ToSet(s) \/ (w \in ToSet(g) /\ g # <<>>)
      BY <1>6, <1>14, <1>19, <2>2
    <3>2. ToSet(R) \subseteq ToSet(s) \cup ToSet(g)
      <4>1. CASE w \in ToSet(s)
        BY <1>6, <1>8, <4>1
      <4>2. CASE w \in ToSet(g)
        BY <1>6, <1>9, <1>11, <4>2
      <4> QED
        BY <3>1, <4>1, <4>2
    <3>3. x < bootAt \/ x \in ToSet(R)
      BY <1>1, <1>2, <1>3
    <3> QED
      BY <3>2, <3>3
  <2> QED
    BY <2>1, <2>2
<1>20. ToSet(L) \cup ToSet(R) \subseteq ToSet(W)
  BY <1>1
<1>21. PlanOf(t, at) \subseteq ToSet(W)
  BY <1>14, <1>15, <1>16, <1>17, <1>20
<1> QED
  BY <1>13, <1>14, <1>15, <1>16, <1>17, <1>18, <1>19, <1>21 DEF W, m, s, g

-----------------------------------------------------------------------------
(* The plan of a tick *)

Statuses == {"missed", "skipped", "running", "completed", "failed"}
WindowLists == Seq(1..MaxTime)
Batch == [task : TaskIds, status : Statuses, windows : WindowLists \ {<<>>}]

TasksOK ==
    /\ tasks \in Seq(TaskRecord)
    /\ \A i, j \in DOMAIN tasks : tasks[i].id = tasks[j].id => i = j

\* B has one batch for each enabled task that has windows in W.
BatchesFrom(B, W) ==
    /\ B \in Seq(Batch)
    /\ \A i \in DOMAIN B : \E j \in DOMAIN tasks :
           B[i].task = tasks[j].id /\ B[i].windows = W[j] /\ tasks[j].enabled
    /\ \A i, h \in DOMAIN B : B[i].task = B[h].task => i = h
    /\ \A j \in DOMAIN tasks : tasks[j].enabled /\ W[j] # <<>> =>
           \E i \in DOMAIN B : B[i].task = tasks[j].id /\ B[i].windows = W[j]

LEMMA BatchesOf ==
  ASSUME TasksOK, NEW status \in Statuses, NEW W \in [DOMAIN tasks -> WindowLists]
  PROVE  BatchesFrom(Batches(status, W), W)
<1> DEFINE s == [i \in DOMAIN tasks |->
                    [task |-> tasks[i].id, status |-> status, windows |-> W[i]]]
           K == {i \in DOMAIN tasks : tasks[i].enabled /\ W[i] # <<>>}
           S == [task : TaskIds, status : Statuses, windows : WindowLists]
           B == Batches(status, W)
<1>1. Len(tasks) \in Nat /\ DOMAIN tasks = 1..Len(tasks)
  BY LenProperties DEF TasksOK
<1>2. \A i \in DOMAIN tasks : tasks[i] \in TaskRecord
  BY <1>1, ElementOfSeq DEF TasksOK
<1>3. s \in [1..Len(tasks) -> S]
  BY <1>1, <1>2 DEF TaskRecord
<1>4. s \in Seq(S) /\ Len(s) = Len(tasks)
  BY <1>1, <1>3, SeqDef, LenProperties
<1>5. K \in SUBSET (1..Len(s))
  BY <1>1, <1>4
<1>6. B = Subsequence(s, K)
  BY DEF Batches
<1>7. \A i \in DOMAIN tasks : s[i].task = tasks[i].id /\ s[i].status = status /\ s[i].windows = W[i]
  OBVIOUS
<1>8. \A i \in K : s[i] \in Batch /\ i \in DOMAIN tasks /\ tasks[i].enabled
  BY <1>1, <1>2 DEF TaskRecord, Batch
<1>9. \A j \in DOMAIN tasks : tasks[j].enabled /\ W[j] # <<>> => j \in K
  OBVIOUS
<1> HIDE DEF s, K, S, B
<1>10. /\ B \in Seq(S) /\ Len(B) = Cardinality(K) /\ Cardinality(K) \in Nat
       /\ \A k \in 1..Cardinality(K) : Position(K, k) \in K /\ B[k] = s[Position(K, k)]
       /\ \A i \in K : Rank(K, i) \in 1..Cardinality(K) /\ B[Rank(K, i)] = s[i]
  BY <1>4, <1>5, <1>6, SubsequenceOf
<1>11. DOMAIN B = 1..Cardinality(K)
  BY <1>10, LenProperties
<1>12. \A k, l \in 1..Cardinality(K) : k < l => Position(K, k) < Position(K, l)
  BY <1>1, <1>4, <1>5, Positions
<1>13. B \in Seq(Batch)
  <2>1. B \in [1..Cardinality(K) -> S]
    BY <1>10, <1>11, LenProperties
  <2>2. \A k \in 1..Cardinality(K) : B[k] \in Batch
    BY <1>8, <1>10
  <2>3. B \in [1..Cardinality(K) -> Batch]
    BY <2>1, <2>2
  <2> QED
    BY <1>10, <2>3, SeqDef
<1>14. \A i \in DOMAIN B : \E j \in DOMAIN tasks :
           B[i].task = tasks[j].id /\ B[i].windows = W[j] /\ tasks[j].enabled
  BY <1>7, <1>8, <1>10, <1>11
<1>15. ASSUME NEW i \in DOMAIN B, NEW h \in DOMAIN B, B[i].task = B[h].task PROVE i = h
  <2>1. Position(K, i) = Position(K, h)
    BY <1>7, <1>8, <1>10, <1>11, <1>15 DEF TasksOK
  <2>2. Position(K, i) \in Nat /\ i \in Nat /\ h \in Nat
    BY SMTT(40), <1>1, <1>8, <1>10, <1>11
  <2> QED
    BY <1>11, <1>12, <2>1, <2>2
<1>16. ASSUME NEW j \in DOMAIN tasks, tasks[j].enabled, W[j] # <<>>
       PROVE  \E i \in DOMAIN B : B[i].task = tasks[j].id /\ B[i].windows = W[j]
  <2>1. j \in K
    BY <1>9, <1>16
  <2> QED
    BY <1>7, <1>10, <1>11, <2>1
<1> QED
  BY <1>13, <1>14, <1>15, <1>16 DEF B, BatchesFrom

\* The tick has still to book window w of task t.
Owes(q, t, w) ==
    \/ \E i \in DOMAIN q.book : q.book[i].task = t /\ w \in ToSet(q.book[i].windows)
    \/ \E g \in DOMAIN q.groups :
           /\ q.groups[g].task = t
           /\ IF q.pc \in {"launch", "spawn"} /\ g = 1
              THEN q.pc = "launch" /\ w = Last(q.groups[g].windows)
              ELSE w \in ToSet(q.groups[g].windows)

\* What a tick owes is in order: the windows of a task come oldest first.
Ordered(q) ==
    /\ \A i \in DOMAIN q.book : Ascending(q.book[i].windows)
    /\ \A g \in DOMAIN q.groups : Ascending(q.groups[g].windows)
    /\ \A g, h \in DOMAIN q.groups : q.groups[g].task = q.groups[h].task => g = h
    /\ \A i, j \in DOMAIN q.book :
           i < j /\ q.book[i].task = q.book[j].task => Below(q.book[i].windows, q.book[j].windows)
    /\ \A i \in DOMAIN q.book, g \in DOMAIN q.groups :
           q.book[i].task = q.groups[g].task =>
               IF q.pc = "launch"
               THEN g = 1 /\ \A x \in ToSet(q.book[i].windows) : x < Last(q.groups[g].windows)
               ELSE Below(q.book[i].windows, q.groups[g].windows)
    /\ q.pc \in {"launch", "spawn"} => q.groups # <<>>
    /\ q.pc \notin {"book", "launch"} => q.book = <<>>
    /\ q.pc \in {"idle", "load"} => q.groups = <<>>

LEMMA PlanInOrder ==
  ASSUME cursors \in [TaskIds -> 0..MaxTime], bootAt \in 0..MaxTime, TasksOK,
         NEW at \in 0..MaxTime, NEW q, q.pc = "book", q.book = Plan(at).book,
         q.groups = Plan(at).groups
  PROVE  /\ q.book \in Seq(Batch) /\ q.groups \in Seq(Batch) /\ Ordered(q)
         /\ \A t, w : Owes(q, t, w) => \E j \in DOMAIN tasks :
                tasks[j].id = t /\ tasks[j].enabled /\ w \in PlanOf(tasks[j], at)
         /\ \A j \in DOMAIN tasks : tasks[j].enabled =>
                \A w \in PlanOf(tasks[j], at) : Owes(q, tasks[j].id, w)
         /\ \A g \in DOMAIN q.groups : inFlight[q.groups[g].task] = 0
<1> DEFINE ME == [i \in DOMAIN tasks |-> MissedEntries(tasks[i], at)]
           SE == [i \in DOMAIN tasks |-> SkippedEntries(tasks[i], at)]
           FG == [i \in DOMAIN tasks |-> FireGroup(tasks[i], at)]
           P(j) == PlanOf(tasks[j], at)
           a == Batches("missed", ME)
           b == Batches("skipped", SE)
           c == Batches("running", FG)
<1>1. Len(tasks) \in Nat /\ DOMAIN tasks = 1..Len(tasks) /\ \A j \in DOMAIN tasks : tasks[j] \in TaskRecord
  BY LenProperties, ElementOfSeq DEF TasksOK
<1>2. \A j \in DOMAIN tasks :
          /\ ME[j] \in WindowLists /\ Ascending(ME[j]) /\ SE[j] \in WindowLists /\ Ascending(SE[j])
          /\ FG[j] \in WindowLists /\ Ascending(FG[j])
          /\ FG[j] # <<>> => inFlight[tasks[j].id] = 0 /\ SE[j] = <<>>
          /\ Below(ME[j], SE[j]) /\ Below(ME[j], FG[j])
          /\ P(j) = ToSet(ME[j]) \cup ToSet(SE[j]) \cup ToSet(FG[j])
  <2> SUFFICES ASSUME NEW j \in DOMAIN tasks
               PROVE  /\ ME[j] \in WindowLists /\ Ascending(ME[j]) /\ SE[j] \in WindowLists /\ Ascending(SE[j])
                      /\ FG[j] \in WindowLists /\ Ascending(FG[j])
                      /\ FG[j] # <<>> => inFlight[tasks[j].id] = 0 /\ SE[j] = <<>>
                      /\ Below(ME[j], SE[j]) /\ Below(ME[j], FG[j])
                      /\ P(j) = ToSet(ME[j]) \cup ToSet(SE[j]) \cup ToSet(FG[j])
    OBVIOUS
  <2>1. tasks[j] \in TaskRecord
    BY <1>1
  <2> DEFINE t == tasks[j]
             m == MissedEntries(t, at)
             s == SkippedEntries(t, at)
             g == FireGroup(t, at)
  <2>2. ME[j] = m /\ SE[j] = s /\ FG[j] = g
    OBVIOUS
  <2> HIDE DEF t
  <2>3. /\ m \in Seq(1..MaxTime) /\ Ascending(m) /\ s \in Seq(1..MaxTime) /\ Ascending(s)
        /\ g \in Seq(1..MaxTime) /\ Ascending(g)
        /\ g # <<>> => inFlight[t.id] = 0 /\ s = <<>>
        /\ \A x \in ToSet(m), y \in ToSet(s) \cup ToSet(g) : x < y
    BY <2>1, TaskPlan DEF t
  <2>4. Below(m, s) /\ Below(m, g)
    BY <2>3 DEF Below
  <2>5. P(j) = ToSet(m) \cup ToSet(s) \cup ToSet(g)
    BY DEF PlanOf, t
  <2> HIDE DEF m, s, g, ME, SE, FG, P
  <2> QED
    BY <2>2, <2>3, <2>4, <2>5 DEF WindowLists, t
<1>3. ME \in [DOMAIN tasks -> WindowLists] /\ SE \in [DOMAIN tasks -> WindowLists]
      /\ FG \in [DOMAIN tasks -> WindowLists]
  BY <1>2
<1>4. q.book = a \o b /\ q.groups = c
  BY DEF Plan
<1> HIDE DEF ME, SE, FG, P
<1>5. /\ a \in Seq(Batch)
      /\ \A i \in DOMAIN a : \E j \in DOMAIN tasks :
             a[i].task = tasks[j].id /\ a[i].windows = ME[j] /\ tasks[j].enabled
      /\ \A i, h \in DOMAIN a : a[i].task = a[h].task => i = h
      /\ \A j \in DOMAIN tasks : tasks[j].enabled /\ ME[j] # <<>> =>
             \E i \in DOMAIN a : a[i].task = tasks[j].id /\ a[i].windows = ME[j]
  <2>1. "missed" \in Statuses
    BY DEF Statuses
  <2>2. BatchesFrom(a, ME)
    BY <1>3, <2>1, BatchesOf
  <2> HIDE DEF a
  <2> QED
    BY <2>2 DEF BatchesFrom
<1>6. /\ b \in Seq(Batch)
      /\ \A i \in DOMAIN b : \E j \in DOMAIN tasks :
             b[i].task = tasks[j].id /\ b[i].windows = SE[j] /\ tasks[j].enabled
      /\ \A i, h \in DOMAIN b : b[i].task = b[h].task => i = h
      /\ \A j \in DOMAIN tasks : tasks[j].enabled /\ SE[j] # <<>> =>
             \E i \in DOMAIN b : b[i].task = tasks[j].id /\ b[i].windows = SE[j]
  <2>1. "skipped" \in Statuses
    BY DEF Statuses
  <2>2. BatchesFrom(b, SE)
    BY <1>3, <2>1, BatchesOf
  <2> HIDE DEF b
  <2> QED
    BY <2>2 DEF BatchesFrom
<1>7. /\ c \in Seq(Batch)
      /\ \A i \in DOMAIN c : \E j \in DOMAIN tasks :
             c[i].task = tasks[j].id /\ c[i].windows = FG[j] /\ tasks[j].enabled
      /\ \A i, h \in DOMAIN c : c[i].task = c[h].task => i = h
      /\ \A j \in DOMAIN tasks : tasks[j].enabled /\ FG[j] # <<>> =>
             \E i \in DOMAIN c : c[i].task = tasks[j].id /\ c[i].windows = FG[j]
  <2>1. "running" \in Statuses
    BY DEF Statuses
  <2>2. BatchesFrom(c, FG)
    BY <1>3, <2>1, BatchesOf
  <2> HIDE DEF c
  <2> QED
    BY <2>2 DEF BatchesFrom
<1> HIDE DEF a, b, c
<1> DEFINE m == Len(a)
           n == Len(b)
           d == q.book
<1>8. /\ m \in Nat /\ n \in Nat /\ DOMAIN a = 1..m /\ DOMAIN b = 1..n
      /\ d \in Seq(Batch) /\ Len(d) = m + n
      /\ \A i \in 1..(m + n) : d[i] = IF i <= m THEN a[i] ELSE b[i - m]
  BY <1>4, <1>5, <1>6, LenProperties, ConcatProperties
<1>9. DOMAIN d = 1..(m + n)
  BY <1>8, LenProperties
<1> HIDE DEF m, n, d
<1>10. \A i \in DOMAIN d : \/ i \in DOMAIN a /\ i <= m /\ d[i] = a[i]
                           \/ i - m \in DOMAIN b /\ i > m /\ d[i] = b[i - m]
  BY <1>8, <1>9
<1>11. /\ \A i \in DOMAIN a : i \in DOMAIN d /\ d[i] = a[i]
       /\ \A i \in DOMAIN b : i + m \in DOMAIN d /\ d[i + m] = b[i]
  <2>1. \A i \in 1..m : i \in 1..(m + n) /\ d[i] = a[i]
    BY <1>8
  <2>2. ASSUME NEW i \in 1..n PROVE i + m \in 1..(m + n) /\ d[i + m] = b[i]
    <3>1. i + m \in 1..(m + n) /\ ~(i + m <= m) /\ (i + m) - m = i
      BY <1>8
    <3> QED
      BY <1>8, <3>1
  <2> QED
    BY <1>8, <1>9, <2>1, <2>2
<1>12. \A i \in DOMAIN d : \E j \in DOMAIN tasks :
           /\ d[i].task = tasks[j].id /\ tasks[j].enabled
           /\ \/ d[i].windows = ME[j] /\ i <= m
              \/ d[i].windows = SE[j] /\ i > m
  BY SMTT(40), <1>5, <1>6, <1>10
<1>13. \A j, h \in DOMAIN tasks : tasks[j].id = tasks[h].id => j = h
  BY DEF TasksOK
<1>14. \A i \in DOMAIN d : Ascending(d[i].windows)
  BY <1>2, <1>12
<1>15. \A g \in DOMAIN c : Ascending(c[g].windows)
  BY <1>2, <1>7
<1>16. ASSUME NEW i \in DOMAIN d, NEW j \in DOMAIN d, i < j, d[i].task = d[j].task
       PROVE  Below(d[i].windows, d[j].windows)
  <2>1. CASE j <= m
    <3>1. i <= m /\ j > i
      BY <1>8, <1>9, <1>16, <2>1
    <3>2. i \in DOMAIN a /\ j \in DOMAIN a /\ a[i].task = a[j].task
      BY <1>8, <1>9, <1>10, <1>16, <2>1, <3>1
    <3> QED
      BY <1>5, <1>8, <1>9, <1>16, <3>2
  <2>2. CASE i > m
    <3>1. j > m
      BY <1>8, <1>9, <1>16, <2>2
    <3>2. i - m \in DOMAIN b /\ j - m \in DOMAIN b /\ b[i - m].task = b[j - m].task
      BY <1>8, <1>9, <1>10, <1>16, <2>2, <3>1
    <3>3. i - m = j - m
      BY <1>6, <3>2
    <3> QED
      BY <1>8, <1>9, <1>16, <3>3
  <2>3. CASE i <= m /\ j > m
    <3>1. PICK x \in DOMAIN tasks : d[i].task = tasks[x].id /\ d[i].windows = ME[x]
      BY <1>8, <1>9, <1>12, <2>3
    <3>2. PICK y \in DOMAIN tasks : d[j].task = tasks[y].id /\ d[j].windows = SE[y]
      BY <1>8, <1>9, <1>12, <2>3
    <3>3. x = y
      BY <1>13, <1>16, <3>1, <3>2
    <3> QED
      BY <1>2, <3>1, <3>2, <3>3
  <2> QED
    BY <1>8, <1>9, <2>1, <2>2, <2>3
<1>17. ASSUME NEW i \in DOMAIN d, NEW g \in DOMAIN c, d[i].task = c[g].task
       PROVE  Below(d[i].windows, c[g].windows)
  <2>1. PICK y \in DOMAIN tasks : c[g].task = tasks[y].id /\ c[g].windows = FG[y]
    BY <1>7
  <2>2. c[g].windows # <<>>
    <3>1. c[g] \in Batch
      BY <1>7, ElementOfSeq, LenProperties
    <3> QED
      BY <3>1 DEF Batch
  <2>3. SE[y] = <<>>
    BY <1>2, <2>1, <2>2
  <2>4. PICK x \in DOMAIN tasks : /\ d[i].task = tasks[x].id
                                  /\ d[i].windows = ME[x] \/ d[i].windows = SE[x]
    BY <1>12
  <2>5. x = y
    BY <1>13, <1>17, <2>1, <2>4
  <2>6. d[i].windows # <<>>
    <3>1. d[i] \in Batch
      BY <1>8, ElementOfSeq, LenProperties
    <3> QED
      BY <3>1 DEF Batch
  <2> QED
    BY <1>2, <2>1, <2>3, <2>4, <2>5, <2>6
<1>18. Ordered(q)
  BY <1>4, <1>7, <1>14, <1>15, <1>16, <1>17 DEF Ordered, d
<1>19. ASSUME NEW t, NEW w, Owes(q, t, w)
       PROVE  \E j \in DOMAIN tasks : tasks[j].id = t /\ tasks[j].enabled /\ w \in P(j)
  <2>1. CASE \E i \in DOMAIN d : d[i].task = t /\ w \in ToSet(d[i].windows)
    BY <1>2, <1>12, <2>1
  <2>2. CASE \E g \in DOMAIN c : c[g].task = t /\ w \in ToSet(c[g].windows)
    BY <1>2, <1>7, <2>2
  <2> QED
    BY <1>4, <1>19, <2>1, <2>2 DEF Owes, d
<1>20. ASSUME NEW j \in DOMAIN tasks, tasks[j].enabled, NEW w \in P(j)
       PROVE  Owes(q, tasks[j].id, w)
  <2>0. \A u \in {ME[j], SE[j], FG[j]} : w \in ToSet(u) => u # <<>>
    BY NoElement
  <2>1. CASE w \in ToSet(ME[j])
    <3>1. PICK i \in DOMAIN a : a[i].task = tasks[j].id /\ a[i].windows = ME[j]
      BY <1>5, <1>20, <2>0, <2>1
    <3> QED
      BY <1>11, <2>1, <3>1 DEF Owes, d
  <2>2. CASE w \in ToSet(SE[j])
    <3>1. PICK i \in DOMAIN b : b[i].task = tasks[j].id /\ b[i].windows = SE[j]
      BY <1>6, <1>20, <2>0, <2>2
    <3> QED
      BY <1>11, <2>2, <3>1 DEF Owes, d
  <2>3. CASE w \in ToSet(FG[j])
    <3>1. PICK i \in DOMAIN c : c[i].task = tasks[j].id /\ c[i].windows = FG[j]
      BY <1>7, <1>20, <2>0, <2>3
    <3> QED
      BY <1>4, <2>3, <3>1 DEF Owes
  <2> QED
    BY <1>2, <1>20, <2>1, <2>2, <2>3
<1>21. \A g \in DOMAIN c : inFlight[c[g].task] = 0
  <2> SUFFICES ASSUME NEW g \in DOMAIN c PROVE inFlight[c[g].task] = 0
    OBVIOUS
  <2>1. PICK y \in DOMAIN tasks : c[g].task = tasks[y].id /\ c[g].windows = FG[y]
    BY <1>7
  <2>2. c[g] \in Batch
    BY <1>7, ElementOfSeq, LenProperties
  <2>3. FG[y] # <<>>
    BY <2>1, <2>2 DEF Batch
  <2> QED
    BY <1>2, <2>1, <2>3
<1> QED
  BY <1>4, <1>7, <1>8, <1>18, <1>19, <1>20, <1>21 DEF d, P

-----------------------------------------------------------------------------
(* What the steps of a tick leave to do *)

LEMMA FirstAndRest ==
  ASSUME NEW S, NEW w \in Seq(S), w # <<>>
  PROVE  /\ Head(w) = w[1] /\ w[1] \in S /\ 1 \in DOMAIN w /\ Len(w) \in Nat /\ Len(w) >= 1
         /\ DOMAIN w = 1..Len(w) /\ Tail(w) \in Seq(S) /\ DOMAIN Tail(w) = 1..(Len(w) - 1)
         /\ \A i \in DOMAIN Tail(w) : i + 1 \in DOMAIN w /\ Tail(w)[i] = w[i + 1] /\ i + 1 > 1
         /\ \A i \in DOMAIN w : i # 1 => i - 1 \in DOMAIN Tail(w) /\ w[i] = Tail(w)[i - 1]
<1>1. Head(w) = w[1] /\ Len(w) \in Nat /\ Len(w) # 0 /\ DOMAIN w = 1..Len(w)
  OBVIOUS
<1>2. /\ Head(w) \in S /\ Tail(w) \in Seq(S) /\ Len(Tail(w)) = Len(w) - 1
      /\ \A i \in 1..Len(Tail(w)) : Tail(w)[i] = w[i + 1]
  BY HeadTailProperties
<1>3. DOMAIN Tail(w) = 1..(Len(w) - 1)
  BY <1>2, LenProperties
<1>4. 1 \in DOMAIN w /\ Len(w) >= 1
  BY <1>1
<1>5. ASSUME NEW i \in DOMAIN Tail(w) PROVE i + 1 \in DOMAIN w /\ Tail(w)[i] = w[i + 1] /\ i + 1 > 1
  BY <1>1, <1>2, <1>3
<1>6. ASSUME NEW i \in DOMAIN w, i # 1 PROVE i - 1 \in DOMAIN Tail(w) /\ w[i] = Tail(w)[i - 1]
  <2>1. i - 1 \in 1..(Len(w) - 1) /\ (i - 1) + 1 = i
    BY <1>1, <1>6
  <2> QED
    BY <1>2, <1>3, <2>1
<1> QED
  BY <1>1, <1>2, <1>3, <1>4, <1>5, <1>6

\* An ascending list is its first element and what is above it.
LEMMA LeastFirst ==
  ASSUME NEW S, S \subseteq Nat, NEW w \in Seq(S), w # <<>>, Ascending(w)
  PROVE  /\ Head(w) \in ToSet(w) /\ Head(w) \in S
         /\ Tail(w) \in Seq(S) /\ Ascending(Tail(w))
         /\ ToSet(w) = {Head(w)} \cup ToSet(Tail(w))
         /\ \A x \in ToSet(Tail(w)) : x > Head(w)
         /\ Len(w) = 1 => ToSet(Tail(w)) = {}
         /\ Len(w) # 1 => Tail(w) # <<>>
<1>1. /\ Head(w) = w[1] /\ w[1] \in S /\ 1 \in DOMAIN w /\ Len(w) \in Nat /\ Len(w) >= 1
      /\ DOMAIN w = 1..Len(w) /\ Tail(w) \in Seq(S) /\ DOMAIN Tail(w) = 1..(Len(w) - 1)
      /\ \A i \in DOMAIN Tail(w) : i + 1 \in DOMAIN w /\ Tail(w)[i] = w[i + 1] /\ i + 1 > 1
      /\ \A i \in DOMAIN w : i # 1 => i - 1 \in DOMAIN Tail(w) /\ w[i] = Tail(w)[i - 1]
  BY FirstAndRest
<1> DEFINE r == Tail(w)
<1>2. ToSet(w) = {w[1]} \cup ToSet(r)
  <2>1. \A x \in ToSet(w) : x = w[1] \/ x \in ToSet(r)
    BY <1>1 DEF ToSet
  <2>2. \A x \in ToSet(r) : x \in ToSet(w)
    BY <1>1 DEF ToSet
  <2>3. w[1] \in ToSet(w)
    BY <1>1 DEF ToSet
  <2> QED
    BY <2>1, <2>2, <2>3
<1>3. \A i \in DOMAIN w : w[i] \in S /\ w[i] \in Nat
  BY <1>1, ElementOfSeq
<1>4. \A x \in ToSet(r) : x > w[1]
  <2> SUFFICES ASSUME NEW i \in DOMAIN r PROVE r[i] > w[1]
    BY DEF ToSet
  <2> QED
    BY <1>1, <1>3 DEF Ascending
<1>5. Ascending(r)
  <2> SUFFICES ASSUME NEW i \in DOMAIN r, NEW j \in DOMAIN r, i < j PROVE r[i] < r[j]
    BY DEF Ascending
  <2>1. i + 1 < j + 1 /\ i + 1 \in DOMAIN w /\ j + 1 \in DOMAIN w /\ r[i] = w[i + 1] /\ r[j] = w[j + 1]
    BY <1>1
  <2> QED
    BY <2>1 DEF Ascending
<1>6. Len(w) = 1 => ToSet(r) = {}
  BY <1>1 DEF ToSet
<1>7. Len(w) # 1 => r # <<>>
  <2>1. Len(w) # 1 => 1 \in DOMAIN r
    BY <1>1
  <2>2. DOMAIN <<>> = {}
    OBVIOUS
  <2> HIDE DEF r
  <2> QED
    BY <2>1, <2>2
<1> QED
  BY <1>1, <1>2, <1>4, <1>5, <1>6, <1>7

\* The list with its first entry replaced or removed, as Book leaves it
Popped(book) ==
    LET batch == Head(book)
    IN  IF Len(batch.windows) = 1 THEN Tail(book)
        ELSE [book EXCEPT ![1] = [batch EXCEPT !.windows = Tail(@)]]

\* Every entry i of p stems from the entry o[i] of book, in the same order.
Stems(p, book, o) ==
    /\ \A i, j \in DOMAIN p : i < j => o[i] < o[j]
    /\ \A i \in DOMAIN p : /\ p[i].task = book[o[i]].task
                           /\ Ascending(p[i].windows)
                           /\ IF o[i] = 1 THEN p[i].windows = Tail(book[1].windows)
                                          ELSE p[i].windows = book[o[i]].windows
    /\ \A h \in DOMAIN book : \/ \E i \in DOMAIN p : o[i] = h
                              \/ h = 1 /\ ToSet(Tail(book[1].windows)) = {}

LEMMA PoppedFrom ==
  ASSUME NEW book \in Seq(Batch), book # <<>>, \A i \in DOMAIN book : Ascending(book[i].windows)
  PROVE  /\ Popped(book) \in Seq(Batch)
         /\ \E o \in [DOMAIN Popped(book) -> DOMAIN book] : Stems(Popped(book), book, o)
<1> DEFINE batch == Head(book)
           w == batch.windows
           n == Len(book)
           p == Popped(book)
<1>1. /\ batch = book[1] /\ batch \in Batch /\ 1 \in DOMAIN book /\ n \in Nat /\ n >= 1
      /\ DOMAIN book = 1..n /\ Tail(book) \in Seq(Batch) /\ DOMAIN Tail(book) = 1..(n - 1)
      /\ \A i \in DOMAIN Tail(book) : i + 1 \in DOMAIN book /\ Tail(book)[i] = book[i + 1] /\ i + 1 > 1
      /\ \A i \in DOMAIN book : i # 1 => i - 1 \in DOMAIN Tail(book) /\ book[i] = Tail(book)[i - 1]
  BY FirstAndRest
<1>2. w \in Seq(1..MaxTime) /\ w # <<>> /\ (1..MaxTime) \subseteq Nat /\ Ascending(w)
  <2>1. Ascending(book[1].windows)
    BY <1>1
  <2>2. (1..MaxTime) \subseteq Nat
    BY Bounds
  <2>3. book[1].windows \in WindowLists \ {<<>>}
    BY <1>1 DEF Batch
  <2> QED
    BY <1>1, <2>1, <2>2, <2>3 DEF WindowLists
<1>3. /\ Tail(w) \in Seq(1..MaxTime) /\ Ascending(Tail(w))
      /\ Len(w) = 1 => ToSet(Tail(w)) = {}
      /\ Len(w) # 1 => Tail(w) # <<>>
  <2> HIDE DEF w
  <2> QED
    BY <1>2, LeastFirst
<1>4. CASE Len(w) = 1
  <2>1. p = Tail(book)
    BY <1>4 DEF Popped
  <2> HIDE DEF batch, w, n, p
  <2> DEFINE o == [i \in DOMAIN p |-> i + 1]
  <2>2. o \in [DOMAIN p -> DOMAIN book]
    BY <1>1, <2>1
  <2>3. \A i, j \in DOMAIN p : i < j => o[i] < o[j]
    BY <1>1, <2>1
  <2>4. \A i \in DOMAIN p : o[i] # 1 /\ o[i] \in DOMAIN book /\ p[i] = book[o[i]]
    BY <1>1, <2>1
  <2>5. \A h \in DOMAIN book : h # 1 => h - 1 \in DOMAIN p /\ o[h - 1] = h
    BY <1>1, <2>1
  <2>6. ToSet(Tail(book[1].windows)) = {}
    BY <1>1, <1>3, <1>4 DEF w
  <2>7. p \in Seq(Batch)
    BY <1>1, <2>1
  <2> HIDE DEF o
  <2> QED
    BY ZenonT(60), <2>2, <2>3, <2>4, <2>5, <2>6, <2>7 DEF p, Stems
<1>5. CASE Len(w) # 1
  <2> DEFINE e == [batch EXCEPT !.windows = Tail(@)]
  <2>1. p = [book EXCEPT ![1] = e]
    BY <1>5 DEF Popped
  <2>2. e \in Batch /\ e.task = batch.task /\ e.windows = Tail(w)
    <3>1. batch \in [task : TaskIds, status : Statuses, windows : WindowLists]
      BY <1>1 DEF Batch
    <3>2. Tail(w) \in WindowLists \ {<<>>}
      BY <1>3, <1>5 DEF WindowLists
    <3> HIDE DEF batch
    <3> QED
      BY <3>1, <3>2 DEF Batch
  <2> HIDE DEF batch, w, n, e, p
  <2>3. book \in [1..n -> Batch]
    BY <1>1, ElementOfSeq, LenProperties DEF n
  <2>4. p \in [1..n -> Batch] /\ p[1] = e /\ \A i \in 1..n : i # 1 => p[i] = book[i]
    BY <1>1, <2>1, <2>2, <2>3
  <2>5. p \in Seq(Batch) /\ DOMAIN p = DOMAIN book
    BY <1>1, <2>3, <2>4, SeqDef
  <2> DEFINE o == [i \in DOMAIN p |-> i]
  <2>6. o \in [DOMAIN p -> DOMAIN book] /\ \A i \in DOMAIN p : o[i] = i
    BY <2>5
  <2>7. \A i \in DOMAIN p : /\ p[i].task = book[o[i]].task
                            /\ Ascending(p[i].windows)
                            /\ IF o[i] = 1 THEN p[i].windows = Tail(book[1].windows)
                                           ELSE p[i].windows = book[o[i]].windows
    BY <1>1, <1>3, <2>2, <2>4, <2>5 DEF w
  <2> HIDE DEF o
  <2> QED
    BY <2>5, <2>6, <2>7 DEF p, Stems
<1> QED
  BY <1>4, <1>5

\* A booked window is the oldest that the tick owes its task, and no longer owed.
Booked(q, r, t0, v) ==
    /\ q.pc \in {"book", "launch"} /\ q.book \in Seq(Batch) /\ q.groups \in Seq(Batch) /\ Ordered(q)
    /\ q.book # <<>> /\ t0 = Head(q.book).task /\ v = Head(Head(q.book).windows)
    /\ r.pc = q.pc /\ r.groups = q.groups /\ r.book = Popped(q.book)

LEMMA BookLeaves ==
  ASSUME NEW q, NEW r, NEW t0, NEW v, Booked(q, r, t0, v)
  PROVE  /\ r.book \in Seq(Batch) /\ Ordered(r) /\ v \in 1..MaxTime /\ t0 \in TaskIds
         /\ Head(q.book).status \in Statuses /\ Owes(q, t0, v)
         /\ \A t, w : Owes(r, t, w) <=> Owes(q, t, w) /\ ~(t = t0 /\ w = v)
         /\ \A w : Owes(q, t0, w) => w = v \/ w > v
<1> USE DEF Booked
<1> DEFINE b == q.book
           p == r.book
           z == b[1].windows
<1>1. /\ Head(b) = b[1] /\ b[1] \in Batch /\ 1 \in DOMAIN b /\ Len(b) \in Nat
      /\ DOMAIN b = 1..Len(b)
  BY FirstAndRest
<1>2. \A i \in DOMAIN b : b[i] \in Batch /\ Ascending(b[i].windows)
  BY <1>1, ElementOfSeq DEF Ordered
<1>3. p \in Seq(Batch) /\ p = Popped(b)
  BY <1>2, PoppedFrom
<1>4. PICK o \in [DOMAIN p -> DOMAIN b] :
         /\ \A i, j \in DOMAIN p : i < j => o[i] < o[j]
         /\ \A i \in DOMAIN p : /\ p[i].task = b[o[i]].task
                                /\ Ascending(p[i].windows)
                                /\ IF o[i] = 1 THEN p[i].windows = Tail(b[1].windows)
                                               ELSE p[i].windows = b[o[i]].windows
         /\ \A h \in DOMAIN b : \/ \E i \in DOMAIN p : o[i] = h
                                \/ h = 1 /\ ToSet(Tail(b[1].windows)) = {}
  <2>1. \A i \in DOMAIN b : Ascending(b[i].windows)
    BY <1>2
  <2>2. b \in Seq(Batch) /\ b # <<>>
    OBVIOUS
  <2> HIDE DEF b, p
  <2>3. \E o \in [DOMAIN p -> DOMAIN b] : Stems(p, b, o)
    BY <1>3, <2>1, <2>2, PoppedFrom
  <2> QED
    BY <2>3 DEF Stems
<1>5. z \in Seq(1..MaxTime) /\ z # <<>> /\ Ascending(z) /\ (1..MaxTime) \subseteq Nat
  <2>1. z \in WindowLists \ {<<>>}
    BY <1>1 DEF Batch
  <2>2. Ascending(z)
    BY <1>1, <1>2
  <2>3. (1..MaxTime) \subseteq Nat
    BY Bounds
  <2> QED
    BY <2>1, <2>2, <2>3 DEF WindowLists
<1>6. v = Head(z) /\ t0 = b[1].task
  BY <1>1
<1>7. q.groups = r.groups /\ q.pc = r.pc
  OBVIOUS
<1> HIDE DEF z, p
<1>8. /\ v \in ToSet(z) /\ v \in 1..MaxTime /\ ToSet(z) = {v} \cup ToSet(Tail(z))
      /\ \A x \in ToSet(Tail(z)) : x > v
  <2> DEFINE S == 1..MaxTime
  <2>1. S \subseteq Nat /\ z \in Seq(S) /\ z # <<>> /\ Ascending(z)
    BY <1>5
  <2> HIDE DEF S
  <2>2. /\ Head(z) \in ToSet(z) /\ Head(z) \in S /\ ToSet(z) = {Head(z)} \cup ToSet(Tail(z))
        /\ \A x \in ToSet(Tail(z)) : x > Head(z)
    BY <2>1, LeastFirst, Zenon
  <2> QED
    BY <1>6, <2>2 DEF S
<1>9. v \in Nat
  BY <1>5, <1>8
<1>10. \A i \in DOMAIN p : /\ ToSet(p[i].windows) \subseteq ToSet(b[o[i]].windows)
                           /\ o[i] \in DOMAIN b
  BY <1>4, <1>8 DEF z
<1>11. \A h \in DOMAIN b : b[h].task = t0 /\ h # 1 => \A w \in ToSet(b[h].windows) : w > v
  <2> SUFFICES ASSUME NEW h \in DOMAIN b, b[h].task = t0, h # 1, NEW w \in ToSet(b[h].windows)
               PROVE  w > v
    OBVIOUS
  <2>1. 1 < h
    BY <1>1
  <2>2. Below(z, b[h].windows)
    BY <1>1, <1>6, <2>1 DEF Ordered, z
  <2>3. v < w
    BY <1>8, <2>2 DEF Below
  <2>4. w \in Nat
    <3>1. b[h].windows \in Seq(1..MaxTime)
      BY <1>2 DEF Batch, WindowLists
    <3>2. PICK i \in DOMAIN b[h].windows : w = b[h].windows[i]
      BY DEF ToSet
    <3>3. b[h].windows[i] \in 1..MaxTime
      <4> DEFINE u == b[h].windows
      <4> HIDE DEF u
      <4>1. u \in Seq(1..MaxTime) /\ i \in DOMAIN u
        BY <3>1 DEF u
      <4>2. u[i] \in 1..MaxTime
        BY <4>1, ElementOfSeq, LenProperties
      <4> QED
        BY <4>2 DEF u
    <3> QED
      BY <1>5, <3>2, <3>3
  <2> QED
    BY <1>9, <2>3, <2>4
<1>12. ASSUME NEW g \in DOMAIN q.groups, q.groups[g].task = t0
       PROVE  /\ q.pc = "launch" => g = 1 /\ Last(q.groups[g].windows) > v
              /\ q.pc # "launch" => \A w \in ToSet(q.groups[g].windows) : w > v
  <2> DEFINE u == q.groups[g].windows
  <2>1. u \in Seq(1..MaxTime) /\ u # <<>>
    <3>1. q.groups[g] \in Batch
      BY ElementOfSeq, LenProperties
    <3> QED
      BY <3>1 DEF Batch, WindowLists
  <2>2. /\ q.pc = "launch" => g = 1 /\ \A x \in ToSet(z) : x < Last(u)
        /\ q.pc # "launch" => Below(z, u)
    BY <1>1, <1>6, <1>12 DEF Ordered, z
  <2> HIDE DEF u
  <2>3. Last(u) \in Nat
    BY <1>5, <2>1, LastOf
  <2>4. \A w \in ToSet(u) : w \in Nat
    <3> SUFFICES ASSUME NEW i \in DOMAIN u PROVE u[i] \in Nat
      BY DEF ToSet
    <3> QED
      BY <1>5, <2>1, ElementOfSeq, LenProperties
  <2>5. \A w \in ToSet(u) : v < w => w > v
    BY <1>9, <2>4
  <2>6. v < Last(u) => Last(u) > v
    BY <1>9, <2>3
  <2> QED
    BY <1>8, <2>2, <2>5, <2>6 DEF Below, u
<1>13. ASSUME NEW w, Owes(q, t0, w) PROVE w = v \/ w > v
  <2>1. CASE \E h \in DOMAIN b : b[h].task = t0 /\ w \in ToSet(b[h].windows)
    BY <1>8, <1>11, <2>1 DEF z
  <2>2. CASE \E g \in DOMAIN q.groups :
                 /\ q.groups[g].task = t0
                 /\ IF q.pc \in {"launch", "spawn"} /\ g = 1
                    THEN q.pc = "launch" /\ w = Last(q.groups[g].windows)
                    ELSE w \in ToSet(q.groups[g].windows)
    BY <1>12, <2>2
  <2> QED
    BY <1>13, <2>1, <2>2 DEF Owes
<1>14. Owes(q, t0, v)
  BY <1>1, <1>6, <1>8 DEF Owes, z
<1>15. ASSUME NEW t, NEW w, Owes(r, t, w) PROVE Owes(q, t, w) /\ ~(t = t0 /\ w = v)
  <2>1. CASE \E i \in DOMAIN p : p[i].task = t /\ w \in ToSet(p[i].windows)
    <3>1. PICK i \in DOMAIN p : p[i].task = t /\ w \in ToSet(p[i].windows)
      BY <2>1
    <3>2. o[i] \in DOMAIN b /\ b[o[i]].task = t /\ w \in ToSet(b[o[i]].windows)
      BY <1>4, <1>10, <3>1
    <3>3. t = t0 => w > v
      BY <1>4, <1>8, <1>11, <3>1, <3>2 DEF z
    <3>4. ~(t = t0 /\ w = v)
      BY <1>9, <3>3
    <3> QED
      BY <3>2, <3>4 DEF Owes
  <2>2. CASE \E g \in DOMAIN q.groups :
                 /\ q.groups[g].task = t
                 /\ IF q.pc \in {"launch", "spawn"} /\ g = 1
                    THEN q.pc = "launch" /\ w = Last(q.groups[g].windows)
                    ELSE w \in ToSet(q.groups[g].windows)
    <3>1. Owes(q, t, w)
      BY <2>2 DEF Owes
    <3>2. t = t0 => w > v
      BY <1>12, <2>2
    <3> QED
      BY <1>9, <3>1, <3>2
  <2> QED
    BY <1>7, <1>15, <2>1, <2>2 DEF Owes, p
<1>16. ASSUME NEW t, NEW w, Owes(q, t, w), ~(t = t0 /\ w = v) PROVE Owes(r, t, w)
  <2>1. CASE \E h \in DOMAIN b : b[h].task = t /\ w \in ToSet(b[h].windows)
    <3>1. PICK h \in DOMAIN b : b[h].task = t /\ w \in ToSet(b[h].windows)
      BY <2>1
    <3>2. h = 1 => w \in ToSet(Tail(z))
      BY <1>6, <1>8, <1>16, <3>1 DEF z
    <3>3. \E i \in DOMAIN p : o[i] = h
      BY <1>4, <3>2 DEF z
    <3>4. PICK i \in DOMAIN p : o[i] = h
      BY <3>3
    <3>5. p[i].task = t /\ w \in ToSet(p[i].windows)
      BY <1>4, <3>1, <3>2, <3>4 DEF z
    <3> QED
      BY <3>5 DEF Owes, p
  <2>2. CASE \E g \in DOMAIN q.groups :
                 /\ q.groups[g].task = t
                 /\ IF q.pc \in {"launch", "spawn"} /\ g = 1
                    THEN q.pc = "launch" /\ w = Last(q.groups[g].windows)
                    ELSE w \in ToSet(q.groups[g].windows)
    BY <1>7, <2>2 DEF Owes
  <2> QED
    BY <1>16, <2>1, <2>2 DEF Owes
<1>17. Ordered(r)
  <2>1. \A i \in DOMAIN p : Ascending(p[i].windows)
    BY <1>4
  <2>2. ASSUME NEW i \in DOMAIN p, NEW j \in DOMAIN p, i < j, p[i].task = p[j].task
        PROVE  Below(p[i].windows, p[j].windows)
    <3>1. o[i] < o[j] /\ b[o[i]].task = b[o[j]].task /\ o[i] \in DOMAIN b /\ o[j] \in DOMAIN b
      BY <1>4, <2>2
    <3>2. Below(b[o[i]].windows, b[o[j]].windows)
      BY <3>1 DEF Ordered
    <3> QED
      BY <1>10, <3>2 DEF Below
  <2>3. ASSUME NEW i \in DOMAIN p, NEW g \in DOMAIN r.groups, p[i].task = r.groups[g].task
        PROVE  IF r.pc = "launch"
               THEN g = 1 /\ \A x \in ToSet(p[i].windows) : x < Last(r.groups[g].windows)
               ELSE Below(p[i].windows, r.groups[g].windows)
    <3>1. b[o[i]].task = q.groups[g].task /\ o[i] \in DOMAIN b /\ g \in DOMAIN q.groups
      BY <1>4, <1>7, <2>3
    <3>2. IF q.pc = "launch"
          THEN g = 1 /\ \A x \in ToSet(b[o[i]].windows) : x < Last(q.groups[g].windows)
          ELSE Below(b[o[i]].windows, q.groups[g].windows)
      BY <3>1 DEF Ordered
    <3> QED
      BY <1>7, <1>10, <3>2 DEF Below
  <2>4. /\ \A g \in DOMAIN r.groups : Ascending(r.groups[g].windows)
        /\ \A g, h \in DOMAIN r.groups : r.groups[g].task = r.groups[h].task => g = h
        /\ r.pc \in {"launch", "spawn"} => r.groups # <<>>
        /\ r.pc \in {"book", "launch"}
    BY <1>7 DEF Ordered
  <2> QED
    BY <2>1, <2>2, <2>3, <2>4 DEF Ordered, p
<1> QED
  <2>1. t0 \in TaskIds /\ Head(q.book).status \in Statuses
    BY <1>1, <1>6 DEF Batch
  <2> QED
    BY <1>3, <1>8, <1>13, <1>14, <1>15, <1>16, <1>17, <2>1 DEF p

\* An ascending list is its last element and what is below it.
LEMMA GreatestLast ==
  ASSUME NEW S, NEW w \in Seq(S), w # <<>>, Ascending(w)
  PROVE  /\ Len(w) = 1 => ToSet(w) = {Last(w)}
         /\ Len(w) # 1 => /\ Front(w) \in Seq(S) /\ Front(w) # <<>> /\ Ascending(Front(w))
                          /\ ToSet(w) = ToSet(Front(w)) \cup {Last(w)}
                          /\ \A x \in ToSet(Front(w)) : x < Last(w)
<1> DEFINE n == Len(w)
           f == Front(w)
<1>1. n \in Nat /\ n >= 1 /\ DOMAIN w = 1..n /\ Last(w) = w[n] /\ n \in DOMAIN w
  BY FirstAndRest DEF Last
<1>2. n = 1 => ToSet(w) = {Last(w)}
  BY <1>1 DEF ToSet
<1>3. CASE n # 1
  <2>1. \A i \in 1..(n - 1) : w[i] \in S
    BY <1>1, ElementOfSeq
  <2>2. f \in Seq(S) /\ Len(f) = n - 1 /\ \A i \in 1..(n - 1) : f[i] = w[i]
    <3>1. 1 \in Int /\ n - 1 \in Int /\ 1 <= n - 1
      BY <1>1, <1>3
    <3>2. /\ f \in Seq(S)
          /\ Len(f) = IF 1 <= n - 1 THEN (n - 1) - 1 + 1 ELSE 0
          /\ \A i \in 1..((n - 1) - 1 + 1) : f[i] = w[1 + i - 1]
      BY <2>1, <3>1, SubSeqProperties DEF Front
    <3>3. (n - 1) - 1 + 1 = n - 1 /\ \A i \in 1..(n - 1) : 1 + i - 1 = i
      BY <1>1
    <3> HIDE DEF f, n
    <3> QED
      BY <3>1, <3>2, <3>3
  <2> HIDE DEF f, n
  <2>3. DOMAIN f = 1..(n - 1) /\ 1 \in DOMAIN f
    BY <1>1, <1>3, <2>2, LenProperties
  <2>4. f # <<>>
    <3>1. DOMAIN <<>> = {}
      OBVIOUS
    <3> QED
      BY <2>3, <3>1
  <2>5. \A i \in DOMAIN f : i \in DOMAIN w /\ i < n /\ f[i] = w[i]
    BY <1>1, <2>2, <2>3
  <2>6. Ascending(f)
    BY <2>5 DEF Ascending
  <2>7. \A x \in ToSet(f) : x < Last(w)
    BY <1>1, <2>5 DEF Ascending, ToSet
  <2>8. \A i \in DOMAIN w : i = n \/ i \in DOMAIN f
    BY <1>1, <2>3
  <2>9. ToSet(w) = ToSet(f) \cup {Last(w)}
    <3>1. \A x \in ToSet(w) : x \in ToSet(f) \cup {Last(w)}
      BY <1>1, <2>5, <2>8 DEF ToSet
    <3>2. \A x \in ToSet(f) : x \in ToSet(w)
      BY <2>5 DEF ToSet
    <3>3. Last(w) \in ToSet(w)
      BY <1>1 DEF ToSet
    <3> QED
      BY <3>1, <3>2, <3>3
  <2> QED
    BY <1>3, <2>2, <2>4, <2>6, <2>7, <2>9 DEF f, n
<1> QED
  BY <1>2, <1>3

\* The older windows of a group move to the list that is booked next; nothing else changes.
LEMMA GroupTaken ==
  ASSUME NEW q, NEW r, q.pc = "book", q.book = <<>>, q.groups \in Seq(Batch), q.groups # <<>>,
         Ordered(q), r.pc = "launch", r.groups = q.groups,
         r.book = IF Len(Head(q.groups).windows) = 1 THEN <<>>
                  ELSE <<[Head(q.groups) EXCEPT !.status = "missed", !.windows = Front(@)]>>
  PROVE  /\ r.book \in Seq(Batch) /\ Ordered(r)
         /\ \A t, w : Owes(r, t, w) <=> Owes(q, t, w)
<1> DEFINE c == q.groups
           group == Head(c)
           z == group.windows
           e == [group EXCEPT !.status = "missed", !.windows = Front(@)]
<1>1. /\ group = c[1] /\ group \in Batch /\ 1 \in DOMAIN c
      /\ \A g \in DOMAIN c : c[g] \in Batch
  BY FirstAndRest, ElementOfSeq
<1>2. z \in WindowLists /\ z # <<>>
  BY <1>1 DEF Batch
<1>3. Ascending(z)
  BY <1>1 DEF Ordered
<1>4. /\ Len(z) = 1 => ToSet(z) = {Last(z)}
      /\ Len(z) # 1 => /\ Front(z) \in WindowLists /\ Front(z) # <<>> /\ Ascending(Front(z))
                       /\ ToSet(z) = ToSet(Front(z)) \cup {Last(z)}
                       /\ \A x \in ToSet(Front(z)) : x < Last(z)
  <2> DEFINE S == 1..MaxTime
  <2>1. z \in Seq(S)
    BY <1>2 DEF WindowLists
  <2> HIDE DEF S, z
  <2>2. /\ Len(z) = 1 => ToSet(z) = {Last(z)}
        /\ Len(z) # 1 => /\ Front(z) \in Seq(S) /\ Front(z) # <<>> /\ Ascending(Front(z))
                         /\ ToSet(z) = ToSet(Front(z)) \cup {Last(z)}
                         /\ \A x \in ToSet(Front(z)) : x < Last(z)
    BY <1>2, <1>3, <2>1, GreatestLast
  <2> QED
    BY <2>2 DEF S, WindowLists
<1>5. Len(z) # 1 => e \in Batch /\ e.task = group.task /\ e.windows = Front(z)
  <2>1. group \in [task : TaskIds, status : Statuses, windows : WindowLists]
    BY <1>1 DEF Batch
  <2>2. "missed" \in Statuses
    BY DEF Statuses
  <2> HIDE DEF group
  <2> QED
    BY <1>4, <2>1, <2>2 DEF Batch
<1>6. r.book = IF Len(z) = 1 THEN <<>> ELSE <<e>>
  OBVIOUS
<1>7. DOMAIN <<>> = {} /\ <<>> \in Seq(Batch)
  OBVIOUS
<1>8. <<e>>[1] = e /\ DOMAIN <<e>> = {1} /\ (e \in Batch => <<e>> \in Seq(Batch))
  <2> HIDE DEF e
  <2> QED
    OBVIOUS
<1>9. \A t, w : Owes(q, t, w) <=> \E g \in DOMAIN c : c[g].task = t /\ w \in ToSet(c[g].windows)
  BY <1>7 DEF Owes
<1>10. r.groups = c /\ r.pc = "launch"
  OBVIOUS
<1>11. \A g, h \in DOMAIN c : c[g].task = c[h].task => g = h
  BY DEF Ordered
<1>12. \A g \in DOMAIN c : Ascending(c[g].windows)
  BY DEF Ordered
<1>13. c # <<>>
  OBVIOUS
<1>14. \A t, w : (\E g \in DOMAIN c :
                     /\ c[g].task = t
                     /\ IF r.pc \in {"launch", "spawn"} /\ g = 1
                        THEN r.pc = "launch" /\ w = Last(c[g].windows)
                        ELSE w \in ToSet(c[g].windows))
                  <=> \/ t = group.task /\ w = Last(z)
                      \/ \E g \in DOMAIN c : g # 1 /\ c[g].task = t /\ w \in ToSet(c[g].windows)
  BY <1>1, <1>10
<1>15. \A t, w : Owes(q, t, w) <=>
                      \/ t = group.task /\ w \in ToSet(z)
                      \/ \E g \in DOMAIN c : g # 1 /\ c[g].task = t /\ w \in ToSet(c[g].windows)
  BY <1>1, <1>9
<1> HIDE DEF e, z, group, c
<1>16. CASE Len(z) = 1
  <2>1. r.book = <<>>
    BY <1>6, <1>16
  <2>2. \A t, w : Owes(r, t, w) <=> \E g \in DOMAIN c :
                     /\ c[g].task = t
                     /\ IF r.pc \in {"launch", "spawn"} /\ g = 1
                        THEN r.pc = "launch" /\ w = Last(c[g].windows)
                        ELSE w \in ToSet(c[g].windows)
    BY <1>7, <1>10, <2>1 DEF Owes
  <2>3. \A t, w : Owes(r, t, w) <=> Owes(q, t, w)
    BY <1>4, <1>14, <1>15, <1>16, <2>2
  <2>4. Ordered(r)
    BY <1>7, <1>10, <1>11, <1>12, <1>13, <2>1 DEF Ordered
  <2> QED
    BY <1>7, <2>1, <2>3, <2>4
<1>17. CASE Len(z) # 1
  <2>1. r.book = <<e>>
    BY <1>6, <1>17
  <2>2. r.book \in Seq(Batch) /\ DOMAIN r.book = {1} /\ r.book[1] = e
    BY <1>5, <1>8, <1>17, <2>1
  <2>3. \A t, w : Owes(r, t, w) <=>
                    \/ e.task = t /\ w \in ToSet(e.windows)
                    \/ \E g \in DOMAIN c :
                         /\ c[g].task = t
                         /\ IF r.pc \in {"launch", "spawn"} /\ g = 1
                            THEN r.pc = "launch" /\ w = Last(c[g].windows)
                            ELSE w \in ToSet(c[g].windows)
    BY <1>10, <2>2 DEF Owes
  <2>4. \A t, w : Owes(r, t, w) <=>
                    \/ e.task = t /\ w \in ToSet(e.windows)
                    \/ t = group.task /\ w = Last(z)
                    \/ \E g \in DOMAIN c : g # 1 /\ c[g].task = t /\ w \in ToSet(c[g].windows)
    BY ZenonT(60), <1>14, <2>3
  <2>5. \A t, w : Owes(r, t, w) <=> Owes(q, t, w)
    BY <1>4, <1>5, <1>15, <1>17, <2>4
  <2>6. ASSUME NEW g \in DOMAIN c, e.task = c[g].task
        PROVE  g = 1 /\ \A x \in ToSet(e.windows) : x < Last(c[g].windows)
    <3>1. c[g].task = c[1].task
      BY <1>1, <1>5, <1>17, <2>6
    <3>2. g = 1
      BY <1>1, <1>11, <3>1
    <3> QED
      BY <1>1, <1>4, <1>5, <1>17, <3>2 DEF z
  <2>7. Ordered(r)
    <3>1. Ascending(e.windows)
      BY <1>4, <1>5, <1>17
    <3> QED
      BY <1>10, <1>11, <1>12, <1>13, <2>2, <2>6, <3>1 DEF Ordered
  <2> QED
    BY <2>2, <2>5, <2>7
<1> QED
  BY <1>16, <1>17

\* A group that is left takes what its task was owed along.
Left(q, r) ==
    /\ q.pc \in {"book", "launch", "spawn"} /\ q.book = <<>> /\ q.groups \in Seq(Batch)
    /\ q.groups # <<>> /\ Ordered(q)
    /\ r.pc = "book" /\ r.book = <<>> /\ r.groups = Tail(q.groups)

LEMMA GroupLeft ==
  ASSUME NEW q, NEW r, Left(q, r)
  PROVE  /\ r.groups \in Seq(Batch) /\ Ordered(r)
         /\ \A t, w : Owes(r, t, w) <=> Owes(q, t, w) /\ t # Head(q.groups).task
         /\ \A g \in DOMAIN r.groups :
                /\ r.groups[g].task # Head(q.groups).task
                /\ \E h \in DOMAIN q.groups : r.groups[g].task = q.groups[h].task
<1> USE DEF Left
<1> DEFINE c == q.groups
           d == r.groups
<1>1. /\ Head(c) = c[1] /\ c[1] \in Batch /\ 1 \in DOMAIN c /\ Len(c) \in Nat
      /\ DOMAIN c = 1..Len(c) /\ Tail(c) \in Seq(Batch) /\ DOMAIN Tail(c) = 1..(Len(c) - 1)
      /\ \A i \in DOMAIN Tail(c) : i + 1 \in DOMAIN c /\ Tail(c)[i] = c[i + 1] /\ i + 1 > 1
      /\ \A i \in DOMAIN c : i # 1 => i - 1 \in DOMAIN Tail(c) /\ c[i] = Tail(c)[i - 1]
  BY FirstAndRest
<1>2. d = Tail(c) /\ r.pc = "book" /\ r.book = <<>> /\ q.book = <<>>
  OBVIOUS
<1>3. /\ \A g, h \in DOMAIN c : c[g].task = c[h].task => g = h
      /\ \A g \in DOMAIN c : Ascending(c[g].windows)
  BY DEF Ordered
<1>4. DOMAIN <<>> = {}
  OBVIOUS
<1>5. \A t, w : Owes(q, t, w) <=> \E g \in DOMAIN c :
                   /\ c[g].task = t
                   /\ IF q.pc \in {"launch", "spawn"} /\ g = 1
                      THEN q.pc = "launch" /\ w = Last(c[g].windows)
                      ELSE w \in ToSet(c[g].windows)
  BY <1>4 DEF Owes
<1>6. \A t, w : Owes(r, t, w) <=> \E g \in DOMAIN d : d[g].task = t /\ w \in ToSet(d[g].windows)
  BY <1>4 DEF Owes
<1> HIDE DEF c, d
<1>7. \A i \in DOMAIN d : i + 1 \in DOMAIN c /\ d[i] = c[i + 1] /\ i + 1 # 1 /\ i \in Nat
  BY <1>1, <1>2
<1>8. \A i \in DOMAIN c : i # 1 => i - 1 \in DOMAIN d /\ c[i] = d[i - 1]
  BY <1>1, <1>2
<1>9. \A g \in DOMAIN d : d[g].task # c[1].task
  BY <1>1, <1>3, <1>7
<1>10. ASSUME NEW t, NEW w PROVE Owes(r, t, w) <=> Owes(q, t, w) /\ t # c[1].task
  <2>1. ASSUME Owes(r, t, w) PROVE Owes(q, t, w) /\ t # c[1].task
    <3>1. PICK g \in DOMAIN d : d[g].task = t /\ w \in ToSet(d[g].windows)
      BY <1>6, <2>1
    <3>2. g + 1 \in DOMAIN c /\ c[g + 1] = d[g] /\ g + 1 # 1
      BY <1>7
    <3> QED
      BY <1>5, <1>9, <3>1, <3>2
  <2>2. ASSUME Owes(q, t, w), t # c[1].task PROVE Owes(r, t, w)
    <3>1. PICK g \in DOMAIN c : g # 1 /\ c[g].task = t /\ w \in ToSet(c[g].windows)
      BY <1>5, <2>2
    <3> QED
      BY <1>6, <1>8, <3>1
  <2> QED
    BY <2>1, <2>2
<1>11. Ordered(r)
  <2>1. \A g \in DOMAIN d : Ascending(d[g].windows)
    BY <1>3, <1>7
  <2>2. ASSUME NEW g \in DOMAIN d, NEW h \in DOMAIN d, d[g].task = d[h].task PROVE g = h
    <3>1. g + 1 = h + 1
      BY <1>3, <1>7, <2>2
    <3> QED
      BY <1>7, <3>1
  <2> QED
    BY <1>2, <1>4, <2>1, <2>2 DEF Ordered, d
<1> QED
  BY <1>1, <1>2, <1>7, <1>9, <1>10, <1>11 DEF c, d

\* r is q after the launched window v of t0 was booked.
LatestBooked(q, r, t0, v) ==
    /\ q.pc = "launch" /\ q.book = <<>> /\ q.groups \in Seq(Batch) /\ q.groups # <<>> /\ Ordered(q)
    /\ t0 = Head(q.groups).task /\ v = Last(Head(q.groups).windows)
    /\ r.pc = "spawn" /\ r.book = <<>> /\ r.groups = q.groups

\* The latest window of a group is all that its task is owed when it is launched.
LEMMA LatestLeft ==
  ASSUME NEW q, NEW r, NEW t0, NEW v, LatestBooked(q, r, t0, v)
  PROVE  /\ Ordered(r) /\ t0 \in TaskIds /\ v \in 1..MaxTime
         /\ \A w : Owes(q, t0, w) <=> w = v
         /\ \A t, w : Owes(r, t, w) <=> Owes(q, t, w) /\ t # t0
<1> USE DEF LatestBooked
<1> DEFINE c == q.groups
<1>1. Head(c) = c[1] /\ c[1] \in Batch /\ 1 \in DOMAIN c
  BY FirstAndRest
<1>2. /\ \A g, h \in DOMAIN c : c[g].task = c[h].task => g = h
      /\ \A g \in DOMAIN c : Ascending(c[g].windows)
      /\ c # <<>>
  BY DEF Ordered
<1>3. DOMAIN <<>> = {}
  OBVIOUS
<1>4. \A t, w : Owes(q, t, w) <=> \E g \in DOMAIN c :
                   /\ c[g].task = t
                   /\ IF g = 1 THEN w = Last(c[g].windows) ELSE w \in ToSet(c[g].windows)
  BY <1>3 DEF Owes
<1>5. \A t, w : Owes(r, t, w) <=> \E g \in DOMAIN c :
                   c[g].task = t /\ g # 1 /\ w \in ToSet(c[g].windows)
  BY <1>3 DEF Owes
<1>6. r.groups = c /\ r.book = <<>> /\ r.pc = "spawn" /\ t0 = c[1].task /\ v = Last(c[1].windows)
  BY <1>1
<1>7. t0 \in TaskIds /\ v \in 1..MaxTime
  <2>1. c[1].windows \in Seq(1..MaxTime) /\ c[1].windows # <<>> /\ c[1].task \in TaskIds
    BY <1>1 DEF Batch, WindowLists
  <2> DEFINE z == c[1].windows
  <2> HIDE DEF z
  <2>2. Last(z) \in 1..MaxTime
    BY <2>1, LastOf DEF z
  <2> QED
    BY <1>6, <2>1, <2>2 DEF z
<1> HIDE DEF c
<1>8. Ordered(r)
  BY <1>2, <1>3, <1>6 DEF Ordered
<1>9. \A w : Owes(q, t0, w) <=> w = v
  BY <1>1, <1>2, <1>4, <1>6
<1>10. \A t, w : Owes(r, t, w) <=> Owes(q, t, w) /\ t # t0
  BY <1>1, <1>2, <1>4, <1>5, <1>6
<1> QED
  BY <1>7, <1>8, <1>9, <1>10

-----------------------------------------------------------------------------
(* Types *)

Pcs == {"idle", "load", "book", "launch", "spawn"}
TickRecord == [pc : Pcs, now : 0..MaxTime, book : Seq(Batch), groups : Seq(Batch), id : Nat]
ChildRecord == [id : Nat, task : TaskIds, at : 1..MaxTime, boot : Nat, alone : BOOLEAN,
                state : {"running", "exited", "settled", "released"}]

StoreTypes ==
    /\ TasksOK
    /\ runs \in Seq(RunRecords) /\ Len(runs) <= JournalRetention
    /\ cursors \in [TaskIds -> 0..MaxTime]

ClockTypes ==
    /\ now \in 1..MaxTime /\ bootAt \in 0..MaxTime
    /\ daemon \in {"stopped", "down", "booting", "up"}
    /\ nextRun \in Nat \ {0} /\ inFlight \in [TaskIds -> 0..(nextRun - 1)]
    /\ children \in Seq(ChildRecord)
    /\ stops \in Nat /\ faults \in Nat /\ edits \in Nat

\* A tick is what it may be at its time: no later than now, with a run id that was drawn.
Proper(q) == q.now <= now /\ q.id < nextRun /\ (q.pc = "spawn" => q.id # 0)

TickTypes ==
    /\ tick \in [Ticks -> TickRecord]
    /\ \A k \in Ticks : Ordered(tick[k]) /\ Proper(tick[k])
    /\ daemon # "up" => \A k \in Ticks : tick[k].pc = "idle"

TypeInv == StoreTypes /\ ClockTypes /\ TickTypes

HistoryTypes == held \subseteq TaskRecord /\ shared \subseteq Ticks /\ outdated \subseteq TaskIds

LEMMA RecordRunTypes ==
  ASSUME runs \in Seq(RunRecords), cursors \in [TaskIds -> 0..MaxTime], NEW r \in RunRecords,
         r.at \in 0..MaxTime, RecordRun(r), TasksOK
  PROVE  /\ StoreTypes' /\ tasks' = tasks
         /\ cursors' = [cursors EXCEPT ![r.task] = Max2(@, r.at)]
<1> DEFINE all == Append(runs, r)
           n == Len(all)
           m == Max2(1, n - JournalRetention + 1)
<1>0. JournalRetention \in Nat /\ JournalRetention > 0
  BY Bounds
<1>1. all \in Seq(RunRecords) /\ n \in Nat /\ n >= 1
  <2>1. all \in Seq(RunRecords) /\ Len(all) = Len(runs) + 1 /\ Len(runs) \in Nat
    BY AppendProperties, LenProperties
  <2> QED
    BY <2>1
<1>2. runs' = SubSeq(all, m, n)
  BY DEF RecordRun
<1>3. m \in Nat /\ m >= 1 /\ m >= n - JournalRetention + 1
  BY <1>0, <1>1 DEF Max2
<1>4. \A i \in m..n : all[i] \in RunRecords
  BY <1>1, <1>3, ElementOfSeq, LenProperties
<1> HIDE DEF all, n, m
<1>5. runs' \in Seq(RunRecords) /\ Len(runs') = IF m <= n THEN n - m + 1 ELSE 0
  BY <1>1, <1>2, <1>3, <1>4, SubSeqProperties
<1>6. Len(runs') <= JournalRetention
  BY <1>0, <1>1, <1>3, <1>5
<1>7. cursors' = [cursors EXCEPT ![r.task] = Max2(@, r.at)] /\ tasks' = tasks
  BY DEF RecordRun
<1>8. cursors' \in [TaskIds -> 0..MaxTime]
  BY <1>7, Bounds DEF Max2
<1> QED
  BY <1>5, <1>6, <1>7, <1>8 DEF StoreTypes, TasksOK

LEMMA TickSet ==
  ASSUME tick \in [Ticks -> TickRecord], NEW k \in Ticks, NEW e \in TickRecord, Set(k, e)
  PROVE  /\ tick' \in [Ticks -> TickRecord] /\ tick'[k] = e
         /\ \A j \in Ticks : j # k => tick'[j] = tick[j]
  BY DEF Set

LEMMA IdleTyped ==
  /\ IdleTick \in TickRecord /\ IdleTick.pc = "idle" /\ IdleTick.now = 0 /\ IdleTick.id = 0
  /\ IdleTick.book = <<>> /\ IdleTick.groups = <<>>
  BY Bounds DEF IdleTick, TickRecord, Pcs

\* What has neither a list nor groups is in order and owes nothing.
LEMMA Empty ==
  ASSUME NEW q, q.book = <<>>, q.groups = <<>>, q.pc \notin {"launch", "spawn"}
  PROVE  Ordered(q) /\ \A t, w : ~Owes(q, t, w)
<1>1. DOMAIN <<>> = {}
  OBVIOUS
<1> QED
  BY <1>1 DEF Ordered, Owes

LEMMA OwesTyped ==
  ASSUME NEW q \in TickRecord, NEW t, NEW w, Owes(q, t, w)
  PROVE  t \in TaskIds /\ w \in 1..MaxTime
<1>1. q.book \in Seq(Batch) /\ q.groups \in Seq(Batch)
  BY DEF TickRecord
<1>2. ASSUME NEW b \in Batch, NEW x \in ToSet(b.windows) PROVE x \in 1..MaxTime
  <2> DEFINE u == b.windows
             S == 1..MaxTime
  <2>1. u \in Seq(S)
    BY DEF Batch, WindowLists
  <2> HIDE DEF u, S
  <2>2. PICK i \in DOMAIN u : x = u[i]
    BY DEF ToSet, u
  <2>3. u[i] \in S
    BY <2>1, ElementOfSeq, LenProperties
  <2> QED
    BY <2>2, <2>3 DEF S
<1>3. ASSUME NEW b \in Batch PROVE Last(b.windows) \in ToSet(b.windows) /\ b.task \in TaskIds
  <2> DEFINE u == b.windows
  <2>1. u \in Seq(1..MaxTime) /\ u # <<>> /\ b.task \in TaskIds
    BY DEF Batch, WindowLists
  <2> HIDE DEF u
  <2>2. Last(u) \in ToSet(u)
    BY <2>1, LastOf
  <2> QED
    BY <2>1, <2>2 DEF u
<1>4. CASE \E i \in DOMAIN q.book : q.book[i].task = t /\ w \in ToSet(q.book[i].windows)
  <2>1. PICK i \in DOMAIN q.book : q.book[i].task = t /\ w \in ToSet(q.book[i].windows)
    BY <1>4
  <2>2. q.book[i] \in Batch
    BY <1>1, ElementOfSeq, LenProperties
  <2> QED
    BY <1>2, <1>3, <2>1, <2>2
<1>5. CASE \E g \in DOMAIN q.groups : q.groups[g].task = t /\ (w \in ToSet(q.groups[g].windows) \/ w = Last(q.groups[g].windows))
  <2>1. PICK g \in DOMAIN q.groups : q.groups[g].task = t /\ (w \in ToSet(q.groups[g].windows) \/ w = Last(q.groups[g].windows))
    BY <1>5
  <2>2. q.groups[g] \in Batch
    BY <1>1, ElementOfSeq, LenProperties
  <2> QED
    BY <1>2, <1>3, <2>1, <2>2
<1> QED
  BY <1>4, <1>5 DEF Owes

-----------------------------------------------------------------------------
(* The steps of a tick, as the tick sees them *)

\* Only tick k changes, and it keeps its type.
Alone(k) ==
    /\ tick' \in [Ticks -> TickRecord]
    /\ \A j \in Ticks : j # k => tick'[j] = tick[j]

\* The tick keeps its time.
Same(k) == Alone(k) /\ tick'[k].now = tick[k].now /\ tick'[k].id = tick[k].id

LEMMA DoStart ==
  ASSUME TypeInv, NEW k \in Ticks, StartTick(k)
  PROVE  /\ Alone(k) /\ tick'[k].pc = "load" /\ tick'[k].now = now /\ tick'[k].id = 0
         /\ tick'[k].book = <<>> /\ tick'[k].groups = <<>>
<1> DEFINE e == [IdleTick EXCEPT !.pc = "load", !.now = now]
<1>1. e \in TickRecord /\ e.pc = "load" /\ e.now = now /\ e.id = 0 /\ e.book = <<>> /\ e.groups = <<>>
  <2>1. now \in 0..MaxTime
    BY Bounds DEF TypeInv, ClockTypes
  <2> QED
    BY <2>1, IdleTyped DEF TickRecord, Pcs
<1>2. Set(k, e)
  BY DEF StartTick
<1> HIDE DEF e
<1> QED
  BY <1>1, <1>2, TickSet DEF TypeInv, TickTypes, Alone

LEMMA DoEvaluate ==
  ASSUME TypeInv, NEW k \in Ticks, Evaluate(k)
  PROVE  /\ Same(k) /\ tick[k].pc = "load" /\ tick'[k].pc = "book"
         /\ tick'[k].book = Plan(tick[k].now).book /\ tick'[k].groups = Plan(tick[k].now).groups
         /\ Ordered(tick'[k])
<1> DEFINE q == tick[k]
           P == Plan(q.now)
           e == [q EXCEPT !.pc = "book", !.book = P.book, !.groups = P.groups]
<1>1. q \in TickRecord /\ tick \in [Ticks -> TickRecord]
  BY DEF TypeInv, TickTypes
<1>2. Set(k, e) /\ q.pc = "load"
  BY DEF Evaluate
<1>3. /\ e.pc = "book" /\ e.book = P.book /\ e.groups = P.groups /\ e.now = q.now /\ e.id = q.id
      /\ (e.book \in Seq(Batch) /\ e.groups \in Seq(Batch)) => e \in TickRecord
  <2> HIDE DEF q, P
  <2> QED
    BY <1>1 DEF TickRecord, Pcs
<1>4. q.now \in 0..MaxTime /\ cursors \in [TaskIds -> 0..MaxTime] /\ bootAt \in 0..MaxTime /\ TasksOK
  BY <1>1 DEF TypeInv, StoreTypes, ClockTypes, TickRecord
<1> HIDE DEF e
<1>5. e.book \in Seq(Batch) /\ e.groups \in Seq(Batch) /\ Ordered(e)
  <2> HIDE DEF q
  <2> QED
    BY <1>3, <1>4, PlanInOrder DEF P
<1>6. Alone(k) /\ tick'[k] = e
  BY SMTT(40), <1>1, <1>2, <1>3, <1>5, TickSet DEF Alone
<1> QED
  BY <1>2, <1>3, <1>5, <1>6 DEF Same

LEMMA DoBook ==
  ASSUME TypeInv, NEW k \in Ticks, Book(k), NEW t0, NEW v,
         t0 = Head(tick[k].book).task, v = Head(Head(tick[k].book).windows)
  PROVE  /\ Same(k) /\ tick[k].pc \in {"book", "launch"} /\ tick'[k].pc = tick[k].pc
         /\ tick'[k].groups = tick[k].groups /\ Ordered(tick'[k])
         /\ t0 \in TaskIds /\ v \in 1..MaxTime /\ Owes(tick[k], t0, v)
         /\ \A t, w : Owes(tick'[k], t, w) <=> Owes(tick[k], t, w) /\ ~(t = t0 /\ w = v)
         /\ \A w : Owes(tick[k], t0, w) => w = v \/ w > v
         /\ StoreTypes' /\ tasks' = tasks /\ cursors' = [cursors EXCEPT ![t0] = Max2(@, v)]
<1> DEFINE q == tick[k]
           b == q.book
           p == Popped(b)
           e == [q EXCEPT !.book = p]
           batch == Head(b)
<1>1. /\ q \in TickRecord /\ tick \in [Ticks -> TickRecord] /\ Ordered(q)
      /\ q.book \in Seq(Batch) /\ q.groups \in Seq(Batch)
  BY DEF TypeInv, TickTypes, TickRecord
<1>2. q.pc \in {"book", "launch"} /\ q.book # <<>> /\ Set(k, e)
  BY DEF Book, Popped
<1>3. /\ e.pc = q.pc /\ e.book = p /\ e.groups = q.groups /\ e.now = q.now /\ e.id = q.id
      /\ p \in Seq(Batch) => e \in TickRecord
  <2> HIDE DEF q, p
  <2> QED
    BY <1>1 DEF TickRecord, Pcs
<1>4. RecordRun(Run(nextRun, batch.task, batch.status, Head(batch.windows)))
  BY DEF Book
<1>5. t0 = batch.task /\ v = Head(batch.windows) /\ e.book = Popped(b)
  BY <1>3
<1> HIDE DEF e, p
<1>6. /\ e.book \in Seq(Batch) /\ Ordered(e) /\ v \in 1..MaxTime /\ t0 \in TaskIds
      /\ batch.status \in Statuses /\ Owes(q, t0, v)
      /\ \A t, w : Owes(e, t, w) <=> Owes(q, t, w) /\ ~(t = t0 /\ w = v)
      /\ \A w : Owes(q, t0, w) => w = v \/ w > v
  <2>1. Booked(q, e, t0, v)
    BY <1>1, <1>2, <1>3, <1>5 DEF Booked
  <2> HIDE DEF q
  <2> QED
    BY <2>1, BookLeaves
<1>7. Alone(k) /\ tick'[k] = e
  BY SMTT(40), <1>1, <1>2, <1>3, <1>5, <1>6, TickSet DEF Alone
<1> DEFINE r == Run(nextRun, t0, batch.status, v)
<1>8. r \in RunRecords /\ r.at = v /\ r.task = t0 /\ v \in 0..MaxTime /\ RecordRun(r)
  <2>1. nextRun \in Nat /\ v \in Nat /\ v \in 0..MaxTime
    BY <1>6, Bounds DEF TypeInv, ClockTypes
  <2>2. RecordRun(r)
    BY <1>4, <1>5
  <2> HIDE DEF batch
  <2> QED
    BY <1>6, <2>1, <2>2 DEF Run, RunRecords, Statuses
<1> HIDE DEF r
<1>9. /\ StoreTypes' /\ tasks' = tasks
      /\ cursors' = [cursors EXCEPT ![t0] = Max2(@, v)]
  <2>1. runs \in Seq(RunRecords) /\ cursors \in [TaskIds -> 0..MaxTime] /\ TasksOK
    BY DEF TypeInv, StoreTypes
  <2> QED
    BY <1>8, <2>1, RecordRunTypes
<1> QED
  BY <1>2, <1>3, <1>6, <1>7, <1>9 DEF Same

\* The first group of the tick
First(q) == Head(q.groups)

LEMMA DoNextGroup ==
  ASSUME TypeInv, NEW k \in Ticks, NextGroup(k)
  PROVE  /\ Same(k) /\ tick[k].pc = "book" /\ tick[k].book = <<>> /\ tick[k].groups # <<>>
         /\ Ordered(tick'[k])
         /\ \/ /\ tick'[k].pc = "book" /\ tick'[k].book = <<>> /\ tick'[k].groups = Tail(tick[k].groups)
               /\ \A t, w : Owes(tick'[k], t, w) <=> Owes(tick[k], t, w) /\ t # First(tick[k]).task
               /\ \A g \in DOMAIN tick'[k].groups : \E h \in DOMAIN tick[k].groups :
                      tick'[k].groups[g].task = tick[k].groups[h].task
            \/ /\ tick'[k].pc = "launch" /\ tick'[k].groups = tick[k].groups
               /\ \A t, w : Owes(tick'[k], t, w) <=> Owes(tick[k], t, w)
<1> DEFINE q == tick[k]
           c == q.groups
           group == Head(c)
           e1 == [q EXCEPT !.groups = Tail(c)]
           x == IF Len(group.windows) = 1 THEN <<>>
                ELSE <<[group EXCEPT !.status = "missed", !.windows = Front(@)]>>
           e2 == [q EXCEPT !.pc = "launch", !.book = x]
<1>1. /\ q \in TickRecord /\ tick \in [Ticks -> TickRecord] /\ Ordered(q)
      /\ q.book \in Seq(Batch) /\ q.groups \in Seq(Batch)
  BY DEF TypeInv, TickTypes, TickRecord
<1>2. q.pc = "book" /\ q.book = <<>> /\ c # <<>> /\ (Set(k, e1) \/ Set(k, e2))
  BY DEF NextGroup
<1>3. /\ e1.pc = q.pc /\ e1.book = q.book /\ e1.groups = Tail(c) /\ e1.now = q.now /\ e1.id = q.id
      /\ e1.groups \in Seq(Batch) => e1 \in TickRecord
  <2> HIDE DEF q
  <2> QED
    BY <1>1 DEF TickRecord, Pcs
<1>4. /\ e2.pc = "launch" /\ e2.book = x /\ e2.groups = c /\ e2.now = q.now /\ e2.id = q.id
      /\ e2.book \in Seq(Batch) => e2 \in TickRecord
  <2> HIDE DEF q, x
  <2> QED
    BY <1>1 DEF TickRecord, Pcs
<1> HIDE DEF e1, e2, q
<1>5. CASE Set(k, e1)
  <2>1. /\ e1.groups \in Seq(Batch) /\ Ordered(e1)
        /\ \A t, w : Owes(e1, t, w) <=> Owes(q, t, w) /\ t # Head(q.groups).task
        /\ \A g \in DOMAIN e1.groups :
                /\ e1.groups[g].task # Head(q.groups).task
                /\ \E h \in DOMAIN q.groups : e1.groups[g].task = q.groups[h].task
    <3>1. Left(q, e1)
      BY <1>1, <1>2, <1>3 DEF Left
    <3> QED
      BY <3>1, GroupLeft
  <2>2. Alone(k) /\ tick'[k] = e1
    BY <1>1, <1>3, <1>5, <2>1, TickSet DEF Alone
  <2> QED
    BY <1>2, <1>3, <2>1, <2>2 DEF Same, q, First
<1>6. CASE Set(k, e2)
  <2>1. e2.book \in Seq(Batch) /\ Ordered(e2) /\ \A t, w : Owes(e2, t, w) <=> Owes(q, t, w)
    BY <1>1, <1>2, <1>4, GroupTaken
  <2>2. Alone(k) /\ tick'[k] = e2
    BY <1>1, <1>4, <1>6, <2>1, TickSet DEF Alone
  <2> QED
    BY <1>2, <1>4, <2>1, <2>2 DEF Same, q
<1> QED
  BY <1>2, <1>5, <1>6

\* Window v of t0, the one that the tick launches, is booked.
LaunchBooked(k, t0, v) ==
    /\ tick[k].pc = "launch" /\ tick[k].book = <<>>
    /\ t0 = First(tick[k]).task /\ v = Last(First(tick[k]).windows)
    /\ \E status \in Statuses : RecordRun(Run(nextRun, Launching(k).task, status, Launching(k).at))

\* The window that is launched is booked ...
LEMMA DoRecordLatest ==
  ASSUME TypeInv, NEW k \in Ticks, NEW t0, NEW v, LaunchBooked(k, t0, v)
  PROVE  /\ t0 \in TaskIds /\ v \in 1..MaxTime /\ tick[k].groups # <<>>
         /\ \A w : Owes(tick[k], t0, w) <=> w = v
         /\ StoreTypes' /\ tasks' = tasks /\ cursors' = [cursors EXCEPT ![t0] = Max2(@, v)]
<1> DEFINE q == tick[k]
           r0 == [q EXCEPT !.pc = "spawn"]
<1>0. /\ tick[k].pc = "launch" /\ tick[k].book = <<>>
      /\ t0 = First(tick[k]).task /\ v = Last(First(tick[k]).windows)
  BY DEF LaunchBooked
<1>9. PICK status \in Statuses : RecordRun(Run(nextRun, Launching(k).task, status, Launching(k).at))
  BY DEF LaunchBooked
<1>1. q \in TickRecord /\ Ordered(q) /\ q.book \in Seq(Batch) /\ q.groups \in Seq(Batch)
  BY DEF TypeInv, TickTypes, TickRecord
<1>2. q.groups # <<>> /\ q.pc = "launch" /\ q.book = <<>>
  BY <1>0, <1>1 DEF Ordered
<1>3. t0 = Head(q.groups).task /\ v = Last(Head(q.groups).windows)
  BY <1>0 DEF First
<1>4. r0.pc = "spawn" /\ r0.book = <<>> /\ r0.groups = q.groups
  <2> HIDE DEF q
  <2> QED
    BY <1>1, <1>2 DEF TickRecord
<1> HIDE DEF r0
<1>5. t0 \in TaskIds /\ v \in 1..MaxTime /\ \A w : Owes(q, t0, w) <=> w = v
  <2>1. LatestBooked(q, r0, t0, v)
    BY <1>1, <1>2, <1>3, <1>4 DEF LatestBooked
  <2> HIDE DEF q
  <2> QED
    BY <2>1, LatestLeft
<1> DEFINE r == Run(nextRun, t0, status, v)
<1>6. r \in RunRecords /\ r.at = v /\ r.task = t0 /\ v \in 0..MaxTime
  <2>1. nextRun \in Nat /\ v \in Nat /\ v \in 0..MaxTime
    BY <1>5, Bounds DEF TypeInv, ClockTypes
  <2> QED
    BY <1>5, <2>1 DEF Run, RunRecords, Statuses
<1>7. RecordRun(r)
  BY <1>0, <1>9 DEF Launching, First
<1> HIDE DEF r
<1>8. /\ StoreTypes' /\ tasks' = tasks
      /\ cursors' = [cursors EXCEPT ![t0] = Max2(@, v)]
  <2>1. runs \in Seq(RunRecords) /\ cursors \in [TaskIds -> 0..MaxTime] /\ TasksOK
    BY DEF TypeInv, StoreTypes
  <2> QED
    BY <1>6, <1>7, <2>1, RecordRunTypes
<1> QED
  BY <1>2, <1>5, <1>8

\* ... and its group is over, or waits for its spawn.
LEMMA DoLeave ==
  ASSUME TypeInv, NEW k \in Ticks, RejectLaunch(k) \/ Spawn(k)
  PROVE  /\ Alone(k) /\ tick'[k].now = tick[k].now /\ tick'[k].id \in {tick[k].id, 0}
         /\ tick[k].pc \in {"launch", "spawn"} /\ tick[k].groups # <<>> /\ tick[k].book = <<>>
         /\ tick'[k].pc = "book" /\ tick'[k].book = <<>> /\ Ordered(tick'[k])
         /\ \A t, w : Owes(tick'[k], t, w) <=> Owes(tick[k], t, w) /\ t # First(tick[k]).task
         /\ \A g \in DOMAIN tick'[k].groups :
                /\ tick'[k].groups[g].task # First(tick[k]).task
                /\ \E h \in DOMAIN tick[k].groups : tick'[k].groups[g].task = tick[k].groups[h].task
<1> DEFINE q == tick[k]
           c == q.groups
           e1 == [q EXCEPT !.pc = "book", !.groups = Tail(c)]
           e2 == [q EXCEPT !.pc = "book", !.groups = Tail(c), !.id = 0]
<1>1. /\ q \in TickRecord /\ tick \in [Ticks -> TickRecord] /\ Ordered(q)
      /\ q.book \in Seq(Batch) /\ q.groups \in Seq(Batch)
  BY DEF TypeInv, TickTypes, TickRecord
<1>2. q.pc \in {"launch", "spawn"} /\ (Set(k, e1) \/ Set(k, e2))
  BY DEF RejectLaunch, Spawn
<1>3. q.book = <<>>
  BY <1>1 DEF RejectLaunch, Spawn, Ordered
<1>4. c # <<>>
  BY <1>1, <1>2 DEF Ordered
<1>5. \A e \in {e1, e2} : /\ e.pc = "book" /\ e.book = q.book /\ e.groups = Tail(c) /\ e.now = q.now
                          /\ e.id \in {q.id, 0} /\ (e.groups \in Seq(Batch) => e \in TickRecord)
  <2> HIDE DEF q
  <2>1. /\ e1.pc = "book" /\ e1.book = q.book /\ e1.groups = Tail(c) /\ e1.now = q.now
        /\ e1.id = q.id /\ (e1.groups \in Seq(Batch) => e1 \in TickRecord)
    BY <1>1 DEF TickRecord, Pcs
  <2>2. /\ e2.pc = "book" /\ e2.book = q.book /\ e2.groups = Tail(c) /\ e2.now = q.now
        /\ e2.id = 0 /\ (e2.groups \in Seq(Batch) => e2 \in TickRecord)
    BY <1>1 DEF TickRecord, Pcs
  <2> HIDE DEF e1, e2
  <2> QED
    BY <2>1, <2>2
<1>6. PICK e \in {e1, e2} : Set(k, e)
  BY <1>2
<1> HIDE DEF e1, e2, q
<1>7. /\ e.pc = "book" /\ e.book = <<>> /\ e.groups = Tail(c) /\ e.now = q.now
      /\ e.id \in {q.id, 0} /\ (e.groups \in Seq(Batch) => e \in TickRecord)
  BY <1>3, <1>5
<1>8. /\ e.groups \in Seq(Batch) /\ Ordered(e)
      /\ \A t, w : Owes(e, t, w) <=> Owes(q, t, w) /\ t # Head(q.groups).task
      /\ \A g \in DOMAIN e.groups :
              /\ e.groups[g].task # Head(q.groups).task
              /\ \E h \in DOMAIN q.groups : e.groups[g].task = q.groups[h].task
  <2>1. Left(q, e)
    BY <1>1, <1>2, <1>3, <1>4, <1>7 DEF Left
  <2> QED
    BY <2>1, GroupLeft
<1>9. Alone(k) /\ tick'[k] = e
  BY <1>1, <1>6, <1>7, <1>8, TickSet DEF Alone
<1> QED
  BY <1>2, <1>3, <1>4, <1>7, <1>8, <1>9 DEF q, First

LEMMA DoRecordLaunch ==
  ASSUME TypeInv, NEW k \in Ticks, RecordLaunch(k)
  PROVE  /\ Alone(k) /\ tick'[k].now = tick[k].now /\ tick'[k].id = nextRun
         /\ tick'[k].pc = "spawn" /\ tick'[k].groups = tick[k].groups /\ Ordered(tick'[k])
         /\ \A t, w : Owes(tick'[k], t, w) <=> Owes(tick[k], t, w) /\ t # First(tick[k]).task
<1> DEFINE q == tick[k]
           e == [q EXCEPT !.pc = "spawn", !.id = nextRun]
<1>1. /\ q \in TickRecord /\ tick \in [Ticks -> TickRecord] /\ Ordered(q)
      /\ q.book \in Seq(Batch) /\ q.groups \in Seq(Batch) /\ nextRun \in Nat
  BY DEF TypeInv, TickTypes, TickRecord, ClockTypes
<1>2. q.pc = "launch" /\ q.book = <<>> /\ Set(k, e)
  BY DEF RecordLaunch
<1>3. q.groups # <<>>
  BY <1>1, <1>2 DEF Ordered
<1>4. /\ e.pc = "spawn" /\ e.book = <<>> /\ e.groups = q.groups /\ e.now = q.now /\ e.id = nextRun
      /\ e \in TickRecord
  <2> HIDE DEF q
  <2> QED
    BY <1>1, <1>2 DEF TickRecord, Pcs
<1> HIDE DEF e, q
<1> DEFINE t0 == Head(q.groups).task
           v == Last(Head(q.groups).windows)
<1>5. t0 = Head(q.groups).task /\ v = Last(Head(q.groups).windows)
  OBVIOUS
<1> HIDE DEF t0, v
<1>6. Ordered(e) /\ \A t, w : Owes(e, t, w) <=> Owes(q, t, w) /\ t # t0
  <2>1. LatestBooked(q, e, t0, v)
    BY <1>1, <1>2, <1>3, <1>4, <1>5 DEF LatestBooked
  <2> QED
    BY <2>1, LatestLeft
<1>7. Alone(k) /\ tick'[k] = e
  BY <1>1, <1>2, <1>4, TickSet DEF Alone
<1> QED
  BY <1>4, <1>5, <1>6, <1>7 DEF q, First

LEMMA DoEnd ==
  ASSUME TypeInv, NEW k \in Ticks, EndTick(k) \/ TickFails(k)
  PROVE  Alone(k) /\ tick'[k] = IdleTick
<1>1. Set(k, IdleTick) /\ tick \in [Ticks -> TickRecord]
  BY DEF EndTick, TickFails, TypeInv, TickTypes
<1> QED
  BY <1>1, IdleTyped, TickSet DEF Alone

-----------------------------------------------------------------------------
(* The inductive invariant *)

\* The present daemon has still to book the end of this run.
Active(i) == children[i].boot = stops /\ children[i].state # "released"

\* Ticks that are under way together know it.
SharedInv ==
    \A j, k \in Ticks : j # k /\ tick[j].pc # "idle" /\ tick[k].pc # "idle" => j \in shared

\* A task whose runs were launched by ticks that did not overlap is in flight while a run of
\* it is active, it has one such run, and no tick that is alone has a group for it.
RunInv ==
    /\ \A i \in DOMAIN children :
           /\ children[i].boot <= stops
           /\ children[i].state \in {"exited", "settled"} => children[i].boot = stops
           /\ Active(i) /\ Clean(children[i].task) => inFlight[children[i].task] # 0
    /\ \A i, j \in DOMAIN children :
           /\ Active(i) /\ Active(j) /\ children[i].task = children[j].task
           /\ Clean(children[i].task)
           => i = j
    /\ \A k \in Ticks \ shared : \A g \in DOMAIN tick[k].groups :
           Clean(tick[k].groups[g].task) => inFlight[tick[k].groups[g].task] = 0

\* No window of t up to w is evaluated again: they are before the cursor, or before the
\* creation of the task that took the place of a removed one.
Past(t, w) ==
    /\ cursors[t] # 0 => w <= cursors[t]
    /\ cursors[t] = 0 => \A j \in DOMAIN tasks : tasks[j].id = t => w <= tasks[j].createdAt

\* Every run of t that a tick launched alone is of a window before w.
Later(t, w) ==
    \A i \in DOMAIN children :
        children[i].task = t /\ children[i].alone => children[i].at < w

\* What ran is past, ...
Done(i) ==
    /\ children[i].at <= now
    /\ children[i].alone /\ children[i].task \notin outdated
       => Past(children[i].task, children[i].at)

\* ... what a tick owes is not, ...
Due(k, t, w) ==
    /\ w <= tick[k].now
    /\ t \notin outdated => Later(t, w)
    /\ t \notin outdated /\ k \notin shared => w > cursors[t]

\* ... and a booked launch is between the two.
Launched(k) ==
    /\ Launching(k).at <= now
    /\ Launching(k).task \notin outdated => Later(Launching(k).task, Launching(k).at)
    /\ Launching(k).task \notin outdated /\ k \notin shared
       => Past(Launching(k).task, Launching(k).at)

WindowInv ==
    /\ \A i \in DOMAIN children : Done(i)
    /\ WindowRunsOnce
    /\ \A k \in Ticks, t \in TaskIds, w \in 1..MaxTime : Owes(tick[k], t, w) => Due(k, t, w)
    /\ \A k \in Ticks : tick[k].pc = "spawn" => Launched(k)

\* Every point of the schedule between v and w was missed or is owed by q.
Gap(q, t, v, w) ==
    \A x \in 1..MaxTime :
        v < x /\ x < w /\ (x - v) % Every = 0 => x < bootAt \/ Owes(q, t, x)

\* What lies between the cursor and a window owed by a tick that is alone, or between two of
\* them, is no gap.
GapInv ==
    \A k \in Ticks \ shared, t \in TaskIds \ outdated, w \in 1..MaxTime : Owes(tick[k], t, w) =>
        /\ cursors[t] # 0 => Gap(tick[k], t, cursors[t], w)
        /\ cursors[t] = 0 => \A j \in DOMAIN tasks :
                                 tasks[j].id = t => Gap(tick[k], t, tasks[j].createdAt, w)
        /\ \A v \in 1..MaxTime : Owes(tick[k], t, v) => Gap(tick[k], t, v, w)

IInv == TypeInv /\ HistoryTypes /\ SharedInv /\ RunInv /\ WindowInv /\ GapInv

-----------------------------------------------------------------------------
(* Types are kept *)

LEMMA TicksKept ==
  ASSUME TypeInv, NEW k \in Ticks, Alone(k), Ordered(tick'[k]), daemon = "up", daemon' = "up",
         now' = now, nextRun' \in Nat, nextRun' >= nextRun, tick'[k].now <= now,
         tick'[k].id < nextRun', tick'[k].pc = "spawn" => tick'[k].id # 0
  PROVE  TickTypes'
<1>1. /\ tick \in [Ticks -> TickRecord] /\ nextRun \in Nat
      /\ \A j \in Ticks : Ordered(tick[j]) /\ Proper(tick[j]) /\ tick[j].id \in Nat
  BY DEF TypeInv, TickTypes, TickRecord, ClockTypes
<1>2. \A j \in Ticks : /\ Ordered(tick'[j])
                       /\ tick'[j].now <= now /\ tick'[j].id < nextRun'
                       /\ tick'[j].pc = "spawn" => tick'[j].id # 0
  <2> SUFFICES ASSUME NEW j \in Ticks, j # k
               PROVE  /\ Ordered(tick[j]) /\ tick[j].now <= now /\ tick[j].id < nextRun'
                      /\ tick[j].pc = "spawn" => tick[j].id # 0
    BY DEF Alone
  <2> QED
    BY <1>1 DEF Proper
<1> QED
  BY <1>2 DEF TickTypes, Proper, Alone

LEMMA WorkingUp ==
  ASSUME TypeInv, NEW k \in Ticks, StartTick(k) \/ TickStep(k)
  PROVE  daemon = "up" /\ daemon' = "up"
<1>1. tick[k].pc # "idle" => daemon = "up"
  BY DEF TypeInv, TickTypes
<1>2. CASE StartTick(k)
  BY <1>2 DEF StartTick
<1>3. CASE TickStep(k)
  BY <1>1, <1>3 DEF TickStep, Evaluate, Book, NextGroup, RejectLaunch, RecordLaunch, Spawn, EndTick,
     TickFails
<1> QED
  BY <1>2, <1>3

\* The steps that book nothing and draw no id
LEMMA TypeTickQuiet ==
  ASSUME TypeInv, NEW k \in Ticks,
         StartTick(k) \/ Evaluate(k) \/ NextGroup(k) \/ EndTick(k) \/ TickFails(k)
  PROVE  TypeInv'
<1>1. /\ UNCHANGED <<now, tasks, runs, cursors, bootAt, inFlight, children, nextRun, stops, edits>>
      /\ faults' \in {faults, faults + 1}
  BY DEF StartTick, Evaluate, NextGroup, EndTick, TickFails, store, counters
<1>2. daemon = "up" /\ daemon' = "up"
  BY WorkingUp DEF TickStep
<1>3. StoreTypes' /\ ClockTypes'
  <2>1. StoreTypes'
    BY <1>1 DEF TypeInv, StoreTypes, TasksOK
  <2>2. faults' \in Nat
    BY <1>1 DEF TypeInv, ClockTypes
  <2> QED
    BY <1>1, <1>2, <2>1, <2>2 DEF TypeInv, ClockTypes
<1>4. /\ nextRun' \in Nat /\ nextRun' >= nextRun /\ now' = now /\ nextRun' > 0
      /\ tick[k].now <= now /\ tick[k].id < nextRun' /\ now \in Nat /\ now >= 0
  BY <1>1, Bounds DEF TypeInv, ClockTypes, TickTypes, Proper
<1>5. Alone(k) /\ Ordered(tick'[k]) /\ tick'[k].now <= now /\ tick'[k].id < nextRun' /\ tick'[k].pc # "spawn"
  <2>1. CASE StartTick(k)
    <3>1. /\ Alone(k) /\ tick'[k].pc = "load" /\ tick'[k].now = now /\ tick'[k].id = 0
          /\ tick'[k].book = <<>> /\ tick'[k].groups = <<>>
      BY <2>1, DoStart
    <3>2. Ordered(tick'[k])
      BY <3>1, Empty
    <3> QED
      BY <1>4, <3>1, <3>2
  <2>2. CASE Evaluate(k)
    BY <1>4, <2>2, DoEvaluate DEF Same
  <2>3. CASE NextGroup(k)
    BY <1>4, <2>3, DoNextGroup DEF Same
  <2>4. CASE EndTick(k) \/ TickFails(k)
    <3>1. Alone(k) /\ tick'[k] = IdleTick
      BY <2>4, DoEnd
    <3>2. Ordered(IdleTick)
      BY IdleTyped, Empty
    <3> QED
      BY <1>4, <3>1, <3>2, IdleTyped
  <2> QED
    BY <2>1, <2>2, <2>3, <2>4
<1>6. TickTypes'
  BY <1>2, <1>4, <1>5, TicksKept
<1> QED
  BY <1>3, <1>6 DEF TypeInv

\* The steps that book
LEMMA TypeTickBooks ==
  ASSUME TypeInv, NEW k \in Ticks, Book(k) \/ RejectLaunch(k) \/ RecordLaunch(k)
  PROVE  TypeInv'
<1>1. /\ UNCHANGED <<now, bootAt, inFlight, children, stops, faults, edits>> /\ nextRun' = nextRun + 1
  BY DEF Book, RejectLaunch, RecordLaunch, counters
<1>2. daemon = "up" /\ daemon' = "up"
  BY WorkingUp DEF TickStep
<1>3. /\ nextRun \in Nat /\ nextRun' \in Nat \ {0} /\ nextRun' >= nextRun /\ now' = now /\ nextRun' > 0
      /\ tick[k].now <= now /\ tick[k].id < nextRun' /\ now \in Nat /\ now >= 0 /\ nextRun < nextRun'
      /\ nextRun # 0
  <2>1. nextRun \in Nat \ {0} /\ tick[k].id \in Nat /\ tick[k].id < nextRun /\ tick[k].now <= now /\ now \in Nat
    BY Bounds DEF TypeInv, ClockTypes, TickTypes, Proper, TickRecord
  <2> QED
    BY <1>1, <2>1
<1>4. ClockTypes'
  <2>1. inFlight \in [TaskIds -> 0..(nextRun' - 1)]
    BY <1>1 DEF TypeInv, ClockTypes
  <2> QED
    BY <1>1, <1>2, <1>3, <2>1 DEF TypeInv, ClockTypes
<1>5. /\ StoreTypes' /\ Alone(k) /\ Ordered(tick'[k]) /\ tick'[k].now <= now /\ tick'[k].id < nextRun'
      /\ tick'[k].pc = "spawn" => tick'[k].id # 0
  <2>1. CASE Book(k)
    <3> DEFINE t0 == Head(tick[k].book).task
               v == Head(Head(tick[k].book).windows)
    <3>1. t0 = Head(tick[k].book).task /\ v = Head(Head(tick[k].book).windows)
      OBVIOUS
    <3> HIDE DEF t0, v
    <3> QED
      BY <1>3, <2>1, <3>1, DoBook DEF Same
  <2>2. CASE RejectLaunch(k) \/ RecordLaunch(k)
    <3> DEFINE t0 == First(tick[k]).task
               v == Last(First(tick[k]).windows)
    <3>1. t0 = First(tick[k]).task /\ v = Last(First(tick[k]).windows)
      OBVIOUS
    <3>2. PICK status \in Statuses : RecordRun(Run(nextRun, Launching(k).task, status, Launching(k).at))
      BY <2>2 DEF RejectLaunch, RecordLaunch, Statuses
    <3>3. tick[k].pc = "launch" /\ tick[k].book = <<>>
      BY <2>2 DEF RejectLaunch, RecordLaunch
    <3> HIDE DEF t0, v
    <3>4. LaunchBooked(k, t0, v)
      BY <3>1, <3>2, <3>3 DEF LaunchBooked
    <3>5. StoreTypes'
      BY <3>4, DoRecordLatest
    <3>6. CASE RejectLaunch(k)
      BY <1>3, <3>5, <3>6, DoLeave
    <3>7. CASE RecordLaunch(k)
      BY <1>3, <3>5, <3>7, DoRecordLaunch
    <3> QED
      BY <2>2, <3>6, <3>7
  <2> QED
    BY <2>1, <2>2
<1>6. TickTypes'
  BY <1>2, <1>3, <1>5, TicksKept
<1> QED
  BY <1>4, <1>5, <1>6 DEF TypeInv

\* The run that Spawn adds
NewChild(k) == [id |-> tick[k].id, task |-> First(tick[k]).task, at |-> Last(First(tick[k]).windows),
                boot |-> stops, state |-> "running", alone |-> k \notin shared]

LEMMA DoSpawn ==
  ASSUME TypeInv, NEW k \in Ticks, Spawn(k)
  PROVE  /\ tick[k].pc = "spawn" /\ tick[k].id \in 1..(nextRun - 1)
         /\ First(tick[k]).task \in TaskIds /\ Last(First(tick[k]).windows) \in 1..MaxTime
         /\ inFlight' = [inFlight EXCEPT ![First(tick[k]).task] = tick[k].id]
         /\ children' = Append(children, NewChild(k)) /\ NewChild(k) \in ChildRecord
         /\ UNCHANGED <<now, tasks, runs, cursors, daemon, bootAt, nextRun, stops, faults, edits>>
<1> DEFINE q == tick[k]
           z == First(q).windows
<1>1. /\ q \in TickRecord /\ Ordered(q) /\ q.groups \in Seq(Batch) /\ q.id \in Nat
      /\ nextRun \in Nat /\ stops \in Nat /\ Proper(q)
  BY DEF TypeInv, TickTypes, TickRecord, ClockTypes
<1>2. q.pc = "spawn"
  BY DEF Spawn
<1>3. q.id \in 1..(nextRun - 1)
  BY <1>1, <1>2 DEF Proper
<1>4. q.groups # <<>>
  BY <1>1, <1>2 DEF Ordered
<1>5. First(q) \in Batch
  BY <1>1, <1>4, FirstAndRest DEF First
<1>6. First(q).task \in TaskIds /\ z \in Seq(1..MaxTime) /\ z # <<>>
  BY <1>5 DEF Batch, WindowLists
<1>7. Last(z) \in 1..MaxTime
  <2> HIDE DEF z
  <2> QED
    BY <1>6, LastOf
<1>8. NewChild(k) \in ChildRecord
  BY <1>1, <1>6, <1>7 DEF NewChild, ChildRecord
<1> QED
  BY <1>2, <1>3, <1>6, <1>7, <1>8 DEF Spawn, Launching, First, NewChild, store, counters

LEMMA TypeSpawn ==
  ASSUME TypeInv, NEW k \in Ticks, Spawn(k)
  PROVE  TypeInv'
<1>1. /\ tick[k].pc = "spawn" /\ tick[k].id \in 1..(nextRun - 1)
      /\ First(tick[k]).task \in TaskIds
      /\ inFlight' = [inFlight EXCEPT ![First(tick[k]).task] = tick[k].id]
      /\ children' = Append(children, NewChild(k)) /\ NewChild(k) \in ChildRecord
      /\ UNCHANGED <<now, tasks, runs, cursors, daemon, bootAt, nextRun, stops, faults, edits>>
  BY DoSpawn
<1>2. daemon = "up" /\ daemon' = "up"
  BY WorkingUp DEF TickStep
<1>3. children' \in Seq(ChildRecord)
  BY <1>1, AppendProperties DEF TypeInv, ClockTypes
<1>4. nextRun \in Nat \ {0} /\ inFlight' \in [TaskIds -> 0..(nextRun - 1)]
  BY <1>1 DEF TypeInv, ClockTypes
<1>5. StoreTypes'
  BY <1>1 DEF TypeInv, StoreTypes, TasksOK
<1>6. ClockTypes'
  BY <1>1, <1>3, <1>4 DEF TypeInv, ClockTypes
<1>7. /\ Alone(k) /\ Ordered(tick'[k]) /\ tick'[k].now = tick[k].now /\ tick'[k].id \in {tick[k].id, 0}
      /\ tick'[k].pc = "book"
  BY DoLeave
<1>8. tick[k].now <= now /\ tick[k].id < nextRun /\ now' = now /\ nextRun' = nextRun /\ 0 < nextRun
  BY <1>1, <1>4 DEF TypeInv, TickTypes, Proper
<1>9. TickTypes'
  <2>1. tick'[k].now <= now /\ tick'[k].id < nextRun' /\ nextRun' >= nextRun /\ nextRun' \in Nat
    BY <1>4, <1>7, <1>8
  <2> QED
    BY <1>2, <1>7, <1>8, <2>1, TicksKept
<1> QED
  BY <1>5, <1>6, <1>9 DEF TypeInv

\* updateRun() keeps the journal's type and length.
LEMMA UpdateTypes ==
  ASSUME StoreTypes, NEW id, NEW status \in Statuses, UpdateRun(id, status)
  PROVE  StoreTypes' /\ UNCHANGED <<tasks, cursors>>
<1> DEFINE n == Len(runs)
<1>1. n \in Nat /\ DOMAIN runs = 1..n /\ \A i \in 1..n : runs[i] \in RunRecords
  BY LenProperties, ElementOfSeq DEF StoreTypes
<1>2. runs' = [i \in DOMAIN runs |-> IF runs[i].id = id THEN [runs[i] EXCEPT !.status = status]
                                     ELSE runs[i]]
      /\ UNCHANGED <<tasks, cursors>>
  BY DEF UpdateRun
<1>3. \A r \in RunRecords : [r EXCEPT !.status = status] \in RunRecords
  BY DEF RunRecords, Statuses
<1>4. runs' \in [1..n -> RunRecords]
  BY <1>1, <1>2, <1>3
<1> HIDE DEF n
<1>5. runs' \in Seq(RunRecords) /\ Len(runs') = n
  BY <1>1, <1>4, SeqDef, LenProperties
<1> QED
  BY <1>2, <1>5 DEF StoreTypes, TasksOK, n

LEMMA ChildSet ==
  ASSUME children \in Seq(ChildRecord), NEW i \in DOMAIN children,
         NEW st \in {"running", "exited", "settled", "released"}, SetChild(i, st)
  PROVE  /\ children' \in Seq(ChildRecord) /\ DOMAIN children' = DOMAIN children
         /\ \A j \in DOMAIN children :
                /\ children'[j].task = children[j].task /\ children'[j].at = children[j].at
                /\ children'[j].boot = children[j].boot /\ children'[j].alone = children[j].alone
                /\ children'[j].state = IF j = i THEN st ELSE children[j].state
<1> DEFINE n == Len(children)
<1>1. n \in Nat /\ DOMAIN children = 1..n /\ children \in [1..n -> ChildRecord]
  BY LenProperties, ElementOfSeq
<1>2. children' = [children EXCEPT ![i] = [children[i] EXCEPT !.state = st]]
  BY DEF SetChild
<1> DEFINE e == [children[i] EXCEPT !.state = st]
<1>3. /\ e \in ChildRecord /\ e.task = children[i].task /\ e.at = children[i].at
      /\ e.boot = children[i].boot /\ e.alone = children[i].alone /\ e.state = st
  BY <1>1 DEF ChildRecord
<1> HIDE DEF e, n
<1>4. children' = [children EXCEPT ![i] = e]
  BY <1>2 DEF e
<1>5. children' \in [1..n -> ChildRecord]
  BY <1>1, <1>3, <1>4
<1>6. children' \in Seq(ChildRecord)
  BY <1>1, <1>5, SeqDef
<1> QED
  BY <1>1, <1>3, <1>4, <1>5, <1>6

LEMMA TicksUnchanged ==
  ASSUME TypeInv, tick' = tick, now' \in Nat, now' >= now, nextRun' = nextRun,
         daemon' # "up" => daemon # "up"
  PROVE  TickTypes'
<1>1. /\ tick \in [Ticks -> TickRecord] /\ now \in Nat
      /\ \A j \in Ticks : Ordered(tick[j]) /\ Proper(tick[j]) /\ tick[j].now \in Nat
      /\ daemon # "up" => \A j \in Ticks : tick[j].pc = "idle"
  BY Bounds DEF TypeInv, TickTypes, TickRecord, ClockTypes
<1>2. \A j \in Ticks : tick[j].now <= now'
  BY <1>1 DEF Proper
<1> QED
  BY <1>1, <1>2 DEF TickTypes, Proper

LEMMA TypeChildren ==
  ASSUME TypeInv, NEW i \in DOMAIN children, ChildExits(i) \/ Callback(i)
  PROVE  /\ TypeInv'
         /\ \E st \in {"running", "exited", "settled", "released"} : SetChild(i, st)
<1>1. children \in Seq(ChildRecord) /\ children[i] \in ChildRecord /\ now \in Nat
  BY ElementOfSeq, LenProperties, Bounds DEF TypeInv, ClockTypes
<1>2. PICK st \in {"running", "exited", "settled", "released"} : SetChild(i, st)
  <2>1. CASE ChildExits(i)
    BY <2>1 DEF ChildExits
  <2>2. CASE Release(i)
    BY <2>2 DEF Release
  <2>3. CASE \E status \in {"completed", "failed"} : Settle(i, status)
    BY <2>3 DEF Settle
  <2> QED
    BY <2>1, <2>2, <2>3 DEF Callback
<1>3. children' \in Seq(ChildRecord)
  BY <1>1, <1>2, ChildSet
<1>4. UNCHANGED <<now, daemon, bootAt, tick, nextRun, stops, edits>>
  BY DEF ChildExits, Callback, Release, Settle, counters
<1>5. faults' \in Nat
  <2>1. faults' = faults \/ faults' = faults + 1
    BY DEF ChildExits, Callback, Release, Settle, counters
  <2> QED
    BY <2>1 DEF TypeInv, ClockTypes
<1>6. inFlight' \in [TaskIds -> 0..(nextRun - 1)]
  <2>1. inFlight' = inFlight \/ inFlight' = [inFlight EXCEPT ![children[i].task] = 0]
    BY DEF ChildExits, Callback, Release, Settle
  <2> QED
    BY <2>1 DEF TypeInv, ClockTypes
<1>7. StoreTypes'
  <2>0. StoreTypes
    BY DEF TypeInv
  <2>1. CASE UNCHANGED store
    BY <2>0, <2>1 DEF store, StoreTypes, TasksOK
  <2>2. CASE \E status \in {"completed", "failed"} : UpdateRun(children[i].id, status)
    BY <2>0, <2>2, UpdateTypes DEF Statuses
  <2> QED
    BY <2>1, <2>2 DEF ChildExits, Callback, Release, Settle
<1>8. TickTypes'
  BY <1>1, <1>4, TicksUnchanged
<1> QED
  BY <1>2, <1>3, <1>4, <1>5, <1>6, <1>7, <1>8 DEF TypeInv, ClockTypes

LEMMA TypeProcess ==
  ASSUME TypeInv, Boot \/ RecoverRun \/ Booted \/ Pass \/ UNCHANGED vars
  PROVE  TypeInv'
<1>0. StoreTypes /\ now \in Nat
  BY Bounds DEF TypeInv, ClockTypes
<1>1. CASE Boot
  <2>1. /\ UNCHANGED <<now, tasks, runs, cursors, inFlight, tick, children, nextRun, stops, faults, edits>>
        /\ daemon' = "booting" /\ bootAt' = now /\ daemon # "up"
    BY <1>1 DEF Boot, store, counters
  <2>2. StoreTypes'
    BY <1>0, <2>1 DEF StoreTypes, TasksOK
  <2>3. TickTypes'
    BY <1>0, <2>1, TicksUnchanged
  <2> QED
    BY <2>1, <2>2, <2>3, Bounds DEF TypeInv, ClockTypes
<1>2. CASE RecoverRun
  <2>1. UNCHANGED <<now, daemon, bootAt, inFlight, tick, children, nextRun, stops, faults, edits>>
    BY <1>2 DEF RecoverRun, counters
  <2>2. PICK id : UpdateRun(id, "failed")
    BY <1>2 DEF RecoverRun
  <2>3. StoreTypes'
    BY <1>0, <2>2, UpdateTypes DEF Statuses
  <2>4. TickTypes'
    BY <1>0, <2>1, TicksUnchanged
  <2> QED
    BY <2>1, <2>3, <2>4 DEF TypeInv, ClockTypes
<1>3. CASE Booted
  <2>1. /\ UNCHANGED <<now, tasks, runs, cursors, bootAt, inFlight, tick, children, nextRun, stops, faults, edits>>
        /\ daemon' = "up"
    BY <1>3 DEF Booted, store, counters
  <2>2. StoreTypes'
    BY <1>0, <2>1 DEF StoreTypes, TasksOK
  <2>3. TickTypes'
    BY <1>0, <2>1, TicksUnchanged
  <2> QED
    BY <2>1, <2>2, <2>3 DEF TypeInv, ClockTypes
<1>4. CASE Pass
  <2>1. /\ UNCHANGED <<tasks, runs, cursors, daemon, bootAt, inFlight, tick, children, nextRun, stops, faults, edits>>
        /\ now' = now + 1 /\ now < MaxTime
    BY <1>4 DEF Pass, store, counters
  <2>2. StoreTypes'
    BY <1>0, <2>1 DEF StoreTypes, TasksOK
  <2>3. now' \in 1..MaxTime /\ now' \in Nat /\ now' >= now
    BY <1>0, <2>1, Bounds
  <2>4. TickTypes'
    BY <1>0, <2>1, <2>3, TicksUnchanged
  <2> QED
    BY <2>1, <2>2, <2>3, <2>4 DEF TypeInv, ClockTypes
<1>5. CASE UNCHANGED vars
  <2>1. UNCHANGED <<now, tasks, runs, cursors, daemon, bootAt, inFlight, tick, children, nextRun, stops, faults, edits>>
    BY <1>5 DEF vars, store, counters
  <2>2. StoreTypes'
    BY <1>0, <2>1 DEF StoreTypes, TasksOK
  <2>3. TickTypes'
    BY <1>0, <2>1, TicksUnchanged
  <2> QED
    BY <2>1, <2>2, <2>3 DEF TypeInv, ClockTypes
<1> QED
  BY <1>1, <1>2, <1>3, <1>4, <1>5

LEMMA DoStop ==
  ASSUME TypeInv, NEW how \in {"stopped", "down"}, Stop(how)
  PROVE  /\ children' \in Seq(ChildRecord) /\ DOMAIN children' = DOMAIN children
         /\ \A j \in DOMAIN children :
                /\ children'[j].task = children[j].task /\ children'[j].at = children[j].at
                /\ children'[j].boot = children[j].boot /\ children'[j].alone = children[j].alone
                /\ children'[j].state \in {"running", "released"}
<1> DEFINE n == Len(children)
           e(j) == [children[j] EXCEPT !.state = IF @ = "running" THEN @ ELSE "released"]
<1>1. n \in Nat /\ DOMAIN children = 1..n /\ \A j \in 1..n : children[j] \in ChildRecord
  BY LenProperties, ElementOfSeq DEF TypeInv, ClockTypes
<1>2. children' = [j \in 1..n |-> e(j)]
  BY <1>1 DEF Stop
<1>3. \A j \in 1..n : /\ e(j) \in ChildRecord /\ e(j).task = children[j].task
                      /\ e(j).at = children[j].at /\ e(j).boot = children[j].boot
                      /\ e(j).alone = children[j].alone
                      /\ e(j).state \in {"running", "released"}
  BY <1>1 DEF ChildRecord
<1> HIDE DEF e, n
<1>4. children' \in [1..n -> ChildRecord]
  BY <1>2, <1>3
<1>5. children' \in Seq(ChildRecord)
  BY <1>1, <1>4, SeqDef
<1> QED
  BY <1>1, <1>2, <1>3, <1>5

LEMMA TypeStop ==
  ASSUME TypeInv, NEW how \in {"stopped", "down"}, Stop(how)
  PROVE  TypeInv'
<1>1. /\ UNCHANGED <<now, tasks, runs, cursors, bootAt, nextRun, faults, edits>>
      /\ daemon' = how /\ stops' = stops + 1
      /\ inFlight' = [t \in TaskIds |-> 0] /\ tick' = [k \in Ticks |-> IdleTick]
  BY DEF Stop, store
<1>2. StoreTypes'
  BY <1>1 DEF TypeInv, StoreTypes, TasksOK
<1>3. children' \in Seq(ChildRecord)
  BY DoStop
<1>4. nextRun \in Nat \ {0} /\ now \in 1..MaxTime /\ stops \in Nat
  BY DEF TypeInv, ClockTypes
<1>5. ClockTypes'
  BY <1>1, <1>3, <1>4 DEF TypeInv, ClockTypes
<1>6. TickTypes'
  <2>1. Ordered(IdleTick) /\ IdleTick \in TickRecord
    BY IdleTyped, Empty
  <2>2. 0 <= now /\ 0 < nextRun
    BY <1>4, Bounds
  <2> QED
    BY <1>1, <2>1, <2>2, IdleTyped DEF TickTypes, Proper
<1> QED
  BY <1>2, <1>5, <1>6 DEF TypeInv

\* upsertTask(): the new entry, and the others as they were.
LEMMA DoUpsert ==
  ASSUME TasksOK, NEW d \in TaskRecord, Upsert(d)
  PROVE  /\ TasksOK'
         /\ \A j \in DOMAIN tasks' : tasks'[j] = d \/ \E h \in DOMAIN tasks : tasks'[j] = tasks[h]
<1> DEFINE n == Len(tasks)
<1>1. /\ n \in Nat /\ DOMAIN tasks = 1..n /\ \A j \in 1..n : tasks[j] \in TaskRecord
      /\ tasks \in Seq(TaskRecord)
  BY LenProperties, ElementOfSeq DEF TasksOK
<1>2. CASE Present(d.id)
  <2> DEFINE e(j) == IF tasks[j].id = d.id THEN d ELSE tasks[j]
  <2>1. tasks' = [j \in 1..n |-> e(j)]
    BY <1>1, <1>2 DEF Upsert
  <2>2. \A j \in 1..n : e(j) \in TaskRecord /\ e(j).id = tasks[j].id /\ e(j) \in {d, tasks[j]}
    BY <1>1
  <2> HIDE DEF e, n
  <2>3. tasks' \in [1..n -> TaskRecord]
    BY <2>1, <2>2
  <2>4. tasks' \in Seq(TaskRecord) /\ DOMAIN tasks' = 1..n
    BY <1>1, <2>3, SeqDef
  <2>5. \A j \in DOMAIN tasks' : j \in DOMAIN tasks /\ tasks'[j].id = tasks[j].id /\ tasks'[j] \in {d, tasks[j]}
    BY <1>1, <2>1, <2>2, <2>4
  <2> QED
    BY <2>4, <2>5 DEF TasksOK
<1>3. CASE ~Present(d.id)
  <2>1. tasks' = Append(tasks, d)
    BY <1>3 DEF Upsert
  <2> HIDE DEF n
  <2>2. /\ tasks' \in Seq(TaskRecord) /\ Len(tasks') = n + 1
        /\ \A j \in 1..n : tasks'[j] = tasks[j]
        /\ tasks'[n + 1] = d
    BY <1>1, <2>1, AppendProperties DEF n
  <2>3. DOMAIN tasks' = 1..(n + 1)
    BY <2>2, LenProperties
  <2>4. \A j \in DOMAIN tasks' : j = n + 1 \/ j \in DOMAIN tasks
    BY <1>1, <2>3
  <2>5. \A i, j \in DOMAIN tasks' : tasks'[i].id = tasks'[j].id => i = j
    BY <1>1, <1>3, <2>2, <2>4 DEF TasksOK, Present
  <2> QED
    BY <1>1, <2>2, <2>4, <2>5 DEF TasksOK
<1> QED
  BY <1>2, <1>3

\* What an edit of the table leaves alone, and what the new entries are: made now, or
\* as old as the entry they replace, unless the task is outdated.
TableEdited ==
    /\ UNCHANGED <<now, bootAt, inFlight, tick, children, shared, stops>>
    /\ outdated \subseteq outdated'
    /\ \/ cursors' = cursors
       \/ \E t \in TaskIds : /\ cursors' = [cursors EXCEPT ![t] = 0]
                             /\ \A j \in DOMAIN tasks' : tasks'[j].id # t
    /\ \A j \in DOMAIN tasks' :
           \/ tasks'[j].id \in outdated'
           \/ tasks'[j].createdAt = now
           \/ \E h \in DOMAIN tasks : /\ tasks'[j].id = tasks[h].id
                                      /\ tasks'[j].createdAt = tasks[h].createdAt

LEMMA DoEdit ==
  ASSUME TypeInv, NEW t \in TaskIds, Edit(t)
  PROVE  StoreTypes' /\ TableEdited
<1> DEFINE n == Len(tasks)
<1>1. /\ n \in Nat /\ DOMAIN tasks = 1..n /\ \A j \in 1..n : tasks[j] \in TaskRecord
      /\ tasks \in Seq(TaskRecord) /\ TasksOK
  BY LenProperties, ElementOfSeq DEF TypeInv, StoreTypes, TasksOK
<1>2. now \in 1..MaxTime /\ cursors \in [TaskIds -> 0..MaxTime]
  BY DEF TypeInv, ClockTypes, StoreTypes
<1>6. UNCHANGED <<now, bootAt, inFlight, tick, children, shared, stops, outdated>>
  BY DEF Edit, AddTask, ReadTask, RemoveTask, history
<1>3. CASE AddTask(t)
  <2> DEFINE e == [id |-> t, enabled |-> TRUE, createdAt |-> now]
  <2>1. Upsert(e) /\ UNCHANGED <<runs, cursors>>
    BY <1>3 DEF AddTask
  <2>2. e \in TaskRecord /\ e.createdAt = now
    BY <1>2 DEF TaskRecord
  <2> HIDE DEF e, n
  <2>3. /\ TasksOK'
        /\ \A j \in DOMAIN tasks' : tasks'[j] = e \/ \E h \in DOMAIN tasks : tasks'[j] = tasks[h]
    BY <1>1, <2>1, <2>2, DoUpsert
  <2>4. StoreTypes'
    BY <2>1, <2>3 DEF TypeInv, StoreTypes
  <2> QED
    BY <1>6, <2>1, <2>2, <2>3, <2>4 DEF TableEdited
<1>4. CASE ReadTask(t)
  <2>1. UNCHANGED <<tasks, runs, cursors>>
    BY <1>4 DEF ReadTask, store
  <2>2. StoreTypes'
    BY <2>1 DEF TypeInv, StoreTypes, TasksOK
  <2> QED
    BY <1>6, <2>1, <2>2 DEF TableEdited
<1>5. CASE RemoveTask(t)
  <2> DEFINE K == {i \in DOMAIN tasks : tasks[i].id # t}
             f == Subsequence(tasks, K)
  <2>1. tasks' = f /\ UNCHANGED runs /\ cursors' = [cursors EXCEPT ![t] = 0]
    BY <1>5 DEF RemoveTask
  <2>2. K \in SUBSET (1..n) /\ \A i \in K : i \in DOMAIN tasks /\ tasks[i].id # t /\ i \in Nat
    BY <1>1
  <2> HIDE DEF K
  <2>3. /\ f \in Seq(TaskRecord) /\ Len(f) = Cardinality(K) /\ Cardinality(K) \in Nat
        /\ \A k \in 1..Cardinality(K) : Position(K, k) \in K /\ f[k] = tasks[Position(K, k)]
    BY <1>1, <2>2, SubsequenceOf
  <2>4. \A k, l \in 1..Cardinality(K) : k < l => Position(K, k) < Position(K, l)
    BY <1>1, <2>2, Positions
  <2> HIDE DEF f, n
  <2>5. DOMAIN f = 1..Cardinality(K)
    BY <2>3, LenProperties
  <2>6. ASSUME NEW i \in DOMAIN f, NEW j \in DOMAIN f, f[i].id = f[j].id PROVE i = j
    <3>1. Position(K, i) = Position(K, j)
      BY ZenonT(60), <1>1, <2>2, <2>3, <2>5, <2>6 DEF TasksOK
    <3>2. Position(K, i) \in K /\ Position(K, j) \in K
      BY <2>3, <2>5
    <3>3. Position(K, i) \in Nat /\ Position(K, j) \in Nat
      BY <2>2, <3>2
    <3>4. i \in Nat /\ j \in Nat
      BY <2>3, <2>5
    <3> QED
      BY <2>4, <2>5, <3>1, <3>3, <3>4
  <2>7. cursors' \in [TaskIds -> 0..MaxTime]
    BY <1>2, <2>1, Bounds
  <2>8. \A j \in DOMAIN f : f[j].id # t /\ \E h \in DOMAIN tasks : f[j] = tasks[h]
    BY <2>2, <2>3, <2>5
  <2>9. StoreTypes'
    BY <2>1, <2>3, <2>6, <2>7 DEF TypeInv, StoreTypes, TasksOK
  <2>10. \A j \in DOMAIN tasks' : tasks'[j].id # t /\ \E h \in DOMAIN tasks : tasks'[j] = tasks[h]
    BY <2>1, <2>8
  <2> QED
    BY <1>6, <2>1, <2>9, <2>10 DEF TableEdited
<1> QED
  BY <1>3, <1>4, <1>5 DEF Edit

\* The write of enable and disable
LEMMA DoWrite ==
  ASSUME TypeInv, HistoryTypes, NEW d \in held, WriteTask(d)
  PROVE  StoreTypes' /\ TableEdited
<1>1. d \in TaskRecord /\ TasksOK
  BY DEF HistoryTypes, TypeInv, StoreTypes
<1>2. /\ Upsert(d) /\ UNCHANGED <<runs, cursors, now, bootAt, inFlight, tick, children, shared, stops>>
      /\ outdated' = IF \E i \in DOMAIN tasks : tasks[i].id = d.id /\ tasks[i].createdAt = d.createdAt
                     THEN outdated ELSE outdated \cup {d.id}
  BY DEF WriteTask, counters
<1>3. /\ TasksOK'
      /\ \A j \in DOMAIN tasks' : tasks'[j] = d \/ \E h \in DOMAIN tasks : tasks'[j] = tasks[h]
  BY <1>1, <1>2, DoUpsert
<1>4. StoreTypes'
  BY <1>2, <1>3 DEF TypeInv, StoreTypes
<1>5. outdated \subseteq outdated'
  BY <1>2
<1>6. \/ d.id \in outdated'
      \/ \E h \in DOMAIN tasks : d.id = tasks[h].id /\ d.createdAt = tasks[h].createdAt
  BY <1>2
<1> QED
  BY <1>2, <1>3, <1>4, <1>5, <1>6 DEF TableEdited

LEMMA TypeEdit ==
  ASSUME TypeInv, HistoryTypes,
         (\E t \in TaskIds : Edit(t)) \/ (\E d \in held : WriteTask(d))
  PROVE  TypeInv' /\ TableEdited
<1>1. /\ UNCHANGED <<now, daemon, bootAt, inFlight, tick, children, nextRun, stops, faults>>
      /\ edits' \in {edits, edits + 1}
  BY DEF Edit, AddTask, ReadTask, RemoveTask, WriteTask, counters
<1>2. StoreTypes' /\ TableEdited
  BY DoEdit, DoWrite
<1>3. now \in Nat
  BY Bounds DEF TypeInv, ClockTypes
<1>4. TickTypes'
  BY <1>1, <1>3, TicksUnchanged
<1>5. edits' \in Nat
  BY <1>1 DEF TypeInv, ClockTypes
<1> QED
  BY <1>1, <1>2, <1>4, <1>5 DEF TypeInv, ClockTypes

-----------------------------------------------------------------------------
(* Types and runs *)

LEMMA InitTypes ==
  ASSUME Init
  PROVE  TypeInv
<1>1. \A S : <<>> \in Seq(S) /\ Len(<<>>) = 0 /\ DOMAIN <<>> = {}
  OBVIOUS
<1>2. StoreTypes
  BY <1>1, Bounds DEF Init, StoreTypes, TasksOK
<1>3. ClockTypes
  BY <1>1, Bounds DEF Init, ClockTypes
<1>4. Ordered(IdleTick) /\ IdleTick \in TickRecord
  BY IdleTyped, Empty
<1>5. TickTypes
  BY <1>4, IdleTyped DEF Init, TickTypes, Proper
<1> QED
  BY <1>2, <1>3, <1>5 DEF TypeInv

LEMMA TypesKept ==
  ASSUME TypeInv, HistoryTypes, [Next]_vars
  PROVE  TypeInv'
<1>1. ASSUME NEW k \in Ticks, StartTick(k) \/ TickStep(k) PROVE TypeInv'
  BY <1>1, TypeTickQuiet, TypeTickBooks, TypeSpawn DEF TickStep
<1>2. ASSUME NEW i \in DOMAIN children, ChildExits(i) \/ Callback(i) PROVE TypeInv'
  BY <1>2, TypeChildren
<1>3. ASSUME (\E t \in TaskIds : Edit(t)) \/ (\E d \in held : WriteTask(d)) PROVE TypeInv'
  BY <1>3, TypeEdit
<1>4. ASSUME NEW how \in {"stopped", "down"}, Stop(how) PROVE TypeInv'
  BY <1>4, TypeStop
<1>5. ASSUME Boot \/ RecoverRun \/ Booted \/ Pass \/ UNCHANGED vars PROVE TypeInv'
  BY <1>5, TypeProcess
<1> QED
  BY <1>1, <1>2, <1>3, <1>4, <1>5 DEF Next

\* Only what an enable or disable reads is held.
LEMMA HistoryKept ==
  ASSUME TypeInv, HistoryTypes, [Next]_vars
  PROVE  HistoryTypes'
<1>1. ASSUME NEW k \in Ticks, StartTick(k) \/ TickStep(k) PROVE HistoryTypes'
  <2>1. UNCHANGED <<held, outdated>> /\ shared' \subseteq shared \cup UnderWay \cup {k}
    BY <1>1 DEF StartTick, TickStep, Evaluate, Book, NextGroup, RejectLaunch, RecordLaunch, Spawn,
       EndTick, TickFails, history
  <2> QED
    BY <2>1 DEF HistoryTypes, UnderWay
<1>2. ASSUME NEW i \in DOMAIN children, ChildExits(i) \/ Callback(i) PROVE HistoryTypes'
  <2>1. UNCHANGED <<held, outdated, shared>>
    BY <1>2 DEF ChildExits, Callback, Release, Settle, history
  <2> QED
    BY <2>1 DEF HistoryTypes
<1>3. ASSUME NEW t \in TaskIds, Edit(t) PROVE HistoryTypes'
  <2>1. UNCHANGED <<outdated, shared>>
    BY <1>3 DEF Edit, AddTask, ReadTask, RemoveTask, history
  <2>2. CASE ReadTask(t)
    <3>1. PICK i \in DOMAIN tasks, b \in BOOLEAN : held' = held \cup {[tasks[i] EXCEPT !.enabled = b]}
      BY <2>2 DEF ReadTask
    <3>2. tasks[i] \in TaskRecord
      BY ElementOfSeq, LenProperties DEF TypeInv, StoreTypes, TasksOK
    <3>3. [tasks[i] EXCEPT !.enabled = b] \in TaskRecord
      BY <3>2 DEF TaskRecord
    <3> QED
      BY <2>1, <3>1, <3>3 DEF HistoryTypes
  <2>3. CASE AddTask(t) \/ RemoveTask(t)
    BY <2>1, <2>3 DEF AddTask, RemoveTask, HistoryTypes
  <2> QED
    BY <1>3, <2>2, <2>3 DEF Edit
<1>4. ASSUME NEW d \in held, WriteTask(d) PROVE HistoryTypes'
  <2>1. d.id \in TaskIds
    BY DEF HistoryTypes, TaskRecord
  <2> QED
    BY <1>4, <2>1 DEF WriteTask, HistoryTypes
<1>5. ASSUME NEW how, Stop(how) PROVE HistoryTypes'
  BY <1>5 DEF Stop, HistoryTypes
<1>6. ASSUME Boot \/ RecoverRun \/ Booted \/ Pass \/ UNCHANGED vars PROVE HistoryTypes'
  BY <1>6 DEF Boot, RecoverRun, Booted, Pass, vars, history, HistoryTypes
<1> QED
  BY <1>1, <1>2, <1>3, <1>4, <1>5, <1>6 DEF Next

\* The store, the ticks and the runs keep their types and the journal its limit, ticks that
\* overlap included.
THEOREM TypeCorrect == Spec => []TypeOK
<1>1. TypeInv /\ HistoryTypes => TypeOK
  BY DEF TypeInv, HistoryTypes, StoreTypes, ClockTypes, TickTypes, TasksOK, TickRecord, TaskRecord,
     Pcs, TypeOK
<1>2. Init => TypeInv /\ HistoryTypes
  BY InitTypes DEF Init, HistoryTypes
<1>3. TypeInv /\ HistoryTypes /\ [Next]_vars => TypeInv' /\ HistoryTypes'
  BY TypesKept, HistoryKept
<1> QED
  BY <1>1, <1>2, <1>3, PTL DEF Spec

-----------------------------------------------------------------------------
(* Ticks that overlap, and the runs *)

LEMMA IdleOwes ==
  ASSUME TypeInv, NEW j \in Ticks, tick[j].pc = "idle"
  PROVE  DOMAIN tick[j].groups = {} /\ \A t, w : ~Owes(tick[j], t, w)
<1>1. Ordered(tick[j])
  BY DEF TypeInv, TickTypes
<1>2. tick[j].book = <<>> /\ tick[j].groups = <<>>
  BY <1>1 DEF Ordered
<1> QED
  BY <1>2, Empty

\* Of two ticks one of which is alone, one is idle.
LEMMA Sole ==
  ASSUME TypeInv, SharedInv, NEW j \in Ticks, NEW k \in Ticks, j # k, tick[k].pc # "idle",
         j \notin shared \/ k \notin shared
  PROVE  tick[j].pc = "idle" /\ DOMAIN tick[j].groups = {} /\ \A t, w : ~Owes(tick[j], t, w)
<1>1. tick[j].pc = "idle"
  BY DEF SharedInv
<1> QED
  BY <1>1, IdleOwes

LEMMA SharedKept ==
  ASSUME TypeInv, SharedInv, [Next]_vars
  PROVE  SharedInv'
<1>1. ASSUME NEW k \in Ticks, StartTick(k) PROVE SharedInv'
  <2>1. /\ tick[k].pc = "idle" /\ Alone(k)
        /\ shared' = IF UnderWay = {} THEN shared ELSE shared \cup UnderWay \cup {k}
    BY <1>1, DoStart DEF StartTick
  <2>2. \A j \in Ticks : tick[j].pc # "idle" => j \in UnderWay
    BY DEF UnderWay
  <2>3. \A j \in Ticks : tick'[j].pc # "idle" => j = k \/ j \in UnderWay
    BY <2>1, <2>2 DEF Alone
  <2> QED
    BY <2>1, <2>3 DEF SharedInv
<1>2. ASSUME NEW k \in Ticks, EndTick(k) \/ TickFails(k) PROVE SharedInv'
  <2>1. Alone(k) /\ tick'[k].pc = "idle" /\ shared' = shared \ {k}
    BY <1>2, DoEnd, IdleTyped DEF EndTick, TickFails
  <2> QED
    BY <2>1 DEF SharedInv, Alone
<1>3. ASSUME NEW k \in Ticks, tick[k].pc # "idle", Alone(k), shared' = shared PROVE SharedInv'
  <2>1. \A j \in Ticks : tick'[j].pc # "idle" => tick[j].pc # "idle"
    BY <1>3 DEF Alone
  <2> QED
    BY <1>3, <2>1 DEF SharedInv
<1>4. ASSUME NEW k \in Ticks, Evaluate(k) \/ Book(k) \/ NextGroup(k) \/ RejectLaunch(k)
                              \/ RecordLaunch(k) \/ Spawn(k)
      PROVE  SharedInv'
  <2>1. tick[k].pc # "idle" /\ shared' = shared
    BY <1>4 DEF Evaluate, Book, NextGroup, RejectLaunch, RecordLaunch, Spawn, history
  <2>2. Alone(k)
    <3>1. CASE Evaluate(k) \/ NextGroup(k)
      BY <3>1, DoEvaluate, DoNextGroup DEF Same
    <3>2. CASE Book(k)
      BY <3>2, DoBook DEF Same
    <3>3. CASE RejectLaunch(k) \/ Spawn(k)
      BY <3>3, DoLeave
    <3>4. CASE RecordLaunch(k)
      BY <3>4, DoRecordLaunch
    <3> QED
      BY <1>4, <3>1, <3>2, <3>3, <3>4
  <2> QED
    BY <1>3, <2>1, <2>2
<1>5. ASSUME UNCHANGED <<tick, shared>> PROVE SharedInv'
  BY <1>5 DEF SharedInv
<1>6. ASSUME NEW how, Stop(how) PROVE SharedInv'
  BY <1>6, IdleTyped DEF Stop, SharedInv
<1>7. ASSUME NEW i \in DOMAIN children, ChildExits(i) \/ Callback(i) PROVE UNCHANGED <<tick, shared>>
  BY <1>7 DEF ChildExits, Callback, Release, Settle, history
<1>8. ASSUME \/ Boot \/ RecoverRun \/ Booted \/ Pass \/ UNCHANGED vars
             \/ (\E t \in TaskIds : Edit(t)) \/ (\E d \in held : WriteTask(d))
      PROVE  UNCHANGED <<tick, shared>>
  BY <1>8 DEF Boot, RecoverRun, Booted, Pass, vars, history, Edit, AddTask, ReadTask, RemoveTask,
     WriteTask
<1> QED
  BY <1>1, <1>2, <1>4, <1>5, <1>6, <1>7, <1>8 DEF Next, TickStep

\* Only the tick changes, and if it is alone its groups are of tasks that are not in flight.
LEMMA RunsKept ==
  ASSUME RunInv, NEW k \in Ticks, Alone(k), UNCHANGED <<inFlight, children, stops>>,
         \A j \in Ticks : j # k /\ j \notin shared' => j \notin shared,
         k \notin shared' => \A g \in DOMAIN tick'[k].groups :
             Clean(tick'[k].groups[g].task) => inFlight[tick'[k].groups[g].task] = 0
  PROVE  RunInv'
<1>1. \A t : Clean(t)' <=> Clean(t)
  BY DEF Clean
<1>2. \A j \in Ticks \ shared' : \A g \in DOMAIN tick'[j].groups :
          Clean(tick'[j].groups[g].task) => inFlight[tick'[j].groups[g].task] = 0
  BY DEF RunInv, Alone
<1>3. \A j \in Ticks \ shared' : \A g \in DOMAIN tick'[j].groups :
          Clean(tick[j].groups[g].task)' => inFlight'[tick'[j].groups[g].task] = 0
  BY <1>1, <1>2
<1>4. \A i : Active(i)' <=> Active(i)
  BY DEF Active
<1> HIDE DEF Clean
<1> QED
  BY <1>1, <1>3, <1>4 DEF RunInv

LEMMA RunTick ==
  ASSUME TypeInv, RunInv, NEW k \in Ticks,
         StartTick(k) \/ Evaluate(k) \/ Book(k) \/ NextGroup(k) \/ RejectLaunch(k) \/ RecordLaunch(k)
         \/ EndTick(k) \/ TickFails(k)
  PROVE  RunInv'
<1>1. UNCHANGED <<inFlight, children, stops>>
  BY DEF StartTick, Evaluate, Book, NextGroup, RejectLaunch, RecordLaunch, EndTick, TickFails, counters
<1>2. k \notin shared => \A g \in DOMAIN tick[k].groups :
          Clean(tick[k].groups[g].task) => inFlight[tick[k].groups[g].task] = 0
  BY DEF RunInv
<1>3. DOMAIN <<>> = {}
  OBVIOUS
<1>5. \/ shared' = shared
      \/ /\ StartTick(k) \/ EndTick(k) \/ TickFails(k)
         /\ \A j \in Ticks : j # k /\ j \notin shared' => j \notin shared
  BY DEF StartTick, Evaluate, Book, NextGroup, RejectLaunch, RecordLaunch, EndTick, TickFails, history
<1>4. /\ Alone(k)
      /\ k \notin shared' => \A g \in DOMAIN tick'[k].groups :
             Clean(tick'[k].groups[g].task) => inFlight[tick'[k].groups[g].task] = 0
  <2>1. CASE StartTick(k)
    BY <1>3, <2>1, DoStart
  <2>2. CASE Evaluate(k)
    <3> DEFINE e == tick'[k]
               at == tick[k].now
    <3>1. Alone(k) /\ e.pc = "book" /\ e.book = Plan(at).book /\ e.groups = Plan(at).groups
      BY <2>2, DoEvaluate DEF Same
    <3>2. /\ at \in 0..MaxTime /\ cursors \in [TaskIds -> 0..MaxTime] /\ bootAt \in 0..MaxTime
          /\ TasksOK
      BY DEF TypeInv, StoreTypes, ClockTypes, TickTypes, TickRecord
    <3> HIDE DEF e, at
    <3>3. \A g \in DOMAIN e.groups : inFlight[e.groups[g].task] = 0
      BY <3>1, <3>2, PlanInOrder
    <3> QED
      BY <3>1, <3>3 DEF e
  <2>3. CASE Book(k)
    <3> DEFINE t0 == Head(tick[k].book).task
               v == Head(Head(tick[k].book).windows)
    <3>1. t0 = Head(tick[k].book).task /\ v = Head(Head(tick[k].book).windows)
      OBVIOUS
    <3> HIDE DEF t0, v
    <3>2. Alone(k) /\ tick'[k].groups = tick[k].groups
      BY <2>3, <3>1, DoBook DEF Same
    <3>3. shared' = shared
      BY <2>3 DEF Book, history
    <3> QED
      BY <1>2, <3>2, <3>3
  <2>4. CASE NextGroup(k)
    <3>1. Alone(k)
      BY <2>4, DoNextGroup DEF Same
    <3>2. \/ tick'[k].groups = tick[k].groups
          \/ \A g \in DOMAIN tick'[k].groups : \E h \in DOMAIN tick[k].groups :
                 tick'[k].groups[g].task = tick[k].groups[h].task
      BY <2>4, DoNextGroup
    <3>3. shared' = shared
      BY <2>4 DEF NextGroup, history
    <3> QED
      BY <1>2, <3>1, <3>2, <3>3
  <2>5. CASE RejectLaunch(k)
    <3>1. /\ Alone(k)
          /\ \A g \in DOMAIN tick'[k].groups : \E h \in DOMAIN tick[k].groups :
                 tick'[k].groups[g].task = tick[k].groups[h].task
      BY <2>5, DoLeave
    <3>2. shared' = shared
      BY <2>5 DEF RejectLaunch, history
    <3> QED
      BY <1>2, <3>1, <3>2
  <2>6. CASE RecordLaunch(k)
    <3>1. Alone(k) /\ tick'[k].groups = tick[k].groups
      BY <2>6, DoRecordLaunch
    <3>2. shared' = shared
      BY <2>6 DEF RecordLaunch, history
    <3> QED
      BY <1>2, <3>1, <3>2
  <2>7. CASE EndTick(k) \/ TickFails(k)
    BY <1>3, <2>7, DoEnd, IdleTyped
  <2> QED
    BY <2>1, <2>2, <2>3, <2>4, <2>5, <2>6, <2>7
<1> QED
  BY <1>1, <1>4, <1>5, RunsKept

\* A spawn adds one run, the last one.
LEMMA Spawned ==
  ASSUME TypeInv, NEW k \in Ticks, Spawn(k), NEW n, n = Len(children)
  PROVE  /\ n \in Nat /\ DOMAIN children = 1..n /\ DOMAIN children' = 1..(n + 1)
         /\ \A i \in 1..n : children'[i] = children[i]
         /\ children'[n + 1].task = First(tick[k]).task
         /\ children'[n + 1].at = Last(First(tick[k]).windows)
         /\ children'[n + 1].boot = stops /\ children'[n + 1].state = "running"
         /\ children'[n + 1].alone = (k \notin shared)
<1> DEFINE c == NewChild(k)
<1>1. children' = Append(children, c) /\ c \in ChildRecord /\ children \in Seq(ChildRecord)
  BY DoSpawn DEF TypeInv, ClockTypes
<1>2. /\ c.task = First(tick[k]).task /\ c.at = Last(First(tick[k]).windows)
      /\ c.boot = stops /\ c.state = "running" /\ c.alone = (k \notin shared)
  BY DEF NewChild
<1> HIDE DEF c
<1>3. n \in Nat /\ DOMAIN children = 1..n
  BY <1>1, LenProperties
<1>4. /\ children' \in Seq(ChildRecord) /\ Len(children') = n + 1
      /\ \A i \in 1..n : children'[i] = children[i]
      /\ children'[n + 1] = c
  BY <1>1, <1>3, AppendProperties
<1>5. DOMAIN children' = 1..(n + 1)
  BY <1>4, LenProperties
<1> QED
  BY <1>2, <1>3, <1>4, <1>5

LEMMA RunSpawn ==
  ASSUME TypeInv, SharedInv, RunInv, NEW k \in Ticks, Spawn(k)
  PROVE  RunInv'
<1>1. PICK n, t0 : n = Len(children) /\ t0 = First(tick[k]).task
  OBVIOUS
<1>2. /\ n \in Nat /\ DOMAIN children = 1..n /\ DOMAIN children' = 1..(n + 1)
      /\ \A i \in 1..n : children'[i] = children[i]
      /\ children'[n + 1].task = t0
      /\ children'[n + 1].boot = stops /\ children'[n + 1].state = "running"
      /\ children'[n + 1].alone = (k \notin shared)
  BY <1>1, Spawned
<1>3. /\ tick[k].id # 0 /\ t0 \in TaskIds /\ stops' = stops
      /\ inFlight' = [inFlight EXCEPT ![t0] = tick[k].id]
  <2>1. tick[k].id \in 1..(nextRun - 1) /\ nextRun \in Nat
    BY DoSpawn DEF TypeInv, ClockTypes
  <2>2. t0 \in TaskIds /\ stops' = stops /\ inFlight' = [inFlight EXCEPT ![t0] = tick[k].id]
    BY <1>1, DoSpawn
  <2> QED
    BY <2>1, <2>2
<1>4. /\ Alone(k) /\ tick[k].groups # <<>>
      /\ \A g \in DOMAIN tick'[k].groups :
             /\ tick'[k].groups[g].task # t0
             /\ \E h \in DOMAIN tick[k].groups : tick'[k].groups[g].task = tick[k].groups[h].task
  BY <1>1, DoLeave
<1>5. k \notin shared /\ Clean(t0) => inFlight[t0] = 0
  <2>1. tick[k].groups \in Seq(Batch)
    BY DEF TypeInv, TickTypes, TickRecord
  <2>2. 1 \in DOMAIN tick[k].groups /\ tick[k].groups[1] = First(tick[k])
    BY <1>4, <2>1, FirstAndRest DEF First
  <2> QED
    BY <1>1, <2>2 DEF RunInv
<1>6. stops \in Nat /\ inFlight \in [TaskIds -> 0..(nextRun - 1)]
      /\ \A i \in 1..n : children[i] \in ChildRecord
  BY <1>1, <1>2, ElementOfSeq DEF TypeInv, ClockTypes
<1>12. \A i \in DOMAIN children' : i \in 1..n \/ i = n + 1
  BY <1>2
<1>13. n + 1 \in DOMAIN children' /\ \A i \in 1..n : i \in DOMAIN children' /\ i \in DOMAIN children
  BY <1>2
<1>14. \A t : Clean(t)' => Clean(t)
  BY <1>2, <1>3, <1>13 DEF Clean
<1>15. Clean(t0)' => k \notin shared
  BY <1>2, <1>3, <1>13 DEF Clean
<1>7. Clean(t0)' => \A i \in 1..n : Active(i) => children[i].task # t0
  BY <1>2, <1>5, <1>14, <1>15 DEF RunInv
<1>8. \A i \in 1..n : Active(i)' <=> Active(i)
  BY <1>2, <1>3 DEF Active
<1>9. \A i \in DOMAIN children' :
           /\ children'[i].boot <= stops'
           /\ children'[i].state \in {"exited", "settled"} => children'[i].boot = stops'
           /\ Active(i)' /\ Clean(children[i].task)' => inFlight'[children'[i].task] # 0
  <2>1. ASSUME NEW i \in 1..n
        PROVE /\ children'[i].boot <= stops'
              /\ children'[i].state \in {"exited", "settled"} => children'[i].boot = stops'
              /\ Active(i)' /\ Clean(children[i].task)' => inFlight'[children'[i].task] # 0
    <3>1. children[i].task \in TaskIds
      BY <1>6 DEF ChildRecord
    <3>2. children'[i] = children[i] /\ i \in DOMAIN children
      BY <1>2
    <3>3. /\ children[i].boot <= stops
          /\ children[i].state \in {"exited", "settled"} => children[i].boot = stops
          /\ Active(i) /\ Clean(children[i].task) => inFlight[children[i].task] # 0
      BY <3>2 DEF RunInv
    <3>4. inFlight'[children[i].task] = IF children[i].task = t0 THEN tick[k].id
                                        ELSE inFlight[children[i].task]
      BY <1>3, <1>6, <3>1
    <3>5. Clean(children[i].task)' => Clean(children[i].task)
      BY <1>14, <3>2
    <3> HIDE DEF Clean
    <3> QED
      BY <1>3, <1>8, <3>2, <3>3, <3>4, <3>5
  <2>2. /\ children'[n + 1].boot <= stops'
        /\ children'[n + 1].state \notin {"exited", "settled"}
        /\ inFlight'[children'[n + 1].task] # 0
    BY <1>2, <1>3, <1>6
  <2> QED
    BY <1>12, <2>1, <2>2
<1>10. \A i, j \in DOMAIN children' :
           /\ Active(i)' /\ Active(j)' /\ children'[i].task = children'[j].task
           /\ Clean(children[i].task)'
           => i = j
  <2> SUFFICES ASSUME NEW i \in DOMAIN children', NEW j \in DOMAIN children', Active(i)', Active(j)',
                      children'[i].task = children'[j].task, Clean(children[i].task)'
               PROVE  i = j
    OBVIOUS
  <2>1. CASE i \in 1..n /\ j \in 1..n
    <3>1. Active(i) /\ Active(j) /\ children[i].task = children[j].task
      BY <1>2, <1>8, <2>1
    <3>2. Clean(children[i].task)
      BY <1>2, <1>14, <2>1
    <3> QED
      BY <1>13, <2>1, <3>1, <3>2 DEF RunInv
  <2>2. CASE i \in 1..n /\ j = n + 1
    <3>1. children[i].task = t0 /\ Clean(t0)' /\ Active(i)
      BY <1>2, <1>8, <2>2
    <3> QED
      BY <1>7, <2>2, <3>1
  <2>3. CASE j \in 1..n /\ i = n + 1
    <3>1. children[j].task = t0 /\ Clean(t0)' /\ Active(j)
      BY <1>2, <1>8, <2>3
    <3> QED
      BY <1>7, <2>3, <3>1
  <2> QED
    BY <1>12, <2>1, <2>2, <2>3
<1>16. shared' = shared /\ tick[k].pc # "idle"
  BY DEF Spawn, history
<1>11. \A j \in Ticks \ shared' : \A g \in DOMAIN tick'[j].groups :
           Clean(tick[j].groups[g].task)' => inFlight'[tick'[j].groups[g].task] = 0
  <2> SUFFICES ASSUME NEW j \in Ticks \ shared', NEW g \in DOMAIN tick'[j].groups,
                      Clean(tick[j].groups[g].task)'
               PROVE  inFlight'[tick'[j].groups[g].task] = 0
    OBVIOUS
  <2>1. j = k
    <3>1. SUFFICES ASSUME j # k PROVE FALSE
      OBVIOUS
    <3>2. DOMAIN tick[j].groups = {}
      BY <1>16, <3>1, Sole
    <3> QED
      BY <1>4, <3>1, <3>2 DEF Alone
  <2>2. PICK h \in DOMAIN tick[k].groups : tick'[k].groups[g].task = tick[k].groups[h].task
    BY <1>4, <2>1
  <2>3. Clean(tick[k].groups[h].task)
    BY <1>14, <2>1, <2>2
  <2>4. inFlight[tick[k].groups[h].task] = 0 /\ tick'[k].groups[g].task # t0
    BY <1>4, <1>16, <2>1, <2>3 DEF RunInv
  <2>5. tick[k].groups[h].task \in TaskIds
    <3>1. tick[k].groups \in Seq(Batch)
      BY DEF TypeInv, TickTypes, TickRecord
    <3>2. tick[k].groups[h] \in Batch
      BY <3>1, ElementOfSeq, LenProperties
    <3> QED
      BY <3>2 DEF Batch
  <2> QED
    BY <1>3, <1>6, <2>1, <2>2, <2>4, <2>5
<1> QED
  BY <1>9, <1>10, <1>11 DEF RunInv

LEMMA RunChildren ==
  ASSUME TypeInv, RunInv, NEW i \in DOMAIN children, ChildExits(i) \/ Callback(i)
  PROVE  RunInv'
<1>1. children \in Seq(ChildRecord)
  BY DEF TypeInv, ClockTypes
<1>2. UNCHANGED <<tick, stops, shared>>
  BY DEF ChildExits, Callback, Release, Settle, counters, history
<1>3. \A j \in DOMAIN children : children[j] \in ChildRecord
  BY <1>1, ElementOfSeq, LenProperties
<1>4. CASE ChildExits(i)
  <2> DEFINE st == IF children[i].boot = stops THEN "exited" ELSE "released"
  <2>1. SetChild(i, st) /\ inFlight' = inFlight /\ children[i].state = "running"
    BY <1>4 DEF ChildExits
  <2>2. st \in {"running", "exited", "settled", "released"}
    OBVIOUS
  <2>3. st = "exited" => children[i].boot = stops
    OBVIOUS
  <2>4. st \in {"exited", "released"}
    OBVIOUS
  <2> HIDE DEF st
  <2>5. /\ DOMAIN children' = DOMAIN children
        /\ \A j \in DOMAIN children :
              /\ children'[j].task = children[j].task /\ children'[j].boot = children[j].boot
              /\ children'[j].alone = children[j].alone
              /\ children'[j].state = IF j = i THEN st ELSE children[j].state
    BY <1>1, <2>1, <2>2, ChildSet
  <2>6. \A j \in DOMAIN children : Active(j)' => Active(j)
    BY <1>2, <2>1, <2>5 DEF Active
  <2>7. \A t : Clean(t)' <=> Clean(t)
    BY <1>2, <2>5 DEF Clean
  <2> QED
    BY <1>2, <2>1, <2>3, <2>4, <2>5, <2>6, <2>7 DEF RunInv
<1>5. CASE \E status \in {"completed", "failed"} : Settle(i, status)
  <2>1. SetChild(i, "settled") /\ inFlight' = inFlight /\ children[i].state = "exited"
    BY <1>5 DEF Settle
  <2>2. /\ DOMAIN children' = DOMAIN children
        /\ \A j \in DOMAIN children :
              /\ children'[j].task = children[j].task /\ children'[j].boot = children[j].boot
              /\ children'[j].alone = children[j].alone
              /\ children'[j].state = IF j = i THEN "settled" ELSE children[j].state
    BY <1>1, <2>1, ChildSet
  <2>3. \A j \in DOMAIN children : Active(j)' => Active(j)
    BY <1>2, <2>1, <2>2 DEF Active
  <2>4. \A t : Clean(t)' <=> Clean(t)
    BY <1>2, <2>2 DEF Clean
  <2> QED
    BY <1>2, <2>1, <2>2, <2>3, <2>4 DEF RunInv
<1>6. CASE Release(i)
  <2> DEFINE t0 == children[i].task
  <2>1. /\ SetChild(i, "released") /\ inFlight' = [inFlight EXCEPT ![t0] = 0]
        /\ children[i].state = "settled"
    BY <1>6 DEF Release
  <2>2. /\ DOMAIN children' = DOMAIN children
        /\ \A j \in DOMAIN children :
              /\ children'[j].task = children[j].task /\ children'[j].boot = children[j].boot
              /\ children'[j].alone = children[j].alone
              /\ children'[j].state = IF j = i THEN "released" ELSE children[j].state
    BY <1>1, <2>1, ChildSet
  <2>3. \A j \in DOMAIN children : Active(j)' => Active(j) /\ j # i
    BY <1>2, <2>1, <2>2 DEF Active
  <2>4. Active(i)
    BY <2>1 DEF RunInv, Active
  <2>12. \A t : Clean(t)' <=> Clean(t)
    BY <1>2, <2>2 DEF Clean
  <2>5. \A j \in DOMAIN children : Active(j)' /\ Clean(t0) => children[j].task # t0
    BY <2>3, <2>4 DEF RunInv
  <2>6. inFlight \in [TaskIds -> 0..(nextRun - 1)]
    BY DEF TypeInv, ClockTypes
  <2>7. \A t \in TaskIds : inFlight'[t] = IF t = t0 THEN 0 ELSE inFlight[t]
    BY <2>1, <2>6
  <2>8. \A j \in DOMAIN children : children[j].task \in TaskIds
    BY <1>3 DEF ChildRecord
  <2>9. \A k \in Ticks : \A g \in DOMAIN tick[k].groups : tick[k].groups[g].task \in TaskIds
    <3> SUFFICES ASSUME NEW k \in Ticks, NEW g \in DOMAIN tick[k].groups
                 PROVE  tick[k].groups[g].task \in TaskIds
      OBVIOUS
    <3>1. tick[k].groups \in Seq(Batch)
      BY DEF TypeInv, TickTypes, TickRecord
    <3>2. tick[k].groups[g] \in Batch
      BY <3>1, ElementOfSeq, LenProperties
    <3> QED
      BY <3>2 DEF Batch
  <2> HIDE DEF t0
  <2>10. \A k \in Ticks \ shared' : \A g \in DOMAIN tick'[k].groups :
            Clean(tick[k].groups[g].task)' => inFlight'[tick'[k].groups[g].task] = 0
    BY <1>2, <2>7, <2>9, <2>12 DEF RunInv
  <2>11. \A j \in DOMAIN children' :
            Active(j)' /\ Clean(children[j].task)' => inFlight'[children'[j].task] # 0
    BY <2>2, <2>3, <2>5, <2>7, <2>8, <2>12 DEF RunInv
  <2>13. \A l, j \in DOMAIN children' :
            /\ Active(l)' /\ Active(j)' /\ children'[l].task = children'[j].task
            /\ Clean(children[l].task)'
            => l = j
    BY <2>2, <2>3, <2>12 DEF RunInv
  <2>14. \A j \in DOMAIN children' :
            /\ children'[j].boot <= stops'
            /\ children'[j].state \in {"exited", "settled"} => children'[j].boot = stops'
    BY <1>2, <2>2 DEF RunInv
  <2> QED
    BY <2>10, <2>11, <2>13, <2>14 DEF RunInv
<1> QED
  BY <1>4, <1>5, <1>6 DEF Callback

LEMMA RunOther ==
  ASSUME TypeInv, RunInv, \/ Boot \/ RecoverRun \/ Booted \/ Pass \/ UNCHANGED vars
                          \/ TableEdited
                          \/ \E how \in {"stopped", "down"} : Stop(how)
  PROVE  RunInv'
<1>1. CASE Boot \/ RecoverRun \/ Booted \/ Pass \/ UNCHANGED vars \/ TableEdited
  <2>1. UNCHANGED <<inFlight, tick, children, stops, shared>>
    BY <1>1 DEF Boot, RecoverRun, Booted, Pass, vars, TableEdited, counters, history
  <2> QED
    BY <2>1 DEF RunInv, Active, Clean
<1>2. ASSUME NEW how \in {"stopped", "down"}, Stop(how) PROVE RunInv'
  <2>1. /\ DOMAIN children' = DOMAIN children
        /\ \A j \in DOMAIN children :
              children'[j].boot = children[j].boot /\ children'[j].state \in {"running", "released"}
    BY <1>2, DoStop
  <2>2. stops' = stops + 1 /\ tick' = [k \in Ticks |-> IdleTick]
    BY <1>2 DEF Stop
  <2>3. stops \in Nat /\ \A j \in DOMAIN children : children[j].boot \in Nat
    <3>1. children \in Seq(ChildRecord) /\ stops \in Nat
      BY DEF TypeInv, ClockTypes
    <3>2. \A j \in DOMAIN children : children[j] \in ChildRecord
      BY <3>1, ElementOfSeq, LenProperties
    <3> QED
      BY <3>1, <3>2 DEF ChildRecord
  <2>4. \A j \in DOMAIN children : children'[j].boot <= stops' /\ children'[j].boot # stops'
    BY <2>1, <2>2, <2>3 DEF RunInv
  <2>5. \A k \in Ticks : DOMAIN tick'[k].groups = {}
    BY <2>2, IdleTyped
  <2> QED
    BY <2>1, <2>4, <2>5 DEF RunInv, Active
<1> QED
  BY <1>1, <1>2

-----------------------------------------------------------------------------
(* Windows *)

\* The clock, the store's tables and the runs stay.
Still == UNCHANGED <<now, tasks, cursors, bootAt, children>>

\* No tick that owes something stops being shared, and no task being outdated.
Knows == /\ outdated' = outdated
         /\ \A j \in Ticks \ shared' :
                j \in shared => tick'[j].pc # "spawn" /\ \A t, w : ~Owes(tick'[j], t, w)

\* The tick owes nothing new.
Quiet(k) ==
    /\ Alone(k) /\ Still /\ Knows /\ tick'[k].pc # "spawn"
    /\ \A t, w : Owes(tick'[k], t, w) => Owes(tick[k], t, w) /\ tick'[k].now = tick[k].now

\* The tick books v, the first window of t0 that it owes.
Records(k, t0, v) ==
    /\ Alone(k) /\ UNCHANGED <<now, tasks, bootAt, children, shared, outdated>>
    /\ t0 \in TaskIds /\ v \in 1..MaxTime /\ Owes(tick[k], t0, v)
    /\ \A w : Owes(tick[k], t0, w) => w = v \/ w > v
    /\ \A t, w : Owes(tick'[k], t, w) <=> Owes(tick[k], t, w) /\ ~(t = t0 /\ w = v)
    /\ tick'[k].now = tick[k].now
    /\ cursors' = [cursors EXCEPT ![t0] = Max2(@, v)]
    /\ tick'[k].pc = "spawn" => /\ First(tick'[k]).task = t0
                                /\ Last(First(tick'[k]).windows) = v

LEMMA DoQuiet ==
  ASSUME TypeInv, NEW k \in Ticks, StartTick(k) \/ EndTick(k) \/ TickFails(k)
  PROVE  Quiet(k) /\ \A t, w : ~Owes(tick'[k], t, w)
<1>1. Still
  BY DEF StartTick, EndTick, TickFails, Still, store
<1>2. Alone(k) /\ tick'[k].book = <<>> /\ tick'[k].groups = <<>> /\ tick'[k].pc \in {"idle", "load"}
  <2>1. CASE StartTick(k)
    BY <2>1, DoStart
  <2>2. CASE EndTick(k) \/ TickFails(k)
    BY <2>2, DoEnd, IdleTyped
  <2> QED
    BY <2>1, <2>2
<1>3. \A t, w : ~Owes(tick'[k], t, w)
  BY <1>2, Empty
<1>4. outdated' = outdated /\ \A j \in Ticks \ shared' : j \in shared => j = k
  BY DEF StartTick, EndTick, TickFails
<1>6. tick'[k].pc # "spawn"
  BY <1>2
<1>5. Knows
  BY <1>3, <1>4, <1>6 DEF Knows
<1> QED
  BY <1>1, <1>2, <1>3, <1>5 DEF Quiet

LEMMA DoDefer ==
  ASSUME TypeInv, NEW k \in Ticks, NextGroup(k)
  PROVE  /\ Quiet(k)
         /\ \/ \E t0 : \A t, w : Owes(tick'[k], t, w) <=> Owes(tick[k], t, w) /\ t # t0
            \/ \A t, w : Owes(tick'[k], t, w) <=> Owes(tick[k], t, w)
<1>1. Still
  BY DEF NextGroup, Still, store
<1> DEFINE t0 == First(tick[k]).task
<1>2. /\ Same(k) /\ tick'[k].pc # "spawn"
      /\ \/ \A t, w : Owes(tick'[k], t, w) <=> Owes(tick[k], t, w) /\ t # t0
         \/ \A t, w : Owes(tick'[k], t, w) <=> Owes(tick[k], t, w)
  BY DoNextGroup
<1> HIDE DEF t0
<1>3. \A t, w : Owes(tick'[k], t, w) => Owes(tick[k], t, w)
  BY <1>2
<1>5. UNCHANGED <<shared, outdated>>
  BY DEF NextGroup, history
<1>4. Knows
  BY <1>5 DEF Knows
<1> QED
  BY <1>1, <1>2, <1>3, <1>4 DEF Quiet, Same

LEMMA DoRecords ==
  ASSUME TypeInv, NEW k \in Ticks, Book(k) \/ RejectLaunch(k) \/ RecordLaunch(k)
  PROVE  \E t0, v : Records(k, t0, v)
<1>1. UNCHANGED <<now, bootAt, children, shared, outdated>>
  BY DEF Book, RejectLaunch, RecordLaunch, history
<1>2. CASE Book(k)
  <2> DEFINE t0 == Head(tick[k].book).task
             v == Head(Head(tick[k].book).windows)
  <2>1. t0 = Head(tick[k].book).task /\ v = Head(Head(tick[k].book).windows)
    OBVIOUS
  <2> HIDE DEF t0, v
  <2>2. /\ Same(k) /\ tick[k].pc \in {"book", "launch"} /\ tick'[k].pc = tick[k].pc
        /\ t0 \in TaskIds /\ v \in 1..MaxTime /\ Owes(tick[k], t0, v)
        /\ \A t, w : Owes(tick'[k], t, w) <=> Owes(tick[k], t, w) /\ ~(t = t0 /\ w = v)
        /\ \A w : Owes(tick[k], t0, w) => w = v \/ w > v
        /\ tasks' = tasks /\ cursors' = [cursors EXCEPT ![t0] = Max2(@, v)]
    <3>1. /\ Same(k) /\ tick[k].pc \in {"book", "launch"} /\ tick'[k].pc = tick[k].pc
          /\ t0 \in TaskIds /\ v \in 1..MaxTime /\ Owes(tick[k], t0, v)
      BY <1>2, <2>1, DoBook
    <3>2. \A t, w : Owes(tick'[k], t, w) <=> Owes(tick[k], t, w) /\ ~(t = t0 /\ w = v)
      BY <1>2, <2>1, DoBook
    <3>3. \A w : Owes(tick[k], t0, w) => w = v \/ w > v
      BY SMTT(40), <1>2, <2>1, DoBook
    <3>4. tasks' = tasks /\ cursors' = [cursors EXCEPT ![t0] = Max2(@, v)]
      BY <1>2, <2>1, DoBook
    <3> QED
      BY <3>1, <3>2, <3>3, <3>4
  <2>3. Records(k, t0, v)
    BY <1>1, <2>2 DEF Records, Same
  <2> QED
    BY <2>3
<1>3. CASE RejectLaunch(k) \/ RecordLaunch(k)
  <2> DEFINE t0 == First(tick[k]).task
             v == Last(First(tick[k]).windows)
  <2>1. t0 = First(tick[k]).task /\ v = Last(First(tick[k]).windows)
    OBVIOUS
  <2>2. PICK status \in Statuses : RecordRun(Run(nextRun, Launching(k).task, status, Launching(k).at))
    BY <1>3 DEF RejectLaunch, RecordLaunch, Statuses
  <2>3. tick[k].pc = "launch" /\ tick[k].book = <<>>
    BY <1>3 DEF RejectLaunch, RecordLaunch
  <2> HIDE DEF t0, v
  <2>4. /\ t0 \in TaskIds /\ v \in 1..MaxTime
        /\ \A w : Owes(tick[k], t0, w) <=> w = v
        /\ tasks' = tasks /\ cursors' = [cursors EXCEPT ![t0] = Max2(@, v)]
    <3>1. LaunchBooked(k, t0, v)
      BY <2>1, <2>2, <2>3 DEF LaunchBooked
    <3> QED
      BY <3>1, DoRecordLatest
  <2>5. /\ Alone(k) /\ tick'[k].now = tick[k].now
        /\ \A t, w : Owes(tick'[k], t, w) <=> Owes(tick[k], t, w) /\ t # t0
        /\ tick'[k].pc = "spawn" => tick'[k].groups = tick[k].groups
    <3>1. CASE RejectLaunch(k)
      BY <2>1, <3>1, DoLeave
    <3>2. CASE RecordLaunch(k)
      BY <2>1, <3>2, DoRecordLaunch
    <3> QED
      BY <1>3, <3>1, <3>2
  <2>6. tick'[k].pc = "spawn" => First(tick'[k]).task = t0 /\ Last(First(tick'[k]).windows) = v
    BY <2>1, <2>5 DEF First
  <2>7. \A t, w : Owes(tick'[k], t, w) <=> Owes(tick[k], t, w) /\ ~(t = t0 /\ w = v)
    BY <2>4, <2>5
  <2>8. Records(k, t0, v)
    BY <1>1, <2>4, <2>5, <2>6, <2>7 DEF Records
  <2> QED
    BY <2>8
<1> QED
  BY <1>2, <1>3

\* The runs are typed.
LEMMA ChildrenTyped ==
  ASSUME TypeInv
  PROVE  /\ \A i \in DOMAIN children : /\ children[i].task \in TaskIds
                                       /\ children[i].at \in 1..MaxTime /\ children[i].at \in Nat
         /\ cursors \in [TaskIds -> 0..MaxTime] /\ MaxTime \in Nat /\ now \in Nat
         /\ \A k \in Ticks : tick[k].now \in Nat /\ tick[k].now <= now
<1>1. children \in Seq(ChildRecord) /\ now \in Nat /\ MaxTime \in Nat
  BY Bounds DEF TypeInv, ClockTypes
<1>2. \A i \in DOMAIN children : children[i] \in ChildRecord
  BY <1>1, ElementOfSeq, LenProperties
<1>3. \A k \in Ticks : tick[k].now \in Nat /\ tick[k].now <= now
  BY <1>1 DEF TypeInv, TickTypes, TickRecord, Proper
<1> QED
  BY SMTT(40), <1>1, <1>2, <1>3 DEF ChildRecord, TypeInv, StoreTypes

LEMMA WindowQuiet ==
  ASSUME WindowInv, NEW k \in Ticks, Quiet(k)
  PROVE  WindowInv'
<1>1. /\ \A t, w : Later(t, w)' <=> Later(t, w)
      /\ WindowRunsOnce'
      /\ \A i \in DOMAIN children' : Done(i)'
  BY DEF Quiet, Still, Knows, Later, Past, Done, WindowInv, WindowRunsOnce
<1>2. ASSUME NEW j \in Ticks, NEW t \in TaskIds, NEW w \in 1..MaxTime, Owes(tick'[j], t, w)
      PROVE  Due(j, t, w)'
  <2>1. Owes(tick[j], t, w) /\ tick'[j].now = tick[j].now
    BY <1>2 DEF Quiet, Alone
  <2>2. Due(j, t, w)
    BY <2>1 DEF WindowInv
  <2>3. outdated' = outdated /\ (j \notin shared' => j \notin shared)
    BY <1>2 DEF Quiet, Knows
  <2> QED
    BY <1>1, <2>1, <2>2, <2>3 DEF Due, Quiet, Still
<1>3. ASSUME NEW j \in Ticks, tick'[j].pc = "spawn"
      PROVE  Launched(j)'
  <2>1. tick'[j] = tick[j] /\ tick[j].pc = "spawn"
    BY <1>3 DEF Quiet, Alone
  <2>2. Launching(j)' = Launching(j) /\ UNCHANGED <<now, cursors, tasks, children>>
    BY <2>1 DEF Launching, Quiet, Still
  <2>3. outdated' = outdated /\ (j \notin shared' => j \notin shared)
    BY <1>3 DEF Quiet, Knows
  <2>4. Launched(j)
    BY <2>1 DEF WindowInv
  <2> QED
    BY <2>2, <2>3, <2>4 DEF Launched, Past, Later
<1> QED
  BY <1>1, <1>2, <1>3 DEF WindowInv

LEMMA WindowRecords ==
  ASSUME TypeInv, SharedInv, WindowInv, NEW k \in Ticks, NEW t0, NEW v, Records(k, t0, v)
  PROVE  WindowInv'
<1>1. /\ \A i \in DOMAIN children : /\ children[i].task \in TaskIds
                                    /\ children[i].at \in 1..MaxTime /\ children[i].at \in Nat
      /\ cursors \in [TaskIds -> 0..MaxTime] /\ MaxTime \in Nat /\ now \in Nat
      /\ tick[k].now \in Nat /\ tick[k].now <= now
  BY ChildrenTyped
<1>2. /\ UNCHANGED <<now, tasks, children, shared, outdated>> /\ tick'[k].now = tick[k].now
      /\ t0 \in TaskIds /\ v \in 1..MaxTime /\ Owes(tick[k], t0, v) /\ Alone(k)
      /\ \A w : Owes(tick[k], t0, w) => w = v \/ w > v
      /\ \A t, w : Owes(tick'[k], t, w) <=> Owes(tick[k], t, w) /\ ~(t = t0 /\ w = v)
      /\ cursors' = [cursors EXCEPT ![t0] = Max2(@, v)]
  BY DEF Records
<1>3. v <= tick[k].now /\ (t0 \notin outdated => Later(t0, v))
  BY <1>2 DEF WindowInv, Due
<1>4. /\ cursors'[t0] = Max2(cursors[t0], v) /\ cursors'[t0] \in Nat /\ cursors'[t0] >= v
      /\ cursors'[t0] # 0 /\ v \in Nat
      /\ \A t \in TaskIds : t # t0 => cursors'[t] = cursors[t]
  <2>1. cursors[t0] \in Nat /\ v \in Nat /\ v # 0
    BY <1>1, <1>2
  <2>2. /\ Max2(cursors[t0], v) >= v /\ Max2(cursors[t0], v) # 0 /\ Max2(cursors[t0], v) \in Nat
    BY <2>1 DEF Max2
  <2> QED
    BY <1>1, <1>2, <2>1, <2>2
<1>5. \A t, w : Later(t, w)' <=> Later(t, w)
  BY <1>2 DEF Later
<1>6. \A t \in TaskIds : \A w : t # t0 /\ Past(t, w) => Past(t, w)'
  BY <1>2, <1>4 DEF Past
<1>7. \A w \in Nat : w <= v => Past(t0, w)'
  BY <1>4 DEF Past
<1>8. ASSUME NEW i \in DOMAIN children
      PROVE  Done(i)'
  <2>1. PICK tc, ac : tc = children[i].task /\ ac = children[i].at
    OBVIOUS
  <2>2. Done(i) /\ tc \in TaskIds /\ ac \in Nat
    BY <1>1, <2>1 DEF WindowInv
  <2>3. children'[i] = children[i] /\ now' = now /\ outdated' = outdated
    BY <1>2
  <2>4. ASSUME children[i].alone, tc \notin outdated PROVE Past(tc, ac)'
    <3>1. CASE tc = t0
      <4>1. ac < v
        BY <1>3, <2>1, <2>4, <3>1 DEF Later
      <4> QED
        BY <1>4, <1>7, <2>2, <3>1, <4>1
    <3>2. CASE tc # t0
      BY <1>6, <2>1, <2>2, <2>4, <3>2 DEF Done
    <3> QED
      BY <3>1, <3>2
  <2> HIDE DEF Past
  <2> QED
    BY <2>1, <2>2, <2>3, <2>4 DEF Done
<1>13. ASSUME NEW j \in Ticks, j # k, j \notin shared PROVE tick[j].pc = "idle" /\ \A t, w : ~Owes(tick[j], t, w)
  <2>1. tick[k].pc # "idle"
    BY <1>2, IdleOwes
  <2> QED
    BY <1>13, <2>1, Sole
<1>9. ASSUME NEW j \in Ticks, NEW t \in TaskIds, NEW w \in 1..MaxTime, Owes(tick'[j], t, w)
      PROVE  Due(j, t, w)'
  <2>1. Owes(tick[j], t, w) /\ (j = k => ~(t = t0 /\ w = v)) /\ tick'[j].now = tick[j].now
    BY <1>2, <1>9 DEF Alone
  <2>2. Due(j, t, w)
    BY <2>1 DEF WindowInv
  <2>3. ASSUME t \notin outdated, j \notin shared PROVE w > cursors'[t]
    <3>1. j = k
      BY <1>13, <2>1, <2>3
    <3>2. w > cursors[t]
      BY <2>2, <2>3 DEF Due
    <3>3. CASE t = t0
      <4>1. w > v
        BY <1>2, <2>1, <3>1, <3>3
      <4>2. w > Max2(cursors[t0], v)
        BY <3>2, <3>3, <4>1 DEF Max2
      <4> QED
        BY <1>4, <3>3, <4>2
    <3> QED
      BY <1>4, <3>2, <3>3
  <2> QED
    BY <1>2, <1>5, <2>1, <2>2, <2>3 DEF Due
<1>10. ASSUME NEW j \in Ticks, tick'[j].pc = "spawn"
       PROVE  Launched(j)'
  <2>1. CASE j = k
    <3>1. Launching(k)'.task = t0 /\ Launching(k)'.at = v
      BY <1>10, <2>1 DEF Launching, Records, First
    <3>2. v <= now' /\ v <= v
      BY <1>1, <1>2, <1>3, <1>4
    <3>3. Past(t0, v)' /\ (t0 \notin outdated' => Later(t0, v)')
      BY <1>2, <1>3, <1>4, <1>5, <1>7, <3>2
    <3> QED
      BY <2>1, <3>1, <3>2, <3>3 DEF Launched
  <2>2. CASE j # k
    <3>1. tick'[j] = tick[j] /\ tick[j].pc = "spawn"
      BY <1>2, <1>10, <2>2 DEF Alone
    <3>2. Launching(j)' = Launching(j) /\ UNCHANGED <<now, tasks, children, shared, outdated>>
      BY <1>2, <3>1 DEF Launching
    <3>3. Launched(j) /\ j \in shared
      BY <1>13, <2>2, <3>1 DEF WindowInv
    <3> QED
      BY <3>2, <3>3 DEF Launched, Later
  <2> QED
    BY <2>1, <2>2
<1>11. WindowRunsOnce'
  BY <1>2 DEF WindowInv, WindowRunsOnce
<1>12. DOMAIN children' = DOMAIN children
  BY <1>2
<1> QED
  BY <1>8, <1>9, <1>10, <1>11, <1>12 DEF WindowInv

\* What a tick owes after its evaluation is the plan of its tasks.
Planned(k, at) ==
    /\ Alone(k) /\ Still /\ UNCHANGED <<shared, outdated>>
    /\ tick'[k].now = at /\ tick'[k].pc = "book" /\ at \in 0..MaxTime
    /\ \A t, w : Owes(tick'[k], t, w) => \E j \in DOMAIN tasks :
           tasks[j].id = t /\ tasks[j].enabled /\ w \in PlanOf(tasks[j], at)
    /\ \A j \in DOMAIN tasks : tasks[j].enabled =>
           \A w \in PlanOf(tasks[j], at) : Owes(tick'[k], tasks[j].id, w)

LEMMA DoPlan ==
  ASSUME TypeInv, NEW k \in Ticks, Evaluate(k), NEW at, at = tick[k].now
  PROVE  Planned(k, at)
<1> DEFINE e == tick'[k]
<1>1. Alone(k) /\ e.pc = "book" /\ e.book = Plan(at).book /\ e.groups = Plan(at).groups /\ e.now = at
  BY DoEvaluate DEF Same
<1>2. /\ at \in 0..MaxTime /\ cursors \in [TaskIds -> 0..MaxTime] /\ bootAt \in 0..MaxTime
      /\ TasksOK
  BY DEF TypeInv, StoreTypes, ClockTypes, TickTypes, TickRecord
<1>3. Still /\ UNCHANGED <<shared, outdated>>
  BY DEF Evaluate, Still, store, history
<1> HIDE DEF e
<1>4. /\ \A t, w : Owes(e, t, w) => \E j \in DOMAIN tasks :
                tasks[j].id = t /\ tasks[j].enabled /\ w \in PlanOf(tasks[j], at)
      /\ \A j \in DOMAIN tasks : tasks[j].enabled =>
                \A w \in PlanOf(tasks[j], at) : Owes(e, tasks[j].id, w)
  BY <1>1, <1>2, PlanInOrder
<1> QED
  BY <1>1, <1>2, <1>3, <1>4 DEF e, Planned

\* The windows of a plan lie after the anchor and up to the tick's time, without gaps.
LEMMA PlanWindows ==
  ASSUME TypeInv, NEW h \in DOMAIN tasks, NEW at \in 0..MaxTime, NEW w \in PlanOf(tasks[h], at)
  PROVE  /\ Anchor(tasks[h]) \in 1..MaxTime /\ w \in 1..MaxTime /\ w <= at /\ w > Anchor(tasks[h])
         /\ \A x \in 1..MaxTime :
                x < w /\ x > Anchor(tasks[h]) /\ (x - Anchor(tasks[h])) % Every = 0 =>
                    x < bootAt \/ x \in PlanOf(tasks[h], at)
         /\ \A v \in PlanOf(tasks[h], at), x \in 1..MaxTime :
                x < w /\ x > v /\ (x - v) % Every = 0 => x < bootAt \/ x \in PlanOf(tasks[h], at)
<1> DEFINE t == tasks[h]
           W == ToSet(Windows(t, at))
           P == PlanOf(t, at)
           A == Anchor(t)
<1>1. /\ cursors \in [TaskIds -> 0..MaxTime] /\ bootAt \in 0..MaxTime /\ MaxTime \in Nat
      /\ tasks \in Seq(TaskRecord)
  BY Bounds DEF TypeInv, StoreTypes, ClockTypes, TasksOK
<1>2. t \in TaskRecord
  BY <1>1, ElementOfSeq, LenProperties
<1> HIDE DEF t
<1>3. /\ A \in 1..MaxTime /\ \A y \in W : y \in 1..at /\ y > A
      /\ \A y \in W, x \in Nat : x < y /\ x > A /\ (x - A) % Every = 0 => x \in W
      /\ \A v, y \in W, x \in Nat : x < y /\ x > v /\ (x - v) % Every = 0 => x \in W
  BY <1>1, <1>2, WindowsOf
<1>4. P \subseteq W /\ \A y \in P, x \in W : x < y => x < bootAt \/ x \in P
  BY <1>1, <1>2, TaskPlan
<1>5. w \in P /\ P = PlanOf(tasks[h], at) /\ A = Anchor(tasks[h])
  BY DEF t
<1> HIDE DEF W, P, A
<1>6. w \in W /\ w \in 1..at /\ at \in Nat /\ at <= MaxTime
  BY <1>1, <1>3, <1>4, <1>5
<1>7. w \in 1..MaxTime /\ w <= at /\ w > A
  BY <1>1, <1>3, <1>6
<1>8. ASSUME NEW x \in 1..MaxTime, x < w, x > A, (x - A) % Every = 0 PROVE x < bootAt \/ x \in P
  BY <1>1, <1>3, <1>4, <1>5, <1>6, <1>8
<1>9. ASSUME NEW v \in P, NEW x \in 1..MaxTime, x < w, x > v, (x - v) % Every = 0
      PROVE  x < bootAt \/ x \in P
  BY <1>1, <1>3, <1>4, <1>5, <1>6, <1>9
<1> QED
  BY <1>3, <1>5, <1>7, <1>8, <1>9

\* The anchor of a task, and that its windows are past when they ran
LEMMA Anchored ==
  ASSUME TypeInv, WindowInv, NEW h \in DOMAIN tasks, NEW w \in Nat, w > Anchor(tasks[h])
  PROVE  /\ w > cursors[tasks[h].id] /\ (tasks[h].id \notin outdated => Later(tasks[h].id, w))
         /\ Anchor(tasks[h]) = IF cursors[tasks[h].id] # 0 THEN cursors[tasks[h].id]
                               ELSE tasks[h].createdAt
         /\ tasks[h].id \in TaskIds /\ tasks[h].createdAt \in 1..MaxTime
<1> DEFINE t == tasks[h].id
           c == tasks[h].createdAt
<1>1. tasks \in Seq(TaskRecord) /\ MaxTime \in Nat
  BY Bounds DEF TypeInv, StoreTypes, TasksOK
<1>2. tasks[h] \in TaskRecord
  BY <1>1, ElementOfSeq, LenProperties
<1>3. t \in TaskIds /\ c \in 1..MaxTime /\ c \in Nat
  BY <1>1, <1>2 DEF TaskRecord
<1>4. cursors[t] \in 0..MaxTime /\ cursors[t] \in Nat
  BY <1>1, <1>3 DEF TypeInv, StoreTypes
<1>5. Anchor(tasks[h]) = IF cursors[t] # 0 THEN cursors[t] ELSE c
  BY DEF Anchor
<1>6. \A i \in DOMAIN children : children[i].at \in Nat
  BY ChildrenTyped
<1>7. ASSUME t \notin outdated, NEW i \in DOMAIN children, children[i].task = t, children[i].alone
      PROVE  children[i].at < w
  <2>1. Past(t, children[i].at)
    BY <1>7 DEF WindowInv, Done
  <2>2. /\ cursors[t] # 0 => children[i].at <= cursors[t]
        /\ cursors[t] = 0 => children[i].at <= c
    BY <2>1 DEF Past
  <2> QED
    BY <1>3, <1>4, <1>5, <1>6, <2>2
<1>8. w > cursors[t]
  BY <1>3, <1>4, <1>5
<1> QED
  BY <1>3, <1>5, <1>7, <1>8 DEF Later

LEMMA WindowEvaluate ==
  ASSUME TypeInv, WindowInv, NEW k \in Ticks, Evaluate(k)
  PROVE  WindowInv'
<1> DEFINE at == tick[k].now
<1>0. at = tick[k].now
  OBVIOUS
<1> HIDE DEF at
<1>1. /\ Alone(k) /\ Still /\ UNCHANGED <<shared, outdated>> /\ tick'[k].now = at /\ tick'[k].pc = "book" /\ at \in 0..MaxTime
      /\ \A t, w : Owes(tick'[k], t, w) => \E j \in DOMAIN tasks :
                tasks[j].id = t /\ tasks[j].enabled /\ w \in PlanOf(tasks[j], at)
  <2>1. Planned(k, at)
    BY <1>0, DoPlan
  <2> QED
    BY <2>1 DEF Planned
<1>2. /\ \A t, w : Later(t, w)' <=> Later(t, w)
      /\ WindowRunsOnce' /\ cursors' = cursors /\ now' = now /\ UNCHANGED <<shared, outdated>>
      /\ \A i \in DOMAIN children' : Done(i)'
  BY <1>1 DEF Still, Later, Past, Done, WindowInv, WindowRunsOnce
<1>3. ASSUME NEW j \in Ticks, NEW t \in TaskIds, NEW w \in 1..MaxTime, Owes(tick'[j], t, w)
      PROVE  Due(j, t, w)'
  <2>1. CASE j = k
    <3>1. PICK h \in DOMAIN tasks : tasks[h].id = t /\ w \in PlanOf(tasks[h], at)
      BY <1>1, <1>3, <2>1
    <3>2. w <= at /\ w > Anchor(tasks[h]) /\ w \in Nat
      BY <1>1, <3>1, PlanWindows, Bounds
    <3>3. w > cursors[t] /\ (t \notin outdated => Later(t, w))
      BY <3>1, <3>2, Anchored
    <3> QED
      BY <1>1, <1>2, <2>1, <3>2, <3>3 DEF Due
  <2>2. CASE j # k
    <3>1. tick'[j] = tick[j]
      BY <1>1, <2>2 DEF Alone
    <3>2. Due(j, t, w)
      BY <1>3, <3>1 DEF WindowInv
    <3> QED
      BY <1>2, <3>1, <3>2 DEF Due
  <2> QED
    BY <2>1, <2>2
<1>4. ASSUME NEW j \in Ticks, tick'[j].pc = "spawn"
      PROVE  Launched(j)'
  <2>1. tick'[j] = tick[j] /\ tick[j].pc = "spawn"
    BY <1>1, <1>4 DEF Alone
  <2>2. Launching(j)' = Launching(j) /\ UNCHANGED <<now, cursors, tasks, children, shared, outdated>>
    BY <1>1, <2>1 DEF Launching, Still
  <2>3. Launched(j)
    BY <2>1 DEF WindowInv
  <2> QED
    BY <2>2, <2>3 DEF Launched, Past, Later
<1> QED
  BY <1>2, <1>3, <1>4 DEF WindowInv

LEMMA WindowSpawn ==
  ASSUME TypeInv, SharedInv, WindowInv, NEW k \in Ticks, Spawn(k)
  PROVE  WindowInv'
<1>1. PICK n, t0, v : n = Len(children) /\ t0 = First(tick[k]).task /\ v = Last(First(tick[k]).windows)
  OBVIOUS
<1>2. Launching(k).task = t0 /\ Launching(k).at = v
  BY <1>1 DEF Launching, First
<1>3. /\ n \in Nat /\ DOMAIN children = 1..n /\ DOMAIN children' = 1..(n + 1)
      /\ \A i \in 1..n : children'[i] = children[i]
      /\ children'[n + 1].task = t0 /\ children'[n + 1].at = v
      /\ children'[n + 1].alone = (k \notin shared)
  BY <1>1, Spawned
<1>4. tick[k].pc = "spawn" /\ UNCHANGED <<now, tasks, cursors, shared, outdated>>
  <2>1. UNCHANGED <<shared, outdated>>
    BY DEF Spawn, history
  <2> QED
    BY <2>1, DoSpawn
<1>5. /\ Alone(k) /\ tick'[k].now = tick[k].now /\ tick'[k].pc = "book"
      /\ \A t, w : Owes(tick'[k], t, w) <=> Owes(tick[k], t, w) /\ t # t0
  BY <1>1, DoLeave
<1>6. /\ v <= now
      /\ t0 \notin outdated => Later(t0, v)
      /\ t0 \notin outdated /\ k \notin shared => Past(t0, v)
  BY <1>2, <1>4 DEF WindowInv, Launched
<1>7. \A t, w : Past(t, w)' <=> Past(t, w)
  BY <1>4 DEF Past
<1>8. /\ \A i \in DOMAIN children' : i \in 1..n \/ i = n + 1
      /\ \A i \in 1..n : i \in DOMAIN children /\ i \in Nat /\ i < n + 1
  BY <1>3
<1>14. v \in Nat
  BY <1>1, DoSpawn, Bounds
<1>9. ASSUME NEW i \in DOMAIN children'
      PROVE  Done(i)'
  <2>1. CASE i \in 1..n
    <3>1. Done(i)
      BY <1>3, <2>1 DEF WindowInv
    <3> QED
      BY <1>3, <1>4, <2>1, <3>1 DEF Done, Past
  <2>2. CASE i = n + 1
    <3>1. v <= now' /\ (t0 \notin outdated /\ k \notin shared => Past(t0, v)')
      BY <1>4, <1>6, <1>7
    <3> HIDE DEF Past
    <3> QED
      BY <1>3, <1>4, <2>2, <3>1 DEF Done
  <2> QED
    BY <1>8, <2>1, <2>2
<1>10. WindowRunsOnce'
  <2> SUFFICES ASSUME NEW i \in DOMAIN children', NEW j \in DOMAIN children', i < j,
                      children'[i].task = children'[j].task, children'[i].at = children'[j].at,
                      children'[i].alone, children'[i].task \notin outdated'
               PROVE  FALSE
    BY DEF WindowRunsOnce
  <2>1. CASE i \in 1..n /\ j \in 1..n
    BY <1>3, <1>4, <1>8, <2>1 DEF WindowInv, WindowRunsOnce
  <2>2. CASE i \in 1..n /\ j = n + 1
    <3>1. children[i].task = t0 /\ children[i].alone /\ t0 \notin outdated /\ children[i].at = v
      BY <1>3, <1>4, <2>2
    <3>2. children[i].at < v
      BY <1>6, <1>8, <2>2, <3>1 DEF Later
    <3> QED
      BY <1>14, <3>1, <3>2
  <2>3. CASE i = n + 1
    BY <1>3, <1>8, <2>3
  <2> QED
    BY <1>8, <2>1, <2>2, <2>3
<1>12. ASSUME NEW j \in Ticks, j # k, k \notin shared \/ j \notin shared
       PROVE  tick[j].pc = "idle" /\ \A t, w : ~Owes(tick[j], t, w)
  BY <1>4, <1>12, Sole
<1>13. \A t, w : Later(t, w) /\ (t = t0 => k \in shared) => Later(t, w)'
  BY <1>3, <1>8 DEF Later
<1>11. ASSUME NEW j \in Ticks, NEW t \in TaskIds, NEW w \in 1..MaxTime, Owes(tick'[j], t, w)
       PROVE  Due(j, t, w)'
  <2>1. Owes(tick[j], t, w) /\ (j = k => t # t0) /\ tick'[j].now = tick[j].now
    BY <1>5, <1>11 DEF Alone
  <2>2. Due(j, t, w)
    BY <2>1 DEF WindowInv
  <2>3. t = t0 => k \in shared
    BY <1>12, <2>1
  <2>4. Later(t, w) => Later(t, w)'
    BY <1>13, <2>3
  <2> QED
    BY <1>4, <2>1, <2>2, <2>4 DEF Due
<1>15. ASSUME NEW j \in Ticks, tick'[j].pc = "spawn"
       PROVE  Launched(j)'
  <2>1. j # k /\ tick'[j] = tick[j] /\ tick[j].pc = "spawn"
    BY <1>5, <1>15 DEF Alone
  <2>2. k \in shared /\ j \in shared
    BY <1>12, <2>1
  <2>3. PICK tc, ac : tc = Launching(j).task /\ ac = Launching(j).at
    OBVIOUS
  <2>4. Launching(j)'.task = tc /\ Launching(j)'.at = ac
    BY <2>1, <2>3 DEF Launching
  <2>5. ac <= now /\ (tc \notin outdated => Later(tc, ac))
    BY <2>1, <2>3 DEF WindowInv, Launched
  <2>6. ac <= now' /\ (tc \notin outdated' => Later(tc, ac)')
    BY <1>4, <1>13, <2>2, <2>5
  <2> QED
    BY <1>4, <2>2, <2>4, <2>6 DEF Launched
<1> QED
  BY <1>9, <1>10, <1>11, <1>15 DEF WindowInv

\* The runs keep their tasks and windows, and the ticks stay or are idle.
LEMMA WindowSame ==
  ASSUME TypeInv, WindowInv, UNCHANGED <<tasks, cursors, outdated>>, now' \in Nat, now' >= now,
         DOMAIN children' = DOMAIN children,
         \A i \in DOMAIN children : /\ children'[i].task = children[i].task
                                    /\ children'[i].at = children[i].at
                                    /\ children'[i].alone = children[i].alone,
         UNCHANGED <<tick, shared>> \/ tick' = [k \in Ticks |-> IdleTick]
  PROVE  WindowInv'
<1>1. /\ \A t, w : Later(t, w)' <=> Later(t, w)
      /\ \A t, w : Past(t, w)' <=> Past(t, w)
      /\ WindowRunsOnce'
  BY DEF Later, Past, WindowInv, WindowRunsOnce
<1>2. now \in Nat /\ \A i \in DOMAIN children : children[i].at \in Nat
  BY ChildrenTyped
<1>3. ASSUME NEW i \in DOMAIN children'
      PROVE  Done(i)'
  <2>1. Done(i)
    BY DEF WindowInv
  <2>2. children[i].at <= now'
    BY <1>2, <2>1 DEF Done
  <2> QED
    BY <2>1, <2>2 DEF Done, Past
<1>4. CASE UNCHANGED <<tick, shared>>
  <2>1. ASSUME NEW k \in Ticks, tick[k].pc = "spawn"
        PROVE  Launched(k)'
    <3>1. Launching(k)' = Launching(k)
      BY <1>4 DEF Launching
    <3>2. Launched(k)
      BY <2>1 DEF WindowInv
    <3>3. Launching(k).at \in Nat
      <4> DEFINE q == tick[k]
                 z == First(q).windows
      <4>1. q.groups \in Seq(Batch) /\ q.groups # <<>>
        BY <2>1 DEF TypeInv, TickTypes, TickRecord, Ordered
      <4>2. First(q) \in Batch
        BY <4>1, FirstAndRest DEF First
      <4>3. z \in Seq(1..MaxTime) /\ z # <<>>
        BY <4>2 DEF Batch, WindowLists
      <4>4. Launching(k).at = Last(z)
        BY DEF Launching, First
      <4> HIDE DEF z
      <4>5. Last(z) \in 1..MaxTime
        BY <4>3, LastOf
      <4> QED
        BY <4>4, <4>5, Bounds
    <3>4. Launching(k).at <= now'
      BY <1>2, <3>2, <3>3 DEF Launched
    <3> QED
      BY <1>4, <3>1, <3>2, <3>4 DEF Launched, Past, Later
  <2>2. ASSUME NEW k \in Ticks, NEW t \in TaskIds, NEW w \in 1..MaxTime, Owes(tick'[k], t, w)
        PROVE  Due(k, t, w)'
    <3>1. Due(k, t, w)
      BY <1>4, <2>2 DEF WindowInv
    <3> QED
      BY <1>1, <1>4, <3>1 DEF Due
  <2> QED
    BY <1>1, <1>3, <1>4, <2>1, <2>2 DEF WindowInv
<1>5. CASE tick' = [k \in Ticks |-> IdleTick]
  <2>1. \A k \in Ticks : tick'[k].pc # "spawn" /\ \A t, w : ~Owes(tick'[k], t, w)
    BY <1>5, IdleTyped, Empty
  <2> QED
    BY <1>1, <1>3, <2>1 DEF WindowInv
<1> QED
  BY <1>4, <1>5

LEMMA WindowEdit ==
  ASSUME TypeInv, WindowInv, TableEdited
  PROVE  WindowInv'
<1>1. UNCHANGED <<now, tick, children, shared>> /\ outdated \subseteq outdated'
  BY DEF TableEdited
<1>2. \/ cursors' = cursors
      \/ \E t \in TaskIds : /\ cursors' = [cursors EXCEPT ![t] = 0]
                            /\ \A j \in DOMAIN tasks' : tasks'[j].id # t
  BY DEF TableEdited
<1>3. \A j \in DOMAIN tasks' :
          \/ tasks'[j].id \in outdated'
          \/ tasks'[j].createdAt = now
          \/ \E h \in DOMAIN tasks : /\ tasks'[j].id = tasks[h].id
                                     /\ tasks'[j].createdAt = tasks[h].createdAt
  BY DEF TableEdited
<1>4. cursors \in [TaskIds -> 0..MaxTime] /\ MaxTime \in Nat
  BY ChildrenTyped
<1>5. ASSUME NEW t \in TaskIds, NEW w, w <= now, Past(t, w), t \notin outdated'
      PROVE  Past(t, w)'
  <2>1. \/ cursors'[t] = cursors[t]
        \/ cursors'[t] = 0 /\ \A j \in DOMAIN tasks' : tasks'[j].id # t
    BY <1>2, <1>4
  <2>2. CASE cursors'[t] = cursors[t]
    BY <1>3, <1>5, <2>2 DEF Past
  <2>3. CASE cursors'[t] = 0 /\ \A j \in DOMAIN tasks' : tasks'[j].id # t
    BY <2>3 DEF Past
  <2> QED
    BY <2>1, <2>2, <2>3
<1>6. \A t, w : Later(t, w)' <=> Later(t, w)
  BY <1>1 DEF Later
<1>7. \A t \in TaskIds, w \in 1..MaxTime : w > cursors[t] => w > cursors'[t]
  BY <1>2, <1>4
<1>8. ASSUME NEW i \in DOMAIN children
      PROVE  Done(i)'
  <2>1. PICK tc, ac : tc = children[i].task /\ ac = children[i].at
    OBVIOUS
  <2>2. tc \in TaskIds /\ ac <= now /\ (children[i].alone /\ tc \notin outdated => Past(tc, ac))
    BY <2>1, ChildrenTyped DEF WindowInv, Done
  <2>3. children[i].alone /\ tc \notin outdated' => Past(tc, ac)'
    BY <1>1, <1>5, <2>2
  <2>4. children'[i] = children[i] /\ now' = now
    BY <1>1
  <2> HIDE DEF Past
  <2> QED
    BY <2>1, <2>2, <2>3, <2>4 DEF Done
<1>9. ASSUME NEW k \in Ticks, tick[k].pc = "spawn"
      PROVE  Launched(k)'
  <2>1. PICK tc, ac : tc = Launching(k).task /\ ac = Launching(k).at
    OBVIOUS
  <2>2. tc \in TaskIds
    <3>1. tick[k].groups \in Seq(Batch) /\ tick[k].groups # <<>>
      BY <1>9 DEF TypeInv, TickTypes, TickRecord, Ordered
    <3>2. Head(tick[k].groups) \in Batch
      BY <3>1, FirstAndRest
    <3> QED
      BY <2>1, <3>2 DEF Launching, Batch
  <2>3. /\ ac <= now
        /\ tc \notin outdated => Later(tc, ac)
        /\ tc \notin outdated /\ k \notin shared => Past(tc, ac)
    BY <1>9, <2>1 DEF WindowInv, Launched
  <2>4. /\ ac <= now'
        /\ tc \notin outdated' => Later(tc, ac)'
        /\ tc \notin outdated' /\ k \notin shared' => Past(tc, ac)'
    BY <1>1, <1>5, <1>6, <2>2, <2>3
  <2>5. Launching(k)'.task = tc /\ Launching(k)'.at = ac
    BY <1>1, <2>1 DEF Launching
  <2> HIDE DEF Past, Later
  <2> QED
    BY <2>4, <2>5 DEF Launched
<1>10. WindowRunsOnce'
  BY <1>1 DEF WindowInv, WindowRunsOnce
<1>11. ASSUME NEW k \in Ticks, NEW t \in TaskIds, NEW w \in 1..MaxTime, Owes(tick'[k], t, w)
       PROVE  Due(k, t, w)'
  <2>1. Due(k, t, w)
    BY <1>1, <1>11 DEF WindowInv
  <2> QED
    BY <1>1, <1>6, <1>7, <2>1 DEF Due
<1> QED
  BY <1>1, <1>8, <1>9, <1>10, <1>11 DEF WindowInv

-----------------------------------------------------------------------------
(* Gaps *)

\* Gap in the state that follows
GapNext(q, t, v, w) ==
    \A x \in 1..MaxTime :
        v < x /\ x < w /\ (x - v) % Every = 0 => x < bootAt' \/ Owes(q, t, x)

\* GapInv holds of tick j in the state that follows.
GapsNext(j) ==
    \A t \in TaskIds \ outdated', w \in 1..MaxTime : Owes(tick'[j], t, w) =>
        /\ cursors'[t] # 0 => GapNext(tick'[j], t, cursors'[t], w)
        /\ cursors'[t] = 0 => \A h \in DOMAIN tasks' :
                                 tasks'[h].id = t => GapNext(tick'[j], t, tasks'[h].createdAt, w)
        /\ \A v \in 1..MaxTime : Owes(tick'[j], t, v) => GapNext(tick'[j], t, v, w)

LEMMA GapsFollow ==
  ASSUME \A j \in Ticks \ shared' : GapsNext(j)
  PROVE  GapInv'
  BY DEF GapInv, GapsNext, Gap, GapNext

\* Fewer windows are owed, but no gap comes up: those of a task go together.
LEMMA GapQuiet ==
  ASSUME GapInv, NEW k \in Ticks, Alone(k), Knows, UNCHANGED <<tasks, cursors, bootAt>>,
         \/ \A t, w : ~Owes(tick'[k], t, w)
         \/ \E t0 : \A t, w : Owes(tick'[k], t, w) <=> Owes(tick[k], t, w) /\ t # t0
         \/ \A t, w : Owes(tick'[k], t, w) <=> Owes(tick[k], t, w)
  PROVE  GapInv'
<1>1. UNCHANGED <<cursors, tasks, bootAt>> /\ \A j \in Ticks : j # k => tick'[j] = tick[j]
  BY DEF Alone
<1>2. ASSUME NEW j \in Ticks, NEW t, NEW w, Owes(tick'[j], t, w)
      PROVE  \A x : Owes(tick'[j], t, x) <=> Owes(tick[j], t, x)
  BY <1>1, <1>2
<1>3. ASSUME NEW j \in Ticks \ shared', NEW t \in TaskIds \ outdated', NEW w \in 1..MaxTime, Owes(tick'[j], t, w)
      PROVE  /\ cursors'[t] # 0 => GapNext(tick'[j], t, cursors'[t], w)
             /\ cursors'[t] = 0 => \A h \in DOMAIN tasks' :
                                 tasks'[h].id = t => GapNext(tick'[j], t, tasks'[h].createdAt, w)
             /\ \A v \in 1..MaxTime : Owes(tick'[j], t, v) => GapNext(tick'[j], t, v, w)
  <2>1. \A x : Owes(tick'[j], t, x) <=> Owes(tick[j], t, x)
    BY <1>2, <1>3
  <2>2. \A v : Gap(tick[j], t, v, w) => GapNext(tick'[j], t, v, w)
    BY <1>1, <2>1 DEF Gap, GapNext
  <2>3. /\ cursors[t] # 0 => Gap(tick[j], t, cursors[t], w)
        /\ cursors[t] = 0 => \A h \in DOMAIN tasks :
                                 tasks[h].id = t => Gap(tick[j], t, tasks[h].createdAt, w)
        /\ \A v \in 1..MaxTime : Owes(tick[j], t, v) => Gap(tick[j], t, v, w)
    <3>1. j \notin shared /\ t \notin outdated /\ Owes(tick[j], t, w)
      BY <1>3, <2>1 DEF Knows
    <3> QED
      BY <3>1 DEF GapInv
  <2> QED
    BY <1>1, <2>1, <2>2, <2>3
<1> QED
  BY <1>3, GapsFollow DEF GapsNext

LEMMA GapRecords ==
  ASSUME TypeInv, SharedInv, WindowInv, GapInv, NEW k \in Ticks, NEW t0, NEW v0,
         Records(k, t0, v0)
  PROVE  GapInv'
<1>1. /\ UNCHANGED <<tasks, bootAt, shared, outdated>> /\ Alone(k) /\ t0 \in TaskIds /\ v0 \in 1..MaxTime /\ Owes(tick[k], t0, v0)
      /\ \A w : Owes(tick[k], t0, w) => w = v0 \/ w > v0
      /\ \A t, w : Owes(tick'[k], t, w) <=> Owes(tick[k], t, w) /\ ~(t = t0 /\ w = v0)
      /\ cursors' = [cursors EXCEPT ![t0] = Max2(@, v0)]
  BY DEF Records
<1>2. cursors \in [TaskIds -> 0..MaxTime] /\ MaxTime \in Nat
  BY ChildrenTyped
<1>3. /\ v0 # 0 /\ v0 \in Nat
      /\ k \notin shared /\ t0 \notin outdated => cursors'[t0] = v0
      /\ \A t \in TaskIds : t # t0 => cursors'[t] = cursors[t]
  <2>1. cursors[t0] \in Nat /\ v0 \in Nat /\ v0 # 0
    BY <1>1, <1>2
  <2>2. k \notin shared /\ t0 \notin outdated => v0 > cursors[t0]
    BY <1>1 DEF WindowInv, Due
  <2>3. k \notin shared /\ t0 \notin outdated => Max2(cursors[t0], v0) = v0
    BY <2>1, <2>2 DEF Max2
  <2> QED
    BY <1>1, <1>2, <2>1, <2>3
<1>4. ASSUME k \notin shared', NEW t \in TaskIds \ outdated', NEW w \in 1..MaxTime, Owes(tick'[k], t, w)
      PROVE  /\ cursors'[t] # 0 => GapNext(tick'[k], t, cursors'[t], w)
             /\ cursors'[t] = 0 => \A h \in DOMAIN tasks' :
                                 tasks'[h].id = t => GapNext(tick'[k], t, tasks'[h].createdAt, w)
             /\ \A v \in 1..MaxTime : Owes(tick'[k], t, v) => GapNext(tick'[k], t, v, w)
  <2>1. Owes(tick[k], t, w) /\ k \notin shared /\ t \notin outdated
    BY <1>1, <1>4
  <2>2. /\ cursors[t] # 0 => Gap(tick[k], t, cursors[t], w)
        /\ cursors[t] = 0 => \A h \in DOMAIN tasks :
                                 tasks[h].id = t => Gap(tick[k], t, tasks[h].createdAt, w)
        /\ \A v \in 1..MaxTime : Owes(tick[k], t, v) => Gap(tick[k], t, v, w)
    BY <2>1 DEF GapInv
  <2>3. CASE t # t0
    <3>1. \A x : Owes(tick'[k], t, x) <=> Owes(tick[k], t, x)
      BY <1>1, <2>3
    <3>2. \A v : Gap(tick[k], t, v, w) => GapNext(tick'[k], t, v, w)
      BY <1>1, <3>1 DEF Gap, GapNext
    <3> QED
      BY <1>1, <1>3, <2>2, <2>3, <3>1, <3>2
  <2>4. CASE t = t0
    <3>1. ASSUME NEW v \in 1..MaxTime, Owes(tick[k], t, v)
          PROVE  GapNext(tick'[k], t, v, w)
      <4>1. Gap(tick[k], t, v, w)
        BY <2>2, <3>1
      <4>2. v \in Nat /\ (v = v0 \/ v > v0)
        BY <1>1, <1>2, <2>4, <3>1
      <4> SUFFICES ASSUME NEW x \in 1..MaxTime, v < x, x < w, (x - v) % Every = 0
                   PROVE  x < bootAt' \/ Owes(tick'[k], t, x)
        BY DEF GapNext
      <4>3. x < bootAt \/ Owes(tick[k], t, x)
        BY <4>1 DEF Gap
      <4>4. x # v0
        BY <1>2, <1>3, <4>2
      <4> QED
        BY <1>1, <4>3, <4>4
    <3>2. GapNext(tick'[k], t, cursors'[t], w)
      BY <1>1, <1>3, <2>1, <2>4, <3>1
    <3>3. \A v \in 1..MaxTime : Owes(tick'[k], t, v) => GapNext(tick'[k], t, v, w)
      BY <1>1, <3>1
    <3> QED
      BY <1>3, <2>1, <2>4, <3>2, <3>3
  <2> QED
    BY <2>3, <2>4
<1>5. k \notin shared' => GapsNext(k)
  BY <1>4 DEF GapsNext
<1>6. ASSUME NEW j \in Ticks \ shared', j # k PROVE GapsNext(j)
  <2>1. tick[k].pc # "idle"
    BY <1>1, IdleOwes
  <2>2. \A t, w : ~Owes(tick[j], t, w)
    BY <1>1, <1>6, <2>1, Sole
  <2>3. tick'[j] = tick[j]
    BY <1>1, <1>6 DEF Alone
  <2> QED
    BY <2>2, <2>3 DEF GapsNext
<1> QED
  BY <1>5, <1>6, GapsFollow

LEMMA GapEvaluate ==
  ASSUME TypeInv, WindowInv, GapInv, NEW k \in Ticks, Evaluate(k)
  PROVE  GapInv'
<1> DEFINE at == tick[k].now
<1>0. at = tick[k].now
  OBVIOUS
<1> HIDE DEF at
<1>1. /\ Alone(k) /\ Still /\ UNCHANGED <<shared, outdated>> /\ at \in 0..MaxTime
      /\ \A t, w : Owes(tick'[k], t, w) => \E j \in DOMAIN tasks :
                tasks[j].id = t /\ tasks[j].enabled /\ w \in PlanOf(tasks[j], at)
      /\ \A j \in DOMAIN tasks : tasks[j].enabled =>
           \A w \in PlanOf(tasks[j], at) : Owes(tick'[k], tasks[j].id, w)
  <2>1. Planned(k, at)
    BY <1>0, DoPlan
  <2> QED
    BY <2>1 DEF Planned
<1>2. UNCHANGED <<cursors, tasks, bootAt, shared, outdated>>
  BY <1>1 DEF Still
<1>3. \A i, j \in DOMAIN tasks : tasks[i].id = tasks[j].id => i = j
  BY DEF TypeInv, StoreTypes, TasksOK
<1>4. ASSUME NEW t \in TaskIds, NEW w \in 1..MaxTime, Owes(tick'[k], t, w)
      PROVE  /\ cursors'[t] # 0 => GapNext(tick'[k], t, cursors'[t], w)
             /\ cursors'[t] = 0 => \A h \in DOMAIN tasks' :
                                 tasks'[h].id = t => GapNext(tick'[k], t, tasks'[h].createdAt, w)
             /\ \A v \in 1..MaxTime : Owes(tick'[k], t, v) => GapNext(tick'[k], t, v, w)
  <2>1. PICK h \in DOMAIN tasks : /\ tasks[h].id = t /\ tasks[h].enabled
                                  /\ w \in PlanOf(tasks[h], at)
    BY <1>1, <1>4
  <2> DEFINE P == PlanOf(tasks[h], at)
             A == Anchor(tasks[h])
  <2>2. A \in 1..MaxTime /\ w > A /\ w \in Nat
    BY <1>1, <2>1, PlanWindows, Bounds
  <2>3. \A x \in 1..MaxTime : x < w /\ x > A /\ (x - A) % Every = 0 => x < bootAt \/ x \in P
    BY <1>1, <2>1, PlanWindows
  <2>4. \A v \in P, x \in 1..MaxTime : x < w /\ x > v /\ (x - v) % Every = 0 => x < bootAt \/ x \in P
    BY <1>1, <2>1, PlanWindows
  <2>5. A = IF cursors[t] # 0 THEN cursors[t] ELSE tasks[h].createdAt
    BY <2>1, <2>2, Anchored
  <2>6. \A x \in P : Owes(tick'[k], t, x)
    BY <1>1, <2>1
  <2>7. \A x : Owes(tick'[k], t, x) => x \in P
    <3> SUFFICES ASSUME NEW x, Owes(tick'[k], t, x) PROVE x \in P
      OBVIOUS
    <3>1. PICK g \in DOMAIN tasks : tasks[g].id = t /\ x \in PlanOf(tasks[g], at)
      BY <1>1
    <3>2. g = h
      BY <1>3, <2>1, <3>1
    <3> QED
      BY <3>1, <3>2
  <2> HIDE DEF P, A
  <2>8. A \in Int /\ MaxTime \in Nat /\ w \in Int
    BY <2>2, Bounds
  <2>9. GapNext(tick'[k], t, A, w)
    <3> SUFFICES ASSUME NEW x \in 1..MaxTime, A < x, x < w, (x - A) % Every = 0
                 PROVE  x < bootAt' \/ Owes(tick'[k], t, x)
      BY DEF GapNext
    <3>1. x > A
      BY <2>8
    <3>2. x < bootAt \/ x \in P
      BY <2>3, <3>1
    <3> QED
      BY <1>2, <2>6, <3>2
  <2>10. ASSUME NEW v \in 1..MaxTime, Owes(tick'[k], t, v) PROVE GapNext(tick'[k], t, v, w)
    <3> SUFFICES ASSUME NEW x \in 1..MaxTime, v < x, x < w, (x - v) % Every = 0
                 PROVE  x < bootAt' \/ Owes(tick'[k], t, x)
      BY DEF GapNext
    <3>1. x > v /\ v \in P
      BY <2>7, <2>8, <2>10
    <3>2. x < bootAt \/ x \in P
      BY <2>4, <3>1
    <3> QED
      BY <1>2, <2>6, <3>2
  <2>11. \A g \in DOMAIN tasks' : tasks'[g].id = t => g = h
    BY <1>2, <1>3, <2>1
  <2> QED
    BY <1>2, <2>5, <2>9, <2>10, <2>11
<1>5. GapsNext(k)
  BY <1>4 DEF GapsNext
<1>6. ASSUME NEW j \in Ticks \ shared', j # k PROVE GapsNext(j)
  <2>1. tick'[j] = tick[j]
    BY <1>1, <1>6 DEF Alone
  <2> QED
    BY <1>2, <2>1 DEF GapInv, GapsNext, Gap, GapNext
<1> QED
  BY <1>5, <1>6, GapsFollow

\* Nothing is owed, or neither the ticks nor what the gaps depend on changes.
LEMMA GapSame ==
  ASSUME GapInv, \/ UNCHANGED <<tick, cursors, tasks, bootAt, shared, outdated>>
                 \/ \A k \in Ticks : \A t, w : ~Owes(tick'[k], t, w)
  PROVE  GapInv'
<1>1. CASE UNCHANGED <<tick, cursors, tasks, bootAt, shared, outdated>>
  BY <1>1 DEF GapInv, Gap
<1>2. CASE \A k \in Ticks : \A t, w : ~Owes(tick'[k], t, w)
  BY <1>2 DEF GapInv
<1> QED
  BY <1>1, <1>2

LEMMA GapEdit ==
  ASSUME TypeInv, WindowInv, GapInv, TableEdited
  PROVE  GapInv'
<1>1. UNCHANGED <<now, tick, bootAt, shared>> /\ outdated \subseteq outdated'
  BY DEF TableEdited
<1>2. \/ cursors' = cursors
      \/ \E t \in TaskIds : /\ cursors' = [cursors EXCEPT ![t] = 0]
                            /\ \A j \in DOMAIN tasks' : tasks'[j].id # t
  BY DEF TableEdited
<1>3. \A j \in DOMAIN tasks' :
          \/ tasks'[j].id \in outdated'
          \/ tasks'[j].createdAt = now
          \/ \E h \in DOMAIN tasks : /\ tasks'[j].id = tasks[h].id
                                     /\ tasks'[j].createdAt = tasks[h].createdAt
  BY DEF TableEdited
<1>4. /\ cursors \in [TaskIds -> 0..MaxTime] /\ MaxTime \in Nat /\ now \in Nat
      /\ \A k \in Ticks : tick[k].now \in Nat /\ tick[k].now <= now
  BY ChildrenTyped
<1>5. ASSUME NEW k \in Ticks \ shared', NEW t \in TaskIds \ outdated', NEW w \in 1..MaxTime, Owes(tick'[k], t, w)
      PROVE  /\ cursors'[t] # 0 => GapNext(tick'[k], t, cursors'[t], w)
             /\ cursors'[t] = 0 => \A h \in DOMAIN tasks' :
                                 tasks'[h].id = t => GapNext(tick'[k], t, tasks'[h].createdAt, w)
             /\ \A v \in 1..MaxTime : Owes(tick'[k], t, v) => GapNext(tick'[k], t, v, w)
  <2>1. Owes(tick[k], t, w) /\ k \in Ticks \ shared /\ t \in TaskIds \ outdated
    BY <1>1, <1>5
  <2>2. /\ cursors[t] # 0 => Gap(tick[k], t, cursors[t], w)
        /\ cursors[t] = 0 => \A h \in DOMAIN tasks :
                                 tasks[h].id = t => Gap(tick[k], t, tasks[h].createdAt, w)
        /\ \A v \in 1..MaxTime : Owes(tick[k], t, v) => Gap(tick[k], t, v, w)
    BY <2>1 DEF GapInv
  <2>3. \A v : Gap(tick[k], t, v, w) => GapNext(tick'[k], t, v, w)
    BY <1>1 DEF Gap, GapNext
  <2>4. w <= now /\ w \in Nat
    <3>1. w <= tick[k].now
      BY <2>1 DEF WindowInv, Due
    <3> QED
      BY <1>4, <3>1
  <2>5. GapNext(tick'[k], t, now, w)
    BY <1>4, <2>4 DEF GapNext
  <2>6. \/ cursors'[t] = cursors[t]
        \/ cursors'[t] = 0 /\ \A h \in DOMAIN tasks' : tasks'[h].id # t
    BY <1>2, <1>4
  <2>7. ASSUME cursors'[t] = 0, NEW h \in DOMAIN tasks', tasks'[h].id = t
        PROVE  GapNext(tick'[k], t, tasks'[h].createdAt, w)
    <3>1. cursors[t] = 0
      BY <2>6, <2>7
    <3>2. CASE tasks'[h].createdAt = now
      BY <2>5, <3>2
    <3>3. CASE \E g \in DOMAIN tasks : /\ tasks'[h].id = tasks[g].id
                                       /\ tasks'[h].createdAt = tasks[g].createdAt
      BY <2>2, <2>3, <2>7, <3>1, <3>3
    <3> QED
      BY <1>3, <1>5, <2>7, <3>2, <3>3
  <2>8. cursors'[t] # 0 => GapNext(tick'[k], t, cursors'[t], w)
    BY <2>2, <2>3, <2>6
  <2>9. \A v \in 1..MaxTime : Owes(tick'[k], t, v) => GapNext(tick'[k], t, v, w)
    BY <1>1, <2>2, <2>3
  <2> QED
    BY <2>7, <2>8, <2>9
<1>6. \A k \in Ticks \ shared' : GapsNext(k)
  BY <1>5 DEF GapsNext
<1> QED
  BY <1>6, GapsFollow

-----------------------------------------------------------------------------
(* The theorems *)

LEMMA InitInv ==
  ASSUME Init
  PROVE  IInv
<1>1. TypeInv /\ HistoryTypes
  BY InitTypes DEF Init, HistoryTypes
<1>2. children = <<>> /\ DOMAIN <<>> = {} /\ tick = [k \in Ticks |-> IdleTick]
  BY DEF Init
<1>3. \A k \in Ticks : /\ tick[k].pc = "idle" /\ DOMAIN tick[k].groups = {}
                       /\ \A t, w : ~Owes(tick[k], t, w)
  BY <1>2, IdleTyped, Empty
<1>4. RunInv
  BY <1>2, <1>3 DEF RunInv
<1>5. WindowInv
  BY <1>2, <1>3 DEF WindowInv, WindowRunsOnce
<1>6. GapInv
  BY <1>3 DEF GapInv
<1>7. SharedInv
  BY <1>3 DEF SharedInv
<1> QED
  BY <1>1, <1>4, <1>5, <1>6, <1>7 DEF IInv

LEMMA TickInv ==
  ASSUME IInv, NEW k \in Ticks, StartTick(k) \/ TickStep(k)
  PROVE  RunInv' /\ WindowInv' /\ GapInv'
<1> TypeInv /\ SharedInv /\ RunInv /\ WindowInv /\ GapInv
  BY DEF IInv
<1>1. CASE StartTick(k) \/ EndTick(k) \/ TickFails(k)
  <2>1. RunInv'
    BY <1>1, RunTick
  <2>2. Quiet(k) /\ \A t, w : ~Owes(tick'[k], t, w)
    BY <1>1, DoQuiet
  <2>3. WindowInv'
    BY <2>2, WindowQuiet
  <2>4. Alone(k) /\ Knows /\ UNCHANGED <<tasks, cursors, bootAt>>
    BY <2>2 DEF Quiet, Still
  <2>5. GapInv'
    BY <2>2, <2>4, GapQuiet
  <2> QED
    BY <2>1, <2>3, <2>5
<1>2. CASE NextGroup(k)
  <2>1. RunInv'
    BY <1>2, RunTick
  <2>2. /\ Quiet(k)
        /\ \/ \E t0 : \A t, w : Owes(tick'[k], t, w) <=> Owes(tick[k], t, w) /\ t # t0
           \/ \A t, w : Owes(tick'[k], t, w) <=> Owes(tick[k], t, w)
    BY <1>2, DoDefer
  <2>3. WindowInv'
    BY <2>2, WindowQuiet
  <2>4. Alone(k) /\ Knows /\ UNCHANGED <<tasks, cursors, bootAt>>
    BY <2>2 DEF Quiet, Still
  <2>5. GapInv'
    BY <2>2, <2>4, GapQuiet
  <2> QED
    BY <2>1, <2>3, <2>5
<1>3. CASE Evaluate(k)
  BY <1>3, RunTick, WindowEvaluate, GapEvaluate
<1>4. CASE Book(k) \/ RejectLaunch(k) \/ RecordLaunch(k)
  <2>1. RunInv'
    BY <1>4, RunTick
  <2>2. PICK t0, v : Records(k, t0, v)
    BY <1>4, DoRecords
  <2>3. WindowInv'
    BY <2>2, WindowRecords
  <2>4. GapInv'
    BY <2>2, GapRecords
  <2> QED
    BY <2>1, <2>3, <2>4
<1>5. CASE Spawn(k)
  <2>1. RunInv' /\ WindowInv'
    BY <1>5, RunSpawn, WindowSpawn
  <2> DEFINE t0 == First(tick[k]).task
  <2>2. Alone(k) /\ \A t, w : Owes(tick'[k], t, w) <=> Owes(tick[k], t, w) /\ t # t0
    BY <1>5, DoLeave
  <2>3. UNCHANGED <<tasks, cursors, bootAt>>
    BY <1>5, DoSpawn
  <2>5. UNCHANGED <<shared, outdated>>
    BY <1>5 DEF Spawn, history
  <2>6. Knows
    BY <2>5 DEF Knows
  <2> HIDE DEF t0
  <2>4. GapInv'
    BY <2>2, <2>3, <2>6, GapQuiet
  <2> QED
    BY <2>1, <2>4
<1> QED
  BY <1>1, <1>2, <1>3, <1>4, <1>5 DEF TickStep

LEMMA ChildrenInv ==
  ASSUME IInv, NEW i \in DOMAIN children, ChildExits(i) \/ Callback(i)
  PROVE  RunInv' /\ WindowInv' /\ GapInv'
<1> TypeInv /\ RunInv /\ WindowInv /\ GapInv
  BY DEF IInv
<1>1. RunInv'
  BY RunChildren
<1>2. UNCHANGED <<now, bootAt, tick, tasks, cursors, shared, outdated>>
  BY DEF ChildExits, Callback, Release, Settle, store, history, UpdateRun
<1>3. PICK st \in {"running", "exited", "settled", "released"} : SetChild(i, st)
  BY TypeChildren
<1>4. children \in Seq(ChildRecord) /\ now \in Nat
  BY ChildrenTyped DEF TypeInv, ClockTypes
<1>5. /\ DOMAIN children' = DOMAIN children
      /\ \A j \in DOMAIN children : /\ children'[j].task = children[j].task
                                    /\ children'[j].at = children[j].at
                                    /\ children'[j].alone = children[j].alone
  BY <1>3, <1>4, ChildSet
<1>6. now' \in Nat /\ now' >= now
  BY <1>2, <1>4
<1>7. WindowInv'
  BY <1>2, <1>5, <1>6, WindowSame
<1>8. GapInv'
  BY <1>2, GapSame
<1> QED
  BY <1>1, <1>7, <1>8

LEMMA ProcessInv ==
  ASSUME IInv, \/ Boot \/ RecoverRun \/ Booted \/ Pass \/ UNCHANGED vars
               \/ (\E t \in TaskIds : Edit(t)) \/ (\E d \in held : WriteTask(d))
               \/ \E how \in {"stopped", "down"} : Stop(how)
  PROVE  RunInv' /\ WindowInv' /\ GapInv'
<1> TypeInv /\ HistoryTypes /\ RunInv /\ WindowInv /\ GapInv
  BY DEF IInv
<1>1. RunInv'
  BY RunOther, TypeEdit
<1>2. now \in Nat
  BY ChildrenTyped
<1>3. CASE RecoverRun \/ Booted \/ Pass \/ UNCHANGED vars
  <2>1. /\ UNCHANGED <<tasks, cursors, bootAt, tick, children, shared, outdated>>
        /\ now' = now \/ now' = now + 1
    BY <1>3 DEF RecoverRun, Booted, Pass, UpdateRun, vars, store, history
  <2>2. now' \in Nat /\ now' >= now
    BY <1>2, <2>1
  <2>3. WindowInv'
    BY <2>1, <2>2, WindowSame
  <2>4. GapInv'
    BY <2>1, GapSame
  <2> QED
    BY <1>1, <2>3, <2>4
<1>4. CASE Boot
  <2>1. UNCHANGED <<now, tasks, cursors, tick, children, shared, outdated>> /\ daemon # "up"
    BY <1>4 DEF Boot, store, history
  <2>2. now' \in Nat /\ now' >= now
    BY <1>2, <2>1
  <2>3. WindowInv'
    BY <2>1, <2>2, WindowSame
  <2>4. \A k \in Ticks : \A u, w : ~Owes(tick'[k], u, w)
    <3>1. \A k \in Ticks : tick[k].pc = "idle"
      BY <2>1 DEF TypeInv, TickTypes
    <3> QED
      BY <2>1, <3>1, IdleOwes
  <2>5. GapInv'
    BY <2>4, GapSame
  <2> QED
    BY <1>1, <2>3, <2>5
<1>5. ASSUME NEW how \in {"stopped", "down"}, Stop(how) PROVE RunInv' /\ WindowInv' /\ GapInv'
  <2>1. UNCHANGED <<now, tasks, cursors, bootAt, outdated>> /\ tick' = [k \in Ticks |-> IdleTick]
    BY <1>5 DEF Stop, store
  <2>2. now' \in Nat /\ now' >= now
    BY <1>2, <2>1
  <2>3. /\ DOMAIN children' = DOMAIN children
        /\ \A j \in DOMAIN children : /\ children'[j].task = children[j].task
                                      /\ children'[j].at = children[j].at
                                      /\ children'[j].alone = children[j].alone
    BY <1>5, DoStop
  <2>4. WindowInv'
    BY <2>1, <2>2, <2>3, WindowSame
  <2>5. \A k \in Ticks : \A u, w : ~Owes(tick'[k], u, w)
    BY <2>1, IdleTyped, Empty
  <2>6. GapInv'
    BY <2>5, GapSame
  <2> QED
    BY <1>1, <2>4, <2>6
<1>6. ASSUME (\E t \in TaskIds : Edit(t)) \/ (\E d \in held : WriteTask(d))
      PROVE  RunInv' /\ WindowInv' /\ GapInv'
  <2>1. TableEdited
    BY <1>6, TypeEdit
  <2> QED
    BY <1>1, <2>1, WindowEdit, GapEdit
<1> QED
  BY <1>3, <1>4, <1>5, <1>6

LEMMA InductiveInv ==
  ASSUME IInv, [Next]_vars
  PROVE  IInv'
<1>1. TypeInv' /\ HistoryTypes' /\ SharedInv'
  BY TypesKept, HistoryKept, SharedKept DEF IInv
<1>2. ASSUME NEW k \in Ticks, StartTick(k) \/ TickStep(k) PROVE RunInv' /\ WindowInv' /\ GapInv'
  BY <1>2, TickInv
<1>3. ASSUME NEW i \in DOMAIN children, ChildExits(i) \/ Callback(i)
      PROVE  RunInv' /\ WindowInv' /\ GapInv'
  BY <1>3, ChildrenInv
<1>4. ASSUME (\E t \in TaskIds : Edit(t)) \/ (\E d \in held : WriteTask(d))
      PROVE  RunInv' /\ WindowInv' /\ GapInv'
  BY <1>4, ProcessInv
<1>5. ASSUME NEW how \in {"stopped", "down"}, Stop(how) PROVE RunInv' /\ WindowInv' /\ GapInv'
  BY <1>5, ProcessInv
<1>6. ASSUME Boot \/ RecoverRun \/ Booted \/ Pass \/ UNCHANGED vars
      PROVE  RunInv' /\ WindowInv' /\ GapInv'
  BY <1>6, ProcessInv
<1>7. RunInv' /\ WindowInv' /\ GapInv'
  BY <1>2, <1>3, <1>4, <1>5, <1>6 DEF Next
<1> QED
  BY <1>1, <1>7 DEF IInv

\* No daemon has two runs of one task under way, as long as the ticks that launched its runs
\* did not overlap.  FireGroup() reads #inFlight before the launch that sets it; what makes
\* that safe is that a tick that is alone holds no group of a task in flight (RunInv).
THEOREM RunsDoNotOverlap == Spec => []NoOverlap
<1>1. IInv => NoOverlap
  BY DEF IInv, RunInv, NoOverlap, Mine, Active
<1>2. Init => IInv
  BY InitInv
<1>3. IInv /\ [Next]_vars => IInv'
  BY InductiveInv
<1> QED
  BY <1>1, <1>2, <1>3, PTL DEF Spec

\* A window that a tick ran while it was alone is not run again, whatever crashes, restarts,
\* failed store operations, edits of the table and later ticks, overlapping ones included,
\* come in between: recordRun() moves the cursor before the child is spawned, and a task that
\* is added again under an old name starts after everything that ran.  What enable or disable
\* writes from an outdated definition is excepted: it may bring back a task without its cursor.
THEOREM WindowsRunOnce == Spec => []WindowRunsOnce
<1>1. IInv => WindowRunsOnce
  BY DEF IInv, WindowInv
<1>2. Init => IInv
  BY InitInv
<1>3. IInv /\ [Next]_vars => IInv'
  BY InductiveInv
<1> QED
  BY <1>1, <1>2, <1>3, PTL DEF Spec

\* Only a booking moves a cursor forward.
LEMMA CursorMoves ==
  ASSUME TypeInv, HistoryTypes, [Next]_vars, NEW t \in TaskIds, cursors'[t] > cursors[t]
  PROVE  \E k \in Ticks : \E t0, v : Records(k, t0, v)
<1>1. cursors \in [TaskIds -> 0..MaxTime] /\ MaxTime \in Nat
  BY ChildrenTyped
<1>2. cursors[t] \in Nat
  BY <1>1
<1>3. cursors' # cursors
  BY <1>2
<1>4. ASSUME (\E u \in TaskIds : Edit(u)) \/ (\E d \in held : WriteTask(d)) PROVE FALSE
  <2>1. TableEdited
    BY <1>4, TypeEdit
  <2>2. PICK u \in TaskIds : cursors' = [cursors EXCEPT ![u] = 0]
    BY <1>3, <2>1 DEF TableEdited
  <2>3. cursors'[t] = 0 \/ cursors'[t] = cursors[t]
    BY <1>1, <2>2
  <2> QED
    BY <1>2, <2>3
<1>5. ASSUME NEW k \in Ticks, Book(k) \/ RejectLaunch(k) \/ RecordLaunch(k)
      PROVE  \E t0, v : Records(k, t0, v)
  BY <1>5, DoRecords
<1>6. \/ cursors' = cursors
      \/ \E k \in Ticks : Book(k) \/ RejectLaunch(k) \/ RecordLaunch(k)
      \/ (\E u \in TaskIds : Edit(u)) \/ (\E d \in held : WriteTask(d))
  <2>1. ASSUME NEW k \in Ticks, StartTick(k) \/ Evaluate(k) \/ NextGroup(k) \/ Spawn(k) \/ EndTick(k) \/ TickFails(k)
        PROVE  cursors' = cursors
    BY <2>1 DEF StartTick, Evaluate, NextGroup, Spawn, EndTick, TickFails, store
  <2>2. ASSUME NEW j \in DOMAIN children, ChildExits(j) \/ Callback(j) PROVE cursors' = cursors
    BY <2>2 DEF ChildExits, Callback, Settle, Release, UpdateRun, store
  <2>3. ASSUME Boot \/ RecoverRun \/ Booted \/ Pass \/ UNCHANGED vars PROVE cursors' = cursors
    BY <2>3 DEF Boot, RecoverRun, UpdateRun, Booted, Pass, vars, store
  <2>4. ASSUME NEW how, Stop(how) PROVE cursors' = cursors
    BY <2>4 DEF Stop, store
  <2> QED
    BY <2>1, <2>2, <2>3, <2>4 DEF Next, TickStep
<1> QED
  BY <1>3, <1>4, <1>5, <1>6

\* A window that a booking passes over was missed: the window that is booked is the first one
\* the tick owes (Records), and GapInv says what lies before it.
LEMMA NonePassedOver ==
  ASSUME IInv, [Next]_vars, NEW t \in TaskIds \ outdated, shared = {}, cursors'[t] > cursors[t],
         NEW i \in DOMAIN tasks,
         tasks[i].id = t, NEW w \in (Anchor(tasks[i]) + Every)..(cursors'[t] - 1),
         (w - Anchor(tasks[i])) % Every = 0
  PROVE  w < bootAt
<1> TypeInv /\ HistoryTypes /\ WindowInv /\ GapInv
  BY DEF IInv
<1>0. PICK k \in Ticks : \E t0, v : Records(k, t0, v)
  BY CursorMoves
<1>1. PICK t0, v : Records(k, t0, v)
  BY <1>0
<1>2. /\ t0 \in TaskIds /\ v \in 1..MaxTime /\ Owes(tick[k], t0, v)
      /\ \A x : Owes(tick[k], t0, x) => x = v \/ x > v
      /\ cursors' = [cursors EXCEPT ![t0] = Max2(@, v)]
  BY <1>1 DEF Records
<1>3. /\ cursors \in [TaskIds -> 0..MaxTime] /\ MaxTime \in Nat /\ Every \in Nat /\ Every > 0
      /\ tasks \in Seq(TaskRecord)
  BY ChildrenTyped, Bounds DEF TypeInv, StoreTypes, TasksOK
<1>4. t = t0 /\ cursors[t] \in Nat /\ v \in Nat
  BY <1>2, <1>3
<1>5. v > cursors[t0]
  BY <1>2, <1>4 DEF WindowInv, Due
<1>6. cursors'[t] = v
  BY <1>2, <1>3, <1>4, <1>5 DEF Max2
<1> DEFINE A == Anchor(tasks[i])
<1>7. A = IF cursors[t] # 0 THEN cursors[t] ELSE tasks[i].createdAt
  BY DEF Anchor
<1>8. tasks[i].createdAt \in 1..MaxTime
  <2>1. tasks[i] \in TaskRecord
    BY <1>3, ElementOfSeq, LenProperties
  <2> QED
    BY <2>1 DEF TaskRecord
<1>9. A \in Nat /\ A >= 1
  <2> HIDE DEF A
  <2>1. tasks[i].createdAt \in Nat /\ tasks[i].createdAt >= 1
    BY <1>3, <1>8
  <2>2. cursors[t] # 0 => cursors[t] >= 1
    BY <1>4
  <2> QED
    BY <1>4, <1>7, <2>1, <2>2
<1>10. Gap(tick[k], t, A, v)
  BY <1>2, <1>4, <1>7 DEF GapInv
<1>11. w \in A + Every..(v - 1) /\ (w - A) % Every = 0
  BY <1>6
<1> HIDE DEF A
<1>12. w \in 1..MaxTime /\ A < w /\ w < v
  BY <1>2, <1>3, <1>4, <1>9, <1>11
<1>13. w < bootAt \/ Owes(tick[k], t, w)
  BY <1>10, <1>11, <1>12 DEF Gap
<1>14. ~Owes(tick[k], t, w)
  BY <1>2, <1>4, <1>12
<1> QED
  BY <1>13, <1>14

\* No window that was due while the daemon was up is passed over: a cursor that moves jumps
\* over windows from before the boot only, also when launches are deferred, fail or are
\* rejected, for every interval and every limit on the windows of a tick, as long as no tick
\* under way has been overlapped and the task was not written from an outdated definition.
THEOREM DueWindowsAreBooked == Spec => DueWindowsBooked
<1> DEFINE NoneSkipped ==
             \A t \in TaskIds \ outdated : shared = {} /\ cursors'[t] > cursors[t] =>
             \A i \in DOMAIN tasks : tasks[i].id = t =>
                 \A w \in (Anchor(tasks[i]) + Every)..(cursors'[t] - 1) :
                     (w - Anchor(tasks[i])) % Every = 0 => w < bootAt
<1>1. IInv /\ [Next]_vars => [NoneSkipped]_vars
  BY NonePassedOver
<1>2. Init => IInv
  BY InitInv
<1>3. IInv /\ [Next]_vars => IInv'
  BY InductiveInv
<1> QED
  BY <1>1, <1>2, <1>3, PTL DEF Spec, DueWindowsBooked
=============================================================================
