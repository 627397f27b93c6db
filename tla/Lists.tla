------------------------------- MODULE Lists -------------------------------
(***************************************************************************)
(* Array.prototype.filter and a reduce to a sum, as the models use them,   *)
(* in a form that proofs can use: ListsProofs has the facts.               *)
(***************************************************************************)
EXTENDS Integers, Sequences, FiniteSets

\* How many positions of K there are up to i
Rank(K, i) == Cardinality({j \in K : j <= i})

\* The k-th position of K
Position(K, k) == CHOOSE i \in K : Rank(K, i) = k

\* The elements of s at the positions K, in the order of s
Subsequence(s, K) == [k \in 1..Cardinality(K) |-> s[Position(K, k)]]

\* The running sums of u, and their last
Sums(u) ==
    LET f[n \in 1..Len(u)] == IF n = 1 THEN u[1] ELSE f[n - 1] + u[n]
    IN  f

SumOf(u) == IF u = <<>> THEN 0 ELSE Sums(u)[Len(u)]
=============================================================================
