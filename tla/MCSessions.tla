----------------------------- MODULE MCSessions -----------------------------
(* Instances of Sessions for TLC. *)
EXTENDS Sessions, TLC

\* Runners, session ids, flights and operations are interchangeable.
Symmetry == Permutations(Runners) \cup Permutations(Ids) \cup Permutations(Flights)
                \cup Permutations(Ops)

\* A bound: what follows once something has begun inside the window of an operation is not
\* explored.  No property but the types claims anything of those states.
Calm == ~raced
=============================================================================
