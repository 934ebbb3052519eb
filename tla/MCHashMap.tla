----------------------------- MODULE MCHashMap -----------------------------
(***************************************************************************)
(* HashMap with the keys 1 and 2 in one bucket and 3 in another.           *)
(***************************************************************************)
EXTENDS HashMap

\* What is done with a value does not depend on it.
MCSymmetry == Permutations(Values)

MCBucket == [k \in Keys |-> k \div 3]

=============================================================================
