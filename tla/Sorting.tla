------------------------------- MODULE Sorting -------------------------------
(* What the code's sorted() does.                                            *)
EXTENDS Integers, FiniteSets

\* The numbers of a set in ascending order.
Ascending(set) ==
  [i \in 1 .. Cardinality(set) |-> CHOOSE t \in set : Cardinality({u \in set : u < t}) = i - 1]
=============================================================================
