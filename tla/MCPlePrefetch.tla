---------------------------- MODULE MCPlePrefetch ----------------------------
(* PlePrefetch for TLC: two batches of one size, and one that does not fit a   *)
(* slot.  The lookup reads the large one with the pool, the worker also b,     *)
(* which has many ids but few distinct ones, and only b's rows may not come.   *)
EXTENDS PlePrefetch

CONSTANTS a, b, huge

MCSize == [i \in Ids |-> IF i = huge THEN 2 ELSE 1]
===============================================================================
