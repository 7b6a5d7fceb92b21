---------------------------- MODULE MCDecodeStep ----------------------------
(* Two bits instead of eight and four, words of two, groups of two and four.
   One row of the head varies: ties, roundings, all-zero groups, either sign
   on top.                                                                    *)
EXTENDS DecodeStep

MCSpecials == SUBSET {2, 3}
MCHeads ==
  {[t \in 0 .. 3 |-> IF t = 1 THEN <<a, b, 1, -2>>
                     ELSE <<<<1, -2, 2, 0>>, << >>, <<-2, -1, 1, 2>>, <<0, 1, -1, 0>>>>[t + 1]] :
     a \in -3 .. 3, b \in {-3, -1, 0, 2, 3}}
=============================================================================
