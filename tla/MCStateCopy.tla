----------------------------- MODULE MCStateCopy -----------------------------
(* StateCopy for TLC: words of four bytes, two lanes, two tiles, pools of two   *)
(* blocks at every alignment, in pages of fourteen bytes, and block ids on      *)
(* either side of the pool's ends; and a model of three groups.                 *)
EXTENDS StateCopy

Page == 14
BlockIds == -1 .. 2

Sd(ptr, elem, dims) ==
  [ptr |-> ptr, elem |-> elem, shape |-> <<2, 3, dims>>, stride |-> <<Page \div elem, dims, 1>>, conv |-> TRUE]
Ds(ptr, elem, dims) ==
  [ptr |-> ptr, elem |-> elem, shape |-> <<2, dims, 3>>, stride |-> <<Page \div elem, 3, 1>>, conv |-> TRUE]
Temporal(ptr, elem, n) ==
  [ptr |-> ptr, elem |-> elem, shape |-> <<2, n>>, stride |-> <<Page \div elem, 1>>, conv |-> FALSE]

Mamba(layers) == [mamba |-> TRUE, layers |-> layers]
Attention == [mamba |-> FALSE, layers |-> << >>]
Single(dimFirst, t) == [dimFirst |-> dimFirst, groups |-> <<Mamba(<< <<t>> >>)>>]

\* Two mamba groups around an attention group; the first has two layers.
ThreeGroups ==
  [dimFirst |-> FALSE,
   groups |-> <<Mamba(<< <<Sd(0, 2, 2), Temporal(28, 2, 5)>>, <<Temporal(56, 1, 9)>> >>),
                Attention, Mamba(<< <<Sd(84, 1, 3)>> >>)>>]

\* A model is named by the layout of its one state, where that starts, the size
\* of its elements and how many there are.
AnyPtr == 0 .. Word - 1
SingleNames ==
  ({"sd"} \X AnyPtr \X {1} \X (1 .. 4)) \cup ({"sd"} \X {0, 2} \X {2} \X {2})
  \cup ({"ds"} \X AnyPtr \X {1} \X (1 .. 3)) \cup ({"ds"} \X {0, 2} \X {2} \X (1 .. 2))
  \cup ({"temporal"} \X AnyPtr \X {1} \X {1, 3, 7, 12, 13})
ThreeName == <<"three", 0, 0, 0>>

MCModels ==
  [n \in SingleNames \cup {ThreeName} |->
     CASE n[1] = "sd" -> Single(FALSE, Sd(n[2], n[3], n[4]))
       [] n[1] = "ds" -> Single(TRUE, Ds(n[2], n[3], n[4]))
       [] n[1] = "temporal" -> Single(FALSE, Temporal(n[2], n[3], n[4]))
       [] n[1] = "three" -> ThreeGroups]

\* Source in column one, destination in three; a temporal state's accepted column
\* is the first or the second, and the other plays no part.
Tables(n, src, dst, bias) ==
  << IF n[1] # "temporal" \/ bias = 0 THEN <<src, 0, dst>> ELSE <<0, src, dst>> >>

SingleCalls ==
  {[path |-> "fused", model |-> p[1], state |-> 1, tables |-> Tables(p[1], p[2], p[3], p[4]),
    src |-> 1, dst |-> 3, bias |-> p[4]] :
     p \in {q \in SingleNames \X BlockIds \X BlockIds \X (0 .. 2) : q[1][1] = "temporal" => q[4] < 2}}

GroupCalls ==
  {[path |-> p, model |-> ThreeName, state |-> s, tables |-> << <<x, y>>, <<y, x>> >>,
    src |-> 1, dst |-> d, bias |-> b] :
     <<p, s, x, y, d, b>> \in {"fused", "batch"} \X (1 .. 4) \X (0 .. 1) \X (0 .. 1) \X (1 .. 2) \X (0 .. 1)}

MCCalls ==
  SingleCalls
  \cup {c \in GroupCalls : c.path = "batch" => ~InPlaceAlready(c.src, c.dst, c.bias)}
  \cup {[c EXCEPT !.path = "batch"] :
          c \in {d \in SingleCalls : d.model[1] # "ds" /\ ToSet(d.tables[1]) \subseteq 0 .. 1}}
===============================================================================
