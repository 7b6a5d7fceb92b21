----------------------------- MODULE MCPleGather -----------------------------
(* PleGather for TLC: a table of seven rows in shards of four and three, asked *)
(* for every batch of up to three of the ids at the edges, absent ones        *)
(* included, and for a few longer ones.                                        *)
EXTENDS PleGather

MCBatches ==
  BoundedSeq({-1, 0, 1, 3, 4, 6, 7, 8}, 3) \cup {<<6, 0, 3, 1, 0>>, <<5, 2, 1, 0, 3, 4>>, <<6, 6, 5, 4, 4, 2>>}

MCFiles == [f \in {1, 2} |-> {f - 1}]
MCStreams == {<<FALSE>>, <<TRUE>>, <<TRUE, FALSE>>, <<FALSE, TRUE>>}
===============================================================================
