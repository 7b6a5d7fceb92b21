-------------------------- MODULE MCCheckpointPrep --------------------------
(* CheckpointPrep for TLC: two shards, one with the head and side layers, one  *)
(* with side layers only.                                                      *)
EXTENDS CheckpointPrep

MCShards == {"first", "second"}
MCSideShards == <<"first", "second">>
===============================================================================
