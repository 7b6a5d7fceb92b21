------------------------------ MODULE PleGather ------------------------------
(***************************************************************************)
(* The row gather of the n-gram (PLE) table, once it has been opened       *)
(* (module PleTable): MmapPleTable._gather reads the rows of a batch of    *)
(* ids from the shards, inline for small batches and in chunked tasks of a *)
(* thread pool for the others, and the placeholder embedding asks for each *)
(* distinct id once and expands the answer (src/vllm_ple_mmap.py).         *)
(*                                                                         *)
(* Row r of the table lives in shard r \div ShardSize at position          *)
(* r % ShardSize; what is read from position l of shard s is named by the  *)
(* row that position stands for, s * ShardSize + l.                        *)
(***************************************************************************)
EXTENDS PleTable

CONSTANTS
  FastRows,   \* VLLM_PLE_MMAP_FAST_ROWS
  Chunk,      \* rows per task
  Batches     \* the sequences of ids asked for

ASSUME SizesAssumption ==
  FastRows \in Nat /\ Chunk \in Nat \ {0}
ASSUME BatchesAssumption == Batches \subseteq Seq(Int)

Unset == -1    \* a row of the output no task has written

VARIABLES
  expand,    \* the ids come from the embedding, which expands the answer itself
  ids,       \* the ids asked for
  uniq,      \* what the tasks read, in order
  todo,      \* tasks not finished: shard, first and last position of uniq
  out        \* rows read so far, or the answer

gatherVars == <<expand, ids, uniq, todo, out>>
pleVars == <<tableVars, gatherVars>>

\* The distinct ids in ascending order, and where each id of s is among them
\* (np.unique with return_inverse).
Smaller(S, x) == {y \in S : y < x}
Unique(s) ==
  [k \in 1 .. Cardinality(ToSet(s)) |->
     CHOOSE x \in ToSet(s) : Cardinality(Smaller(ToSet(s), x)) = k - 1]
InverseOf(s) == [i \in 1 .. Len(s) |-> CHOOSE k \in 1 .. Len(Unique(s)) : Unique(s)[k] = s[i]]

-------------------------------------------------------------------------------
(* The gather. *)

InRange(s) == \A i \in 1 .. Len(s) : 0 <= s[i] /\ s[i] < ShardSize * Mapped

ShardOf(id) == id \div ShardSize
LocalOf(id) == id - ShardOf(id) * ShardSize

\* Position l of shard s can be read.
Readable(s, l) == s \in Found /\ l < table.shards[s]

\* The row read at position LocalOf(id) of shard si.
RowAt(si, id) == si * ShardSize + LocalOf(id)

\* The first position of each run of ids of one shard, and the one after its
\* last (starts and ends).
Starts_BoundsOnly(u) == {k \in 2 .. Len(u) : ShardOf(u[k]) # ShardOf(u[k - 1])}
Starts(u) == {k \in 1 .. Len(u) : k = 1 \/ ShardOf(u[k]) # ShardOf(u[k - 1])}
EndOf(u, k) == Min({e \in k + 1 .. Len(u) + 1 : e = Len(u) + 1 \/ ShardOf(u[e]) # ShardOf(u[k])})

\* The chunks of a run, the last one cut short at the end of the run.
Tasks(u) ==
  UNION {{[shard |-> ShardOf(u[k]), first |-> c, last |-> Min({c + Chunk, EndOf(u, k)}) - 1] :
          c \in {c \in k .. EndOf(u, k) - 1 : (c - k) % Chunk = 0}} : k \in Starts(u)}

\* A batch of decode size is read inline, shard by shard.
FastGather(s) ==
  /\ phase' = IF \A i \in 1 .. Len(s) : Readable(ShardOf(s[i]), LocalOf(s[i]))
              THEN "returned" ELSE "raised"
  /\ out' = [i \in 1 .. Len(s) |-> RowAt(ShardOf(s[i]), s[i])]
  /\ uniq' = s
  /\ todo' = {}

\* A larger one is read once per distinct id, by tasks of the pool.
SlowGather(s) ==
  /\ phase' = "gathering"
  /\ uniq' = Unique(s)
  /\ todo' = Tasks(Unique(s))
  /\ out' = [k \in 1 .. Len(Unique(s)) |-> Unset]

\* What _gather is called with: the embedding asks for distinct ids only.
Asked(b, e) == IF e THEN Unique(b) ELSE b

Gather(b, e) ==
  /\ phase = "ready"
  /\ ids' = b
  /\ expand' = e
  /\ LET s == Asked(b, e)
     IN IF s = << >> THEN phase' = "returned" /\ out' = << >> /\ uniq' = << >> /\ todo' = {}
        ELSE IF ~InRange(s) THEN phase' = "raised" /\ out' = << >> /\ uniq' = << >> /\ todo' = {}
        ELSE IF Len(s) <= FastRows THEN FastGather(s)
        ELSE SlowGather(s)
  /\ UNCHANGED <<prepVars, loadVars>>

\* A task writes the slice of the output that is its own, or raises; the output
\* is then thrown away, whatever the other tasks still write into it.
RunTask(t) ==
  /\ phase = "gathering"
  /\ t \in todo
  /\ todo' = todo \ {t}
  /\ IF \A k \in t.first .. t.last : Readable(t.shard, LocalOf(uniq[k]))
     THEN /\ out' = [k \in 1 .. Len(out) |->
                       IF k \in t.first .. t.last THEN RowAt(t.shard, uniq[k]) ELSE out[k]]
          /\ UNCHANGED phase
     ELSE /\ phase' = "raised"
          /\ UNCHANGED out
  /\ UNCHANGED <<prepVars, loadVars, expand, ids, uniq>>

\* All tasks are done: out[inverse].
Return ==
  /\ phase = "gathering"
  /\ todo = {}
  /\ phase' = "returned"
  /\ out' = LET inverse == InverseOf(Asked(ids, expand))
            IN [i \in 1 .. Len(inverse) |-> out[inverse[i]]]
  /\ UNCHANGED <<prepVars, loadVars, expand, ids, uniq, todo>>

\* The caller has its rows or its exception; the next gather starts afresh.
Finish ==
  /\ phase \in {"returned", "raised"}
  /\ phase' = "ready"
  /\ expand' = FALSE /\ ids' = << >> /\ uniq' = << >> /\ todo' = {} /\ out' = << >>
  /\ UNCHANGED <<prepVars, loadVars>>

GatherInit ==
  /\ TableInit
  /\ expand = FALSE
  /\ ids = << >>
  /\ uniq = << >>
  /\ todo = {}
  /\ out = << >>

GatherNext ==
  \/ TableNext /\ UNCHANGED gatherVars
  \/ \E b \in Batches, e \in BOOLEAN : Gather(b, e)
  \/ \E t \in todo : RunTask(t)
  \/ Return
  \/ Finish

GatherSpec == GatherInit /\ [][GatherNext]_pleVars

-------------------------------------------------------------------------------
(* Properties. *)

\* The rows of the table the checkpoint really holds.
Stored(id) == 0 <= id /\ id < Vocab /\ ShardOf(id) \in Found

\* What the caller ends up with: the answer, expanded by the embedding if the
\* embedding asked.
Answer == IF expand THEN [i \in 1 .. Len(ids) |-> out[InverseOf(ids)[i]]] ELSE out

\* A gather that returns gives, for each id asked for and in that order, the row
\* of the table with that id, on the inline path and on the pool, for a whole
\* table and for one with missing shards.
AnswerExact == phase = "returned" => (\A i \in 1 .. Len(ids) : Stored(ids[i])) /\ Answer = ids

\* A gather raises only if some id is outside the stored table: an accepted
\* table never turns away a row it holds.
RaisesOnlyForAbsentRows == phase = "raised" => \E i \in 1 .. Len(ids) : ~Stored(ids[i])

===============================================================================
