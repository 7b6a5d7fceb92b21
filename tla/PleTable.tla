------------------------------- MODULE PleTable -------------------------------
(***************************************************************************)
(* How the n-gram (PLE) table comes to be served: its files are downloaded *)
(* (tools/fetch-ple-table-fp8.sh), perhaps copied without the tensors that *)
(* are not the table's (tools/strip_ple_table.py), and opened while the    *)
(* weights are loaded (_find_shards, load_weights and _setup_table of      *)
(* src/vllm_ple_mmap.py), from one of those directories or from the        *)
(* checkpoint itself.  Both tools may be interrupted and started again,    *)
(* and the server may be started at any time.                              *)
(***************************************************************************)
EXTENDS Integers, Sequences, FiniteSets, SequencesExt

CONSTANTS
  Vocab,      \* rows of the whole table
  Parts,      \* split_ngram_parts
  Files,      \* for each file of the official table, the shards it holds
  ScaleFile,  \* the file with ngram_embedding.weight_scale, next to a shard
  Streams     \* what the loader may stream: for each call of load_weights,
              \* whether the checkpoint's weight_scale is in it

ASSUME TableAssumption ==
  /\ Vocab \in Nat \ {0} /\ Parts \in Nat \ {0}
  /\ DOMAIN Files \subseteq Nat /\ IsFiniteSet(DOMAIN Files)
  /\ ScaleFile \in DOMAIN Files
  /\ UNION {Files[f] : f \in DOMAIN Files} = 0 .. Parts - 1
  /\ Streams \subseteq Seq(BOOLEAN) \ {<< >>}

\* math.ceil(vocab / parts)
ShardSize == (Vocab + Parts - 1) \div Parts

ShardIndexes == 0 .. Parts - 1
NoShard == -1    \* no tensor of that shard in the checkpoint, self.mm[i] is None
NotRunning == {-1}

VARIABLES
  fetched,   \* files in the directory of the download
  lean,      \* each file in the directory of the copy: absent, cut or whole
  copying,   \* files strip_ple_table has still to copy
  complete,  \* the copy finished and its source was whole
  phase,     \* preparing, loading, loaded, refused; ready, gathering, returned, raised
  table,     \* what the loader finds: rows of each shard, dtypes, scale, a cut file
  prepared,  \* the served directory was finished when the server started
  loads,     \* the calls of load_weights
  calls,     \* how many of them were made
  scale      \* _offload_weight_scale: none, the table's, the checkpoint's

prepVars == <<fetched, lean, copying, complete>>
loadVars == <<table, prepared, loads, calls, scale>>
tableVars == <<prepVars, phase, loadVars>>

\* The rows _setup_table expects in shard i.
Expected(i) == Max({0, Min({ShardSize, Vocab - i * ShardSize})})

-------------------------------------------------------------------------------
(* Preparing the table. *)

\* hf download gives a file its name when it is whole; one that is there is not
\* downloaded again, whether or not an earlier run was interrupted.
Fetch(f) ==
  /\ phase = "preparing" /\ copying = NotRunning
  /\ fetched' = fetched \cup {f}
  /\ UNCHANGED <<lean, copying, complete, phase, loadVars>>

StripStart ==
  /\ phase = "preparing" /\ copying = NotRunning
  /\ copying' = fetched
  /\ complete' = FALSE
  /\ UNCHANGED <<fetched, lean, phase, loadVars>>

\* Files to write: all, or those not there yet.
ToWrite_Resumed(files) == {f \in files : lean[f] = "absent"}
ToWrite(files) == files

\* save_file writes under the final name.
StripBegin ==
  /\ phase = "preparing" /\ copying \notin {NotRunning, {}}
  /\ LET f == Min(copying)
     IN IF f \in ToWrite(copying)
        THEN lean[f] # "cut" /\ lean' = [lean EXCEPT ![f] = "cut"] /\ UNCHANGED copying
        ELSE copying' = copying \ {f} /\ UNCHANGED lean
  /\ UNCHANGED <<fetched, complete, phase, loadVars>>

StripEnd ==
  /\ phase = "preparing" /\ copying \notin {NotRunning, {}}
  /\ LET f == Min(copying)
     IN /\ lean[f] = "cut"
        /\ lean' = [lean EXCEPT ![f] = "whole"]
        /\ copying' = copying \ {f}
  /\ UNCHANGED <<fetched, complete, phase, loadVars>>

\* The copy says nothing of files its source lacks.
StripDone ==
  /\ phase = "preparing" /\ copying = {}
  /\ copying' = NotRunning
  /\ complete' = (fetched = DOMAIN Files)
  /\ UNCHANGED <<fetched, lean, phase, loadVars>>

Interrupt ==
  /\ phase = "preparing" /\ copying # NotRunning
  /\ copying' = NotRunning
  /\ UNCHANGED <<fetched, lean, complete, phase, loadVars>>

-------------------------------------------------------------------------------
(* Opening the table. *)

\* What _find_shards finds in a directory with these files of the official table.
TableIn(files, cut) ==
  [shards |-> [i \in ShardIndexes |-> IF \E f \in files : i \in Files[f] THEN Expected(i) ELSE NoShard],
   dtypes |-> IF files = {} THEN {} ELSE {"F8"},
   scale |-> ScaleFile \in files,
   cut |-> cut]

Copied == {f \in DOMAIN Files : lean[f] # "absent"}

\* The table in the checkpoint's own files, those its index lists: whatever the
\* checkpoint, with shards missing, of another size or of several types, and
\* none at all once strip_ngram_index went over the index.
CheckpointTables ==
  [shards : [ShardIndexes -> {NoShard} \cup 0 .. ShardSize], dtypes : {{"F8"}, {"BF16"}, {"F8", "BF16"}},
   scale : BOOLEAN, cut : {FALSE}]

Present(t) == {i \in ShardIndexes : t.shards[i] # NoShard}

\* The server starts on a directory; no tool runs while it loads.
ServeFrom(t, finished) ==
  /\ phase = "preparing"
  /\ phase' = "loading"
  /\ table' = t
  /\ prepared' = finished
  /\ loads' \in Streams
  /\ calls' = 0
  /\ scale' = "none"
  /\ UNCHANGED prepVars

Serve ==
  \/ ServeFrom(TableIn(fetched, FALSE), fetched = DOMAIN Files)
  \/ ServeFrom(TableIn(Copied, \E f \in Copied : lean[f] = "cut"), complete)
  \/ \E t \in CheckpointTables :
       Cardinality(t.dtypes) <= Cardinality(Present(t)) /\ ServeFrom(t, FALSE)

Found == Present(table)

\* self.mm reaches to the last shard found.
Mapped == IF Found = {} THEN 0 ELSE 1 + Max(Found)

\* No check raises: one type in all shards, for FP8 a scale, every shard of the
\* size expected; and a file that ends before its tensors cannot be parsed or mapped.
Acceptable_AnySize(known) == Found # {}
Acceptable(known) ==
  /\ Found # {}
  /\ Cardinality(table.dtypes) = 1
  /\ "F8" \in table.dtypes => known # "none" \/ table.scale
  /\ \A i \in Found : table.shards[i] = Expected(i)
  /\ ~table.cut

\* The scale after _setup_table: the table's only if none is there.
ScaleAfter_TablesOwn(known) == IF "F8" \in table.dtypes /\ table.scale THEN "table" ELSE known
ScaleAfter(known) == IF "F8" \in table.dtypes /\ known = "none" THEN "table" ELSE known

\* One call of load_weights: a scale in it is registered, replacing any other,
\* then the first call opens the table, before the others have been made.
LoadWeights ==
  /\ phase = "loading" /\ calls < Len(loads)
  /\ LET known == IF loads[calls + 1] THEN "streamed" ELSE scale
     IN IF calls = 0
        THEN IF Acceptable(known)
             THEN scale' = ScaleAfter(known) /\ UNCHANGED phase
             ELSE scale' = known /\ phase' = "refused"
        ELSE scale' = known /\ UNCHANGED phase
  /\ calls' = calls + 1
  /\ UNCHANGED <<prepVars, table, prepared, loads>>

Loaded ==
  /\ phase = "loading" /\ calls = Len(loads)
  /\ phase' = "loaded"
  /\ UNCHANGED <<prepVars, loadVars>>

\* A start that failed leaves the directories as they are; they can be completed
\* and the server started again.
Refused ==
  /\ phase = "refused"
  /\ phase' = "preparing"
  /\ table' = TableIn({}, FALSE) /\ prepared' = FALSE
  /\ loads' = << >> /\ calls' = 0 /\ scale' = "none"
  /\ UNCHANGED prepVars

\* The engine is up: the files are mapped, and how they came to be there and were
\* loaded plays no part any more.
Start ==
  /\ phase = "loaded"
  /\ phase' = "ready"
  /\ fetched' = {} /\ lean' = [f \in DOMAIN Files |-> "absent"]
  /\ copying' = NotRunning /\ complete' = FALSE
  /\ prepared' = FALSE
  /\ loads' = << >> /\ calls' = 0
  /\ UNCHANGED <<table, scale>>

TableInit ==
  /\ fetched = {}
  /\ lean = [f \in DOMAIN Files |-> "absent"]
  /\ copying = NotRunning
  /\ complete = FALSE
  /\ phase = "preparing"
  /\ table = TableIn({}, FALSE)
  /\ prepared = FALSE
  /\ loads = << >> /\ calls = 0
  /\ scale = "none"

TableNext ==
  \/ \E f \in DOMAIN Files : Fetch(f)
  \/ StripStart \/ StripBegin \/ StripEnd \/ StripDone \/ Interrupt
  \/ Serve \/ LoadWeights \/ Loaded \/ Refused \/ Start

-------------------------------------------------------------------------------
(* Properties. *)

\* Once a download has finished, or a copy of a finished one, after however many
\* interrupted runs, the server accepts the directory and finds every shard there.
FinishedTableIsServed ==
  prepared => phase # "refused" /\ (phase = "loaded" => Found = ShardIndexes)

\* However the loader divides the weights into calls, and although the table is
\* opened in the first of them: a table in FP8 has a scale once all are made, the
\* checkpoint's if it has one, and no other table has been given the table's own.
ScaleFollowsStream ==
  phase = "loaded" =>
    scale = IF \E i \in 1 .. Len(loads) : loads[i] THEN "streamed"
            ELSE IF "F8" \in table.dtypes THEN "table" ELSE "none"
===============================================================================
