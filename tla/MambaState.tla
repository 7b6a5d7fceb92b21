----------------------------- MODULE MambaState -----------------------------
(***************************************************************************)
(* Recurrent (mamba/GDN) state under prefix caching in "align" mode: what  *)
(* mamba_utils_guarded.py and patch_mamba_align_split.py do to the state   *)
(* blocks of a request, with the scheduler and the forward pass around     *)
(* them.  MambaAlignV1 and MambaAlignV2 add the two model runners' ways of *)
(* deciding which copy to make.                                            *)
(*                                                                         *)
(* A request has a row of block columns.  The state is abstracted to the   *)
(* number of tokens it has absorbed; state computed from a rejected draft  *)
(* or from a wrong initial state is Garbage.  A block holds one temporal   *)
(* state and a conv window whose offset i stands for the state i tokens    *)
(* past offset 0.  All requests share one token sequence, so cached blocks *)
(* are named by their column.                                              *)
(***************************************************************************)
EXTENDS Integers

CONSTANTS
  BlockSize,   \* tokens per mamba block (cache_config.mamba_block_size)
  NumSpec,     \* num_speculative_blocks: most draft tokens in a step
  MaxTokens    \* bound on the length of a request

ASSUME MambaAssumption ==
  /\ BlockSize \in Nat \ {0}
  /\ NumSpec \in Nat
  /\ NumSpec < BlockSize  \* a step's drafts cross at most one boundary
  /\ MaxTokens \in Nat \ {0}

VARIABLES
  phase,      \* where in a model-runner step the request is
  known,      \* tokens whose ids are known: prompt and sampled output
  computed,   \* num_computed_tokens: tokens absorbed and accepted
  scheduled,  \* num_scheduled_tokens of this step
  drafts,     \* how many of them are draft tokens
  row,        \* block columns of the request
  rowLength,  \* how many of them have a block
  published,  \* columns whose block the prefix cache hands out
  cache,      \* the prefix cache: state blocks by column
  todo        \* copy programs of a launched kernel that still have to run

worldVars == <<phase, known, computed, scheduled, drafts, row, rowLength, published, cache, todo>>

----------------------------------------------------------------------------
(* State contents.                                                         *)

Garbage == -1
Empty == -2

Offsets == 0 .. NumSpec

\* State tensors of a layer.  Program (state 0, tile 0) of a kernel also
\* writes the request's accepted count.
States == {"conv", "temporal"}
FirstState == "conv"

CDiv(n, d) == (n + d - 1) \div d

LastCol == CDiv(MaxTokens, BlockSize) - 1 + NumSpec
Cols == 0 .. LastCol

EmptyBlock == [temporal |-> Empty, conv |-> [i \in Offsets |-> Empty]]
EmptyRow == [c \in Cols |-> EmptyBlock]

\* Columns _copy_mamba_state_block finds a block id for.
HasBlock(col) == col \in 0 .. rowLength - 1

TemporalAt(col) == IF col \in Cols THEN row[col].temporal ELSE Garbage

\* The conv window after sliding left by bias tokens; what slides in from
\* beyond the window is not a state.
Slid(window, bias) ==
  [i \in Offsets |-> IF i + bias \in Offsets THEN window[i + bias] ELSE Garbage]

\* _copy_mamba_state_block: a temporal state is taken from the speculative
\* column the bias selects, a conv window slides by the bias.
Copied(state, src, dst, bias) ==
  IF state = "temporal"
  THEN [row EXCEPT ![dst].temporal = TemporalAt(src + bias)]
  ELSE [row EXCEPT ![dst].conv = Slid(row[src].conv, bias)]

\* The guard skips a copy whose block id is out of range.
GuardedCopy(state, src, dst, bias) ==
  row' = IF HasBlock(dst) /\ HasBlock(IF state = "temporal" THEN src + bias ELSE src)
         THEN Copied(state, src, dst, bias)
         ELSE row

----------------------------------------------------------------------------
(* Decisions shared by the runners.                                        *)

\* Seeding by the scheduler's block size, the minimum over all KV groups.
SeedColumn_FineBlocks(n) == n - 1

\* The state column of a request that starts with n tokens already cached.
SeedColumn(n) == (n - 1) \div BlockSize

\* The running column after this step: where its last token falls.
RunningColumn == CDiv(computed + scheduled, BlockSize) - 1

\* The boundary the postprocess saves state for, if the running tokens have
\* reached or passed it.
AlignedDown(n) == (n \div BlockSize) * BlockSize

NeedsCopy(running, newComputed) == AlignedDown(newComputed) >= running

Bias_OneMore(running, newComputed) == AlignedDown(newComputed) - running + 1
Bias(running, newComputed) == AlignedDown(newComputed) - running

DestColumn(newComputed) == AlignedDown(newComputed) \div BlockSize - 1

----------------------------------------------------------------------------
(* The scheduler and the forward pass, outside this repository but for the *)
(* chunk ends that patch_mamba_align_split.py restores.                    *)

WorldInit ==
  /\ phase = "absent"
  /\ known = 0 /\ computed = 0 /\ scheduled = 0 /\ drafts = 0
  /\ row = EmptyRow
  /\ rowLength = 0
  /\ published = {}
  /\ cache = EmptyRow
  /\ todo = {}

\* A request joins, new or resumed after a preemption: a prefix of whole
\* blocks may be found in the cache and is shared, not copied.  The state of
\* the last hit column is all that is kept of it.
Admitted(tokens, hit) ==
  /\ phase = "absent"
  /\ tokens >= known
  /\ hit * BlockSize < tokens
  /\ hit > 0 => cache[hit - 1] # EmptyBlock
  /\ phase' = "waiting"
  /\ known' = tokens
  /\ computed' = hit * BlockSize
  /\ row' = [c \in Cols |-> IF c = hit - 1 THEN cache[c] ELSE EmptyBlock]
  /\ rowLength' = hit
  /\ published' = IF hit > 0 THEN {hit - 1} ELSE {}
  /\ UNCHANGED <<scheduled, drafts, cache, todo>>

\* Chunks that end anywhere, as with the wrong block size.
ChunkEnds_Anywhere == computed + 1 .. known

\* _mamba_block_aligned_split: a prefill chunk ends at a mamba block boundary
\* or takes the rest of the known tokens.
ChunkEnds == {e \in computed + 1 .. known : e = known \/ e % BlockSize = 0}

\* One step's work: a prefill chunk, or the last sampled token with drafts.  The
\* row grows to the step's last token and NumSpec columns more, and never shrinks
\* while the request runs.
Scheduled(end, nDrafts) ==
  /\ phase = "waiting"
  /\ end \in ChunkEnds
  /\ nDrafts > 0 => end = known /\ computed + 1 = known
  /\ end + nDrafts <= MaxTokens
  /\ phase' = "scheduled"
  /\ scheduled' = end - computed + nDrafts
  /\ drafts' = nDrafts
  /\ LET length == CDiv(end + nDrafts, BlockSize) + NumSpec
     IN rowLength' = IF length > rowLength THEN length ELSE rowLength
  /\ UNCHANGED <<known, computed, row, published, cache, todo>>

\* The state a forward pass that writes column col and was told of accepted
\* tokens starts from: kernels find it in the block by the accepted count.
InitialTemporal(col, accepted) == TemporalAt(col + accepted - 1)
InitialConv(col, accepted) ==
  IF col \in Cols /\ accepted - 1 \in Offsets THEN row[col].conv[accepted - 1] ELSE Garbage

\* The forward pass absorbs the tokens of the step into column col: the state
\* past the running tokens at offset 0, then one per draft.  The first
\* newAccepted of them are of accepted tokens.
ForwardPass(col, accepted, newAccepted) ==
  LET running == computed + scheduled - drafts
      good == computed = 0 \/ /\ InitialTemporal(col, accepted) = computed
                              /\ InitialConv(col, accepted) = computed
      After(i) == IF good /\ i < newAccepted THEN running + i ELSE Garbage
  IN  /\ phase = "forward"
      /\ newAccepted \in 1 .. drafts + 1
      /\ row' = [c \in Cols |->
           [temporal |-> IF c \in col .. col + drafts THEN After(c - col)
                         ELSE row[c].temporal,
            conv |-> IF c = col
                     THEN [i \in Offsets |-> IF i <= drafts THEN After(i) ELSE Garbage]
                     ELSE row[c].conv]]
      /\ phase' = "postprocess"
      /\ computed' = running + newAccepted - 1
      \* The step that reaches the last known token samples the next one.
      /\ known' = IF running = known THEN computed' + 1 ELSE known
      /\ UNCHANGED <<scheduled, drafts, rowLength, published, cache, todo>>

\* The full blocks of the request that hold a state enter the prefix cache.
Publish ==
  LET full == {c \in Cols : row[c] # EmptyBlock /\ (c + 1) * BlockSize <= computed}
  IN  /\ published' = published \union full
      /\ cache' = [c \in Cols |-> IF c \in full /\ cache[c] = EmptyBlock
                                  THEN row[c] ELSE cache[c]]

\* Finishing keeps nothing but the cache; a preempted request keeps its tokens.
Left ==
  /\ phase = "waiting"
  /\ phase' = "absent"
  /\ known' \in {0} \union (IF known <= MaxTokens THEN {known} ELSE {})
  /\ computed' = 0
  /\ row' = EmptyRow
  /\ rowLength' = 0
  /\ published' = {}
  /\ UNCHANGED <<scheduled, drafts, cache, todo>>

Evicted(c) ==
  /\ cache[c] # EmptyBlock
  /\ c \notin published
  /\ cache' = [cache EXCEPT ![c] = EmptyBlock]
  /\ UNCHANGED <<phase, known, computed, scheduled, drafts, row, rowLength, published, todo>>

\* Programs that still have to copy from src to dst, bias tokens in, find their
\* blocks, and the state they are to copy in them.
CopyInRow(src, dst, bias) ==
  todo # {} =>
    /\ HasBlock(dst)
    /\ "temporal" \in todo => HasBlock(src + bias) /\ row[src + bias].temporal # Empty
    /\ "conv" \in todo => HasBlock(src) /\ bias \in Offsets /\ row[src].conv[bias] # Empty

\* So do those that save the boundary the running tokens reached, from column col.
SaveInRow(col, running, newComputed) ==
  LET bias == Bias(running, newComputed)
      dest == DestColumn(newComputed)
  IN NeedsCopy(running, newComputed) /\ ~(col = dest /\ bias = 0) => CopyInRow(col, dest, bias)

\* The state after the last token of column c.
HoldsBoundary(block, c) ==
  block.temporal = (c + 1) * BlockSize /\ block.conv[0] = (c + 1) * BlockSize
=============================================================================
