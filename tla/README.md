# Verification of the Qwen3-Next serving recipe

TLA+ models, TLC runs and TLAPS proofs for the patches, tools and scripts of
this repository: a recipe that quantizes a checkpoint, patches vLLM at image
build time and serves the model.  Source paths below are relative to `src/`.

## 1. Inventory

### 1.1 Components

| component | source | state | operations |
|---|---|---|---|
| never-evict pin | `src/patch_never_evict.py` | block pool: free queue, pin queue, `_pinned_ids`, `_pinned_by_hash`, `_pinned_hashes`, `_pin_cap`, block hashes and reference counts | find the marker and arm on a marked request, free (claim), touch (loan), allocate, reset |
| mamba state alignment | `src/mamba_utils_guarded.py`, `src/patch_mamba_align_split.py` | per request: `num_computed_tokens`, `mamba_state_idx`, `num_accepted_tokens`; per group: block table, state blocks | preprocess (V1 on the CPU, V2 fused), forward, postprocess (fused copy to the boundary block), scheduler split, prefix hit |
| state copy kernels and guard | `src/mamba_utils_guarded.py` | metadata of every state tensor, source and destination blocks, guard counter and its mirror | collect metadata, tiled 64-bit memcpy, conv and temporal copies, batched copy, guard, telemetry |
| PLE n-gram table | `src/vllm_ple_mmap.py` | mapped shards, scale, two pinned slots, pending job, worker thread, CUDA stream | find and open shards, load weights, lookup, prefetch, consume, gather, prewarm, install |
| n-gram table preparation | `tools/fetch-ple-table-fp8.sh`, `tools/strip_ple_table.py` | the directories of the download and of the copy | download, copy |
| checkpoint preparation | `tools/*.py`, `prepare.sh` | checkpoint and variant files, backups, the safetensors index | download, quantize lm_head, fp8-convert, strip n-gram index, config, link tree, experts |
| MTP draft vocabulary | `src/patch_mtp_draft_vocab.py`, `tools/build_draft_vocab.py`, `tools/quantize_lm_head_int8.py` | kept ids, quantized head, private draft head | choose ids, quantize, build the private head, compute logits |
| QSA exact top-k | `src/patch_qsa_exact_topk.py` | score buffer | mask, select, fill |
| step profiler | `src/patch_step_profile.py` | trigger file, capture window, trace number | trigger, capture, write |
| prefill metrics | `src/patch_prefill_metrics.py` | two counters | count |
| fp8 hybrid dispatch | `src/vllm_fp8_hybrid.py` | none | choose a method by layer |
| hit debugging, image build, serving, benchmarks | `src/patch_hit_debug.py`, `Dockerfile`, `*.sh`, `bench/` | - | logging, process start, measurement |

### 1.2 Interactions

* The scheduler (vLLM, outside this repository) calls the pool: it arms the pin
  when a marked request arrives, allocates, touches on prefix hits, frees at
  the end of a request and, for mamba state blocks, in the middle of one.  What
  the pin holds back decides whom the scheduler can admit and whom it preempts.
* Every step the model runner calls mamba preprocess, the forward pass and
  mamba postprocess; they share the block table and the per-request counters
  with the scheduler's prefix cache, which publishes what the postprocess
  copied to a boundary block.  They hand the copies to the kernels, which find
  the bytes through metadata collected once.
* The PLE prefetch is issued by the runner on one stream, gathered by a worker
  thread into a pinned slot, and consumed by the forward pass of the same step.
* The table is opened while weights stream in, from a directory that one of two
  tools has made, perhaps interrupted; the scale may come from either side.
* The preparation tools run one after another on the same directory; a crash
  leaves files of one step and not of the next.
* The head one tool quantizes is what the draft head reads row by row; the ids
  another tool chooses are the rows it keeps.
* The profiler's window and the guard's report hang on the same engine steps.

### 1.3 What is hard here

* interleavings of frees, hits, re-arms, admissions and preemptions on the pool;
* copies of recurrent state between blocks whose owner and content change from
  step to step, speculative tokens that are rejected after state was written;
* unsynchronised lanes and tiles that move bytes, also within one block;
* two pinned buffers shared by a worker thread, a stream and the forward pass,
  with a timeout that abandons a job which may still finish;
* crash and rerun of pipelines that rename, overwrite and download files;
* buffers that keep what an earlier batch left in them;
* layouts agreed on by a tool and a server through shapes alone.

The list with its lines is in `PROJECT.json` under `hazards`.

### 1.4 What makes each component correct

* **Never-evict pin**: every block is in exactly one place; a reservation always
  stands for a block that is cached and cannot be evicted; the cap bounds what
  is reserved, loans included; what is reserved stays cached until the pin is
  replaced; a prefix-cache reset succeeds exactly on an idle pool; a block that
  may be pinned is pinned at the moment it is freed; after a marked request a
  repetition of its prompt can be served from the pin; requests keep finishing.
* **Mamba state alignment**: every forward pass starts from the state after
  exactly the computed tokens; a cached block holds the state at its boundary
  and is not written again; no copy, before the forward pass or after it,
  addresses a column without a block.
* **Copy kernels and guard**: a launch has the effect of one assignment between
  views of the state's tensor whatever the order of lanes and tiles; an id
  outside the pool changes nothing and is counted; every counted hit is
  reported in the end.
* **PLE table**: a lookup gets the rows of its own ids whichever path served it;
  pinned memory is not overwritten under a copy still to execute; no lookup
  waits for ever for the worker, only for rows that its own gather cannot get; a
  gather returns stored rows or raises; a table is opened with
  the right scale however the loader divides its calls.
* **n-gram table preparation**: what a finished download or copy leaves is
  served whole, whatever was interrupted before.
* **Checkpoint preparation**: what a finished run leaves can be served; backups
  are originals; the variant never edits its source; interruptions are
  repaired by running the script again.
* **MTP draft vocabulary**: the ids are the most frequent ones asked for; every
  token drafted is scored by its own row of the head, and no other is drafted;
  the first draft step never fails.
* **QSA exact top-k**: the blocks read are the best visible ones.
* **Step profiler**: a touch of the trigger leads to one capture that ends and
  covers exactly its steps; a trace that cannot be written costs one restart.

## 2. The modules

| module | role |
|---|---|
| `NeverEvictPin` | the block pool with the pin |
| `PinContract` | abstract specification of the pin |
| `NeverEvictHistory` | `NeverEvictPin` with three history variables |
| `NeverEvictPinProofs` | TLAPS proofs about `NeverEvictPin` and `NeverEvictHistory`, about `PinScheduler`, and that it uses the pool as `NeverEvictPin` says |
| `PinScheduler` | `NeverEvictPin` composed with vLLM's scheduler; marker search and arming |
| `MambaState` | state blocks, copies, scheduler, forward pass, prefix cache |
| `MambaAlignV1`, `MambaAlignV2` | the two runners' decisions on top of `MambaState` |
| `StateTensors` | where the bytes of the states are: groups, layers, shapes, metadata |
| `StateCopy` | the copy kernels, load by load and store by store |
| `StateCopyProofs` | TLAPS proofs about `StateCopy` |
| `MambaStateProofs` | lemmas about `MambaState` that both runners' proofs use |
| `MambaAlignV1Proofs`, `MambaAlignV2Proofs` | TLAPS proofs about the two runners |
| `GuardTelemetry` | how a guard hit reaches the log |
| `StepProfile` | `GuardTelemetry` composed with the profiler's window |
| `PlePrefetch` | prefetch pipeline: main thread, worker, device |
| `RowLookup` | abstract specification of the table's lookups |
| `PleTable` | downloading, copying, finding and opening the table |
| `PleGather` | `PleTable` and the gather on what it opened |
| `PleProofs` | TLAPS proofs about `PleTable` and `PleGather`, about `PlePrefetch`, and that it implements `RowLookup` |
| `CheckpointPrep` | `prepare.sh` and its tools on a file system |
| `CheckpointPrepProofs` | TLAPS proofs about `CheckpointPrep` |
| `Gptq` | the head's 8-bit layout: quantize, pack, unpack, dequantize |
| `Sorting` | the numbers of a set in ascending order, for `StateTensors` and `DraftHead` |
| `DraftHead` | draft vocabulary and private draft head on top of `Gptq` |
| `QsaTopK` | the choice of the blocks a row attends to |
| `DecodeStep` | `QsaTopK` and `DraftHead` in one loop of decode steps |
| `EngineStepProofs` | TLAPS proofs about `DecodeStep`, and about the profiler's window |
| `MC*` | constants for TLC |

Each definition's source lines are in `PROJECT.json` under `map`.  Definitions
named `X_Something` next to `X` are the same code with a plausible slip in it;
they are used by nothing but the `mutants` of `PROJECT.json`, which show that a
property notices the slip.

### 2.1 `NeverEvictPin`, `PinContract`, `NeverEvictHistory`

State: `blockHash` and `refs` are the pool's blocks (a reference count is the
number of requests in `refs`), `freeQueue` the stock queue, and `pin`,
`pinnedIds`, `pinnedByHash`, `pinnedHashes`, `pinCap` the five fields the patch
adds.  A queue is a set: the order in which blocks leave it is left open, which
covers every eviction order and every order in which one free reaches the cap.

| action | code |
|---|---|
| `ArmNeverEvictPin` | a marked prompt arrives: `set_pinned_hashes` |
| `GetNewBlocks` | `get_new_blocks` with `_maybe_evict_cached_block` |
| `CacheFullBlock` | `cache_full_blocks` |
| `Touch` | `touch`: a prefix hit takes a block from the queue `_pinned_ids` names |
| `FreeBlocks` | `free_blocks`, at a request's end or in its middle (mamba) |
| `ResetPrefixCache` | `reset_prefix_cache`: drops the pin, then counts blocks in use |

`AcquirePin(claim, freed)` and `KeepPinned(kept, ...)` say what the loops of
`_acquire_pin` and `set_pinned_hashes` end up with, for every order of the loop.
Which prompts are marked, and the hashes they give, are the constant
`MarkedPrompts`; `PinScheduler` computes them.

`PinContract` has no blocks: hashes are resident and some of them protected;
traffic may add protection but never removes it, replacing the pin may remove
it but never invents it.  `NeverEvictPin` implements it under the mapping
`protected <- Reserved`.

`NeverEvictHistory` adds `offered` (blocks freed under the current pin), `loyal`
(hashes reserved at some time and pinned ever since) and `overflow` (a prompt
marked meanwhile did not fit the cap), which no step reads.

### 2.2 `PinScheduler`

The pool operations in the order vLLM's scheduler performs them: running
requests first (`NextRunning` frees skipped state blocks, `Allocate` or
`Preempt`), then admissions from the head of the queue (`Admit`, `TakeHit`,
`AllocateAdmitted`), then `CacheBlock`, `Computed` and `Finish`.  Each pool
operation is a step of its own and an action of `NeverEvictPin`.  `AddRequest`
is the patched `add_request`: `Needle` is the marker without its first and last
token (they may merge with the text around), `ArmedHashes` the hashes of the
prompt's full blocks in every cache group whose block size is a multiple of the
hash block size.  `Fits` is the stock admission test, for which the idle blocks
of a prefix hit count as if they lay in the free queue, pinned ones too.

### 2.3 `MambaState`, `MambaAlignV1`, `MambaAlignV2`

A recurrent state is abstracted to the number of tokens it has absorbed, or
`Garbage` if it came from a rejected draft or a wrong initial state.  `row` is
the block table row of one request slot with the contents of its blocks: a
temporal state and a conv window per block.  `computed`, `scheduled`, `drafts`
and `known` are the scheduler's counters; `cache` and `published` are the
prefix cache.  `rowLength` is how many columns of the row have a block (`HasBlock`):
admission gives those of the hit, a step grows it to its last token and `NumSpec`
columns more, and nothing but leaving shrinks it.  `CopyInRow` says of a copy under
way that its columns have blocks and its source a state, `SaveInRow` the same of the
copy that saves a crossed boundary.  The slot is used by one request after another, new, resumed
after a preemption, or started from the cache.

External actions, written from how the code uses them: `Scheduled` (chunks end
where `_mamba_block_aligned_split` lets them), `ForwardPass` (absorbs tokens,
writes the speculative columns, accepts any prefix of the drafts), `Publish`,
`Evicted`, `Left`.

V2 keeps `stateIdx` and `numAccepted` on the GPU (`Preprocess`, `Precopy`,
`TakeSnapshot`, `Postprocess` are its kernels; one program per state tensor, in
any order).  V1 decides on the CPU from a dictionary `entry` and stages what
its kernels read; `notices` is what the scheduler output says of the request.
A forced preemption is not reported there and shows as a resumption only.

### 2.4 `StateTensors`, `StateCopy`

`StateTensors` is about addresses.  A model is a list of cache groups, each
mamba or not, with layers and the strided tensors of their states.  `Metadata`
is what `_populate_metadata` writes into the slots the kernels read (base,
block stride, natural or padded size, window width, DS rows, index of the
group among the *mamba* groups); `CopyEntry` is what `collect_mamba_copy_meta`
hands to the batched kernel.  `Meant` is the reference: the docstring's
assignment between views of the tensor, element by element.

`StateCopy` takes one launch (`call`) apart into the program of every thread: a
sequence of loads and stores at addresses computed as the kernels do (alignment
head, word body, tail, byte fall-back, tile slices, token loops, DS rows,
guard).  `OfLane` is the masked loop `range(0, n, BLOCK)` with `tl.arange`, as one
lane sees it, and `Strided` the same on a tile's slice.  Threads with nothing to do are
left out (`ProgramOf`).  `Touches` is what a thread loads or stores next, and
`TypeOK` wants it within the pools: a wild store shows there and not in the memory,
which has no bytes to hold it.  `MoveExact` speaks of launches whose blocks the tensor
has (`Valid`), which is said without the guard's own test (`InPool`), so that a guard
that stops too much is noticed as well.  The others interleave freely; only `batch_memcpy_kernel`
has a barrier for a move to the left.  Memory starts with its own address in every byte, so
the final contents say where each byte came from.

### 2.5 `GuardTelemetry`, `StepProfile`

`GuardTelemetry` is the counter on the device, its pinned mirror, the stream of
launches and the report every `Period` steps.  `StepProfile` puts it into the
engine's step: `BeginStep` is `_step_profile_execute` up to and with the
execution of the model, `EndStep`, `WriteTrace`, `WriteFails` what follows it,
`StepRaises` a model that fails.  An exception ends the engine; the container
starts it again (`Restart`) with nothing but the files in `/tmp`.

### 2.6 `PlePrefetch`, `RowLookup`

`main` is the main thread's place in batch assembly and in the lookup, `worker`
the worker thread's, `stream` the copies issued and not executed.  `job`,
`jobs`, `pending`, `slot` and `queue` are the fields of
`PrefetchingMmapTable`; `idsBuf` and `rowsBuf` its pinned memory and the
persistent staging buffer.

| action | code |
|---|---|
| `Hook`, `NoHook` | the `prepare_inputs` hook hashes ids and calls `prefetch`, or does not |
| `Prefetch`, `SkipStuckSlot` | `prefetch` after its wait for the slot's last job |
| `Consume`, `NoConsume`, `Hit`, `Miss` | `_lookup_impl` and `consume` |
| `SyncStart`, `SyncGather` | `forward` after its ids are on the CPU: the gather, the pinned buffer, the copy |
| `Worker*` | `_worker`, with its exception path |
| `CopyIds`, `CopyRows` | the device |

Worker and lookup read the same files.  `MayStall` are the batches with rows the disk
may not deliver; a gather of such a batch comes to its end or never does, and
`SyncGather` has no timeout.  A gather of many ids (`LookupPooled`, `WorkerPooled`) uses
the threads of the table's only pool, and the worker's may hold all of them on rows that
do not come (`PoolHeld`).  The two sets differ because `forward` gathers each id once
and the worker the ids as they are.

A wait of five seconds is a choice between success, enabled once the awaited
condition holds, and giving up, enabled while it does not.  A worker that
writes rows passes through `Torn`.  `RowLookup` promises that each lookup is
answered, in order, with its own rows.

### 2.7 `PleTable`, `PleGather`

`PleTable` starts with empty directories.  `Fetch` is `hf download`, file by
file; `StripStart`, `StripBegin`, `StripEnd`, `StripDone` are
`strip_ple_table.py`, whose `save_file` writes under the final name, so that
`Interrupt` leaves a cut file.  `Serve` starts the server on the download, on
the copy or on a checkpoint whose own shards may be missing, short or of two
types; `LoadWeights` is one call of `load_weights`, the first of which opens the
table (`Acceptable` is every check of `_setup_table`, `ScaleAfter` its choice of
the scale).  A refused start goes back to preparing.

`PleGather` serves what was opened: `Gather` takes the empty, out-of-range,
inline or pooled path, `RunTask` is a task of the pool, `Return` ends the
gather and `Finish` expands the answer where the embedding had deduplicated.
`Unique` is `np.unique`: an id's place among the distinct ids is the number of
smaller ones, and that place is the inverse index `Finish` expands by.

### 2.8 `CheckpointPrep`

A file is its set of directory entries together with its contents, so a hard
link is an entry more and a write through one entry is seen through all.
Contents are the upstream release and the set of conversions gone through;
`Partial` while open for writing.  `tool`/`step` are the place in the script,
`idx`/`mem`/`todo` what a tool holds in memory.  Each tool is a disjunct of
`Run` (`Download` is the external `hf download`), `Advance` starts the next
tool.  `Crash` stops at any step and loses memory; `Start` runs the script
again from the top; `RunByHand` first starts the interrupted tool by itself,
after which `HandOver` gives the directory back to the script; `HandCopy` makes
the variant a full hard-linked copy by hand (`cp -al`) and runs the last tool on
it by itself, the case its "never through a hardlink" is about; `Publish` is a
new release upstream.

### 2.9 `Gptq`, `DraftHead`, `QsaTopK`, `DecodeStep`

`Gptq` follows the bytes of the head: group by group `QuantizedGroup` picks the
scale, rounds half to even and clamps; `QuantizedRow` puts the bytes of a row's
groups one after the other and `PackedRow` packs them little-endian;
`DequantRow` infers packing, bits and group from the shapes and undoes it with
the zero point stored less one.  A scale is kept as the weight it was picked
from, so all values are integers, scaled by `Half`.

`DraftHead`: `BuildDraftVocab` is the tool (special tokens and bytes, then the
corpus by rank, then low ids), `QuantizeLmHead` the other one, `ComputeLogits`
a draft step, which on its first call drops ids the model does not have, pads
to the alignment, reads the rows in chunks and keeps them; with an int4 head it
keeps what `marlin_quantize` makes of them (`Requantized`, external: the scale of a
group of `Int4Group` is the least that cuts off no weight, `Int4Span` over `Int4Unit`,
and weights are rounded half to even).  A score stands for the row it is computed
with, scaled by `Int4Unit` besides with an int4 head, so that these too are integers.

`QsaTopK`: `ScoreBlocks` (external) writes the visible columns into a buffer
that was never cleared, `SelectBlocks` masks, takes the top k and fills up.

`DecodeStep` runs the tools, then steps for ever: score, select, draft.

## 3. The runs

| run | question | result |
|---|---|---|
| `pin` | is the pool consistent and the contract kept under every interleaving; is everything claimed that could be; does a shared prompt stay when marked prompts fit the cap? | holds |
| `pin_overflow` | does it stay when they do not fit? | **violated** |
| `admission` | under a scheduler: is a marked prompt pinned where it can be hit; do requests keep finishing? | holds |
| `mamba_v2` | does the V2 runner always find and save the right state? | holds |
| `mamba_v1` | and the V1 runner? | holds |
| `ple_prefetch` | does a lookup ever see rows that are not its own; does every lookup return if the worker stops for good? | never; yes, unless its own gather is held |
| `ple_gather` | is a prepared table served whole and with its scale; are gathered rows exact? | yes |
| `state_copy` | is an unsynchronised copy an assignment between tensors? | yes |
| `step_hooks` | does a capture come, end and cover its steps; is every guard hit reported? | yes |
| `decode_step` | does the row attend to its best blocks; are drafts scored by their own rows, to within what 8 and 4 bits can hold? | yes |
| `prepare` | is an interrupted preparation repaired by running it again, also after the tool was run by hand? | yes |
| `prepare_copied` | also where hard links do not work? | **violated** |

### 3.1 Bounds, and why they are enough

* `pin`: four blocks, three hashes, two requests, cap two.  A prompt can
  outgrow the cap, a hash can be on two blocks, a block can be shared, and a
  block is left over for ordinary traffic.  The interesting collisions involve
  two blocks of a hash, or two requests of a block.  Blocks and requests are
  symmetric (no definition distinguishes them; the properties are safety
  properties).  `pin_overflow` only lowers the fraction so that the cap becomes
  one.
* `admission`: three requests of three or four tokens, two of them marked with a
  common beginning; a group that caches, a recurrent one and one that does not
  cache; seven blocks, a cap of two, two running at once.  Hits, preemptions
  (also of the request that asked), re-arms while a pinned prompt is on loan and
  admissions that count pinned blocks all occur; the dropped pool floor
  (`WithinCap_OffByOne`) is enough to stall it.  A chunk is one token.
* `mamba_*`: blocks of three tokens and two drafts, so that drafts can end
  before, on and after a boundary; nine or ten tokens make three boundaries, so
  that a request can be preempted, come back on a hit and cross another one.
  Drafts fewer than a block's tokens is an assumption (`MambaAssumption`);
  the deployed values are two or three drafts and blocks of 1600 tokens.  Two
  mutants of `GuardNeverHit` break it in the two phases it is about: the seed of a hit
  before the forward pass, the shift of the saved state after it.
* `state_copy`: words of four bytes, two lanes, two tiles, two blocks in pages
  of fourteen bytes: each of the loops of the kernels runs zero, one and two
  iterations, heads and tails of every length, paddings, element sizes of one
  and two bytes and ids on either side of the pool occur.  One model has an
  attention group between two mamba groups and a group of two layers, so that
  counting groups or layers wrongly finds another state.
* `step_hooks`: a report every three steps and a device up to four launches
  behind, so two refreshes can be outstanding; windows of two steps, two
  touches, one step that fails, traces that fail any number of times.
* `ple_prefetch`: two batches of one length and one too large for a slot; both
  element sizes.  Three job identities are never exhausted: when `prefetch` takes
  a slot whose job is done, the jobs still referred to are the other slot's and
  perhaps one that failed before the device has copied its ids; were there none to take, the lookup would stop and
  `EveryLookupReturns` fail.  The batch too large for a slot is pooled by the lookup,
  one of the others by the worker alone, and it is the latter's rows that may not
  come: its own synchronous lookup then hangs for itself, that of the large batch
  for the pool, and that of the third batch never.
* `ple_gather`: seven rows in two shards of four, the last one short, in two
  files; all batches of up to three ids among the edges of the shards and of the
  table and those outside, and three longer ones; inline up to two ids, two rows
  per task, so batches make tasks that end with a chunk and with a shard.  All
  shapes of two shards occur in checkpoints, and weights stream in one or two
  calls with the scale in the first, the second or none.
* `decode_step`: two bits in words of four, groups of two, so that every
  rounding, tie, clamp and both signs of the scale occur in one row; four
  tokens of which the model has three, every corpus of counts up to two; chunks
  and alignment of two; for the int4 head two bits again, in groups of four, so that
  rows are regrouped when they are requantized; three columns and two blocks to
  choose.
* `prepare`: two shards, one of which holds the head and both side layers, as in
  the checkpoint; two releases; two interruptions, so the repair of a repair can
  itself be interrupted; one tool by hand.

`CHECK_DEADLOCK FALSE` is set where the system is meant to stop, a launch of
`StateCopy` that is over.

### 3.2 Fairness

* `PinScheduler`: the engine core loops (`WF(Engine)`).  Requests may stop
  coming, or never stop.
* `PlePrefetch`: weak fairness of the main thread's lookup up to its gather and of
  the device, each as a whole: there the main thread only ever waits with a timeout
  or for the device.  Weak fairness of the synchronous gather while nothing keeps
  its rows from being read (`Served`).  **None** for the worker, and none for a gather
  of rows the disk may not deliver.  So `EveryLookupReturns` says which lookups may
  hang: those that are at their own gather for good, while their rows are not
  delivered or, if they need the pool, while its threads are held.  None for batch assembly either: no request
  need come.
* `StepProfile`: requests keep coming (`BeginStep`), a step that began ends in
  one of its ways, and the device keeps executing.  Without traffic the last
  hits wait for the next 512 steps, as in the code.
* `CheckpointPrep`: a tool that runs goes on (`WF_vars(Run)`), and an operator
  whose script stopped starts it again (`WF_vars(Again)`).  Interruptions are
  bounded by `MaxCrashes`; a script that always dies finishes nothing.
* The others are safety specifications.

### 3.3 What is assumed of code outside the repository

* vLLM's scheduler gives a request tokens as `Scheduled` describes, one batch at
  a time; a request's blocks of one cache group carry distinct hashes.
* vLLM's scheduler serves first come first served, preempts the latest request,
  frees state blocks behind the running one before it allocates, and admits
  nobody in a step that preempted (`PinScheduler`).  Free blocks that cache
  nothing are reused before others.
* The counts that `postprocess_mamba_align_gpu` copies to the CPU have arrived
  before the next preprocess reads them (vLLM synchronises).
* A batch hashed by the prefetch hook that has as many ids as the lookup has the
  same ids: both hash the same unpadded input.  This is `Hashed` in
  `PlePrefetch`; `consume` itself compares lengths only.
* All copies are issued on one CUDA stream and execute in order.
* `batch_memcpy_kernel` is not called for an overlapping move to the right (the
  first runner moves states to earlier columns or to other blocks; the kernel's
  barrier covers one iteration only), and with token-first conv states only.
* `torch.topk(sorted=False)` lists what exceeds the k-th value before what
  equals it.  With any order at all the fill of the tail could hide a visible
  block.
* docker starts a container whose engine died again.
* Ids of special and added tokens are below the tokenizer's size
  (`DraftAssumption`).  A row of the head is not empty, and its inputs divide
  into groups, which the tool and `marlin_quantize` assert, and into words, by
  which the tool reshapes (`WeightsAssumption`).
* The state tensors are as vLLM cuts them from its pages (`Laid` in
  `ModelsAssumption`): the last dimension is contiguous, the tokens of a conv window
  follow each other (or, with the DS layout, its rows do not overlap), and neither do
  blocks.  Paddings between blocks or rows are of any size, and so are the alignments.
* A launch names columns its row of the block table has, and the accepted tokens it
  shifts by leave at least one token of the window; the first runner takes its block
  ids from the scheduler, so from the pool, keeps no DS layout, and does not copy a
  state onto itself (`CallsAssumption`).
* `hf download` gives a file its name when it is whole, and replaces a file that
  differs from the release as a whole.  The file that has the table's scale also
  holds a shard, and the files of the release together hold all of the table's
  shards (`TableAssumption`).
* A checkpoint has finitely many shards and none of them is named like one of
  its other files (`ShardsAssumption`).

## 4. Findings

1. `pin_overflow`: `set_pinned_hashes` rebuilds the reservations from the pin
   queue, so a block on loan loses its own.  With a cap smaller than a marked
   prompt, the other blocks of the prompt may use the cap up first, and the
   system prompt's block, common to all marked prompts, becomes an ordinary
   eviction candidate.  The repository's `README.md:304` says it stays cached no
   matter what other traffic does.  While every marked prompt fits the cap the
   promise holds (`FittingPromptsStayCached` in the run `pin`).
2. `prepare_copied`: `link_tree` takes a name that exists for done.  Where it
   falls back to copying, a copy cut short keeps its final name and stays in the
   variant for good, while the script reports success.

Observed while modelling, without a run of their own:

* The synchronous gather that takes over from a worker that is late reads the same
  files from the same disk, without a timeout, and a large batch waits for the pool's
  threads, which the worker's gather may hold (`vllm_ple_mmap.py:214`).  The five
  seconds of `consume` thus protect a lookup from a stuck worker, not from a disk that
  does not deliver its own rows; one whose rows are delivered hangs only if it needs
  the pool (`EveryLookupReturns`).
* A request that needs more blocks than the pool has beside the pin waits for
  ever, and as the queue is served in order, so does everyone behind it
  (`RequestsKeepFinishing` is stated for requests that fit beside the cap).
* The admission test counts idle pinned blocks of a hit as blocks that will be
  taken from the free queue; it errs on the safe side.
* `fp8_convert.py` started by hand a second time quantizes what is already fp8
  and moves it over the `.bf16.bak` originals (`BackupsAreOriginals` excepts
  it); the script run afterwards downloads and converts the shards afresh.
* A run of `prepare.sh` over a newer release leaves the old release's untouched
  shards in the variant (`FinishedMeansServable` is therefore stated for the
  variant up to the first new release).
* `strip_ple_table.py` copies an incomplete source without a word; the server
  then serves a table that raises for the missing rows.
* An FP8 checkpoint's own streamed scale takes precedence over the scale of a
  table directory made from another checkpoint.
* The docstring of `quantize_lm_head_int8.py` says that the scale keeps the sign
  of the largest element; the code, and the comment in it, use the opposite
  sign.  What is served is right either way.
* The guard's counter counts tile programs, not block ids.

## 5. The proofs

Every theorem holds for all values of the constants that satisfy the named
assumptions of the module it is about, however large.  For each specification
there is an inductive invariant (`IInv`, or a name of its own where a module proves
about two), a lemma per action that says the action keeps it, and the theorems it
implies.

### 5.1 The pin

`NeverEvictPinProofs` proves, for every finite set of blocks and hashes, every
set of marked prompts and every cap fraction:

| theorem | statement |
|---|---|
| `TypeCorrect` | `Spec => []TypeOK` |
| `Partition` | `Spec => []PoolPartition` |
| `Reservations` | `Spec => []ReservationSound` |
| `Cap` | `Spec => []CapRespected` |
| `Residency` | `Spec => ReservedStaysResident` |
| `ResetSound` | `Spec => ResetNeedsOnlyIdle` |
| `Refinement` | `Spec => ImplementsContract` |

Assumptions: `BlocksAssumption` (finitely many blocks, `NoBlock` not one of
them), `HashesAssumption` (finitely many hashes, `NoHash` not one of them,
marked prompts are sets of hashes) and `FracAssumption` (the fraction is a
quotient of naturals).

The inductive invariant is `TypeOK`, `PoolPartition`, `ReservationSound` and
`CapRespected` together; none but the first is inductive alone.  That a block
the pin claims is in no queue needs the partition; that a block in the pin
queue, taken by `touch`, leaves the right queue needs `pinnedIds = pin` of
`ReservationSound`; that allocation evicts no reserved block needs that a
reserved block is not in the free queue; and the cap after a free is bounded
because fresh claims hold new hashes, so `Reserved'` is the disjoint union of
the old reservations and the fresh hashes (a lemma on cardinalities), which in
turn needs reserved blocks to carry the hashes they are reserved for.

`Residency` follows from the step relation under that invariant: each action
either replaces the pin or keeps every holder and the hash of its block.
`ResetSound` needs the partition: with no block in use and the pin dropped the
free queue is the whole pool, so the count the stock code takes is one (the
null block).  `Refinement` maps every action to `Traffic`, `Rearm`, `Reset` or a
stutter.

It also proves the two invariants that speak of the history:

| theorem | statement |
|---|---|
| `ClaimedOnFree` | `HSpec => []ClaimedWhenFreed` |
| `FittingPrompts` | `HSpec => []FittingPromptsStayCached` |

Every step of `HNext` is a step of `Next`, so `IInv` holds along every run with
history.  Relative to it `ClaimedWhenFreed` is inductive.  The one step that
matters is a free: what `_acquire_pin` turns away finds its hash reserved, or a
block of the same claim that takes it, or the cap used up, and then the cap is
used up afterwards too, because the reservations grow by exactly the fresh
blocks of the claim (`ClaimCounts`).

`FittingPromptsStayCached` is not inductive: all that is left of a hash may be
an idle duplicate in the free queue, and the next allocation takes it.  The
invariant that is (`FitInv`) says that each hash every marked prompt has shared
is reserved or on a block in use, and that the pinned set fits the cap.
Re-arming may drop a reservation only for a block on loan, which is in use; and
the free that brings it home claims it, because a pin that has used up a cap
its hashes fit has reserved all of them (`FullPin`), this one included.  The
run `pin_overflow` shows that the premise is needed: with a prompt larger than
the cap the promise fails.

The same module proves, under the scheduler, for any requests and prompts, any cache groups and block
sizes, any pool and cap, and any number of running requests:

| theorem | statement |
|---|---|
| `SchedulerUsesPin` | `MarkersFound /\ SchedSpec => Spec` |
| `MarkedPromptPinned` | `MarkersFound /\ SchedSpec => []MarkedPromptIsPinned` |

`MarkersFound` is what tokenizer and configuration owe the patch: the inner
tokens of the marker occur in a prompt exactly if its text has the marker, and
the block size of every group that caches is a multiple of the hash block size.
The prompts and groups of the run `admission` satisfy it, and its mutant
`Needle_Whole`, which looks for the whole marker and so does not find it, shows
that nothing is promised without it.  `SchedulerAssumption` says that prompts
are not empty and block sizes not zero, `PromptsAssumption` that the pool's
hashes include those of the prompts and that each marked prompt is one the pool
may be armed with.

`SchedulerUsesPin` says that a step of the scheduler is an action of the pool or
leaves it alone, so every theorem above holds under the scheduler as well.  What
has to be shown is that a block cached is one of a prompt (whoever is computing
has tokens left, `ComputedInv`) and that whoever allocates, touches or frees is a
request that runs (`TurnsInv`: queues without duplicates, and the turn is the
cursor's).

`MarkedPromptIsPinned` speaks of a request that is through; the invariant
(`MarkedInv`) speaks of it on its way: each block of its longest hit that it has
computed is reserved, or on a block in use, or in the hit it was admitted with
and has not taken yet.  Preemption takes all it had computed back, so nothing is
claimed of it until it is admitted again, and then it starts from what the cache
still has.  The pool's half is `NextKeeps`, the lemma behind `FittingPrompts`:
under a pin that fits its cap, what survives goes on surviving.

### 5.2 The two runners

`MambaAlignV2Proofs` and `MambaAlignV1Proofs`, for every block size, every
number of drafts smaller than a block and requests of any length
(`MambaAssumption`):

| theorem | statement |
|---|---|
| `RightState` (both) | `Spec => []StartsFromComputed` |
| `ExactCache` (both) | `Spec => []CacheExact` |
| `GuardIdle` (V2) | `Spec => []GuardNeverHit` |
| `CopiesInRow` (V1) | `Spec => []StagedCopyInRow` |

The invariant goes phase by phase, and the phases are described once, in
`MambaStateProofs`, for any runner that works in column `col` with `a` accepted
tokens: `Ready` between steps (the state after the computed tokens is where the
next forward pass looks), `Moving` while the copies before the forward pass run
(the programs that are done have moved their part, the others still find it),
`Started`, `Absorbed` after the forward pass, and `Saving` while the boundary is
copied.  Each says how far the row reaches, so that both kinds of copies are within
it.  The two runners differ in where they keep `col` and `a`; each instantiates
the phases with its own variables.

`GuardIdle` and `CopiesInRow` are about the copies before the forward pass and those
that save a boundary after it.  The saved boundary lies within the tokens the row has
blocks for, and its bias within the drafts, for which the row has `NumSpec` columns.

None of these is inductive.  A cached block stays exact only because no later
step writes to it, so the invariant says where states may be at all: every
block with a state within the computed tokens is shared (`BehindShared`), a
shared block lies within them (`SharedWithin`), and a request in its prefill has
nothing ahead of them (`NothingAhead`).  That a step crosses at most one
boundary beyond what the scheduler aligned, and that the column of that boundary
is the one it works in or the one before it, is arithmetic of columns
(`CrossedColumn`), and is the place where drafts must be fewer than a block's
tokens.  For V1 there is the dictionary besides: an entry of a request that is
gone may be stale, but then the scheduler output names the request as finished
or its successor as resumed, and the entry is dropped before it is read
(`StagedInv`).

### 5.3 The prefetch

`PleProofs`, second part, for any batches, any size of a slot and any number of jobs:

| theorem | statement |
|---|---|
| `PinnedRowsSafe` | `Spec => []CopiesIntact` |
| `SlotsExclusive` | `Spec => []OneJobPerSlot` |
| `PendingFresh` | `Spec => []PendingIsThisSteps` |
| `Refinement` | `Spec => ImplementsRowLookup` |

`JobsInv` ties a slot to its job (an unfinished job still has its slot),
`WorkerInv` says that what is queued or in the worker's hands is unfinished and
there once only, `BufferInv` that what a job's flags promise is in its slot's
memory, `MainInv` that the main thread holds this step's job or none.  None of
them says that memory is free when it is written.  That follows from how little
is ever under way (`StreamInv`): the stream is empty, or holds the rows of one
step, or the ids of one, or the rows of a step followed by the ids of the next;
since the ids go behind the rows on the stream, the worker cannot start on a
slot whose rows have not left.

`Refinement` maps `asked` to the rows under way followed by the batch in the
main thread's hands (`AskedSoFar`).  Taking up a batch asks, a copy of rows to the
device answers, every other step stutters; that the answer is the right one is
`CopiesIntact`.

### 5.4 The table

`PleProofs`, first part, for every number and size of shards, every division into
files, every model and every batch of ids:

| theorem | statement |
|---|---|
| `FinishedIsServed` | `GatherSpec => []FinishedTableIsServed` |
| `ScaleIsTheStreams` | `GatherSpec => []ScaleFollowsStream` |
| `GatherExact` | `GatherSpec => []AnswerExact` |
| `NoSpuriousRaise` | `GatherSpec => []RaisesOnlyForAbsentRows` |

The table's half of the invariant (`TableInv`) says that a file with its final
name in a finished copy is whole, and that a table that was opened has shards of
the size the row arithmetic expects; the other half (`PoolInv`) that each
position of a gather under way is exact or belongs to a task still to run.  The
lemmas carry the weight: ranks enumerate a finite set (so `Unique` and its
inverse are what `np.unique` returns), tasks cover every position of the batch
(`TasksCover`: a position lies in its run of one shard, and in a chunk of that
run), and a row is readable exactly if the opened table stores it
(`ReadableIsStored`), which bounds the last, short shard.

### 5.5 The profiler

`EngineStepProofs`, second part, for every window and any numbers of touches and errors:

| theorem | statement |
|---|---|
| `TracesFull` | `PSpec => []TraceCoversWindow` |
| `FailuresPaid` | `PSpec => []OneFailurePerTrigger` |

`WindowCounted` relates the counter the code keeps to the steps really captured,
within and between steps; `TouchesPay` counts that every failure has used up a
touch that is neither in the trigger file nor in the capture under way.

### 5.6 Checkpoint preparation

`CheckpointPrepProofs`, for every finite set of shards, every choice and order
of the side shards, any number of releases and interruptions, with and without
hard links, and any of the tools run by hand:

| theorem | statement |
|---|---|
| `DoneMeansServable` | `Spec => []FinishedMeansServable` |
| `BackupsKept` | `Spec => []BackupsAreOriginals` |
| `CheckpointUntouched` | `Spec => SourceUntouchedByVariant` |

None of the three is inductive.  What a tool writes depends on what it read
before, and what it finds on where an earlier run was stopped, so the invariant
`IInv` says, per tool and step, what every file is: `HeadInv` that the head's
shard and the index are as released, converted or half-written, `Fp8Inv` that
the shards `fp8_convert` is through with are converted and the rest are not, and
so on to `MtpInv`.  A run under the script begins from what the download leaves,
all files as released; of a tool run by hand only what it cannot spoil is
claimed, since the script downloads anew after it.  Three parts concern both
directories at once:

* `OneKind`: entries linked to one file have the same name, or both are shards
  or their backups.  Shards are only made, moved, linked and removed, so an edit
  in place cannot reach them through another name.
* `Separate`: the three files the last tool writes afresh in the variant are
  linked to nothing.  `unshare` establishes it, from a link count: an entry whose
  file has one entry is nobody else's, and that needs finitely many shards.
* `VariantInv`: before a second release, a shard linked into the variant is
  converted, whenever it was linked.  An interrupted run leaves links, and the
  next one takes them as they are.

The lemmas of the first part are about file systems as such: what a write in
place, a write to a new file, a move, a replacement, a removal and a link change,
and that they change nothing else (`WriteFrame`, `MoveFrame`, `ReplaceFrame`,
`RemoveFrame`, `LinkFrame`).  Then each tool has one lemma.  That the checkpoint
is untouched while the variant is made falls out of the same step lemmas.

### 5.7 The decode step

`EngineStepProofs`, first part, for every number of columns, blocks, tokens and
rows, every set of scores, heads, special tokens and sizes, every width of a
byte that divides a word, every group of either quantization, chunk and alignment:

| theorem | statement |
|---|---|
| `AttendsBest` | `StepSpec => []AttendsBestBlocks` |
| `VocabularyKept` | `StepSpec => []VocabularyByRank` |
| `DraftSurvives` | `StepSpec => []DraftNeverRaises` |
| `DraftScoresFaithful` | `StepSpec => []DraftScoresAreHeads` |

They assume `TopkAssumption`, `GptqAssumption`, `DraftAssumption` and
`WeightsAssumption` (section 3.3); `AttendsBest` also the order of `torch.topk` named
there: it covers every choice among tied blocks, not every order of the result.

The steps are few; the work is in what the operators compute.  Folds,
`FlattenSeq`, `Min`, `Max` and `Ascending` are defined by a `CHOOSE`, which says
nothing until such a value is known to exist.  `Counting` makes induction over
the numbers a plain fact: of a set that has 0 and the successor of each of its
members, the least number outside would be the successor of one inside, and the
library's theorem that strict inclusion of finite sets is well founded supplies
that least number.  `Iteration` turns it into the existence of the function that
a fold recurs by, and from there on a fold is stated by its steps.

* `AttendsBest`: unscored columns are masked with a value below every score.
  What `torch.topk` lists first is thus visible as long as visible columns are
  left (`TopkStartsVisible`): a masked column ahead of a visible one that is
  left out would have to be worth as much, and in the tail a tie cannot come
  before what exceeds it.
* `VocabularyKept`: what a pass of `Added` adds is a beginning of what it was
  given (so it is by rank), and the two passes together fill up to the size.
* `DraftInv`, the invariant of the draft head: the ids are a sequence that has id
  0 (a byte's, always kept, and in every model's vocabulary, so that some row is
  left when the others are dropped); the head is one that was quantized from the
  weights; a private head that was built scores each of its tokens by that
  token's row (`Serves`).  The theorems are not inductive without it: what a
  draft step scores was built in an earlier one.
* A row read back: the digits of a word of `PackFactor` bytes are the bytes it was
  packed from, so that packing width, zero point and group inferred from shapes
  are those the tool used; `RoundDiv` is off by at most a half; and a byte
  clamps only at the far end from the weight the scale was picked from, where it
  loses at most a whole step.  This is `Faithful`, and `RowFaithful` says it of
  every weight of a row.
* A row requantized: no weight of a 4-bit group is beyond what the group's span
  covers (`SpanCovers`), so nothing is cut off (`NoneCutOff`) and rounding is all that
  is lost, half a step of the group (`WithinInt4`, `PrivateRow`).  That step is
  large: by the repository's own figure (`README.md:414-416`) the error of the int4
  head is about 11%, against 0.5% in 8 bits.
* Chunks, laid end to end, are the rows they were cut from, whatever the length
  of the last (`ChunksFlat`); with int4 each is aligned, since the padded length
  and the chunk are.

### 5.8 The copy kernels

`StateCopyProofs`, for every model (any cache groups, layers and state tensors that
are `Laid`, with or without the DS layout), every alignment of the tensors, every width
of a word, any number of lanes and tiles, every launch and every interleaving of its
threads:

| theorem | statement |
|---|---|
| `KernelTyped` | `KernelSpec => []TypeOK` |
| `KernelMovesExactly` | `KernelSpec => []MoveExact` |

They assume `SizesAssumption`, `CallsAssumption` and `ModelsAssumption` (section 3.3).
`KernelTyped` says of every load and store, not only of the memory they leave, that it
is within the state pools.

The proof has two halves that meet in `Disciplined`: every byte a program touches is in
memory, no byte is written twice, and a byte that is both read and written is read
first, by the same thread, or with the barrier in an iteration no later than that of the
write.

* *What a disciplined launch does.*  `MovingInv` is inductive: what a thread has loaded is
  what was there in the beginning, and what it has stored is in place
  (`ThreadMoves`); every other byte is as it was (`MovedOrKept`); with the barrier
  no thread has stored in an iteration in which a running one has still to load
  (`BarrierKept`).  So a launch that is over has moved what its operations say,
  however they were interleaved.  `KernelInv` adds that program, barrier and guard
  counter are those of the call.
* *That the kernels' programs are disciplined and mean the assignment.*  `Carries` says
  that a program takes, each once, the bytes at `reads[b]` to the addresses `b`,
  `OrderKept` that none is overwritten before it is read; the two imply `Disciplined`
  (`OrderDisciplines`).  `Realizes` says that what is carried is what `Meant` says.

The second half is about numbers, and goes from the inside out.  Slices of tiles, then
iterations, then lanes cover every index once (`StridedCovers`, `HandledOnce`), so head,
words and tail cover every byte of a copy once, whatever the alignment
(`CutsSplit`), and a copy carries its bytes (`MemcpyCarries`).  A window shifted in place
is the hard case: a token is read from where the shift writes another, with no barrier
on the fused path.  It is sound because each lane handles the same cut of every token:
words are used only where source and destination agree below a word, and then the token
that is read and the write that replaces it later are cut alike (`SameCuts`), so that a
byte is overwritten by the lane that has read it, afterwards (`ShiftCarries`).  With DS rows a lane owns whole
rows (`RowOnce`, `DsCarries`); for the batched kernel an iteration reads ahead of what
it writes (`BatchCarries`).

Then the addresses.  `StatesAre` and `SlotIs` say that the metadata a kernel reads is
that of the very tensor and layer of the call, the group counted among the mamba
groups, and `Placed` that its blocks are in memory and distinct blocks do not overlap.
With these each path is shown to realize the assignment (`TemporalBrings`,
`SdBrings`, `DsBrings`, `BatchBrings`), and a launch the guard stops has no program and
counts its tiles (`StoppedIs`).

The programs are sequences computed from sizes.  Induction over them uses `Counting`
and `Iteration` as in 5.7.

### 5.9 Only model-checked

* The liveness properties `RequestsKeepFinishing`, `EveryLookupReturns`,
  `CapturesComeAndEnd`, `EveryHitReported` and `InterruptedRunIsFinished`:
  fairness and `ENABLED` are out of the proof system's reach.

## 6. Not modelled

* `src/vllm_fp8_hybrid.py`: a stateless choice per layer at model construction.
* `src/patch_hit_debug.py`: logging.  `src/patch_prefill_metrics.py`: two counters
  fed from what the engine reports.
* `Dockerfile`, serving scripts, `bench/`: build, start-up, measurement.
* Pin: statistics and logging.
* Preparation: quantizer numerics other than the head's, `--dry-run`, `--shard`.
* PLE: safetensors header parsing, prewarm, statistics, class patching.
* Mamba: the "all" mode and the plumbing of buffers; several requests in a batch
  (requests have disjoint rows, share only cached blocks, which the slot's
  succession of requests exercises).
* Guard: the early return of `run_fused_precopy` when no request is scheduled.
* Draft head: the dense-weight branch (this fork's head is GPTQ), rounding of
  scales to f16 and of dequantized rows to bf16, the order of Marlin's words, the
  self-check at build time, a vocabulary file without any id of the model.
* QSA: the modes other than exact end in the stock kernel.

## 7. Plan

Done: the pin with its contract, history, proofs about both, arming and
scheduler; mamba state alignment, both runners; the PLE prefetch with its abstract specification,
the gather, the table's preparation and opening; the copy kernels with the
tensors they move, guard, telemetry and profiler; checkpoint preparation; draft
vocabulary, head and QSA top-k.

Proved: all properties of the pin that are safety properties, alone and under the
scheduler, of both runners, the prefetch with its refinement, the table, the
profiler's window, the decode step with its draft vocabulary and head, the copy
kernels, and the checkpoint's preparation.  Of what the passing runs check only
liveness has no theorem.
