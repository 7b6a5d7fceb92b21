------------------------------ MODULE StateCopy ------------------------------
(***************************************************************************)
(* The byte copies of mamba state blocks, as the device runs them:         *)
(* _memcpy_u64_tiled, _copy_mamba_state_block and batch_memcpy_kernel of   *)
(* src/mamba_utils_guarded.py.                                             *)
(*                                                                         *)
(* Which bytes they are given is up to module StateTensors.                *)
(*                                                                         *)
(* A kernel launch is one call of one of them, for one state.  Each lane   *)
(* of each tile is a thread that performs its loads and stores in program  *)
(* order; nothing orders the threads except batch_memcpy_kernel's barrier. *)
(* The head, the body and the tail of a copy are lanes of different        *)
(* vectors and count as different threads, which allows more interleavings *)
(* than the device.                                                        *)
(*                                                                         *)
(* Memory starts with its own address in every byte, so that what a byte   *)
(* holds says where it was copied from.  Word stands for the eight bytes   *)
(* of a u64, Lanes for COPY_BLOCK_SIZE, Tiles for TEMPORAL_TILES.          *)
(***************************************************************************)
EXTENDS StateTensors

CONSTANTS
  Word,        \* bytes of a vector element
  Lanes,       \* elements one iteration of the copy loop handles
  Tiles,       \* programs that share a temporal copy
  Calls        \* the launches to examine

ASSUME SizesAssumption == {Word, Lanes, Tiles} \subseteq Nat \ {0}

\* A launch: of the fused kernels or, on the first runner, of batch_memcpy; for a
\* state of the model, with each mamba group's row of the block table, the columns
\* and the accepted tokens to shift by, which leave at least one of a window.  The
\* first runner keeps no DS layout and takes its block ids from the scheduler.
ASSUME CallsAssumption ==
  \A c \in Calls :
    /\ c.path \in {"fused", "batch"}
    /\ c.model \in DOMAIN Models /\ c.state \in DOMAIN States[c.model]
    /\ LET state == States[c.model][c.state]
           row == c.tables[state.group]
           from == IF state.tensor.conv THEN c.src ELSE c.src + c.bias
       IN /\ row \in Seq(Int) /\ {c.src, from, c.dst} \subseteq DOMAIN row
          /\ c.bias \in Nat
          /\ state.tensor.conv => c.bias < Metadata[c.model][c.state].width
          /\ c.path = "batch" => /\ ~Models[c.model].dimFirst /\ ~InPlaceAlready(c.src, c.dst, c.bias)
                                 /\ {row[from], row[c.dst]} \subseteq 0 .. state.tensor.shape[1] - 1

VARIABLES
  call,        \* the launch
  program,     \* what each thread with something to do does, in order
  waits,       \* the program has a barrier between loads and stores
  mem,         \* the state pools
  pc,          \* loads and stores each thread has done
  reg,         \* what each thread has loaded and not stored
  guardHits    \* guard_hits

kernelVars == <<call, program, waits, mem, pc, reg, guardHits>>

Op(from, to, len) == [from |-> from, to |-> to, len |-> len]

CDiv(a, b) == (a + b - 1) \div b

\* A thread: the tile it belongs to, the vector it is a lane of, and the lane.
LaneSet == 0 .. Max({Word, Lanes}) - 1
Threads == (0 .. Tiles - 1) \X {"head", "body", "tail", "bytes", "rows"} \X LaneSet

-------------------------------------------------------------------------------
(* _memcpy_u64_tiled *)

\* What a lane handles of n elements, in order: one of each iteration.
OfLane(n, lane) ==
  IF lane >= Lanes THEN << >> ELSE [i \in 1 .. CDiv(n - lane, Lanes) |-> lane + (i - 1) * Lanes]

\* The indexes below n that a lane of a tile handles: contiguous slices of whole
\* iterations per tile.
PerTile(n, tiles) == CDiv(CDiv(n, tiles), Lanes) * Lanes

Strided(n, tiles, tile, lane) ==
  LET start == tile * PerTile(n, tiles)
      end == Min({start + PerTile(n, tiles), n})
  IN [i \in DOMAIN OfLane(end - start, lane) |-> start + OfLane(end - start, lane)[i]]

\* Whether source and destination agree below the word.
SameAlignment(src, dst) == (src - dst) % Word = 0

\* Bytes that lift the destination to a word, and whole words after them.
HeadBytes(dst, size) == Min({(-dst) % Word, size})
BodyWords(dst, size) == (size - HeadBytes(dst, size)) \div Word

\* What thread t does of a copy of size bytes.
Memcpy(src, dst, size, tiles, t) ==
  LET tile == t[1]
      lane == t[3]
      head == HeadBytes(dst, size)
      words == BodyWords(dst, size)
      tail == head + words * Word
      Bytes(is) == [i \in DOMAIN is |-> Op(src + is[i], dst + is[i], 1)]
  IN IF ~SameAlignment(src, dst)
     THEN IF t[2] = "bytes" THEN Bytes(Strided(size, tiles, tile, lane)) ELSE << >>
     ELSE CASE t[2] = "head" /\ tile = 0 /\ lane < head -> <<Op(src + lane, dst + lane, 1)>>
            [] t[2] = "body" ->
                 LET is == Strided(words, tiles, tile, lane)
                 IN [i \in DOMAIN is |->
                       Op(src + head + Word * is[i], dst + head + Word * is[i], Word)]
            [] t[2] = "tail" /\ tile = 0 /\ tail + lane < size ->
                 <<Op(src + tail + lane, dst + tail + lane, 1)>>
            [] OTHER -> << >>

-------------------------------------------------------------------------------
(* _copy_mamba_state_block *)

\* A launch of the fused kernels as a thread sees it: the state's metadata and the
\* block ids its group's table holds in the two columns.
Launch(c) ==
  LET k == Metadata[c.model][c.state]
      row == c.tables[k.group]
  IN [k |-> k, dst |-> row[c.dst], bias |-> c.bias,
      src |-> row[IF k.width > 0 THEN c.src ELSE c.src + c.bias]]

BlockAddr(l, b) == l.k.base + b * l.k.blockStride

\* The block ids the guard lets through.
InPool_OneMore(l, b) == 0 <= b /\ b <= l.k.numBlocks
InPool(l, b) == 0 <= b /\ b < l.k.numBlocks

\* Tokens of a conv window that remain after the shift.
Kept(l) == l.k.width - l.bias

\* SD conv: one copy of the shifted window, or token by token when the window
\* is shifted inside its own block.
InPlace_Never(l) == FALSE
InPlace(l) == l.src = l.dst /\ l.bias # 0

SdProgram(l, t) ==
  LET src == BlockAddr(l, l.src)
      dst == BlockAddr(l, l.dst)
      token == l.k.inner * l.k.elem
  IN IF t[1] # 0 THEN << >>
     ELSE IF InPlace(l)
     THEN FlattenSeq([k \in 1 .. Kept(l) |->
                  Memcpy(src + (k - 1 + l.bias) * token, dst + (k - 1) * token, token, 1, t)])
     ELSE Memcpy(src + l.bias * token, dst, Kept(l) * token, 1, t)

\* DS conv: rows of a lane, one token after another; elements of other sizes
\* than two and four go byte by byte.
DsProgram(l, t) ==
  LET src == BlockAddr(l, l.src)
      dst == BlockAddr(l, l.dst)
      rows == OfLane(l.k.rows, t[3])
      Element(from, to) ==
        IF l.k.elem \in {2, 4} THEN <<Op(from, to, l.k.elem)>>
        ELSE [b \in 1 .. l.k.elem |-> Op(from + b - 1, to + b - 1, 1)]
      Token(k) ==
        FlattenSeq([i \in 1 .. Len(rows) |->
                Element(src + rows[i] * l.k.rowStride + (k - 1 + l.bias) * l.k.elem,
                        dst + rows[i] * l.k.rowStride + (k - 1) * l.k.elem)])
  IN IF t[1] # 0 \/ t[2] # "rows" THEN << >>
     ELSE FlattenSeq([k \in 1 .. Kept(l) |-> Token(k)])

\* Temporal: the block of the accepted column, shared among the tiles.
TemporalProgram(l, t) ==
  Memcpy(BlockAddr(l, l.src), BlockAddr(l, l.dst), l.k.inner * l.k.elem, Tiles, t)

\* batch_memcpy_kernel: one program, byte by byte.
BatchProgram(e, t) ==
  IF t[1] # 0 \/ t[2] # "bytes" THEN << >>
  ELSE [i \in DOMAIN OfLane(e.size, t[3]) |->
          Op(e.from + OfLane(e.size, t[3])[i], e.to + OfLane(e.size, t[3])[i], 1)]

Entry(c) == CopyEntry(c.model, c.state, c.tables, c.src, c.dst, c.bias)

\* The programs the guard stops, each counting its own hit: all of a bad
\* destination; of a bad source those that get as far as reading it.
Stopped(c, tile) ==
  /\ c.path = "fused"
  /\ LET l == Launch(c)
     IN \/ ~InPool(l, l.dst)
        \/ ~InPool(l, l.src) /\ (tile = 0 \/ l.k.width = 0)

ThreadProgram(c, t) ==
  IF c.path = "batch" THEN BatchProgram(Entry(c), t)
  ELSE LET l == Launch(c)
       IN CASE ~(InPool(l, l.src) /\ InPool(l, l.dst)) -> << >>
            [] OTHER -> IF l.k.width = 0 THEN TemporalProgram(l, t)
                        ELSE IF Models[c.model].dimFirst THEN DsProgram(l, t) ELSE SdProgram(l, t)

\* batch_memcpy_kernel waits between load and store if it copies to the left
\* onto itself.
LeftOverlap(c) ==
  c.path = "batch" /\ LET e == Entry(c) IN e.to < e.from /\ e.to + e.size > e.from

-------------------------------------------------------------------------------
(* The device. *)

\* The memory of a model, up to the end of its last tensor.
MemoryOf ==
  [m \in DOMAIN Models |->
     0 .. Max({t.ptr + t.elem * t.shape[1] * t.stride[1] :
                 t \in {States[m][s].tensor : s \in DOMAIN States[m]}}) - 1]
Addresses == DOMAIN mem
Wild == -1    \* what a load outside the pool yields

\* The threads with something to do.
ProgramOf(c) == [t \in {u \in Threads : ThreadProgram(c, u) # << >>} |-> ThreadProgram(c, t)]

KernelInit ==
  /\ call \in Calls
  /\ program = ProgramOf(call)
  /\ mem = [a \in MemoryOf[call.model] |-> a]
  /\ waits = LeftOverlap(call)
  /\ pc = [t \in DOMAIN program |-> 0]
  /\ reg = [t \in DOMAIN program |-> << >>]
  /\ guardHits = Cardinality({tile \in 0 .. Tiles - 1 : Stopped(call, tile)})

\* The operation a thread is at; it loads first, at even counts.
OpAt(t) == program[t][pc[t] \div 2 + 1]
Running(t) == pc[t] < 2 * Len(program[t])
Loading(t) == pc[t] % 2 = 0

Load(t) ==
  /\ Running(t) /\ Loading(t)
  /\ reg' = [reg EXCEPT ![t] = [i \in 1 .. OpAt(t).len |->
               LET a == OpAt(t).from + i - 1 IN IF a \in Addresses THEN mem[a] ELSE Wild]]
  /\ pc' = [pc EXCEPT ![t] = @ + 1]
  /\ UNCHANGED <<call, program, waits, mem, guardHits>>

\* All threads have loaded what they load in the iteration t stores in.
PastBarrier(t) ==
  waits => \A u \in DOMAIN program : Running(u) => pc[u] >= pc[t]

Store(t) ==
  /\ Running(t) /\ ~Loading(t)
  /\ PastBarrier(t)
  /\ mem' = [a \in Addresses |->
               IF a \in OpAt(t).to .. OpAt(t).to + OpAt(t).len - 1
               THEN reg[t][a - OpAt(t).to + 1] ELSE mem[a]]
  /\ pc' = [pc EXCEPT ![t] = @ + 1]
  /\ reg' = [reg EXCEPT ![t] = << >>]
  /\ UNCHANGED <<call, program, waits, guardHits>>

KernelNext == \E t \in DOMAIN program : Load(t) \/ Store(t)

KernelSpec == KernelInit /\ [][KernelNext]_kernelVars

-------------------------------------------------------------------------------
(* Properties. *)

Done == \A t \in DOMAIN program : ~Running(t)

\* The bytes a thread reads or writes next.
Touches(t) ==
  LET at == IF Loading(t) THEN OpAt(t).from ELSE OpAt(t).to
  IN at .. at + OpAt(t).len - 1

\* No thread of a launch reads or writes outside the state pools, and what it
\* carries is from there; each tile program counts at most one hit.
TypeOK ==
  /\ mem \in [Addresses -> Addresses]
  /\ pc \in [DOMAIN program -> Nat]
  /\ \A t \in DOMAIN program : reg[t] \in Seq(Addresses) /\ (Running(t) => Touches(t) \subseteq Addresses)
  /\ guardHits \in 0 .. Tiles

\* The block ids are those of blocks the state's tensor has.
Valid(c) ==
  LET t == States[c.model][c.state].tensor
      row == c.tables[GroupOf(c.model, c.state)]
  IN {row[IF t.conv THEN c.src ELSE c.src + c.bias], row[c.dst]} \subseteq 0 .. t.shape[1] - 1

\* When a launch is over, memory is what one atomic assignment between views of
\* the state's tensor would have left, for every layout, padding, alignment, shift
\* and interleaving of lanes and tiles, in place too; the padding, the rest of the
\* window, other blocks, states and groups are untouched, and an id outside the
\* pool changes nothing but is counted.
MoveExact ==
  Done =>
    LET meant == IF Valid(call)
                 THEN Meant(call.model, call.state, call.tables[GroupOf(call.model, call.state)], call.src, call.dst, call.bias)
                 ELSE {}
        to == {m[2] : m \in meant}
    IN /\ \A m \in meant : mem[m[2]] = m[1]
       /\ \A a \in Addresses \ to : mem[a] = a
       /\ guardHits > 0 <=> ~Valid(call)
===============================================================================
