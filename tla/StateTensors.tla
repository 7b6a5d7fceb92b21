----------------------------- MODULE StateTensors -----------------------------
(***************************************************************************)
(* Where the bytes of the mamba states are: the groups, layers and state   *)
(* tensors of a model, the metadata the fused kernels find them by         *)
(* (get_mamba_groups, MambaSpecDecodeGPUContext._populate_metadata), and   *)
(* the addresses and sizes the first runner hands to batch_memcpy instead  *)
(* (collect_mamba_copy_meta), all of src/mamba_utils_guarded.py.           *)
(*                                                                         *)
(* A tensor is a strided view of memory, [ptr, elem, shape, stride, conv]: *)
(* element sizes and ptr in bytes, strides in elements, a block for each   *)
(* value of the first index.  A model is [dimFirst, groups]: the layout of *)
(* its conv states, and for each KV cache group whether it is mamba and    *)
(* the state tensors of each of its layers.                                *)
(***************************************************************************)
EXTENDS Integers, Sequences, FiniteSets, SequencesExt, Sorting

CONSTANT Models   \* the models to examine, by name

Tensor == [ptr : Nat, elem : Nat \ {0}, shape : Seq(Nat \ {0}), stride : Seq(Nat), conv : BOOLEAN]

\* A tensor as vLLM cuts it from the pages of its layer: a token or a row of a conv
\* window is contiguous and blocks do not overlap.  A temporal block counts as
\* one dimension.
Laid(t, dimFirst) ==
  /\ Len(t.shape) = (IF t.conv THEN 3 ELSE 2) /\ Len(t.stride) = Len(t.shape)
  /\ t.stride[Len(t.stride)] = 1
  /\ t.conv => IF dimFirst THEN t.stride[2] >= t.shape[3] ELSE t.stride[2] = t.shape[3]
  /\ t.stride[1] >= t.shape[2] * t.stride[2]

ASSUME ModelsAssumption ==
  \A m \in DOMAIN Models :
    /\ Models[m].dimFirst \in BOOLEAN
    /\ Models[m].groups \in Seq([mamba : BOOLEAN, layers : Seq(Seq(Tensor))])
    /\ \A g \in DOMAIN Models[m].groups : \A l \in DOMAIN Models[m].groups[g].layers :
         \A s \in DOMAIN Models[m].groups[g].layers[l] :
           Laid(Models[m].groups[g].layers[l][s], Models[m].dimFirst)

\* The mamba groups, in the order of their ids, each once however many specs
\* its layers have.
MambaGroupIds ==
  [m \in DOMAIN Models |-> Ascending({g \in DOMAIN Models[m].groups : Models[m].groups[g].mamba})]

\* The states of the layers of the i-th mamba group.
OfGroup(m, i) == FlattenSeq(Models[m].groups[MambaGroupIds[m][i]].layers)

\* All state tensors, group by group and layer by layer, each with the position of
\* its group among the mamba groups, which is how the block tables are given.
States ==
  [m \in DOMAIN Models |->
     FlattenSeq([i \in DOMAIN MambaGroupIds[m] |->
       [s \in DOMAIN OfGroup(m, i) |-> [tensor |-> OfGroup(m, i)[s], group |-> i]]])]

\* The elements of a temporal block, without the padding of its page.
NaturalElements(t) == FoldLeft(LAMBDA m, n : m * n, 1, Tail(t.shape))

\* One slot of the metadata tensors.
Slot(state, dimFirst) ==
  LET t == state.tensor
      ds == t.conv /\ dimFirst
  IN [base |-> t.ptr,
      numBlocks |-> t.shape[1],
      blockStride |-> t.stride[1] * t.elem,
      elem |-> t.elem,
      inner |-> IF ds THEN 1 ELSE IF t.conv THEN t.stride[2] ELSE NaturalElements(t),
      width |-> IF ds THEN t.shape[3] ELSE IF t.conv THEN t.shape[2] ELSE 0,
      rows |-> IF ds THEN t.shape[2] ELSE 0,
      rowStride |-> IF ds THEN t.stride[2] * t.elem ELSE 0,
      group |-> state.group]

Metadata ==
  [m \in DOMAIN Models |-> [s \in DOMAIN States[m] |-> Slot(States[m][s], Models[m].dimFirst)]]

\* Address of a byte of the element at an index, counted from zero.
ByteAddr(t, index, byte) ==
  t.ptr + byte + t.elem * FoldLeft(+, 0, [i \in DOMAIN index |-> t.stride[i] * index[i]])

\* get_conv_copy_spec and get_temporal_copy_spec: what is left of the window
\* after the accepted tokens, or the block of the accepted column.
CopySpec(t, blocks, src, bias) ==
  IF t.conv
  THEN [from |-> ByteAddr(t, <<blocks[src], bias, 0>>, 0), elements |-> (t.shape[2] - bias) * t.shape[3]]
  ELSE [from |-> ByteAddr(t, <<blocks[src + bias], 0>>, 0), elements |-> NaturalElements(t)]

\* Nothing is to be moved.
InPlaceAlready(src, dst, bias) == src = dst /\ bias = 0

\* What the first runner enqueues for a request: an entry for each state s, from
\* the block ids its groups hold.
CopyEntry(m, s, tables, src, dst, bias) ==
  LET t == States[m][s].tensor
      blocks == tables[States[m][s].group]
      spec == CopySpec(t, blocks, src, bias)
  IN [from |-> spec.from, to |-> t.ptr + blocks[dst] * t.stride[1] * t.elem,
      size |-> spec.elements * t.elem]

\* The mamba group whose layers the s-th of all states belongs to.
GroupOf(m, s) ==
  Min({i \in DOMAIN MambaGroupIds[m] : s <= Len(FlattenSeq([j \in 1 .. i |-> OfGroup(m, j)]))})

\* What a move of state s from column src to dst means, as pairs of addresses of
\* bytes: tensor[src, bias:] -> tensor[dst, :width - bias] for a conv window,
\* whole blocks otherwise.
Meant(m, s, blocks, src, dst, bias) ==
  LET t == States[m][s].tensor
      Token(b, w, d) == IF Models[m].dimFirst THEN <<b, d, w>> ELSE <<b, w, d>>
      width == IF Models[m].dimFirst THEN t.shape[3] ELSE t.shape[2]
      dims == IF Models[m].dimFirst THEN t.shape[2] ELSE t.shape[3]
  IN IF t.conv
     THEN {<<ByteAddr(t, Token(blocks[src], p[1] + bias, p[2]), p[3]), ByteAddr(t, Token(blocks[dst], p[1], p[2]), p[3])>>
             : p \in (0 .. width - bias - 1) \X (0 .. dims - 1) \X (0 .. t.elem - 1)}
     ELSE {<<ByteAddr(t, <<blocks[src + bias], p[1]>>, p[2]), ByteAddr(t, <<blocks[dst], p[1]>>, p[2])>>
             : p \in (0 .. t.shape[2] - 1) \X (0 .. t.elem - 1)}
===============================================================================
