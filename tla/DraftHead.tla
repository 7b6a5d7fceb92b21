----------------------------- MODULE DraftHead -----------------------------
(***************************************************************************)
(* The private draft head of patch_mtp_draft_vocab.py, from the tools that *)
(* prepare it to the logits of a draft step: build_draft_vocab.py chooses  *)
(* the ids, quantize_lm_head_int8.py writes the head, and the first draft  *)
(* step builds the reduced head that later steps use.                      *)
(*                                                                         *)
(* A score is a linear function of its token's row, so the row stands for  *)
(* it: scaled by Half as the checkpoint's head is, and with an int4 head   *)
(* by Int4Unit besides.                                                    *)
(***************************************************************************)
EXTENDS Gptq, Sorting

CONSTANTS
  NoFile,      \* VLLM_MTP_DRAFT_VOCAB is not set
  NotBuilt,    \* _dv_state is None
  Masked,      \* -inf
  Tokens,      \* len(tok), the tokenizer's vocabulary
  Vocab,       \* org_vocab_size
  OutRows,     \* rows of the head, at least Vocab
  ByteIds,     \* 256
  Chunk,       \* _DV_CHUNK
  Align,       \* 64
  Int4Half,    \* 8: a 4-bit weight is one of -Int4Half .. Int4Half - 1
  Int4Group,   \* 128
  Weights,     \* bf16 heads to choose from
  Specials,    \* sets of special and added tokens
  Sizes        \* --n

ASSUME DraftAssumption ==
  /\ {Tokens, Vocab, OutRows, ByteIds, Chunk, Align, Int4Group} \subseteq Nat \ {0}
  /\ Int4Half \in Nat \ {0, 1}
  /\ Vocab <= OutRows
  /\ Chunk % Align = 0 /\ OutRows % Align = 0 /\ OutRows % PackFactor = 0
  /\ Specials \subseteq SUBSET (0 .. Tokens - 1) /\ Sizes \subseteq Nat
  /\ NoFile \notin Seq(Int) /\ Masked \notin Seq(Int)

\* The inputs of a head make up whole groups and words (quantize and
\* marlin_quantize assert and reshape by it).
ASSUME WeightsAssumption ==
  /\ Weights \subseteq [0 .. OutRows - 1 -> Seq(Int) \ {<< >>}]
  /\ \A w \in Weights : \A r \in 0 .. OutRows - 1 :
       Len(w[r]) % GroupSize = 0 /\ Len(w[r]) % PackFactor = 0 /\ Len(w[r]) % Int4Group = 0

VARIABLES
  idsFile,   \* the ids in VLLM_MTP_DRAFT_VOCAB
  int4,      \* VLLM_MTP_DRAFT_HEAD=int4
  weights,   \* the bf16 head that was quantized
  head,      \* lm_head in the checkpoint
  dvState,   \* _dv_state
  draft,     \* the logits of the last draft step
  raised,    \* a draft step raised
  request    \* history: what build_draft_vocab.py was asked for

draftVars == <<idsFile, int4, weights, head, dvState, draft, raised, request>>

----------------------------------------------------------------------------
(* build_draft_vocab.py                                                    *)

Added(keep, n, ids) ==
  FoldLeft(LAMBDA k, t : IF Cardinality(k) >= n THEN k ELSE k \union {t}, keep, ids)

Always(specials) == specials \union {t \in 0 .. Tokens - 1 : t < ByteIds}

Seen(counts) == {t \in 0 .. Tokens - 1 : counts[t] > 0}

\* counts.most_common(): ties come in any order.
Rankings(counts) ==
  {s \in SetToSeqs(Seen(counts)) : \A i, j \in DOMAIN s : i < j => counts[s[i]] >= counts[s[j]]}

InOrder == [i \in 1 .. Tokens |-> i - 1]

\* The low ids come before the corpus.
DraftVocabulary_LowIdsFirst(specials, ranking, n) ==
  Added(Added(Always(specials), n, InOrder), n, ranking)

DraftVocabulary(specials, ranking, n) ==
  Added(Added(Always(specials), n, ranking), n, InOrder)

BuildDraftVocab ==
  /\ idsFile = NoFile /\ head = NoFile
  /\ \E specials \in Specials, counts \in [0 .. Tokens - 1 -> 0 .. 2], n \in Sizes :
       \E ranking \in Rankings(counts) :
         /\ idsFile' = Ascending(DraftVocabulary(specials, ranking, n))
         /\ request' = [specials |-> specials, counts |-> counts, n |-> n]
  /\ UNCHANGED <<int4, weights, head, dvState, draft, raised>>

----------------------------------------------------------------------------
(* Preparing and serving.                                                  *)

DraftInit ==
  /\ idsFile = NoFile
  /\ int4 = FALSE
  /\ weights = NoFile
  /\ head = NoFile
  /\ dvState = NotBuilt
  /\ draft = << >>
  /\ raised = FALSE
  /\ request = NoFile

\* quantize_lm_head_int8.py.  What the vocabulary was made from is forgotten.
QuantizeLmHead ==
  /\ head = NoFile
  /\ weights' \in Weights
  /\ \E nan \in 0 .. 2 * Half - 1 : head' = QuantizedHead(weights', nan)
  /\ request' = NoFile
  /\ UNCHANGED <<idsFile, int4, dvState, draft, raised>>

Padded(ids) ==
  IF int4 /\ Len(ids) % Align # 0
  THEN ids \o [i \in 1 .. (Align - (Len(ids) % Align)) |-> Last(ids)]
  ELSE ids

\* The ids of a sequence that the model has.
OfModel(ids) ==
  FoldLeft(LAMBDA kept, t : IF 0 <= t /\ t < Vocab THEN Append(kept, t) ELSE kept, << >>, ids)

\* The ids are padded before those the model does not have are dropped.
DraftIds_PaddedFirst == OfModel(Padded(idsFile))

DraftIds == Padded(OfModel(idsFile))

\* The rows the private head is made of, and the ids they belong to.
Selected == IF idsFile = NoFile THEN [i \in 1 .. OutRows |-> i - 1] ELSE DraftIds

\* The chunks the rows are read in.
ChunkOf(sel, i) == SubSeq(sel, i * Chunk + 1, Min({(i + 1) * Chunk, Len(sel)}))
Chunks(sel) == [i \in 1 .. (Len(sel) + Chunk - 1) \div Chunk |-> ChunkOf(sel, i - 1)]

\* _dv_build fails on no rows at all, and marlin_quantize on a chunk that is
\* not aligned.
Buildable(sel) ==
  /\ sel # << >>
  /\ int4 => \A i \in DOMAIN Chunks(sel) : Len(Chunks(sel)[i]) % Align = 0

Magnitude(n) == IF n < 0 THEN -n ELSE n

\* vLLM's marlin_quantize takes the scale of a group such that neither its greatest
\* nor its least weight is cut off.  The scale is the span divided by Int4Unit.
Int4Unit == Int4Half * (Int4Half - 1)

Int4Span(group) ==
  Max({Magnitude(Max(Range(group))) * Int4Half, Magnitude(Min(Range(group))) * (Int4Half - 1)})

Int4GroupOf(row, i) ==
  LET g == (i - 1) \div Int4Group
  IN  SubSeq(row, g * Int4Group + 1, (g + 1) * Int4Group)

Int4Clamp(q) == IF q < -Int4Half THEN -Int4Half ELSE IF q > Int4Half - 1 THEN Int4Half - 1 ELSE q

\* It rounds to nearest.  With a scale of zero whatever it makes of 0 / 0 counts for 0.
Requantized(row) ==
  [i \in DOMAIN row |->
     LET span == Int4Span(Int4GroupOf(row, i))
     IN  IF span = 0 THEN 0 ELSE Int4Clamp(RoundDiv(row[i] * Int4Unit, span)) * span]

PrivateHead(sel) ==
  LET rows == FlattenSeq(Chunks(sel))
  IN  [i \in DOMAIN rows |->
         IF int4 THEN Requantized(DequantRow(head, rows[i])) ELSE DequantRow(head, rows[i])]

\* _dv_compute_logits: without ids the scores of padding rows are cut off, with
\* ids the scores are scattered into a row of -inf, in any order.
Logits(st) ==
  {f \in [0 .. Vocab - 1 -> Range(st.rows) \union {Masked}] :
     \A t \in 0 .. Vocab - 1 :
       IF st.ids = NoFile THEN f[t] = st.rows[t + 1]
       ELSE IF t \in Range(st.ids) THEN \E i \in DOMAIN st.ids : st.ids[i] = t /\ f[t] = st.rows[i]
       ELSE f[t] = Masked}

\* The private head is built by the first step that drafts and then kept.
ComputeLogits ==
  /\ head # NoFile /\ ~raised
  /\ IF dvState # NotBuilt \/ Buildable(Selected)
     THEN /\ dvState' = IF dvState # NotBuilt THEN dvState
                        ELSE [ids |-> IF idsFile = NoFile THEN NoFile ELSE Selected,
                              rows |-> PrivateHead(Selected)]
          /\ draft' \in Logits(dvState')
          /\ UNCHANGED raised
     ELSE raised' = TRUE /\ UNCHANGED <<dvState, draft>>
  /\ UNCHANGED <<idsFile, int4, weights, head, request>>

----------------------------------------------------------------------------

\* What the tool promises of its ids: the special tokens and the bytes always,
\* no more than asked for besides, and of the corpus the most frequent, with
\* nothing else as long as a token of the corpus is left out.
VocabularyByRank ==
  request # NoFile =>
    LET keep == Range(idsFile)
        free == keep \ Always(request.specials)
        left == Seen(request.counts) \ keep
    IN  /\ Always(request.specials) \subseteq keep
        /\ Cardinality(keep) = Min({Tokens, Max({request.n, Cardinality(Always(request.specials))})})
        /\ \A t \in free, u \in left : request.counts[t] >= request.counts[u]

\* An 8-bit weight is off by at most half a step; by a whole one if its byte would
\* have been one too many, at the far end from the weight the scale was picked from.
Faithful(read, weight, picked) ==
  \/ 2 * Magnitude(read - weight * Half) <= Magnitude(picked)
  \/ /\ 2 * Magnitude(weight) * Half > (2 * Half - 1) * Magnitude(picked)
     /\ Magnitude(read - weight * Half) <= Magnitude(picked)

\* A 4-bit one is off from the 8-bit one by at most half a step of its own group.
WithinInt4(scores, read) ==
  \A i \in DOMAIN read :
    2 * Magnitude(scores[i] - read[i] * Int4Unit) <= Int4Span(Int4GroupOf(read, i))

\* Scores by the token's own row of the bf16 head: its 8-bit row is faithful, and the
\* scores are that row or what 4 bits make of it.
ScoredByOwnRow(scores, t) ==
  LET read == DequantRow(head, t)
      row  == weights[t]
  IN  /\ scores # Masked
      /\ \A i \in DOMAIN row :
           Faithful(read[i], row[i], Picked(WeightGroup(row, (i - 1) \div GroupSize + 1)))
      /\ IF int4 THEN WithinInt4(scores, read) ELSE scores = read

\* From the bf16 head to the draft: every token the drafter may propose is scored
\* by its own row of the head, every weight to within the steps of the
\* quantizations it went through, and every other token is ruled out.
DraftScoresAreHeads ==
  draft # << >> =>
    \A t \in 0 .. Vocab - 1 :
      IF idsFile = NoFile \/ t \in Range(idsFile)
      THEN ScoredByOwnRow(draft[t], t)
      ELSE draft[t] = Masked

\* With a vocabulary from the tool the private head can always be built.
DraftNeverRaises == ~raised
=============================================================================
