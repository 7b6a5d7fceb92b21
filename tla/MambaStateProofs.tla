-------------------------- MODULE MambaStateProofs --------------------------
(***************************************************************************)
(* What the proofs about the two model runners share: how a request's      *)
(* state blocks look in each phase of a step, told the column the runner   *)
(* works in and the accepted counts it keeps, and that the shared actions  *)
(* lead from one phase to the next.                                        *)
(***************************************************************************)
EXTENDS MambaState, TLAPS

Block == [temporal : Int, conv : [Offsets -> Int]]

Phases == {"absent", "waiting", "scheduled", "precopy", "forward", "postprocess", "saving"}

WorldType ==
  /\ phase \in Phases
  /\ known \in Nat /\ computed \in Nat /\ scheduled \in Nat /\ drafts \in Nat
  /\ row \in [Cols -> Block]
  /\ rowLength \in 0 .. LastCol + 1
  /\ cache \in [Cols -> Block]
  /\ published \subseteq Cols
  /\ todo \subseteq States

----------------------------------------------------------------------------
(* What holds of the blocks in each phase.                                 *)

\* The boundary at the end of a column.
End(c) == (c + 1) * BlockSize

CacheInv == \A c \in Cols : cache[c] # EmptyBlock => HoldsBoundary(cache[c], c)

\* The blocks shared with the cache lie within the first so many tokens.
SharedWithin(tokens) ==
  \A c \in published : HoldsBoundary(row[c], c) /\ End(c) <= tokens

\* Every block with a state within the computed tokens is shared.
BehindShared ==
  \A c \in Cols : row[c] # EmptyBlock /\ End(c) <= computed => c \in published

\* A request still in its prefill has states nowhere else, but in these columns.
NothingAhead(columns) ==
  known > computed + 1 =>
    \A c \in Cols : row[c] # EmptyBlock => End(c) <= computed \/ c \in columns

\* The state after the computed tokens, as the forward pass looks for it.
StateAt(col, a) ==
  /\ a \in 1 .. NumSpec + 1
  /\ col \in Cols /\ col + a - 1 \in Cols
  /\ row[col + a - 1].temporal = computed
  /\ row[col].conv[a - 1] = computed

\* Between steps: the state is at column col, which the last step's tokens with
\* all their drafts reached.
Ready(col, a) ==
  /\ computed < known
  /\ computed = 0 => col = -1 /\ a = 1
  /\ computed > 0 =>
       /\ StateAt(col, a)
       /\ col * BlockSize < computed + NumSpec - (a - 1)
       /\ computed <= End(col)
  /\ SharedWithin(computed)
  /\ BehindShared
  /\ NothingAhead({})

\* The work of a step: drafts only behind the last known token, and before that
\* token a chunk ends at a boundary; the row has room for it.
Plan ==
  /\ drafts <= NumSpec
  /\ scheduled >= drafts + 1
  /\ computed + scheduled <= MaxTokens
  /\ computed + scheduled - drafts <= known
  /\ \/ computed + scheduled - drafts = known
     \/ (computed + scheduled - drafts) % BlockSize = 0
  /\ drafts > 0 => computed + scheduled - drafts = known /\ known = computed + 1
  /\ RunningColumn + NumSpec < rowLength

\* The step works in column col.
Running(col) ==
  /\ Plan
  /\ computed < known
  /\ col = RunningColumn
  /\ SharedWithin(computed)
  /\ BehindShared
  /\ NothingAhead({col})

\* The programs that are done have moved their part of the state from src, off
\* tokens in, to the start of col; the others still find it where it was.
Moving(src, off, col, a) ==
  /\ Running(col)
  /\ computed = 0 => src < 0
  /\ computed > 0 /\ ~(src >= 0 /\ src # col) => StateAt(col, a)
  /\ computed > 0 /\ src >= 0 /\ src # col =>
       /\ a = 1 /\ off \in Offsets
       /\ HasBlock(src) /\ HasBlock(src + off) /\ HasBlock(col)
       /\ IF "temporal" \in todo THEN row[src + off].temporal = computed
                                 ELSE row[col].temporal = computed
       /\ IF "conv" \in todo THEN row[src].conv[off] = computed
                             ELSE row[col].conv[0] = computed

Started(col, a) == Running(col) /\ (computed > 0 => StateAt(col, a))

\* The tokens before the drafts, once a of them are known to be accepted.
RunningTokensOf(a) == computed - a + 1

\* A boundary was reached or passed, and the column it is the end of.
Crossed(a) == NeedsCopy(RunningTokensOf(a), computed)
Dest == DestColumn(computed)

\* After the forward pass: what is in front of the step's tokens is shared, and
\* at most the column of the boundary the step crossed is not yet.
Absorbed(col, a) ==
  /\ drafts <= NumSpec /\ scheduled >= drafts + 1 /\ a \in 1 .. drafts + 1
  /\ RunningTokensOf(a) >= 1
  /\ RunningTokensOf(a) + drafts <= MaxTokens
  /\ computed < known
  /\ col = CDiv(RunningTokensOf(a) + drafts, BlockSize) - 1
  /\ col + NumSpec < rowLength
  /\ SharedWithin(RunningTokensOf(a) - 1)
  /\ \A c \in Cols : row[c] # EmptyBlock /\ End(c) <= computed =>
       c \in published \/ End(c) >= RunningTokensOf(a)
  /\ NothingAhead({})

TemporalStates(col, a) ==
  \A i \in 0 .. a - 1 : row[col + i].temporal = RunningTokensOf(a) + i
ConvStates(col, a) ==
  \A i \in 0 .. a - 1 : row[col].conv[i] = RunningTokensOf(a) + i

\* The count the next step starts from: at the boundary in its own column the
\* state has been moved to the start.
CountAfter(col, a) == IF Crossed(a) /\ col = Dest THEN 1 ELSE a

\* The programs that are done have saved their part of the boundary's state and
\* kept that of the last accepted token; the others still find all of them.
Saving(col, a, count) ==
  /\ Absorbed(col, a)
  /\ count = IF "conv" \in todo THEN a ELSE CountAfter(col, a)
  /\ IF "temporal" \in todo THEN TemporalStates(col, a)
     ELSE /\ row[col + CountAfter(col, a) - 1].temporal = computed
          /\ Crossed(a) => row[Dest].temporal = AlignedDown(computed)
  /\ IF "conv" \in todo THEN ConvStates(col, a)
     ELSE /\ row[col].conv[CountAfter(col, a) - 1] = computed
          /\ Crossed(a) => row[Dest].conv[0] = AlignedDown(computed)

----------------------------------------------------------------------------
(* Arithmetic of columns.                                                  *)

LEMMA DivBounds ==
  ASSUME NEW n \in Int, NEW d \in Nat \ {0}
  PROVE  n \div d \in Int /\ (n \div d) * d <= n /\ n < (n \div d) * d + d
OBVIOUS

LEMMA ModZero ==
  ASSUME NEW n \in Int, NEW d \in Nat \ {0}, n % d = 0
  PROVE  (n \div d) * d = n
OBVIOUS

LEMMA DivExact ==
  ASSUME NEW q \in Int, NEW d \in Nat \ {0}, NEW r \in 0 .. d - 1
  PROVE  (q * d + r) \div d = q
OBVIOUS

\* Ends of columns are a block apart, at least.
LEMMA EndOrder ==
  /\ \A c \in Int : End(c) \in Int /\ End(c) = c * BlockSize + BlockSize /\ c * BlockSize \in Int
  /\ \A c \in Int, e \in Int : c < e => End(c) + BlockSize <= End(e)
<1>1. BlockSize \in Nat \ {0}
  BY MambaAssumption
<1>2. \A c \in Int : End(c) \in Int /\ End(c) = c * BlockSize + BlockSize /\ c * BlockSize \in Int
  BY <1>1 DEF End
<1>3. ASSUME NEW c \in Int, NEW e \in Int, c < e PROVE End(c) + BlockSize <= End(e)
  BY <1>1, <1>3 DEF End
<1>. QED  BY <1>2, <1>3

\* The column of the n-th token.
LEMMA ColumnOf ==
  ASSUME NEW n \in Nat
  PROVE  /\ CDiv(n, BlockSize) - 1 \in Int
         /\ n <= End(CDiv(n, BlockSize) - 1)
         /\ End(CDiv(n, BlockSize) - 1) < n + BlockSize
         /\ n > 0 => CDiv(n, BlockSize) - 1 >= 0
<1>. DEFINE c == CDiv(n, BlockSize) - 1
<1>1. BlockSize \in Nat \ {0}
  BY MambaAssumption
<1>2. /\ c \in Int /\ End(c) = ((n + BlockSize - 1) \div BlockSize) * BlockSize
      /\ n <= End(c) /\ End(c) < n + BlockSize
  BY <1>1, DivBounds DEF CDiv, End
<1>3. n > 0 => c >= 0
  <2>1. End(-1) = 0
    BY <1>1 DEF End
  <2>. HIDE DEF c
  <2>. QED  BY <1>1, <1>2, <2>1, EndOrder
<1>. QED  BY <1>2, <1>3

LEMMA ColumnMono ==
  ASSUME NEW n \in Nat, NEW m \in Nat, n <= m
  PROVE  CDiv(n, BlockSize) <= CDiv(m, BlockSize) /\ CDiv(n, BlockSize) \in Int
                                                  /\ CDiv(m, BlockSize) \in Int
<1>. DEFINE c == CDiv(n, BlockSize) - 1
            e == CDiv(m, BlockSize) - 1
<1>1. c \in Int /\ e \in Int /\ End(c) < n + BlockSize /\ m <= End(e)
  BY ColumnOf
<1>2. CDiv(n, BlockSize) = c + 1 /\ CDiv(m, BlockSize) = e + 1
  BY MambaAssumption, DivBounds DEF CDiv
<1>. HIDE DEF c, e
<1>3. ~(e < c)
  BY <1>1, MambaAssumption, EndOrder
<1>. QED  BY <1>1, <1>2, <1>3

\* The last boundary among n tokens and the column it ends.
LEMMA BoundaryOf ==
  ASSUME NEW n \in Nat
  PROVE  /\ DestColumn(n) \in Int
         /\ AlignedDown(n) = End(DestColumn(n))
         /\ AlignedDown(n) \in Int
         /\ AlignedDown(n) <= n /\ n < AlignedDown(n) + BlockSize
<1>. DEFINE q == n \div BlockSize
<1>1. BlockSize \in Nat \ {0}
  BY MambaAssumption
<1>2. q \in Int /\ q * BlockSize \in Int /\ q * BlockSize <= n /\ n < q * BlockSize + BlockSize
  BY <1>1, DivBounds
<1>3. AlignedDown(n) = q * BlockSize
  BY DEF AlignedDown
<1>4. (q * BlockSize) \div BlockSize = q
  <2>1. (q * BlockSize + 0) \div BlockSize = q
    BY <1>1, <1>2, DivExact
  <2>. QED  BY <1>2, <2>1
<1>5. DestColumn(n) = q - 1
  BY <1>3, <1>4 DEF DestColumn
<1>. HIDE DEF q
<1>6. End(q - 1) = q * BlockSize
  BY <1>1, <1>2 DEF End
<1>. QED  BY <1>2, <1>3, <1>5, <1>6

LEMMA SeedOf ==
  ASSUME NEW hit \in Nat
  PROVE  SeedColumn(hit * BlockSize) = hit - 1
<1>1. BlockSize \in Nat \ {0}
  BY MambaAssumption
<1>2. hit * BlockSize - 1 = (hit - 1) * BlockSize + (BlockSize - 1)
  BY <1>1
<1>3. ((hit - 1) * BlockSize + (BlockSize - 1)) \div BlockSize = hit - 1
  BY <1>1, DivExact
<1>. QED  BY <1>2, <1>3 DEF SeedColumn

LEMMA LastColType == LastCol \in Nat /\ NumSpec \in Nat /\ LastCol = CDiv(MaxTokens, BlockSize) - 1 + NumSpec
BY ColumnOf, MambaAssumption DEF LastCol

LEMMA EmptyBlockFacts ==
  /\ EmptyBlock \in Block /\ EmptyBlock.temporal = -2
  /\ \A c \in Int : ~HoldsBoundary(EmptyBlock, c) \/ c < 0
<1>1. EmptyBlock \in Block /\ EmptyBlock.temporal = -2
  BY DEF EmptyBlock, Block, Empty
<1>2. \A c \in Int : c >= 0 => (c + 1) * BlockSize >= 0
  BY MambaAssumption
<1>. QED  BY <1>1, <1>2 DEF HoldsBoundary

----------------------------------------------------------------------------
(* Requests that come and go.                                              *)

LEMMA AdmittedReady ==
  ASSUME WorldType, CacheInv,
         NEW tokens \in 1 .. MaxTokens, NEW hit \in 0 .. LastCol + 1,
         Admitted(tokens, hit)
  PROVE  /\ WorldType' /\ CacheInv' /\ phase' = "waiting"
         /\ Ready(SeedColumn(hit * BlockSize), 1)'
<1>1. /\ phase' = "waiting" /\ known' = tokens /\ computed' = hit * BlockSize
      /\ hit * BlockSize < tokens
      /\ hit > 0 => cache[hit - 1] # EmptyBlock
      /\ row' = [c \in Cols |-> IF c = hit - 1 THEN cache[c] ELSE EmptyBlock]
      /\ published' = IF hit > 0 THEN {hit - 1} ELSE {}
      /\ rowLength' = hit
      /\ UNCHANGED <<scheduled, drafts, cache, todo>>
  BY DEF Admitted
<1>2. /\ hit \in Nat /\ hit * BlockSize \in Nat /\ BlockSize \in Nat \ {0} /\ NumSpec \in Nat
      /\ hit > 0 => hit - 1 \in Cols /\ hit * BlockSize > 0
  BY LastColType, MambaAssumption DEF Cols
<1>3. End(hit - 1) = hit * BlockSize /\ (hit - 1) * BlockSize = hit * BlockSize - BlockSize
  BY <1>2 DEF End
<1>4. WorldType'
  BY <1>1, <1>2, EmptyBlockFacts, MambaAssumption DEF WorldType, Phases
<1>5. CacheInv'
  BY <1>1 DEF CacheInv
<1>6. /\ hit > 0 => row'[hit - 1].temporal = hit * BlockSize
                    /\ row'[hit - 1].conv[0] = hit * BlockSize
                    /\ HoldsBoundary(row'[hit - 1], hit - 1)
      /\ \A c \in Cols : row'[c] # EmptyBlock => hit > 0 /\ c = hit - 1
  BY <1>1, <1>2 DEF CacheInv, HoldsBoundary, Cols
<1>7. hit > 0 => StateAt(hit - 1, 1)'
  BY <1>1, <1>2, <1>6 DEF StateAt
<1>8. SharedWithin(computed)'
  BY <1>1, <1>2, <1>3, <1>6 DEF SharedWithin
<1>9. BehindShared' /\ NothingAhead({})'
  BY <1>1, <1>2, <1>3, <1>6 DEF BehindShared, NothingAhead
<1>10. Ready(hit - 1, 1)'
  BY <1>1, <1>2, <1>3, <1>7, <1>8, <1>9 DEF Ready
<1>. QED  BY <1>1, <1>2, <1>4, <1>5, <1>10, SeedOf

LEMMA ScheduledReady ==
  ASSUME WorldType, CacheInv, NEW col, NEW a, Ready(col, a),
         NEW end \in 1 .. MaxTokens, NEW nDrafts \in Offsets,
         Scheduled(end, nDrafts)
  PROVE  WorldType' /\ CacheInv' /\ phase' = "scheduled" /\ Ready(col, a)' /\ Plan'
<1>. DEFINE len == CDiv(end + nDrafts, BlockSize) + NumSpec
<1>1. /\ phase' = "scheduled" /\ end \in computed + 1 .. known
      /\ end = known \/ end % BlockSize = 0
      /\ nDrafts > 0 => end = known /\ computed + 1 = known
      /\ end + nDrafts <= MaxTokens
      /\ scheduled' = end - computed + nDrafts
      /\ drafts' = nDrafts
      /\ rowLength' = IF len > rowLength THEN len ELSE rowLength
      /\ UNCHANGED <<known, computed, row, published, cache, todo>>
  BY DEF Scheduled, ChunkEnds
<1>2. nDrafts \in Nat /\ nDrafts <= NumSpec
  BY MambaAssumption DEF Offsets
<1>3. len \in 0 .. LastCol + 1 /\ rowLength \in 0 .. LastCol + 1 /\ LastCol \in Int
  <2>1. end + nDrafts \in Nat /\ end + nDrafts <= MaxTokens /\ MaxTokens \in Nat /\ end + nDrafts > 0
    BY <1>1, <1>2, MambaAssumption
  <2>2. CDiv(end + nDrafts, BlockSize) - 1 >= 0 /\ CDiv(end + nDrafts, BlockSize) \in Int
        /\ CDiv(end + nDrafts, BlockSize) <= CDiv(MaxTokens, BlockSize) /\ CDiv(MaxTokens, BlockSize) \in Int
    BY <2>1, ColumnOf, ColumnMono
  <2>. QED  BY <2>2, LastColType DEF WorldType
<1>4. Ready(col, a)' /\ CacheInv'
  BY <1>1 DEF Ready, StateAt, SharedWithin, BehindShared, NothingAhead, CacheInv
<1>5. Plan'
  <2>1. computed + scheduled' - drafts' = end /\ computed \in Nat /\ known \in Nat /\ MaxTokens \in Nat
        /\ computed + scheduled' = end + nDrafts
    BY <1>1, <1>2, MambaAssumption DEF WorldType
  <2>2. (RunningColumn + NumSpec < rowLength)'
    <3>1. RunningColumn' + NumSpec = len - 1
      <4>1. RunningColumn' = CDiv(end + nDrafts, BlockSize) - 1
        BY <1>1, <2>1 DEF RunningColumn
      <4>2. end + nDrafts \in Nat /\ CDiv(end + nDrafts, BlockSize) \in Int /\ NumSpec \in Int
        BY <1>2, ColumnMono, MambaAssumption
      <4>. QED  BY <4>1, <4>2
    <3>. QED  BY <1>1, <1>3, <3>1
  <2>. QED  BY <1>1, <1>2, <2>1, <2>2 DEF Plan
<1>6. WorldType'
  <2>1. rowLength' \in 0 .. LastCol + 1 /\ scheduled' \in Nat /\ drafts' \in Nat
    <3>. HIDE DEF len
    <3>. QED  BY <1>1, <1>2, <1>3, MambaAssumption DEF WorldType
  <2>. QED  BY <1>1, <2>1 DEF WorldType, Phases
<1>. QED  BY <1>1, <1>4, <1>5, <1>6

LEMMA LeftGone ==
  ASSUME WorldType, CacheInv, Left
  PROVE  WorldType' /\ CacheInv' /\ phase' = "absent" /\ published' = {}
<1>1. EmptyRow \in [Cols -> Block]
  BY EmptyBlockFacts DEF EmptyRow
<1>. QED  BY <1>1, LastColType DEF Left, WorldType, Phases, CacheInv

LEMMA EvictedCache ==
  ASSUME WorldType, CacheInv, NEW c \in Cols, Evicted(c)
  PROVE  WorldType' /\ CacheInv'
BY EmptyBlockFacts DEF Evicted, WorldType, CacheInv

----------------------------------------------------------------------------
(* Before the forward pass.                                                *)

\* The column of a planned step and the columns its drafts use are in the row.
LEMMA PlanColumns ==
  ASSUME WorldType, Plan, computed < known
  PROVE  /\ RunningColumn \in Cols /\ RunningColumn \in Nat
         /\ RunningColumn + NumSpec <= LastCol
         /\ computed + scheduled <= End(RunningColumn)
         /\ End(RunningColumn) < computed + scheduled + BlockSize
         /\ \A c \in Int : c >= 0 /\ c <= RunningColumn + NumSpec => HasBlock(c)
         /\ \A c \in Int : HasBlock(c) => c \in Cols
<1>1. computed + scheduled \in Nat /\ computed + scheduled <= MaxTokens /\ MaxTokens \in Nat
      /\ computed + scheduled > 0 /\ NumSpec \in Nat
  BY MambaAssumption DEF WorldType, Plan
<1>2. RunningColumn \in Int /\ RunningColumn >= 0
  BY <1>1, ColumnOf DEF RunningColumn
<1>3. RunningColumn + NumSpec <= LastCol /\ LastCol \in Int
  BY <1>1, <1>2, ColumnMono, LastColType DEF RunningColumn
<1>4. computed + scheduled <= End(RunningColumn) /\ End(RunningColumn) < computed + scheduled + BlockSize
  BY <1>1, ColumnOf DEF RunningColumn
<1>5. /\ \A c \in Int : c >= 0 /\ c <= RunningColumn + NumSpec => HasBlock(c)
      /\ \A c \in Int : HasBlock(c) => c \in Cols
  <2>1. rowLength \in 0 .. LastCol + 1 /\ RunningColumn + NumSpec < rowLength
    BY DEF WorldType, Plan
  <2>. QED  BY <1>1, <1>2, <1>3, <2>1 DEF HasBlock, Cols
<1>. QED  BY <1>1, <1>2, <1>3, <1>4, <1>5 DEF Cols

\* The step begins: the runner notes where the state is and takes the step's
\* column; it will count from one where the state has to move.
LEMMA StepBegins ==
  ASSUME WorldType, NEW col, NEW a, Ready(col, a), Plan,
         todo' = States, phase' = "precopy",
         UNCHANGED <<known, computed, scheduled, drafts, row, rowLength, published, cache>>,
         NEW src \in Int, NEW off, NEW dst, NEW b,
         dst = RunningColumn,
         col >= 0 /\ col # dst => src = col /\ off = a - 1 /\ b = 1,
         ~(col >= 0 /\ col # dst) => ~(src >= 0 /\ src # dst) /\ b = a,
         col < 0 => src < 0
  PROVE  WorldType' /\ Moving(src, off, dst, b)'
<1>1. WorldType'
  BY DEF WorldType, Phases
<1>2. Plan' /\ RunningColumn' = RunningColumn
  BY DEF Plan, RunningColumn
<1>3. computed < known
  BY DEF Ready
<1>4. Running(dst)'
  <2>1. SharedWithin(computed)' /\ BehindShared'
    BY DEF Ready, SharedWithin, BehindShared
  <2>2. NothingAhead({dst})'
    BY DEF Ready, NothingAhead
  <2>. QED  BY <1>2, <1>3, <2>1, <2>2 DEF Running
<1>5. ASSUME computed > 0
      PROVE  col \in Cols /\ col >= 0 /\ a \in 1 .. NumSpec + 1 /\ NumSpec \in Nat /\ col \in Int
  BY <1>5, MambaAssumption DEF Ready, StateAt, Cols
<1>6. computed = 0 => src < 0
  BY DEF Ready
<1>7. ASSUME computed > 0, ~(src >= 0 /\ src # dst)
      PROVE  StateAt(dst, b)'
  BY <1>5, <1>7 DEF Ready, StateAt
<1>8. ASSUME computed > 0, src >= 0, src # dst
      PROVE  /\ src = col /\ off = a - 1 /\ b = 1 /\ off \in Offsets
             /\ HasBlock(src) /\ HasBlock(src + off) /\ HasBlock(dst)
             /\ row[src + off].temporal = computed /\ row[src].conv[off] = computed
  <2>1. src = col /\ off = a - 1 /\ b = 1 /\ off \in Offsets /\ off \in Nat /\ off <= NumSpec
    BY <1>5, <1>8 DEF Offsets
  <2>2. row[src + off].temporal = computed /\ row[src].conv[off] = computed
    <3>1. src + off = col + a - 1
      BY <1>5, <2>1
    <3>. QED  BY <1>8, <2>1, <3>1 DEF Ready, StateAt
  <2>3. src * BlockSize < computed + NumSpec - off /\ src \in Int
    <3>1. col * BlockSize < computed + NumSpec - (a - 1)
      BY <1>8 DEF Ready
    <3>. QED  BY <2>1, <3>1
  <2>4. /\ dst \in Nat /\ computed + 1 <= End(dst) /\ BlockSize \in Nat \ {0}
        /\ \A c \in Int : c >= 0 /\ c <= dst + NumSpec => HasBlock(c)
    <3>1. /\ dst \in Nat /\ computed + scheduled <= End(dst)
          /\ \A c \in Int : c >= 0 /\ c <= dst + NumSpec => HasBlock(c)
      BY <1>3, PlanColumns
    <3>2. End(dst) \in Int
      BY <3>1, EndOrder
    <3>3. computed \in Nat /\ scheduled \in Nat /\ scheduled >= 1
      BY DEF Plan, WorldType
    <3>. QED  BY <3>1, <3>2, <3>3, MambaAssumption
  \* So many columns further on, the state would be beyond the drafts' last token.
  <2>5. src + off <= dst + NumSpec
    <3>1. ASSUME src + off > dst + NumSpec PROVE FALSE
      <4>. DEFINE k == NumSpec - off
      <4>1. k \in Nat /\ src >= dst + 1 + k
        BY <2>1, <2>3, <2>4, <3>1, MambaAssumption
      <4>. HIDE DEF k
      <4>2. src * BlockSize >= (dst + 1 + k) * BlockSize
        <5>1. src = dst + 1 + k \/ End(dst + 1 + k) + BlockSize <= End(src)
          BY <2>3, <2>4, <4>1, EndOrder
        <5>2. End(src) = src * BlockSize + BlockSize
              /\ End(dst + 1 + k) = (dst + 1 + k) * BlockSize + BlockSize
              /\ src * BlockSize \in Int /\ (dst + 1 + k) * BlockSize \in Int
          BY <2>3, <2>4, <4>1, EndOrder
        <5>. QED  BY <2>4, <5>1, <5>2
      <4>3. (dst + 1 + k) * BlockSize = End(dst) + k * BlockSize /\ k * BlockSize >= k
            /\ k * BlockSize \in Int
        BY <2>4, <4>1 DEF End
      <4>4. End(dst) \in Int /\ src * BlockSize \in Int /\ computed \in Nat
        BY <2>3, <2>4, EndOrder DEF WorldType
      <4>5. src * BlockSize < computed + k
        BY <2>1, <2>3, <4>4, MambaAssumption DEF k
      <4>. QED  BY <2>4, <4>1, <4>2, <4>3, <4>4, <4>5
    <3>. QED  BY <3>1, <1>5, <1>8, <2>1, <2>4
  <2>. QED  BY <1>5, <1>8, <2>1, <2>2, <2>4, <2>5
<1>9. \A c : HasBlock(c)' <=> HasBlock(c)
  BY DEF HasBlock
<1>. QED  BY <1>1, <1>4, <1>6, <1>7, <1>8, <1>9 DEF Moving, States

LEMMA PrecopyMoves ==
  ASSUME WorldType, NEW src \in Int, NEW off, NEW col, NEW a, Moving(src, off, col, a),
         NEW state \in todo,
         IF src < 0 \/ src = col THEN UNCHANGED row ELSE GuardedCopy(state, src, col, off),
         todo' = todo \ {state}, phase' \in Phases,
         UNCHANGED <<known, computed, scheduled, drafts, rowLength, published, cache>>
  PROVE  WorldType' /\ Moving(src, off, col, a)' /\ (todo' = {} => Started(col, a)')
<1>. DEFINE moves == computed > 0 /\ src >= 0 /\ src # col
<1>1. Plan /\ computed < known /\ col = RunningColumn /\ SharedWithin(computed) /\ BehindShared
      /\ NothingAhead({col})
  BY DEF Moving, Running
<1>2. /\ col \in Cols /\ col \in Nat /\ computed + scheduled <= End(col)
      /\ col + NumSpec <= LastCol /\ LastCol \in Int
      /\ \A c \in Int : HasBlock(c) => c \in Cols
  BY <1>1, PlanColumns, LastColType
<1>3. Plan' /\ RunningColumn' = RunningColumn /\ \A c : HasBlock(c)' <=> HasBlock(c)
  <2>1. Plan' /\ RunningColumn' = RunningColumn
    BY <1>1 DEF Plan, RunningColumn
  <2>2. \A c : HasBlock(c)' <=> HasBlock(c)
    BY DEF HasBlock
  <2>. QED  BY <2>1, <2>2
<1>4. CASE ~moves
  <2>1. row' = row
    BY <1>4 DEF Moving, WorldType
  <2>2. WorldType'
    BY <2>1 DEF WorldType
  <2>3. Running(col)'
    BY <1>3, <2>1 DEF Moving, Running, SharedWithin, BehindShared, NothingAhead
  <2>4. computed > 0 => StateAt(col, a)'
    BY <1>4, <2>1 DEF Moving, StateAt
  <2>. QED  BY <1>4, <2>2, <2>3, <2>4 DEF Moving, Started
<1>5. CASE moves
  <2>1. /\ a = 1 /\ off \in Offsets /\ off \in Nat
        /\ HasBlock(src) /\ HasBlock(src + off) /\ HasBlock(col)
        /\ src \in Cols /\ src + off \in Cols
    BY <1>2, <1>5, LastColType DEF Moving, Offsets, Cols
  <2>2. /\ row' = Copied(state, src, col, off) /\ state \in States /\ row \in [Cols -> Block]
        /\ NumSpec \in Nat
    BY <1>5, <2>1, LastColType DEF GuardedCopy, WorldType
  <2>3. \A c \in Cols : c # col => row'[c] = row[c]
    BY <1>2, <2>2 DEF Copied
  <2>4. state = "temporal" => /\ row'[col].temporal = row[src + off].temporal
                              /\ row'[col].conv = row[col].conv
    BY <1>2, <2>1, <2>2 DEF Copied, TemporalAt, Block
  <2>5. state = "conv" => /\ row'[col].conv = Slid(row[src].conv, off)
                          /\ row'[col].temporal = row[col].temporal
    BY <1>2, <2>1, <2>2 DEF Copied, Block, States
  <2>6. Slid(row[src].conv, off) \in [Offsets -> Int]
        /\ Slid(row[src].conv, off)[0] = row[src].conv[off]
    <3>1. 0 \in Offsets /\ row[src].conv \in [Offsets -> Int]
      BY <2>1, <2>2 DEF Offsets, Block
    <3>. QED  BY <2>1, <3>1 DEF Slid, Garbage
  <2>7. row' \in [Cols -> Block]
    <3>1. row[src + off].temporal \in Int
      BY <2>1, <2>2 DEF Block
    <3>. QED  BY <1>2, <2>1, <2>2, <2>6, <3>1 DEF Copied, TemporalAt, Block
  <2>8. WorldType'
    BY <2>7 DEF WorldType
  \* No shared block is written: the column ends behind the computed tokens.
  <2>9. computed < End(col) /\ col \notin published
    <3>1. computed < computed + scheduled
      BY <1>1 DEF Plan, WorldType
    <3>. QED  BY <1>1, <1>2, <3>1, EndOrder DEF SharedWithin, WorldType
  <2>10. Running(col)'
    <3>1. SharedWithin(computed)'
      BY <1>1, <2>3, <2>9 DEF SharedWithin, WorldType
    <3>2. BehindShared'
      <4>1. ~(End(col) <= computed)
        BY <1>2, <2>9, EndOrder DEF WorldType
      <4>. QED  BY <1>1, <2>3, <4>1 DEF BehindShared
    <3>3. NothingAhead({col})'
      BY <1>1, <2>3 DEF NothingAhead
    <3>. QED  BY <1>1, <1>3, <3>1, <3>2, <3>3 DEF Running
  <2>11. IF "temporal" \in todo' THEN row'[src + off].temporal = computed
                                 ELSE row'[col].temporal = computed
    BY <1>5, <2>1, <2>2, <2>3, <2>4, <2>5 DEF Moving, States
  <2>12. IF "conv" \in todo' THEN row'[src].conv[off] = computed
                             ELSE row'[col].conv[0] = computed
    BY <1>5, <2>1, <2>2, <2>3, <2>4, <2>5, <2>6 DEF Moving, States
  <2>13. Moving(src, off, col, a)'
    BY <1>3, <1>5, <2>1, <2>10, <2>11, <2>12 DEF Moving
  <2>14. todo' = {} => StateAt(col, a)'
    BY <1>2, <2>1, <2>11, <2>12, LastColType DEF StateAt
  <2>. QED  BY <1>5, <2>8, <2>10, <2>13, <2>14 DEF Started
<1>. QED  BY <1>4, <1>5

----------------------------------------------------------------------------
(* The forward pass and what the postprocess makes of it.                  *)

LEMMA ForwardAbsorbs ==
  ASSUME WorldType, NEW col, NEW a, Started(col, a),
         NEW n \in 1 .. NumSpec + 1, ForwardPass(col, a, n)
  PROVE  /\ WorldType' /\ phase' = "postprocess"
         /\ Absorbed(col, n)' /\ TemporalStates(col, n)' /\ ConvStates(col, n)'
         /\ RunningTokensOf(n)' = computed + scheduled - drafts
<1>0. PICK running : running = computed + scheduled - drafts
  OBVIOUS
<1>. DEFINE After(i) == IF i < n THEN running + i ELSE Garbage
<1>1. Plan /\ computed < known /\ col = RunningColumn /\ SharedWithin(computed) /\ BehindShared
      /\ NothingAhead({col})
  BY DEF Started, Running
<1>2. /\ n \in 1 .. drafts + 1 /\ phase' = "postprocess"
      /\ computed' = running + n - 1
      /\ known' = IF running = known THEN computed' + 1 ELSE known
      /\ UNCHANGED <<scheduled, drafts, rowLength, published, cache, todo>>
  BY <1>0 DEF ForwardPass
<1>3. /\ computed \in Nat /\ scheduled \in Nat /\ drafts \in Nat /\ known \in Nat
      /\ running \in Nat /\ running >= computed + 1 /\ running <= known
      /\ computed' \in Nat /\ running <= computed' /\ computed' <= computed + scheduled
      /\ drafts <= NumSpec /\ NumSpec \in Nat /\ NumSpec < BlockSize /\ BlockSize \in Nat
  BY <1>0, <1>1, <1>2, MambaAssumption DEF Plan, WorldType
<1>4. /\ col \in Cols /\ col \in Nat /\ computed + scheduled <= End(col) /\ End(col) \in Int
      /\ End(col) < computed + scheduled + BlockSize
      /\ col + NumSpec <= LastCol /\ LastCol \in Int
  BY <1>1, PlanColumns, LastColType, EndOrder
\* The pass starts from the right state.
<1>5. computed = 0 \/ /\ InitialTemporal(col, a) = computed
                      /\ InitialConv(col, a) = computed
  BY <1>3 DEF Started, StateAt, InitialTemporal, InitialConv, TemporalAt, Offsets
<1>6. row' = [c \in Cols |->
           [temporal |-> IF c \in col .. col + drafts THEN After(c - col)
                         ELSE row[c].temporal,
            conv |-> IF c = col
                     THEN [i \in Offsets |-> IF i <= drafts THEN After(i) ELSE Garbage]
                     ELSE row[c].conv]]
  BY <1>0, <1>5 DEF ForwardPass
<1>7. \A i \in Int : After(i) \in Int
  BY <1>2, <1>3 DEF Garbage
<1>8. ASSUME NEW i \in 0 .. n - 1
      PROVE  After(i) = running + i
  <2>1. i < n
    BY <1>2, <1>3
  <2>. QED  BY <2>1
<1>. HIDE DEF After
<1>9. row' \in [Cols -> Block]
  <2>1. \A c \in Cols : c \in Int /\ row[c].temporal \in Int /\ row[c].conv \in [Offsets -> Int]
    BY <1>4 DEF WorldType, Block, Cols
  <2>2. \A i \in Offsets : i \in Int
    BY DEF Offsets
  <2>3. [i \in Offsets |-> IF i <= drafts THEN After(i) ELSE Garbage] \in [Offsets -> Int]
    BY <1>7, <2>2 DEF Garbage
  <2>4. \A c \in Cols : (IF c \in col .. col + drafts THEN After(c - col) ELSE row[c].temporal) \in Int
    <3>1. ASSUME NEW c \in Cols PROVE After(c - col) \in Int /\ row[c].temporal \in Int
      <4>1. c - col \in Int
        BY <1>4, <2>1
      <4>. QED  BY <1>7, <2>1, <4>1
    <3>. QED  BY <3>1
  <2>5. ASSUME NEW c \in Cols PROVE row'[c] \in Block
    <3>1. PICK t \in Int : t = IF c \in col .. col + drafts THEN After(c - col) ELSE row[c].temporal
      BY <2>4
    <3>2. PICK w \in [Offsets -> Int] :
            w = IF c = col THEN [i \in Offsets |-> IF i <= drafts THEN After(i) ELSE Garbage]
                ELSE row[c].conv
      BY <2>1, <2>3
    <3>3. row'[c] = [temporal |-> t, conv |-> w]
      BY <1>6, <3>1, <3>2
    <3>. QED  BY <3>3 DEF Block
  <2>6. row' = [c \in Cols |-> row'[c]]
    BY <1>6
  <2>. QED  BY <2>5, <2>6
<1>10. WorldType'
  BY <1>2, <1>3, <1>9 DEF WorldType, Phases
<1>11. RunningTokensOf(n)' = running
  BY <1>0, <1>2, <1>3 DEF RunningTokensOf
<1>12. TemporalStates(col, n)'
  <2>1. ASSUME NEW i \in 0 .. n - 1 PROVE row'[col + i].temporal = running + i
    <3>1. PICK c \in Cols : c = col + i /\ c \in col .. col + drafts /\ c - col = i
      BY <1>2, <1>3, <1>4 DEF Cols
    <3>2. row'[c].temporal = After(c - col)
      BY <1>6, <3>1
    <3>. QED  BY <1>8, <3>1, <3>2
  <2>. QED  BY <1>11, <2>1 DEF TemporalStates
<1>13. ConvStates(col, n)'
  <2>1. ASSUME NEW i \in 0 .. n - 1 PROVE row'[col].conv[i] = running + i
    <3>1. i \in Offsets /\ i <= drafts
      BY <1>2, <1>3 DEF Offsets
    <3>. QED  BY <1>4, <1>6, <1>8, <3>1
  <2>. QED  BY <1>11, <2>1 DEF ConvStates
\* Whatever the pass writes ends where the step's tokens end, or later.
<1>14. ASSUME NEW c \in Cols, c < col
       PROVE  row'[c] = row[c]
  <2>1. c \notin col .. col + drafts /\ c # col
    BY <1>4, <1>14 DEF Cols
  <2>2. row[c] \in Block
    BY DEF WorldType
  <2>. QED  BY <1>6, <2>1, <2>2 DEF Block
<1>15. ASSUME NEW c \in Cols, ~(c < col)
       PROVE  End(c) >= computed + scheduled /\ End(c) \in Int
  <2>1. c \in Int /\ (c = col \/ col < c) /\ End(c) \in Int
    BY <1>4, <1>15, EndOrder DEF Cols
  <2>2. CASE c = col
    BY <1>4, <2>2
  <2>3. CASE col < c
    <3>1. End(col) + BlockSize <= End(c)
      BY <1>4, <2>1, <2>3, EndOrder
    <3>. QED  BY <1>3, <1>4, <2>1, <3>1
  <2>. QED  BY <2>1, <2>2, <2>3
<1>16. ASSUME NEW c \in published
       PROVE  HoldsBoundary(row'[c], c) /\ End(c) <= running - 1
  <2>1. HoldsBoundary(row[c], c) /\ End(c) <= computed /\ c \in Cols /\ End(c) \in Int
    BY <1>1, EndOrder DEF SharedWithin, WorldType, Cols
  <2>2. c < col
    <3>1. computed + scheduled > computed
      BY <1>1, <1>3 DEF Plan
    <3>. QED  BY <1>3, <1>15, <2>1, <3>1
  <2>. QED  BY <1>3, <1>14, <2>1, <2>2
<1>17. ASSUME NEW c \in Cols, row'[c] # EmptyBlock, End(c) <= computed'
       PROVE  c \in published \/ End(c) >= running
  <2>1. CASE c < col
    <3>1. row[c] # EmptyBlock /\ c # col /\ End(c) \in Int
      BY <1>4, <1>14, <1>17, <2>1, EndOrder DEF Cols
    <3>2. CASE End(c) <= computed
      BY <1>1, <3>1, <3>2 DEF BehindShared
    <3>3. CASE End(c) > computed
      \* A step over a boundary inside its chunk is a step of the prefill.
      <4>1. ~(known > computed + 1)
        BY <1>1, <1>3, <3>1, <3>3 DEF NothingAhead
      <4>. QED  BY <1>3, <3>1, <3>3, <4>1
    <3>. QED  BY <1>3, <3>1, <3>2, <3>3
  <2>2. CASE ~(c < col)
    BY <1>3, <1>15, <2>2
  <2>. QED  BY <2>1, <2>2
<1>18. NothingAhead({})'
  <2>1. ASSUME known' > computed' + 1, NEW c \in Cols, row'[c] # EmptyBlock
        PROVE  End(c) <= computed'
    <3>1. running # known /\ running % BlockSize = 0 /\ drafts = 0 /\ known > computed + 1
      BY <1>0, <1>1, <1>2, <1>3, <2>1 DEF Plan
    <3>2. computed' = running /\ running = computed + scheduled
      BY <1>0, <1>2, <1>3, <3>1
    <3>3. End(col) = running
      <4>1. (running \div BlockSize) * BlockSize = running /\ running \div BlockSize \in Int
        BY <1>3, <3>1, ModZero, DivBounds, MambaAssumption
      <4>2. PICK q \in Int : q = running \div BlockSize - 1
        BY <4>1
      <4>3. End(q) = running
        BY <1>3, <4>1, <4>2 DEF End
      <4>4. ~(q < col)
        <5>1. q < col => End(q) + BlockSize <= End(col)
          BY <1>4, <4>2, EndOrder
        <5>. QED  BY <1>3, <1>4, <3>2, <4>3, <5>1
      <4>5. ~(col < q)
        <5>1. col < q => End(col) + BlockSize <= End(q)
          BY <1>4, <4>2, EndOrder
        <5>. QED  BY <1>3, <1>4, <3>2, <4>3, <5>1, MambaAssumption
      <4>. QED  BY <1>4, <4>2, <4>3, <4>4, <4>5
    <3>4. CASE c < col
      BY <1>1, <1>3, <1>4, <1>14, <2>1, <3>1, <3>2, <3>4, EndOrder DEF NothingAhead, Cols
    <3>5. CASE c = col
      BY <3>2, <3>3, <3>5
    <3>6. CASE c > col
      <4>1. c \notin col .. col + drafts /\ c # col /\ row[c] \in Block
        BY <1>4, <3>1, <3>6 DEF WorldType, Cols
      <4>2. row'[c] = row[c]
        BY <1>6, <4>1 DEF Block
      <4>3. End(c) <= computed \/ c = col
        BY <1>1, <2>1, <3>1, <4>2 DEF NothingAhead
      <4>. QED  BY <1>3, <1>15, <3>2, <3>6, <4>1, <4>3, <1>4 DEF Cols
    <3>. QED  BY <1>4, <3>4, <3>5, <3>6 DEF Cols
  <2>. QED  BY <2>1 DEF NothingAhead
<1>19. Absorbed(col, n)'
  <2>1. col = CDiv(running + drafts', BlockSize) - 1
    BY <1>0, <1>1, <1>2, <1>3 DEF RunningColumn
  <2>2. SharedWithin(RunningTokensOf(n) - 1)'
    BY <1>2, <1>11, <1>16 DEF SharedWithin
  <2>3. running + drafts' <= MaxTokens /\ running >= 1 /\ computed' < known' /\ scheduled >= drafts + 1
    BY <1>0, <1>1, <1>2, <1>3 DEF Plan
  <2>4. (col + NumSpec < rowLength)'
    BY <1>1, <1>2 DEF Plan
  <2>. QED  BY <1>2, <1>3, <1>11, <1>17, <1>18, <2>1, <2>2, <2>3, <2>4 DEF Absorbed
<1>. QED  BY <1>2, <1>10, <1>11, <1>12, <1>13, <1>19, <1>0

LEMMA SavingBegins ==
  ASSUME WorldType, NEW col, NEW a,
         Absorbed(col, a), TemporalStates(col, a), ConvStates(col, a),
         todo' = States, phase' = "saving",
         UNCHANGED <<known, computed, scheduled, drafts, row, rowLength, published, cache>>
  PROVE  WorldType' /\ Saving(col, a, a)'
<1>1. WorldType'
  BY DEF WorldType, Phases
<1>2. Absorbed(col, a)'
  BY DEF Absorbed, SharedWithin, NothingAhead, RunningTokensOf
<1>3. TemporalStates(col, a)' /\ ConvStates(col, a)'
  BY DEF TemporalStates, ConvStates, RunningTokensOf
<1>. QED  BY <1>1, <1>2, <1>3 DEF Saving, States

LEMMA AbsorbedColumns ==
  ASSUME WorldType, NEW col, NEW a, Absorbed(col, a)
  PROVE  /\ a \in Nat /\ a >= 1 /\ a - 1 <= drafts /\ drafts <= NumSpec /\ drafts \in Nat
         /\ NumSpec \in Nat /\ NumSpec < BlockSize /\ BlockSize \in Nat /\ computed \in Nat
         /\ RunningTokensOf(a) \in Nat /\ RunningTokensOf(a) >= 1
         /\ computed = RunningTokensOf(a) + a - 1
         /\ col \in Nat /\ col \in Cols /\ col + NumSpec <= LastCol /\ LastCol \in Int
         /\ RunningTokensOf(a) + drafts <= End(col) /\ End(col) \in Int
         /\ End(col) < RunningTokensOf(a) + drafts + BlockSize
         /\ computed <= End(col)
         /\ \A c \in Int : 0 <= c /\ c <= col + NumSpec => HasBlock(c) /\ c \in Cols
<1>1. /\ a \in Nat /\ a >= 1 /\ a - 1 <= drafts /\ drafts <= NumSpec /\ drafts \in Nat
      /\ scheduled \in Nat /\ scheduled >= drafts + 1 /\ computed \in Nat
      /\ NumSpec \in Nat /\ NumSpec < BlockSize /\ BlockSize \in Nat /\ MaxTokens \in Nat
  BY MambaAssumption DEF Absorbed, WorldType
<1>2. PICK run \in Nat : run = RunningTokensOf(a) /\ run >= 1 /\ run = computed - a + 1
  BY <1>1 DEF RunningTokensOf, Absorbed
<1>3. /\ run + drafts \in Nat /\ run + drafts <= MaxTokens
      /\ col = CDiv(run + drafts, BlockSize) - 1
  BY <1>1, <1>2 DEF Absorbed
<1>4. col \in Int /\ col >= 0 /\ run + drafts <= End(col) /\ End(col) < run + drafts + BlockSize
  BY <1>1, <1>2, <1>3, ColumnOf
<1>5. col + NumSpec <= LastCol /\ LastCol \in Int
  BY <1>1, <1>3, <1>4, ColumnMono, LastColType
<1>6. \A c \in Int : 0 <= c /\ c <= col + NumSpec => HasBlock(c) /\ c \in Cols
  <2>1. rowLength \in 0 .. LastCol + 1 /\ col + NumSpec < rowLength
    BY DEF WorldType, Absorbed
  <2>. QED  BY <1>1, <1>4, <1>5, <2>1 DEF HasBlock, Cols
<1>7. computed = run + a - 1 /\ computed <= run + drafts /\ End(col) \in Int
  BY <1>1, <1>2, <1>4, EndOrder
<1>8. col \in Cols
  BY <1>1, <1>4, <1>6
<1>. QED  BY <1>1, <1>2, <1>4, <1>5, <1>6, <1>7, <1>8

\* The boundary a step crosses, and how the column it ends lies to the one the
\* step works in.
LEMMA CrossedColumn ==
  ASSUME WorldType, NEW col, NEW a, Absorbed(col, a), Crossed(a)
  PROVE  /\ Dest \in Cols /\ Dest \in Nat /\ Dest <= col
         /\ AlignedDown(computed) = End(Dest) /\ End(Dest) \in Int
         /\ RunningTokensOf(a) <= End(Dest) /\ End(Dest) <= computed
         /\ Bias(RunningTokensOf(a), computed) \in 0 .. a - 1
         /\ RunningTokensOf(a) + Bias(RunningTokensOf(a), computed) = End(Dest)
         /\ Dest = col => End(Dest) = computed
<1>1. PICK run \in Nat : /\ run = RunningTokensOf(a) /\ run >= 1 /\ computed = run + a - 1
                         /\ run + drafts <= End(col)
  BY AbsorbedColumns
<1>2. /\ a \in Nat /\ a >= 1 /\ a - 1 <= drafts /\ drafts \in Nat /\ BlockSize \in Nat \ {0}
      /\ col \in Nat /\ col \in Cols /\ computed \in Nat /\ End(col) \in Int /\ computed <= End(col)
      /\ col + NumSpec <= LastCol /\ LastCol \in Int /\ NumSpec \in Nat
  BY AbsorbedColumns, MambaAssumption
<1>3. Dest \in Int /\ AlignedDown(computed) = End(Dest) /\ End(Dest) \in Int /\ End(Dest) <= computed
  BY <1>2, BoundaryOf DEF Dest
<1>4. run <= End(Dest) /\ Bias(run, computed) = End(Dest) - run
  BY <1>1, <1>3 DEF Crossed, NeedsCopy, Bias
<1>5. Dest >= 0
  <2>1. End(-1) = 0
    BY <1>2 DEF End
  <2>2. Dest < -1 => End(Dest) + BlockSize <= End(-1)
    BY <1>3, EndOrder
  <2>3. Dest # -1
    BY <1>1, <1>4, <2>1
  <2>. QED  BY <1>1, <1>2, <1>3, <1>4, <2>1, <2>2, <2>3
<1>6. Dest <= col
  <2>1. col < Dest => End(col) + BlockSize <= End(Dest)
    BY <1>2, <1>3, EndOrder
  <2>. QED  BY <1>2, <1>3, <2>1
<1>7. Dest \in Cols
  BY <1>2, <1>3, <1>5, <1>6 DEF Cols
<1>. QED  BY <1>1, <1>2, <1>3, <1>4, <1>5, <1>6, <1>7

\* What one program of the postprocess kernel does to the row when a boundary was
\* crossed: its part of the boundary's state is in the boundary's column, and
\* nothing else changes.
LEMMA SavedBlocks ==
  ASSUME WorldType, NEW col, NEW a, Absorbed(col, a), Crossed(a),
         NEW state \in States,
         IF col = Dest /\ Bias(RunningTokensOf(a), computed) = 0
         THEN UNCHANGED row
         ELSE GuardedCopy(state, col, Dest, Bias(RunningTokensOf(a), computed))
  PROVE  /\ row' \in [Cols -> Block]
         /\ \A c \in Cols : c # Dest => row'[c] = row[c]
         /\ state = "temporal" =>
              /\ TemporalStates(col, a) => row'[Dest].temporal = End(Dest)
              /\ row'[Dest].conv = row[Dest].conv
         /\ state = "conv" =>
              /\ ConvStates(col, a) => row'[Dest].conv[0] = End(Dest)
              /\ row'[Dest].temporal = row[Dest].temporal
<1>1. PICK run, bias \in Int :
        /\ run = RunningTokensOf(a) /\ bias = Bias(run, computed)
        /\ bias \in 0 .. a - 1 /\ run + bias = End(Dest)
  <2>1. RunningTokensOf(a) \in Int /\ a \in Int
    BY AbsorbedColumns
  <2>2. Bias(RunningTokensOf(a), computed) \in 0 .. a - 1
        /\ RunningTokensOf(a) + Bias(RunningTokensOf(a), computed) = End(Dest)
    BY CrossedColumn
  <2>3. Bias(RunningTokensOf(a), computed) \in Int
    BY <2>1, <2>2
  <2>. QED  BY <2>1, <2>2, <2>3
<1>2. /\ Dest \in Cols /\ Dest \in Nat /\ Dest <= col /\ col \in Nat /\ col \in Cols
      /\ a \in Nat /\ a - 1 <= NumSpec /\ NumSpec \in Nat /\ row \in [Cols -> Block]
  BY CrossedColumn, AbsorbedColumns DEF WorldType
<1>3. bias \in Nat /\ bias <= NumSpec /\ bias \in Offsets /\ 0 \in Offsets
  BY <1>1, <1>2 DEF Offsets
<1>4. HasBlock(Dest) /\ HasBlock(col) /\ HasBlock(col + bias) /\ col + bias \in Cols
  <2>1. \A c \in Int : 0 <= c /\ c <= col + NumSpec => HasBlock(c) /\ c \in Cols
    BY AbsorbedColumns
  <2>. QED  BY <1>2, <1>3, <2>1
<1>5. TemporalStates(col, a) => row[col + bias].temporal = End(Dest)
  BY <1>1 DEF TemporalStates
<1>6. ConvStates(col, a) => row[col].conv[bias] = End(Dest)
  BY <1>1 DEF ConvStates
<1>7. CASE col = Dest /\ bias = 0
  <2>1. row' = row /\ col + bias = Dest
    BY <1>1, <1>2, <1>7
  <2>. QED  BY <1>2, <1>5, <1>6, <1>7, <2>1
<1>8. CASE ~(col = Dest /\ bias = 0)
  <2>1. row' = Copied(state, col, Dest, bias)
    BY <1>1, <1>4, <1>8 DEF GuardedCopy
  <2>2. row[col + bias].temporal \in Int /\ row[col].conv \in [Offsets -> Int]
    BY <1>2, <1>4 DEF Block
  <2>3. Slid(row[col].conv, bias) \in [Offsets -> Int]
        /\ Slid(row[col].conv, bias)[0] = row[col].conv[bias]
    BY <1>3, <2>2 DEF Slid, Garbage
  <2>4. CASE state = "temporal"
    <3>1. row' = [row EXCEPT ![Dest].temporal = row[col + bias].temporal]
      BY <1>4, <2>1, <2>4 DEF Copied, TemporalAt
    <3>. QED  BY <1>2, <1>5, <2>2, <2>4, <3>1 DEF Block
  <2>5. CASE state = "conv"
    <3>1. row' = [row EXCEPT ![Dest].conv = Slid(row[col].conv, bias)]
      BY <2>1, <2>5 DEF Copied
    <3>. QED  BY <1>2, <1>6, <2>3, <2>5, <3>1 DEF Block
  <2>. QED  BY <2>4, <2>5 DEF States
<1>. QED  BY <1>7, <1>8

\* The programs that still have to save find their blocks and the boundary's state.
LEMMA SavesFound ==
  ASSUME WorldType, NEW col, NEW a, NEW count, Saving(col, a, count)
  PROVE  SaveInRow(col, RunningTokensOf(a), computed)
<1>1. PICK run, bias : run = RunningTokensOf(a) /\ bias = Bias(run, computed)
  OBVIOUS
<1>2. SUFFICES ASSUME Crossed(a) PROVE CopyInRow(col, Dest, bias)
  BY <1>1 DEF SaveInRow, Crossed, Dest
<1>3. Absorbed(col, a)
  BY DEF Saving
<1>4. /\ a \in Nat /\ a - 1 <= NumSpec /\ NumSpec \in Nat /\ run \in Nat /\ run >= 1 /\ col \in Nat
      /\ \A c \in Int : 0 <= c /\ c <= col + NumSpec => HasBlock(c)
  BY <1>1, <1>3, AbsorbedColumns
<1>5. bias \in 0 .. a - 1 /\ Dest \in Nat /\ Dest <= col
  BY <1>1, <1>2, <1>3, CrossedColumn
<1>6. bias \in Nat /\ bias \in Offsets /\ HasBlock(Dest) /\ HasBlock(col) /\ HasBlock(col + bias)
  BY <1>4, <1>5 DEF Offsets
<1>7. "temporal" \in todo => row[col + bias].temporal = run + bias
  BY <1>1, <1>5 DEF Saving, TemporalStates
<1>8. "conv" \in todo => row[col].conv[bias] = run + bias
  BY <1>1, <1>5 DEF Saving, ConvStates
<1>9. run + bias # Empty
  BY <1>4, <1>6 DEF Empty
<1>. QED  BY <1>6, <1>7, <1>8, <1>9 DEF CopyInRow

LEMMA SavingGoesOn ==
  ASSUME WorldType, NEW col, NEW a, NEW count, Saving(col, a, count),
         NEW state \in todo, NEW count2,
         IF Crossed(a)
         THEN /\ count2 = IF col = Dest /\ state = FirstState THEN 1 ELSE count
              /\ IF col = Dest /\ Bias(RunningTokensOf(a), computed) = 0
                 THEN UNCHANGED row
                 ELSE GuardedCopy(state, col, Dest, Bias(RunningTokensOf(a), computed))
         ELSE UNCHANGED row /\ count2 = count,
         todo' = todo \ {state},
         UNCHANGED <<phase, known, computed, scheduled, drafts, rowLength, published, cache>>
  PROVE  WorldType' /\ Saving(col, a, count2)'
<1>1. /\ Absorbed(col, a) /\ state \in States /\ row \in [Cols -> Block]
      /\ todo' \subseteq States
  BY DEF Saving, WorldType
<1>2. PICK run, n : /\ run = RunningTokensOf(a) /\ n = CountAfter(col, a)
                    /\ RunningTokensOf(a)' = run /\ CountAfter(col, a)' = n
                    /\ (Crossed(a)' <=> Crossed(a)) /\ Dest' = Dest
  BY DEF RunningTokensOf, CountAfter, Crossed, Dest
<1>3. /\ a \in Nat /\ a >= 1 /\ run \in Nat /\ run >= 1 /\ computed = run + a - 1 /\ computed \in Nat
      /\ col \in Nat /\ col \in Cols /\ a - 1 <= NumSpec /\ NumSpec \in Nat
      /\ \A i \in 0 .. a - 1 : col + i \in Cols
  <2>1. \A c \in Int : 0 <= c /\ c <= col + NumSpec => HasBlock(c) /\ c \in Cols
    BY <1>1, AbsorbedColumns
  <2>. QED  BY <1>1, <1>2, <2>1, AbsorbedColumns
<1>4. CASE ~Crossed(a)
  <2>1. row' = row /\ count2 = count /\ n = a
    BY <1>2, <1>4 DEF CountAfter
  <2>2. WorldType'
    BY <1>1, <2>1 DEF WorldType
  <2>3. Absorbed(col, a)'
    BY <1>1, <2>1 DEF Absorbed, SharedWithin, NothingAhead, RunningTokensOf
  <2>4. TemporalStates(col, a) => TemporalStates(col, a)' /\ row[col + n - 1].temporal = computed
    <3>1. col + n - 1 = col + (a - 1) /\ a - 1 \in 0 .. a - 1
      BY <1>3, <2>1
    <3>. QED  BY <1>2, <1>3, <2>1, <3>1 DEF TemporalStates
  <2>5. ConvStates(col, a) => ConvStates(col, a)' /\ row[col].conv[n - 1] = computed
    BY <1>2, <1>3, <2>1 DEF ConvStates
  <2>. QED  BY <1>1, <1>2, <1>4, <2>1, <2>2, <2>3, <2>4, <2>5 DEF Saving
<1>5. CASE Crossed(a)
  <2>1. /\ Dest \in Cols /\ Dest \in Nat /\ Dest <= col /\ AlignedDown(computed) = End(Dest)
        /\ run <= End(Dest) /\ End(Dest) <= computed /\ End(Dest) \in Int
        /\ Dest = col => End(Dest) = computed
        /\ n = IF col = Dest THEN 1 ELSE a
    BY <1>1, <1>2, <1>5, CrossedColumn DEF CountAfter
  <2>2. /\ row' \in [Cols -> Block]
        /\ \A c \in Cols : c # Dest => row'[c] = row[c]
        /\ state = "temporal" =>
             /\ TemporalStates(col, a) => row'[Dest].temporal = End(Dest)
             /\ row'[Dest].conv = row[Dest].conv
        /\ state = "conv" =>
             /\ ConvStates(col, a) => row'[Dest].conv[0] = End(Dest)
             /\ row'[Dest].temporal = row[Dest].temporal
    BY <1>1, <1>5, SavedBlocks
  <2>3. WorldType'
    BY <1>1, <2>2 DEF WorldType
  <2>4. Absorbed(col, a)'
    <3>1. Dest \notin published
      BY <1>1, <1>2, <1>3, <2>1 DEF Absorbed, SharedWithin
    <3>2. SharedWithin(run - 1)'
      BY <1>1, <1>2, <2>2, <3>1 DEF Absorbed, SharedWithin, WorldType
    <3>3. \A c \in Cols : row'[c] # EmptyBlock /\ End(c) <= computed => c \in published \/ End(c) >= run
      BY <1>1, <1>2, <2>1, <2>2 DEF Absorbed
    <3>4. NothingAhead({})'
      BY <1>1, <2>1, <2>2 DEF Absorbed, NothingAhead
    <3>. QED  BY <1>1, <1>2, <3>2, <3>3, <3>4 DEF Absorbed, SharedWithin
  \* The state of the last accepted token: in front of the boundary's column, or it
  \* is the boundary's.
  <2>5. CASE state = "temporal"
    <3>1. TemporalStates(col, a)
      BY <2>5 DEF Saving
    <3>2. row'[col + n - 1].temporal = computed
      <4>1. CASE col = Dest
        BY <1>3, <2>1, <2>2, <2>5, <3>1, <4>1
      <4>2. CASE col # Dest
        <5>1. PICK c \in Cols : c = col + (a - 1) /\ c = col + n - 1 /\ c # Dest
          BY <1>3, <2>1, <4>2
        <5>2. row[c].temporal = run + (a - 1)
          BY <1>2, <1>3, <3>1, <5>1 DEF TemporalStates
        <5>. QED  BY <1>3, <2>2, <5>1, <5>2
      <4>. QED  BY <4>1, <4>2
    <3>3. IF "conv" \in todo THEN ConvStates(col, a)'
          ELSE row'[col].conv[n - 1] = computed /\ row'[Dest].conv[0] = AlignedDown(computed)
      BY <1>1, <1>2, <1>3, <1>5, <2>1, <2>2, <2>5 DEF Saving, ConvStates
    <3>4. count2 = count /\ ("conv" \in todo' <=> "conv" \in todo) /\ "temporal" \notin todo'
      BY <1>5, <2>5 DEF FirstState
    <3>5. AlignedDown(computed') = AlignedDown(computed) /\ row'[Dest].temporal = AlignedDown(computed)
      BY <2>1, <2>2, <2>5, <3>1
    <3>. QED  BY <1>2, <2>3, <2>4, <3>2, <3>3, <3>4, <3>5 DEF Saving
  <2>6. CASE state = "conv"
    <3>1. ConvStates(col, a)
      BY <2>6 DEF Saving
    <3>2. row'[col].conv[n - 1] = computed
      <4>1. CASE col = Dest
        BY <1>3, <2>1, <2>2, <2>6, <3>1, <4>1
      <4>2. CASE col # Dest
        BY <1>2, <1>3, <2>1, <2>2, <3>1, <4>2 DEF ConvStates
      <4>. QED  BY <4>1, <4>2
    <3>3. \A c \in Cols : row'[c].temporal = row[c].temporal
      BY <2>2, <2>6
    <3>4. IF "temporal" \in todo THEN TemporalStates(col, a)'
          ELSE row'[col + n - 1].temporal = computed /\ row'[Dest].temporal = AlignedDown(computed)
      <4>1. col + n - 1 \in Cols
        <5>1. n - 1 \in 0 .. a - 1 /\ col + n - 1 = col + (n - 1)
          BY <1>3, <2>1
        <5>. QED  BY <1>3, <5>1
      <4>2. TemporalStates(col, a) => TemporalStates(col, a)'
        BY <1>2, <1>3, <3>3 DEF TemporalStates
      <4>. QED  BY <1>2, <1>5, <2>1, <3>3, <4>1, <4>2 DEF Saving
    <3>5. count2 = n /\ ("temporal" \in todo' <=> "temporal" \in todo) /\ "conv" \notin todo'
      BY <1>2, <1>5, <2>1, <2>6 DEF FirstState, Saving
    <3>6. AlignedDown(computed') = AlignedDown(computed) /\ row'[Dest].conv[0] = AlignedDown(computed)
      BY <2>1, <2>2, <2>6, <3>1
    <3>. QED  BY <1>2, <2>3, <2>4, <3>2, <3>4, <3>5, <3>6 DEF Saving
  <2>. QED  BY <1>1, <2>5, <2>6 DEF States
<1>. QED  BY <1>4, <1>5

LEMMA StepEnds ==
  ASSUME WorldType, CacheInv, NEW col, NEW a, NEW count, Saving(col, a, count), todo = {},
         Publish, phase' = "waiting",
         UNCHANGED <<known, computed, scheduled, drafts, row, rowLength, todo>>
  PROVE  WorldType' /\ CacheInv' /\ Ready(col, count)'
<1>1. /\ Absorbed(col, a) /\ count = CountAfter(col, a)
      /\ row[col + count - 1].temporal = computed /\ row[col].conv[count - 1] = computed
      /\ Crossed(a) => HoldsBoundary(row[Dest], Dest)
  <2>1. Saving(col, a, count) /\ "temporal" \notin todo /\ "conv" \notin todo
    OBVIOUS
  <2>2. Crossed(a) => AlignedDown(computed) = (Dest + 1) * BlockSize
    BY <2>1, CrossedColumn DEF Saving, End
  <2>. QED  BY <2>1, <2>2 DEF Saving, HoldsBoundary
<1>2. PICK run \in Nat : /\ run = RunningTokensOf(a) /\ run >= 1 /\ computed = run + a - 1
                         /\ End(col) < run + drafts + BlockSize
  BY <1>1, AbsorbedColumns
<1>3. /\ a \in Nat /\ a >= 1 /\ a - 1 <= drafts /\ drafts <= NumSpec /\ drafts \in Nat
      /\ NumSpec \in Nat /\ NumSpec < BlockSize /\ BlockSize \in Nat \ {0} /\ computed \in Nat
      /\ col \in Nat /\ col \in Cols /\ End(col) \in Int /\ computed <= End(col)
      /\ col * BlockSize = End(col) - BlockSize /\ col * BlockSize \in Int
      /\ col + NumSpec <= LastCol /\ LastCol \in Int
  <2>1. col \in Nat
    BY <1>1, AbsorbedColumns
  <2>. QED  BY <1>1, <2>1, AbsorbedColumns, EndOrder, MambaAssumption
\* A boundary between the running tokens and the computed ones is the last.
<1>4. ASSUME NEW c \in Cols, row[c] # EmptyBlock, End(c) <= computed
      PROVE  HoldsBoundary(row[c], c)
  <2>1. c \in Int /\ End(c) \in Int
    BY <1>3, EndOrder DEF Cols
  <2>2. CASE c \in published
    BY <1>1, <2>2 DEF Absorbed, SharedWithin
  <2>3. CASE End(c) >= run
    <3>1. /\ Dest \in Int /\ AlignedDown(computed) = End(Dest) /\ End(Dest) \in Int
          /\ End(Dest) <= computed /\ computed < End(Dest) + BlockSize
      BY <1>3, BoundaryOf DEF Dest
    <3>2. c < Dest => End(c) + BlockSize <= End(Dest)
      BY <2>1, <3>1, EndOrder
    <3>3. Dest < c => End(Dest) + BlockSize <= End(c)
      BY <2>1, <3>1, EndOrder
    <3>4. c = Dest
      BY <1>2, <1>3, <1>4, <2>1, <2>3, <3>1, <3>2, <3>3
    <3>5. Crossed(a)
      BY <1>2, <2>3, <3>1, <3>4 DEF Crossed, NeedsCopy
    <3>. QED  BY <1>1, <3>4, <3>5
  <2>. QED  BY <1>1, <1>2, <1>4, <2>2, <2>3 DEF Absorbed
<1>. DEFINE full == {c \in Cols : row[c] # EmptyBlock /\ (c + 1) * BlockSize <= computed}
<1>5. /\ published' = published \union full
      /\ cache' = [c \in Cols |-> IF c \in full /\ cache[c] = EmptyBlock THEN row[c] ELSE cache[c]]
  BY DEF Publish
<1>6. \A c \in full : c \in Cols /\ row[c] # EmptyBlock /\ End(c) <= computed
  BY DEF End
<1>7. \A c \in Cols : row[c] # EmptyBlock /\ End(c) <= computed => c \in full
  BY DEF End
<1>. HIDE DEF full
<1>8. WorldType'
  BY <1>5, <1>6 DEF WorldType, Phases
<1>9. CacheInv'
  BY <1>4, <1>5, <1>6 DEF CacheInv
<1>10. SharedWithin(computed)'
  <2>1. ASSUME NEW c \in published PROVE HoldsBoundary(row[c], c) /\ End(c) <= computed
    <3>1. HoldsBoundary(row[c], c) /\ End(c) <= run - 1 /\ c \in Cols /\ End(c) \in Int
      BY <1>1, <1>2, EndOrder DEF Absorbed, SharedWithin, WorldType, Cols
    <3>. QED  BY <1>2, <1>3, <3>1
  <2>. QED  BY <1>4, <1>5, <1>6, <2>1 DEF SharedWithin
<1>11. BehindShared' /\ NothingAhead({})'
  BY <1>1, <1>5, <1>7 DEF BehindShared, NothingAhead, Absorbed
<1>12. count \in 1 .. NumSpec + 1 /\ col * BlockSize < computed + NumSpec - (count - 1)
  <2>1. CASE count = a
    BY <1>2, <1>3, <2>1
  <2>2. CASE count = 1 /\ Crossed(a) /\ col = Dest
    <3>1. End(col) <= computed
      BY <1>1, <2>2, CrossedColumn
    <3>. QED  BY <1>3, <2>2, <3>1
  <2>. QED  BY <1>1, <2>1, <2>2 DEF CountAfter
<1>13. StateAt(col, count)'
  BY <1>1, <1>3, <1>12 DEF StateAt, Cols
<1>14. Ready(col, count)'
  <2>1. computed > 0 /\ computed < known
    BY <1>1, <1>2, <1>3 DEF Absorbed
  <2>. QED  BY <1>3, <1>10, <1>11, <1>12, <1>13, <2>1 DEF Ready
<1>. QED  BY <1>8, <1>9, <1>14

=============================================================================
