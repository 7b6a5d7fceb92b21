-------------------------- MODULE MambaAlignV1Proofs --------------------------
(***************************************************************************)
(* Proofs about MambaAlignV1 for every block size, every number of drafts  *)
(* smaller than a block and requests of any length.                        *)
(***************************************************************************)
EXTENDS MambaAlignV1, MambaStateProofs

\* In each phase the blocks are as MambaStateProofs describes them for what the
\* first runner has on the CPU, staged or on the GPU.
PhaseInv ==
  /\ phase \in {"waiting", "scheduled"} => Ready(PreviousColumn, acceptedCpu)
  /\ phase = "scheduled" => Plan
  /\ phase = "precopy" =>
       srcCol \in Int /\ srcCol # entry /\ Moving(srcCol, tokenBias, entry, acceptedCpu)
  /\ phase = "forward" => Started(entry, acceptedCpu)
  /\ phase = "postprocess" =>
       /\ Absorbed(entry, acceptedGpu)
       /\ TemporalStates(entry, acceptedGpu) /\ ConvStates(entry, acceptedGpu)
  /\ phase = "saving" => Saving(entry, acceptedGpu, acceptedOut)

\* What is staged is the step's, and a request that is gone leaves an entry only
\* if its successor will be told to drop it.
StagedInv ==
  /\ phase \in {"precopy", "forward"} => staged = StagedInputs
  /\ phase \in {"precopy", "forward", "postprocess", "saving"} =>
       entry = staged.stateIdx /\ notices = {}
  /\ phase \in {"postprocess", "saving"} => RunningTokens = RunningTokensOf(acceptedGpu)
  /\ phase = "absent" =>
       published = {} /\ (known = 0 => "finished" \in notices \/ entry = None)

IInv == WorldType /\ CacheInv /\ entry \in Int /\ PhaseInv /\ StagedInv

LEMMA InitIInv == Init => IInv
<1>. SUFFICES ASSUME Init PROVE IInv
  OBVIOUS
<1>1. EmptyRow \in [Cols -> Block]
  BY EmptyBlockFacts DEF EmptyRow
<1>. QED  BY <1>1, LastColType DEF Init, WorldInit, IInv, PhaseInv, StagedInv, WorldType, CacheInv, Phases,
     EmptyRow, None

LEMMA AdmitIInv ==
  ASSUME IInv, NEW tokens \in 1 .. MaxTokens, NEW hit \in 0 .. LastCol + 1, Admit(tokens, hit)
  PROVE  IInv'
<1>1. /\ Admitted(tokens, hit) /\ phase = "absent" /\ computed' = hit * BlockSize
      /\ acceptedCpu' = 1 /\ entry' = entry
      /\ notices' = IF known > 0 THEN notices \union {"resumed"} ELSE notices
  BY DEF Admit, Admitted
<1>2. PICK col : col = SeedColumn(hit * BlockSize)
  OBVIOUS
<1>3. WorldType' /\ CacheInv' /\ phase' = "waiting" /\ Ready(col, 1)'
  BY <1>1, <1>2, AdmittedReady DEF IInv
\* The entry of an earlier request is dropped, however that one left.
<1>4. PreviousColumn' = col
  <2>1. PopsEntry' \/ entry' = None
    BY <1>1 DEF PopsEntry, IInv, StagedInv, WorldType
  <2>. QED  BY <1>1, <1>2, <2>1 DEF PreviousColumn
<1>5. Ready(PreviousColumn, acceptedCpu)'
  BY <1>1, <1>3, <1>4 DEF Ready, StateAt
<1>. QED  BY <1>1, <1>3, <1>5 DEF IInv, PhaseInv, StagedInv

LEMMA ScheduleIInv ==
  ASSUME IInv, NEW end \in 1 .. MaxTokens, NEW nDrafts \in Offsets, Schedule(end, nDrafts)
  PROVE  IInv'
<1>1. /\ Scheduled(end, nDrafts) /\ phase = "waiting" /\ computed' = computed
      /\ UNCHANGED <<entry, notices, acceptedCpu, srcCol, tokenBias, staged, acceptedGpu, acceptedOut>>
  BY DEF Schedule, Scheduled, v1Vars
<1>2. PICK col, a : col = PreviousColumn /\ a = acceptedCpu
  OBVIOUS
<1>3. WorldType' /\ CacheInv' /\ phase' = "scheduled" /\ Ready(col, a)' /\ Plan'
  BY <1>1, <1>2, ScheduledReady DEF IInv, PhaseInv
<1>4. PreviousColumn' = col
  BY <1>1, <1>2 DEF PreviousColumn, PopsEntry
<1>5. Ready(PreviousColumn, acceptedCpu)'
  BY <1>1, <1>2, <1>3, <1>4 DEF Ready, StateAt
<1>. QED  BY <1>1, <1>3, <1>5 DEF IInv, PhaseInv, StagedInv

LEMMA PreprocessIInv ==
  ASSUME IInv, Preprocess
  PROVE  IInv'
<1>. DEFINE moves == PreviousColumn # -1 /\ PreviousColumn # RunningColumn
<1>1. /\ phase = "scheduled" /\ phase' = "precopy" /\ todo' = States
      /\ UNCHANGED <<known, computed, scheduled, drafts, row, rowLength, published, cache>>
      /\ entry' = RunningColumn /\ notices' = {} /\ staged' = StagedInputs
      /\ srcCol' = IF moves THEN PreviousColumn ELSE -1
      /\ tokenBias' = IF moves THEN acceptedCpu - 1 ELSE 0
      /\ acceptedCpu' = IF moves THEN 1 ELSE acceptedCpu
  BY DEF Preprocess
<1>2. Ready(PreviousColumn, acceptedCpu) /\ Plan /\ WorldType /\ CacheInv
  BY <1>1 DEF IInv, PhaseInv
<1>3. PICK col, a : col = PreviousColumn /\ a = acceptedCpu
  OBVIOUS
<1>4. col \in Int /\ (col = -1 \/ col >= 0)
  BY <1>2, <1>3 DEF Ready, StateAt, WorldType, Cols
<1>5. PICK src, off, dst, b : /\ src = srcCol' /\ off = tokenBias' /\ dst = entry' /\ b = acceptedCpu'
                              /\ src \in Int
  BY <1>1, <1>3, <1>4
<1>6. WorldType' /\ Moving(src, off, dst, b)'
  <2>1. /\ col >= 0 /\ col # dst => src = col /\ off = a - 1 /\ b = 1
        /\ ~(col >= 0 /\ col # dst) => ~(src >= 0 /\ src # dst) /\ b = a
        /\ col < 0 => src < 0
    BY <1>1, <1>3, <1>4, <1>5
  <2>2. Ready(col, a) /\ Plan /\ WorldType /\ dst = RunningColumn
    BY <1>1, <1>2, <1>3, <1>5
  <2>3. /\ todo' = States /\ phase' = "precopy"
        /\ UNCHANGED <<known, computed, scheduled, drafts, row, rowLength, published, cache>>
    BY <1>1
  <2>. HIDE DEF moves
  <2>. QED  BY <1>5, <2>1, <2>2, <2>3, StepBegins
<1>7. Moving(srcCol, tokenBias, entry, acceptedCpu)'
  BY <1>5, <1>6 DEF Moving, Running, StateAt, NothingAhead
<1>8. entry' \in Int /\ srcCol' # entry'
  <2>1. RunningColumn \in Nat
    BY <1>2, PlanColumns DEF Ready
  <2>. QED  BY <1>1, <2>1
<1>9. staged' = StagedInputs' /\ entry' = staged'.stateIdx
  BY <1>1 DEF StagedInputs, RunningColumn
<1>. QED  BY <1>1, <1>2, <1>5, <1>6, <1>7, <1>8, <1>9 DEF IInv, PhaseInv, StagedInv, CacheInv

LEMMA PrecopyIInv ==
  ASSUME IInv, NEW state \in States, Precopy(state)
  PROVE  IInv'
<1>1. /\ phase = "precopy" /\ state \in todo /\ todo' = todo \ {state}
      /\ entry = staged.stateIdx /\ staged = StagedInputs /\ notices = {}
      /\ IF srcCol < 0 \/ srcCol = entry THEN UNCHANGED row
         ELSE GuardedCopy(state, srcCol, entry, tokenBias)
      /\ phase' = IF todo' = {} THEN "forward" ELSE phase
      /\ UNCHANGED <<known, computed, scheduled, drafts, rowLength, published, cache, entry, notices,
                     acceptedCpu, srcCol, tokenBias, staged, acceptedGpu, acceptedOut>>
  BY DEF Precopy, v1Vars, IInv, StagedInv
<1>2. PICK src, off, col, a : /\ src = srcCol /\ off = tokenBias /\ col = entry /\ a = acceptedCpu
                              /\ src \in Int
  BY <1>1 DEF IInv, PhaseInv
<1>3. WorldType' /\ Moving(src, off, col, a)' /\ (todo' = {} => Started(col, a)')
  BY <1>1, <1>2, PrecopyMoves DEF IInv, PhaseInv, Phases
<1>4. Moving(srcCol, tokenBias, entry, acceptedCpu)'
  BY <1>1, <1>2, <1>3 DEF Moving, Running, StateAt, NothingAhead
<1>5. todo' = {} => Started(entry, acceptedCpu)'
  BY <1>1, <1>2, <1>3 DEF Started, Running, StateAt, NothingAhead
<1>6. StagedInv'
  BY <1>1 DEF StagedInv, StagedInputs, RunningColumn
<1>. QED  BY <1>1, <1>2, <1>3, <1>4, <1>5, <1>6 DEF IInv, PhaseInv, CacheInv

LEMMA ForwardIInv ==
  ASSUME IInv, NEW n \in 1 .. NumSpec + 1, Forward(n)
  PROVE  IInv'
<1>1. /\ ForwardPass(entry, acceptedCpu, n) /\ phase = "forward" /\ acceptedGpu' = n
      /\ UNCHANGED <<entry, notices, acceptedCpu, srcCol, tokenBias, staged, acceptedOut, cache>>
      /\ staged = StagedInputs /\ entry = staged.stateIdx /\ notices = {}
  BY DEF Forward, ForwardPass, IInv, StagedInv
<1>2. PICK col, a : col = entry /\ a = acceptedCpu
  OBVIOUS
<1>3. /\ WorldType' /\ phase' = "postprocess"
      /\ Absorbed(col, n)' /\ TemporalStates(col, n)' /\ ConvStates(col, n)'
      /\ RunningTokensOf(n)' = computed + scheduled - drafts
  BY <1>1, <1>2, ForwardAbsorbs DEF IInv, PhaseInv
<1>4. Absorbed(entry, acceptedGpu)'
  BY <1>1, <1>2, <1>3 DEF Absorbed, RunningTokensOf
<1>5. TemporalStates(entry, acceptedGpu)' /\ ConvStates(entry, acceptedGpu)'
  BY <1>1, <1>2, <1>3 DEF TemporalStates, ConvStates, RunningTokensOf
<1>6. RunningTokens' = RunningTokensOf(acceptedGpu)'
  BY <1>1, <1>3 DEF RunningTokens, StagedInputs, RunningTokensOf
<1>. QED  BY <1>1, <1>3, <1>4, <1>5, <1>6 DEF IInv, PhaseInv, StagedInv, CacheInv

LEMMA KeepCountsIInv ==
  ASSUME IInv, KeepCounts
  PROVE  IInv'
<1>1. /\ phase = "postprocess" /\ phase' = "saving" /\ todo' = States /\ acceptedOut' = acceptedGpu
      /\ UNCHANGED <<known, computed, scheduled, drafts, row, rowLength, published, cache,
                     entry, notices, acceptedCpu, srcCol, tokenBias, staged, acceptedGpu>>
  BY DEF KeepCounts
<1>2. PICK col, a : col = entry /\ a = acceptedGpu
  OBVIOUS
<1>3. WorldType' /\ Saving(col, a, a)'
  BY <1>1, <1>2, SavingBegins DEF IInv, PhaseInv
<1>4. Saving(entry, acceptedGpu, acceptedOut)'
  BY <1>1, <1>2, <1>3 DEF Saving, Absorbed, TemporalStates, ConvStates, RunningTokensOf,
     CountAfter, Crossed
<1>5. StagedInv'
  BY <1>1 DEF IInv, StagedInv, RunningTokens, RunningTokensOf
<1>. QED  BY <1>1, <1>3, <1>4, <1>5 DEF IInv, PhaseInv, CacheInv

LEMMA PostprocessIInv ==
  ASSUME IInv, NEW state \in States, Postprocess(state)
  PROVE  IInv'
<1>1. /\ phase = "saving" /\ state \in todo /\ todo' = todo \ {state}
      /\ UNCHANGED <<phase, known, computed, scheduled, drafts, rowLength, published, cache,
                     entry, notices, acceptedCpu, srcCol, tokenBias, staged, acceptedGpu>>
  BY DEF Postprocess
<1>2. PICK col, a, count, count2 :
        col = entry /\ a = acceptedGpu /\ count = acceptedOut /\ count2 = acceptedOut'
  OBVIOUS
<1>3. /\ RunningTokens = RunningTokensOf(a) /\ RunningTokens + acceptedGpu - 1 = computed
      /\ staged.stateIdx = col
  <2>1. a \in Nat /\ computed \in Nat
    BY <1>1, <1>2, AbsorbedColumns DEF IInv, PhaseInv, Saving
  <2>2. RunningTokens = computed - a + 1 /\ RunningTokens = RunningTokensOf(a)
    BY <1>1, <1>2 DEF IInv, StagedInv, RunningTokensOf
  <2>. QED  BY <1>1, <1>2, <2>1, <2>2 DEF IInv, StagedInv
<1>4. IF Crossed(a)
      THEN /\ count2 = IF col = Dest /\ state = FirstState THEN 1 ELSE count
           /\ IF col = Dest /\ Bias(RunningTokensOf(a), computed) = 0
              THEN UNCHANGED row
              ELSE GuardedCopy(state, col, Dest, Bias(RunningTokensOf(a), computed))
      ELSE UNCHANGED row /\ count2 = count
  BY <1>2, <1>3 DEF Postprocess, Crossed, Dest
<1>5. WorldType' /\ Saving(col, a, count2)'
  BY <1>1, <1>2, <1>4, SavingGoesOn DEF IInv, PhaseInv
<1>6. Saving(entry, acceptedGpu, acceptedOut)'
  BY <1>1, <1>2, <1>5 DEF Saving, Absorbed, TemporalStates, ConvStates, RunningTokensOf,
     CountAfter, Crossed
<1>7. StagedInv'
  BY <1>1 DEF IInv, StagedInv, RunningTokens, RunningTokensOf
<1>. QED  BY <1>1, <1>5, <1>6, <1>7 DEF IInv, PhaseInv, CacheInv

LEMMA EndStepIInv ==
  ASSUME IInv, EndStep
  PROVE  IInv'
<1>1. /\ phase = "saving" /\ todo = {} /\ phase' = "waiting" /\ Publish
      /\ acceptedCpu' = acceptedOut /\ notices = {}
      /\ UNCHANGED <<known, computed, scheduled, drafts, row, rowLength, todo, entry, notices>>
  BY DEF EndStep, CountsForCpu, IInv, StagedInv
<1>2. PICK col, a, count : col = entry /\ a = acceptedGpu /\ count = acceptedOut
  OBVIOUS
<1>3. WorldType' /\ CacheInv' /\ Ready(col, count)'
  BY <1>1, <1>2, StepEnds DEF IInv, PhaseInv
<1>4. PreviousColumn' = col
  <2>1. col \in Nat
    BY <1>1, <1>2, AbsorbedColumns DEF IInv, PhaseInv, Saving
  <2>. QED  BY <1>1, <1>2, <2>1 DEF PreviousColumn, PopsEntry, None
<1>5. Ready(PreviousColumn, acceptedCpu)'
  BY <1>1, <1>2, <1>3, <1>4 DEF Ready, StateAt
<1>. QED  BY <1>1, <1>3, <1>5 DEF IInv, PhaseInv, StagedInv

LEMMA LeaveIInv ==
  ASSUME IInv, Leave
  PROVE  IInv'
<1>1. Left /\ entry' = entry /\ (known' = 0 => notices' = {"finished"})
  BY DEF Leave
<1>2. WorldType' /\ CacheInv' /\ phase' = "absent" /\ published' = {}
  BY <1>1, LeftGone DEF IInv
<1>. QED  BY <1>1, <1>2 DEF IInv, PhaseInv, StagedInv

LEMMA EvictIInv ==
  ASSUME IInv, NEW c \in Cols, Evict(c)
  PROVE  IInv'
<1>1. /\ Evicted(c)
      /\ UNCHANGED <<phase, known, computed, scheduled, drafts, row, rowLength, published, todo, entry, notices,
                     acceptedCpu, srcCol, tokenBias, staged, acceptedGpu, acceptedOut>>
  BY DEF Evict, Evicted, v1Vars
<1>2. WorldType' /\ CacheInv'
  BY <1>1, EvictedCache DEF IInv
<1>3. StagedInv'
  BY <1>1 DEF IInv, StagedInv, StagedInputs, RunningColumn, RunningTokens, RunningTokensOf
<1>4. PreviousColumn' = PreviousColumn
  BY <1>1 DEF PreviousColumn, PopsEntry
<1>5. PhaseInv'
  BY <1>1, <1>4 DEF IInv, PhaseInv, Ready, StateAt, SharedWithin, BehindShared, NothingAhead, Plan,
     Moving, Running, RunningColumn, HasBlock, Started, Absorbed, RunningTokensOf,
     TemporalStates, ConvStates, Saving, CountAfter, Crossed, Dest
<1>. QED  BY <1>1, <1>2, <1>3, <1>5 DEF IInv

LEMMA NextIInv ==
  ASSUME IInv, [Next]_vars
  PROVE  IInv'
<1>1. CASE UNCHANGED vars
  BY <1>1 DEF vars, worldVars, v1Vars, IInv, PhaseInv, StagedInv, PreviousColumn, PopsEntry,
     StagedInputs, RunningTokens, WorldType, CacheInv, Ready, StateAt, SharedWithin,
     BehindShared, NothingAhead, Plan, Moving, Running, RunningColumn, HasBlock, Started,
     Absorbed, RunningTokensOf, TemporalStates, ConvStates, Saving, CountAfter, Crossed, Dest
<1>. QED  BY <1>1, AdmitIInv, ScheduleIInv, PreprocessIInv, PrecopyIInv, ForwardIInv,
     KeepCountsIInv, PostprocessIInv, EndStepIInv, LeaveIInv, EvictIInv DEF Next

\* The invariant holds in every state of the first runner.
THEOREM Invariance == Spec => []IInv
BY InitIInv, NextIInv, PTL DEF Spec

\* Although the CPU decides from last step's counts and from entries that may be
\* stale, the forward pass starts from the state after exactly the computed tokens.
THEOREM RightState == Spec => []StartsFromComputed
<1>1. IInv => StartsFromComputed
  BY MambaAssumption DEF IInv, PhaseInv, WorldType, Started, StateAt, StartsFromComputed,
     InitialTemporal, InitialConv, TemporalAt, Offsets
<1>. QED  BY Invariance, <1>1, PTL

\* What the prefix cache hands out, and what a running request shares with it,
\* is the state at the block's own boundary.
THEOREM ExactCache == Spec => []CacheExact
<1>1. IInv => CacheExact
  BY DEF IInv, PhaseInv, StagedInv, WorldType, Phases, CacheInv, CacheExact, Ready, SharedWithin,
     Moving, Started, Running, Absorbed, Saving
<1>. QED  BY Invariance, <1>1, PTL

\* No staged copy, before the forward pass or after it, reads or writes a column
\* without a block or reads one without a state.
THEOREM CopiesInRow == Spec => []StagedCopyInRow
<1>1. ASSUME IInv, phase = "precopy", srcCol >= 0
      PROVE  CopyInRow(srcCol, staged.stateIdx, tokenBias)
  <2>1. /\ computed \in Nat /\ computed # 0 /\ Moving(srcCol, tokenBias, entry, acceptedCpu)
        /\ entry = staged.stateIdx /\ srcCol \in Int /\ srcCol # entry
    BY <1>1 DEF IInv, PhaseInv, StagedInv, WorldType, Moving
  <2>. QED  BY <1>1, <2>1 DEF Moving, Empty, CopyInRow
<1>2. ASSUME IInv, phase = "saving"
      PROVE  SaveInRow(staged.stateIdx, RunningTokens, RunningTokens + acceptedGpu - 1)
  <2>1. PICK col, a, count : /\ col = entry /\ a = acceptedGpu /\ count = acceptedOut
                             /\ WorldType /\ Saving(col, a, count)
    BY <1>2 DEF IInv, PhaseInv
  <2>2. SaveInRow(col, RunningTokensOf(a), computed)
    BY <2>1, SavesFound
  <2>3. a \in Nat /\ computed \in Nat
    BY <2>1, AbsorbedColumns DEF Saving
  <2>4. RunningTokens = RunningTokensOf(a) /\ staged.stateIdx = col
    BY <1>2, <2>1 DEF IInv, StagedInv
  <2>5. RunningTokens + acceptedGpu - 1 = computed
    BY <2>1, <2>3, <2>4 DEF RunningTokensOf
  <2>. QED  BY <2>2, <2>4, <2>5
<1>3. IInv => StagedCopyInRow
  BY <1>1, <1>2 DEF StagedCopyInRow
<1>. QED  BY Invariance, <1>3, PTL

===============================================================================
