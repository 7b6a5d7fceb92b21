-------------------------- MODULE MambaAlignV2Proofs --------------------------
(***************************************************************************)
(* Proofs about MambaAlignV2 for every block size, every number of drafts  *)
(* smaller than a block and requests of any length: every forward pass     *)
(* starts from the right state, and cached blocks are exact.               *)
(***************************************************************************)
EXTENDS MambaAlignV2, MambaStateProofs

\* In each phase the blocks are as MambaStateProofs describes them for the slots
\* of the second runner.
IInv ==
  /\ WorldType /\ CacheInv
  /\ stateIdx \in Int
  /\ phase = "absent" => published = {}
  /\ phase = "waiting" => Ready(stateIdx, numAccepted)
  /\ phase = "scheduled" => Ready(stateIdx, numAccepted) /\ Plan
  /\ phase = "precopy" => srcCol \in Int /\ Moving(srcCol, srcOff, stateIdx, numAccepted)
  /\ phase = "forward" => Started(stateIdx, numAccepted)
  /\ phase = "postprocess" =>
       /\ Absorbed(stateIdx, numAccepted)
       /\ TemporalStates(stateIdx, numAccepted) /\ ConvStates(stateIdx, numAccepted)
  /\ phase = "saving" => Saving(stateIdx, snapshot, numAccepted)

LEMMA InitIInv == Init => IInv
<1>. SUFFICES ASSUME Init PROVE IInv
  OBVIOUS
<1>1. EmptyRow \in [Cols -> Block]
  BY EmptyBlockFacts DEF EmptyRow
<1>. QED  BY <1>1, LastColType DEF Init, WorldInit, IInv, WorldType, CacheInv, Phases, EmptyRow

LEMMA AdmitIInv ==
  ASSUME IInv, NEW tokens \in 1 .. MaxTokens, NEW hit \in 0 .. LastCol + 1, Admit(tokens, hit)
  PROVE  IInv'
<1>1. PICK col : col = SeedColumn(hit * BlockSize) /\ col = stateIdx' /\ numAccepted' = 1
                 /\ Admitted(tokens, hit)
  BY DEF Admit
<1>2. WorldType' /\ CacheInv' /\ phase' = "waiting" /\ Ready(col, 1)'
  BY <1>1, AdmittedReady DEF IInv
<1>3. Ready(stateIdx, numAccepted)'
  BY <1>1, <1>2 DEF Ready, StateAt
<1>4. stateIdx' \in Int
  BY <1>1, SeedOf, LastColType
<1>. QED  BY <1>2, <1>3, <1>4 DEF IInv

LEMMA ScheduleIInv ==
  ASSUME IInv, NEW end \in 1 .. MaxTokens, NEW nDrafts \in Offsets, Schedule(end, nDrafts)
  PROVE  IInv'
<1>1. /\ Scheduled(end, nDrafts) /\ phase = "waiting"
      /\ UNCHANGED <<stateIdx, numAccepted, srcCol, srcOff, snapshot>>
  BY DEF Schedule, Scheduled, v2Vars
<1>2. PICK col, a : col = stateIdx /\ a = numAccepted
  OBVIOUS
<1>3. WorldType' /\ CacheInv' /\ phase' = "scheduled" /\ Ready(col, a)' /\ Plan'
  BY <1>1, <1>2, ScheduledReady DEF IInv
<1>4. Ready(stateIdx, numAccepted)'
  BY <1>1, <1>2, <1>3 DEF Ready, StateAt
<1>. QED  BY <1>1, <1>3, <1>4 DEF IInv

LEMMA PreprocessIInv ==
  ASSUME IInv, Preprocess
  PROVE  IInv'
<1>1. /\ phase = "scheduled" /\ phase' = "precopy" /\ todo' = States
      /\ UNCHANGED <<known, computed, scheduled, drafts, row, rowLength, published, cache>>
      /\ srcCol' = stateIdx /\ stateIdx' = RunningColumn
      /\ srcOff' = IF numAccepted > 1 THEN numAccepted - 1 ELSE 0
      /\ numAccepted' = IF stateIdx >= 0 /\ stateIdx # RunningColumn THEN 1 ELSE numAccepted
  BY DEF Preprocess
<1>2. Ready(stateIdx, numAccepted) /\ Plan /\ WorldType /\ stateIdx \in Int /\ CacheInv
  BY <1>1 DEF IInv
<1>3. numAccepted \in 1 .. NumSpec + 1
  BY <1>2, MambaAssumption DEF Ready, StateAt, WorldType
<1>4. PICK src, off, dst, b : /\ src = srcCol' /\ off = srcOff' /\ dst = stateIdx' /\ b = numAccepted'
                              /\ src \in Int
  BY <1>1, <1>2
<1>5. off = numAccepted - 1
  BY <1>1, <1>3, <1>4, MambaAssumption
<1>6. WorldType' /\ Moving(src, off, dst, b)'
  BY <1>1, <1>2, <1>4, <1>5, StepBegins
<1>7. Moving(srcCol, srcOff, stateIdx, numAccepted)'
  BY <1>4, <1>6 DEF Moving, Running, StateAt, NothingAhead
<1>8. stateIdx' \in Int
  BY <1>1, <1>2, PlanColumns DEF Ready
<1>. QED  BY <1>1, <1>2, <1>4, <1>6, <1>7, <1>8 DEF IInv, CacheInv

LEMMA PrecopyIInv ==
  ASSUME IInv, NEW state \in States, Precopy(state)
  PROVE  IInv'
<1>1. /\ phase = "precopy" /\ state \in todo /\ todo' = todo \ {state}
      /\ IF srcCol < 0 \/ srcCol = stateIdx THEN UNCHANGED row
         ELSE GuardedCopy(state, srcCol, stateIdx, srcOff)
      /\ phase' = IF todo' = {} THEN "forward" ELSE phase
      /\ UNCHANGED <<known, computed, scheduled, drafts, rowLength, published, cache,
                     stateIdx, numAccepted, srcCol, srcOff, snapshot>>
  BY DEF Precopy, v2Vars
<1>2. PICK src, off, col, a : /\ src = srcCol /\ off = srcOff /\ col = stateIdx /\ a = numAccepted
                              /\ src \in Int
  BY <1>1 DEF IInv
<1>3. WorldType' /\ Moving(src, off, col, a)' /\ (todo' = {} => Started(col, a)')
  BY <1>1, <1>2, PrecopyMoves DEF IInv, Phases
<1>4. Moving(srcCol, srcOff, stateIdx, numAccepted)'
  BY <1>1, <1>2, <1>3 DEF Moving, Running, StateAt, NothingAhead
<1>5. todo' = {} => Started(stateIdx, numAccepted)'
  BY <1>1, <1>2, <1>3 DEF Started, Running, StateAt, NothingAhead
<1>. QED  BY <1>1, <1>2, <1>3, <1>4, <1>5 DEF IInv, CacheInv

LEMMA ForwardIInv ==
  ASSUME IInv, NEW n \in 1 .. NumSpec + 1, Forward(n)
  PROVE  IInv'
<1>1. /\ ForwardPass(stateIdx, numAccepted, n) /\ phase = "forward" /\ numAccepted' = n
      /\ UNCHANGED <<stateIdx, srcCol, srcOff, snapshot, cache>>
  BY DEF Forward, ForwardPass
<1>2. PICK col, a : col = stateIdx /\ a = numAccepted
  OBVIOUS
<1>3. /\ WorldType' /\ phase' = "postprocess"
      /\ Absorbed(col, n)' /\ TemporalStates(col, n)' /\ ConvStates(col, n)'
  BY <1>1, <1>2, ForwardAbsorbs DEF IInv
<1>4. Absorbed(stateIdx, numAccepted)'
  BY <1>1, <1>2, <1>3 DEF Absorbed, RunningTokensOf
<1>5. TemporalStates(stateIdx, numAccepted)' /\ ConvStates(stateIdx, numAccepted)'
  BY <1>1, <1>2, <1>3 DEF TemporalStates, ConvStates, RunningTokensOf
<1>. QED  BY <1>1, <1>3, <1>4, <1>5 DEF IInv, CacheInv

LEMMA TakeSnapshotIInv ==
  ASSUME IInv, TakeSnapshot
  PROVE  IInv'
<1>1. /\ phase = "postprocess" /\ phase' = "saving" /\ todo' = States /\ snapshot' = numAccepted
      /\ UNCHANGED <<known, computed, scheduled, drafts, row, rowLength, published, cache,
                     stateIdx, numAccepted>>
  BY DEF TakeSnapshot
<1>2. PICK col, a : col = stateIdx /\ a = numAccepted
  OBVIOUS
<1>3. WorldType' /\ Saving(col, a, a)'
  BY <1>1, <1>2, SavingBegins DEF IInv
<1>4. Saving(stateIdx, snapshot, numAccepted)'
  BY <1>1, <1>2, <1>3 DEF Saving, Absorbed, TemporalStates, ConvStates, RunningTokensOf,
     CountAfter, Crossed
<1>. QED  BY <1>1, <1>3, <1>4 DEF IInv, CacheInv

LEMMA PostprocessIInv ==
  ASSUME IInv, NEW state \in States, Postprocess(state)
  PROVE  IInv'
<1>1. /\ phase = "saving" /\ state \in todo /\ todo' = todo \ {state}
      /\ UNCHANGED <<phase, known, computed, scheduled, drafts, rowLength, published, cache,
                     stateIdx, snapshot>>
  BY DEF Postprocess
<1>2. PICK col, a, count, count2 :
        col = stateIdx /\ a = snapshot /\ count = numAccepted /\ count2 = numAccepted'
  OBVIOUS
<1>3. IF Crossed(a)
      THEN /\ count2 = IF col = Dest /\ state = FirstState THEN 1 ELSE count
           /\ IF col = Dest /\ Bias(RunningTokensOf(a), computed) = 0
              THEN UNCHANGED row
              ELSE GuardedCopy(state, col, Dest, Bias(RunningTokensOf(a), computed))
      ELSE UNCHANGED row /\ count2 = count
  BY <1>2 DEF Postprocess, AcceptedRead, Crossed, Dest, RunningTokensOf
<1>4. WorldType' /\ Saving(col, a, count2)'
  BY <1>1, <1>2, <1>3, SavingGoesOn DEF IInv
<1>5. Saving(stateIdx, snapshot, numAccepted)'
  BY <1>1, <1>2, <1>4 DEF Saving, Absorbed, TemporalStates, ConvStates, RunningTokensOf,
     CountAfter, Crossed
<1>. QED  BY <1>1, <1>4, <1>5 DEF IInv, CacheInv

LEMMA EndStepIInv ==
  ASSUME IInv, EndStep
  PROVE  IInv'
<1>1. /\ phase = "saving" /\ todo = {} /\ phase' = "waiting" /\ Publish
      /\ UNCHANGED <<known, computed, scheduled, drafts, row, rowLength, todo,
                     stateIdx, numAccepted, srcCol, srcOff, snapshot>>
  BY DEF EndStep, v2Vars
<1>2. PICK col, a, count : col = stateIdx /\ a = snapshot /\ count = numAccepted
  OBVIOUS
<1>3. WorldType' /\ CacheInv' /\ Ready(col, count)'
  BY <1>1, <1>2, StepEnds DEF IInv
<1>4. Ready(stateIdx, numAccepted)'
  BY <1>1, <1>2, <1>3 DEF Ready, StateAt
<1>. QED  BY <1>1, <1>3, <1>4 DEF IInv

LEMMA LeaveIInv ==
  ASSUME IInv, Leave
  PROVE  IInv'
<1>1. Left /\ stateIdx' = stateIdx
  BY DEF Leave, v2Vars
<1>2. WorldType' /\ CacheInv' /\ phase' = "absent" /\ published' = {}
  BY <1>1, LeftGone DEF IInv
<1>. QED  BY <1>1, <1>2 DEF IInv

LEMMA EvictIInv ==
  ASSUME IInv, NEW c \in Cols, Evict(c)
  PROVE  IInv'
<1>1. /\ Evicted(c)
      /\ UNCHANGED <<phase, known, computed, scheduled, drafts, row, rowLength, published, todo,
                     stateIdx, numAccepted, srcCol, srcOff, snapshot>>
  BY DEF Evict, Evicted, v2Vars
<1>2. WorldType' /\ CacheInv'
  BY <1>1, EvictedCache DEF IInv
<1>. QED  BY <1>1, <1>2 DEF IInv, Ready, StateAt, SharedWithin, BehindShared, NothingAhead, Plan,
     Moving, Running, RunningColumn, HasBlock, Started, Absorbed, RunningTokensOf,
     TemporalStates, ConvStates, Saving, CountAfter, Crossed, Dest

LEMMA NextIInv ==
  ASSUME IInv, [Next]_vars
  PROVE  IInv'
<1>1. CASE UNCHANGED vars
  BY <1>1 DEF vars, worldVars, v2Vars, IInv, WorldType, CacheInv, Ready, StateAt, SharedWithin,
     BehindShared, NothingAhead, Plan, Moving, Running, RunningColumn, HasBlock, Started,
     Absorbed, RunningTokensOf, TemporalStates, ConvStates, Saving, CountAfter, Crossed, Dest
<1>. QED  BY <1>1, AdmitIInv, ScheduleIInv, PreprocessIInv, PrecopyIInv, ForwardIInv,
     TakeSnapshotIInv, PostprocessIInv, EndStepIInv, LeaveIInv, EvictIInv DEF Next

\* The invariant holds in every state of the second runner.
THEOREM Invariance == Spec => []IInv
BY InitIInv, NextIInv, PTL DEF Spec

\* Whatever was accepted, saved, moved, hit or resumed before, the forward pass
\* starts from the state after exactly the computed tokens.
THEOREM RightState == Spec => []StartsFromComputed
<1>1. IInv => StartsFromComputed
  BY MambaAssumption DEF IInv, WorldType, Started, StateAt, StartsFromComputed, InitialTemporal,
     InitialConv, TemporalAt, Offsets
<1>. QED  BY Invariance, <1>1, PTL

\* What the prefix cache hands out, and what a running request shares with it,
\* is the state at the block's own boundary.
THEOREM ExactCache == Spec => []CacheExact
<1>1. IInv => CacheExact
  BY DEF IInv, WorldType, Phases, CacheInv, CacheExact, Ready, SharedWithin, Moving, Started,
     Running, Absorbed, Saving
<1>. QED  BY Invariance, <1>1, PTL

\* The guard in _copy_mamba_state_block stops neither a copy precopy decided on nor
\* one the postprocess decided on, and no copy reads a column without a state.
THEOREM GuardIdle == Spec => []GuardNeverHit
<1>1. ASSUME IInv, phase = "precopy", srcCol >= 0, srcCol # stateIdx
      PROVE  CopyInRow(srcCol, stateIdx, srcOff)
  <2>1. computed \in Nat /\ computed # 0 /\ Moving(srcCol, srcOff, stateIdx, numAccepted)
    BY <1>1 DEF IInv, WorldType, Moving
  <2>. QED  BY <1>1, <2>1 DEF Moving, Empty, CopyInRow
<1>2. ASSUME IInv, phase = "saving"
      PROVE  SaveInRow(stateIdx, computed - AcceptedRead + 1, computed)
  <2>1. SaveInRow(stateIdx, RunningTokensOf(snapshot), computed)
    BY <1>2, SavesFound DEF IInv
  <2>. QED  BY <2>1 DEF RunningTokensOf, AcceptedRead
<1>3. IInv => GuardNeverHit
  BY <1>1, <1>2 DEF GuardNeverHit
<1>. QED  BY Invariance, <1>3, PTL

===============================================================================
