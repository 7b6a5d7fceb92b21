---------------------------- MODULE MambaAlignV1 ----------------------------
(***************************************************************************)
(* Align mode in the V1 model runner: preprocess_mamba decides on the CPU  *)
(* from a dictionary of running columns, stages its decision and launches  *)
(* the copy; the postprocess kernel decides on the GPU from staged counts, *)
(* and its accepted counts come back to the CPU for the next step.         *)
(***************************************************************************)
EXTENDS MambaState

VARIABLES
  entry,        \* mamba_state_idx[req_id]; None when the request has no entry
  notices,      \* how the scheduler output names the request: finished, ...
  acceptedCpu,  \* num_accepted_tokens_cpu
  srcCol,       \* staged precopy source column, -1 for no copy
  tokenBias,    \* staged accepted-token bias
  staged,       \* staged postprocess inputs
  acceptedGpu,  \* accepted counts of the sampler
  acceptedOut   \* num_accepted_tokens_out

None == -2

v1Vars == <<entry, notices, acceptedCpu, srcCol, tokenBias, staged, acceptedGpu,
            acceptedOut>>
vars == <<worldVars, v1Vars>>

NothingStaged == [stateIdx |-> -1, scheduled |-> 0, computed |-> 0, draft |-> 0]

Init ==
  /\ WorldInit
  /\ entry = None
  /\ notices = {}
  /\ acceptedCpu = 1
  /\ srcCol = -1
  /\ tokenBias = 0
  /\ staged = NothingStaged
  /\ acceptedGpu = 1
  /\ acceptedOut = 1

Admit(tokens, hit) ==
  /\ Admitted(tokens, hit)
  /\ acceptedCpu' = 1
  /\ notices' = IF known > 0 THEN notices \union {"resumed"} ELSE notices
  /\ UNCHANGED <<entry, srcCol, tokenBias, staged, acceptedGpu, acceptedOut>>

Schedule(end, nDrafts) == Scheduled(end, nDrafts) /\ UNCHANGED v1Vars

\* Only requests reported finished or preempted lose their entry.
PopsEntry_NotResumed == notices \intersect {"finished", "preempted"} # {}

\* cleanup_mamba_state_idx: the entry of a finished, preempted or resumed
\* request is stale; a forced preemption shows only as a resumption.
PopsEntry == notices \intersect {"finished", "preempted", "resumed"} # {}

\* The column the request's state is in before the step.
PreviousColumn ==
  IF PopsEntry \/ entry = None THEN SeedColumn(computed) ELSE entry

\* stage_postprocess_inputs_to_gpu(): what the postprocess kernel will read.
StagedInputs ==
  [stateIdx |-> RunningColumn, scheduled |-> scheduled, computed |-> computed,
   draft |-> drafts]

\* preprocess_mamba, up to the launch of the pre-copy, and the staging of the
\* postprocess inputs for the same batch.
Preprocess ==
  LET moves == PreviousColumn # -1 /\ PreviousColumn # RunningColumn
  IN  /\ phase = "scheduled"
      /\ phase' = "precopy"
      /\ entry' = RunningColumn
      /\ notices' = {}
      /\ srcCol' = IF moves THEN PreviousColumn ELSE -1
      /\ tokenBias' = IF moves THEN acceptedCpu - 1 ELSE 0
      /\ acceptedCpu' = IF moves THEN 1 ELSE acceptedCpu
      /\ staged' = StagedInputs
      /\ todo' = States
      /\ UNCHANGED <<known, computed, scheduled, drafts, row, rowLength, published, cache,
                     acceptedGpu, acceptedOut>>

\* precopy_mamba_align_fused_kernel on the staged columns.
Precopy(state) ==
  /\ phase = "precopy"
  /\ state \in todo
  /\ IF srcCol < 0 \/ srcCol = staged.stateIdx
     THEN UNCHANGED row
     ELSE GuardedCopy(state, srcCol, staged.stateIdx, tokenBias)
  /\ todo' = todo \ {state}
  /\ phase' = IF todo' = {} THEN "forward" ELSE phase
  /\ UNCHANGED <<known, computed, scheduled, drafts, rowLength, published, cache, v1Vars>>

Forward(newAccepted) ==
  /\ ForwardPass(entry, acceptedCpu, newAccepted)
  /\ acceptedGpu' = newAccepted
  /\ UNCHANGED <<entry, notices, acceptedCpu, srcCol, tokenBias, staged, acceptedOut>>

\* run_fused_postprocess before the launch: counts are kept unless the kernel
\* resets them.
KeepCounts ==
  /\ phase = "postprocess"
  /\ phase' = "saving"
  /\ acceptedOut' = acceptedGpu
  /\ todo' = States
  /\ UNCHANGED <<known, computed, scheduled, drafts, row, rowLength, published, cache,
                 entry, notices, acceptedCpu, srcCol, tokenBias, staged, acceptedGpu>>

\* Drafts counted as running tokens.
RunningTokens_WithDrafts == staged.computed + staged.scheduled

\* The tokens the running state had absorbed before any draft.
RunningTokens == staged.computed + staged.scheduled - staged.draft

\* postprocess_mamba_fused_kernel, the program of one state tensor.
Postprocess(state) ==
  LET newComputed == RunningTokens + acceptedGpu - 1
      bias == Bias(RunningTokens, newComputed)
      dest == DestColumn(newComputed)
  IN  /\ phase = "saving"
      /\ state \in todo
      /\ IF NeedsCopy(RunningTokens, newComputed)
         THEN /\ acceptedOut' = IF staged.stateIdx = dest /\ state = FirstState
                                THEN 1 ELSE acceptedOut
              /\ IF staged.stateIdx = dest /\ bias = 0
                 THEN UNCHANGED row
                 ELSE GuardedCopy(state, staged.stateIdx, dest, bias)
         ELSE UNCHANGED <<row, acceptedOut>>
      /\ todo' = todo \ {state}
      /\ UNCHANGED <<phase, known, computed, scheduled, drafts, rowLength, published, cache,
                     entry, notices, acceptedCpu, srcCol, tokenBias, staged,
                     acceptedGpu>>

\* The counts the sampler gave go back to the CPU, resets lost.
CountsForCpu_Sampled == acceptedGpu

\* The counts copied back for the next step's preprocess.
CountsForCpu == acceptedOut

\* postprocess_mamba_align_gpu: the counts reach the CPU before the runner
\* prepares the next step.
EndStep ==
  /\ phase = "saving"
  /\ todo = {}
  /\ phase' = "waiting"
  /\ acceptedCpu' = CountsForCpu
  /\ Publish
  /\ UNCHANGED <<known, computed, scheduled, drafts, row, rowLength, todo, entry, notices,
                 srcCol, tokenBias, staged, acceptedGpu, acceptedOut>>

\* The request leaves: finished, preempted, or preempted by force, which the
\* scheduler output does not report.
Leave ==
  /\ Left
  /\ notices' \in IF known' = 0 THEN {{"finished"}} ELSE {{"preempted"}, {}}
  /\ UNCHANGED <<entry, acceptedCpu, srcCol, tokenBias, staged, acceptedGpu, acceptedOut>>

Evict(c) == Evicted(c) /\ UNCHANGED v1Vars

Next ==
  \/ \E tokens \in 1 .. MaxTokens, hit \in 0 .. LastCol + 1 : Admit(tokens, hit)
  \/ \E end \in 1 .. MaxTokens, nDrafts \in Offsets : Schedule(end, nDrafts)
  \/ Preprocess
  \/ \E state \in States : Precopy(state)
  \/ \E newAccepted \in 1 .. NumSpec + 1 : Forward(newAccepted)
  \/ KeepCounts
  \/ \E state \in States : Postprocess(state)
  \/ EndStep
  \/ Leave
  \/ \E c \in Cols : Evict(c)

Spec == Init /\ [][Next]_vars

----------------------------------------------------------------------------

\* The forward pass always starts from the state after exactly the computed
\* tokens, although the CPU decides from last step's counts.
StartsFromComputed ==
  phase = "forward" /\ computed > 0 =>
    /\ InitialTemporal(entry, acceptedCpu) = computed
    /\ InitialConv(entry, acceptedCpu) = computed

\* A block the prefix cache hands out holds the state at its own boundary, and so
\* does, for as long as the request runs, each block it shares with the cache: no
\* later step of the request writes into one.
CacheExact ==
  \A c \in Cols :
    /\ cache[c] # EmptyBlock => HoldsBoundary(cache[c], c)
    /\ c \in published => HoldsBoundary(row[c], c)

\* A stale entry may point beyond the row of a resumed request: no staged copy,
\* before the forward pass or after it, reads or writes a column without a block
\* or reads one without a state.
StagedCopyInRow ==
  /\ phase = "precopy" /\ srcCol >= 0 => CopyInRow(srcCol, staged.stateIdx, tokenBias)
  /\ phase = "saving" =>
       SaveInRow(staged.stateIdx, RunningTokens, RunningTokens + acceptedGpu - 1)

=============================================================================
