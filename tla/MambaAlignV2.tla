---------------------------- MODULE MambaAlignV2 ----------------------------
(***************************************************************************)
(* Align mode in the V2 model runner: every decision is made on the GPU    *)
(* from per-request slots, with no synchronisation.  A launch of the copy  *)
(* kernel runs one program per state tensor, in any order.                 *)
(***************************************************************************)
EXTENDS MambaState

VARIABLES
  stateIdx,     \* mamba_state_idx: the running column, -1 when there is none
  numAccepted,  \* num_accepted_tokens
  srcCol,       \* precopy source column
  srcOff,       \* precopy source offset
  snapshot      \* accepted counts as the postprocess kernel reads them

v2Vars == <<stateIdx, numAccepted, srcCol, srcOff, snapshot>>
vars == <<worldVars, v2Vars>>

Init ==
  /\ WorldInit
  /\ stateIdx = -1
  /\ numAccepted = 1
  /\ srcCol = -1
  /\ srcOff = 0
  /\ snapshot = 1

Admit(tokens, hit) ==
  /\ Admitted(tokens, hit)
  /\ stateIdx' = SeedColumn(hit * BlockSize)
  /\ numAccepted' = 1
  /\ UNCHANGED <<srcCol, srcOff, snapshot>>

Schedule(end, nDrafts) == Scheduled(end, nDrafts) /\ UNCHANGED v2Vars

\* preprocess_mamba_align_fused_kernel: note where the state is, advance to
\* the new running column, and count from its start when it is another one.
Preprocess ==
  /\ phase = "scheduled"
  /\ phase' = "precopy"
  /\ srcCol' = stateIdx
  /\ srcOff' = IF numAccepted > 1 THEN numAccepted - 1 ELSE 0
  /\ stateIdx' = RunningColumn
  /\ numAccepted' = IF stateIdx >= 0 /\ stateIdx # RunningColumn THEN 1 ELSE numAccepted
  /\ todo' = States
  /\ UNCHANGED <<known, computed, scheduled, drafts, row, rowLength, published, cache, snapshot>>

\* precopy_mamba_align_fused_kernel, the program of one state tensor.
Precopy(state) ==
  /\ phase = "precopy"
  /\ state \in todo
  /\ IF srcCol < 0 \/ srcCol = stateIdx
     THEN UNCHANGED row
     ELSE GuardedCopy(state, srcCol, stateIdx, srcOff)
  /\ todo' = todo \ {state}
  /\ phase' = IF todo' = {} THEN "forward" ELSE phase
  /\ UNCHANGED <<known, computed, scheduled, drafts, rowLength, published, cache, v2Vars>>

Forward(newAccepted) ==
  /\ ForwardPass(stateIdx, numAccepted, newAccepted)
  /\ numAccepted' = newAccepted
  /\ UNCHANGED <<stateIdx, srcCol, srcOff, snapshot>>

\* run_fused_postprocess_align before the launch: the kernel will update the
\* counts in place, so its programs read a copy.
TakeSnapshot ==
  /\ phase = "postprocess"
  /\ phase' = "saving"
  /\ snapshot' = numAccepted
  /\ todo' = States
  /\ UNCHANGED <<known, computed, scheduled, drafts, row, rowLength, published, cache,
                 stateIdx, numAccepted, srcCol, srcOff>>

\* The accepted count the programs read while one of them resets it.
AcceptedRead_Live == numAccepted

\* The accepted count as it was when the kernel was launched.
AcceptedRead == snapshot

\* postprocess_mamba_fused_kernel, the program of one state tensor: if the
\* accepted tokens reached a block boundary, save the state at the boundary in
\* the boundary's own column.
Postprocess(state) ==
  LET running == computed - AcceptedRead + 1
      bias == Bias(running, computed)
      dest == DestColumn(computed)
  IN  /\ phase = "saving"
      /\ state \in todo
      /\ IF NeedsCopy(running, computed)
         THEN /\ numAccepted' = IF stateIdx = dest /\ state = FirstState
                                THEN 1 ELSE numAccepted
              /\ IF stateIdx = dest /\ bias = 0
                 THEN UNCHANGED row
                 ELSE GuardedCopy(state, stateIdx, dest, bias)
         ELSE UNCHANGED <<row, numAccepted>>
      /\ todo' = todo \ {state}
      /\ UNCHANGED <<phase, known, computed, scheduled, drafts, rowLength, published, cache,
                     stateIdx, srcCol, srcOff, snapshot>>

EndStep ==
  /\ phase = "saving"
  /\ todo = {}
  /\ phase' = "waiting"
  /\ Publish
  /\ UNCHANGED <<known, computed, scheduled, drafts, row, rowLength, todo, v2Vars>>

Leave == Left /\ UNCHANGED v2Vars

Evict(c) == Evicted(c) /\ UNCHANGED v2Vars

Next ==
  \/ \E tokens \in 1 .. MaxTokens, hit \in 0 .. LastCol + 1 : Admit(tokens, hit)
  \/ \E end \in 1 .. MaxTokens, nDrafts \in Offsets : Schedule(end, nDrafts)
  \/ Preprocess
  \/ \E state \in States : Precopy(state)
  \/ \E newAccepted \in 1 .. NumSpec + 1 : Forward(newAccepted)
  \/ TakeSnapshot
  \/ \E state \in States : Postprocess(state)
  \/ EndStep
  \/ Leave
  \/ \E c \in Cols : Evict(c)

Spec == Init /\ [][Next]_vars

----------------------------------------------------------------------------

\* The forward pass always starts from the state after exactly the computed
\* tokens, whatever was accepted, saved, moved, hit or resumed before.
StartsFromComputed ==
  phase = "forward" /\ computed > 0 =>
    /\ InitialTemporal(stateIdx, numAccepted) = computed
    /\ InitialConv(stateIdx, numAccepted) = computed

\* A block the prefix cache hands out holds the state at its own boundary, and so
\* does, for as long as the request runs, each block it shares with the cache: no
\* later step of the request writes into one.
CacheExact ==
  \A c \in Cols :
    /\ cache[c] # EmptyBlock => HoldsBoundary(cache[c], c)
    /\ c \in published => HoldsBoundary(row[c], c)

\* The guard is a tripwire: no copy the runner decides on needs it, neither the
\* one that moves the state before the forward pass nor the one that saves it
\* after, and none reads a column that never held a state.
GuardNeverHit ==
  /\ phase = "precopy" /\ srcCol >= 0 /\ srcCol # stateIdx => CopyInRow(srcCol, stateIdx, srcOff)
  /\ phase = "saving" => SaveInRow(stateIdx, computed - AcceptedRead + 1, computed)

=============================================================================
