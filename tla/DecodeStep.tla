----------------------------- MODULE DecodeStep -----------------------------
(***************************************************************************)
(* A decode step makes two choices this repository changes: which KV       *)
(* blocks attention reads (QsaTopK) and which tokens the drafter may       *)
(* propose (DraftHead).  The tools run first, then steps for ever.         *)
(***************************************************************************)
EXTENDS QsaTopK, DraftHead

VARIABLE stage  \* what the step does next

stepVars == <<qsaVars, draftVars, stage>>

StepInit == QsaInit /\ DraftInit /\ stage = "prepare"

Prepare ==
  /\ stage = "prepare"
  /\ BuildDraftVocab \/ QuantizeLmHead
  /\ UNCHANGED <<qsaVars, stage>>

\* The server starts, with the draft head its environment asks for.  The hook is
\* installed if either variable is set, int4 or not.
Serve ==
  /\ stage = "prepare" /\ head # NoFile
  /\ int4' \in BOOLEAN
  /\ stage' = "score"
  /\ UNCHANGED <<qsaVars, idsFile, weights, head, dvState, draft, raised, request>>

Score ==
  /\ stage = "score" /\ ScoreBlocks
  /\ stage' = "select"
  /\ UNCHANGED draftVars

Select ==
  /\ stage = "select" /\ SelectBlocks
  /\ stage' = "draft"
  /\ UNCHANGED draftVars

Draft ==
  /\ stage = "draft" /\ ComputeLogits
  /\ stage' = IF raised' THEN "raised" ELSE "score"
  /\ UNCHANGED qsaVars

StepNext == Prepare \/ Serve \/ Score \/ Select \/ Draft

StepSpec == StepInit /\ [][StepNext]_stepVars

----------------------------------------------------------------------------

\* In every batch the row attends to its best visible blocks, whatever the memory
\* held that the scoring kernel did not write, whichever of tied blocks torch.topk
\* takes and in whatever order it lists those above the tie.
AttendsBestBlocks == stage = "draft" => BestBlocks
=============================================================================
