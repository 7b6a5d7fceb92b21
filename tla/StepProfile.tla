---------------------------- MODULE StepProfile ----------------------------
(***************************************************************************)
(* Engine steps with what the patches hang on them: the capture window of  *)
(* patch_step_profile.py around execute_model, and inside it the launch    *)
(* and telemetry of the copy guard (GuardTelemetry).                       *)
(*                                                                         *)
(* An exception that leaves execute_model ends the engine; the container   *)
(* starts it again with fresh state, and only the files in /tmp stay.      *)
(***************************************************************************)
EXTENDS GuardTelemetry

CONSTANTS
  Steps,       \* VLLM_STEP_PROFILE_STEPS, 24 by default
  MaxTouches,  \* bound on the touches of the trigger file
  MaxErrors    \* bound on the steps that raise by themselves

ASSUME ProfileAssumption ==
  Steps \in Nat \ {0} /\ {MaxTouches, MaxErrors} \subseteq Nat

VARIABLES
  phase,    \* "idle" between steps, "ran" when execute_model has run
  trigger,  \* /tmp/profile_trigger exists
  prof,     \* st["prof"] is set
  steps,    \* st["steps"]
  n,        \* st["n"]
  traces,   \* the traces written: /tmp/step_profile_<n>.json with its length
  touches, errors,
  window,   \* history: steps of the capture under way
  failed,   \* history: traces that could not be written
  stuck     \* history: the trigger could not be removed once

profVars == <<phase, trigger, prof, steps, n, traces, touches, errors, window, failed, stuck>>
allVars == <<vars, profVars>>

PInit ==
  /\ Init
  /\ phase = "idle"
  /\ trigger = FALSE
  /\ prof = FALSE
  /\ steps = 0 /\ n = 0
  /\ traces = {}
  /\ touches = 0 /\ errors = 0
  /\ window = 0 /\ failed = 0
  /\ stuck = FALSE

\* touch /tmp/profile_trigger
TouchTrigger ==
  /\ touches < MaxTouches
  /\ touches' = touches + 1
  /\ trigger' = TRUE
  /\ UNCHANGED <<vars, phase, prof, steps, n, traces, errors, window, failed, stuck>>

\* The trigger is left for the step that writes the trace to remove.
StartCapture_TriggerStays ==
  /\ prof' = TRUE
  /\ steps' = 0
  /\ UNCHANGED <<trigger, stuck>>

\* The count goes on from the capture before.
StartCapture_KeepsCount ==
  /\ \/ trigger' = FALSE /\ UNCHANGED stuck
     \/ ~stuck /\ trigger' = TRUE /\ stuck' = TRUE
  /\ prof' = TRUE
  /\ UNCHANGED steps

\* The trigger is removed before anything that can fail, and the profiler is
\* entered.  That the trigger cannot be removed is let happen once.
StartCapture ==
  /\ \/ trigger' = FALSE /\ UNCHANGED stuck
     \/ ~stuck /\ trigger' = TRUE /\ stuck' = TRUE
  /\ prof' = TRUE
  /\ steps' = 0

\* window is counted up to one past the steps asked for.
Lengthened == IF prof /\ window <= Steps THEN window + 1 ELSE window

\* The count starts over with every step.
BeginStep_ResetsCount ==
  /\ phase = "idle"
  /\ IF ~prof /\ trigger
     THEN StartCapture /\ window' = 1
     ELSE /\ UNCHANGED <<trigger, prof, stuck>>
          /\ steps' = 0
          /\ window' = Lengthened
  /\ RunFusedPrecopy
  /\ phase' = "ran"
  /\ UNCHANGED <<n, traces, touches, errors, failed>>

\* A step begins and execute_model runs.
BeginStep ==
  /\ phase = "idle"
  /\ IF ~prof /\ trigger
     THEN StartCapture /\ window' = 1
     ELSE /\ UNCHANGED <<trigger, prof, steps, stuck>>
          /\ window' = Lengthened
  /\ RunFusedPrecopy
  /\ phase' = "ran"
  /\ UNCHANGED <<n, traces, touches, errors, failed>>

\* The engine dies and is started again: what it kept in memory is gone.
Restart ==
  /\ phase' = "idle"
  /\ prof' = FALSE
  /\ steps' = 0 /\ n' = 0 /\ window' = 0
  /\ step' = 0 /\ hits' = 0 /\ mirror' = 0 /\ reported' = 0
  /\ stream' = << >>
  /\ UNCHANGED <<trigger, traces, touches, stuck>>

StepRaises ==
  /\ phase = "ran"
  /\ errors < MaxErrors
  /\ errors' = errors + 1
  /\ Restart
  /\ UNCHANGED failed

LastOfWindow == prof /\ steps + 1 >= Steps

EndStep ==
  /\ phase = "ran" /\ ~LastOfWindow
  /\ steps' = IF prof THEN steps + 1 ELSE steps
  /\ phase' = "idle"
  /\ UNCHANGED <<vars, trigger, prof, n, traces, touches, errors, window, failed, stuck>>

\* The window is complete: the trace is written, over one of the same number
\* that an earlier engine left.
WriteTrace ==
  /\ phase = "ran" /\ LastOfWindow
  /\ steps' = steps + 1
  /\ n' = n + 1
  /\ traces' = {t \in traces : t.n # n + 1} \union {[n |-> n + 1, length |-> window]}
  /\ prof' = FALSE
  /\ window' = 0
  /\ phase' = "idle"
  /\ UNCHANGED <<vars, trigger, touches, errors, failed, stuck>>

\* export_chrome_trace raises.  Past the number of touches failures are counted
\* no further.
WriteFails ==
  /\ phase = "ran" /\ LastOfWindow
  /\ failed' = IF failed > MaxTouches THEN failed ELSE failed + 1
  /\ Restart
  /\ UNCHANGED errors

PNext ==
  \/ TouchTrigger
  \/ BeginStep \/ EndStep \/ StepRaises
  \/ WriteTrace \/ WriteFails
  \/ Device /\ UNCHANGED profVars

\* Requests keep coming, a step that began ends in some way, and the device
\* keeps up.
PSpec ==
  /\ PInit /\ [][PNext]_allVars
  /\ WF_allVars(BeginStep)
  /\ WF_allVars(EndStep \/ WriteTrace \/ WriteFails \/ StepRaises)
  /\ WF_allVars(Device /\ UNCHANGED profVars)

----------------------------------------------------------------------------

\* A trace that was written covers exactly the steps asked for, whatever
\* captures, failures and restarts came before it.
TraceCoversWindow == \A t \in traces : t.length = Steps

\* A trace that cannot be written costs the one restart its trigger asked for: the
\* engine started again does not begin the same capture, unless the trigger
\* itself could not be removed.
OneFailurePerTrigger == stuck \/ failed <= touches

\* Every touch leads to a capture and every capture ends, also one that finds
\* the disk full.
CapturesComeAndEnd ==
  /\ trigger ~> prof
  /\ prof ~> ~prof

\* Every hit of the guard is reported while requests keep coming, however late
\* the refreshes execute and although no report waits for one; only a restart
\* forgets hits.
EveryHitReported == \A k \in 1 .. MaxHits : hits >= k ~> reported >= k \/ hits < k
=============================================================================
