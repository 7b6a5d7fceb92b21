--------------------------- MODULE GuardTelemetry ---------------------------
(***************************************************************************)
(* How hits of the copy guard reach the log: run_fused_precopy in          *)
(* src/mamba_utils_guarded.py.  Kernels count hits on the device, which    *)
(* runs behind the CPU; every Period steps the CPU reports what the last   *)
(* refresh brought and issues the next one, without ever waiting.          *)
(***************************************************************************)
EXTENDS Integers, Sequences

CONSTANTS
  Period,     \* steps between refreshes, 512 in the code
  MaxAhead,   \* launches the CPU may be ahead of the device
  MaxHits     \* bound on the hits counted

ASSUME BoundsAssumption == {Period, MaxAhead, MaxHits} \subseteq Nat \ {0}

VARIABLES
  step,       \* guard_step, modulo Period
  hits,       \* guard_hits, on the device
  mirror,     \* guard_hits_cpu, pinned
  reported,   \* guard_reported: the hits the last report spoke of
  stream      \* launches not executed yet

vars == <<step, hits, mirror, reported, stream>>

Init ==
  /\ step = 0
  /\ hits = 0
  /\ mirror = 0
  /\ reported = 0
  /\ stream = << >>

\* A report is due if the mirror has grown.
News_FirstOnly(seen, before) == seen > 0 /\ before = 0
News(seen, before) == seen > before

RunFusedPrecopy ==
  /\ Len(stream) < MaxAhead
  /\ step' = (step + 1) % Period
  /\ IF step' = 0
     THEN /\ reported' = IF News(mirror, reported) THEN mirror ELSE reported
          /\ stream' = stream \o <<"kernel", "refresh">>
     ELSE /\ stream' = Append(stream, "kernel")
          /\ UNCHANGED reported
  /\ UNCHANGED <<hits, mirror>>

\* A kernel meets out-of-range block ids or, normally, does not.
Kernel ==
  /\ stream # << >> /\ Head(stream) = "kernel"
  /\ \E h \in 0 .. MaxHits : hits + h <= MaxHits /\ hits' = hits + h
  /\ stream' = Tail(stream)
  /\ UNCHANGED <<step, mirror, reported>>

Refresh ==
  /\ stream # << >> /\ Head(stream) = "refresh"
  /\ mirror' = hits
  /\ stream' = Tail(stream)
  /\ UNCHANGED <<step, hits, reported>>

Device == Kernel \/ Refresh
===============================================================================
