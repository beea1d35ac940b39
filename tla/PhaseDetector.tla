----------------------------- MODULE PhaseDetector -----------------------------
(***************************************************************************)
(* phase.c: from the IPC of one --interval sample after the other, is the  *)
(* workload warming up, steady, or degraded?  An operator per function; the *)
(* detector's state is a record.                                           *)
(*                                                                         *)
(* The numbers are abstracted to what the code's comparisons tell apart: a *)
(* sample that fills the warmup window leaves it settled or not, a later   *)
(* one lies below the degraded threshold, above the recovery threshold, or *)
(* between them.  As the baseline moves and the workload does as it likes, *)
(* any verdict can follow any other.                                       *)
(***************************************************************************)
EXTENDS Integers, Sequences

WarmupWindow == 3     \* PHASE_WARMUP_WINDOW
PersistSamples == 2   \* PHASE_PERSIST_SAMPLES

Phases == {"warmup", "steady", "degraded"}

Detector == [phase : Phases, window : 0..WarmupWindow, candidate : Phases, streak : 0..PersistSamples - 1]

DetectorInit == [phase |-> "warmup", window |-> 0, candidate |-> "warmup", streak |-> 0]

\* What a usable sample can be to a detector in this phase.
Verdicts(phase) == IF phase = "warmup" THEN {"settled", "unsettled"} ELSE {"low", "between", "high"}

Target(phase, verdict) ==
  CASE phase = "steady" /\ verdict = "low" -> "degraded"
    [] phase = "degraded" /\ verdict = "high" -> "steady"
    [] OTHER -> phase

Commit(pd, to) == [pd EXCEPT !.phase = to, !.streak = 0, !.candidate = to]

\* slip: a sample that is no candidate leaves the streak alone
KeepStreak(pd) == pd
\* A sample that asks for no change ends the streak.
EndStreak(pd) == [pd EXCEPT !.streak = 0, !.candidate = pd.phase]

Warm(pd, verdict) ==
  LET filled == [pd EXCEPT !.window = IF @ < WarmupWindow THEN @ + 1 ELSE @]
  IN IF filled.window = WarmupWindow /\ verdict = "settled" THEN Commit(filled, "steady") ELSE filled

Persist(pd, target) ==
  LET streak == IF pd.candidate = target THEN pd.streak + 1 ELSE 1
  IN IF streak >= PersistSamples
       THEN Commit(pd, target)
       ELSE [pd EXCEPT !.candidate = target, !.streak = streak]

\* phase_detector_update() for a usable sample; one without a usable IPC
\* returns before it touches anything.
DetectorUpdate(pd, verdict) ==
  LET target == Target(pd.phase, verdict)
  IN CASE pd.phase = "warmup" -> Warm(pd, verdict)
       [] pd.phase # "warmup" /\ target # pd.phase -> Persist(pd, target)
       [] OTHER -> EndStreak(pd)
=============================================================================
