-------------------------------- MODULE Quota --------------------------------
(***************************************************************************)
(* The admission gate of la-scheduler (quota/mod.rs): which rail, if any,   *)
(* refuses a fire.  A quota is the part of the crons row the gate reads, a  *)
(* snapshot the counters it compares them with.  Load average and the       *)
(* backoff window are reduced to whether they are in force.                 *)
(***************************************************************************)
EXTENDS Naturals

CONSTANT GlobalMax   \* global_max_concurrent_runs, 0 disables the rail

ASSUME GlobalMaxAssumption == GlobalMax \in Nat

\* AdmissionDecision
Decisions == {"admit", "paused", "backoff", "global", "load", "concurrent",
              "per_day", "budget"}

\* AdmissionDecision::is_deferral
Deferrals == {"load", "backoff"}

\* Mutant: the per-cron rail admits one run too many.
MutEvaluateAdmission(quota, snap) ==
  IF ~quota.enabled THEN "paused"
  ELSE IF snap.backoff /\ quota.failures > 0 THEN "backoff"
  ELSE IF GlobalMax > 0 /\ snap.global >= GlobalMax THEN "global"
  ELSE IF snap.load THEN "load"
  ELSE IF snap.forCron > quota.maxConcurrent THEN "concurrent"
  ELSE IF snap.window >= quota.maxPerDay THEN "per_day"
  ELSE IF snap.cost >= quota.budget THEN "budget"
  ELSE "admit"

\* Mutant: the global rail is off by one.
MutGlobalRail(quota, snap) ==
  IF ~quota.enabled THEN "paused"
  ELSE IF snap.backoff /\ quota.failures > 0 THEN "backoff"
  ELSE IF GlobalMax > 0 /\ snap.global > GlobalMax THEN "global"
  ELSE IF snap.load THEN "load"
  ELSE IF snap.forCron >= quota.maxConcurrent THEN "concurrent"
  ELSE IF snap.window >= quota.maxPerDay THEN "per_day"
  ELSE IF snap.cost >= quota.budget THEN "budget"
  ELSE "admit"

\* evaluate_admission: the first rail that refuses, in the code's order.
EvaluateAdmission(quota, snap) ==
  IF ~quota.enabled THEN "paused"
  ELSE IF snap.backoff /\ quota.failures > 0 THEN "backoff"
  ELSE IF GlobalMax > 0 /\ snap.global >= GlobalMax THEN "global"
  ELSE IF snap.load THEN "load"
  ELSE IF snap.forCron >= quota.maxConcurrent THEN "concurrent"
  ELSE IF snap.window >= quota.maxPerDay THEN "per_day"
  ELSE IF snap.cost >= quota.budget THEN "budget"
  ELSE "admit"

\* should_auto_pause
ShouldAutoPause(threshold, failures) == threshold > 0 /\ failures >= threshold
=============================================================================
