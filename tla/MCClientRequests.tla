-------------------------- MODULE MCClientRequests --------------------------
(***************************************************************************)
(* What clients ask of the daemon while something else acts on the same     *)
(* state: changes of the crons (CronControl), of a worktree and its index   *)
(* (DiffReview).  The two share no variable; the run checks each while the   *)
(* other rests.                                                              *)
(***************************************************************************)
EXTENDS MCCronControl, DiffReview

VARIABLE part   \* the component that runs

\* A tracked file with two hunks and an untracked one.
TwoFiles == [p \in Spots |-> IF p < 3 THEN 1 ELSE 2]

vars == <<controlVars, reviewVars, part>>

MCInit ==
  /\ ControlInit /\ ReviewInit
  /\ part \in {"control", "review"}

MCNext ==
  /\ UNCHANGED part
  /\ \/ part = "control" /\ ControlNext /\ UNCHANGED reviewVars
     \/ part = "review" /\ ReviewNext /\ UNCHANGED controlVars

MCSpec == MCInit /\ [][MCNext]_vars
=============================================================================
