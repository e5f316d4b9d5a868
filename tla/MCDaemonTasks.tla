---------------------------- MODULE MCDaemonTasks ----------------------------
(***************************************************************************)
(* The daemon's scheduler tasks and what they wait for: the executor and    *)
(* its watchers (RunExecutor), start and shutdown of the tasks and the fire *)
(* channel between them (SchedulerServices).  The two share no variable;    *)
(* the run checks each under its own fairness while the other rests.        *)
(***************************************************************************)
EXTENDS RunExecutor, SchedulerServices

VARIABLE part   \* the component that runs

\* Three catch-up fires to seed, as many as the channel holds.
SmallBacklog == [c \in Seeds |-> c]

vars == <<execVars, servicesVars, part>>

MCInit ==
  /\ ExecInit /\ ServicesInit
  /\ part \in {"executor", "services"}

MCNext ==
  /\ UNCHANGED part
  /\ \/ part = "executor" /\ ExecNext /\ UNCHANGED servicesVars
     \/ part = "services" /\ ServicesNext /\ UNCHANGED execVars

MCSpec ==
  /\ MCInit /\ [][MCNext]_vars
  /\ part = "executor" => ExecFairness
  /\ part = "services" => ServicesFairness
=============================================================================
