------------------------ MODULE MCSchedulerServices ------------------------
(***************************************************************************)
(* Instances of SchedulerServices for TLC.                                  *)
(***************************************************************************)
EXTENDS SchedulerServices

\* Four catch-up fires to seed, one more than the channel holds.
LargeBacklog == [c \in Seeds |-> 2]
=============================================================================
