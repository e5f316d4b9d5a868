------------------------------ MODULE MCCatchup ------------------------------
(* The loop under its fairness, and the catch-up passes by themselves over    *)
(* every schedule up to the horizon: two parts of one run.                    *)
EXTENDS MCSchedulerLoop, CatchupPasses

VARIABLE part   \* "loop" or "passes"

MCInit ==
  /\ Init /\ PassInit /\ part \in {"loop", "passes"}
  /\ part = "passes" \/ (spec = {} /\ mode = "skip" /\ throttle = 0)
  /\ part = "loop" \/ persisted = [c \in Crons |-> None]

MCNext ==
  /\ UNCHANGED part
  /\ \/ part = "loop" /\ Next /\ UNCHANGED passVars
     \/ part = "passes" /\ PassNext /\ UNCHANGED vars

MCSpec ==
  /\ MCInit /\ [][MCNext]_<<vars, passVars, part>>
  /\ part = "loop" => Fairness
=============================================================================
