---------------------------- MODULE MCRunExecutor ----------------------------
(***************************************************************************)
(* Instances of RunExecutor for TLC.  The run on the caps takes crons.run_now *)
(* callers and users who edit crons (and crashes) one at a time.             *)
(***************************************************************************)
EXTENDS RunExecutor, TLC

CONSTANTS exec, user1, user2, r1, r2, r3, c1, c2

OneCron   == {c1}
TwoCrons  == {c1, c2}
OneUser   == {user1}
TwoUsers  == {user1, user2}
OneRun    == {r1}
TwoRuns   == {r1, r2}
ThreeRuns == {r1, r2, r3}

\* Every statement but the watchers' poll: to the slots, one that fails is a session
\* that is missing.
AllFaults == {"read", "create", "audit", "mark", "finish", "count", "pause"}
SomeFaults == {"read", "create", "finish"}

RunSymmetry  == Permutations(Runs)
FullSymmetry == Permutations(Runs) \cup Permutations(Callers)

VARIABLE part   \* who is about: "callers" or "edits"

partVars == <<execVars, part>>

PartInit == ExecInit /\ part \in {"callers", "edits"}

PartNext ==
  /\ ExecNext /\ UNCHANGED part
  /\ IF part = "edits" THEN \A a \in Callers : pc'[a] = "idle"
     ELSE /\ restarts' = restarts /\ draft' = draft
          /\ \A c \in Crons : crons'[c] # None /\ (crons'[c].enabled => crons[c].enabled)

PartSpec == PartInit /\ [][PartNext]_partVars
=============================================================================
