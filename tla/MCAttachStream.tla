--------------------------- MODULE MCAttachStream ---------------------------
(***************************************************************************)
(* Instances of AttachStream for TLC: the pump types while one chunk is     *)
(* about, or types nothing while there are more of them.                    *)
(***************************************************************************)
EXTENDS AttachStream

VARIABLE part   \* what there is more of: "keys" or "chunks"

partVars == <<streamVars, part>>

PartInit == StreamInit /\ part \in {"keys", "chunks"}

PartNext ==
  /\ StreamNext /\ UNCHANGED part
  /\ IF part = "keys" THEN nextSeq' <= 2 ELSE writes' = 0

PartSpec == PartInit /\ [][PartNext]_partVars
=============================================================================
