---------------------------- MODULE OutputStream ----------------------------
(***************************************************************************)
(* What the output hub promises each of its readers, and nothing of how: a  *)
(* numbered stream is written once; a reader that opens it is told of every *)
(* number after its starting point exactly once and in order (of its bytes, *)
(* or that they were dropped), until its stream is cut; a cut stream still  *)
(* delivers what was written before the cut and then ends.                  *)
(* OutputHub implements this specification.                                 *)
(***************************************************************************)
EXTENDS Naturals

CONSTANT Readers

VARIABLES
  written,   \* number of the last chunk written
  status,    \* of each reader: "unused", "live", "cut", "done"
  told,      \* number up to which the reader knows what happened
  limit      \* number up to which a cut stream delivers

vars == <<written, status, told, limit>>

Init ==
  /\ written = 0
  /\ status = [r \in Readers |-> "unused"]
  /\ told = [r \in Readers |-> 0]
  /\ limit = [r \in Readers |-> 0]

Write ==
  /\ written' = written + 1
  /\ UNCHANGED <<status, told, limit>>

\* A reader opens the stream at a point of its own; taking over a subscription cuts
\* the stream of the reader that had it.
Open(R, r, from) ==
  /\ \A q \in R : status[q] = "live"
  /\ status[r] = "unused" /\ from \in 0..written
  /\ status' = [q \in Readers |-> IF q = r THEN "live"
                                  ELSE IF q \in R THEN "cut" ELSE status[q]]
  /\ told' = [told EXCEPT ![r] = from]
  /\ limit' = [q \in Readers |-> IF q \in R THEN written ELSE limit[q]]
  /\ UNCHANGED written

\* The next number, and no other: none is skipped and none is repeated.
Tell(r) ==
  /\ \/ status[r] = "live" /\ told[r] < written
     \/ status[r] = "cut" /\ told[r] < limit[r]
  /\ told' = [told EXCEPT ![r] = @ + 1]
  /\ UNCHANGED <<written, status, limit>>

\* Any number of streams may be cut at once.
Cut(R) ==
  /\ \A r \in R : status[r] = "live"
  /\ status' = [r \in Readers |-> IF r \in R THEN "cut" ELSE status[r]]
  /\ limit' = [r \in Readers |-> IF r \in R THEN written ELSE limit[r]]
  /\ UNCHANGED <<written, told>>

\* The reader leaves.
Leave(r) ==
  /\ status[r] \in {"live", "cut"}
  /\ status' = [status EXCEPT ![r] = "done"]
  /\ told' = [told EXCEPT ![r] = 0]
  /\ limit' = [limit EXCEPT ![r] = 0]
  /\ UNCHANGED written

Next ==
  \/ Write
  \/ \E r \in Readers : Tell(r) \/ Leave(r)
  \/ \E R \in SUBSET Readers :
       Cut(R) \/ \E r \in Readers, from \in 0..written : Open(R, r, from)

Spec == Init /\ [][Next]_vars
=============================================================================
