------------------------- MODULE MCSessionLifecycle -------------------------
(***************************************************************************)
(* Instances of SessionLifecycle for TLC.                                   *)
(***************************************************************************)
EXTENDS SessionLifecycle

CONSTANTS s1, s2, r1, r2

TwoSessions == {s1, s2}
OneSession  == {s1}
TwoRequests == {r1, r2}
=============================================================================
