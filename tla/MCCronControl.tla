---------------------------- MODULE MCCronControl ----------------------------
(***************************************************************************)
(* Instances of CronControl for TLC.                                        *)
(***************************************************************************)
EXTENDS CronControl, TLC

CONSTANTS c1, k1, k2, p1, p2, t1, t2

OneCron     == {c1}
TwoContents == {k1, k2}
OneContent  == {k1}
TwoClients  == {p1, p2}
TwoTokens   == {t1, t2}
OneToken    == {t1}

ControlSymmetry == Permutations(Clients) \cup Permutations(Tokens) \cup Permutations(Contents)
=============================================================================
