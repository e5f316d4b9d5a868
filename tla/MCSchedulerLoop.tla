--------------------------- MODULE MCSchedulerLoop ---------------------------
(***************************************************************************)
(* Instances of SchedulerLoop for TLC.                                      *)
(***************************************************************************)
EXTENDS SchedulerLoop

Every  == [spec |-> {1, 2, 3, 4}, mode |-> "replay", throttle |-> 0]
Second == [spec |-> {2, 4}, mode |-> "coalesce", throttle |-> 0]
Late   == [spec |-> {4}, mode |-> "skip", throttle |-> 0]

Expo == [base |-> 1, factor |-> 2, cap |-> 2]
FailedAt1 == [backoff |-> Expo, lastFailure |-> 1, failures |-> 2]

EditedConfigs == {Every, Second}
OneConfig     == {Second}
ClearBackoff  == {NoBackoff}
AllConfigs    == {Every, Second, Late}
SomeBackoffs  == {NoBackoff, FailedAt1}
NoBackoffs    == {}
Forward       == {2}
=============================================================================
