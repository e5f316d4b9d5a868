------------------------------- MODULE Catchup -------------------------------
(***************************************************************************)
(* The pure part of la-scheduler: cron schedules (cron_spec.rs), the        *)
(* missed-fire policies (catchup.rs) and the failure backoff                *)
(* (quota/backoff.rs, heap.rs).                                             *)
(*                                                                          *)
(* A schedule is the set of instants (naturals) at which its expression     *)
(* fires; parsing and time zones are abstracted away, what is kept is which *)
(* instants a walk over the schedule returns, in which order, and where it  *)
(* stops.                                                                   *)
(***************************************************************************)
EXTENDS Naturals, Sequences, FiniteSets, SequencesExt

CONSTANTS
  None,         \* Option::None
  MAX_CATCHUP,  \* most missed fires one pass resolves (100 in the code)
  COUNT_CAP,    \* most missed fires one pass counts (100 * MAX_CATCHUP in the code)
  MUL_MAX       \* where delay_for stops multiplying (u64::MAX in the code)

\* What a truncated pass reports (CatchupTruncated).
Truncation == [missed : Nat, executed : Nat, dropped : Nat, saturated : BOOLEAN]

ASSUME CatchupAssumption ==
  /\ None \notin Nat /\ None \notin Truncation
  /\ MAX_CATCHUP \in Nat \ {0}
  /\ COUNT_CAP \in Nat /\ COUNT_CAP >= MAX_CATCHUP
  /\ MUL_MAX \in Nat

CatchupMode == {"skip", "coalesce", "replay"}

-----------------------------------------------------------------------------
(* cron_spec.rs *)

\* CronSpec::next_after: the first instant of the schedule strictly after t.
NextAfter(spec, t) ==
  IF \E x \in spec : x > t
  THEN CHOOSE x \in spec : x > t /\ \A y \in spec : y > t => x <= y
  ELSE None

\* Mutant: the walk stops before the end of the interval.
MutMissedFires(spec, start, end) ==
  LET walk[t \in 0..end] ==
        IF t <= start THEN <<>>
        ELSE IF t \in spec /\ t < end THEN Append(walk[t - 1], t) ELSE walk[t - 1]
  IN  walk[end]

\* The walk behind fires_between and count_missed: (start, end], in order.
MissedFires(spec, start, end) ==
  LET walk[t \in 0..end] ==   \* as far as t
        IF t <= start THEN <<>>
        ELSE IF t \in spec THEN Append(walk[t - 1], t) ELSE walk[t - 1]
  IN  walk[end]

\* Mutant: the count stops one past the fires that are kept.
MutCountMissed(spec, start, end, take, cap) ==
  LET missed == MissedFires(spec, start, end)
      total  == IF Len(missed) > take THEN take + 1 ELSE Len(missed)
  IN  [earliest  |-> SubSeq(missed, 1, IF total < take THEN total ELSE take),
       total     |-> total,
       saturated |-> FALSE]

\* CronSpec::count_missed: the earliest `take' instants, and how many there
\* are, counted no further than `cap'.
CountMissed(spec, start, end, take, cap) ==
  LET missed == MissedFires(spec, start, end)
      total  == IF Len(missed) >= cap THEN cap ELSE Len(missed)
  IN  [earliest  |-> SubSeq(missed, 1, IF total < take THEN total ELSE take),
       total     |-> total,
       saturated |-> Len(missed) >= cap]

-----------------------------------------------------------------------------
(* catchup.rs *)

\* The throttle of replay mode: keep a fire when it is at least minInterval
\* after the previous one kept.
Throttled(missed, minInterval) ==
  LET kept[i \in 0..Len(missed)] ==
        IF i = 0 THEN <<>>
        ELSE LET before == kept[i - 1]
             IN  IF before = <<>> \/ missed[i] - Last(before) >= minInterval
                 THEN Append(before, missed[i]) ELSE before
  IN  kept[Len(missed)]

\* apply_catchup_with_total: the fires to emit, and the truncation report.  A
\* fire carries the number of ticks merged into it and, for the properties
\* only, which ticks it stands for.
ApplyCatchup(earliest, total, saturated, mode, minInterval) ==
  LET truncated == total >= MAX_CATCHUP
      take      == IF Len(earliest) > MAX_CATCHUP THEN MAX_CATCHUP ELSE Len(earliest)
      effective == IF truncated THEN SubSeq(earliest, 1, take) ELSE earliest
      fires     ==
        CASE total = 0 \/ mode = "skip" -> <<>>
          [] total # 0 /\ mode = "coalesce" ->
               << [at |-> Last(effective), count |-> Len(effective),
                   ticks |-> ToSet(effective)] >>
          [] total # 0 /\ mode = "replay" ->
               [i \in 1..Len(Throttled(effective, minInterval)) |->
                  LET t == Throttled(effective, minInterval)[i]
                  IN  [at |-> t, count |-> 1, ticks |-> {t}]]
  IN  [fires     |-> fires,
       truncated |-> IF truncated
                     THEN [missed |-> total, executed |-> take,
                           dropped |-> total - take, saturated |-> saturated]
                     ELSE None]

\* process_missed_fires without its sends: what one pass over (last, end] emits.
MissedOutcome(spec, last, end, mode, minInterval) ==
  LET counted == CountMissed(spec, last, end, MAX_CATCHUP, COUNT_CAP)
  IN  ApplyCatchup(counted.earliest, counted.total, counted.saturated,
                   mode, minInterval)

-----------------------------------------------------------------------------
(* quota/backoff.rs and heap.rs *)

\* factor^n, as the multiplication loop of delay_for computes it.
Power(factor, n) ==
  LET power[k \in 0..n] == IF k = 0 THEN 1 ELSE factor * power[k - 1]
  IN  power[n]

\* FailureBackoff::delay_for: base * factor^(n-1), at most cap; factor 0 counts
\* as 1, and a multiplier beyond MUL_MAX yields cap whatever the base.
DelayFor(backoff, n) ==
  IF n = 0 THEN 0
  ELSE LET factor == IF backoff.factor = 0 THEN 1 ELSE backoff.factor
           scaled == backoff.base * Power(factor, n - 1)
       IN  IF Power(factor, n - 1) > MUL_MAX \/ scaled > backoff.cap
           THEN backoff.cap ELSE scaled

\* BackoffState: the policy, when the cron last failed, how often in a row.
BackoffState ==
  [backoff : [base : Nat, factor : Nat, cap : Nat] \cup {None},
   lastFailure : Nat \cup {None}, failures : Nat]

\* BackoffState::default(): no failure on record.
NoBackoff == [backoff |-> None, lastFailure |-> None, failures |-> 0]

\* BackoffState::retry_after: all three fields are needed, a missing one
\* disables the rail.
RetryAfter(b) ==
  IF b.backoff = None \/ b.lastFailure = None THEN None
  ELSE IF DelayFor(b.backoff, b.failures) = 0 THEN None
  ELSE b.lastFailure + DelayFor(b.backoff, b.failures)

\* Mutant: the earlier of the two instants.
MutNextEligibleFire(spec, now, b) ==
  LET natural == NextAfter(spec, now)
      retry   == RetryAfter(b)
  IN  IF natural # None /\ retry # None
      THEN IF retry < natural THEN retry ELSE natural
      ELSE natural

\* next_eligible_fire: the next natural fire, pushed back to the retry instant.
NextEligibleFire(spec, now, b) ==
  LET natural == NextAfter(spec, now)
      retry   == RetryAfter(b)
  IN  IF natural # None /\ retry # None
      THEN IF retry > natural THEN retry ELSE natural
      ELSE natural
=============================================================================
