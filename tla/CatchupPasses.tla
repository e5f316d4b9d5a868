---------------------------- MODULE CatchupPasses ----------------------------
(***************************************************************************)
(* Successive catch-up passes over one cron, as process_missed_fires is     *)
(* called by restarts, skew ticks and late wake-ups: each pass resolves the *)
(* gap since the previous one under the cron's policy and moves the         *)
(* watermark to its own end.  The small caps make truncation and a          *)
(* saturated count happen within the horizon.                               *)
(***************************************************************************)
EXTENDS Catchup

CONSTANTS
  Horizon,    \* bound: the last instant
  Throttles   \* min_replay_interval values

ASSUME PassesAssumption == Horizon \in Nat /\ Throttles \subseteq Nat

VARIABLES
  spec, mode, throttle,   \* the cron
  watermark,              \* last_fired_at
  window,                 \* where the latest pass began
  outcome                 \* what the latest pass emitted, None before the first

passVars == <<spec, mode, throttle, watermark, window, outcome>>

PassInit ==
  /\ spec \in SUBSET (1..Horizon) /\ mode \in CatchupMode /\ throttle \in Throttles
  /\ watermark = 0 /\ window = 0 /\ outcome = None

\* One call of process_missed_fires, for the gap up to `end'.
Pass(end) ==
  /\ watermark < end
  /\ outcome' = MissedOutcome(spec, watermark, end, mode, throttle)
  /\ window' = watermark /\ watermark' = end
  /\ UNCHANGED <<spec, mode, throttle>>

PassNext == \E end \in 1..Horizon : Pass(end)

PassSpec == PassInit /\ [][PassNext]_passVars

-----------------------------------------------------------------------------
(* Properties *)

Gap     == {t \in spec : window < t /\ t <= watermark}
Fires   == ToSet(outcome.fires)
Emitted == UNION {f.ticks : f \in Fires}

\* The truncation report adds up: what was kept and what was dropped is what was
\* missed, exactly when the count did not saturate, nothing is dropped without a
\* report, and with one the earliest ticks are kept (catchup.rs, "the dropped
\* count is honest").
TruncationIsHonest ==
  outcome # None =>
    IF outcome.truncated = None
    THEN /\ Cardinality(Gap) < MAX_CATCHUP
         /\ mode = "coalesce" \/ (mode = "replay" /\ throttle = 0) => Emitted = Gap
    ELSE /\ outcome.truncated.executed + outcome.truncated.dropped = outcome.truncated.missed
         /\ outcome.truncated.executed = MAX_CATCHUP
         /\ IF outcome.truncated.saturated
            THEN outcome.truncated.missed <= Cardinality(Gap)
            ELSE outcome.truncated.missed = Cardinality(Gap)
         /\ mode = "coalesce" \/ (mode = "replay" /\ throttle = 0) =>
              /\ Cardinality(Emitted) = MAX_CATCHUP
              /\ \A t \in Emitted, u \in Gap \ Emitted : t < u

\* Replay emits, in order, a selection of the gap that starts with its first
\* tick, keeps the minimum distance, and leaves out only ticks that are too
\* close to the one emitted before them or beyond the cap.
ReplayIsThrottledPrefix ==
  outcome # None /\ mode = "replay" =>
    LET at == [i \in 1..Len(outcome.fires) |-> outcome.fires[i].at]
    IN  /\ \A i \in 1..Len(at) - 1 : at[i] < at[i + 1] /\ at[i + 1] - at[i] >= throttle
        /\ ToSet(at) \subseteq Gap
        /\ Gap # {} => at # <<>> /\ \A t \in Gap : at[1] <= t
        /\ \A t \in Gap \ ToSet(at) :
             \/ \E k \in ToSet(at) : k < t /\ t - k < throttle
             \/ Cardinality({u \in Gap : u <= t}) > MAX_CATCHUP

\* What a catch-up pass emits and what it reports, under every policy.
CatchupIsExact == TruncationIsHonest /\ ReplayIsThrottledPrefix

=============================================================================
