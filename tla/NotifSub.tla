------------------------------ MODULE NotifSub ------------------------------
(***************************************************************************)
(* The daemon dot of the status bar: the subscriber thread                 *)
(* (la-tui/notif_sub.rs) reconnects with a growing backoff and queues       *)
(* events; the UI applies them between frames whether or not a modal is     *)
(* open (la-tui/runner.rs, la-tui/app.rs try_apply_system_notification).    *)
(* The daemon goes up and down; a connection does not survive that.         *)
(***************************************************************************)
EXTENDS Naturals, Sequences

CONSTANTS
  MaxBackoff,  \* max_backoff, in units of initial_backoff
  MaxFlips     \* bound: the daemon starts or stops

VARIABLES
  up,      \* the daemon accepts connections
  sub,     \* the subscriber: [at, broken, backoff]
  events,  \* the channel to the UI
  dot,     \* status.daemon_online
  flips

notifVars == <<up, sub, events, dot, flips>>

Min2(a, b) == IF a < b THEN a ELSE b

NotifInit ==
  /\ up \in BOOLEAN /\ events = <<>> /\ dot = FALSE /\ flips = 0
  /\ sub = [at |-> "dial", broken |-> FALSE, backoff |-> 1]

DaemonFlips ==
  /\ flips < MaxFlips /\ flips' = flips + 1 /\ up' = ~up
  /\ sub' = [sub EXCEPT !.broken = @ \/ (sub.at = "live" /\ up)]
  /\ UNCHANGED <<events, dot>>

\* Mutant: a first attempt that fails ends the thread instead of being retried.
MutEnds(wasLive) ==
  LET wait == IF wasLive THEN 1 ELSE sub.backoff IN
    /\ sub' = [at |-> IF wasLive THEN "sleep" ELSE "ended", broken |-> FALSE,
               backoff |-> Min2(2 * wait, MaxBackoff)]
    /\ events' = Append(events, "offline")
    /\ UNCHANGED <<up, dot, flips>>

\* run_once returned an error: DaemonOffline, the backoff starts again if the
\* subscription had been made, sleep, double.
Ends(wasLive) ==
  LET wait == IF wasLive THEN 1 ELSE sub.backoff IN
    /\ sub' = [at |-> "sleep", broken |-> FALSE, backoff |-> Min2(2 * wait, MaxBackoff)]
    /\ events' = Append(events, "offline")
    /\ UNCHANGED <<up, dot, flips>>

\* Connect, handshake, subscribe.
Dial ==
  /\ sub.at = "dial"
  /\ IF up THEN sub' = [sub EXCEPT !.at = "live"] /\ UNCHANGED <<up, events, dot, flips>>
     ELSE Ends(FALSE)

ConnectionDrops == sub.at = "live" /\ sub.broken /\ Ends(TRUE)

\* The daemon publishes its health; the channel is unbounded, two pulses stand for more.
Pulse ==
  /\ sub.at = "live" /\ ~sub.broken /\ Len(events) < 3
  /\ events' = Append(events, "health") /\ UNCHANGED <<up, sub, dot, flips>>

WakeUp ==
  /\ sub.at = "sleep" /\ sub' = [sub EXCEPT !.at = "dial"]
  /\ Len(events) < 3   \* bound: the UI drains once a frame, within any sleep
  /\ UNCHANGED <<up, events, dot, flips>>

\* Between frames everything queued is applied, in order.
DrainEvents ==
  /\ events # <<>> /\ events' = <<>> /\ dot' = (events[Len(events)] = "health")
  /\ UNCHANGED <<up, sub, flips>>

SubStep == Dial \/ ConnectionDrops \/ WakeUp
NotifNext == DaemonFlips \/ SubStep \/ Pulse \/ DrainEvents

\* The thread is scheduled, its sleeps end, the daemon publishes periodically, the UI
\* draws at least every 250 ms.
NotifFairness == WF_notifVars(SubStep) /\ SF_notifVars(Pulse) /\ WF_notifVars(DrainEvents)

-----------------------------------------------------------------------------
(* Properties *)

\* The dot comes to tell whether the daemon is there, after any sequence of restarts,
\* and stays right once the daemon settles.
DotFollowsDaemon == <>[](dot = up)

=============================================================================
