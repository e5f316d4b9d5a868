----------------------------- MODULE DaemonStop -----------------------------
(***************************************************************************)
(* One running daemon, from accept_loop to its exit (la-daemon/runtime.rs): *)
(* the accept loop, connections as serve_connection takes them through      *)
(* their states (la-daemon/dispatcher.rs), sessions of the manager's        *)
(* registry, and the shutdown sequence with its deadlines.                  *)
(*                                                                          *)
(* DaemonHandle::shutdown is Notify::notify_waiters: it stores no permit    *)
(* and reaches only who is parked in a select on it.  Deadlines are         *)
(* alternatives that may be taken at any time; what the clients, the agents *)
(* and the scheduler do is up to them, and nothing of it is fair.           *)
(***************************************************************************)
EXTENDS Naturals

CONSTANTS
  Conns,     \* client connections
  Children   \* sessions that may be in the registry

VARIABLES
  phase,     \* where accept_loop is
  signalled, \* the signal task has called shutdown(); it runs once
  conn,      \* where each connection's task is
  sess,      \* "none", "live", "termed", "killed", "gone": the registry and its children
  scheduler, \* SchedulerServices: "up", "down", "cut" (its shutdown timed out)
  present    \* history: sessions in the registry when the shutdown signalled them

stopVars == <<phase, signalled, conn, sess, scheduler, present>>

Phases == {"select", "busy", "loops", "term", "drain", "wait", "landing", "scheduler",
           "close", "drop", "exited"}
ConnStates == {"off", "handshake", "reading", "handling", "closing", "closed"}
OpenStates == ConnStates \ {"off", "closed"}

Open == {c \in Conns : conn[c] \in OpenStates}
ActiveIds == {s \in Children : sess[s] \in {"live", "termed", "killed"}}

StopInit ==
  /\ phase = "select" /\ signalled = FALSE
  /\ conn = [c \in Conns |-> "off"] /\ sess = [s \in Children |-> "none"]
  /\ scheduler = "up" /\ present = {}

\* notify_waiters as the connections see it: who is parked in the read select goes.
NotifyWaiters == conn' = [c \in Conns |-> IF conn[c] = "reading" THEN "closing" ELSE conn[c]]

-----------------------------------------------------------------------------
(* The accept loop *)

\* A connection is accepted and spawned, or accept fails and the loop sleeps 50 ms;
\* until it is back in its select, it hears no notification.
Accept ==
  /\ phase = "select" /\ phase' = "busy"
  /\ \/ \E c \in Conns : conn[c] = "off" /\ conn' = [conn EXCEPT ![c] = "handshake"]
     \/ UNCHANGED conn
  /\ UNCHANGED <<signalled, sess, scheduler, present>>

BackToSelect ==
  /\ phase = "busy" /\ phase' = "select"
  /\ UNCHANGED <<signalled, conn, sess, scheduler, present>>

\* SIGINT or SIGTERM: shutdown_token resolves once, and the task notifies.
Signal ==
  /\ ~signalled /\ signalled' = TRUE /\ phase # "exited"
  /\ phase' = IF phase = "select" THEN "loops" ELSE phase
  /\ NotifyWaiters
  /\ UNCHANGED <<sess, scheduler, present>>

-----------------------------------------------------------------------------
(* Connections and sessions *)

\* server_handshake, the request loop, and the teardown that waits for the writer.
\* A handler may leave a new session in the registry.
ConnStep(c) ==
  /\ phase # "exited"
  /\ \/ /\ conn[c] = "handshake" /\ \E to \in {"reading", "closed"} : conn' = [conn EXCEPT ![c] = to]
        /\ UNCHANGED sess
     \/ /\ conn[c] = "reading" /\ \E to \in {"handling", "closing"} : conn' = [conn EXCEPT ![c] = to]
        /\ UNCHANGED sess
     \/ /\ conn[c] = "handling" /\ \E to \in {"reading", "closing"} : conn' = [conn EXCEPT ![c] = to]
        /\ \/ UNCHANGED sess
           \/ \E s \in Children : sess[s] = "none" /\ sess' = [sess EXCEPT ![s] = "live"]
     \/ conn[c] = "closing" /\ conn' = [conn EXCEPT ![c] = "closed"] /\ UNCHANGED sess
  /\ UNCHANGED <<phase, signalled, scheduler, present>>

\* The executor starts the session of a run, until the scheduler is down.
RunSpawns(s) ==
  /\ phase # "exited" /\ scheduler # "down" /\ sess[s] = "none"
  /\ sess' = [sess EXCEPT ![s] = "live"]
  /\ UNCHANGED <<phase, signalled, conn, scheduler, present>>

\* A child exits, by itself or because of a signal, and its pump takes it out of the
\* registry.
SessionEnds(s) ==
  /\ s \in ActiveIds /\ sess' = [sess EXCEPT ![s] = "gone"]
  /\ UNCHANGED <<phase, signalled, conn, scheduler, present>>

-----------------------------------------------------------------------------
(* The shutdown sequence *)

\* Notify the connections again; abort the health, sweep and archive loops and join
\* each for at most 200 ms.
StopLoops ==
  /\ phase = "loops" /\ phase' = "term"
  /\ NotifyWaiters
  /\ UNCHANGED <<signalled, sess, scheduler, present>>

\* SIGTERM to every session in the registry; errors are ignored.
TermSessions ==
  /\ phase = "term" /\ phase' = "drain"
  /\ present' = ActiveIds
  /\ sess' = [s \in Children |-> IF s \in ActiveIds THEN "termed" ELSE sess[s]]
  /\ UNCHANGED <<signalled, conn, scheduler>>

\* Mutant: a drain that ran out of time goes straight on, as if nobody was left.
MutDrain ==
  /\ phase = "drain"
  /\ \/ Open = {} /\ phase' = "wait" /\ UNCHANGED conn
     \/ /\ Open # {} /\ phase' = "scheduler"
        /\ conn' = [c \in Conns |-> IF c \in Open THEN "closed" ELSE conn[c]]
  /\ UNCHANGED <<signalled, sess, scheduler, present>>

\* Join the connections, for at most half of the deadline; then abort the rest.
Drain ==
  /\ phase = "drain" /\ phase' = "wait"
  /\ conn' = [c \in Conns |-> IF c \in Open THEN "closed" ELSE conn[c]]
  /\ UNCHANGED <<signalled, sess, scheduler, present>>

\* The registry is empty: go on.
AllGone ==
  /\ phase = "wait" /\ ActiveIds = {} /\ phase' = "scheduler"
  /\ UNCHANGED <<signalled, conn, sess, scheduler, present>>

\* Mutant: only the sessions that were told to terminate, and only a poll later.
MutEscalate ==
  /\ phase = "wait" /\ ActiveIds # {} /\ ActiveIds \cap present = {} /\ phase' = "landing"
  /\ sess' = [s \in Children |-> IF s \in ActiveIds THEN "killed" ELSE sess[s]]
  /\ UNCHANGED <<signalled, conn, scheduler, present>>

\* The grace is over: SIGKILL to whoever is in the registry now.
Escalate ==
  /\ phase = "wait" /\ ActiveIds # {} /\ phase' = "landing"
  /\ sess' = [s \in Children |-> IF s \in ActiveIds THEN "killed" ELSE sess[s]]
  /\ UNCHANGED <<signalled, conn, scheduler, present>>

\* 200 ms for the kill to land.
Landed ==
  /\ phase = "landing" /\ phase' = "scheduler"
  /\ UNCHANGED <<signalled, conn, sess, scheduler, present>>

\* SchedulerServices::shutdown returns, or is dropped after 2 s.
StopScheduler ==
  /\ phase = "scheduler" /\ phase' = "close"
  /\ scheduler' \in {"down", "cut"}
  /\ UNCHANGED <<signalled, conn, sess, present>>

\* The pools are closed, the listener is dropped, the runtime ends with its tasks.
CloseStorage ==
  /\ phase = "close" /\ phase' = "drop"
  /\ UNCHANGED <<signalled, conn, sess, scheduler, present>>

Exit ==
  /\ phase = "drop" /\ phase' = "exited"
  /\ conn' = [c \in Conns |-> IF c \in Open THEN "closed" ELSE conn[c]]
  /\ UNCHANGED <<signalled, sess, scheduler, present>>

-----------------------------------------------------------------------------
\* The steps of the task that runs accept_loop once it has heard the signal: sleeps,
\* joins and timeouts all end.
Shutdown ==
  \/ StopLoops \/ TermSessions \/ Drain \/ AllGone \/ Escalate \/ Landed
  \/ StopScheduler \/ CloseStorage \/ Exit

StopNext ==
  \/ Accept \/ BackToSelect \/ Signal \/ Shutdown
  \/ \E c \in Conns : ConnStep(c)
  \/ \E s \in Children : RunSpawns(s) \/ SessionEnds(s)

StopSpec == StopInit /\ [][StopNext]_stopVars
StopFairness == WF_stopVars(Shutdown)

-----------------------------------------------------------------------------
(* Properties *)

\* Every variable keeps its type, and only a signalled daemon shuts down.
StopTypeOK ==
  /\ phase \in Phases /\ signalled \in BOOLEAN
  /\ conn \in [Conns -> ConnStates]
  /\ sess \in [Children -> {"none", "live", "termed", "killed", "gone"}]
  /\ scheduler \in {"up", "down", "cut"} /\ present \subseteq Children
  /\ phase \notin {"select", "busy"} => signalled

\* No session outlives a shutdown: by the time the scheduler is stopped and storage
\* closed, each one that was in the registry when the shutdown began has left it or
\* has been sent SIGKILL, however connections and agents behave.
NoSurvivor ==
  phase \in {"landing", "scheduler", "close", "drop", "exited"} =>
    \A s \in present : sess[s] \in {"killed", "gone"}

\* A shutdown that was heard completes, although clients may never hang up, agents may
\* ignore SIGTERM and the scheduler may not come down.
ShutdownCompletes == phase = "loops" ~> phase = "exited"

=============================================================================
