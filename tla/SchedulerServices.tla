-------------------------- MODULE SchedulerServices --------------------------
(***************************************************************************)
(* The life of the scheduler stack in la-daemon (scheduler.rs): how         *)
(* SchedulerServices::start seeds the heap and brings the tasks up, and how *)
(* shutdown takes them down in order.  The tasks are the heap loop, the     *)
(* executor and the scheduler.health loop; what they do to crons and runs   *)
(* is in SchedulerLoop and RunExecutor.  Kept here is who waits for whom:   *)
(* replies, room in the fire channel, notifications and joins.              *)
(*                                                                          *)
(* Notify::notify_waiters stores no permit: it reaches only a task that is  *)
(* parked at that moment.                                                   *)
(***************************************************************************)
EXTENDS Naturals, FiniteSets

CONSTANTS
  Seeds,     \* the enabled crons start seeds
  Backlog,   \* catch-up fires the installation of each of them emits
  FireCap,   \* FIRE_CHANNEL_CAP
  MaxFires   \* bound: fires of the firing passes

ASSUME ServicesAssumption ==
  /\ IsFiniteSet(Seeds) /\ Backlog \in [Seeds -> Nat]
  /\ FireCap \in Nat \ {0} /\ MaxFires \in Nat

VARIABLES
  stage,     \* where start and shutdown are
  unseeded,  \* crons seed_crons_into_scheduler has still to install
  command,   \* what the heap loop has to answer: "none", "upsert", "stop"
  loop,      \* the heap loop: in its select, sending fires, stopped
  unsent,    \* fires of the pass in progress that are not in the channel yet
  fires,     \* number of fires in the channel
  executor,  \* the executor task
  woken,     \* the executor was parked when executor_shutdown was notified
  health,    \* the scheduler.health task
  flag,      \* scheduler_health_shutdown_flag
  emitted,   \* history: fires the firing passes decided on
  lost       \* history: fires that were decided on and never processed

servicesVars == <<stage, unseeded, command, loop, unsent, fires, executor, woken,
          health, flag, emitted, lost>>

-----------------------------------------------------------------------------
(* start *)

\* seed_crons_into_scheduler: one upsert at a time, each awaiting its reply.
SeedNext ==
  /\ stage = "seeding" /\ command = "none" /\ unseeded # {}
  /\ command' = "upsert"
  /\ UNCHANGED <<stage, unseeded, loop, unsent, fires, executor, woken, health, flag,
                 emitted, lost>>

\* The crons are seeded: spawn the executor and the health loop, return.
Alive ==
  /\ stage = "seeding" /\ command = "none" /\ unseeded = {}
  /\ stage' = "alive" /\ executor' = "parked" /\ health' = "publishing"
  /\ UNCHANGED <<unseeded, command, loop, unsent, fires, woken, flag, emitted, lost>>

-----------------------------------------------------------------------------
(* The heap loop *)

\* install_entry of the next cron.
BeginInstall ==
  /\ loop = "select" /\ command = "upsert"
  /\ \E c \in unseeded :
       /\ unseeded' = unseeded \ {c}
       /\ unsent' = Backlog[c]
  /\ loop' = "sending"
  /\ UNCHANGED <<stage, command, fires, executor, woken, health, flag, emitted, lost>>

\* A firing pass over the crons that are installed, also while others are seeded.
BeginPass ==
  /\ loop = "select" /\ command = "none" /\ unseeded # Seeds
  /\ \E n \in 1..MaxFires :
       emitted + n <= MaxFires /\ unsent' = n /\ emitted' = emitted + n
  /\ loop' = "sending"
  /\ UNCHANGED <<stage, unseeded, command, fires, executor, woken, health, flag, lost>>

\* A send awaits room; without a receiver it fails and the pass gives up.
Send ==
  /\ loop = "sending" /\ unsent > 0
  /\ \/ /\ executor # "exited" /\ fires < FireCap
        /\ fires' = fires + 1 /\ unsent' = unsent - 1
        /\ UNCHANGED lost
     \/ /\ executor = "exited"
        /\ unsent' = 0 /\ lost' = lost + unsent
        /\ UNCHANGED fires
  /\ UNCHANGED <<stage, unseeded, command, loop, executor, woken, health, flag, emitted>>

\* The pass is over; an upsert gets its reply.
EndPass ==
  /\ loop = "sending" /\ unsent = 0
  /\ loop' = "select"
  /\ command' = IF command = "upsert" THEN "none" ELSE command
  /\ UNCHANGED <<stage, unseeded, unsent, fires, executor, woken, health, flag, emitted, lost>>

\* Command::Shutdown is only seen by the select; the sender is dropped.
LoopStops ==
  /\ loop = "select" /\ command = "stop"
  /\ loop' = "stopped" /\ command' = "none"
  /\ UNCHANGED <<stage, unseeded, unsent, fires, executor, woken, health, flag, emitted, lost>>

-----------------------------------------------------------------------------
(* The executor: a select biased towards its shutdown signal *)

\* Receive a fire and process it.
Receive ==
  /\ executor = "parked" /\ ~woken /\ fires > 0
  /\ fires' = fires - 1 /\ executor' = "processing"
  /\ UNCHANGED <<stage, unseeded, command, loop, unsent, woken, health, flag, emitted, lost>>

Processed ==
  /\ executor = "processing" /\ executor' = "parked"
  /\ UNCHANGED <<stage, unseeded, command, loop, unsent, fires, woken, health, flag,
                 emitted, lost>>

\* recv returns None: the loop is gone and the buffer is empty.
ChannelClosed ==
  /\ executor = "parked" /\ ~woken /\ fires = 0 /\ loop = "stopped"
  /\ executor' = "exited"
  /\ UNCHANGED <<stage, unseeded, command, loop, unsent, fires, woken, health, flag,
                 emitted, lost>>

\* drain_remaining_fires, one try_recv and process_fire after the other.
DrainFires ==
  /\ executor = "parked" /\ woken
  /\ IF fires > 0 THEN fires' = fires - 1 /\ UNCHANGED executor
                  ELSE executor' = "exited" /\ UNCHANGED fires
  /\ UNCHANGED <<stage, unseeded, command, loop, unsent, woken, health, flag, emitted, lost>>

-----------------------------------------------------------------------------
(* The scheduler.health loop *)

\* publish_scheduler_health asks the heap loop for a snapshot and gets an answer
\* from its select, or an error once it has stopped.
Published ==
  /\ health = "publishing" /\ loop # "sending"
  /\ health' = IF flag THEN "exited" ELSE "parked"
  /\ UNCHANGED <<stage, unseeded, command, loop, unsent, fires, executor, woken, flag,
                 emitted, lost>>

\* The next tick of its interval.
PublishAgain ==
  /\ health = "parked" /\ health' = "publishing"
  /\ UNCHANGED <<stage, unseeded, command, loop, unsent, fires, executor, woken, flag,
                 emitted, lost>>

-----------------------------------------------------------------------------
(* shutdown *)

\* Send Command::Shutdown.
StopLoop ==
  /\ stage = "alive"
  /\ stage' = "join_loop" /\ command' = "stop"
  /\ UNCHANGED <<unseeded, loop, unsent, fires, executor, woken, health, flag, emitted, lost>>

\* Mutant: the executor is told to stop while the heap loop still runs.
MutNotifyExecutor ==
  /\ stage = "join_loop"
  /\ stage' = "join_executor"
  /\ woken' = (executor = "parked")
  /\ UNCHANGED <<unseeded, command, loop, unsent, fires, executor, health, flag, emitted, lost>>

\* Join the heap loop, then notify the executor.
NotifyExecutor ==
  /\ stage = "join_loop" /\ loop = "stopped"
  /\ stage' = "join_executor"
  /\ woken' = (executor = "parked")
  /\ UNCHANGED <<unseeded, command, loop, unsent, fires, executor, health, flag, emitted, lost>>

\* Mutant: the notification alone, without the stored flag.
MutNotifyHealth ==
  /\ stage = "join_executor" /\ executor = "exited"
  /\ stage' = "join_health"
  /\ health' = IF health = "parked" THEN "exited" ELSE health
  /\ UNCHANGED <<unseeded, command, loop, unsent, fires, executor, woken, flag, emitted, lost>>

\* Join the executor, then set the flag and notify the health loop.
NotifyHealth ==
  /\ stage = "join_executor" /\ executor = "exited"
  /\ stage' = "join_health" /\ flag' = TRUE
  /\ health' = IF health = "parked" THEN "exited" ELSE health
  /\ UNCHANGED <<unseeded, command, loop, unsent, fires, executor, woken, emitted, lost>>

\* Join the health loop: shutdown returns.
Down ==
  /\ stage = "join_health" /\ health = "exited"
  /\ stage' = "down"
  /\ UNCHANGED <<unseeded, command, loop, unsent, fires, executor, woken, health, flag,
                 emitted, lost>>

-----------------------------------------------------------------------------
ServicesInit ==
  /\ stage = "seeding" /\ unseeded = Seeds /\ command = "none"
  /\ loop = "select" /\ unsent = 0 /\ fires = 0
  /\ executor = "unborn" /\ woken = FALSE
  /\ health = "unborn" /\ flag = FALSE
  /\ emitted = 0 /\ lost = 0

Tasks ==
  \/ SeedNext \/ Alive
  \/ BeginInstall \/ Send \/ EndPass \/ LoopStops
  \/ Receive \/ Processed \/ ChannelClosed \/ DrainFires
  \/ Published
  \/ NotifyExecutor \/ NotifyHealth \/ Down

ServicesNext == Tasks \/ BeginPass \/ PublishAgain \/ StopLoop

\* Tasks are polled until they are done; an answer and a poll that can be
\* overtaken by other work again and again still come.
ServicesFairness ==
  /\ WF_servicesVars(SeedNext) /\ WF_servicesVars(Alive)
  /\ WF_servicesVars(BeginInstall) /\ WF_servicesVars(Send) /\ WF_servicesVars(EndPass) /\ SF_servicesVars(LoopStops)
  /\ WF_servicesVars(Receive) /\ WF_servicesVars(Processed) /\ WF_servicesVars(ChannelClosed) /\ WF_servicesVars(DrainFires)
  /\ SF_servicesVars(Published)
  /\ WF_servicesVars(NotifyExecutor) /\ WF_servicesVars(NotifyHealth) /\ WF_servicesVars(Down)

ServicesSpec == ServicesInit /\ [][ServicesNext]_servicesVars
ServicesFairSpec == ServicesSpec /\ ServicesFairness

-----------------------------------------------------------------------------
(* Properties *)

\* Every variable has its type, and the channel is bounded.
ServicesTypeOK ==
  /\ stage \in {"seeding", "alive", "join_loop", "join_executor", "join_health", "down"}
  /\ unseeded \subseteq Seeds /\ command \in {"none", "upsert", "stop"}
  /\ loop \in {"select", "sending", "stopped"} /\ unsent \in Nat
  /\ fires \in 0..FireCap
  /\ executor \in {"unborn", "parked", "processing", "exited"} /\ woken \in BOOLEAN
  /\ health \in {"unborn", "parked", "publishing", "exited"} /\ flag \in BOOLEAN
  /\ emitted \in 0..MaxFires /\ lost \in Nat

\* No fire is dropped by the shutdown sequence: the executor goes only after the
\* heap loop has, and with an empty channel (SchedulerServices::shutdown).
NoFireLostOnShutdown ==
  /\ lost = 0
  /\ executor = "exited" => loop = "stopped" /\ fires = 0

\* Said of start: it returns once everything is alive.
StartReturns == <>(stage = "alive")

\* A shutdown comes to an end, although notifications may find nobody parked.
ShutdownReturns == stage = "join_loop" ~> stage = "down"
=============================================================================
