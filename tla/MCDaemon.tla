------------------------------ MODULE MCDaemon ------------------------------
(* The process level of the daemon: starting, serving and stopping, its files,  *)
(* its installation, its health on the event bus.  The five share no variable,   *)
(* so one run checks each while the others stay in their initial states: the     *)
(* states add up, and every behaviour of each component is there, under that     *)
(* component's fairness.  The files are two parts: many runs beside one chunk, and  *)
(* many chunks beside one run, which meet at the writer connection in both.        *)
EXTENDS DaemonStart, DaemonStop, StorageFiles, ServiceInstall, EventBus

VARIABLE part   \* the component that runs

\* Runs 1 and 2 are of one month, 3 of the next: a batch of two and a second one.
TwoMonths == [r \in Runs |-> IF r < 3 THEN 1 ELSE 2]

vars == <<startVars, stopVars, filesVars, installVars, busVars, part>>

\* The other components run on one kind of host, with every agent installed; it does not
\* matter to them.
MCInit ==
  /\ StartInit /\ StopInit /\ FilesInit /\ InstallInit /\ BusInit
  /\ part \in {"start", "stop", "runs", "chunks", "install", "events"}
  /\ part = "install" \/ mode = "systemd"
  /\ part = "events" \/ \A b \in Backends : truth[b] = "available"

MCNext ==
  /\ UNCHANGED part
  /\ \/ part = "start" /\ StartNext /\ UNCHANGED <<stopVars, filesVars, installVars, busVars>>
     \/ part = "stop" /\ StopNext /\ UNCHANGED <<startVars, filesVars, installVars, busVars>>
     \/ /\ part \in {"runs", "chunks"} /\ FilesNext
        /\ IF part = "runs" THEN sent' <= 1 ELSE Cardinality(old') <= 1
        /\ UNCHANGED <<startVars, stopVars, installVars, busVars>>
     \/ part = "install" /\ InstallNext /\ UNCHANGED <<startVars, stopVars, filesVars, busVars>>
     \/ part = "events" /\ BusNext /\ UNCHANGED <<startVars, stopVars, filesVars, installVars>>

\* StartFairness, StopFairness and BusFairness, each of the component that runs.
PartFairness ==
  /\ \A c \in Clients : WF_startVars(part = "start" /\ ClientStep(c))
  /\ WF_stopVars(part = "stop" /\ Shutdown)
  /\ WF_busVars(part = "events" /\ Probing)
  /\ WF_busVars(part = "events" /\ Writing)
  /\ WF_busVars(part = "events" /\ Handling)

MCSpec == MCInit /\ [][MCNext]_vars /\ PartFairness

\* A client that starts the daemon gets an answer, and a daemon told to stop stops.
StartAndStopEnd == BootstrapEnds /\ ShutdownCompletes

=============================================================================
