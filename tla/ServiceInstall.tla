--------------------------- MODULE ServiceInstall ---------------------------
(***************************************************************************)
(* lad install and lad uninstall (la-daemon/install): sequences of verbs    *)
(* over a unit file and a service manager, which may refuse any command     *)
(* and fail to answer any query; the code takes a query that failed for a   *)
(* "no".  The managers are modelled by what the controllers ask of them.    *)
(*                                                                          *)
(* A verb is the set of its outcomes: the service as it leaves it, whether  *)
(* it returns Ok, and whether the queries it relied on were answered.  The  *)
(* first verb that fails ends the command; a command may be killed between  *)
(* two verbs.                                                               *)
(***************************************************************************)
EXTENDS Naturals, Sequences

CONSTANTS MaxCommands   \* bound: commands run

VARIABLES
  mode,      \* ServiceMode of this host
  svc,       \* [file, task, enabled, active]: unit file, registered task, manager state
  cmd,       \* the command: [name, left, dry, state, sure]
  rendering, \* which rendering the templates and the environment give now
  commands   \* commands run

installVars == <<mode, svc, cmd, rendering, commands>>

Modes == {"systemd", "launchd", "windows-task"}
NoCommand == [name |-> "none", left |-> <<>>, dry |-> FALSE, state |-> "idle", sure |-> TRUE]

InstallInit ==
  /\ mode \in Modes
  /\ svc = [file |-> 0, task |-> FALSE, enabled |-> FALSE, active |-> FALSE]
  /\ cmd = NoCommand /\ rendering = 1 /\ commands = 0

Did(s) == [svc |-> s, ok |-> TRUE, sure |-> TRUE]
Refused(s) == [svc |-> s, ok |-> FALSE, sure |-> TRUE]
\* The query failed, the verb reports "already" and does nothing.
Blind == [svc |-> svc, ok |-> TRUE, sure |-> FALSE]
BlindIf(there) == IF there THEN {Blind} ELSE {}

-----------------------------------------------------------------------------
(* systemd *)

\* An unchanged file is left alone; otherwise it is written to a temporary file,
\* synced, renamed, and the manager is asked to reload.
SystemdInstall == {Did([svc EXCEPT !.file = rendering]), Refused(svc)}

SystemdEnable ==
  {Refused(svc)} \cup IF svc.enabled \/ svc.file # 0 THEN {Did([svc EXCEPT !.enabled = TRUE])} ELSE {}

SystemdStart ==
  {Refused(svc)} \cup IF svc.active \/ svc.file # 0 THEN {Did([svc EXCEPT !.active = TRUE])} ELSE {}

SystemdStop == {Did([svc EXCEPT !.active = FALSE]), Refused(svc)} \cup BlindIf(svc.active)

SystemdDisable == {Did([svc EXCEPT !.enabled = FALSE]), Refused(svc)} \cup BlindIf(svc.enabled)

SystemdUninstall == {Did([svc EXCEPT !.file = 0]), Refused(svc)}

-----------------------------------------------------------------------------
(* launchd: enabled is bootstrapped into the gui domain *)

\* The plist must not hold shell variables; the logs directory is made first.
LaunchdInstall == {Did([svc EXCEPT !.file = rendering]), Refused(svc)}

\* bootstrap loads the plist; KeepAlive may start it at once.
LaunchdEnable ==
  {Refused(svc)} \cup
  IF svc.enabled THEN {Did(svc)}
  ELSE IF svc.file = 0 THEN {}
  ELSE {Did([svc EXCEPT !.enabled = TRUE, !.active = a]) : a \in {svc.active, TRUE}}

\* Bootstraps a plist that is there and not loaded, then kickstarts; the second may
\* fail after the first.
LaunchdStart ==
  LET loaded == svc.enabled \/ svc.file # 0
      booted == [svc EXCEPT !.enabled = loaded]
  IN {Refused(svc), Refused(booted)} \cup IF loaded THEN {Did([booted EXCEPT !.active = TRUE])} ELSE {}

\* kill SIGTERM; "could not find" and "no such process" are already stopped.
LaunchdStop == {Did([svc EXCEPT !.active = FALSE]), Refused(svc)}

\* bootout unloads the service and ends its process.
LaunchdDisable ==
  {Did(IF svc.enabled THEN [svc EXCEPT !.enabled = FALSE, !.active = FALSE] ELSE svc), Refused(svc)}
  \cup BlindIf(svc.enabled)

LaunchdUninstall == {Did([svc EXCEPT !.file = 0]), Refused(svc)}

-----------------------------------------------------------------------------
(* Windows task: the file is the XML, the task a copy of it that schtasks keeps *)

\* Writes the XML, always, and imports it: /F replaces a task that is there by one
\* that is not enabled.  Refused for a SYSTEM account.
TaskInstall ==
  LET written == [svc EXCEPT !.file = rendering]
  IN {Refused(svc), Refused(written), Did([written EXCEPT !.task = TRUE, !.enabled = FALSE])}

TaskEnable ==
  {Refused(svc)} \cup IF svc.task THEN {Did([svc EXCEPT !.enabled = TRUE])} ELSE {}

TaskStart ==
  {Refused(svc)} \cup BlindIf(svc.task)
  \cup {Did(IF svc.task THEN [svc EXCEPT !.active = TRUE] ELSE svc)}

TaskStop == {Did([svc EXCEPT !.active = FALSE]), Refused(svc)} \cup BlindIf(svc.task)

TaskDisable == {Did([svc EXCEPT !.enabled = FALSE]), Refused(svc)} \cup BlindIf(svc.task)

\* Deletes the task, then the file; a query that failed skips the first.
TaskUninstall ==
  LET deleted == [svc EXCEPT !.task = FALSE, !.enabled = FALSE]
  IN {Refused(svc), Refused(deleted), Did([deleted EXCEPT !.file = 0])}
     \cup IF svc.task THEN {[Blind EXCEPT !.svc = [svc EXCEPT !.file = 0]]} ELSE {}

-----------------------------------------------------------------------------
(* The command line *)

\* controller_for
Outcomes(verb) ==
  CASE mode = "systemd" ->
         [install |-> SystemdInstall, enable |-> SystemdEnable, start |-> SystemdStart,
          stop |-> SystemdStop, disable |-> SystemdDisable, uninstall |-> SystemdUninstall][verb]
    [] mode = "launchd" ->
         [install |-> LaunchdInstall, enable |-> LaunchdEnable, start |-> LaunchdStart,
          stop |-> LaunchdStop, disable |-> LaunchdDisable, uninstall |-> LaunchdUninstall][verb]
    [] mode = "windows-task" ->
         [install |-> TaskInstall, enable |-> TaskEnable, start |-> TaskStart,
          stop |-> TaskStop, disable |-> TaskDisable, uninstall |-> TaskUninstall][verb]

InstallVerbs(enable, start) ==
  <<"install">> \o (IF enable THEN <<"enable">> ELSE <<>>) \o (IF start THEN <<"start">> ELSE <<>>)

\* Mutant: relies on disable to stop the service, as bootout does.
MutUninstallVerbs == <<"disable", "uninstall">>

UninstallVerbs == <<"disable", "stop", "uninstall">>

\* run_install or run_uninstall begins: build_context may refuse.
Run ==
  /\ cmd.state # "running" /\ commands < MaxCommands /\ commands' = commands + 1
  /\ \E dry \in BOOLEAN, ok \in BOOLEAN :
       LET Command(name, verbs) ==
             cmd' = [name |-> name, left |-> verbs, dry |-> dry, sure |-> TRUE,
                     state |-> IF ok THEN "running" ELSE "error"]
       IN \/ \E enable, start \in BOOLEAN :
               Command(IF enable THEN "install --enable" ELSE "install", InstallVerbs(enable, start))
          \/ Command("uninstall", UninstallVerbs)
  /\ UNCHANGED <<mode, svc, rendering>>

\* The next verb; a dry run only says what it would do.
Verb ==
  /\ cmd.state = "running" /\ cmd.left # <<>>
  /\ \E out \in (IF cmd.dry THEN {Did(svc)} ELSE Outcomes(Head(cmd.left))) :
       /\ svc' = out.svc
       /\ cmd' = [cmd EXCEPT !.left = Tail(@), !.sure = @ /\ out.sure,
                             !.state = IF ~out.ok THEN "error"
                                       ELSE IF Len(cmd.left) = 1 THEN "ok" ELSE "running"]
  /\ UNCHANGED <<mode, rendering, commands>>

\* The command is killed between two verbs.
Killed ==
  /\ cmd.state = "running" /\ cmd' = [cmd EXCEPT !.state = "error"]
  /\ UNCHANGED <<mode, svc, rendering, commands>>

\* Between commands: a login starts what is enabled, the daemon stops by itself, the
\* binary or the configuration moves, so that the templates render differently.
Login ==
  /\ cmd.state # "running" /\ cmd' = NoCommand
  /\ \/ svc.enabled /\ svc' = [svc EXCEPT !.active = TRUE] /\ UNCHANGED rendering
     \/ svc' = [svc EXCEPT !.active = FALSE] /\ UNCHANGED rendering
     \/ rendering' = 3 - rendering /\ UNCHANGED svc
  /\ UNCHANGED <<mode, commands>>

InstallNext == Run \/ Verb \/ Killed \/ Login

InstallSpec == InstallInit /\ [][InstallNext]_installVars

-----------------------------------------------------------------------------
(* Properties *)

\* An uninstall that reports success, with every query it relied on answered, leaves
\* no file, no task, nothing enabled and nothing running, whatever earlier commands
\* failed or were killed half way.
UninstallComplete ==
  cmd.name = "uninstall" /\ cmd.state = "ok" /\ cmd.sure /\ ~cmd.dry =>
    svc = [file |-> 0, task |-> FALSE, enabled |-> FALSE, active |-> FALSE]

\* An install that reports success leaves the file of the current rendering, and with
\* --enable a service that is enabled.
InstallDelivers ==
  cmd.name \in {"install", "install --enable"} /\ cmd.state = "ok" /\ ~cmd.dry =>
    /\ svc.file = rendering
    /\ cmd.name = "install --enable" => svc.enabled

\* A command that reports success has done what it says, after any history of failures.
CommandsKeepTheirWord == UninstallComplete /\ InstallDelivers

=============================================================================
