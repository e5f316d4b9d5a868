------------------------------ MODULE MCTuiApp ------------------------------
(* The terminal UI: the daemon's sessions as the sidebar shows them, the session *)
(* pane, the notifications, the crons tab, and the configuration file it shares    *)
(* with the daemon.  As in MCDaemon, one run checks each part while the others     *)
(* stay in one initial state.                                                      *)
EXTENDS RpcSource, TuiSidebar, TuiAttach, NotifSub, CronsTab, ConfigFiles

VARIABLE part   \* the component that runs

vars == <<sourceVars, sideVars, attachVars, notifVars, cronVars, configVars, part>>

MCInit ==
  /\ SourceInit /\ SideInit /\ AttachInit /\ NotifInit /\ CronInit /\ ConfigInit
  /\ part \in {"source", "sidebar", "attach", "notif", "crons", "config"}
  /\ part = "source" \/ rows = cache
  /\ \A r, q \in Rows : r < q /\ rows[q] = "open" => rows[r] = "open"  \* rows are alike
  /\ part = "notif" \/ ~up
  /\ part = "config" \/ (host.xdg /\ ~host.own /\ \A p \in Places : disk[p] = NoFile)
  /\ disk[UiPath] # Unreadable  \* an edit makes it so
  /\ disk["cli"] # Malformed    \* the file of LAZYAGENTS_CONFIG may be

MCNext ==
  /\ UNCHANGED part
  /\ \/ part = "source" /\ SourceNext /\ UNCHANGED <<sideVars, attachVars, notifVars, cronVars, configVars>>
     \/ part = "sidebar" /\ SideNext /\ UNCHANGED <<sourceVars, attachVars, notifVars, cronVars, configVars>>
     \/ part = "attach" /\ AttachNext /\ UNCHANGED <<sourceVars, sideVars, notifVars, cronVars, configVars>>
     \/ part = "notif" /\ NotifNext /\ UNCHANGED <<sourceVars, sideVars, attachVars, cronVars, configVars>>
     \/ part = "crons" /\ CronNext /\ UNCHANGED <<sourceVars, sideVars, attachVars, notifVars, configVars>>
     \/ part = "config" /\ ConfigNext /\ UNCHANGED <<sourceVars, sideVars, attachVars, notifVars, cronVars>>

\* SourceFairness and NotifFairness, each of the component that runs.
PartFairness ==
  /\ WF_sourceVars(part = "source" /\ UiStep)
  /\ WF_sourceVars(part = "source" /\ (ThreadStep \/ RequestFails))
  /\ WF_notifVars(part = "notif" /\ SubStep)
  /\ SF_notifVars(part = "notif" /\ Pulse)
  /\ WF_notifVars(part = "notif" /\ DrainEvents)

MCSpec == MCInit /\ [][MCNext]_vars /\ PartFairness

=============================================================================
