------------------------------ MODULE TuiAttach ------------------------------
(***************************************************************************)
(* The session pane of the terminal UI.  The App records what the user     *)
(* wants (la-tui/app.rs: attached, focus, tab, modal); once a frame the     *)
(* runner brings its pump thread in line and applies what the pumps sent    *)
(* (la-tui/runner.rs: reconcile_attach, drain_attach, AttachRuntime).  The  *)
(* pump is its life cycle only (la-tui/attach_pump.rs: driver): what it     *)
(* carries is AttachStream's.                                               *)
(***************************************************************************)
EXTENDS Naturals, Sequences, FiniteSets

CONSTANTS
  Sessions,  \* the sessions of the sidebar
  MaxPumps   \* bound: pumps spawned

ASSUME PaneAssumption == 0 \notin Sessions /\ MaxPumps \in Nat

VARIABLES
  app,      \* [tab, focus, modal, s, st]: s = 0 when nothing is attached
  rt,       \* AttachRuntime: [s, pump, frozen], pump = 0 for None
  pumps,    \* per pump [s, at, retried, told, inbox]
  turn,     \* event_loop: "reconcile", "drain", "poll", "quit"
  typed,    \* history: the last key sent to a pump: [to, shown]
  swallowed \* history: a modal swallowed the Closed of these pumps

attachVars == <<app, rt, pumps, turn, typed, swallowed>>

PumpIds == 1..MaxPumps
NoPump == [s |-> 0, at |-> "none", retried |-> FALSE, told |-> FALSE, inbox |-> <<>>]
NoRt == [s |-> 0, pump |-> 0, frozen |-> FALSE]

AttachInit ==
  /\ app = [tab |-> "sessions", focus |-> "sidebar", modal |-> FALSE, s |-> 0, st |-> "none"]
  /\ rt = NoRt /\ pumps = [p \in PumpIds |-> NoPump] /\ turn = "reconcile"
  /\ typed = [to |-> 0, shown |-> 0] /\ swallowed = {}

-----------------------------------------------------------------------------
(* The pumps *)

\* Once the runner has dropped the runtime, nobody receives.
Sends(p, to, events) ==
  /\ pumps' = [pumps EXCEPT ![p].at = to, ![p].inbox = IF p = rt.pump THEN @ \o events ELSE <<>>,
                            ![p].retried = @ \/ events[1] = "retrying"]
  /\ UNCHANGED <<app, rt, turn, typed, swallowed>>

PumpConnects(p) == pumps[p].at = "dial" /\ Sends(p, "live", <<"connected">>)

\* One retry, ever.
PumpLost(p) ==
  /\ pumps[p].at \in {"dial", "live"}
  /\ IF pumps[p].retried THEN Sends(p, "ended", <<"lost", "closed">>)
     ELSE Sends(p, "dial", <<"retrying">>)

\* A connected pump finds the Detach command.
PumpStops(p) == pumps[p].at = "live" /\ pumps[p].told /\ Sends(p, "ended", <<"closed">>)

-----------------------------------------------------------------------------
(* One turn of event_loop *)

Told(p) == [pumps EXCEPT ![p].told = TRUE]
Dropped(p) == [pumps EXCEPT ![p].told = TRUE, ![p].inbox = <<>>]
Spawned(ps, p) == [ps EXCEPT ![p] = [NoPump EXCEPT !.s = app.s, !.at = "dial"]]
Spare == {p \in PumpIds : pumps[p].at = "none" /\ \A q \in 1..(p - 1) : pumps[q].at # "none"}

\* Stop the pump we own, if any, and spawn one for the session the App wants.
Replace ==
  \E p \in Spare :
    /\ pumps' = Spawned(IF rt.pump = 0 THEN pumps ELSE Dropped(rt.pump), p)
    /\ rt' = [s |-> app.s, pump |-> p, frozen |-> FALSE]

\* Mutant: a runtime for another session is taken for the wanted one.
MutReconcile ==
  /\ turn = "reconcile" /\ turn' = "drain"
  /\ CASE app.s = 0 /\ rt.pump # 0 -> pumps' = Dropped(rt.pump) /\ rt' = NoRt
       [] app.s # 0 /\ rt.pump = 0 -> Replace
       [] OTHER -> UNCHANGED <<pumps, rt>>
  /\ UNCHANGED <<app, typed, swallowed>>

\* reconcile_attach, then the frame is drawn.
Reconcile ==
  /\ turn = "reconcile" /\ turn' = "drain"
  /\ CASE app.s = 0 /\ rt.pump # 0 -> pumps' = Dropped(rt.pump) /\ rt' = NoRt
       [] app.s # 0 /\ (rt.s # app.s \/ (rt.frozen /\ app.st # "detached")) -> Replace
       [] app.s # 0 /\ rt.s = app.s /\ app.st = "detached" /\ ~rt.frozen ->
            pumps' = Told(rt.pump) /\ rt' = [rt EXCEPT !.frozen = TRUE]
       [] OTHER -> UNCHANGED <<pumps, rt>>
  /\ UNCHANGED <<app, typed, swallowed>>

\* AttachConnected, AttachDisconnected, AttachClosed: App::handle.  While a modal is
\* open they end in handle_in_modal, which ignores them.
Apply(a, e) ==
  CASE ~a.modal /\ e = "closed" /\ a.st # "detached" -> [a EXCEPT !.s = 0, !.st = "none", !.focus = "sidebar"]
    [] ~a.modal /\ e # "closed" /\ a.s = rt.s -> [a EXCEPT !.st = e]
    [] OTHER -> a

\* drain_attach applies what is in the channel, event by event, while the pump goes on
\* sending, until it finds the channel empty.
DrainEvent ==
  /\ turn = "drain" /\ rt.pump # 0 /\ pumps[rt.pump].inbox # <<>>
  /\ app' = Apply(app, Head(pumps[rt.pump].inbox))
  /\ pumps' = [pumps EXCEPT ![rt.pump].inbox = Tail(@)]
  /\ swallowed' = IF app.modal /\ Head(pumps[rt.pump].inbox) = "closed"
                  THEN swallowed \cup {rt.pump} ELSE swallowed
  /\ UNCHANGED <<rt, turn, typed>>

DrainEnds ==
  /\ turn = "drain" /\ turn' = "poll"
  /\ rt.pump # 0 => pumps[rt.pump].inbox = <<>>
  /\ UNCHANGED <<app, rt, pumps, typed, swallowed>>

-----------------------------------------------------------------------------
(* Keys and clicks *)

InPane == app.focus = "transcript" /\ ~app.modal /\ rt.pump # 0
Handled(a) == turn = "poll" /\ turn' = "reconcile" /\ app' = a /\ UNCHANGED <<rt, pumps, swallowed>>

PollEnds == Handled(app) /\ UNCHANGED typed

\* feed_key: everything but Ctrl+\ goes to the pump of the runtime.
TypeKey == InPane /\ Handled(app) /\ typed' = [to |-> pumps[rt.pump].s, shown |-> app.s]

Detach ==
  /\ InPane /\ app.s # 0 /\ app.st # "detached"
  /\ Handled([app EXCEPT !.st = "detached", !.focus = "sidebar"]) /\ UNCHANGED typed

\* on_enter on a session row; a session we are attached to is left alone.
EnterRow ==
  /\ ~InPane /\ ~app.modal /\ app.tab = "sessions"
  /\ \E s \in Sessions :
       /\ app.s # s \/ app.st = "detached"
       /\ Handled([app EXCEPT !.s = s, !.st = "connecting", !.focus = "transcript"])
  /\ UNCHANGED typed

\* A click on a tab, or its keys: focus goes to the list; from there the cron editor.
SetTab ==
  /\ ~app.modal
  /\ \E t \in {"sessions", "crons"} : Handled([app EXCEPT !.tab = t, !.focus = "sidebar"])
  /\ UNCHANGED typed

FocusEditor ==
  /\ ~InPane /\ ~app.modal /\ app.tab = "crons"
  /\ Handled([app EXCEPT !.focus = IF @ = "main" THEN "sidebar" ELSE "main"]) /\ UNCHANGED typed

ToggleModal == ~InPane /\ Handled([app EXCEPT !.modal = ~@]) /\ UNCHANGED typed

\* Quit: best effort detach.
QuitApp ==
  /\ turn = "poll" /\ ~InPane /\ turn' = "quit"
  /\ pumps' = (IF rt.pump = 0 THEN pumps ELSE Dropped(rt.pump)) /\ rt' = NoRt
  /\ UNCHANGED <<app, typed, swallowed>>

UserStep == TypeKey \/ Detach \/ EnterRow \/ SetTab \/ FocusEditor \/ ToggleModal \/ QuitApp

AttachNext ==
  \/ \E p \in PumpIds : PumpConnects(p) \/ PumpLost(p) \/ PumpStops(p)
  \/ Reconcile \/ DrainEvent \/ DrainEnds \/ PollEnds \/ UserStep

AttachSpec == AttachInit /\ [][AttachNext]_attachVars

-----------------------------------------------------------------------------
(* Properties *)

\* A key typed in the pane goes to the session attached, whose output the pane shows.
KeysGoToShown == typed.to = typed.shown

\* At most one pump has not been told to stop: switching, detaching and reattaching
\* leave no second client holding the input of a session.
OnePump == Cardinality({p \in PumpIds : pumps[p].at \in {"dial", "live"} /\ ~pumps[p].told}) <= 1

\* The pane of a pump that has ended is left or frozen by the time keys are read again,
\* unless a modal swallowed the news, or on_enter put the row back to "connecting" before
\* reconcile_attach had dropped the pump.
DeadPaneIsLeft ==
  turn = "poll" /\ rt.pump # 0 /\ pumps[rt.pump].at = "ended" /\ pumps[rt.pump].inbox = <<>>
    => app.s = 0 \/ app.st \in {"detached", "connecting"} \/ rt.pump \in swallowed

\* The pane, the pump and the keys belong to one session.
PaneFollowsPump == KeysGoToShown /\ OnePump /\ DeadPaneIsLeft

=============================================================================
